----------------------- MODULE CompanyHealthProofs -----------------------
(***************************************************************************)
(* Proofs about CompanyHealth and CompanyDetails, for any companies,       *)
(* ranges, thresholds and facts: the rolling windows count two adjacent    *)
(* periods exactly, and every point of a trend is the number of companies  *)
(* at risk that a report for the period ending that day would give, as     *)
(* long as the facts do not change during the build.  The daily series of  *)
(* the cards add up to, or end at, the figures shown next to them.         *)
(***************************************************************************)
EXTENDS CompanyDetails, FiniteSetTheorems, WellFoundedInduction, TLAPS

----------------------------------------------------------------------------
(* Days and facts.                                                         *)

LEMMA FactTyped ==
    \A f \in Facts : /\ f.day \in Int /\ f.company \in Companies /\ f.user \in Users \cup {None}
                     /\ f.area \in Areas \cup {None} /\ f.engaged \in BOOLEAN
BY CompanyHealthAssumption DEF Fact

LEMMA LengthsPositive == Lengths \subseteq Nat \ {0}
BY CompanyHealthAssumption DEF Lengths

LEMMA DaysFinite ==
    ASSUME NEW S, NEW D, IsFiniteSet(D)
    PROVE  IsFiniteSet(DaysOf(S, D)) /\ Cardinality(DaysOf(S, D)) \in Nat
<1>1. DaysOf(S, D) \in SUBSET D
  BY DEF DaysOf
<1> QED
  BY <1>1, FS_Subset, FS_CardinalityType

\* A day is counted once, when some fact is on it.
LEMMA DaysWith ==
    ASSUME NEW S, NEW D, IsFiniteSet(D), NEW day, day \notin D
    PROVE  Cardinality(DaysOf(S, D \cup {day})) =
               IF \E f \in S : f.day = day THEN Cardinality(DaysOf(S, D)) + 1
                                           ELSE Cardinality(DaysOf(S, D))
<1>1. IsFiniteSet(DaysOf(S, D)) /\ day \notin DaysOf(S, D)
  BY DaysFinite DEF DaysOf
<1>2. CASE \E f \in S : f.day = day
  <2>1. DaysOf(S, D \cup {day}) = DaysOf(S, D) \cup {day}
    BY <1>2 DEF DaysOf
  <2> QED
    BY <1>1, <1>2, <2>1, FS_AddElement
<1>3. CASE ~ \E f \in S : f.day = day
  <2>1. DaysOf(S, D \cup {day}) = DaysOf(S, D)
    BY <1>3 DEF DaysOf
  <2> QED
    BY <1>3, <2>1
<1> QED
  BY <1>2, <1>3

LEMMA DaysWithout ==
    ASSUME NEW S, NEW D, IsFiniteSet(D), NEW day \in D
    PROVE  Cardinality(DaysOf(S, D \ {day})) =
               IF \E f \in S : f.day = day THEN Cardinality(DaysOf(S, D)) - 1
                                           ELSE Cardinality(DaysOf(S, D))
<1>1. IsFiniteSet(DaysOf(S, D))
  BY DaysFinite
<1>2. CASE \E f \in S : f.day = day
  <2>1. DaysOf(S, D \ {day}) = DaysOf(S, D) \ {day}
    BY DEF DaysOf
  <2>2. day \in DaysOf(S, D)
    BY <1>2 DEF DaysOf
  <2> QED
    BY <1>1, <1>2, <2>1, <2>2, FS_RemoveElement
<1>3. CASE ~ \E f \in S : f.day = day
  <2>1. DaysOf(S, D \ {day}) = DaysOf(S, D)
    BY <1>3 DEF DaysOf
  <2> QED
    BY <1>3, <2>1
<1> QED
  BY <1>2, <1>3

\* Where a day is counted at all, one less is no less than zero.
LEMMA DayCounted ==
    ASSUME NEW S, NEW D, IsFiniteSet(D), NEW day \in D, \E f \in S : f.day = day
    PROVE  Cardinality(DaysOf(S, D)) > 0
<1>1. IsFiniteSet(DaysOf(S, D)) /\ DaysOf(S, D) # {} /\ Cardinality(DaysOf(S, D)) \in Nat
  BY DaysFinite DEF DaysOf
<1> QED
  BY <1>1, FS_EmptySet

\* The engagement of facts.
LEMMA FactsFinite ==
    ASSUME NEW F, F \subseteq Facts
    PROVE  IsFiniteSet(F) /\ Cardinality(F) \in Nat
BY CompanyHealthAssumption, FS_Subset, FS_CardinalityType

LEMMA EngagementNat ==
    ASSUME NEW F, F \subseteq Facts, NEW c
    PROVE  Engagement(F, c) \in Nat
BY FactsFinite DEF Engagement, OfCompany

LEMMA EngagementWith ==
    ASSUME NEW L, L \subseteq Facts, NEW D, NEW day, day \notin D, NEW c
    PROVE  Engagement(During(L, D \cup {day}), c)
               = Engagement(During(L, D), c) + Engagement(During(L, {day}), c)
<1> DEFINE E(days) == {f \in OfCompany(During(L, days), c) : f.engaged}
<1>1. IsFiniteSet(E(D)) /\ IsFiniteSet(E({day}))
  BY FactsFinite DEF OfCompany, During
<1>2. E(D \cup {day}) = E(D) \cup E({day}) /\ E(D) \cap E({day}) = {}
  BY DEF OfCompany, During
<1> HIDE DEF E
<1>3. Cardinality(E(D)) \in Nat /\ Cardinality(E({day})) \in Nat
  BY <1>1, FS_CardinalityType
<1>4. Cardinality(E(D) \cup E({day})) = Cardinality(E(D)) + Cardinality(E({day})) - Cardinality(E(D) \cap E({day}))
  BY <1>1, FS_Union
<1>5. Cardinality(E(D) \cap E({day})) = 0
  BY <1>2, FS_EmptySet
<1>6. Cardinality(E(D \cup {day})) = Cardinality(E(D)) + Cardinality(E({day}))
  <2>1. Cardinality(E(D \cup {day})) = Cardinality(E(D) \cup E({day}))
    BY <1>2
  <2> QED
    BY <2>1, <1>3, <1>4, <1>5
<1> QED
  BY <1>6 DEF Engagement, E

LEMMA EngagementWithout ==
    ASSUME NEW L, L \subseteq Facts, NEW D, NEW day \in D, NEW c
    PROVE  Engagement(During(L, D \ {day}), c)
               = Engagement(During(L, D), c) - Engagement(During(L, {day}), c)
<1>1. Engagement(During(L, (D \ {day}) \cup {day}), c)
          = Engagement(During(L, D \ {day}), c) + Engagement(During(L, {day}), c)
  BY EngagementWith
<1>2. (D \ {day}) \cup {day} = D
  OBVIOUS
<1>3. During(L, D \ {day}) \subseteq Facts /\ During(L, {day}) \subseteq Facts
  BY DEF During
<1>4. /\ Engagement(During(L, D \ {day}), c) \in Nat
      /\ Engagement(During(L, {day}), c) \in Nat
  BY <1>3, EngagementNat
<1>5. Engagement(During(L, D), c)
          = Engagement(During(L, D \ {day}), c) + Engagement(During(L, {day}), c)
  BY <1>1, <1>2
<1> QED
  BY <1>4, <1>5

----------------------------------------------------------------------------
(* A day enters a window, or leaves it.                                    *)

\* A window with a day more or less is a window if its counters are natural.
LEMMA AdjustedWindow ==
    ASSUME NEW w, NEW L, NEW day, NEW direction,
           \A c \in Companies : /\ AdjustDay(w, L, day, direction).days[c] \in Nat
                                /\ AdjustDay(w, L, day, direction).engaged[c] \in Nat,
           \A k \in Companies \X Areas : AdjustDay(w, L, day, direction).areas[k] \in Nat,
           \A k \in Companies \X Users : AdjustDay(w, L, day, direction).users[k] \in Nat
    PROVE  AdjustDay(w, L, day, direction) \in Window
<1> DEFINE v == AdjustDay(w, L, day, direction)
<1>1. v = [days |-> v.days, engaged |-> v.engaged, areas |-> v.areas, users |-> v.users]
  BY DEF AdjustDay
<1>2. /\ v.days = [c \in Companies |-> v.days[c]]
      /\ v.engaged = [c \in Companies |-> v.engaged[c]]
      /\ v.areas = [k \in Companies \X Areas |-> v.areas[k]]
      /\ v.users = [k \in Companies \X Users |-> v.users[k]]
  BY DEF AdjustDay
<1> HIDE DEF v
<1>3. /\ v.days \in [Companies -> Nat] /\ v.engaged \in [Companies -> Nat]
      /\ v.areas \in [Companies \X Areas -> Nat] /\ v.users \in [Companies \X Users -> Nat]
  BY <1>2 DEF v
<1>4. v \in Window
  BY <1>1, <1>3 DEF Window
<1> QED
  BY <1>4 DEF v

LEMMA AdjustedEngagement ==
    ASSUME NEW w, NEW L, NEW day, NEW direction, NEW c \in Companies
    PROVE  AdjustDay(w, L, day, direction).engaged[c]
               = AdjustCount(w.engaged[c], direction * Engagement(During(L, {day}), c))
BY DEF AdjustDay

LEMMA DayEnters ==
    ASSUME NEW w \in Window, NEW L, L \subseteq Facts, NEW D, IsFiniteSet(D),
           NEW day, day \notin D, Counts(w, L, D)
    PROVE  /\ AdjustDay(w, L, day, 1) \in Window
           /\ Counts(AdjustDay(w, L, day, 1), L, D \cup {day})
<1> DEFINE v == AdjustDay(w, L, day, 1)
           T == During(L, {day})
<1>1. \A c \in Companies : w.days[c] \in Nat /\ w.engaged[c] \in Nat
  BY DEF Window
<1>2. \A k \in Companies \X Areas : w.areas[k] \in Nat
  BY DEF Window
<1>3. \A k \in Companies \X Users : w.users[k] \in Nat
  BY DEF Window
<1>4. \A c \in Companies : Engagement(T, c) \in Nat
  BY EngagementNat DEF During
<1>5. \A c \in Companies : v.days[c] = IF \E f \in OfCompany(L, c) : f.day = day
                                      THEN w.days[c] + 1 ELSE w.days[c]
  BY <1>1 DEF AdjustDay, AdjustCount, OfCompany, During
<1>6. \A c \in Companies : v.engaged[c] = w.engaged[c] + Engagement(T, c)
  BY <1>1, <1>4 DEF AdjustDay, AdjustCount
<1>7. \A k \in Companies \X Areas :
         v.areas[k] = IF \E f \in InArea(L, k[1], k[2]) : f.day = day
                      THEN w.areas[k] + 1 ELSE w.areas[k]
  <2> SUFFICES ASSUME NEW k \in Companies \X Areas
               PROVE  v.areas[k] = IF \E f \in InArea(L, k[1], k[2]) : f.day = day
                                   THEN w.areas[k] + 1 ELSE w.areas[k]
    OBVIOUS
  <2>1. k[2] \in AreasIn(T, k[1]) <=> \E f \in InArea(L, k[1], k[2]) : f.day = day
    BY CompanyHealthAssumption DEF AreasIn, InArea, OfCompany, During
  <2> QED
    BY <1>2, <2>1 DEF AdjustDay, AdjustCount
<1>8. \A k \in Companies \X Users :
         v.users[k] = IF \E f \in OfUser(L, k[1], k[2]) : f.day = day
                      THEN w.users[k] + 1 ELSE w.users[k]
  <2> SUFFICES ASSUME NEW k \in Companies \X Users
               PROVE  v.users[k] = IF \E f \in OfUser(L, k[1], k[2]) : f.day = day
                                   THEN w.users[k] + 1 ELSE w.users[k]
    OBVIOUS
  <2>1. k[2] \in UsersIn(T, k[1]) <=> \E f \in OfUser(L, k[1], k[2]) : f.day = day
    BY CompanyHealthAssumption DEF UsersIn, OfUser, OfCompany, During
  <2> QED
    BY <1>3, <2>1 DEF AdjustDay, AdjustCount
<1>9. v \in Window
  <2>1. \A c \in Companies : v.days[c] \in Nat /\ v.engaged[c] \in Nat
    BY <1>1, <1>4, <1>5, <1>6
  <2>2. /\ \A k \in Companies \X Areas : v.areas[k] \in Nat
        /\ \A k \in Companies \X Users : v.users[k] \in Nat
    BY <1>2, <1>3, <1>7, <1>8
  <2> HIDE DEF v
  <2> QED
    BY <2>1, <2>2, AdjustedWindow DEF v
<1>10. Counts(v, L, D \cup {day})
  <2>1. \A c \in Companies : v.days[c] = Cardinality(DaysOf(OfCompany(L, c), D \cup {day}))
    BY <1>5, DaysWith DEF Counts
  <2>2. \A c \in Companies : v.engaged[c] = Engagement(During(L, D \cup {day}), c)
    <3>1. \A c \in Companies : w.engaged[c] = Engagement(During(L, D), c)
      BY DEF Counts
    <3> QED
      BY <1>6, <3>1, EngagementWith
  <2>3. \A k \in Companies \X Areas :
           v.areas[k] = Cardinality(DaysOf(InArea(L, k[1], k[2]), D \cup {day}))
    BY <1>7, DaysWith DEF Counts
  <2>4. \A k \in Companies \X Users :
           v.users[k] = Cardinality(DaysOf(OfUser(L, k[1], k[2]), D \cup {day}))
    BY <1>8, DaysWith DEF Counts
  <2> QED
    BY <2>1, <2>2, <2>3, <2>4 DEF Counts
<1> QED
  BY <1>9, <1>10

LEMMA DayLeaves ==
    ASSUME NEW w \in Window, NEW L, L \subseteq Facts, NEW D, IsFiniteSet(D),
           NEW day \in D, Counts(w, L, D)
    PROVE  /\ AdjustDay(w, L, day, -1) \in Window
           /\ Counts(AdjustDay(w, L, day, -1), L, D \ {day})
<1> DEFINE v == AdjustDay(w, L, day, -1)
           T == During(L, {day})
<1>1. \A c \in Companies : w.days[c] \in Nat /\ w.engaged[c] \in Nat
  BY DEF Window
<1>2. \A k \in Companies \X Areas : w.areas[k] \in Nat
  BY DEF Window
<1>3. \A k \in Companies \X Users : w.users[k] \in Nat
  BY DEF Window
<1>4. \A c \in Companies : /\ Engagement(T, c) \in Nat
                           /\ Engagement(During(L, D \ {day}), c) \in Nat
                           /\ Engagement(During(L, D \ {day}), c) = w.engaged[c] - Engagement(T, c)
  <2>1. T \subseteq Facts /\ During(L, D \ {day}) \subseteq Facts
    BY DEF During
  <2>2. \A c \in Companies : w.engaged[c] = Engagement(During(L, D), c)
    BY DEF Counts
  <2>3. \A c \in Companies : /\ Engagement(T, c) \in Nat
                             /\ Engagement(During(L, D \ {day}), c) \in Nat
    BY <2>1, EngagementNat
  <2>4. \A c \in Companies : Engagement(During(L, D \ {day}), c)
                                 = Engagement(During(L, D), c) - Engagement(T, c)
    BY EngagementWithout
  <2> QED
    BY <2>2, <2>3, <2>4
<1>5. \A c \in Companies :
         /\ v.days[c] = IF \E f \in OfCompany(L, c) : f.day = day THEN w.days[c] - 1 ELSE w.days[c]
         /\ v.days[c] \in Nat
  <2> SUFFICES ASSUME NEW c \in Companies
               PROVE  /\ v.days[c] = IF \E f \in OfCompany(L, c) : f.day = day
                                     THEN w.days[c] - 1 ELSE w.days[c]
                      /\ v.days[c] \in Nat
    OBVIOUS
  <2>1. (\E f \in OfCompany(L, c) : f.day = day) => w.days[c] > 0
    BY DayCounted DEF Counts
  <2> QED
    BY <1>1, <2>1 DEF AdjustDay, AdjustCount, OfCompany, During
<1>6. \A c \in Companies : v.engaged[c] = Engagement(During(L, D \ {day}), c)
  <2> SUFFICES ASSUME NEW c \in Companies
               PROVE  v.engaged[c] = Engagement(During(L, D \ {day}), c)
    OBVIOUS
  <2>1. v.engaged[c] = AdjustCount(w.engaged[c], (-1) * Engagement(T, c))
    BY AdjustedEngagement
  <2> HIDE DEF T, v
  <2>2. (-1) * Engagement(T, c) = - Engagement(T, c)
    BY <1>4
  <2>3. AdjustCount(w.engaged[c], - Engagement(T, c)) = w.engaged[c] - Engagement(T, c)
    BY <1>1, <1>4 DEF AdjustCount
  <2> QED
    BY <1>4, <2>1, <2>2, <2>3
<1>7. \A k \in Companies \X Areas :
         /\ v.areas[k] = IF \E f \in InArea(L, k[1], k[2]) : f.day = day
                         THEN w.areas[k] - 1 ELSE w.areas[k]
         /\ v.areas[k] \in Nat
  <2> SUFFICES ASSUME NEW k \in Companies \X Areas
               PROVE  /\ v.areas[k] = IF \E f \in InArea(L, k[1], k[2]) : f.day = day
                                      THEN w.areas[k] - 1 ELSE w.areas[k]
                      /\ v.areas[k] \in Nat
    OBVIOUS
  <2>1. k[2] \in AreasIn(T, k[1]) <=> \E f \in InArea(L, k[1], k[2]) : f.day = day
    BY CompanyHealthAssumption DEF AreasIn, InArea, OfCompany, During
  <2>2. (\E f \in InArea(L, k[1], k[2]) : f.day = day) => w.areas[k] > 0
    BY DayCounted DEF Counts
  <2> QED
    BY <1>2, <2>1, <2>2 DEF AdjustDay, AdjustCount
<1>8. \A k \in Companies \X Users :
         /\ v.users[k] = IF \E f \in OfUser(L, k[1], k[2]) : f.day = day
                         THEN w.users[k] - 1 ELSE w.users[k]
         /\ v.users[k] \in Nat
  <2> SUFFICES ASSUME NEW k \in Companies \X Users
               PROVE  /\ v.users[k] = IF \E f \in OfUser(L, k[1], k[2]) : f.day = day
                                      THEN w.users[k] - 1 ELSE w.users[k]
                      /\ v.users[k] \in Nat
    OBVIOUS
  <2>1. k[2] \in UsersIn(T, k[1]) <=> \E f \in OfUser(L, k[1], k[2]) : f.day = day
    BY CompanyHealthAssumption DEF UsersIn, OfUser, OfCompany, During
  <2>2. (\E f \in OfUser(L, k[1], k[2]) : f.day = day) => w.users[k] > 0
    BY DayCounted DEF Counts
  <2> QED
    BY <1>3, <2>1, <2>2 DEF AdjustDay, AdjustCount
<1>9. v \in Window
  BY <1>1, <1>4, <1>5, <1>6, <1>7, <1>8, AdjustedWindow
<1>10. Counts(v, L, D \ {day})
  <2>1. \A c \in Companies : v.days[c] = Cardinality(DaysOf(OfCompany(L, c), D \ {day}))
    BY <1>5, DaysWithout DEF Counts
  <2>3. \A k \in Companies \X Areas :
           v.areas[k] = Cardinality(DaysOf(InArea(L, k[1], k[2]), D \ {day}))
    BY <1>7, DaysWithout DEF Counts
  <2>4. \A k \in Companies \X Users :
           v.users[k] = Cardinality(DaysOf(OfUser(L, k[1], k[2]), D \ {day}))
    BY <1>8, DaysWithout DEF Counts
  <2> QED
    BY <1>6, <2>1, <2>3, <2>4 DEF Counts
<1> QED
  BY <1>9, <1>10

----------------------------------------------------------------------------
(* What exact windows give.  F are the facts, L the loaded ones.           *)

SameDuring(L, F, days) == \A f \in Facts : f.day \in days => (f \in L <=> f \in F)

LEMMA SameFacts ==
    ASSUME NEW L, L \subseteq Facts, NEW F, F \subseteq Facts, NEW days, SameDuring(L, F, days)
    PROVE  During(L, days) = During(F, days)
BY DEF SameDuring, During

LEMMA Counted ==
    ASSUME NEW S, NEW D, IsFiniteSet(D)
    PROVE  Cardinality(DaysOf(S, D)) > 0 <=> \E f \in S : f.day \in D
<1>1. IsFiniteSet(DaysOf(S, D)) /\ Cardinality(DaysOf(S, D)) \in Nat
  BY DaysFinite
<1>2. Cardinality(DaysOf(S, D)) = 0 <=> DaysOf(S, D) = {}
  BY <1>1, FS_EmptySet
<1>3. DaysOf(S, D) # {} <=> \E f \in S : f.day \in D
  BY DEF DaysOf
<1> QED
  BY <1>1, <1>2, <1>3

LEMMA RowExact ==
    ASSUME NEW w, NEW L, L \subseteq Facts, NEW F, F \subseteq Facts,
           NEW D, IsFiniteSet(D), Counts(w, L, D), SameDuring(L, F, D), NEW c \in Companies
    PROVE  /\ c \in InWindow(w) <=> c \in ActiveCompanies(During(F, D))
           /\ WindowRow(w, c) = RowOf(During(F, D), c)
<1>1. During(L, D) = During(F, D)
  BY SameFacts
<1>2. w.days[c] > 0 <=> \E f \in OfCompany(L, c) : f.day \in D
  BY Counted DEF Counts
<1>3. \A u \in Users : w.users[<<c, u>>] > 0 <=> \E f \in OfUser(L, c, u) : f.day \in D
  <2> SUFFICES ASSUME NEW u \in Users
               PROVE  w.users[<<c, u>>] > 0 <=> \E f \in OfUser(L, c, u) : f.day \in D
    OBVIOUS
  <2>1. w.users[<<c, u>>] = Cardinality(DaysOf(OfUser(L, c, u), D))
    BY DEF Counts
  <2> QED
    BY <2>1, Counted
<1>4. \A a \in Areas : w.areas[<<c, a>>] > 0 <=> \E f \in InArea(L, c, a) : f.day \in D
  <2> SUFFICES ASSUME NEW a \in Areas
               PROVE  w.areas[<<c, a>>] > 0 <=> \E f \in InArea(L, c, a) : f.day \in D
    OBVIOUS
  <2>1. w.areas[<<c, a>>] = Cardinality(DaysOf(InArea(L, c, a), D))
    BY DEF Counts
  <2> QED
    BY <2>1, Counted
<1>5. c \in InWindow(w) <=> \E f \in OfCompany(L, c) : f.day \in D
  BY <1>2, <1>3 DEF InWindow, OfUser
<1>6. c \in ActiveCompanies(During(L, D)) <=> \E f \in OfCompany(L, c) : f.day \in D
  BY DEF ActiveCompanies, During, OfCompany
<1>7. {u \in Users : w.users[<<c, u>>] > 0} = UsersIn(During(L, D), c)
  BY <1>3, FactTyped, CompanyHealthAssumption DEF OfUser, UsersIn, During, OfCompany
<1>8. {a \in Areas : w.areas[<<c, a>>] > 0} = AreasIn(During(L, D), c)
  BY <1>4, FactTyped, CompanyHealthAssumption DEF InArea, AreasIn, During, OfCompany
<1>9. w.engaged[c] = Engagement(During(L, D), c)
  BY DEF Counts
<1>10. WindowRow(w, c) = RowOf(During(L, D), c)
  BY <1>7, <1>8, <1>9 DEF WindowRow, RowOf
<1> QED
  BY <1>1, <1>5, <1>6, <1>10

\* Days before the window, and after it, say nothing about when a company of
\* the window was last seen.
LEMMA StaleExact ==
    ASSUME NEW L, L \subseteq Facts, NEW F, F \subseteq Facts,
           NEW from \in Int, NEW to \in Int, NEW n \in Lengths,
           SameDuring(L, F, from .. to), NEW c
    PROVE  Stale(DatesOf(L, c), from, to, n) <=> Stale(DatesOf(During(F, from .. to), c), from, to, n)
<1> DEFINE A == DatesOf(L, c)
           B == DatesOf(During(F, from .. to), c)
<1>1. A \subseteq Int /\ B \subseteq Int
  BY FactTyped DEF DatesOf, During, OfCompany
<1>2. \A d : d \in B <=> d \in A /\ d \in from .. to
  <2>1. B = DatesOf(During(L, from .. to), c)
    BY SameFacts
  <2> QED
    BY <2>1 DEF DatesOf, During, OfCompany
<1>3. StaleAfter(n) \in Nat
  BY CompanyHealthAssumption
<1> HIDE DEF A, B
<1>4. Stale(A, from, to, n) => Stale(B, from, to, n)
  BY <1>2 DEF Stale
<1>5. ASSUME Stale(B, from, to, n)
      PROVE  Stale(A, from, to, n)
  <2>1. PICK e \in B : e \in from .. to
    BY <1>5 DEF Stale
  <2>2. e <= to /\ to - e >= StaleAfter(n) /\ e \in Int /\ e \in A
    BY <1>1, <1>2, <1>5, <2>1 DEF Stale
  <2>3. ASSUME NEW d \in A, d <= to
        PROVE  to - d >= StaleAfter(n)
    <3>1. d \in Int
      BY <1>1
    <3>2. CASE d \in from .. to
      BY <1>2, <1>5, <2>3, <3>2 DEF Stale
    <3>3. CASE d \notin from .. to
      <4>1. d < from /\ d <= e
        BY <2>1, <2>2, <2>3, <3>1, <3>3
      <4> QED
        BY <1>3, <2>2, <3>1, <4>1
    <3> QED
      BY <3>2, <3>3
  <2> QED
    BY <1>5, <2>1, <2>2, <2>3 DEF Stale
<1> QED
  BY <1>4, <1>5 DEF A, B

\* A point of the trend is what a report for the period it ends would count.
LEMMA PointExact ==
    ASSUME NEW w, NEW F, F \subseteq Facts, w.loaded \subseteq Facts, w.seen = F,
           NEW s \in Int, NEW n \in Lengths,
           w.length = n, w.currentStart = s, w.previousStart = s - n,
           Counts(w.current, w.loaded, s .. s + n - 1),
           Counts(w.previous, w.loaded, s - n .. s - 1),
           SameDuring(w.loaded, F, s - n .. s + n - 1)
    PROVE  AtRiskNow(w) = Cardinality(WithStatus(F, F, s, s + n - 1, "at_risk"))
<1> DEFINE L   == w.loaded
           day == s + n - 1
           Cur == During(F, s .. day)
           Prev == During(F, s - n .. s - 1)
           Before == {d \in Companies : SeenBefore(F, d, s - n)}
           New(c) == FirstSeenIn(F, c, s, day)
           Seen == {d \in InWindow(w.current) : SeenBefore(F, d, s - n)}
<1>1. n \in Nat /\ n > 0 /\ day \in Int
  BY LengthsPositive
<1>2. IsFiniteSet(s .. day) /\ IsFiniteSet(s - n .. s - 1)
  BY <1>1, FS_Interval
<1>3. SameDuring(L, F, s .. day) /\ SameDuring(L, F, s - n .. s - 1)
  <2>1. s .. day \subseteq s - n .. s + n - 1 /\ s - n .. s - 1 \subseteq s - n .. s + n - 1
    BY <1>1
  <2> QED
    BY <2>1 DEF SameDuring
<1>4. \A c \in Companies : /\ c \in InWindow(w.current) <=> c \in ActiveCompanies(Cur)
                           /\ WindowRow(w.current, c) = RowOf(Cur, c)
  BY <1>2, <1>3, RowExact
<1>5. \A c \in Companies : /\ c \in InWindow(w.previous) <=> c \in ActiveCompanies(Prev)
                           /\ WindowRow(w.previous, c) = RowOf(Prev, c)
  BY <1>2, <1>3, RowExact
<1>6. \A c : Stale(DatesOf(L, c), s, day, n) <=> Stale(DatesOf(Cur, c), s, day, n)
  BY <1>1, <1>3, StaleExact
<1>7. ActiveCompanies(Cur) \subseteq Companies /\ InWindow(w.current) \subseteq Companies
  BY FactTyped DEF ActiveCompanies, During, InWindow
<1>8. InWindow(w.current) = ActiveCompanies(Cur)
  BY <1>4, <1>7
<1>9. \A c \in InWindow(w.current) :
         IsReactivated(c, InWindow(w.previous), Seen)
             <=> IsReactivated(c, ActiveCompanies(Prev), Before)
  BY <1>5, <1>7 DEF IsReactivated
<1>10. \A c \in ActiveCompanies(Cur) :
          StatusOf(F, F, c, s, day) = "at_risk"
              <=> /\ ~ New(c)
                  /\ ~ IsReactivated(c, ActiveCompanies(Prev), Before)
                  /\ AtRisk(RowOf(Cur, c), RowOf(Prev, c), Stale(DatesOf(Cur, c), s, day, n))
  <2>1. day - s + 1 = n
    BY <1>1
  <2> QED
    BY <2>1 DEF StatusOf
<1>11. WithStatus(F, F, s, day, "at_risk")
          = {c \in InWindow(w.current) :
                /\ ~ New(c)
                /\ ~ IsReactivated(c, InWindow(w.previous), Seen)
                /\ AtRisk(WindowRow(w.current, c), WindowRow(w.previous, c),
                          Stale(DatesOf(L, c), s, day, n))}
  <2> SUFFICES ASSUME NEW c
               PROVE  c \in WithStatus(F, F, s, day, "at_risk")
                          <=> /\ c \in InWindow(w.current)
                              /\ ~ New(c)
                              /\ ~ IsReactivated(c, InWindow(w.previous), Seen)
                              /\ AtRisk(WindowRow(w.current, c), WindowRow(w.previous, c),
                                        Stale(DatesOf(L, c), s, day, n))
    OBVIOUS
  <2>1. c \in WithStatus(F, F, s, day, "at_risk")
            <=> c \in ActiveCompanies(Cur) /\ StatusOf(F, F, c, s, day) = "at_risk"
    BY DEF WithStatus
  <2>2. ASSUME c \in ActiveCompanies(Cur)
        PROVE  AtRisk(WindowRow(w.current, c), WindowRow(w.previous, c), Stale(DatesOf(L, c), s, day, n))
                   <=> AtRisk(RowOf(Cur, c), RowOf(Prev, c), Stale(DatesOf(Cur, c), s, day, n))
    <3>1. /\ WindowRow(w.current, c) = RowOf(Cur, c)
          /\ WindowRow(w.previous, c) = RowOf(Prev, c)
      BY <1>4, <1>5, <1>7, <2>2
    <3> QED
      BY <3>1, <1>6, Zenon DEF AtRisk
  <2> HIDE DEF Cur, Prev, Before, New, Seen, L, day
  <2> QED
    BY <1>8, <1>9, <1>10, <2>1, <2>2
<1> QED
  <2>1. w.previousStart = s - n /\ w.currentStart + w.length - 1 = day
    OBVIOUS
  <2> QED
    BY <1>11, <2>1, Zenon DEF AtRiskNow

----------------------------------------------------------------------------
(* The inductive invariant.                                                *)

\* Outside a build nothing is shared, and outside a walk there are no windows.
Resting ==
    /\ build.phase = "idle" => memo = NoMemo
    /\ build.phase # "idle" => build.todo # <<>>
    /\ build.phase \in {"idle", "headline", "load"} => walk = NoWalk
    /\ ~ memo.scope => memo = NoMemo

\* A trend is charted over the selected period or the one before it.
Charted ==
    build.phase \in {"load", "fill", "walk"} =>
        /\ build.last - build.first + 1 \in Lengths
        /\ build.last - build.first = build.to - build.from
        /\ build.first \in {build.from, PreviousStart(build.from, build.to)}

\* Where the windows are in the chart.
Positions ==
    build.phase \in {"fill", "walk"} =>
        /\ walk.length = build.last - build.first + 1
        /\ walk.previousStart = walk.currentStart - walk.length
        /\ walk.previousEnd = walk.currentStart - 1
        /\ build.phase = "fill" => /\ walk.filled < walk.length /\ walk.trend = <<>>
                                  /\ walk.currentStart = build.first - (walk.length - 1)
        /\ build.phase = "walk" => /\ walk.filled = walk.length
                                  /\ Len(walk.trend) \in 1 .. walk.length
                                  /\ walk.currentStart = build.first - walk.length + Len(walk.trend)

HeadlineCount(F) == Cardinality(WithStatus(F, F, build.from, build.to, "at_risk"))

\* Nothing that an undisturbed build has read is out of date.
Fresh ==
    ~ outdated =>
        /\ memo.read => memo.seen = facts
        /\ memo.loaded = During(facts, memo.days)
        /\ build.phase \in {"load", "fill", "walk"} =>
              build.seen = facts /\ build.atRisk = HeadlineCount(facts)
        /\ build.phase \in {"fill", "walk"} =>
              walk.seen = facts /\ SameDuring(walk.loaded, facts, TrendDays(build.first, build.last))

IInv == HealthTypeOK /\ Resting /\ Charted /\ Positions /\ WindowsExact /\ Fresh /\ TrendAgrees

LEMMA CountNat ==
    ASSUME NEW F, F \subseteq Facts, NEW S, NEW from, NEW to, NEW status
    PROVE  Cardinality(WithStatus(F, S, from, to, status)) \in Nat
<1>1. WithStatus(F, S, from, to, status) \subseteq Companies
  BY FactTyped DEF WithStatus, ActiveCompanies, During
<1> QED
  BY <1>1, CompanyHealthAssumption, FS_Subset, FS_CardinalityType

LEMMA PointNat ==
    ASSUME NEW w
    PROVE  AtRiskNow(w) \in Nat
<1> DEFINE n == w.length
           day == w.currentStart + n - 1
           S == {c \in InWindow(w.current) :
                   /\ ~ FirstSeenIn(w.seen, c, w.currentStart, day)
                   /\ ~ IsReactivated(c, InWindow(w.previous),
                                      {d \in InWindow(w.current) : SeenBefore(w.seen, d, w.previousStart)})
                   /\ AtRisk(WindowRow(w.current, c), WindowRow(w.previous, c),
                             Stale(DatesOf(w.loaded, c), w.currentStart, day, n))}
<1>1. AtRiskNow(w) = Cardinality(S)
  BY DEF AtRiskNow
<1>2. S \subseteq Companies
  BY DEF InWindow
<1> HIDE DEF S
<1> QED
  BY <1>1, <1>2, CompanyHealthAssumption, FS_Subset, FS_CardinalityType

LEMMA EmptyWindow ==
    ASSUME NEW L, L \subseteq Facts
    PROVE  NewWindow \in Window /\ Counts(NewWindow, L, {})
<1>1. NewWindow \in Window
  BY DEF NewWindow, Window
<1>2. \A S : DaysOf(S, {}) = {}
  BY DEF DaysOf
<1>3. \A c : Engagement(During(L, {}), c) = 0
  <2> SUFFICES ASSUME NEW c PROVE Engagement(During(L, {}), c) = 0
    OBVIOUS
  <2>1. {f \in OfCompany(During(L, {}), c) : f.engaged} = {}
    BY DEF During, OfCompany
  <2> QED
    BY <2>1, FS_EmptySet DEF Engagement
<1> QED
  BY <1>1, <1>2, <1>3, FS_EmptySet DEF Counts, NewWindow

LEMMA NoWalkTyped ==
    /\ NoWalk \in Walk /\ NoWalk.trend = <<>>
    /\ NoWalk.length = 0 /\ NoWalk.filled = 0 /\ NoWalk.loaded = {}
    /\ NoWalk.currentStart = 0 /\ NoWalk.current = NewWindow /\ NoWalk.previous = NewWindow
<1>1. NewWindow \in Window
  BY EmptyWindow
<1> QED
  BY <1>1 DEF NoWalk, Walk

\* No windows count no days.
LEMMA NoWalkExact ==
    /\ Counts(NoWalk.current, NoWalk.loaded,
              NoWalk.currentStart .. NoWalk.currentStart + NoWalk.filled - 1)
    /\ Counts(NoWalk.previous, NoWalk.loaded,
              NoWalk.currentStart - NoWalk.length
                  .. NoWalk.currentStart - NoWalk.length + NoWalk.filled - 1)
<1>1. 0 - 0 .. 0 - 0 + 0 - 1 = {} /\ 0 .. 0 + 0 - 1 = {}
  OBVIOUS
<1>2. Counts(NewWindow, {}, {})
  BY EmptyWindow
<1> QED
  BY <1>1, <1>2, NoWalkTyped

LEMMA PointOfDay ==
    ASSUME NEW F, NEW n, NEW from, NEW to, from = to - n + 1
    PROVE  AtRiskOn(F, n, to) = Cardinality(WithStatus(F, F, from, to, "at_risk"))
BY DEF AtRiskOn

\* The windows of w hold a whole period each, at the next point of the chart.
Ready(w) ==
    /\ w \in Walk
    /\ w.length = build.last - build.first + 1 /\ w.filled = w.length
    /\ Len(w.trend) < w.length
    /\ w.currentStart = build.first - w.length + Len(w.trend) + 1
    /\ w.previousStart = w.currentStart - w.length
    /\ w.previousEnd = w.currentStart - 1
    /\ Counts(w.current, w.loaded, w.currentStart .. w.currentStart + w.length - 1)
    /\ Counts(w.previous, w.loaded, w.currentStart - w.length .. w.currentStart - 1)
    /\ w.loaded = walk.loaded /\ w.seen = walk.seen /\ w.trend = walk.trend
    /\ build.phase = "walk" => w.length = walk.length

\* The point of w is appended.
Appends(w) ==
    /\ walk' = WithPoint(w)
    /\ build' = [build EXCEPT !.phase = "walk"]
    /\ UNCHANGED <<facts, today, memo, outdated>>

LEMMA PointAppended ==
    ASSUME IInv, build.phase \in {"fill", "walk"}, NEW w, Ready(w), Appends(w)
    PROVE  IInv'
<1> DEFINE n == w.length
           s == w.currentStart
           k == Len(w.trend)
           p == AtRiskNow(w)
<1> HIDE DEF n, s, k, p
<1>1. /\ build' \in Build /\ build'.phase = "walk"
      /\ build'.first = build.first /\ build'.last = build.last
      /\ build'.from = build.from /\ build'.to = build.to
      /\ build'.seen = build.seen /\ build'.atRisk = build.atRisk /\ build'.todo = build.todo
      /\ UNCHANGED <<facts, today, memo, outdated>>
  BY DEF IInv, HealthTypeOK, Build, Phases, Appends
<1>2. p \in Nat /\ w.trend \in Seq(Nat) /\ k \in Nat
  BY PointNat DEF Walk, Ready, p, k
<1>3. /\ walk' \in Walk /\ walk'.trend = Append(w.trend, p)
      /\ walk'.length = n /\ walk'.filled = n /\ walk'.loaded = w.loaded /\ walk'.seen = w.seen
      /\ walk'.currentStart = s /\ walk'.previousStart = w.previousStart
      /\ walk'.previousEnd = w.previousEnd
      /\ walk'.current = w.current /\ walk'.previous = w.previous
  <2>1. walk' = [w EXCEPT !.trend = Append(w.trend, p)] /\ w \in Walk
    BY DEF WithPoint, Appends, Ready, p
  <2>2. Append(w.trend, p) \in Seq(Nat) /\ w.filled = w.length
    BY <1>2 DEF Ready
  <2> QED
    BY <2>1, <2>2 DEF Walk, n, s
<1>4. /\ Len(walk'.trend) = k + 1 /\ walk'.trend[k + 1] = p /\ walk'.trend # <<>>
      /\ \A i \in 1 .. k : walk'.trend[i] = w.trend[i]
      /\ DOMAIN walk'.trend = 1 .. k + 1 /\ DOMAIN w.trend = 1 .. k
  BY <1>2, <1>3 DEF k
<1>5. k \in Nat /\ s \in Int /\ build.first \in Int /\ build.last \in Int /\ n \in Nat /\ n > 0
  <2>1. build.first \in Int /\ build.last \in Int
    BY DEF IInv, HealthTypeOK, Build
  <2>2. n \in Lengths
    BY DEF IInv, Charted, Ready, n
  <2>3. s \in Int
    BY DEF Ready, Walk, s
  <2> QED
    BY <1>2, <2>1, <2>2, <2>3, LengthsPositive
<1>6. n = build.last - build.first + 1 /\ build.last = build.first + n - 1
  <2>1. n = build.last - build.first + 1
    BY DEF Ready, n
  <2> QED
    BY <1>5, <2>1
<1>7. k < n /\ s = build.first - n + k + 1
  BY DEF Ready, k, s, n
<1>8. /\ k + 1 \in 1 .. n /\ s = build.first - n + (k + 1)
      /\ s - n + n - 1 = s - 1
      /\ s - n .. s + n - 1 \subseteq build.first - (2 * n - 1) .. build.first + n - 1
      /\ s = build.first + (k + 1) - 1 - n + 1 /\ s + n - 1 = build.first + (k + 1) - 1
      /\ k + 1 = n => s = build.first
  BY <1>5, <1>7
<1>9. w.previousStart = s - n /\ w.previousEnd = s - 1
  BY DEF Ready, s, n
<1>15. n \in Lengths
  BY DEF IInv, Charted, Ready, n
<1>10. HealthTypeOK' /\ Resting' /\ Charted'
  <2>1. HealthTypeOK'
    BY <1>1, <1>3 DEF IInv, HealthTypeOK
  <2>2. Resting'
    BY <1>1 DEF IInv, Resting
  <2>3. Charted'
    BY <1>1 DEF IInv, Charted, PreviousStart
  <2> QED
    BY <2>1, <2>2, <2>3
<1>11. Positions'
  BY <1>1, <1>3, <1>4, <1>6, <1>8, <1>9 DEF Positions
<1>12. WindowsExact'
  <2>1. /\ Counts(w.current, w.loaded, s .. s + n - 1)
        /\ Counts(w.previous, w.loaded, s - n .. s - 1)
    BY DEF Ready, s, n
  <2> QED
    BY <1>3, <1>8, <2>1 DEF WindowsExact
<1>13. Fresh'
  <2>1. w.loaded = walk.loaded /\ w.seen = walk.seen
    BY DEF Ready
  <2> QED
    BY <1>1, <1>3, <2>1 DEF IInv, Fresh, HeadlineCount
<1>14. TrendAgrees'
  <2> DEFINE Right(i) == AtRiskOn(facts, n, build.first + i - 1)
  <2> SUFFICES ASSUME ~ outdated
               PROVE  /\ \A i \in 1 .. k + 1 : walk'.trend[i] = Right(i)
                      /\ k + 1 = n /\ build.first = build.from => walk'.trend[n] = build.atRisk
    <3>1. TrendAgrees' <=> (~ outdated' /\ walk'.trend # <<>> =>
              /\ \A i \in DOMAIN walk'.trend :
                    walk'.trend[i] = AtRiskOn(facts', walk'.length, build'.first + i - 1)
              /\ Len(walk'.trend) = walk'.length /\ build'.first = build'.from =>
                    walk'.trend[walk'.length] = build'.atRisk)
      BY Zenon DEF TrendAgrees
    <3> QED
      BY <1>1, <1>3, <1>4, <3>1
  <2>1. w.seen = facts /\ SameDuring(w.loaded, facts, TrendDays(build.first, build.last))
    BY DEF IInv, Fresh, Ready
  <2>2. s - n .. s + n - 1 \subseteq TrendDays(build.first, build.last)
    <3>1. TrendDays(build.first, build.last) = build.first - (2 * n - 1) .. build.first + n - 1
      BY <1>6 DEF TrendDays, HistoryFloor
    <3> QED
      BY <1>8, <3>1
  <2>3. SameDuring(w.loaded, facts, s - n .. s + n - 1)
    BY <2>1, <2>2 DEF SameDuring
  <2>4. w.loaded \subseteq Facts /\ facts \subseteq Facts
    BY DEF IInv, HealthTypeOK, Walk, Ready
  <2>5. p = Cardinality(WithStatus(facts, facts, s, s + n - 1, "at_risk"))
    <3>1. /\ w.length = n /\ w.currentStart = s
          /\ Counts(w.current, w.loaded, s .. s + n - 1)
          /\ Counts(w.previous, w.loaded, s - n .. s - 1)
      BY DEF Ready, s, n
    <3> HIDE DEF Right
    <3> QED
      BY <1>5, <1>9, <1>15, <2>1, <2>3, <2>4, <3>1, PointExact DEF p
  <2>6. p = Right(k + 1)
    <3> DEFINE day == s + n - 1
    <3>1. s = day - n + 1 /\ day = build.first + (k + 1) - 1
      BY <1>5, <1>8
    <3>2. p = Cardinality(WithStatus(facts, facts, s, day, "at_risk"))
      BY <2>5
    <3> HIDE DEF day
    <3>3. p = AtRiskOn(facts, n, day)
      BY <3>1, <3>2, PointOfDay, Zenon
    <3> QED
      BY <3>1, <3>3
  <2>7. \A i \in 1 .. k : w.trend[i] = Right(i)
    <3>1. CASE k = 0
      BY <3>1
    <3>2. CASE k # 0
      <4>1. w.trend = walk.trend /\ walk.trend # <<>>
        BY <1>2, <3>2 DEF Ready, k
      <4>2. walk.length = n
        BY <1>2, <4>1, <3>2 DEF IInv, Positions, Ready, n
      <4>3. TrendAgrees /\ ~ outdated
        BY DEF IInv
      <4>4. \A i \in DOMAIN walk.trend : walk.trend[i] = AtRiskOn(facts, walk.length, build.first + i - 1)
        BY <4>1, <4>3, Zenon DEF TrendAgrees
      <4> QED
        BY <1>4, <4>1, <4>2, <4>4
    <3> QED
      BY <3>1, <3>2
  <2>8. \A i \in 1 .. k + 1 : walk'.trend[i] = Right(i)
    <3> HIDE DEF Right
    <3> SUFFICES ASSUME NEW i \in 1 .. k + 1
                 PROVE  walk'.trend[i] = Right(i)
      OBVIOUS
    <3>1. CASE i = k + 1
      BY <1>4, <2>6, <3>1
    <3>2. CASE i # k + 1
      <4>1. i \in 1 .. k
        BY <1>5, <3>2
      <4> QED
        BY <1>4, <2>7, <4>1
    <3> QED
      BY <3>1, <3>2
  <2>9. ASSUME k + 1 = n, build.first = build.from
        PROVE  walk'.trend[n] = build.atRisk
    <3>1. build.last = build.to
      <4>1. build.to \in Int /\ build.last - build.first = build.to - build.from
        BY DEF IInv, Charted, HealthTypeOK, Build
      <4> QED
        BY <1>5, <2>9, <4>1
    <3>2. s = build.from /\ s + n - 1 = build.to
      BY <1>5, <1>6, <1>8, <2>9, <3>1
    <3>3. build.atRisk = Cardinality(WithStatus(facts, facts, build.from, build.to, "at_risk"))
      BY DEF IInv, Fresh, HeadlineCount
    <3> QED
      BY <1>4, <2>5, <2>9, <3>2, <3>3
  <2> QED
    BY <2>8, <2>9
<1> QED
  BY <1>10, <1>11, <1>12, <1>13, <1>14 DEF IInv

----------------------------------------------------------------------------
(* The first state, and every action.                                      *)

LEMMA NoneTyped == NoMemo \in Memo /\ NoBuild \in Build /\ NoBuild.phase = "idle"
BY DEF NoMemo, Memo, NoBuild, Build, Phases

LEMMA InitInv == Init => IInv
<1> SUFFICES ASSUME Init PROVE IInv
  OBVIOUS
<1>1. /\ facts = {} /\ today = FirstDay /\ memo = NoMemo /\ build = NoBuild /\ walk = NoWalk
      /\ outdated = FALSE
  BY DEF Init
<1>2. HealthTypeOK
  BY <1>1, NoneTyped, NoWalkTyped, CompanyHealthAssumption DEF HealthTypeOK
<1>3. Resting /\ Charted /\ Positions
  BY <1>1, NoneTyped DEF Resting, Charted, Positions
<1>4. WindowsExact
  BY <1>1, NoWalkExact DEF WindowsExact
<1>5. Fresh
  BY <1>1, NoneTyped DEF Fresh, NoMemo, During
<1>6. TrendAgrees
  BY <1>1, NoWalkTyped DEF TrendAgrees
<1> QED
  BY <1>2, <1>3, <1>4, <1>5, <1>6 DEF IInv

\* A build that the facts have overtaken promises nothing more.
LEMMA OvertakenInv ==
    ASSUME IInv, facts' \subseteq Facts, outdated' = TRUE, UNCHANGED <<today, memo, build, walk>>
    PROVE  IInv'
<1>1. HealthTypeOK'
  BY DEF IInv, HealthTypeOK
<1>2. Resting' /\ Charted' /\ Positions' /\ WindowsExact'
  BY DEF IInv, Resting, Charted, Positions, WindowsExact
<1>3. Fresh' /\ TrendAgrees'
  BY DEF Fresh, TrendAgrees
<1> QED
  BY <1>1, <1>2, <1>3 DEF IInv

LEMMA FactsRebuiltInv == IInv /\ FactsRebuilt => IInv'
<1> SUFFICES ASSUME IInv, FactsRebuilt PROVE IInv'
  OBVIOUS
<1>1. facts' \subseteq Facts /\ UNCHANGED <<today, memo, build, walk>>
  <2>1. Changing \subseteq Facts /\ facts \subseteq Facts
    BY CompanyHealthAssumption DEF IInv, HealthTypeOK
  <2> QED
    BY <2>1 DEF FactsRebuilt
<1>2. CASE build.phase # "idle"
  BY <1>1, <1>2, OvertakenInv DEF FactsRebuilt
<1>3. CASE build.phase = "idle"
  <2>1. outdated' = FALSE /\ memo = NoMemo /\ walk = NoWalk
    BY <1>3 DEF FactsRebuilt, IInv, Resting
  <2>2. HealthTypeOK'
    BY <1>1, <2>1 DEF IInv, HealthTypeOK
  <2>3. Resting' /\ Charted' /\ Positions' /\ WindowsExact'
    BY <1>1 DEF IInv, Resting, Charted, Positions, WindowsExact
  <2>4. Fresh'
    BY <1>1, <1>3, <2>1 DEF Fresh, NoMemo, During
  <2>5. TrendAgrees'
    BY <1>1, <2>1, NoWalkTyped DEF TrendAgrees
  <2> QED
    BY <2>2, <2>3, <2>4, <2>5 DEF IInv
<1> QED
  BY <1>2, <1>3

LEMMA MidnightInv == IInv /\ Midnight => IInv'
<1> SUFFICES ASSUME IInv, Midnight PROVE IInv'
  OBVIOUS
<1>1. today' \in Int /\ UNCHANGED <<facts, memo, build, walk, outdated>>
  BY DEF IInv, HealthTypeOK, Midnight
<1>2. HealthTypeOK'
  BY <1>1 DEF IInv, HealthTypeOK
<1>3. Resting' /\ Charted' /\ Positions' /\ WindowsExact' /\ Fresh' /\ TrendAgrees'
  BY <1>1 DEF IInv, Resting, Charted, Positions, WindowsExact, Fresh, HeadlineCount, TrendAgrees
<1> QED
  BY <1>2, <1>3 DEF IInv

LEMMA PlannedTyped == \A now \in Int : PlannedDays(now) \subseteq Int
BY DEF PlannedDays, TrendDays

LEMMA BeginInv ==
    ASSUME IInv, NEW scope \in BOOLEAN, NEW locked \in BOOLEAN,
           NEW ranges \in Seq(Lengths), ranges # <<>>, Begin(scope, locked, ranges)
    PROVE  IInv'
<1>1. walk = NoWalk /\ outdated' = FALSE /\ UNCHANGED <<facts, today, walk>>
  BY DEF Begin, IInv, Resting
<1>2. /\ build' \in Build /\ build'.phase = "headline" /\ build'.todo = ranges
  BY NoneTyped DEF Begin, NoBuild, Build, Phases
<1>3. /\ memo' \in Memo /\ ~ memo'.read /\ memo'.loaded = {} /\ memo'.days = {}
      /\ memo'.scope = scope
  <2>1. PlannedDays(today) \subseteq Int
    BY PlannedTyped DEF IInv, HealthTypeOK
  <2> QED
    BY <2>1 DEF Begin, NoMemo, Memo
<1>4. ~ scope => memo' = NoMemo
  BY DEF Begin, NoMemo
<1>5. HealthTypeOK'
  BY <1>1, <1>2, <1>3 DEF IInv, HealthTypeOK
<1>6. Resting' /\ Charted' /\ Positions'
  BY <1>1, <1>2, <1>3, <1>4 DEF Resting, Charted, Positions
<1>7. WindowsExact'
  BY <1>1, NoWalkExact DEF WindowsExact
<1>8. Fresh'
  BY <1>1, <1>2, <1>3 DEF Fresh, During
<1>9. TrendAgrees'
  BY <1>1, NoWalkTyped DEF TrendAgrees
<1> QED
  BY <1>5, <1>6, <1>7, <1>8, <1>9 DEF IInv

LEMMA BuildsInv == IInv /\ (RebuildCaches \/ BuildOnDemand) => IInv'
<1> SUFFICES ASSUME IInv, RebuildCaches \/ BuildOnDemand PROVE IInv'
  OBVIOUS
<1>1. Ranges \in Seq(Lengths) /\ Ranges # <<>>
  BY CompanyHealthAssumption DEF Lengths
<1>2. CASE RebuildCaches
  BY <1>1, <1>2, BeginInv DEF RebuildCaches
<1>3. CASE BuildOnDemand
  <2>1. PICK n \in Lengths : Begin(FALSE, FALSE, <<n>>)
    BY <1>3 DEF BuildOnDemand
  <2>2. <<n>> \in Seq(Lengths) /\ <<n>> # <<>>
    OBVIOUS
  <2> QED
    BY <2>1, <2>2, BeginInv
<1> QED
  BY <1>2, <1>3

LEMMA HeadlineInv == IInv /\ Headline => IInv'
<1> SUFFICES ASSUME IInv, Headline PROVE IInv'
  OBVIOUS
<1> DEFINE n    == Head(build.todo)
           from == PeriodStart(n, today)
           to   == PeriodEnd(today)
           seen == IF memo.read THEN memo.seen ELSE facts
<1>1. n \in Lengths /\ n \in Nat /\ today \in Int
  <2>1. build.todo \in Seq(Lengths) /\ build.todo # <<>> /\ today \in Int
    BY DEF IInv, HealthTypeOK, Build, Resting, Headline
  <2>2. Head(build.todo) = build.todo[1] /\ 1 \in DOMAIN build.todo
    BY <2>1
  <2>3. n \in Lengths
    BY <2>1, <2>2
  <2> HIDE DEF n
  <2> QED
    BY <2>1, <2>3, LengthsPositive
<1>2. from \in Int /\ to \in Int /\ to - from + 1 = n /\ seen \subseteq Facts
  <2>1. seen \subseteq Facts
    BY DEF IInv, HealthTypeOK, Memo
  <2> HIDE DEF n, seen
  <2> QED
    BY <1>1, <2>1 DEF PeriodStart, PeriodEnd
<1>3. /\ build' = [build EXCEPT !.phase = "load", !.from = from, !.to = to, !.first = from,
                     !.last = to, !.seen = seen,
                     !.atRisk = Cardinality(WithStatus(facts, seen, from, to, "at_risk"))]
      /\ memo' = (IF memo.scope THEN [memo EXCEPT !.read = TRUE, !.seen = seen] ELSE memo)
      /\ UNCHANGED <<facts, today, walk, outdated>> /\ build.phase = "headline"
  BY DEF Headline
<1> HIDE DEF n, from, to, seen
<1>4. Cardinality(WithStatus(facts, seen, from, to, "at_risk")) \in Nat
  BY CountNat DEF IInv, HealthTypeOK
<1>5. /\ build' \in Build /\ build'.phase = "load" /\ build'.todo = build.todo
      /\ build'.from = from /\ build'.to = to /\ build'.first = from /\ build'.last = to
      /\ build'.seen = seen
      /\ build'.atRisk = Cardinality(WithStatus(facts, seen, from, to, "at_risk"))
  BY <1>2, <1>3, <1>4 DEF IInv, HealthTypeOK, Build, Phases
<1>6. /\ memo' \in Memo /\ memo'.scope = memo.scope /\ memo'.days = memo.days
      /\ memo'.loaded = memo.loaded /\ (memo'.read => memo'.seen = seen)
      /\ ~ memo.scope => memo' = memo
  <2>1. memo \in Memo /\ (memo.read => memo.seen = seen)
    BY DEF IInv, HealthTypeOK, seen
  <2> QED
    BY <1>2, <1>3, <2>1 DEF Memo
<1>7. walk = NoWalk /\ build.todo # <<>> /\ (~ memo.scope => memo = NoMemo)
  BY <1>3 DEF IInv, Resting
<1>8. HealthTypeOK'
  BY <1>3, <1>5, <1>6 DEF IInv, HealthTypeOK
<1>9. Resting' /\ Charted' /\ Positions'
  BY <1>1, <1>2, <1>3, <1>5, <1>6, <1>7 DEF Resting, Charted, Positions
<1>10. WindowsExact'
  BY <1>3, <1>7, NoWalkExact DEF WindowsExact
<1>11. Fresh'
  <2> SUFFICES ASSUME ~ outdated
               PROVE  /\ memo'.read => memo'.seen = facts
                      /\ memo'.loaded = During(facts, memo'.days)
                      /\ build'.seen = facts /\ build'.atRisk = HeadlineCount(facts)'
    BY <1>3, <1>5 DEF Fresh, HeadlineCount
  <2>1. seen = facts /\ memo.loaded = During(facts, memo.days)
    BY DEF IInv, Fresh, seen
  <2> QED
    BY <1>3, <1>5, <1>6, <2>1 DEF HeadlineCount
<1>12. TrendAgrees'
  BY <1>3, <1>7, NoWalkTyped DEF TrendAgrees
<1> QED
  BY <1>8, <1>9, <1>10, <1>11, <1>12 DEF IInv

\* Where a walk over the days first .. last begins.
LEMMA WalkBegins ==
    ASSUME NEW first \in Int, NEW last \in Int, NEW n, n = last - first + 1, n \in Nat, n > 0
    PROVE  /\ first - (n - 1) \in Int /\ first - n \in Int /\ first - n - (n - 1) \in Int
           /\ first - n - (n - 1) = first - (n - 1) - n
           /\ first - n = first - (n - 1) - 1
           /\ first - (n - 1) .. first - (n - 1) + 0 - 1 = {}
           /\ first - (n - 1) - n .. first - (n - 1) - n + 0 - 1 = {}
OBVIOUS

LEMMA LoadFactsInv == IInv /\ LoadFacts => IInv'
<1> SUFFICES ASSUME IInv, LoadFacts PROVE IInv'
  OBVIOUS
<1> DEFINE first     == build.first
           last      == build.last
           n         == last - first + 1
           requested == TrendDays(first, last)
           reused    == memo.days # {} /\ requested \subseteq memo.days
           days      == IF reused THEN memo.days ELSE requested \cup memo.planned \cup memo.days
           loaded    == IF reused THEN memo.loaded ELSE During(facts, days)
<1>1. /\ memo' = (IF memo.scope THEN [memo EXCEPT !.days = days, !.loaded = loaded] ELSE memo)
      /\ walk' = [NoWalk EXCEPT !.length = n, !.loaded = loaded, !.seen = build.seen,
                     !.currentStart = first - (n - 1), !.previousEnd = first - n,
                     !.previousStart = first - n - (n - 1)]
      /\ build' = [build EXCEPT !.phase = "fill"] /\ build.phase = "load"
      /\ UNCHANGED <<facts, today, outdated>>
  BY DEF LoadFacts
<1>2. first \in Int /\ last \in Int /\ n \in Lengths /\ n \in Nat /\ n > 0
  <2>1. first \in Int /\ last \in Int
    BY DEF IInv, HealthTypeOK, Build
  <2>2. n \in Lengths
    BY <1>1 DEF IInv, Charted
  <2> HIDE DEF n
  <2> QED
    BY <2>1, <2>2, LengthsPositive
<1>3. facts \subseteq Facts /\ memo \in Memo /\ requested \subseteq days
  BY DEF IInv, HealthTypeOK
<1>4. loaded \subseteq Facts /\ days \subseteq Int
  <2>1. requested \subseteq Int
    BY <1>2 DEF TrendDays, HistoryFloor
  <2>2. During(facts, days) \subseteq Facts
    BY <1>3 DEF During
  <2> QED
    BY <1>3, <2>1, <2>2 DEF Memo
<1>5. ~ outdated => loaded = During(facts, days)
  BY DEF IInv, Fresh
<1>6. ~ outdated => SameDuring(loaded, facts, requested)
  BY <1>3, <1>5 DEF SameDuring, During
<1>7. n = last - first + 1
  OBVIOUS
<1> HIDE DEF first, last, n, requested, reused, days, loaded
<1>8. /\ build' \in Build /\ build'.phase = "fill" /\ build'.todo = build.todo
      /\ build'.from = build.from /\ build'.to = build.to
      /\ build'.first = build.first /\ build'.last = build.last
      /\ build'.seen = build.seen /\ build'.atRisk = build.atRisk
  BY <1>1 DEF IInv, HealthTypeOK, Build, Phases
<1>9. /\ memo' \in Memo /\ memo'.scope = memo.scope /\ memo'.read = memo.read
      /\ memo'.seen = memo.seen /\ (~ memo.scope => memo' = memo)
      /\ memo.scope => memo'.days = days /\ memo'.loaded = loaded
  BY <1>1, <1>3, <1>4 DEF Memo
<1>10. /\ first - (n - 1) \in Int /\ first - n \in Int /\ first - n - (n - 1) \in Int
       /\ first - n - (n - 1) = first - (n - 1) - n
       /\ first - n = first - (n - 1) - 1
       /\ first - (n - 1) .. first - (n - 1) + 0 - 1 = {}
       /\ first - (n - 1) - n .. first - (n - 1) - n + 0 - 1 = {}
  BY <1>2, <1>7, WalkBegins
<1>11. /\ walk' \in Walk /\ walk'.length = n /\ walk'.loaded = loaded /\ walk'.seen = build.seen
       /\ walk'.currentStart = first - (n - 1) /\ walk'.previousEnd = first - n
       /\ walk'.previousStart = first - n - (n - 1)
       /\ walk'.filled = 0 /\ walk'.trend = <<>>
       /\ walk'.current = NewWindow /\ walk'.previous = NewWindow
  <2>1. build.seen \subseteq Facts
    BY DEF IInv, HealthTypeOK, Build
  <2> QED
    BY <1>1, <1>2, <1>4, <1>10, <2>1, NoWalkTyped DEF Walk
<1>12. HealthTypeOK'
  BY <1>1, <1>8, <1>9, <1>11 DEF IInv, HealthTypeOK
<1>13. Resting' /\ Charted'
  BY <1>1, <1>8, <1>9 DEF IInv, Resting, Charted, PreviousStart
<1>14. Positions'
  BY <1>2, <1>7, <1>8, <1>10, <1>11 DEF Positions, first, last
<1>15. WindowsExact'
  BY <1>4, <1>10, <1>11, EmptyWindow DEF WindowsExact
<1>16. Fresh'
  BY <1>1, <1>5, <1>6, <1>8, <1>9, <1>11 DEF IInv, Fresh, HeadlineCount, requested, first, last
<1>17. TrendAgrees'
  BY <1>11 DEF TrendAgrees
<1> QED
  BY <1>12, <1>13, <1>14, <1>15, <1>16, <1>17 DEF IInv

\* What Fill and Slide leave alone in a walk, whatever the windows become.
LEMMA Remains ==
    ASSUME IInv, build.phase \in {"fill", "walk"}
    PROVE  /\ walk \in Walk /\ walk.loaded \subseteq Facts
           /\ walk.length \in Lengths /\ walk.length \in Nat /\ walk.length > 0
           /\ walk.length = build.last - build.first + 1
           /\ build.first \in Int /\ build.last \in Int
           /\ walk.currentStart \in Int /\ walk.filled \in Nat /\ walk.previousEnd \in Int
           /\ walk.previousStart = walk.currentStart - walk.length
           /\ walk.previousEnd = walk.currentStart - 1
<1>1. walk \in Walk /\ build.first \in Int /\ build.last \in Int
  BY DEF IInv, HealthTypeOK, Build
<1>2. walk.length = build.last - build.first + 1 /\ walk.length \in Lengths
  BY DEF IInv, Positions, Charted
<1>3. walk.previousStart = walk.currentStart - walk.length /\ walk.previousEnd = walk.currentStart - 1
  BY DEF IInv, Positions
<1> QED
  BY <1>1, <1>2, <1>3, LengthsPositive DEF Walk

LEMMA NextDay ==
    ASSUME NEW s \in Int, NEW f \in Nat
    PROVE  /\ IsFiniteSet(s .. s + f - 1) /\ s + f \notin s .. s + f - 1
           /\ (s .. s + f - 1) \cup {s + f} = s .. s + (f + 1) - 1
<1>1. IsFiniteSet(s .. s + f - 1)
  BY FS_Interval
<1>2. s + f \notin s .. s + f - 1
  OBVIOUS
<1>3. (s .. s + f - 1) \cup {s + f} = s .. s + (f + 1) - 1
  OBVIOUS
<1> QED
  BY <1>1, <1>2, <1>3

LEMMA FillInv == IInv /\ Fill => IInv'
<1> SUFFICES ASSUME IInv, Fill PROVE IInv'
  OBVIOUS
<1> DEFINE L == walk.loaded
           s == walk.currentStart
           q == walk.previousStart
           f == walk.filled
           current == AdjustDay(walk.current, L, s + f, 1)
           previous == AdjustDay(walk.previous, L, q + f, 1)
           w == [walk EXCEPT !.current = current, !.previous = previous, !.filled = f + 1]
<1>1. /\ build.phase = "fill" /\ UNCHANGED <<facts, today, memo, outdated>>
      /\ w.filled = w.length => walk' = WithPoint(w) /\ build' = [build EXCEPT !.phase = "walk"]
      /\ w.filled # w.length => walk' = w /\ UNCHANGED build
  BY DEF Fill
<1>2. /\ walk \in Walk /\ L \subseteq Facts /\ walk.length \in Nat
      /\ s \in Int /\ f \in Nat /\ q = s - walk.length /\ q \in Int
      /\ walk.length = build.last - build.first + 1 /\ walk.previousEnd = s - 1
  BY <1>1, Remains
<1>3. /\ f < walk.length /\ walk.trend = <<>> /\ s = build.first - (walk.length - 1)
  BY <1>1 DEF IInv, Positions
<1> HIDE DEF s, q, f, L
<1>4. /\ Counts(walk.current, L, s .. s + f - 1)
      /\ Counts(walk.previous, L, q .. q + f - 1)
      /\ walk.current \in Window /\ walk.previous \in Window
  BY <1>2 DEF IInv, WindowsExact, Walk, s, q, f, L
<1>5. current \in Window /\ Counts(current, L, s .. s + (f + 1) - 1)
  <2>1. current \in Window /\ Counts(current, L, (s .. s + f - 1) \cup {s + f})
    BY <1>2, <1>4, NextDay, DayEnters
  <2> QED
    BY <1>2, <2>1, NextDay
<1>6. previous \in Window /\ Counts(previous, L, q .. q + (f + 1) - 1)
  <2>1. previous \in Window /\ Counts(previous, L, (q .. q + f - 1) \cup {q + f})
    BY <1>2, <1>4, NextDay, DayEnters
  <2> QED
    BY <1>2, <2>1, NextDay
<1> HIDE DEF current, previous
<1>7. /\ w \in Walk /\ w.current = current /\ w.previous = previous /\ w.filled = f + 1
      /\ w.loaded = L /\ w.seen = walk.seen /\ w.trend = <<>> /\ w.length = walk.length
      /\ w.currentStart = s /\ w.previousStart = q /\ w.previousEnd = s - 1
  <2>1. f + 1 \in Nat
    BY <1>2
  <2>2. /\ w \in Walk /\ w.current = current /\ w.previous = previous /\ w.filled = f + 1
        /\ w.loaded = walk.loaded /\ w.seen = walk.seen /\ w.trend = walk.trend
        /\ w.length = walk.length /\ w.currentStart = walk.currentStart
        /\ w.previousStart = walk.previousStart /\ w.previousEnd = walk.previousEnd
    BY <1>2, <1>5, <1>6, <2>1 DEF Walk
  <2> HIDE DEF w
  <2> QED
    BY <1>2, <1>3, <2>2 DEF s, q, L
<1> HIDE DEF w
<1>8. CASE w.filled = w.length
  <2>1. Len(w.trend) = 0 /\ Len(w.trend) < w.length
    BY <1>2, <1>3, <1>7
  <2>2. s = build.first - walk.length + 0 + 1
    <3>1. build.first \in Int
      BY <1>1, Remains
    <3> QED
      BY <1>2, <1>3, <3>1
  <2>3. /\ Counts(w.current, L, s .. s + w.length - 1)
        /\ Counts(w.previous, L, s - w.length .. s - 1)
    <3>1. q + (f + 1) - 1 = s - 1 /\ f + 1 = w.length
      BY <1>2, <1>7, <1>8
    <3> QED
      BY <1>2, <1>5, <1>6, <1>7, <3>1
  <2>4. Ready(w)
    BY <1>1, <1>2, <1>3, <1>7, <1>8, <2>1, <2>2, <2>3 DEF Ready, L
  <2>5. Appends(w)
    BY <1>1, <1>8 DEF Appends
  <2> QED
    BY <1>1, <2>4, <2>5, PointAppended
<1>9. CASE w.filled # w.length
  <2>1. walk' = w /\ UNCHANGED <<facts, today, memo, build, outdated>>
    BY <1>1, <1>9
  <2>2. HealthTypeOK'
    BY <1>7, <2>1 DEF IInv, HealthTypeOK
  <2>3. Resting' /\ Charted'
    BY <1>1, <2>1 DEF IInv, Resting, Charted
  <2>4. Positions'
    <3>1. f + 1 < walk.length
      BY <1>2, <1>3, <1>7, <1>9
    <3> QED
      BY <1>1, <1>2, <1>3, <1>7, <2>1, <3>1 DEF Positions
  <2>5. WindowsExact'
    BY <1>2, <1>5, <1>6, <1>7, <2>1 DEF WindowsExact
  <2>6. Fresh'
    BY <1>7, <2>1 DEF IInv, Fresh, HeadlineCount, L
  <2>7. TrendAgrees'
    BY <1>7, <2>1 DEF TrendAgrees
  <2> QED
    BY <2>2, <2>3, <2>4, <2>5, <2>6, <2>7 DEF IInv
<1> QED
  BY <1>8, <1>9

\* A period moved by one day.
LEMMA DayLater ==
    ASSUME NEW s \in Int, NEW n \in Nat, n > 0
    PROVE  /\ IsFiniteSet(s .. s + n - 1) /\ s \in s .. s + n - 1
           /\ IsFiniteSet((s .. s + n - 1) \ {s}) /\ s + n \notin (s .. s + n - 1) \ {s}
           /\ ((s .. s + n - 1) \ {s}) \cup {s + n} = s + 1 .. s + 1 + n - 1
<1>1. IsFiniteSet(s .. s + n - 1)
  BY FS_Interval
<1>2. (s .. s + n - 1) \ {s} = s + 1 .. s + n - 1
  OBVIOUS
<1>3. IsFiniteSet(s + 1 .. s + n - 1)
  BY FS_Interval
<1>4. s \in s .. s + n - 1 /\ s + n \notin s + 1 .. s + n - 1
  OBVIOUS
<1>5. (s + 1 .. s + n - 1) \cup {s + n} = s + 1 .. s + 1 + n - 1
  OBVIOUS
<1> QED
  BY <1>1, <1>2, <1>3, <1>4, <1>5

\* A window that holds a period, after its first day left and the next came.
LEMMA WindowSlides ==
    ASSUME NEW w \in Window, NEW L, L \subseteq Facts, NEW s \in Int, NEW n \in Nat, n > 0,
           Counts(w, L, s .. s + n - 1)
    PROVE  /\ AdjustDay(AdjustDay(w, L, s, -1), L, s + n, 1) \in Window
           /\ Counts(AdjustDay(AdjustDay(w, L, s, -1), L, s + n, 1), L, s + 1 .. s + 1 + n - 1)
<1> DEFINE D == (s .. s + n - 1) \ {s}
           v == AdjustDay(w, L, s, -1)
<1>1. v \in Window /\ Counts(v, L, D)
  BY DayLater, DayLeaves
<1>2. IsFiniteSet(D) /\ s + n \notin D /\ D \cup {s + n} = s + 1 .. s + 1 + n - 1
  BY DayLater
<1> HIDE DEF v, D
<1>3. AdjustDay(v, L, s + n, 1) \in Window /\ Counts(AdjustDay(v, L, s + n, 1), L, D \cup {s + n})
  BY <1>1, <1>2, DayEnters
<1> QED
  BY <1>2, <1>3 DEF v

LEMMA SlideInv == IInv /\ Slide => IInv'
<1> SUFFICES ASSUME IInv, Slide PROVE IInv'
  OBVIOUS
<1> DEFINE L == walk.loaded
           s == walk.currentStart
           q == walk.previousStart
           n == walk.length
           k == Len(walk.trend)
           current == AdjustDay(AdjustDay(walk.current, L, s, -1), L, s + n, 1)
           previous == AdjustDay(AdjustDay(walk.previous, L, q, -1), L, walk.previousEnd + 1, 1)
           w == Slid(walk)
<1>1. /\ build.phase = "walk" /\ UNCHANGED <<facts, today, memo, build, outdated>>
      /\ walk' = WithPoint(w) /\ k < n
  BY DEF Slide
<1>2. /\ walk \in Walk /\ L \subseteq Facts /\ n \in Nat /\ n > 0
      /\ s \in Int /\ q = s - n /\ q \in Int
      /\ n = build.last - build.first + 1 /\ walk.previousEnd = s - 1 /\ build.first \in Int
  BY <1>1, Remains
<1>3. walk.filled = n /\ s = build.first - n + k
  BY <1>1 DEF IInv, Positions
<1>4. /\ Counts(walk.current, L, s .. s + n - 1) /\ Counts(walk.previous, L, q .. q + n - 1)
      /\ walk.current \in Window /\ walk.previous \in Window /\ k \in Nat
  BY <1>2, <1>3 DEF IInv, WindowsExact, Walk
<1>5. w = [walk EXCEPT !.current = current, !.previous = previous, !.currentStart = s + 1,
                       !.previousStart = q + 1, !.previousEnd = walk.previousEnd + 1]
  BY DEF Slid
<1> HIDE DEF s, q, n, L, k, w
<1>6. walk.previousEnd + 1 = q + n
  BY <1>2
<1>7. current \in Window /\ Counts(current, L, s + 1 .. s + 1 + n - 1)
  BY <1>2, <1>4, WindowSlides
<1>8. previous \in Window /\ Counts(previous, L, q + 1 .. q + 1 + n - 1)
  BY <1>2, <1>4, <1>6, WindowSlides
<1> HIDE DEF current, previous
<1>9. /\ w \in Walk /\ w.current = current /\ w.previous = previous
      /\ w.loaded = L /\ w.seen = walk.seen /\ w.trend = walk.trend
      /\ w.length = n /\ w.filled = n
      /\ w.currentStart = s + 1 /\ w.previousStart = q + 1 /\ w.previousEnd = walk.previousEnd + 1
  <2>1. s + 1 \in Int /\ q + 1 \in Int /\ walk.previousEnd + 1 \in Int
    BY <1>2
  <2>2. /\ w \in Walk /\ w.current = current /\ w.previous = previous
        /\ w.loaded = walk.loaded /\ w.seen = walk.seen /\ w.trend = walk.trend
        /\ w.length = walk.length /\ w.filled = walk.filled
        /\ w.currentStart = s + 1 /\ w.previousStart = q + 1
        /\ w.previousEnd = walk.previousEnd + 1
    BY <1>2, <1>5, <1>7, <1>8, <2>1 DEF Walk
  <2> QED
    BY <1>3, <2>2 DEF n, L
<1>10. /\ q + 1 = s + 1 - n /\ walk.previousEnd + 1 = s + 1 - 1 /\ q + 1 + n - 1 = s + 1 - 1
       /\ s + 1 = build.first - n + k + 1
  <2>1. q + 1 = s + 1 - n /\ q + 1 + n - 1 = s + 1 - 1
    BY <1>2
  <2>2. walk.previousEnd + 1 = s + 1 - 1
    BY <1>2
  <2>3. s + 1 = build.first - n + k + 1
    BY <1>2, <1>3, <1>4
  <2> QED
    BY <2>1, <2>2, <2>3
<1>11. Ready(w)
  <2>1. /\ Counts(w.current, w.loaded, w.currentStart .. w.currentStart + w.length - 1)
        /\ Counts(w.previous, w.loaded, w.currentStart - w.length .. w.currentStart - 1)
    <3>1. Counts(current, L, s + 1 .. s + 1 + n - 1)
      BY <1>7
    <3>2. Counts(previous, L, (s + 1) - n .. (s + 1) - 1)
      <4>1. q + 1 = (s + 1) - n /\ q + 1 + n - 1 = (s + 1) - 1
        BY <1>2
      <4> QED
        BY <1>8, <4>1
    <3>3. w.current = current /\ w.previous = previous /\ w.loaded = L /\ w.length = n /\ w.currentStart = s + 1
      BY <1>9
    <3>4. Counts(w.current, w.loaded, w.currentStart .. w.currentStart + w.length - 1)
      BY <3>1, <3>3, Zenon
    <3>5. Counts(w.previous, w.loaded, w.currentStart - w.length .. w.currentStart - 1)
      BY <3>2, <3>3, Zenon
    <3> QED
      BY <3>4, <3>5
  <2>2. Len(w.trend) = k /\ w.loaded = walk.loaded /\ w.length = walk.length
    BY <1>9 DEF k, L, n
  <2> QED
    BY <1>1, <1>2, <1>9, <1>10, <2>1, <2>2 DEF Ready
<1>12. Appends(w)
  <2>1. build' = [build EXCEPT !.phase = "walk"]
    BY <1>1 DEF IInv, HealthTypeOK, Build
  <2> QED
    BY <1>1, <2>1 DEF Appends
<1> QED
  BY <1>1, <1>11, <1>12, PointAppended

\* A walk that ends, for the next chart, the next range or none.
LEMMA WalkEnds ==
    ASSUME IInv, walk' = NoWalk, memo' \in {memo, NoMemo}, build' \in Build,
           build'.phase \in {"idle", "headline", "load"},
           build'.phase = "idle" => memo' = NoMemo,
           build'.phase # "idle" => build'.todo # <<>>,
           build'.phase = "load" => Charted' /\ (Fresh => build'.seen = build.seen
                                                      /\ build'.atRisk = build.atRisk
                                                      /\ build'.from = build.from
                                                      /\ build'.to = build.to),
           build'.phase = "load" => build.phase = "walk",
           UNCHANGED <<facts, today, outdated>>
    PROVE  IInv'
<1>1. HealthTypeOK'
  BY NoneTyped, NoWalkTyped DEF IInv, HealthTypeOK
<1>2. Resting'
  BY NoneTyped DEF IInv, Resting
<1>3. Charted' /\ Positions'
  BY DEF Charted, Positions
<1>4. WindowsExact'
  BY NoWalkExact DEF WindowsExact
<1>5. Fresh'
  <2>1. NoMemo.loaded = {} /\ During(facts, NoMemo.days) = {} /\ ~ NoMemo.read
    BY DEF NoMemo, During
  <2> QED
    BY <2>1 DEF IInv, Fresh, HeadlineCount
<1>6. TrendAgrees'
  BY NoWalkTyped DEF TrendAgrees
<1> QED
  BY <1>1, <1>2, <1>3, <1>4, <1>5, <1>6 DEF IInv

LEMMA ChartPreviousInv == IInv /\ ChartPrevious => IInv'
<1> SUFFICES ASSUME IInv, ChartPrevious PROVE IInv'
  OBVIOUS
<1>1. /\ build.phase = "walk" /\ build.first = build.from /\ build \in Build
      /\ build' = [build EXCEPT !.phase = "load", !.first = PreviousStart(build.from, build.to),
                                !.last = build.from - 1]
      /\ walk' = NoWalk /\ UNCHANGED <<facts, today, memo, outdated>>
      /\ build.todo # <<>>
  BY DEF ChartPrevious, IInv, HealthTypeOK, Resting
<1>2. build.from \in Int /\ build.to \in Int /\ build.last \in Int
  BY <1>1 DEF Build
<1>3. PreviousStart(build.from, build.to) \in Int /\ build.from - 1 \in Int
  BY <1>2 DEF PreviousStart
<1>4. /\ build' \in Build /\ build'.phase = "load" /\ build'.todo = build.todo
      /\ build'.from = build.from /\ build'.to = build.to
      /\ build'.first = PreviousStart(build.from, build.to) /\ build'.last = build.from - 1
      /\ build'.seen = build.seen /\ build'.atRisk = build.atRisk
  BY <1>1, <1>3 DEF Build, Phases
<1>5. Charted'
  <2>1. /\ build.last - build.first + 1 \in Lengths
        /\ build.last - build.first = build.to - build.from
    BY <1>1 DEF IInv, Charted
  <2>2. /\ (build.from - 1) - PreviousStart(build.from, build.to) + 1 = build.last - build.first + 1
        /\ (build.from - 1) - PreviousStart(build.from, build.to) = build.to - build.from
    BY <1>1, <1>2, <2>1 DEF PreviousStart
  <2> QED
    BY <1>4, <2>1, <2>2 DEF Charted
<1> QED
  BY <1>1, <1>4, <1>5, WalkEnds

LEMMA EndRangeInv == IInv /\ EndRange => IInv'
<1> SUFFICES ASSUME IInv, EndRange PROVE IInv'
  OBVIOUS
<1>1. walk' = NoWalk /\ UNCHANGED <<facts, today, outdated>> /\ build \in Build
  BY DEF EndRange, IInv, HealthTypeOK
<1>2. CASE Len(build.todo) > 1
  <2>1. /\ build' = [NoBuild EXCEPT !.phase = "headline", !.locked = build.locked,
                                    !.todo = Tail(build.todo)]
        /\ UNCHANGED memo
    BY <1>2 DEF EndRange
  <2> DEFINE todo == build.todo
  <2>2. todo \in Seq(Lengths) /\ Len(todo) > 1
    BY <1>1, <1>2 DEF Build
  <2> HIDE DEF todo
  <2>4. Tail(todo) \in Seq(Lengths) /\ Len(Tail(todo)) = Len(todo) - 1 /\ Len(todo) \in Nat
    BY <2>2
  <2>5. Tail(todo) # <<>>
    <3>1. Len(Tail(todo)) > 0
      BY <2>2, <2>4
    <3>2. Len(<<>>) = 0
      OBVIOUS
    <3> QED
      BY <3>1, <3>2
  <2>3. build' \in Build /\ build'.phase = "headline" /\ build'.todo # <<>>
    BY <1>1, <2>1, <2>4, <2>5, NoneTyped DEF Build, Phases, todo
  <2> QED
    BY <1>1, <2>1, <2>3, WalkEnds
<1>3. CASE ~ Len(build.todo) > 1
  <2>1. build' = NoBuild /\ memo' = NoMemo
    BY <1>3 DEF EndRange
  <2> QED
    BY <1>1, <2>1, NoneTyped, WalkEnds
<1> QED
  BY <1>2, <1>3

LEMMA NextInv == IInv /\ [Next]_vars => IInv'
<1> SUFFICES ASSUME IInv, [Next]_vars PROVE IInv'
  OBVIOUS
<1>1. CASE UNCHANGED vars
  BY <1>1 DEF vars, IInv, HealthTypeOK, Resting, Charted, Positions, WindowsExact, Fresh,
              HeadlineCount, TrendAgrees
<1> QED
  BY <1>1, FactsRebuiltInv, MidnightInv, BuildsInv, HeadlineInv, LoadFactsInv, FillInv, SlideInv,
     ChartPreviousInv, EndRangeInv DEF Next

----------------------------------------------------------------------------
(* Sums over days.                                                         *)

\* Every nonempty set of naturals has a least element: the case that induction would
\* begin with.
LEMMA LeastNatural ==
    ASSUME NEW T, T \subseteq Nat, T # {}
    PROVE  \E x \in T : \A y \in T : x <= y
<1> DEFINE R == OpToRel(<, Nat)
<1>1. IsWellFoundedOn(R, Nat)
  BY NatLessThanWellFounded
<1>2. \A x, y \in Nat : <<y, x>> \in R <=> y < x
  BY DEF OpToRel
<1> HIDE DEF R
<1>3. PICK x \in T : \A y \in T : ~ (<<y, x>> \in R)
  BY <1>1, WFMin
<1>4. \A y \in T : x \in Nat /\ y \in Nat /\ ~ (y < x)
  BY <1>2, <1>3
<1> QED
  BY <1>3, <1>4

\* The same for days that are bounded below.
LEMMA LeastDay ==
    ASSUME NEW from \in Int, NEW T, T \subseteq Int, T # {}, \A d \in T : from <= d
    PROVE  \E x \in T : \A y \in T : x <= y
<1> DEFINE N == {d - from : d \in T}
<1>0. \A d \in T : d - from \in Nat
  OBVIOUS
<1>1. N \subseteq Nat /\ N # {}
  BY <1>0
<1>2. PICK i \in N : \A j \in N : i <= j
  <2> HIDE DEF N
  <2> QED
    BY <1>1, LeastNatural
<1>3. PICK x \in T : i = x - from
  BY <1>2
<1>4. \A y \in T : x - from <= y - from
  BY <1>2, <1>3
<1>5. \A y \in T : x <= y
  <2> TAKE y \in T
  <2>1. x \in Int /\ y \in Int /\ x - from <= y - from
    BY <1>4
  <2> QED
    BY <2>1
<1> QED
  BY <1>3, <1>5

\* s sums value over the days from..to, as Total does.
Sums(value, from, to, s) ==
    s = [d \in from - 1 .. to |-> IF d < from THEN 0 ELSE s[d - 1] + value[d]]

LEMMA SumsExist ==
    ASSUME NEW value, NEW from \in Int, NEW to \in Int, from - 1 <= to
    PROVE  \E s : Sums(value, from, to, s)
<1> DEFINE Bad == {j \in Nat : ~ \E s : Sums(value, from, from - 1 + j, s)}
<1>1. ASSUME Bad # {} PROVE FALSE
  <2>1. PICK j \in Bad : \A i \in Bad : j <= i
    <3>1. Bad \subseteq Nat /\ Bad # {}
      BY <1>1
    <3> HIDE DEF Bad
    <3> QED
      BY <3>1, LeastNatural
  <2>2. j \in Nat
    BY <2>1
  <2>3. CASE j = 0
    <3> DEFINE s == [d \in from - 1 .. from - 1 |-> 0]
    <3>1. s = [d \in from - 1 .. from - 1 + j |-> IF d < from THEN 0 ELSE s[d - 1] + value[d]]
      BY <2>3
    <3> HIDE DEF s
    <3> QED
      BY <2>1, <3>1 DEF Sums
  <2>4. CASE j # 0
    <3> DEFINE last == from - 1 + j
    <3>1. PICK r : Sums(value, from, from - 1 + (j - 1), r)
      <4>1. j - 1 \in Nat /\ ~ (j <= j - 1)
        BY <2>2, <2>4
      <4> QED
        BY <2>1, <4>1
    <3>2. last \in Int /\ last >= from /\ from - 1 + (j - 1) = last - 1
      BY <2>2, <2>4
    <3>3. r = [d \in from - 1 .. last - 1 |-> IF d < from THEN 0 ELSE r[d - 1] + value[d]]
      BY <3>1, <3>2 DEF Sums
    <3> HIDE DEF last
    <3> DEFINE s == [d \in from - 1 .. last |-> IF d = last THEN r[d - 1] + value[d] ELSE r[d]]
    <3>4. \A d \in from - 1 .. last - 1 : s[d] = r[d]
      BY <3>2
    <3>5. \A d \in from - 1 .. last : s[d] = IF d < from THEN 0 ELSE s[d - 1] + value[d]
      <4> TAKE d \in from - 1 .. last
      <4>1. CASE d = last
        <5>1. s[d] = r[d - 1] + value[d] /\ ~(d < from) /\ d - 1 \in from - 1 .. last - 1
          BY <3>2, <4>1
        <5> QED
          BY <3>4, <5>1
      <4>2. CASE d # last
        <5>1. d \in from - 1 .. last - 1 /\ s[d] = r[d]
          BY <3>2, <4>2
        <5>2. r[d] = IF d < from THEN 0 ELSE r[d - 1] + value[d]
          BY <3>3, <5>1
        <5>3. ~(d < from) => d - 1 \in from - 1 .. last - 1
          BY <3>2, <5>1
        <5> QED
          BY <3>4, <5>1, <5>2, <5>3
      <4> QED
        BY <4>1, <4>2
    <3>6. s = [d \in from - 1 .. last |-> s[d]]
      OBVIOUS
    <3> HIDE DEF s
    <3>7. s = [d \in from - 1 .. last |-> IF d < from THEN 0 ELSE s[d - 1] + value[d]]
      BY <3>5, <3>6
    <3> QED
      BY <2>1, <3>7 DEF Sums, last
  <2> QED
    BY <2>3, <2>4
<1>2. to - from + 1 \in Nat /\ from - 1 + (to - from + 1) = to
  OBVIOUS
<1>3. \E s : Sums(value, from, from - 1 + (to - from + 1), s)
  BY <1>1, <1>2
<1> QED
  BY <1>2, <1>3

LEMMA TotalSums ==
    ASSUME NEW value, NEW from \in Int, NEW to \in Int, from - 1 <= to
    PROVE  \E s : Sums(value, from, to, s) /\ Total(value, from, to) = s[to]
<1>1. \E s : Sums(value, from, to, s)
  BY SumsExist
<1>2. \E s : s = [d \in from - 1 .. to |-> IF d < from THEN 0 ELSE s[d - 1] + value[d]]
  BY <1>1 DEF Sums
<1> QED
  BY <1>2 DEF Total, Sums

\* value[d] is the number of elements of S that a day has to itself.
Spread(S, of, value, from, to) ==
    /\ \A d \in from .. to : of[d] \subseteq S /\ value[d] = Cardinality(of[d])
    /\ \A d, e \in from .. to : d # e => of[d] \cap of[e] = {}

\* The elements of the days up to d.
Among(S, of, from, d) == {x \in S : \E e \in from .. d : x \in of[e]}

\* Numbers of elements that no two days share add up to the number of them all.
LEMMA SumOfNumbers ==
    ASSUME NEW S, IsFiniteSet(S), NEW from \in Int, NEW to \in Int, from - 1 <= to,
           NEW of, NEW value, Spread(S, of, value, from, to),
           NEW s, Sums(value, from, to, s)
    PROVE  \A d \in from - 1 .. to : s[d] = Cardinality(Among(S, of, from, d))
<1> DEFINE U(d) == {x \in S : \E e \in from .. d : x \in of[e]}
           Bad == {j \in Nat : from - 1 + j <= to /\ s[from - 1 + j] # Cardinality(U(from - 1 + j))}
<1>1. ASSUME Bad # {} PROVE FALSE
  <2>1. PICK j \in Bad : \A i \in Bad : j <= i
    <3>1. Bad \subseteq Nat /\ Bad # {}
      BY <1>1
    <3> HIDE DEF Bad
    <3> QED
      BY <3>1, LeastNatural
  <2> DEFINE d == from - 1 + j
  <2>2. j \in Nat /\ d \in Int /\ d \in from - 1 .. to /\ s[d] # Cardinality(U(d))
    <3>1. j \in Nat /\ d <= to /\ s[d] # Cardinality(U(d))
      BY <2>1
    <3> HIDE DEF U
    <3> QED
      BY <3>1
  <2>3. s[d] = IF d < from THEN 0 ELSE s[d - 1] + value[d]
    BY <2>2 DEF Sums
  <2>4. CASE j = 0
    <3>1. U(d) = {} /\ s[d] = 0
      BY <2>3, <2>4
    <3>2. Cardinality({}) = 0
      BY FS_EmptySet
    <3> HIDE DEF U
    <3> QED
      BY <2>2, <3>1, <3>2
  <2>5. CASE j # 0
    <3>1. d \in from .. to /\ d - 1 = from - 1 + (j - 1) /\ j - 1 \in Nat /\ d - 1 <= to
      BY <2>2, <2>5
    <3>2. s[d - 1] = Cardinality(U(d - 1))
      <4>1. ~(j <= j - 1) /\ j - 1 \in Nat
        BY <2>2, <3>1
      <4>2. j - 1 \notin Bad
        BY <2>1, <4>1
      <4> HIDE DEF U, d
      <4> QED
        BY <3>1, <4>1, <4>2
    <3>0. /\ of[d] \subseteq S /\ value[d] = Cardinality(of[d])
          /\ \A e \in from .. to : e # d => of[e] \cap of[d] = {}
      BY <3>1 DEF Spread
    <3>3. U(d) = U(d - 1) \cup of[d]
      <4>1. \A e : e \in from .. d <=> e \in from .. d - 1 \/ e = d
        BY <3>1
      <4> HIDE DEF d
      <4> QED
        BY <3>0, <4>1
    <3>4. U(d - 1) \cap of[d] = {}
      <4>1. \A e \in from .. d - 1 : e \in from .. to /\ e # d
        BY <3>1
      <4> HIDE DEF d
      <4> QED
        BY <3>0, <4>1
    <3>5. U(d - 1) \subseteq S /\ of[d] \subseteq S
      BY <3>0
    <3> HIDE DEF U, d
    <3>6. IsFiniteSet(U(d - 1)) /\ IsFiniteSet(of[d])
      BY <3>5, FS_Subset
    <3>7. Cardinality(U(d - 1) \cup of[d])
             = Cardinality(U(d - 1)) + Cardinality(of[d]) - Cardinality(U(d - 1) \cap of[d])
      BY <3>6, FS_Union
    <3>8. Cardinality(U(d - 1) \cap of[d]) = 0 /\ Cardinality(U(d - 1)) \in Nat /\ Cardinality(of[d]) \in Nat
      BY <3>4, <3>6, FS_EmptySet, FS_CardinalityType
    <3>9. Cardinality(U(d)) = Cardinality(U(d - 1)) + Cardinality(of[d])
      BY <3>3, <3>7, <3>8
    <3>10. s[d] = s[d - 1] + Cardinality(of[d])
      <4>1. ~ (d < from)
        BY <3>1
      <4> QED
        BY <2>3, <3>0, <4>1
    <3> QED
      BY <2>2, <3>2, <3>9, <3>10
  <2> QED
    BY <2>4, <2>5
<1>2. ASSUME NEW d \in from - 1 .. to PROVE s[d] = Cardinality(U(d))
  <2>1. d - from + 1 \in Nat /\ from - 1 + (d - from + 1) = d /\ d <= to
    BY <1>2
  <2>2. d - from + 1 \notin Bad
    BY <1>1
  <2> HIDE DEF U
  <2> QED
    BY <2>1, <2>2
<1> QED
  BY <1>2 DEF Among

----------------------------------------------------------------------------
(* First days.                                                             *)

LEMMA FirstDayExists ==
    ASSUME NEW G, G \subseteq Facts, NEW from \in Int, NEW to \in Int, During(G, from .. to) # {}
    PROVE  \E day \in from .. to : FirstDayIs(During(G, from .. to), day)
<1> DEFINE T == {f.day : f \in During(G, from .. to)}
<1>1. T \subseteq Int /\ T # {} /\ \A d \in T : from <= d
  BY FactTyped DEF During
<1>2. PICK x \in T : \A y \in T : x <= y
  <2> HIDE DEF T
  <2> QED
    BY <1>1, LeastDay
<1>3. x \in from .. to /\ FirstDayIs(During(G, from .. to), x)
  BY <1>2 DEF FirstDayIs, During
<1> QED
  BY <1>3

LEMMA FirstDayUnique ==
    ASSUME NEW G, G \subseteq Facts, NEW d, NEW e, FirstDayIs(G, d), FirstDayIs(G, e)
    PROVE  d = e
BY FactTyped DEF FirstDayIs

\* Each member x of S has facts G[x], and is counted on the day of the first.
OnFirstDays(S, G, value, from, to) ==
    /\ \A x \in S : G[x] \subseteq Facts /\ During(G[x], from .. to) # {}
    /\ \A d \in from .. to :
           value[d] = Cardinality({x \in S : FirstDayIs(During(G[x], from .. to), d)})

\* So each is counted once.
LEMMA CountedOnFirstDays ==
    ASSUME NEW S, IsFiniteSet(S), NEW from \in Int, NEW to \in Int, from - 1 <= to,
           NEW G, NEW value, OnFirstDays(S, G, value, from, to)
    PROVE  Total(value, from, to) = Cardinality(S)
<1> DEFINE of == [d \in from .. to |-> {x \in S : FirstDayIs(During(G[x], from .. to), d)}]
<1>1. PICK s : Sums(value, from, to, s) /\ Total(value, from, to) = s[to]
  BY TotalSums
<1>2. \A x \in S : /\ During(G[x], from .. to) \subseteq Facts
                    /\ G[x] \subseteq Facts /\ During(G[x], from .. to) # {}
  BY DEF During, OnFirstDays
<1>3. \A d, e \in from .. to : d # e => of[d] \cap of[e] = {}
  BY <1>2, FirstDayUnique
<1>4. \A d \in from .. to : of[d] \subseteq S /\ value[d] = Cardinality(of[d])
  BY DEF OnFirstDays
<1>5. Among(S, of, from, to) = S
  <2> SUFFICES ASSUME NEW x \in S PROVE \E e \in from .. to : x \in of[e]
    BY DEF Among
  <2>1. PICK e \in from .. to : FirstDayIs(During(G[x], from .. to), e)
    BY <1>2, FirstDayExists
  <2> QED
    BY <2>1
<1> HIDE DEF of
<1>6. s[to] = Cardinality(Among(S, of, from, to))
  <2>1. to \in from - 1 .. to
    OBVIOUS
  <2>2. Spread(S, of, value, from, to)
    BY <1>3, <1>4 DEF Spread
  <2>3. \A d \in from - 1 .. to : s[d] = Cardinality(Among(S, of, from, d))
    BY <1>1, <2>2, SumOfNumbers
  <2> QED
    BY <2>1, <2>3
<1> QED
  BY <1>1, <1>5, <1>6

\* New and reactivated companies are two kinds of active ones.
LEMMA NewCompaniesAddUp ==
    ASSUME NEW F, F \subseteq Facts, NEW from \in Int, NEW to \in Int, from <= to
    PROVE  Total(NewReactivatedTrend(F, from, to), from, to)
               = Cardinality(WithStatus(F, F, from, to, "new"))
                 + Cardinality(WithStatus(F, F, from, to, "reactivated"))
<1> DEFINE n == to - from + 1
           active == ActiveCompanies(During(F, from .. to))
           back(c) == IsReactivated(c, ActiveCompanies(During(F, from - n .. from - 1)),
                                    {d \in Companies : SeenBefore(F, d, from - n)})
           new == {c \in active : FirstSeenIn(F, c, from, to)}
           reactivated == {c \in active : ~ FirstSeenIn(F, c, from, to) /\ back(c)}
           S == new \cup reactivated
           G == [c \in S |-> OfCompany(F, c)]
<1>1. WithStatus(F, F, from, to, "new") = new
  BY DEF WithStatus, StatusOf
<1>2. WithStatus(F, F, from, to, "reactivated") = reactivated
  BY DEF WithStatus, StatusOf
<1>3. active \subseteq Companies
  BY FactTyped DEF ActiveCompanies, During
<1>4. \A c \in S : G[c] \subseteq Facts /\ During(G[c], from .. to) # {}
  BY DEF ActiveCompanies, During, OfCompany
<1>5. \A d \in from .. to :
         NewReactivatedTrend(F, from, to)[d]
             = Cardinality({c \in S : FirstDayIs(During(G[c], from .. to), d)})
  <2> TAKE d \in from .. to
  <2>1. NewReactivatedOn(F, from, to, d)
            = {c \in active : /\ FirstDayIs(During(OfCompany(F, c), from .. to), d)
                              /\ FirstSeenIn(F, c, from, to) \/ back(c)}
    BY DEF NewReactivatedOn
  <2>2. NewReactivatedOn(F, from, to, d) = {c \in S : FirstDayIs(During(G[c], from .. to), d)}
    <3>1. \A c \in active : c \in S <=> FirstSeenIn(F, c, from, to) \/ back(c)
      OBVIOUS
    <3>2. S \subseteq active /\ \A c \in S : G[c] = OfCompany(F, c)
      OBVIOUS
    <3> HIDE DEF S, G, active, back
    <3> QED
      BY <2>1, <3>1, <3>2
  <2>3. NewReactivatedTrend(F, from, to)[d] = Cardinality(NewReactivatedOn(F, from, to, d))
    BY DEF NewReactivatedTrend
  <2> HIDE DEF S, G
  <2> QED
    BY <2>2, <2>3
<1>6. IsFiniteSet(new) /\ IsFiniteSet(reactivated) /\ IsFiniteSet(S) /\ new \cap reactivated = {}
  <2>1. new \subseteq Companies /\ reactivated \subseteq Companies
    BY <1>3
  <2>2. IsFiniteSet(new) /\ IsFiniteSet(reactivated)
    BY <2>1, CompanyHealthAssumption, FS_Subset
  <2>3. new \cap reactivated = {}
    OBVIOUS
  <2> HIDE DEF new, reactivated
  <2> QED
    BY <2>2, <2>3, FS_Union
<1>7. from - 1 <= to
  OBVIOUS
<1>8. Total(NewReactivatedTrend(F, from, to), from, to) = Cardinality(S)
  <2> HIDE DEF S, G
  <2>1. OnFirstDays(S, G, NewReactivatedTrend(F, from, to), from, to)
    BY <1>4, <1>5 DEF OnFirstDays
  <2> QED
    BY <1>6, <1>7, <2>1, CountedOnFirstDays
<1>9. Cardinality(S) = Cardinality(new) + Cardinality(reactivated)
  <2> HIDE DEF new, reactivated
  <2>1. Cardinality(S) = Cardinality(new) + Cardinality(reactivated) - Cardinality(new \cap reactivated)
    BY <1>6, FS_Union
  <2>2. Cardinality(new \cap reactivated) = 0 /\ Cardinality(new) \in Nat /\ Cardinality(reactivated) \in Nat
    BY <1>6, FS_EmptySet, FS_CardinalityType
  <2> QED
    BY <2>1, <2>2
<1> QED
  BY <1>1, <1>2, <1>8, <1>9

\* So are new and reactivated users of a company.
LEMMA NewUsersAddUp ==
    ASSUME NEW F, F \subseteq Facts, NEW c, NEW from \in Int, NEW to \in Int, from <= to,
           NEW previousStart
    PROVE  NewReactivatedUsers(F, c, from, to, previousStart)[to]
               = Cardinality(NewUsers(F, c, from, to))
                 + Cardinality(ReactivatedUsers(F, c, from, to, previousStart)
                               \ NewUsers(F, c, from, to))
<1> DEFINE new == NewUsers(F, c, from, to)
           back == ReactivatedUsers(F, c, from, to, previousStart)
           S == new \cup back
           G == [u \in S |-> OfUser(F, c, u)]
           daily == [day \in from .. to |->
                        Cardinality({u \in S : FirstDayIs(During(OfUser(F, c, u), from .. to), day)})]
<1>1. S \subseteq UsersIn(During(F, from .. to), c)
  BY DEF NewUsers, ReactivatedUsers
<1>2. S \subseteq Users
  BY <1>1, FactTyped DEF UsersIn, During, OfCompany
<1>3. \A u \in S : OfUser(F, c, u) \subseteq Facts /\ During(OfUser(F, c, u), from .. to) # {}
  BY <1>1 DEF UsersIn, During, OfUser, OfCompany
<1>4. NewReactivatedUsers(F, c, from, to, previousStart)[to] = Total(daily, from, to)
  BY DEF NewReactivatedUsers
<1>5. \A u \in S : G[u] = OfUser(F, c, u)
  OBVIOUS
<1>6. \A d \in from .. to :
         daily[d] = Cardinality({u \in S : FirstDayIs(During(G[u], from .. to), d)})
  <2> TAKE d \in from .. to
  <2>1. {u \in S : FirstDayIs(During(G[u], from .. to), d)}
          = {u \in S : FirstDayIs(During(OfUser(F, c, u), from .. to), d)}
    <3> HIDE DEF S, G
    <3> QED
      BY <1>5
  <2> HIDE DEF S, G
  <2> QED
    BY <2>1
<1> HIDE DEF G, daily, new, back
<1>7. IsFiniteSet(S) /\ new \subseteq S /\ S = new \cup (back \ new)
  BY <1>2, CompanyHealthAssumption, FS_Subset
<1>8. IsFiniteSet(new) /\ IsFiniteSet(back \ new)
  BY <1>7, FS_Subset
<1>9. Total(daily, from, to) = Cardinality(S)
  <2>1. \A u \in S : G[u] \subseteq Facts /\ During(G[u], from .. to) # {}
    BY <1>3, <1>5
  <2>2. from - 1 <= to
    OBVIOUS
  <2> HIDE DEF S
  <2>3. OnFirstDays(S, G, daily, from, to)
    BY <1>6, <2>1 DEF OnFirstDays
  <2> QED
    BY <1>7, <2>2, <2>3, CountedOnFirstDays
<1>10. Cardinality(S) = Cardinality(new) + Cardinality(back \ new)
  <2>1. Cardinality(new \cup (back \ new))
          = Cardinality(new) + Cardinality(back \ new) - Cardinality(new \cap (back \ new))
    BY <1>8, FS_Union
  <2>2. new \cap (back \ new) = {}
    OBVIOUS
  <2>3. /\ Cardinality(new \cap (back \ new)) = 0
        /\ Cardinality(new) \in Nat /\ Cardinality(back \ new) \in Nat
    BY <1>8, <2>2, FS_EmptySet, FS_CardinalityType
  <2>4. Cardinality(S) = Cardinality(new \cup (back \ new))
    BY <1>7
  <2> QED
    BY <2>1, <2>3, <2>4
<1> QED
  BY <1>4, <1>9, <1>10 DEF new, back

----------------------------------------------------------------------------
(* Prefix sums.                                                            *)

\* value[d] is the number of facts on a day.
Daily(G, value, from, to) == \A d \in from .. to : value[d] = Cardinality(During(G, {d}))

\* p[i] is the number of facts on the first i days.
CountsUpTo(p, G, from, to) ==
    \A i \in 0 .. to - from + 1 : p[i] = Cardinality(During(G, from .. from + i - 1))

\* A prefix counts the facts of its days.
LEMMA PrefixCounts ==
    ASSUME NEW G, G \subseteq Facts, NEW from \in Int, NEW to \in Int, from - 1 <= to,
           NEW value, Daily(G, value, from, to)
    PROVE  CountsUpTo(Prefix(value, from, to), G, from, to)
<1> DEFINE top == to - from + 1
           moved == [i \in 1 .. top |-> value[from + i - 1]]
           of == [i \in 1 .. top |-> During(G, {from + i - 1})]
<1>0. top \in Nat
  OBVIOUS
<1>1. PICK s : s = [i \in 0 .. top |-> IF i = 0 THEN 0 ELSE s[i - 1] + value[from + i - 1]]
               /\ Prefix(value, from, to) = s
  <2>0. 1 - 1 <= top /\ 1 - 1 = 0 /\ 1 \in Int /\ top \in Int
    BY <1>0
  <2>1. PICK r : Sums(moved, 1, top, r)
    <3> HIDE DEF moved, top
    <3> QED
      BY <2>0, SumsExist
  <2>2. r = [d \in 0 .. top |-> IF d < 1 THEN 0 ELSE r[d - 1] + moved[d]]
    <3> HIDE DEF moved, top
    <3> QED
      BY <2>0, <2>1 DEF Sums
  <2>3. \A d \in 0 .. top : r[d] = IF d = 0 THEN 0 ELSE r[d - 1] + value[from + d - 1]
    <3> TAKE d \in 0 .. top
    <3>1. d < 1 <=> d = 0
      OBVIOUS
    <3>2. d # 0 => moved[d] = value[from + d - 1]
      OBVIOUS
    <3> HIDE DEF top, moved
    <3> QED
      BY <2>2, <3>1, <3>2
  <2>4. r = [d \in 0 .. top |-> r[d]]
    BY <2>2
  <2>5. r = [d \in 0 .. top |-> IF d = 0 THEN 0 ELSE r[d - 1] + value[from + d - 1]]
    <3> HIDE DEF top, moved
    <3> QED
      BY <2>3, <2>4
  <2> QED
    BY <2>5 DEF Prefix
<1>2. Sums(moved, 1, top, s)
  <2>1. \A d \in 0 .. top : s[d] = IF d < 1 THEN 0 ELSE s[d - 1] + moved[d]
    BY <1>0, <1>1
  <2>2. s = [d \in 0 .. top |-> s[d]]
    BY <1>1
  <2>3. s = [d \in 1 - 1 .. top |-> IF d < 1 THEN 0 ELSE s[d - 1] + moved[d]]
    <3> HIDE DEF top, moved
    <3> QED
      BY <2>1, <2>2
  <2> QED
    BY <2>3 DEF Sums
<1>3. \A i \in 1 .. top : of[i] \subseteq G /\ moved[i] = Cardinality(of[i])
  <2> TAKE i \in 1 .. top
  <2>1. from + i - 1 \in from .. to
    OBVIOUS
  <2> QED
    BY <2>1 DEF During, Daily
<1>4. \A i, j \in 1 .. top : i # j => of[i] \cap of[j] = {}
  BY DEF During
<1>5. \A i \in 0 .. top : s[i] = Cardinality(Among(G, of, 1, i))
  <2> HIDE DEF of, moved, top
  <2>1. 1 - 1 <= top /\ IsFiniteSet(G) /\ 1 \in Int /\ top \in Int /\ 1 - 1 = 0
    BY <1>0, FactsFinite
  <2>2. Spread(G, of, moved, 1, top)
    BY <1>3, <1>4 DEF Spread
  <2>3. \A i \in 1 - 1 .. top : s[i] = Cardinality(Among(G, of, 1, i))
    BY <1>2, <2>1, <2>2, SumOfNumbers
  <2> QED
    BY <2>1, <2>3
<1>6. ASSUME NEW i \in 0 .. top
      PROVE  Among(G, of, 1, i) = During(G, from .. from + i - 1)
  <2>1. ASSUME NEW f \in G, f.day \in from .. from + i - 1 PROVE \E j \in 1 .. i : f \in of[j]
    <3>1. f.day - from + 1 \in 1 .. i /\ f \in of[f.day - from + 1]
      BY <2>1, FactTyped DEF During
    <3> QED
      BY <3>1
  <2>2. ASSUME NEW f \in G, NEW j \in 1 .. i, f \in of[j] PROVE f.day \in from .. from + i - 1
    BY <2>2 DEF During
  <2> HIDE DEF of
  <2> QED
    BY <2>1, <2>2 DEF During, Among
<1> QED
  BY <1>1, <1>5, <1>6 DEF CountsUpTo

\* So the difference of two of them counts the facts in between.
LEMMA RangeCounts ==
    ASSUME NEW G, G \subseteq Facts, NEW history \in Int, NEW end \in Int,
           NEW value, Daily(G, value, history, end),
           NEW first \in Int, NEW last \in Int, history <= first, first <= last, last <= end
    PROVE  RangeSum(Prefix(value, history, end), history, end, first, last)
               = Cardinality(During(G, first .. last))
<1> DEFINE p == Prefix(value, history, end)
           before == During(G, history .. first - 1)
           within == During(G, first .. last)
           all == During(G, history .. last)
<1>1. /\ p[last - history + 1] = Cardinality(all)
      /\ p[first - history] = Cardinality(before)
  <2>1. /\ last - history + 1 \in 0 .. end - history + 1
        /\ history + (last - history + 1) - 1 = last
        /\ first - history \in 0 .. end - history + 1
        /\ history + (first - history) - 1 = first - 1
        /\ history - 1 <= end
    OBVIOUS
  <2> HIDE DEF p, before, within, all
  <2>2. \A i \in 0 .. end - history + 1 : p[i] = Cardinality(During(G, history .. history + i - 1))
    <3>1. CountsUpTo(Prefix(value, history, end), G, history, end)
      BY <2>1, PrefixCounts
    <3> QED
      BY <3>1 DEF p, CountsUpTo
  <2> QED
    BY <2>1, <2>2 DEF all, before
<1>2. RangeSum(p, history, end, first, last) = p[last - history + 1] - p[first - history]
  <2>1. (IF first > history THEN first ELSE history) = first /\ (IF last < end THEN last ELSE end) = last
    OBVIOUS
  <2> HIDE DEF p
  <2> QED
    BY <2>1 DEF RangeSum
<1>3. before \cup within = all /\ before \cap within = {}
  BY FactTyped DEF During
<1>4. before \subseteq Facts /\ within \subseteq Facts
  BY DEF During
<1> HIDE DEF p, before, within, all
<1>5. IsFiniteSet(before) /\ IsFiniteSet(within) /\ Cardinality(before) \in Nat /\ Cardinality(within) \in Nat
  BY <1>4, FactsFinite
<1>6. Cardinality(before \cup within)
          = Cardinality(before) + Cardinality(within) - Cardinality(before \cap within)
  BY <1>5, FS_Union
<1>7. Cardinality(before \cap within) = 0
  BY <1>3, FS_EmptySet
<1>8. Cardinality(all) = Cardinality(before) + Cardinality(within)
  BY <1>3, <1>5, <1>6, <1>7
<1> QED
  BY <1>1, <1>2, <1>5, <1>8 DEF p, within

\* The prefix sums of a user.
VisitSums(F, c, u, history, end) ==
    Prefix([d \in history .. end |-> UserRow(F, c, u, {d}).visits], history, end)

EngagedSums(F, c, u, history, end) ==
    Prefix([d \in history .. end |-> UserRow(F, c, u, {d}).engaged], history, end)

\* What they say of some days is what a report says.
LEMMA UserRowOfSums ==
    ASSUME NEW F, F \subseteq Facts, NEW c, NEW u, NEW history \in Int, NEW end \in Int,
           NEW first \in Int, NEW last \in Int, history <= first, first <= last, last <= end
    PROVE  /\ RangeSum(VisitSums(F, c, u, history, end), history, end, first, last)
                  = UserRow(F, c, u, first .. last).visits
           /\ RangeSum(EngagedSums(F, c, u, history, end), history, end, first, last)
                  = UserRow(F, c, u, first .. last).engaged
<1> DEFINE G == OfUser(F, c, u)
           E == {f \in G : f.engaged}
           visits == [d \in history .. end |-> UserRow(F, c, u, {d}).visits]
           engaged == [d \in history .. end |-> UserRow(F, c, u, {d}).engaged]
<1>1. G \subseteq Facts /\ E \subseteq Facts
  BY DEF OfUser, OfCompany
<1>2. ASSUME NEW days
      PROVE  /\ UserRow(F, c, u, days).visits = Cardinality(During(G, days))
             /\ UserRow(F, c, u, days).engaged = Cardinality(During(E, days))
  <2>1. {f \in During(G, days) : f.engaged} = During(E, days)
    BY DEF During
  <2> HIDE DEF G, E
  <2> QED
    BY <2>1 DEF UserRow, G
<1>3. Daily(G, visits, history, end)
  <2> HIDE DEF G, E
  <2> QED
    BY <1>2 DEF Daily
<1>4. Daily(E, engaged, history, end)
  <2> HIDE DEF G, E
  <2> QED
    BY <1>2 DEF Daily
<1> HIDE DEF G, E, visits, engaged
<1>5. RangeSum(Prefix(visits, history, end), history, end, first, last) = Cardinality(During(G, first .. last))
  BY <1>1, <1>3, RangeCounts
<1>6. RangeSum(Prefix(engaged, history, end), history, end, first, last) = Cardinality(During(E, first .. last))
  BY <1>1, <1>4, RangeCounts
<1> QED
  BY <1>2, <1>5, <1>6 DEF visits, engaged, VisitSums, EngagedSums

\* The history that is read reaches back to the first risk period of the first day.
LEMMA RiskTrendExact ==
    ASSUME NEW F, F \subseteq Facts, NEW c, NEW from \in Int, NEW to \in Int, from <= to,
           NEW day \in from .. to
    PROVE  AtRiskUserTrend(F, c, from, to)[day]
               = Cardinality(AtRiskUsers(F, c, from, day, RiskDays(from, to)))
<1> DEFINE n == RiskDays(from, to)
           history == UserHistoryStart(from, to)
           users == UsersIn(During(F, from .. to), c)
           visits == [u \in users |->
                        Prefix([d \in history .. to |-> UserRow(F, c, u, {d}).visits], history, to)]
           engaged == [u \in users |->
                         Prefix([d \in history .. to |-> UserRow(F, c, u, {d}).engaged], history, to)]
           row(u, first, last) == [visits  |-> RangeSum(visits[u], history, to, first, last),
                                   engaged |-> RangeSum(engaged[u], history, to, first, last)]
           counted == {u \in users :
                          /\ During(OfUser(F, c, u), from .. day) # {}
                          /\ UserAtRisk(row(u, day - 2 * n + 1, day - n), row(u, day - n + 1, day))}
<1>1. n \in Nat \ {0} /\ history = from - (2 * n - 1) /\ history \in Int
  BY CompanyDetailsAssumption DEF RiskDays, UserHistoryStart
<1>2. AtRiskUserTrend(F, c, from, to)[day] = Cardinality(counted)
  BY DEF AtRiskUserTrend
<1>3. /\ day - 2 * n + 1 \in Int /\ day - n \in Int /\ day - n + 1 \in Int /\ day \in Int
      /\ history <= day - 2 * n + 1 /\ day - 2 * n + 1 <= day - n /\ day - n <= to
      /\ history <= day - n + 1 /\ day - n + 1 <= day /\ day <= to
  <2> HIDE DEF n, history
  <2> QED
    BY <1>1
<1>4. ASSUME NEW u \in users, NEW first \in Int, NEW last \in Int,
             history <= first, first <= last, last <= to
      PROVE  row(u, first, last) = UserRow(F, c, u, first .. last)
  <2>1. /\ RangeSum(visits[u], history, to, first, last) = UserRow(F, c, u, first .. last).visits
        /\ RangeSum(engaged[u], history, to, first, last) = UserRow(F, c, u, first .. last).engaged
    <3>1. visits[u] = VisitSums(F, c, u, history, to) /\ engaged[u] = EngagedSums(F, c, u, history, to)
      BY <1>4 DEF VisitSums, EngagedSums
    <3> HIDE DEF n, history, users, visits, engaged
    <3>2. /\ RangeSum(VisitSums(F, c, u, history, to), history, to, first, last)
                = UserRow(F, c, u, first .. last).visits
          /\ RangeSum(EngagedSums(F, c, u, history, to), history, to, first, last)
                = UserRow(F, c, u, first .. last).engaged
      BY <1>1, <1>4, UserRowOfSums
    <3> QED
      BY <3>1, <3>2
  <2> HIDE DEF n, history, users, visits, engaged
  <2> QED
    BY <2>1 DEF UserRow
<1>5. UsersIn(During(F, from .. day), c) = {u \in users : During(OfUser(F, c, u), from .. day) # {}}
  <2>1. \A f \in F : f.day \in from .. day => f.day \in from .. to
    OBVIOUS
  <2> QED
    BY <2>1 DEF UsersIn, During, OfUser, OfCompany
<1> HIDE DEF n, history, users, row
<1>6. \A u \in users : /\ row(u, day - 2 * n + 1, day - n) = UserRow(F, c, u, day - 2 * n + 1 .. day - n)
                       /\ row(u, day - n + 1, day) = UserRow(F, c, u, day - n + 1 .. day)
  BY <1>3, <1>4
<1>7. counted = AtRiskUsers(F, c, from, day, n)
  BY <1>5, <1>6 DEF AtRiskUsers
<1> QED
  BY <1>2, <1>7 DEF n

----------------------------------------------------------------------------

LEMMA FiguresMet == HealthTypeOK => TrendsEndAtFigures
<1> SUFFICES ASSUME HealthTypeOK, NEW n \in Lengths
             PROVE  LET from   == PeriodStart(n, today)
                        to     == PeriodEnd(today)
                        figure == [s \in {"new", "reactivated"} |->
                                      Cardinality(WithStatus(facts, facts, from, to, s))]
                    IN  /\ Total(NewReactivatedTrend(facts, from, to), from, to)
                              = figure["new"] + figure["reactivated"]
                        /\ \A c \in ActiveCompanies(facts) :
                             /\ \A start \in {from, from - n} :
                                  LET end         == start + n - 1
                                      isNew       == NewUsers(facts, c, start, end)
                                      reactivated == ReactivatedUsers(facts, c, start, end, start - n)
                                  IN  NewReactivatedUsers(facts, c, start, end, start - n)[end]
                                          = Cardinality(isNew) + Cardinality(reactivated \ isNew)
                             /\ \A day \in from .. to :
                                  AtRiskUserTrend(facts, c, from, to)[day]
                                      = Cardinality(AtRiskUsers(facts, c, from, day, RiskDays(from, to)))
  BY DEF TrendsEndAtFigures
<1> DEFINE from == PeriodStart(n, today)
           to == PeriodEnd(today)
<1>1. n \in Nat \ {0} /\ today \in Int /\ facts \subseteq Facts
  BY LengthsPositive DEF HealthTypeOK
<1>2. from \in Int /\ to \in Int /\ from <= to
  BY <1>1 DEF PeriodStart, PeriodEnd
<1> HIDE DEF from, to
<1>3. Total(NewReactivatedTrend(facts, from, to), from, to)
          = Cardinality(WithStatus(facts, facts, from, to, "new"))
            + Cardinality(WithStatus(facts, facts, from, to, "reactivated"))
  BY <1>1, <1>2, NewCompaniesAddUp
<1>4. ASSUME NEW c, NEW start \in {from, from - n}
      PROVE  NewReactivatedUsers(facts, c, start, start + n - 1, start - n)[start + n - 1]
                 = Cardinality(NewUsers(facts, c, start, start + n - 1))
                   + Cardinality(ReactivatedUsers(facts, c, start, start + n - 1, start - n)
                                 \ NewUsers(facts, c, start, start + n - 1))
  <2>1. start \in Int /\ start + n - 1 \in Int /\ start <= start + n - 1
    BY <1>1, <1>2, <1>4
  <2> QED
    BY <1>1, <2>1, NewUsersAddUp
<1>5. ASSUME NEW c, NEW day \in from .. to
      PROVE  AtRiskUserTrend(facts, c, from, to)[day]
                 = Cardinality(AtRiskUsers(facts, c, from, day, RiskDays(from, to)))
  BY <1>1, <1>2, RiskTrendExact
<1> QED
  BY <1>3, <1>4, <1>5 DEF from, to

----------------------------------------------------------------------------
(* The theorems.                                                           *)

LEMMA Invariant == Spec => []IInv
BY InitInv, NextInv, PTL DEF Spec

\* The tables, the shared reads, the report and the two windows keep their
\* types: every counter of a window stays a natural number.
THEOREM HealthTyped == Spec => []HealthTypeOK
<1>1. IInv => HealthTypeOK
  BY DEF IInv
<1> QED
  BY <1>1, Invariant, PTL

\* The rolling windows of _company_risk_trend equal two adjacent periods,
\* for every set of facts and every list of period lengths.
THEOREM WindowsStayExact == Spec => []WindowsExact
<1>1. IInv => WindowsExact
  BY DEF IInv
<1> QED
  BY <1>1, Invariant, PTL

\* Every point of the at-risk trend is the count that a report for the period
\* ending on its day gives, and the last one is the headline's number, unless
\* the facts changed during the build.
THEOREM TrendIsTheReports == Spec => []TrendAgrees
<1>1. IInv => TrendAgrees
  BY DEF IInv
<1> QED
  BY <1>1, Invariant, PTL

\* What company_detail_analytics and company_analytics sum over days: the series of new and
\* reactivated companies, and of the new and reactivated users of a company, add up to the
\* figures shown next to them, and the users at risk as of each day, taken from prefix sums,
\* are those that a report ending that day names.
THEOREM TrendsMeetFigures == Spec => []TrendsEndAtFigures
<1>1. HealthTypeOK => TrendsEndAtFigures
  BY FiguresMet
<1> QED
  BY <1>1, HealthTyped, PTL
=============================================================================
