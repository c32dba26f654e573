--------------------------- MODULE ScheduleProofs ---------------------------
(***************************************************************************)
(* Proofs about the schedule engine, for every calendar, set of shifts,    *)
(* slots and rules: whatever is claimed, in whatever order, her schedule   *)
(* keeps her rules; and a shift is accepted exactly if she is free during  *)
(* all of it.  The hours of some shifts and the merging of windows are     *)
(* folds of the community modules over finite sets, so what a recursion    *)
(* over the subsets of a finite set computes comes first.                  *)
(***************************************************************************)
EXTENDS Schedule, TLAPS, FiniteSetTheorems, SequenceTheorems

-----------------------------------------------------------------------------
(* Numbers                                                                 *)

\* Division by a positive number.
LEMMA Division ==
  ASSUME NEW a \in Int, NEW b \in Nat \ {0}
  PROVE  /\ a \div b \in Int /\ a % b \in 0..b - 1
         /\ a = (a \div b) * b + (a % b)
         /\ a >= 0 => a \div b >= 0
  OBVIOUS

-----------------------------------------------------------------------------
(* Recursion over a finite set                                             *)

\* Of any subsets of a finite set one has none of the others inside it.
LEMMA SmallestSubset ==
  ASSUME NEW S, IsFiniteSet(S), NEW T, T \subseteq SUBSET S, T # {}
  PROVE  \E s \in T : \A t \in T : t \subseteq s => t = s
  <1>1. FiniteSubsetsOf(S) = SUBSET S
    BY FS_FiniteSubsetsOfFinite
  <1>2. IsWellFoundedOn(StrictSubsetOrdering(S), SUBSET S)
    BY <1>1, FS_StrictSubsetOrderingWellFounded
  <1>3. PICK s \in T : \A t \in T : ~(<<t, s>> \in StrictSubsetOrdering(S))
    BY <1>2, WFMin
  <1>4. \A t \in T : t \subseteq s /\ t # s => <<t, s>> \in StrictSubsetOrdering(S)
    BY DEF StrictSubsetOrdering
  <1>5. \A t \in T : t \subseteq s => t = s
    BY <1>3, <1>4
  <1> QED BY <1>5

\* g is what recursion over the subsets of S computes: base for the empty
\* set, and else what step makes of a chosen element and of the rest.
Recurses(g, S, base, pick, step) ==
  g = [s \in SUBSET S |-> IF s = {} THEN base ELSE step[pick[s], g[s \ {pick[s]}]]]

\* There is at most one such function ...
LEMMA RecursionUnique ==
  ASSUME NEW S, IsFiniteSet(S), NEW base, NEW pick, NEW step, NEW g, NEW h, NEW R, R \in SUBSET S,
         \A s \in SUBSET S : s # {} => pick[s] \in s,
         Recurses(g, S, base, pick, step), Recurses(h, R, base, pick, step)
  PROVE  \A s \in SUBSET R : g[s] = h[s]
  <1> DEFINE Bad == {s \in SUBSET R : g[s] # h[s]}
  <1>1. SUFFICES ASSUME Bad # {} PROVE FALSE
    OBVIOUS
  <1>2. Bad \subseteq SUBSET S
    OBVIOUS
  <1>3. PICK s \in Bad : \A t \in Bad : t \subseteq s => t = s
    <2> HIDE DEF Bad
    <2> QED BY <1>1, <1>2, SmallestSubset
  <1>4. /\ g[s] = IF s = {} THEN base ELSE step[pick[s], g[s \ {pick[s]}]]
        /\ h[s] = IF s = {} THEN base ELSE step[pick[s], h[s \ {pick[s]}]]
    BY DEF Recurses
  <1>5. s # {}
    BY <1>4
  <1>6. s \ {pick[s]} # s /\ s \ {pick[s]} \in SUBSET R
    BY <1>5
  <1>7. g[s \ {pick[s]}] = h[s \ {pick[s]}]
    BY <1>3, <1>6
  <1> QED BY <1>4, <1>5, <1>7

\* ... and there is one.
LEMMA RecursionExists ==
  ASSUME NEW S, IsFiniteSet(S), NEW base, NEW pick, NEW step,
         \A s \in SUBSET S : s # {} => pick[s] \in s
  PROVE  \E g : Recurses(g, S, base, pick, step)
  <1> DEFINE Bad == {s \in SUBSET S : ~ \E g : Recurses(g, s, base, pick, step)}
  <1>1. SUFFICES ASSUME Bad # {} PROVE FALSE
    OBVIOUS
  <1>2. PICK s \in Bad : \A t \in Bad : t \subseteq s => t = s
    <2>1. Bad \subseteq SUBSET S
      OBVIOUS
    <2> HIDE DEF Bad
    <2> QED BY <1>1, <2>1, SmallestSubset
  <1> DEFINE Sol(t) == CHOOSE g : Recurses(g, t, base, pick, step)
             Rest(t) == t \ {pick[t]}
             g == [t \in SUBSET s |-> IF t = {} THEN base ELSE step[pick[t], Sol(Rest(t))[Rest(t)]]]
  <1>3. ASSUME NEW t \in SUBSET s, t # s PROVE Recurses(Sol(t), t, base, pick, step)
    <2>1. t \in SUBSET S /\ t \notin Bad
      BY <1>2, <1>3
    <2>2. \E x : Recurses(x, t, base, pick, step)
      BY <2>1
    <2> QED BY <2>2
  <1>4. ASSUME NEW t \in SUBSET s, t # {} PROVE Rest(t) \in SUBSET s /\ Rest(t) # s
    BY <1>4
  <1>5. ASSUME NEW t \in SUBSET s, t # {} PROVE Sol(Rest(t))[Rest(t)] = g[Rest(t)]
    <2> DEFINE u == Rest(t)
    <2>1. u \in SUBSET s /\ u # s
      BY <1>4, <1>5
    <2>2. Sol(u)[u] = IF u = {} THEN base ELSE step[pick[u], Sol(u)[Rest(u)]]
      <3>1. Recurses(Sol(u), u, base, pick, step)
        BY <1>3, <2>1
      <3> HIDE DEF Sol, u
      <3> QED BY <3>1 DEF Recurses
    <2>3. g[u] = IF u = {} THEN base ELSE step[pick[u], Sol(Rest(u))[Rest(u)]]
      BY <2>1
    <2>4. CASE u = {}
      BY <2>2, <2>3, <2>4
    <2>5. CASE u # {}
      <3>1. Rest(u) \in SUBSET u /\ Rest(u) \in SUBSET s /\ Rest(u) # s
        BY <1>4, <2>1, <2>5
      <3>2. Recurses(Sol(u), u, base, pick, step) /\ Recurses(Sol(Rest(u)), Rest(u), base, pick, step)
        BY <1>3, <2>1, <3>1
      <3>3. IsFiniteSet(u) /\ \A x \in SUBSET u : x # {} => pick[x] \in x
        BY <2>1, FS_Subset
      <3> HIDE DEF Sol, Rest, u, g
      <3>4. \A x \in SUBSET Rest(u) : Sol(u)[x] = Sol(Rest(u))[x]
        BY <3>1, <3>2, <3>3, RecursionUnique
      <3>5. Sol(u)[Rest(u)] = Sol(Rest(u))[Rest(u)]
        BY <3>4
      <3> QED BY <2>2, <2>3, <2>5, <3>5 DEF u
    <2> QED BY <2>4, <2>5
  <1>6. Recurses(g, s, base, pick, step)
    <2>1. \A t \in SUBSET s : t # {} => Sol(Rest(t))[Rest(t)] = g[Rest(t)]
      BY <1>5
    <2> HIDE DEF Sol, g
    <2>2. \A t \in SUBSET s : (IF t = {} THEN base ELSE step[pick[t], Sol(Rest(t))[Rest(t)]])
                              = IF t = {} THEN base ELSE step[pick[t], g[Rest(t)]]
      BY <2>1
    <2>3. g = [t \in SUBSET s |-> IF t = {} THEN base ELSE step[pick[t], g[Rest(t)]]]
      BY <2>2 DEF g
    <2> QED BY <2>3 DEF Recurses
  <1> QED BY <1>2, <1>6

-----------------------------------------------------------------------------
(* Sums over a finite set                                                  *)

One(s) == CHOOSE x \in s : TRUE

\* g adds up f over every subset of T, an element at a time.
Sums(g, T, f) == g = [s \in SUBSET T |-> IF s = {} THEN 0 ELSE f[One(s)] + g[s \ {One(s)}]]

\* There is at most one such function ...
LEMMA SumsUnique ==
  ASSUME NEW T, IsFiniteSet(T), NEW R \in SUBSET T, NEW f, NEW g, NEW h, Sums(g, T, f), Sums(h, R, f)
  PROVE  \A s \in SUBSET R : g[s] = h[s]
  <1> DEFINE Bad == {s \in SUBSET R : g[s] # h[s]}
  <1>1. SUFFICES ASSUME Bad # {} PROVE FALSE
    OBVIOUS
  <1>2. Bad \subseteq SUBSET T
    OBVIOUS
  <1>3. PICK s \in Bad : \A t \in Bad : t \subseteq s => t = s
    <2> HIDE DEF Bad
    <2> QED BY <1>1, <1>2, SmallestSubset
  <1>4. /\ g[s] = IF s = {} THEN 0 ELSE f[One(s)] + g[s \ {One(s)}]
        /\ h[s] = IF s = {} THEN 0 ELSE f[One(s)] + h[s \ {One(s)}]
    BY DEF Sums
  <1>5. s # {}
    BY <1>4
  <1>6. s \ {One(s)} # s /\ s \ {One(s)} \in SUBSET R
    BY <1>5 DEF One
  <1>7. g[s \ {One(s)}] = h[s \ {One(s)}]
    BY <1>3, <1>6
  <1> QED BY <1>4, <1>5, <1>7

\* ... there is one, and its values are numbers.
LEMMA SumsExist ==
  ASSUME NEW T, IsFiniteSet(T), NEW U, T \subseteq U, NEW f \in [U -> Int]
  PROVE  \E g \in [SUBSET T -> Int] : Sums(g, T, f)
  <1> DEFINE pick == [s \in SUBSET T |-> One(s)]
             step == [p \in T \X Int |-> f[p[1]] + p[2]]
  <1>1. \A s \in SUBSET T : s # {} => pick[s] \in s
    BY DEF One
  <1>2. PICK g : Recurses(g, T, 0, pick, step)
    <2> HIDE DEF pick, step
    <2> QED BY <1>1, RecursionExists
  <1>3. g = [s \in SUBSET T |-> IF s = {} THEN 0 ELSE step[pick[s], g[s \ {pick[s]}]]]
    BY <1>2 DEF Recurses
  <1>4. \A s \in SUBSET T : g[s] \in Int
    <2> DEFINE Bad == {s \in SUBSET T : g[s] \notin Int}
    <2>1. SUFFICES ASSUME Bad # {} PROVE FALSE
      OBVIOUS
    <2>2. PICK s \in Bad : \A t \in Bad : t \subseteq s => t = s
      <3>1. Bad \subseteq SUBSET T
        OBVIOUS
      <3> HIDE DEF Bad
      <3> QED BY <2>1, <3>1, SmallestSubset
    <2> HIDE DEF pick, step
    <2>3. g[s] = IF s = {} THEN 0 ELSE step[pick[s], g[s \ {pick[s]}]]
      BY <1>3
    <2>4. s # {}
      <3>1. g[s] \notin Int
        BY <2>2
      <3>2. s = {} => g[s] = 0
        BY <2>3
      <3> QED BY <3>1, <3>2
    <2>5. pick[s] \in s /\ g[s \ {pick[s]}] \in Int
      BY <1>1, <2>2, <2>4
    <2>6. step[pick[s], g[s \ {pick[s]}]] \in Int
      <3>1. pick[s] \in T /\ f[pick[s]] \in Int
        BY <2>5
      <3>2. step[pick[s], g[s \ {pick[s]}]] = f[pick[s]] + g[s \ {pick[s]}]
        BY <2>5, <3>1 DEF step
      <3>3. f[pick[s]] + g[s \ {pick[s]}] \in Int
        BY <2>5, <3>1
      <3> QED BY <3>2, <3>3
    <2> QED BY <2>2, <2>3, <2>4, <2>6
  <1>5. ASSUME NEW s \in SUBSET T, s # {}
        PROVE  step[pick[s], g[s \ {pick[s]}]] = f[One(s)] + g[s \ {One(s)}]
    <2>1. pick[s] = One(s) /\ One(s) \in T /\ g[s \ {One(s)}] \in Int
      BY <1>1, <1>4, <1>5
    <2> HIDE DEF pick
    <2> QED BY <2>1
  <1>6. g \in [SUBSET T -> Int]
    <2> HIDE DEF pick, step
    <2> QED BY <1>3, <1>4
  <1>7. Sums(g, T, f)
    <2> HIDE DEF pick, step
    <2> QED BY <1>3, <1>5 DEF Sums
  <1> QED BY <1>6, <1>7

\* Of whole numbers, too.
WholeSums(g, T, f) == Sums(g, T, f) /\ g \in [SUBSET T -> Int] /\ \A x \in T : f[x] \in Int

\* Any element can be taken out of a sum first.
LEMMA SumsAnyElement ==
  ASSUME NEW T, IsFiniteSet(T), NEW f, NEW g, WholeSums(g, T, f), NEW r \in SUBSET T, NEW y \in r
  PROVE  g[r] = f[y] + g[r \ {y}]
  <1> USE DEF WholeSums
  <1> DEFINE Bad == {s \in SUBSET T : \E x \in s : g[s] # f[x] + g[s \ {x}]}
  <1>1. SUFFICES ASSUME Bad # {} PROVE FALSE
    OBVIOUS
  <1>2. PICK s \in Bad : \A t \in Bad : t \subseteq s => t = s
    <2>1. Bad \subseteq SUBSET T
      OBVIOUS
    <2> HIDE DEF Bad
    <2> QED BY <1>1, <2>1, SmallestSubset
  <1>3. PICK x \in s : g[s] # f[x] + g[s \ {x}]
    OBVIOUS
  <1> DEFINE c == One(s)
  <1>4. c \in s /\ g[s] = f[c] + g[s \ {c}]
    BY <1>3 DEF One, Sums
  <1> HIDE DEF c
  <1>5. c # x
    BY <1>3, <1>4
  <1>6. g[s \ {c}] = f[x] + g[(s \ {c}) \ {x}] /\ g[s \ {x}] = f[c] + g[(s \ {x}) \ {c}]
    <2>1. s \ {c} \notin Bad /\ s \ {x} \notin Bad
      BY <1>2, <1>4
    <2> QED BY <2>1, <1>4, <1>5
  <1> DEFINE both == (s \ {c}) \ {x}
  <1>7. (s \ {x}) \ {c} = both /\ both \in SUBSET T
    OBVIOUS
  <1>8. f[x] \in Int /\ f[c] \in Int /\ g[both] \in Int
    BY <1>4, <1>7
  <1>9. g[s \ {c}] = f[x] + g[both] /\ g[s \ {x}] = f[c] + g[both]
    BY <1>6, <1>7
  <1> HIDE DEF both
  <1>10. g[s] = f[x] + (f[c] + g[both])
    BY <1>4, <1>8, <1>9
  <1> QED BY <1>3, <1>9, <1>10

\* What is no more for each element is no more in all.
LEMMA SumsMonotone ==
  ASSUME NEW T, IsFiniteSet(T), NEW U, T \subseteq U, NEW f \in [U -> Int], NEW e \in [U -> Int],
         \A x \in U : e[x] <= f[x],
         NEW g \in [SUBSET T -> Int], Sums(g, T, f), NEW h \in [SUBSET T -> Int], Sums(h, T, e)
  PROVE  h[T] <= g[T]
  <1> DEFINE Bad == {s \in SUBSET T : ~(h[s] <= g[s])}
  <1>1. SUFFICES ASSUME Bad # {} PROVE FALSE
    BY DEF Bad
  <1>2. PICK s \in Bad : \A t \in Bad : t \subseteq s => t = s
    <2>1. Bad \subseteq SUBSET T
      OBVIOUS
    <2> HIDE DEF Bad
    <2> QED BY <1>1, <2>1, SmallestSubset
  <1>3. /\ g[s] = IF s = {} THEN 0 ELSE f[One(s)] + g[s \ {One(s)}]
        /\ h[s] = IF s = {} THEN 0 ELSE e[One(s)] + h[s \ {One(s)}]
    BY DEF Sums
  <1>4. s # {}
    BY <1>3
  <1>5. One(s) \in s /\ s \ {One(s)} \in SUBSET T
    BY <1>4 DEF One
  <1>6. h[s \ {One(s)}] <= g[s \ {One(s)}]
    BY <1>2, <1>5
  <1>7. e[One(s)] <= f[One(s)] /\ e[One(s)] \in Int /\ f[One(s)] \in Int
        /\ h[s \ {One(s)}] \in Int /\ g[s \ {One(s)}] \in Int
    BY <1>5
  <1> QED BY <1>3, <1>4, <1>6, <1>7

-----------------------------------------------------------------------------
(* Hours                                                                   *)

Durations == [s \in Shifts |-> Duration(s)]
RealDurations == [s \in Shifts |-> RealHours(s)]

\* Instants are whole numbers.
LEMMA InstantType ==
  ASSUME delta \in Int, NEW w \in Int
  PROVE  ToUtc(w) \in Int /\ ToWall(w) \in Int
  BY CalendarAssumption DEF ToUtc, ToWall, Larger

LEMMA DurationsType ==
  ASSUME delta \in Int
  PROVE  Durations \in [Shifts -> Int] /\ RealDurations \in [Shifts -> Int]
  <1>1. ASSUME NEW s \in Shifts PROVE Duration(s) \in Int /\ RealHours(s) \in Int
    <2>1. s.start \in Int /\ s.end \in Int
      BY ShiftAssumption
    <2> QED BY <2>1, InstantType DEF Duration, RealHours
  <1> QED BY <1>1 DEF Durations, RealDurations

\* The hours of some shifts are a sum, taken a shift at a time.
LEMMA HoursFold ==
  ASSUME NEW T
  PROVE  Hours(T) = (CHOOSE g : g = [s \in SUBSET T |-> IF s = {} THEN 0 ELSE Duration(One(s)) + g[s \ {One(s)}]])[T]
  BY Zenon DEF Hours, MapThenSumSet, MapThenFoldSet, One
LEMMA RealHoursFold ==
  ASSUME NEW T
  PROVE  MapThenSumSet(RealHours, T) = (CHOOSE g : g = [s \in SUBSET T |-> IF s = {} THEN 0 ELSE RealHours(One(s)) + g[s \ {One(s)}]])[T]
  BY Zenon DEF MapThenSumSet, MapThenFoldSet, One

\* A sum written with a function is one written with its values.
LEMMA SumsWritten ==
  ASSUME NEW T \in SUBSET Shifts, NEW g
  PROVE  /\ Sums(g, T, Durations)
              <=> g = [s \in SUBSET T |-> IF s = {} THEN 0 ELSE Duration(One(s)) + g[s \ {One(s)}]]
         /\ Sums(g, T, RealDurations)
              <=> g = [s \in SUBSET T |-> IF s = {} THEN 0 ELSE RealHours(One(s)) + g[s \ {One(s)}]]
  <1>1. ASSUME NEW s \in SUBSET T, s # {}
        PROVE  Durations[One(s)] = Duration(One(s)) /\ RealDurations[One(s)] = RealHours(One(s))
    <2>1. One(s) \in Shifts
      BY <1>1 DEF One
    <2> QED BY <2>1 DEF Durations, RealDurations
  <1> HIDE DEF One, Duration, RealHours, Durations, RealDurations
  <1>2. [s \in SUBSET T |-> IF s = {} THEN 0 ELSE Durations[One(s)] + g[s \ {One(s)}]]
          = [s \in SUBSET T |-> IF s = {} THEN 0 ELSE Duration(One(s)) + g[s \ {One(s)}]]
    BY <1>1
  <1>3. [s \in SUBSET T |-> IF s = {} THEN 0 ELSE RealDurations[One(s)] + g[s \ {One(s)}]]
          = [s \in SUBSET T |-> IF s = {} THEN 0 ELSE RealHours(One(s)) + g[s \ {One(s)}]]
    BY <1>1
  <1> QED BY <1>2, <1>3 DEF Sums

LEMMA HoursSum ==
  ASSUME delta \in Int, NEW T \in SUBSET Shifts, IsFiniteSet(T)
  PROVE  \E g \in [SUBSET T -> Int] : Sums(g, T, Durations) /\ Hours(T) = g[T]
  <1> DEFINE h == CHOOSE g : g = [s \in SUBSET T |-> IF s = {} THEN 0 ELSE Duration(One(s)) + g[s \ {One(s)}]]
  <1>1. PICK g \in [SUBSET T -> Int] : Sums(g, T, Durations)
    BY DurationsType, SumsExist
  <1>2. h = [s \in SUBSET T |-> IF s = {} THEN 0 ELSE Duration(One(s)) + h[s \ {One(s)}]]
    <2>1. \E x : x = [s \in SUBSET T |-> IF s = {} THEN 0 ELSE Duration(One(s)) + x[s \ {One(s)}]]
      BY <1>1, SumsWritten
    <2> QED BY <2>1
  <1>3. Hours(T) = h[T]
    BY HoursFold
  <1> HIDE DEF h
  <1>4. Sums(h, T, Durations)
    BY <1>2, SumsWritten
  <1>5. h[T] = g[T]
    BY <1>1, <1>4, SumsUnique
  <1> QED BY <1>1, <1>3, <1>5

LEMMA RealHoursSum ==
  ASSUME delta \in Int, NEW T \in SUBSET Shifts, IsFiniteSet(T)
  PROVE  \E g \in [SUBSET T -> Int] : Sums(g, T, RealDurations) /\ MapThenSumSet(RealHours, T) = g[T]
  <1> DEFINE h == CHOOSE g : g = [s \in SUBSET T |-> IF s = {} THEN 0 ELSE RealHours(One(s)) + g[s \ {One(s)}]]
  <1>1. PICK g \in [SUBSET T -> Int] : Sums(g, T, RealDurations)
    BY DurationsType, SumsExist
  <1>2. h = [s \in SUBSET T |-> IF s = {} THEN 0 ELSE RealHours(One(s)) + h[s \ {One(s)}]]
    <2>1. \E x : x = [s \in SUBSET T |-> IF s = {} THEN 0 ELSE RealHours(One(s)) + x[s \ {One(s)}]]
      BY <1>1, SumsWritten
    <2> QED BY <2>1
  <1>3. MapThenSumSet(RealHours, T) = h[T]
    BY RealHoursFold
  <1> HIDE DEF h
  <1>4. Sums(h, T, RealDurations)
    BY <1>2, SumsWritten
  <1>5. h[T] = g[T]
    BY <1>1, <1>4, SumsUnique
  <1> QED BY <1>1, <1>3, <1>5

\* One shift less takes its hours.
LEMMA HoursTake ==
  ASSUME delta \in Int, NEW R \in SUBSET Shifts, IsFiniteSet(R), NEW x \in R
  PROVE  Hours(R) \in Int /\ Hours(R \ {x}) \in Int /\ Hours(R) = Duration(x) + Hours(R \ {x})
  <1>1. IsFiniteSet(R \ {x}) /\ R \ {x} \in SUBSET R /\ R \in SUBSET R
    BY FS_Subset
  <1>2. PICK g \in [SUBSET R -> Int] : Sums(g, R, Durations) /\ Hours(R) = g[R]
    BY HoursSum
  <1>3. PICK h \in [SUBSET (R \ {x}) -> Int] : Sums(h, R \ {x}, Durations) /\ Hours(R \ {x}) = h[R \ {x}]
    BY <1>1, HoursSum
  <1>4. g[R \ {x}] = h[R \ {x}]
    BY <1>1, <1>2, <1>3, SumsUnique
  <1>5. PICK f \in [Shifts -> Int] : f = Durations
    BY DurationsType
  <1>6. g[R] = f[x] + g[R \ {x}]
    <2>1. WholeSums(g, R, f)
      BY <1>2, <1>5 DEF WholeSums
    <2> QED BY <1>1, <2>1, SumsAnyElement
  <1>7. f[x] = Duration(x)
    BY <1>5 DEF Durations
  <1>8. Hours(R) \in Int /\ Hours(R \ {x}) \in Int
    BY <1>1, <1>2, <1>3
  <1> QED BY <1>2, <1>3, <1>4, <1>6, <1>7, <1>8

\* No shift lasts longer than its clock says where no clock is put back.
LEMMA RealHoursAreFewer ==
  ASSUME delta \in Int, delta >= 0, NEW T \in SUBSET Shifts, IsFiniteSet(T)
  PROVE  Hours(T) \in Int /\ MapThenSumSet(RealHours, T) \in Int /\ MapThenSumSet(RealHours, T) <= Hours(T)
  <1>1. PICK g \in [SUBSET T -> Int] : Sums(g, T, Durations) /\ Hours(T) = g[T]
    BY HoursSum
  <1>2. PICK h \in [SUBSET T -> Int] : Sums(h, T, RealDurations) /\ MapThenSumSet(RealHours, T) = h[T]
    BY RealHoursSum
  <1>3. ASSUME NEW s \in Shifts PROVE RealDurations[s] <= Durations[s]
    <2>1. s.start \in Int /\ s.end \in Int /\ s.start < s.end
      BY ShiftAssumption
    <2>2. RealHours(s) <= Duration(s)
      BY <2>1, CalendarAssumption DEF RealHours, Duration, ToUtc, Larger
    <2> QED BY <2>2 DEF RealDurations, Durations
  <1>4. h[T] <= g[T]
    BY <1>1, <1>2, <1>3, DurationsType, SumsMonotone
  <1> QED BY <1>1, <1>2, <1>4

-----------------------------------------------------------------------------
(* Rest                                                                    *)

\* A clock that is put back, or not at all, only lengthens the time between
\* two readings of it.
LEMMA RealTimeIsLonger ==
  ASSUME delta \in Int, delta <= 0, NEW a \in Int, NEW b \in Int, a >= b
  PROVE  ToUtc(a) \in Int /\ ToUtc(b) \in Int /\ ToUtc(a) - ToUtc(b) >= a - b
  BY CalendarAssumption DEF ToUtc, Larger

\* The rest the engine measures by the wall clock is there in real time.
LEMMA MeasuredRestIsReal ==
  ASSUME delta \in Int, delta <= 0, rules.min_rest \in Int,
         NEW s \in Shifts, NEW o \in Shifts, ~Overlaps(s, o), ~(RestGap(s, o) < rules.min_rest)
  PROVE  RealGap(s, o) >= rules.min_rest /\ RealGap(o, s) >= rules.min_rest
  <1>1. s.start \in Int /\ s.end \in Int /\ o.start \in Int /\ o.end \in Int
        /\ s.start < s.end /\ o.start < o.end
    BY ShiftAssumption
  <1>2. ToUtc(s.start) \in Int /\ ToUtc(s.end) \in Int /\ ToUtc(o.start) \in Int /\ ToUtc(o.end) \in Int
    BY <1>1, RealTimeIsLonger
  <1>3. CASE s.start >= o.end
    <2>1. s.start - o.end >= rules.min_rest
      BY <1>1, <1>3 DEF RestGap
    <2>2. ToUtc(s.start) - ToUtc(o.end) >= s.start - o.end
      BY <1>1, <1>3, RealTimeIsLonger
    <2> QED BY <1>1, <1>2, <2>1, <2>2 DEF RealGap, Larger
  <1>4. CASE s.start < o.end
    <2>1. o.start >= s.end
      BY <1>1, <1>4 DEF Overlaps
    <2>2. o.start - s.end >= rules.min_rest
      BY <1>1, <1>4 DEF RestGap
    <2>3. ToUtc(o.start) - ToUtc(s.end) >= o.start - s.end
      BY <1>1, <2>1, RealTimeIsLonger
    <2> QED BY <1>1, <1>2, <2>2, <2>3 DEF RealGap, Larger
  <1> QED BY <1>1, <1>3, <1>4

\* Her schedule, with the types that matter for its rest.
RestBooks ==
  /\ assigned \subseteq Shifts /\ delta \in Int /\ rules.min_rest \in Nat
  /\ RestKept

\* Every claim and every loss of a shift keeps the rest.
LEMMA RestStep == RestBooks /\ [Next]_vars => RestBooks'
  <1> SUFFICES ASSUME RestBooks, [Next]_vars PROVE RestBooks'
    OBVIOUS
  <1>1. ASSUME NEW s \in Shifts, Claim(s) PROVE RestBooks'
    <2>1. assigned' = assigned \cup {s} /\ UNCHANGED <<rules, delta>>
      BY <1>1 DEF Claim, config
    <2>2. \A o \in assigned : ~Overlaps(s, o) /\ ~(RestGap(s, o) < rules.min_rest)
      BY <1>1 DEF Claim, Evaluate
    <2>3. ASSUME delta <= 0, NEW a \in assigned', NEW b \in assigned', a # b
          PROVE  RealGap(a, b) >= rules.min_rest
      <3>1. CASE a \in assigned /\ b \in assigned
        BY <2>3, <3>1 DEF RestBooks, RestKept, RestIsReal
      <3>2. CASE a = s /\ b \in assigned
        BY <2>2, <2>3, <3>2, MeasuredRestIsReal DEF RestBooks
      <3>3. CASE b = s /\ a \in assigned
        BY <2>2, <2>3, <3>3, MeasuredRestIsReal DEF RestBooks
      <3> QED BY <2>1, <2>3, <3>1, <3>2, <3>3
    <2>4. \A a, b : RealGap(a, b)' = RealGap(a, b)
      BY <2>1 DEF RealGap, ToUtc, Larger
    <2> QED BY <2>1, <2>3, <2>4 DEF RestBooks, RestKept, RestIsReal
  <1>2. ASSUME NEW s \in Shifts, Leaves(s) PROVE RestBooks'
    BY <1>2 DEF Leaves, config, RestBooks, RestKept, RestIsReal, RealGap, ToUtc
  <1>3. ASSUME UNCHANGED vars PROVE RestBooks'
    BY <1>3 DEF vars, config, RestBooks, RestKept, RestIsReal, RealGap, ToUtc
  <1> QED BY <1>1, <1>2, <1>3 DEF Next

-----------------------------------------------------------------------------
(* Dates and weeks                                                         *)

\* The clock is not changed around midnight: every time it skips or shows
\* twice, with as much after a skip as was skipped, is of one date.  Where
\* it is changed at midnight (some zones do), an instant of a shift may have
\* a date that neither end of the shift has.
CalmAt(d) ==
  /\ d > 0 => Date(Change) = Date(Change + 2 * d - 1)
  /\ d < 0 => Date(Change + d) = Date(Change - 1)
Calm == \A d \in Deltas : CalmAt(d)

\* A later time has no earlier date.
LEMMA DateOrder ==
  ASSUME NEW a \in Int, NEW b \in Int, a <= b
  PROVE  Date(a) \in Int /\ Date(b) \in Int /\ Date(a) <= Date(b)
  <1>1. DayTicks \in Nat \ {0}
    BY CalendarAssumption
  <1> DEFINE p == a \div DayTicks
             q == b \div DayTicks
  <1>2. p \in Int /\ a = p * DayTicks + (a % DayTicks) /\ a % DayTicks \in 0..DayTicks - 1
    BY <1>1, Division
  <1>3. q \in Int /\ b = q * DayTicks + (b % DayTicks) /\ b % DayTicks \in 0..DayTicks - 1
    BY <1>1, Division
  <1> DEFINE r == a % DayTicks
             u == b % DayTicks
  <1>4. a = p * DayTicks + r /\ r \in 0..DayTicks - 1 /\ b = q * DayTicks + u /\ u \in 0..DayTicks - 1
    BY <1>2, <1>3
  <1> HIDE DEF p, q, r, u
  <1>5. p >= q + 1 => p * DayTicks >= (q + 1) * DayTicks
    BY <1>1, <1>2, <1>3
  <1>6. (q + 1) * DayTicks = q * DayTicks + DayTicks
    BY <1>1, <1>3
  <1>7. p * DayTicks \in Int /\ q * DayTicks \in Int
    BY <1>1, <1>2, <1>3
  <1>8. ~(p >= q + 1)
    BY <1>1, <1>4, <1>5, <1>6, <1>7
  <1>9. p <= q
    BY <1>2, <1>3, <1>8
  <1> QED BY <1>2, <1>3, <1>9 DEF Date, p, q

\* A multiple of a positive number is at most another exactly if its factor
\* is at most the quotient.
LEMMA DivisionOrder ==
  ASSUME NEW a \in Int, NEW b \in Nat \ {0}, NEW q \in Int
  PROVE  q * b <= a <=> q <= a \div b
  <1> DEFINE p == a \div b
             r == a % b
  <1>1. p \in Int /\ r \in 0..b - 1 /\ a = p * b + r
    BY Division
  <1> HIDE DEF p, r
  <1>2. p * b \in Int /\ q * b \in Int /\ (p + 1) * b = p * b + b
    BY <1>1
  <1>3. q <= p => q * b <= p * b
    BY <1>1
  <1>4. q >= p + 1 => q * b >= (p + 1) * b
    BY <1>1
  <1>5. q <= p \/ q >= p + 1
    BY <1>1
  <1>6. q <= p => q * b <= a
    BY <1>1, <1>2, <1>3
  <1>7. q >= p + 1 => ~(q * b <= a)
    BY <1>1, <1>2, <1>4
  <1>8. q >= p + 1 => ~(q <= p)
    BY <1>1
  <1>9. q * b <= a <=> q <= p
    BY <1>5, <1>6, <1>7, <1>8
  <1> QED BY <1>9 DEF p

\* Instants and times of the clock have their dates in the same order.
LEMMA DatesInOrder ==
  ASSUME delta \in Int, CalmAt(delta), NEW w \in Int, NEW t \in Int
  PROVE  /\ Date(w) \in Int /\ Date(ToWall(t)) \in Int
         /\ ToUtc(w) <= t => Date(w) <= Date(ToWall(t))
         /\ t < ToUtc(w) => Date(ToWall(t)) <= Date(w)
  <1>1. ToWall(t) \in Int /\ ToUtc(w) \in Int /\ Change \in Int
    BY InstantType, CalendarAssumption
  <1> DEFINE v == ToWall(t)
  <1>2. Date(w) \in Int /\ Date(v) \in Int
    BY <1>1, DateOrder
  <1>3. ASSUME ToUtc(w) <= t PROVE Date(w) <= Date(v)
    <2>1. CASE w <= v
      BY <1>1, <2>1, DateOrder
    <2>2. CASE v < w
      <3>1. delta < 0 /\ Change + delta <= v /\ w <= Change - 1
        BY <1>1, <1>3, <2>2 DEF ToUtc, ToWall, Larger
      <3>2. Date(Change + delta) = Date(Change - 1)
        BY <3>1 DEF CalmAt
      <3>3. Date(Change + delta) <= Date(v) /\ Date(w) <= Date(Change - 1) /\ Date(Change - 1) \in Int
        BY <1>1, <3>1, DateOrder
      <3> HIDE DEF v
      <3> QED BY <1>2, <3>2, <3>3
    <2> QED BY <1>1, <2>1, <2>2
  <1>4. ASSUME t < ToUtc(w) PROVE Date(v) <= Date(w)
    <2>1. CASE v <= w
      BY <1>1, <2>1, DateOrder
    <2>2. CASE w < v
      <3>1. delta > 0 /\ Change <= w /\ v <= Change + 2 * delta - 1
        BY <1>1, <1>4, <2>2 DEF ToUtc, ToWall, Larger
      <3>2. Date(Change) = Date(Change + 2 * delta - 1)
        BY <3>1 DEF CalmAt
      <3>3. Date(v) <= Date(Change + 2 * delta - 1) /\ Date(Change) <= Date(w) /\ Date(Change) \in Int
        BY <1>1, <3>1, DateOrder
      <3> HIDE DEF v
      <3> QED BY <1>2, <3>2, <3>3
    <2> QED BY <1>1, <2>1, <2>2
  <1> QED BY <1>2, <1>3, <1>4

\* A shift has no instant on a date other than those from its start to its
\* end, by the clock.
LEMMA InstantsHaveItsDates ==
  ASSUME delta \in Int, CalmAt(delta), NEW s \in Shifts, NEW t \in Instants(s)
  PROVE  Date(ToWall(t)) \in Date(s.start)..Date(s.end)
  <1>1. s.start \in Int /\ s.end \in Int
    BY ShiftAssumption
  <1>2. ToUtc(s.start) \in Int /\ ToUtc(s.end) \in Int
    BY <1>1, InstantType
  <1>3. t \in Int /\ ToUtc(s.start) <= t /\ t < ToUtc(s.end)
    BY <1>2 DEF Instants
  <1> QED BY <1>1, <1>3, DatesInOrder

\* What is before a midnight by the clock is before it.
LEMMA MidnightSplits ==
  ASSUME delta \in Int, CalmAt(delta), NEW a \in Int, NEW d \in Int
  PROVE  ToUtc(a) < ToUtc(d * DayTicks) <=> a < d * DayTicks
  <1>1. DayTicks \in Nat \ {0} /\ Change \in Int
    BY CalendarAssumption
  <1> DEFINE m == d * DayTicks
  <1>2. m \in Int
    BY <1>1
  <1>3. delta > 0 => ~(Change < m /\ m <= Change + 2 * delta - 1)
    <2> SUFFICES ASSUME delta > 0, Change < m, m <= Change + 2 * delta - 1 PROVE FALSE
      OBVIOUS
    <2>1. Date(Change) = Date(Change + 2 * delta - 1) /\ Date(Change) \in Int
      BY <1>1, DateOrder DEF CalmAt
    <2>2. ~(d <= Change \div DayTicks)
      BY <1>1, DivisionOrder, <1>2
    <2>3. Change + 2 * delta - 1 \in Int
      BY <1>1
    <2>4. d <= (Change + 2 * delta - 1) \div DayTicks
      BY <1>1, <2>3, DivisionOrder
    <2> QED BY <2>1, <2>2, <2>4 DEF Date
  <1> HIDE DEF m
  <1>4. ToUtc(a) < ToUtc(m) <=> a < m
    BY <1>1, <1>2, <1>3 DEF ToUtc, Larger
  <1> QED BY <1>4 DEF m

\* The week a shift starts in, and those of some shifts that start in it.
Week(s) == Date(s.start) \div WeekDays
OfWeek(k, others) == {o \in others : Week(o) = k}

LEMMA InWeekIsOfWeek ==
  ASSUME delta \in Int, CalmAt(delta), NEW s \in Shifts, NEW T \in SUBSET Shifts
  PROVE  InWeek(s, T) = OfWeek(Week(s), T)
  <1>1. DayTicks \in Nat \ {0} /\ WeekDays \in Nat \ {0}
    BY CalendarAssumption
  <1> DEFINE k == Week(s)
             monday == Date(s.start) - Weekday(Date(s.start))
  <1>2. s.start \in Int /\ Date(s.start) \in Int
    <2>1. s.start \in Int
      BY ShiftAssumption
    <2> QED BY <2>1, DateOrder
  <1>3. k \in Int /\ monday = k * WeekDays
    <2> DEFINE d == Date(s.start)
    <2>1. d \div WeekDays \in Int /\ d % WeekDays \in 0..WeekDays - 1
          /\ d = (d \div WeekDays) * WeekDays + (d % WeekDays)
      BY <1>1, <1>2, Division
    <2> HIDE DEF d
    <2>2. (d \div WeekDays) * WeekDays \in Int
      BY <1>1, <2>1
    <2>3. d - (d % WeekDays) = (d \div WeekDays) * WeekDays
      BY <2>1, <2>2
    <2> QED BY <2>1, <2>3 DEF d, Week, Weekday
  <1>4. monday \in Int /\ monday + WeekDays \in Int /\ monday + WeekDays = (k + 1) * WeekDays
    BY <1>1, <1>3
  <1> HIDE DEF k, monday
  <1>5. ASSUME NEW o \in T
        PROVE  (WeekBounds(s).start <= ToUtc(o.start) /\ ToUtc(o.start) < WeekBounds(s).end) <=> Week(o) = k
    <2>1. o.start \in Int /\ Date(o.start) \in Int
      <3>1. o.start \in Int
        BY ShiftAssumption
      <3> QED BY <3>1, DateOrder
    <2> DEFINE e == Date(o.start)
    <2>2. WeekBounds(s).start = ToUtc(monday * DayTicks) /\ WeekBounds(s).end = ToUtc((monday + WeekDays) * DayTicks)
      BY DEF WeekBounds, monday
    <2>3. ToUtc(o.start) < ToUtc(monday * DayTicks) <=> o.start < monday * DayTicks
      BY <1>4, <2>1, MidnightSplits
    <2>4. ToUtc(o.start) < ToUtc((monday + WeekDays) * DayTicks) <=> o.start < (monday + WeekDays) * DayTicks
      BY <1>4, <2>1, MidnightSplits
    <2>5. monday * DayTicks <= o.start <=> monday <= e
      BY <1>1, <1>4, <2>1, DivisionOrder DEF Date
    <2>6. (monday + WeekDays) * DayTicks <= o.start <=> monday + WeekDays <= e
      BY <1>1, <1>4, <2>1, DivisionOrder DEF Date
    <2>7. k * WeekDays <= e <=> k <= e \div WeekDays
      BY <1>1, <1>3, <2>1, DivisionOrder
    <2>8. (k + 1) * WeekDays <= e <=> k + 1 <= e \div WeekDays
      <3>1. k + 1 \in Int
        BY <1>3
      <3> QED BY <1>1, <2>1, <3>1, DivisionOrder
    <2>9. ToUtc(o.start) \in Int /\ WeekBounds(s).start \in Int
          /\ monday * DayTicks \in Int /\ (monday + WeekDays) * DayTicks \in Int
      <3>1. monday * DayTicks \in Int /\ (monday + WeekDays) * DayTicks \in Int
        BY <1>1, <1>4
      <3> QED BY <2>1, <2>2, <3>1, InstantType
    <2>10. e \div WeekDays \in Int
      BY <1>1, <2>1, Division
    <2>11. Week(o) = e \div WeekDays
      BY DEF Week
    <2> DEFINE f == e \div WeekDays
               m == monday * DayTicks
               n == (monday + WeekDays) * DayTicks
    <2>12. WeekBounds(s).start <= ToUtc(o.start) <=> k <= f
      <3>1. WeekBounds(s).start <= ToUtc(o.start) <=> ~(ToUtc(o.start) < ToUtc(m))
        BY <2>2, <2>9
      <3>2. ~(o.start < m) <=> m <= o.start
        BY <2>1, <2>9
      <3>3. m <= o.start <=> k * WeekDays <= e
        BY <1>3, <2>5
      <3> HIDE DEF m, f, e
      <3> QED BY <2>3, <2>7, <3>1, <3>2, <3>3 DEF m, f
    <2>13. ToUtc(o.start) < WeekBounds(s).end <=> ~(k + 1 <= f)
      <3>1. ~(o.start < n) <=> n <= o.start
        BY <2>1, <2>9
      <3>2. n <= o.start <=> (k + 1) * WeekDays <= e
        BY <1>4, <2>6
      <3> HIDE DEF n, f, e
      <3> QED BY <2>2, <2>4, <2>8, <3>1, <3>2 DEF n, f
    <2> HIDE DEF f
    <2>14. (k <= f /\ ~(k + 1 <= f)) <=> f = k
      <3>1. f \in Int
        BY <2>10 DEF f
      <3> QED BY <1>3, <3>1
    <2>15. Week(o) = f
      BY <2>11 DEF f
    <2> QED BY <2>12, <2>13, <2>14, <2>15
  <1> QED BY <1>5 DEF InWeek, OfWeek, k

-----------------------------------------------------------------------------
(* Her schedule                                                            *)

\* Her schedule, with the types that matter: it has no shift of an excluded
\* date, and no week with more shifts or hours by the clock than allowed.
CapsHold(k, others) ==
  /\ rules.max_shifts > 0 => Cardinality(OfWeek(k, others)) <= rules.max_shifts
  /\ rules.max_hours > 0 => Hours(OfWeek(k, others)) <= rules.max_hours
CapBooks ==
  /\ assigned \subseteq Shifts /\ IsFiniteSet(assigned)
  /\ delta \in Int /\ CalmAt(delta)
  /\ rules.max_hours \in Nat /\ rules.max_shifts \in Nat
  /\ \A s \in assigned : ~TouchesExcludedDate(s) /\ CapsHold(Week(s), assigned)

\* What is read from the configuration only stays while the configuration does.
LEMMA SameReading ==
  ASSUME UNCHANGED config
  PROVE  /\ \A s : TouchesExcludedDate(s)' <=> TouchesExcludedDate(s)
         /\ \A k, T : CapsHold(k, T)' <=> CapsHold(k, T)
         /\ CalmAt(delta)' <=> CalmAt(delta)
  <1>1. \A s : TouchesExcludedDate(s)' <=> TouchesExcludedDate(s)
    BY DEF config, TouchesExcludedDate
  <1>2. \A k, T : CapsHold(k, T)' <=> CapsHold(k, T)
    BY DEF config, CapsHold
  <1>3. CalmAt(delta)' <=> CalmAt(delta)
    BY DEF config, CalmAt
  <1> QED BY <1>1, <1>2, <1>3

\* A claim is within the caps of its week.
LEMMA ClaimWithinCaps ==
  ASSUME CapBooks, NEW x \in Shifts, x \notin assigned, ~ExceedsWeeklyCap(x, assigned),
         NEW k, k = Week(x) \/ CapsHold(k, assigned)
  PROVE  CapsHold(k, assigned \cup {x})
  <1> DEFINE A == OfWeek(k, assigned)
             B == OfWeek(k, assigned \cup {x})
  <1>1. CASE k # Week(x)
    <2>1. A = B
      BY <1>1 DEF OfWeek
    <2> QED BY <1>1, <2>1 DEF CapsHold
  <1>2. CASE k = Week(x)
    <2>1. B = A \cup {x} /\ x \in B /\ B \ {x} = A /\ x \notin A /\ B \in SUBSET Shifts
      BY <1>2 DEF OfWeek, CapBooks
    <2>2. A = InWeek(x, assigned)
      BY <1>2, InWeekIsOfWeek DEF CapBooks
    <2>3. IsFiniteSet(A)
      BY FS_Subset DEF OfWeek, CapBooks
    <2> HIDE DEF A, B
    <2>4. IsFiniteSet(B) /\ Cardinality(B) = Cardinality(A) + 1 /\ Cardinality(A) \in Nat
      BY <2>1, <2>3, FS_AddElement, FS_CardinalityType
    <2>5. Hours(B) \in Int /\ Hours(A) \in Int /\ Hours(B) = Duration(x) + Hours(A)
      <3>1. delta \in Int
        BY DEF CapBooks
      <3> QED BY <2>1, <2>4, <3>1, HoursTake
    <2>6. rules.max_hours \in Nat /\ rules.max_shifts \in Nat
      BY DEF CapBooks
    <2>7. Duration(x) \in Int
      BY ShiftAssumption DEF Duration
    <2>8. rules.max_shifts > 0 => Cardinality(B) <= rules.max_shifts
      BY <2>2, <2>4, <2>6 DEF ExceedsWeeklyCap
    <2>9. rules.max_hours > 0 => Hours(B) <= rules.max_hours
      <3>1. rules.max_hours > 0 => ~(Hours(A) + Duration(x) > rules.max_hours)
        BY <2>2 DEF ExceedsWeeklyCap
      <3> QED BY <2>5, <2>6, <2>7, <3>1
    <2> QED BY <2>8, <2>9 DEF CapsHold, B
  <1> QED BY <1>1, <1>2

\* A shift less never breaks a cap.
LEMMA LossWithinCaps ==
  ASSUME CapBooks, NEW x \in assigned, NEW k, CapsHold(k, assigned)
  PROVE  CapsHold(k, assigned \ {x})
  <1> DEFINE A == OfWeek(k, assigned)
             B == OfWeek(k, assigned \ {x})
  <1>1. CASE k # Week(x)
    <2>1. A = B
      BY <1>1 DEF OfWeek
    <2> QED BY <2>1 DEF CapsHold
  <1>2. CASE k = Week(x)
    <2>1. B = A \ {x} /\ x \in A /\ A \in SUBSET Shifts /\ x \in Shifts
      BY <1>2 DEF OfWeek, CapBooks
    <2>2. IsFiniteSet(A)
      BY FS_Subset DEF OfWeek, CapBooks
    <2> HIDE DEF A, B
    <2>3. Cardinality(B) = Cardinality(A) - 1 /\ Cardinality(A) \in Nat /\ Cardinality(B) \in Nat
      BY <2>1, <2>2, FS_RemoveElement, FS_CardinalityType
    <2>4. Hours(B) \in Int /\ Hours(A) \in Int /\ Hours(A) = Duration(x) + Hours(B)
      BY <2>1, <2>2, HoursTake DEF CapBooks
    <2>5. Duration(x) \in Nat
      BY <2>1, ShiftAssumption DEF Duration
    <2>6. rules.max_hours \in Nat /\ rules.max_shifts \in Nat
      BY DEF CapBooks
    <2>7. /\ rules.max_shifts > 0 => Cardinality(A) <= rules.max_shifts
          /\ rules.max_hours > 0 => Hours(A) <= rules.max_hours
      BY DEF CapsHold, A
    <2>8. /\ rules.max_shifts > 0 => Cardinality(B) <= rules.max_shifts
          /\ rules.max_hours > 0 => Hours(B) <= rules.max_hours
      BY <2>3, <2>4, <2>5, <2>6, <2>7
    <2> QED BY <2>8 DEF CapsHold, B
  <1> QED BY <1>1, <1>2

\* Every claim and every loss of a shift keeps the dates and the caps.
LEMMA CapStep == CapBooks /\ [Next]_vars => CapBooks'
  <1> SUFFICES ASSUME CapBooks, [Next]_vars PROVE CapBooks'
    OBVIOUS
  <1>1. UNCHANGED config
    BY DEF Next, Claim, Leaves, vars
  <1>2. (delta \in Int /\ CalmAt(delta) /\ rules.max_hours \in Nat /\ rules.max_shifts \in Nat)'
    BY <1>1, SameReading DEF CapBooks, config
  <1>3. ASSUME NEW x \in Shifts, Claim(x) PROVE CapBooks'
    <2>1. x \notin assigned /\ assigned' = assigned \cup {x}
      BY <1>3 DEF Claim
    <2>2. ~TouchesExcludedDate(x) /\ ~ExceedsWeeklyCap(x, assigned)
      BY <1>3 DEF Claim, Evaluate
    <2>3. assigned' \subseteq Shifts /\ IsFiniteSet(assigned')
      BY <2>1, FS_AddElement DEF CapBooks
    <2>4. \A s \in assigned' : ~TouchesExcludedDate(s)
      BY <2>1, <2>2 DEF CapBooks
    <2>5. \A s \in assigned' : CapsHold(Week(s), assigned')
      BY <2>1, <2>2, ClaimWithinCaps DEF CapBooks
    <2>6. \A s \in assigned' : ~TouchesExcludedDate(s)' /\ CapsHold(Week(s), assigned)'
      <3>1. \A k : CapsHold(k, assigned)' <=> CapsHold(k, assigned')
        BY <1>1 DEF config, CapsHold
      <3> QED BY <1>1, <2>4, <2>5, <3>1, SameReading
    <2> QED BY <1>2, <2>3, <2>6 DEF CapBooks, Week
  <1>4. ASSUME NEW x \in Shifts, Leaves(x) PROVE CapBooks'
    <2>1. x \in assigned /\ assigned' = assigned \ {x}
      BY <1>4 DEF Leaves
    <2>3. assigned' \subseteq Shifts /\ IsFiniteSet(assigned')
      BY <2>1, FS_RemoveElement DEF CapBooks
    <2>4. \A s \in assigned' : ~TouchesExcludedDate(s)
      BY <2>1 DEF CapBooks
    <2>5. \A s \in assigned' : CapsHold(Week(s), assigned')
      BY <2>1, LossWithinCaps DEF CapBooks
    <2>6. \A s \in assigned' : ~TouchesExcludedDate(s)' /\ CapsHold(Week(s), assigned)'
      <3>1. \A k : CapsHold(k, assigned)' <=> CapsHold(k, assigned')
        BY <1>1 DEF config, CapsHold
      <3> QED BY <1>1, <2>4, <2>5, <3>1, SameReading
    <2> QED BY <1>2, <2>3, <2>6 DEF CapBooks, Week
  <1>5. ASSUME UNCHANGED vars PROVE CapBooks'
    <2>1. assigned' = assigned
      BY <1>5 DEF vars
    <2>2. \A s \in assigned' : ~TouchesExcludedDate(s)' /\ CapsHold(Week(s), assigned)'
      <3>1. \A k : CapsHold(k, assigned)' <=> CapsHold(k, assigned)
        BY <1>1, <2>1 DEF config, CapsHold
      <3> QED BY <1>1, <2>1, <3>1, SameReading DEF CapBooks
    <2> QED BY <1>2, <2>1, <2>2 DEF CapBooks, Week
  <1> QED BY <1>3, <1>4, <1>5 DEF Next

\* With its books in order her schedule keeps her rules.
LEMMA BooksKeepRules == RestBooks /\ CapBooks => RulesKept
  <1> SUFFICES ASSUME RestBooks, CapBooks PROVE RulesKept
    OBVIOUS
  <1>1. ExcludedDatesOff
    <2> SUFFICES ASSUME NEW s \in assigned, NEW t \in Instants(s) PROVE Date(ToWall(t)) \notin excluded
      BY DEF ExcludedDatesOff
    <2>1. Date(ToWall(t)) \in Date(s.start)..Date(s.end)
      BY InstantsHaveItsDates DEF CapBooks
    <2>2. ~TouchesExcludedDate(s)
      BY DEF CapBooks
    <2> QED BY <2>1, <2>2 DEF TouchesExcludedDate
  <1>2. WeeklyCapsKept
    <2> SUFFICES ASSUME NEW s \in assigned
                 PROVE  /\ rules.max_shifts > 0 => Cardinality(InWeek(s, assigned)) <= rules.max_shifts
                        /\ rules.max_hours > 0 /\ delta >= 0
                             => MapThenSumSet(RealHours, InWeek(s, assigned)) <= rules.max_hours
      BY DEF WeeklyCapsKept
    <2>1. InWeek(s, assigned) = OfWeek(Week(s), assigned)
      BY InWeekIsOfWeek DEF CapBooks
    <2> DEFINE W == OfWeek(Week(s), assigned)
    <2>2. W \in SUBSET Shifts /\ IsFiniteSet(W)
      BY FS_Subset DEF OfWeek, CapBooks
    <2>3. /\ rules.max_shifts > 0 => Cardinality(W) <= rules.max_shifts
          /\ rules.max_hours > 0 => Hours(W) <= rules.max_hours
      BY DEF CapBooks, CapsHold
    <2> HIDE DEF W
    <2>4. delta >= 0 => Hours(W) \in Int /\ MapThenSumSet(RealHours, W) \in Int
                        /\ MapThenSumSet(RealHours, W) <= Hours(W)
      BY <2>2, RealHoursAreFewer DEF CapBooks
    <2>5. rules.max_hours \in Nat
      BY DEF CapBooks
    <2>6. rules.max_hours > 0 /\ delta >= 0 => MapThenSumSet(RealHours, W) <= rules.max_hours
      BY <2>3, <2>4, <2>5
    <2>7. InWeek(s, assigned) = W
      BY <2>1 DEF W
    <2> QED BY <2>3, <2>6, <2>7
  <1> QED BY <1>1, <1>2 DEF RulesKept, RestBooks

\* Her books are in order in every behaviour.
LEMMA RestInvariant == Spec => []RestBooks
  <1>1. Init => RestBooks
    BY CalendarAssumption, RuleAssumption DEF Init, RestBooks, RestKept, RestIsReal
  <1> QED BY <1>1, RestStep, PTL DEF Spec
LEMMA CapInvariant == Calm => (Spec => []CapBooks)
  <1> SUFFICES ASSUME Calm PROVE Spec => []CapBooks
    OBVIOUS
  <1>1. Init => CapBooks
    <2> SUFFICES ASSUME Init PROVE CapBooks
      OBVIOUS
    <2>1. assigned = {} /\ delta \in Int /\ CalmAt(delta)
      BY CalendarAssumption DEF Init, Calm
    <2>2. rules.max_hours \in Nat /\ rules.max_shifts \in Nat
      BY RuleAssumption DEF Init
    <2>3. IsFiniteSet({})
      BY FS_EmptySet
    <2> QED BY <2>1, <2>2, <2>3 DEF CapBooks
  <1> QED BY <1>1, CapStep, PTL DEF Spec

\* Any two shifts on her schedule leave the minimum rest between them, in
\* whatever order they were claimed and whatever left it since, for every
\* calendar, set of shifts and rest, unless a clock is put forward in between
\* (schedule.py:94-148).
THEOREM RestIsKept == Spec => []RestKept
  <1>1. RestBooks => RestKept
    BY DEF RestBooks
  <1> QED BY <1>1, RestInvariant, PTL

\* Her schedule keeps her rules in every behaviour: no instant of a shift is
\* on a date she excluded, the rest is there, and no week has more shifts or
\* real hours than the caps allow, where the clock is not changed around
\* midnight (schedule.py:78-184).
THEOREM RulesAreKept == Calm => (Spec => []RulesKept)
  <1> SUFFICES ASSUME Calm PROVE Spec => []RulesKept
    OBVIOUS
  <1> QED BY RestInvariant, CapInvariant, BooksKeepRules, PTL

-----------------------------------------------------------------------------
(* Merging windows                                                         *)

Interval == [start : Int, end : Int]

\* Some interval of a finite set is as late as any.
LEMMA LatestIsLast ==
  ASSUME NEW S \in SUBSET Interval, IsFiniteSet(S), S # {}
  PROVE  Latest(S) \in S /\ \A iv \in S : iv.start <= Latest(S).start
  <1> DEFINE HasLast(s) == \E iv \in s : \A other \in s : ~Earlier(iv, other)
             Bad == {s \in SUBSET S : s # {} /\ ~HasLast(s)}
  <1>1. Bad = {}
    <2> SUFFICES ASSUME Bad # {} PROVE FALSE
      OBVIOUS
    <2>1. PICK s \in Bad : \A t \in Bad : t \subseteq s => t = s
      <3>1. Bad \subseteq SUBSET S
        OBVIOUS
      <3> HIDE DEF Bad
      <3> QED BY <3>1, SmallestSubset
    <2>2. PICK x \in s : TRUE
      OBVIOUS
    <2>3. ~Earlier(x, x) /\ x \in Interval
      BY DEF Earlier, Interval
    <2>4. s \ {x} # {} => HasLast(s \ {x})
      <3>1. s \ {x} \in SUBSET S /\ s \ {x} \subseteq s /\ s \ {x} # s
        BY <2>2
      <3>2. s \ {x} \notin Bad
        <4> HIDE DEF Bad
        <4> QED BY <2>1, <3>1
      <3> HIDE DEF HasLast
      <3> QED BY <3>1, <3>2
    <2>5. CASE s \ {x} = {}
      <3>1. \A other \in s : ~Earlier(x, other)
        BY <2>3, <2>5
      <3> QED BY <3>1, <2>1
    <2>6. CASE s \ {x} # {}
      <3>1. PICK y \in s \ {x} : \A other \in s \ {x} : ~Earlier(y, other)
        BY <2>4, <2>6
      <3>2. CASE Earlier(y, x)
        <4>1. ASSUME NEW other \in s PROVE ~Earlier(x, other)
          <5>1. other # x => ~Earlier(y, other)
            BY <3>1, <4>1
          <5>2. x \in Interval /\ y \in Interval /\ other \in Interval
            BY <4>1
          <5> QED BY <2>3, <3>2, <5>1, <5>2 DEF Earlier, Interval
        <4> QED BY <2>1, <4>1
      <3>3. CASE ~Earlier(y, x)
        <4>1. \A other \in s : ~Earlier(y, other)
          BY <3>1, <3>3
        <4> QED BY <2>1, <3>1, <4>1
      <3> QED BY <3>2, <3>3
    <2> QED BY <2>5, <2>6
  <1>2. HasLast(S)
    BY <1>1
  <1>3. Latest(S) \in S /\ \A other \in S : ~Earlier(Latest(S), other)
    BY <1>2 DEF Latest
  <1>4. \A iv \in S : iv.start <= Latest(S).start
    <2>1. \A a, b \in Interval : ~Earlier(a, b) => b.start <= a.start
      BY DEF Earlier, Interval
    <2> QED BY <1>3, <2>1
  <1> QED BY <1>3, <1>4

\* What joining an interval to a sequence of them gives.
Touches(m, iv) == m # <<>> /\ iv.start <= m[Len(m)].end
LEMMA JoinTouching ==
  ASSUME NEW m \in Seq(Interval), NEW iv \in Interval, Touches(m, iv)
  PROVE  /\ Join(m, iv) \in Seq(Interval) /\ Len(Join(m, iv)) = Len(m) /\ Len(m) \in Nat \ {0}
         /\ \A i \in 1..Len(m) - 1 : Join(m, iv)[i] = m[i]
         /\ Join(m, iv)[Len(m)] = [start |-> m[Len(m)].start, end |-> Larger(m[Len(m)].end, iv.end)]
  <1> DEFINE n == Len(m)
             last == [start |-> m[n].start, end |-> Larger(m[n].end, iv.end)]
  <1>1. n \in Nat \ {0} /\ m[n] \in Interval /\ Last(m) = m[n]
    BY DEF Touches, Last
  <1>2. last \in Interval
    BY <1>1 DEF Larger, Interval
  <1>3. [Last(m) EXCEPT !.end = Larger(@, iv.end)] = last
    BY <1>1 DEF Interval
  <1>4. Front(m) \in Seq(Interval) /\ Len(Front(m)) = n - 1 /\ \A i \in 1..n - 1 : Front(m)[i] = m[i]
    <2>1. Front(m) = SubSeq(m, 1, n - 1)
      BY DEF Front
    <2>2. 1 \in Int /\ n - 1 \in Int
      BY <1>1
    <2>3. \A i \in 1..n - 1 : m[i] \in Interval
      BY <1>1
    <2> DEFINE front == SubSeq(m, 1, n - 1)
    <2> HIDE DEF n
    <2>4. /\ front \in Seq(Interval) /\ Len(front) = IF 1 <= n - 1 THEN n - 1 - 1 + 1 ELSE 0
          /\ \A i \in 1..n - 1 - 1 + 1 : front[i] = m[1 + i - 1]
      BY <2>2, <2>3, SubSeqProperties
    <2>5. Len(front) = n - 1 /\ \A i \in 1..n - 1 : front[i] = m[i]
      BY <1>1, <2>4
    <2> QED BY <2>1, <2>4, <2>5
  <1>5. Join(m, iv) = Front(m) \o <<last>>
    <2>1. Join(m, iv) = Front(m) \o <<[Last(m) EXCEPT !.end = Larger(@, iv.end)]>>
      BY <1>1 DEF Join, Touches
    <2> QED BY <1>3, <2>1
  <1> HIDE DEF n, last
  <1>6. /\ Front(m) \o <<last>> \in Seq(Interval) /\ Len(Front(m) \o <<last>>) = n
        /\ \A i \in 1..n - 1 : (Front(m) \o <<last>>)[i] = m[i]
        /\ (Front(m) \o <<last>>)[n] = last
    BY <1>1, <1>2, <1>4
  <1> QED BY <1>1, <1>5, <1>6 DEF n, last

LEMMA JoinApart ==
  ASSUME NEW m \in Seq(Interval), NEW iv \in Interval, ~Touches(m, iv)
  PROVE  Join(m, iv) = Append(m, iv)
  BY DEF Touches, Join, Last

\* The intervals of m, in order and apart from each other, cover what those
\* of s cover.
Covers(v, t) == v.start <= t /\ t < v.end
Unites(m, s) ==
  /\ \A i \in 1..Len(m) : \E v \in s : v.start = m[i].start
  /\ \A i, j \in 1..Len(m) : i < j => m[i].end < m[j].start
  /\ \A v \in s : \E i \in 1..Len(m) : m[i].start <= v.start /\ v.end <= m[i].end
  /\ \A i \in 1..Len(m) : \A t \in Int : Covers(m[i], t) => \E v \in s : Covers(v, t)

\* Joining the next interval keeps it so.
LEMMA JoinUnites ==
  ASSUME NEW m \in Seq(Interval), NEW s \in SUBSET Interval, Unites(m, s),
         NEW x \in Interval, \A v \in s : v.start <= x.start
  PROVE  Join(m, x) \in Seq(Interval) /\ Unites(Join(m, x), s \cup {x})
  <1> DEFINE j == Join(m, x)
             n == Len(m)
             u == s \cup {x}
  <1>1. n \in Nat /\ \A i \in 1..n : m[i].start \in Int /\ m[i].end \in Int
    <2>1. \A i \in 1..n : m[i] \in Interval
      OBVIOUS
    <2> QED BY <2>1 DEF Interval
  <1>2. x.start \in Int /\ x.end \in Int /\ \A v \in s : v.start \in Int /\ v.end \in Int
    BY DEF Interval
  <1>3. \A i \in 1..n : m[i].start <= x.start
    BY DEF Unites
  <1>4. CASE Touches(m, x)
    <2>1. /\ j \in Seq(Interval) /\ Len(j) = n /\ n \in Nat \ {0}
          /\ \A i \in 1..n - 1 : j[i] = m[i]
          /\ j[n] = [start |-> m[n].start, end |-> Larger(m[n].end, x.end)]
      BY <1>4, JoinTouching
    <2> HIDE DEF j
    <2>2. x.start <= m[n].end
      BY <1>4 DEF Touches
    <2>3. j[n].start = m[n].start /\ j[n].end = Larger(m[n].end, x.end)
      BY <2>1
    <2>4. \A i \in 1..n : j[i].start = m[i].start /\ m[i].end <= j[i].end
      <3>1. \A i \in 1..n : i = n \/ i \in 1..n - 1
        BY <1>1
      <3>2. m[n].end <= j[n].end
        BY <1>1, <1>2, <2>1, <2>3 DEF Larger
      <3> QED BY <1>1, <2>1, <2>3, <3>1, <3>2
    <2>5. \A i \in 1..n : \E v \in u : v.start = j[i].start
      BY <2>4 DEF Unites
    <2>6. ASSUME NEW i \in 1..n, NEW k \in 1..n, i < k PROVE j[i].end < j[k].start
      <3>1. i \in 1..n - 1
        BY <1>1, <2>6
      <3> QED BY <2>1, <2>4, <2>6, <3>1 DEF Unites
    <2>7. ASSUME NEW v \in u PROVE \E i \in 1..n : j[i].start <= v.start /\ v.end <= j[i].end
      <3>1. CASE v \in s
        <4>1. PICK i \in 1..n : m[i].start <= v.start /\ v.end <= m[i].end
          BY <3>1 DEF Unites
        <4>2. v.end \in Int /\ m[i].end \in Int /\ j[i].end \in Int /\ m[i].end <= j[i].end
          <5>1. j[i] \in Interval
            BY <2>1
          <5> QED BY <1>1, <1>2, <2>4, <3>1, <5>1 DEF Interval
        <4> QED BY <2>4, <4>1, <4>2
      <3>2. CASE v = x
        <4>1. x.end <= j[n].end
          BY <1>1, <1>2, <2>1, <2>3 DEF Larger
        <4> QED BY <1>3, <2>1, <2>4, <3>2, <4>1
      <3> QED BY <3>1, <3>2
    <2>8. ASSUME NEW i \in 1..n, NEW t \in Int, Covers(j[i], t) PROVE \E v \in u : Covers(v, t)
      <3>1. CASE Covers(m[i], t)
        BY <3>1 DEF Unites
      <3>2. CASE ~Covers(m[i], t)
        <4>1. i = n
          <5>1. i \in 1..n - 1 => j[i] = m[i]
            BY <2>1
          <5> QED BY <1>1, <2>8, <3>2, <5>1
        <4>2. m[n].start <= t /\ t < Larger(m[n].end, x.end) /\ ~(m[n].start <= t /\ t < m[n].end)
          BY <2>3, <2>8, <3>2, <4>1 DEF Covers
        <4>3. m[n].end <= t /\ t < x.end
          BY <1>1, <1>2, <2>1, <4>2 DEF Larger
        <4>4. Covers(x, t)
          BY <1>1, <1>2, <2>1, <2>2, <4>3 DEF Covers
        <4> QED BY <4>4
      <3> QED BY <3>1, <3>2
    <2> HIDE DEF u, n
    <2>9. Unites(j, u)
      BY <2>1, <2>5, <2>6, <2>7, <2>8 DEF Unites
    <2> QED BY <2>1, <2>9 DEF j, u
  <1>5. CASE ~Touches(m, x)
    <2>1. /\ j \in Seq(Interval) /\ Len(j) = n + 1
          /\ \A i \in 1..n : j[i] = m[i]
          /\ j[n + 1] = x
      <3>1. j = Append(m, x)
        BY <1>5, JoinApart
      <3> QED BY <3>1
    <2> HIDE DEF j
    <2>2. \A i \in 1..n + 1 : i \in 1..n \/ i = n + 1
      BY <1>1
    <2>3. \A i \in 1..n : i \in 1..n + 1
      BY <1>1
    <2>4. n + 1 \in 1..n + 1
      BY <1>1
    <2>5. \A i \in 1..n + 1 : \E v \in u : v.start = j[i].start
      BY <2>1, <2>2 DEF Unites
    <2>6. ASSUME NEW i \in 1..n PROVE m[i].end < x.start
      <3>1. n # 0 /\ n \in 1..n /\ m[n].end < x.start
        BY <1>1, <1>2, <1>5, <2>6 DEF Touches
      <3>2. CASE i = n
        BY <3>1, <3>2
      <3>3. CASE i < n
        <4>1. m[i].end < m[n].start
          BY <3>1, <3>3 DEF Unites
        <4> QED BY <1>1, <1>2, <1>3, <3>1, <4>1
      <3> QED BY <1>1, <3>2, <3>3
    <2>7. ASSUME NEW i \in 1..n + 1, NEW k \in 1..n + 1, i < k PROVE j[i].end < j[k].start
      <3>1. i \in 1..n
        BY <1>1, <2>7
      <3>2. CASE k = n + 1
        BY <2>1, <2>6, <3>1, <3>2
      <3>3. CASE k \in 1..n
        BY <2>1, <2>7, <3>1, <3>3 DEF Unites
      <3> QED BY <2>2, <3>2, <3>3
    <2>8. ASSUME NEW v \in u PROVE \E i \in 1..n + 1 : j[i].start <= v.start /\ v.end <= j[i].end
      <3>1. CASE v \in s
        <4>1. PICK i \in 1..n : m[i].start <= v.start /\ v.end <= m[i].end
          BY <3>1 DEF Unites
        <4> QED BY <2>1, <2>3, <4>1
      <3>2. CASE v = x
        BY <1>2, <2>1, <2>4, <3>2
      <3> QED BY <3>1, <3>2
    <2>9. ASSUME NEW i \in 1..n + 1, NEW t \in Int, Covers(j[i], t) PROVE \E v \in u : Covers(v, t)
      <3>1. CASE i \in 1..n
        BY <2>1, <2>9, <3>1 DEF Unites
      <3>2. CASE i = n + 1
        BY <2>1, <2>9, <3>2
      <3> QED BY <2>2, <3>1, <3>2
    <2> HIDE DEF u, n
    <2>10. Unites(j, u)
      BY <2>1, <2>5, <2>7, <2>8, <2>9 DEF Unites
    <2> QED BY <2>1, <2>10 DEF j, u
  <1> QED BY <1>4, <1>5

\* g merges every subset of S, the latest interval last.
Merges(g, S) ==
  g = [s \in SUBSET S |-> IF s = {} THEN <<>> ELSE Join(g[s \ {Latest(s)}], Latest(s))]
LEMMA MergesExist ==
  ASSUME NEW S \in SUBSET Interval, IsFiniteSet(S)
  PROVE  \E g : Merges(g, S)
  <1> DEFINE pick == [s \in SUBSET S |-> Latest(s)]
             step == [p \in S \X Seq(Interval) |-> Join(p[2], p[1])]
  <1>1. \A s \in SUBSET S : s # {} => Latest(s) \in s
    BY FS_Subset, LatestIsLast
  <1>2. \A s \in SUBSET S : s # {} => pick[s] \in s
    BY <1>1
  <1>3. PICK g : Recurses(g, S, <<>>, pick, step)
    <2> HIDE DEF pick, step
    <2> QED BY <1>2, RecursionExists
  <1>4. g = [s \in SUBSET S |-> IF s = {} THEN <<>> ELSE step[pick[s], g[s \ {pick[s]}]]]
    BY <1>3 DEF Recurses
  <1>5. \A a \in S, m \in Seq(Interval) : step[a, m] = Join(m, a) /\ Join(m, a) \in Seq(Interval)
    <2>1. \A a \in S, m \in Seq(Interval) : Join(m, a) \in Seq(Interval)
      <3> SUFFICES ASSUME NEW a \in S, NEW m \in Seq(Interval) PROVE Join(m, a) \in Seq(Interval)
        OBVIOUS
      <3>1. Touches(m, a) => Join(m, a) \in Seq(Interval)
        BY JoinTouching
      <3>2. ~Touches(m, a) => Join(m, a) = Append(m, a)
        BY JoinApart
      <3>3. Append(m, a) \in Seq(Interval)
        OBVIOUS
      <3> QED BY <3>1, <3>2, <3>3
    <2> QED BY <2>1
  <1>6. \A s \in SUBSET S : g[s] \in Seq(Interval)
    <2> DEFINE Bad == {s \in SUBSET S : g[s] \notin Seq(Interval)}
    <2>1. SUFFICES ASSUME Bad # {} PROVE FALSE
      OBVIOUS
    <2>2. PICK s \in Bad : \A t \in Bad : t \subseteq s => t = s
      <3>1. Bad \subseteq SUBSET S
        OBVIOUS
      <3> HIDE DEF Bad
      <3> QED BY <2>1, <3>1, SmallestSubset
    <2> HIDE DEF pick, step
    <2>3. g[s] = IF s = {} THEN <<>> ELSE step[pick[s], g[s \ {pick[s]}]]
      BY <1>4
    <2>4. s # {}
      <3>1. <<>> \in Seq(Interval)
        OBVIOUS
      <3> QED BY <2>3, <3>1
    <2>5. pick[s] \in s /\ g[s \ {pick[s]}] \in Seq(Interval)
      BY <1>2, <2>2, <2>4
    <2>6. step[pick[s], g[s \ {pick[s]}]] \in Seq(Interval)
      BY <1>5, <2>5
    <2> QED BY <2>3, <2>4, <2>6
  <1>7. ASSUME NEW s \in SUBSET S, s # {}
        PROVE  step[pick[s], g[s \ {pick[s]}]] = Join(g[s \ {Latest(s)}], Latest(s))
    <2>1. pick[s] = Latest(s) /\ Latest(s) \in S /\ g[s \ {Latest(s)}] \in Seq(Interval)
      BY <1>1, <1>6, <1>7
    <2> HIDE DEF pick, step
    <2> QED BY <1>5, <2>1
  <1>8. Merges(g, S)
    <2> HIDE DEF pick, step
    <2> QED BY <1>4, <1>7 DEF Merges
  <1> QED BY <1>8

\* Merging gives intervals apart from each other that cover the same.
LEMMA MergeUnites ==
  ASSUME NEW S \in SUBSET Interval, IsFiniteSet(S)
  PROVE  Merge(S) \in Seq(Interval) /\ Unites(Merge(S), S)
  <1> DEFINE g == CHOOSE g : g = [s \in SUBSET S |-> IF s = {} THEN <<>> ELSE Join(g[s \ {Latest(s)}], Latest(s))]
  <1>1. Merge(S) = g[S]
    BY Zenon DEF Merge, MapThenFoldSet
  <1>2. g = [s \in SUBSET S |-> IF s = {} THEN <<>> ELSE Join(g[s \ {Latest(s)}], Latest(s))]
    <2>1. \E x : x = [s \in SUBSET S |-> IF s = {} THEN <<>> ELSE Join(x[s \ {Latest(s)}], Latest(s))]
      BY MergesExist DEF Merges
    <2> QED BY <2>1
  <1> HIDE DEF g
  <1> DEFINE Good(s) == g[s] \in Seq(Interval) /\ Unites(g[s], s)
             Bad == {s \in SUBSET S : ~Good(s)}
  <1>3. Bad = {}
    <2> SUFFICES ASSUME Bad # {} PROVE FALSE
      OBVIOUS
    <2>1. PICK s \in Bad : \A t \in Bad : t \subseteq s => t = s
      <3>1. Bad \subseteq SUBSET S
        OBVIOUS
      <3> HIDE DEF Bad
      <3> QED BY <3>1, SmallestSubset
    <2>2. g[s] = IF s = {} THEN <<>> ELSE Join(g[s \ {Latest(s)}], Latest(s))
      BY <1>2
    <2>3. CASE s = {}
      <3>1. g[s] = <<>>
        BY <2>2, <2>3
      <3>2. <<>> \in Seq(Interval) /\ Len(<<>>) = 0
        OBVIOUS
      <3>3. Unites(<<>>, s)
        BY <2>3, <3>2 DEF Unites
      <3>4. Good(s)
        BY <3>1, <3>2, <3>3
      <3> QED BY <2>1, <3>4
    <2>4. CASE s # {}
      <3> DEFINE x == Latest(s)
                 r == s \ {x}
      <3>1. IsFiniteSet(s) /\ s \in SUBSET Interval
        BY FS_Subset
      <3>2. x \in s /\ \A v \in s : v.start <= x.start
        BY <2>4, <3>1, LatestIsLast
      <3> HIDE DEF x
      <3>3. r \in SUBSET S /\ r \subseteq s /\ r # s /\ r \cup {x} = s
        BY <3>2
      <3>4. Good(r)
        <4>1. r \notin Bad
          <5> HIDE DEF Bad
          <5> QED BY <2>1, <3>3
        <4> QED BY <3>3, <4>1
      <3>5. g[s] = Join(g[r], x)
        BY <2>2, <2>4 DEF x
      <3>6. r \in SUBSET Interval /\ x \in Interval /\ \A v \in r : v.start <= x.start
        BY <3>1, <3>2
      <3> DEFINE m == g[r]
      <3>7. m \in Seq(Interval) /\ Unites(m, r)
        BY <3>4
      <3> HIDE DEF m, r
      <3>8. Join(m, x) \in Seq(Interval) /\ Unites(Join(m, x), r \cup {x})
        BY <3>6, <3>7, JoinUnites
      <3>9. Good(s)
        BY <3>3, <3>5, <3>8 DEF m
      <3> QED BY <2>1, <3>9
    <2> QED BY <2>3, <2>4
  <1>4. Good(S)
    BY <1>3
  <1> QED BY <1>1, <1>4

\* So one of them holds a stretch of time exactly if all of it is covered.
LEMMA UnitedHolds ==
  ASSUME NEW m \in Seq(Interval), NEW s \in SUBSET Interval, Unites(m, s),
         NEW a \in Int, NEW b \in Int, a < b
  PROVE  (\E i \in 1..Len(m) : m[i].start <= a /\ b <= m[i].end)
           <=> \A t \in a..(b - 1) : \E v \in s : Covers(v, t)
  <1> DEFINE n == Len(m)
  <1>1. n \in Nat /\ \A i \in 1..n : m[i].start \in Int /\ m[i].end \in Int
    <2>1. \A i \in 1..n : m[i] \in Interval
      OBVIOUS
    <2> QED BY <2>1 DEF Interval
  <1>2. \A v \in s : v.start \in Int /\ v.end \in Int
    BY DEF Interval
  <1> HIDE DEF n
  <1>3. ASSUME NEW i \in 1..n, m[i].start <= a, b <= m[i].end, NEW t \in a..(b - 1)
        PROVE  \E v \in s : Covers(v, t)
    <2>1. t \in Int /\ Covers(m[i], t)
      BY <1>1, <1>3 DEF Covers
    <2> QED BY <2>1 DEF Unites, n
  <1>4. ASSUME \A t \in a..(b - 1) : \E v \in s : Covers(v, t)
        PROVE  \E i \in 1..n : m[i].start <= a /\ b <= m[i].end
    <2>1. ASSUME NEW t \in a..(b - 1) PROVE \E i \in 1..n : Covers(m[i], t)
      <3>1. PICK v \in s : Covers(v, t)
        BY <1>4
      <3>2. PICK i \in 1..n : m[i].start <= v.start /\ v.end <= m[i].end
        BY DEF Unites, n
      <3>3. t \in Int
        OBVIOUS
      <3> QED BY <1>1, <1>2, <3>1, <3>2, <3>3 DEF Covers
    <2>2. a \in a..(b - 1)
      OBVIOUS
    <2>3. PICK i \in 1..n : Covers(m[i], a)
      BY <2>1, <2>2
    <2>4. m[i].start \in Int /\ m[i].end \in Int /\ m[i].start <= a /\ a < m[i].end
      BY <1>1, <2>3 DEF Covers
    <2>5. CASE b <= m[i].end
      BY <2>4, <2>5
    <2>6. CASE m[i].end < b
      <3>1. m[i].end \in a..(b - 1)
        BY <2>4, <2>6
      <3>2. PICK k \in 1..n : Covers(m[k], m[i].end)
        BY <2>1, <3>1
      <3>3. m[k].start \in Int /\ m[k].end \in Int /\ m[k].start <= m[i].end /\ m[i].end < m[k].end
        BY <1>1, <3>2 DEF Covers
      <3>4. ~(i < k)
        BY <2>4, <3>3 DEF Unites, n
      <3>5. ~(k < i)
        <4>1. k < i => m[k].end < m[i].start
          BY DEF Unites, n
        <4> QED BY <2>4, <3>3, <4>1
      <3>6. i # k
        BY <2>4, <3>3
      <3> QED BY <1>1, <3>4, <3>5, <3>6
    <2> QED BY <2>4, <2>5, <2>6
  <1> QED BY <1>3, <1>4 DEF n

-----------------------------------------------------------------------------
(* Availability                                                            *)

\* The slots, as times of day.
SlotsAreTimes ==
  IsFiniteSet(slots) /\ slots \subseteq [day : Nat, start : 0..DayTicks - 1, end : 0..DayTicks - 1]

LEMMA WindowType ==
  ASSUME delta \in Int, SlotsAreTimes, NEW slot \in slots, NEW d \in Int
  PROVE  Window(slot, d) \in Interval
  <1>1. DayTicks \in Nat \ {0} /\ slot.start \in Int /\ slot.end \in Int
    BY CalendarAssumption DEF SlotsAreTimes
  <1>2. d * DayTicks + slot.start \in Int /\ (d + 1) * DayTicks + slot.end \in Int
        /\ d * DayTicks + slot.end \in Int
    BY <1>1
  <1>3. (IF CrossesMidnight(slot) THEN d + 1 ELSE d) * DayTicks + slot.end \in Int
    BY <1>2
  <1>4. ToUtc(d * DayTicks + slot.start) \in Int
        /\ ToUtc((IF CrossesMidnight(slot) THEN d + 1 ELSE d) * DayTicks + slot.end) \in Int
    BY <1>2, <1>3, InstantType
  <1> QED BY <1>4 DEF Window, Interval

\* The window of a date has nothing before that date or after the next one.
LEMMA WindowIsOfItsDate ==
  ASSUME delta \in Int, CalmAt(delta), SlotsAreTimes, NEW slot \in slots, NEW d \in Int, NEW t \in Int
  PROVE  /\ Window(slot, d).start <= t => d <= Date(ToWall(t))
         /\ t < Window(slot, d).end => Date(ToWall(t)) <= d + 1
  <1>1. DayTicks \in Nat \ {0} /\ slot.start \in 0..DayTicks - 1 /\ slot.end \in 0..DayTicks - 1
    BY CalendarAssumption DEF SlotsAreTimes
  <1> DEFINE e == IF CrossesMidnight(slot) THEN d + 1 ELSE d
             from == d * DayTicks + slot.start
             to == e * DayTicks + slot.end
  <1>2. e \in Int /\ e <= d + 1
    OBVIOUS
  <1>3. from \in Int /\ to \in Int /\ Window(slot, d).start = ToUtc(from) /\ Window(slot, d).end = ToUtc(to)
    BY <1>1, <1>2 DEF Window
  <1>4. from \div DayTicks = d
    <2>1. d * DayTicks <= from /\ ~((d + 1) * DayTicks <= from) /\ d + 1 \in Int
      BY <1>1
    <2>2. d <= from \div DayTicks /\ ~(d + 1 <= from \div DayTicks) /\ from \div DayTicks \in Int
      BY <1>1, <1>3, <2>1, DivisionOrder, Division
    <2> QED BY <2>2
  <1>5. to \div DayTicks = e
    <2> HIDE DEF e
    <2>1. e * DayTicks <= to /\ ~((e + 1) * DayTicks <= to) /\ e + 1 \in Int
      BY <1>1, <1>2
    <2>2. e <= to \div DayTicks /\ ~(e + 1 <= to \div DayTicks) /\ to \div DayTicks \in Int
      BY <1>1, <1>2, <1>3, <2>1, DivisionOrder, Division
    <2> QED BY <1>2, <2>2
  <1> HIDE DEF e, from, to
  <1>6. Date(from) = d /\ Date(to) = e
    BY <1>4, <1>5 DEF Date
  <1>7. ToUtc(from) <= t => d <= Date(ToWall(t))
    BY <1>3, <1>6, DatesInOrder
  <1>8. t < ToUtc(to) => Date(ToWall(t)) <= e /\ Date(ToWall(t)) \in Int
    BY <1>3, <1>6, DatesInOrder
  <1> QED BY <1>2, <1>3, <1>7, <1>8

\* The windows around a shift, by the days they begin on.
DaysAround(start, end) == Date(ToWall(start)) - 1 .. Date(ToWall(end)) + 1
WindowsOn(days) == {Window(w[1], w[2]) : w \in {w \in slots \X days : w[1].day = Weekday(w[2])}}

LEMMA WindowsAreFinite ==
  ASSUME delta \in Int, SlotsAreTimes, NEW a \in Int, NEW b \in Int
  PROVE  WindowsOn(a..b) \in SUBSET Interval /\ IsFiniteSet(WindowsOn(a..b))
  <1> DEFINE pairs == {w \in slots \X (a..b) : w[1].day = Weekday(w[2])}
  <1>1. IsFiniteSet(pairs)
    <2>1. IsFiniteSet(slots \X (a..b))
      BY FS_Interval, FS_Product DEF SlotsAreTimes
    <2> QED BY <2>1, FS_Subset
  <1>2. WindowsOn(a..b) \subseteq Interval
    BY WindowType DEF WindowsOn
  <1> DEFINE f == [w \in pairs |-> Window(w[1], w[2])]
  <1>3. f \in Surjection(pairs, WindowsOn(a..b))
    BY DEF WindowsOn, Surjection
  <1> HIDE DEF pairs, f
  <1>4. IsFiniteSet(WindowsOn(a..b))
    BY <1>1, <1>3, FS_Surjection
  <1> QED BY <1>2, <1>4

\* Which slots and dates have her free at an instant.
FreeOn(days, t) ==
  \E slot \in slots, d \in days : Weekday(d) = slot.day /\ Covers(Window(slot, d), t)

\* A shift is accepted exactly if she is free during all of it by the dates
\* around it.
LEMMA AcceptedIfFree ==
  ASSUME delta \in Int, SlotsAreTimes, NEW s \in Shifts, Instants(s) # {}
  PROVE  IsWithinAvailability(s)
           <=> \A t \in Instants(s) : FreeOn(DaysAround(ToUtc(s.start), ToUtc(s.end)), t)
  <1> DEFINE a == ToUtc(s.start)
             b == ToUtc(s.end)
             days == DaysAround(a, b)
             m == Merge(WindowsOn(days))
  <1>1. a \in Int /\ b \in Int /\ a < b
    <2>1. s.start \in Int /\ s.end \in Int
      BY ShiftAssumption
    <2>2. a \in Int /\ b \in Int
      BY <2>1, InstantType
    <2> QED BY <2>2 DEF Instants
  <1>2. WindowsOn(days) \in SUBSET Interval /\ IsFiniteSet(WindowsOn(days))
    <2>1. ToWall(a) \in Int /\ ToWall(b) \in Int
      BY <1>1, InstantType
    <2>2. Date(ToWall(a)) \in Int /\ Date(ToWall(b)) \in Int
      BY <2>1, DateOrder
    <2>3. Date(ToWall(a)) - 1 \in Int /\ Date(ToWall(b)) + 1 \in Int
      BY <2>2
    <2> QED BY <2>3, WindowsAreFinite DEF DaysAround
  <1>3. m \in Seq(Interval) /\ Unites(m, WindowsOn(days))
    BY <1>2, MergeUnites
  <1>4. IsWithinAvailability(s) <=> \E i \in 1..Len(m) : m[i].start <= a /\ b <= m[i].end
    <2>1. WindowsCovering(a, b) = m
      BY DEF WindowsCovering, WindowsOn, DaysAround
    <2>2. ToSet(m) = {m[i] : i \in 1..Len(m)}
      BY <1>3 DEF ToSet
    <2>3. IsWithinAvailability(s) <=> \E w \in ToSet(WindowsCovering(a, b)) : w.start <= a /\ b <= w.end
      BY DEF IsWithinAvailability
    <2> HIDE DEF m
    <2> QED BY <2>1, <2>2, <2>3
  <1>5. (\E i \in 1..Len(m) : m[i].start <= a /\ b <= m[i].end)
          <=> \A t \in a..(b - 1) : \E v \in WindowsOn(days) : Covers(v, t)
    <2> HIDE DEF m, a, b, days
    <2> QED BY <1>1, <1>2, <1>3, UnitedHolds
  <1>6. \A t : (\E v \in WindowsOn(days) : Covers(v, t)) <=> FreeOn(days, t)
    <2> SUFFICES ASSUME NEW t PROVE (\E v \in WindowsOn(days) : Covers(v, t)) <=> FreeOn(days, t)
      OBVIOUS
    <2>1. ASSUME NEW v \in WindowsOn(days), Covers(v, t) PROVE FreeOn(days, t)
      <3>1. PICK w \in slots \X days : w[1].day = Weekday(w[2]) /\ v = Window(w[1], w[2])
        BY DEF WindowsOn
      <3> QED BY <2>1, <3>1 DEF FreeOn
    <2>2. ASSUME NEW slot \in slots, NEW d \in days, Weekday(d) = slot.day, Covers(Window(slot, d), t)
          PROVE  \E v \in WindowsOn(days) : Covers(v, t)
      <3>1. <<slot, d>> \in slots \X days /\ <<slot, d>>[1] = slot /\ <<slot, d>>[2] = d
        OBVIOUS
      <3>2. Window(slot, d) \in WindowsOn(days)
        BY <2>2, <3>1 DEF WindowsOn
      <3> QED BY <2>2, <3>2
    <2> QED BY <2>1, <2>2 DEF FreeOn
  <1> HIDE DEF m, days
  <1>7. IsWithinAvailability(s) <=> \A t \in a..(b - 1) : FreeOn(days, t)
    BY <1>4, <1>5, <1>6
  <1> QED BY <1>7 DEF Instants, days

\* No other date has a window that matters to a shift: its instants are in
\* windows of the dates around it only, and never before or after the
\* calendar of the property.
LEMMA OnlyDatesAround ==
  ASSUME delta \in Int, CalmAt(delta), SlotsAreTimes, NEW s \in Shifts, NEW t \in Instants(s),
         NEW slot \in slots, NEW d \in Int, Covers(Window(slot, d), t)
  PROVE  d \in DaysAround(ToUtc(s.start), ToUtc(s.end)) /\ d \in Date(s.start) - 1 .. Date(s.end)
  <1> DEFINE a == ToUtc(s.start)
             b == ToUtc(s.end)
             e == Date(ToWall(t))
  <1>1. s.start \in Int /\ s.end \in Int /\ a \in Int /\ b \in Int
    <2>1. s.start \in Int /\ s.end \in Int
      BY ShiftAssumption
    <2> QED BY <2>1, InstantType
  <1>2. t \in Int /\ a <= t /\ t < b
    BY <1>1 DEF Instants
  <1>3. Date(s.start) \in Int /\ Date(s.end) \in Int /\ e \in Int /\ Date(s.start) <= e /\ e <= Date(s.end)
    BY <1>1, <1>2, DatesInOrder
  <1> DEFINE w == Window(slot, d)
  <1>4. w.start \in Int /\ w.end \in Int /\ w.start <= t /\ t < w.end
    <2>1. w \in Interval
      BY WindowType
    <2> HIDE DEF w
    <2>2. Covers(w, t)
      BY DEF w
    <2> QED BY <2>1, <2>2 DEF Interval, Covers
  <1>5. w.start <= b /\ a < w.end
    <2> HIDE DEF w, a, b
    <2> QED BY <1>1, <1>2, <1>4
  <1>6. d <= e /\ e <= d + 1
    BY <1>2, <1>4, WindowIsOfItsDate
  <1>7. d <= Date(ToWall(b)) /\ Date(ToWall(a)) <= d + 1
    BY <1>1, <1>5, WindowIsOfItsDate
  <1>8. Date(ToWall(a)) \in Int /\ Date(ToWall(b)) \in Int
    BY <1>1, DatesInOrder
  <1> HIDE DEF a, b, e, w
  <1>9. d \in Date(s.start) - 1 .. Date(s.end)
    BY <1>3, <1>6
  <1>10. d \in Date(ToWall(a)) - 1 .. Date(ToWall(b)) + 1
    BY <1>7, <1>8
  <1> QED BY <1>9, <1>10 DEF DaysAround, a, b

\* The shifts lie on the calendar of the property: none starts before its
\* first day, and one of them ends last.
ShiftsOnCalendar ==
  \A s \in Shifts : s.start >= 0 /\ \E last \in Shifts : \A o \in Shifts : o.end <= last.end

\* The windows accept exactly the shifts during all of which she is free, on
\* the calendar of the property and on one without beginning or end.
LEMMA AcceptanceIsExact ==
  ASSUME delta \in Int, CalmAt(delta), SlotsAreTimes, NEW s \in Shifts, Instants(s) # {}
  PROVE  /\ IsWithinAvailability(s) <=> \A t \in Instants(s) : FreeOn(Int, t)
         /\ ShiftsOnCalendar => (IsWithinAvailability(s) <=> \A t \in Instants(s) : Free(t))
  <1> DEFINE days == DaysAround(ToUtc(s.start), ToUtc(s.end))
  <1>1. IsWithinAvailability(s) <=> \A t \in Instants(s) : FreeOn(days, t)
    BY AcceptedIfFree
  <1>2. days \subseteq Int
    BY DEF DaysAround
  <1>3. ASSUME NEW t \in Instants(s), NEW slot \in slots, NEW d \in Int, Covers(Window(slot, d), t)
        PROVE  d \in days /\ (ShiftsOnCalendar => d \in Calendar)
    <2>1. d \in days /\ d \in Date(s.start) - 1 .. Date(s.end)
      BY <1>3, OnlyDatesAround
    <2>2. ASSUME ShiftsOnCalendar PROVE d \in Calendar
      <3> DEFINE end == CHOOSE e \in {o.end : o \in Shifts} : \A o \in Shifts : o.end <= e
      <3>1. end \in {o.end : o \in Shifts} /\ \A o \in Shifts : o.end <= end
        <4>1. \E e \in {o.end : o \in Shifts} : \A o \in Shifts : o.end <= e
          BY <2>2 DEF ShiftsOnCalendar
        <4> QED BY <4>1
      <3>2. end \in Int /\ s.end \in Int /\ s.start \in Int
        BY <3>1, ShiftAssumption
      <3>3. Calendar = -2 .. 2 + Date(end)
        BY DEF Calendar
      <3> HIDE DEF end
      <3>4. Date(s.end) <= Date(end) /\ Date(s.end) \in Int /\ Date(end) \in Int
        BY <3>1, <3>2, DateOrder
      <3>5. 0 <= Date(s.start) /\ Date(s.start) \in Int
        <4>1. s.start >= 0
          BY <2>2 DEF ShiftsOnCalendar
        <4> QED BY <3>2, <4>1, CalendarAssumption, Division DEF Date
      <3>6. d \in -2 .. 2 + Date(end)
        BY <2>1, <3>4, <3>5
      <3> QED BY <3>3, <3>6
    <2> QED BY <2>1, <2>2
  <1> HIDE DEF days
  <1>4. ASSUME NEW t \in Instants(s) PROVE FreeOn(days, t) <=> FreeOn(Int, t)
    BY <1>2, <1>3 DEF FreeOn
  <1>5. ASSUME ShiftsOnCalendar, NEW t \in Instants(s) PROVE FreeOn(days, t) <=> Free(t)
    <2>1. Calendar \subseteq Int
      BY DEF Calendar
    <2>2. FreeOn(days, t) => \E slot \in slots, d \in Calendar : Weekday(d) = slot.day /\ Covers(Window(slot, d), t)
      BY <1>2, <1>3, <1>5 DEF FreeOn
    <2>3. (\E slot \in slots, d \in Calendar : Weekday(d) = slot.day /\ Covers(Window(slot, d), t)) => FreeOn(days, t)
      BY <1>3, <2>1 DEF FreeOn
    <2> QED BY <2>2, <2>3 DEF Free, Covers
  <1>6. IsWithinAvailability(s) <=> \A t \in Instants(s) : FreeOn(Int, t)
    BY <1>1, <1>4
  <1>7. ShiftsOnCalendar => (IsWithinAvailability(s) <=> \A t \in Instants(s) : Free(t))
    BY <1>1, <1>5
  <1> QED BY <1>6, <1>7

\* What is configured when the agent starts stays.
SettingsHold == delta \in Int /\ CalmAt(delta) /\ SlotsAreTimes
LEMMA SettingsStep == SettingsHold /\ [Next]_vars => SettingsHold'
  <1> SUFFICES ASSUME SettingsHold, [Next]_vars PROVE SettingsHold'
    OBVIOUS
  <1>1. UNCHANGED config
    BY DEF Next, Claim, Leaves, vars
  <1> QED BY <1>1, SameReading DEF SettingsHold, SlotsAreTimes, config
LEMMA SettingsInvariant == Calm => (Spec => []SettingsHold)
  <1> SUFFICES ASSUME Calm PROVE Spec => []SettingsHold
    OBVIOUS
  <1>1. Init => SettingsHold
    BY CalendarAssumption, SlotAssumption DEF Init, Calm, SettingsHold, SlotsAreTimes
  <1> QED BY <1>1, SettingsStep, PTL DEF Spec

\* In every state the windows, materialised around a shift and merged, accept
\* exactly the shifts during all of which she is free, for every set of slots,
\* calendar and change of the zone that is not around midnight
\* (schedule.py:26-75).
AcceptsWhatFits ==
  \A s \in Shifts :
    Instants(s) # {} => (IsWithinAvailability(s) <=> \A t \in Instants(s) : FreeOn(Int, t))
THEOREM WhatFitsIsAccepted == Calm => (Spec => []AcceptsWhatFits)
  <1> SUFFICES ASSUME Calm PROVE Spec => []AcceptsWhatFits
    OBVIOUS
  <1>1. SettingsHold => AcceptsWhatFits
    BY AcceptanceIsExact DEF SettingsHold, AcceptsWhatFits
  <1> QED BY <1>1, SettingsInvariant, PTL

\* So it is on the calendar the runs check it on.
THEOREM AvailabilityIsExact == Calm /\ ShiftsOnCalendar => (Spec => []AvailabilityExact)
  <1> SUFFICES ASSUME Calm, ShiftsOnCalendar PROVE Spec => []AvailabilityExact
    OBVIOUS
  <1>1. SettingsHold => AvailabilityExact
    BY AcceptanceIsExact DEF SettingsHold, AvailabilityExact
  <1> QED BY <1>1, SettingsInvariant, PTL

=============================================================================
