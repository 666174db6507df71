--------------------------- MODULE FlagEvalProofs ---------------------------
(***************************************************************************)
(* Proofs about FlagEval for definitions with any number of variants and   *)
(* rules, and integers of any width.                                       *)
(*                                                                         *)
(* The running sums are functions defined by recursion.  That such a       *)
(* function exists, and what holds of all its values, is proved without an *)
(* induction theorem: from a set of numbers for which the claim fails,     *)
(* LeastNat takes the least.                                               *)
(***************************************************************************)
EXTENDS FlagEval, FiniteSetTheorems, SequenceTheorems, TLAPS

-----------------------------------------------------------------------------
(* Numbers                                                                 *)

\* A set of natural numbers that is not empty has a least element: the set of
\* the intervals up to its elements has a minimal one.
LEMMA LeastNat ==
  ASSUME NEW T, T \subseteq Nat, T # {}
  PROVE  \E x \in T : \A y \in T : x <= y
<1> DEFINE Below == {0 .. n : n \in T}
<1>1. Below \subseteq FiniteSubsetsOf(Nat) /\ Below # {}
  <2>1. \A n \in T : 0 .. n \in SUBSET Nat /\ IsFiniteSet(0 .. n)
    BY FS_Interval
  <2> QED
    BY <2>1 DEF FiniteSubsetsOf
<1>2. PICK u \in Below : \A v \in Below : ~ (<<v, u>> \in StrictSubsetOrdering(Nat))
  <2> HIDE DEF Below
  <2> QED
    BY <1>1, FS_StrictSubsetOrderingWellFounded, WFMin
<1>3. PICK x \in T : u = 0 .. x
  BY <1>2
<1>4. ASSUME NEW y \in T, y < x PROVE FALSE
  <2>1. 0 .. y \in Below /\ 0 .. y \subseteq 0 .. x /\ x \notin 0 .. y /\ x \in 0 .. x
    BY <1>4
  <2>2. <<0 .. y, u>> \in StrictSubsetOrdering(Nat)
    BY <1>3, <1>4, <2>1 DEF StrictSubsetOrdering
  <2> QED
    BY <1>2, <2>1, <2>2
<1> QED
  BY <1>3, <1>4

\* What First takes is the least of the places.
LEMMA FirstLeast ==
  ASSUME NEW T, T \subseteq Nat, T # {}
  PROVE  First(T) \in T /\ \A j \in T : First(T) <= j
BY LeastNat DEF First

\* A set of numbers that has 0, and with each number up to n the next one, has
\* them all.
LEMMA Induction ==
  ASSUME NEW n \in Nat, NEW T, 0 \in T, \A i \in 1 .. n : i - 1 \in T => i \in T
  PROVE  0 .. n \subseteq T
<1> DEFINE Bad == {i \in 0 .. n : i \notin T}
<1>1. ASSUME Bad # {} PROVE FALSE
  <2>1. Bad \subseteq Nat
    OBVIOUS
  <2>2. PICK i \in Bad : \A j \in Bad : i <= j
    <3> HIDE DEF Bad
    <3> QED
      BY <1>1, <2>1, LeastNat
  <2>3. i \in 1 .. n /\ i - 1 \in 0 .. n /\ ~ (i <= i - 1)
    BY <2>2
  <2>4. i - 1 \in T
    BY <2>2, <2>3
  <2> QED
    BY <2>2, <2>3, <2>4
<1> QED
  BY <1>1

\* A function into the integers can be defined by starting with 0 and by what each
\* value makes of the one before.
LEMMA RecursiveFunction ==
  ASSUME NEW n \in Nat, NEW step \in [(1 .. n) \X Int -> Int]
  PROVE  \E g \in [0 .. n -> Int] :
           g[0] = 0 /\ \A i \in 1 .. n : g[i] = step[<<i, g[i - 1]>>]
<1> DEFINE Upto(m) == \E g \in [0 .. m -> Int] :
                        g[0] = 0 /\ \A i \in 1 .. m : g[i] = step[<<i, g[i - 1]>>]
           T == {m \in 0 .. n : Upto(m)}
<1>1. Upto(0)
  <2> DEFINE g == [i \in 0 .. 0 |-> 0]
  <2>1. g \in [0 .. 0 -> Int] /\ g[0] = 0
    OBVIOUS
  <2>2. 1 .. 0 = {}
    OBVIOUS
  <2> HIDE DEF g
  <2> QED
    BY <2>1, <2>2
<1>2. ASSUME NEW m \in 1 .. n, Upto(m - 1) PROVE Upto(m)
  <2>1. PICK g \in [0 .. m - 1 -> Int] :
          g[0] = 0 /\ \A i \in 1 .. m - 1 : g[i] = step[<<i, g[i - 1]>>]
    BY <1>2
  <2> DEFINE h == [i \in 0 .. m |-> IF i = m THEN step[<<m, g[m - 1]>>] ELSE g[i]]
  <2>2. g[m - 1] \in Int /\ <<m, g[m - 1]>> \in (1 .. n) \X Int
    BY <2>1
  <2>3. h \in [0 .. m -> Int]
    <3>1. step[<<m, g[m - 1]>>] \in Int
      BY <2>2
    <3>2. \A i \in 0 .. m : i # m => g[i] \in Int
      BY <2>1
    <3> QED
      BY <3>1, <3>2
  <2>4. h[0] = 0
    BY <2>1
  <2>5. ASSUME NEW i \in 1 .. m PROVE h[i] = step[<<i, h[i - 1]>>]
    <3>1. h[i - 1] = g[i - 1]
      BY <2>5
    <3>2. CASE i = m
      <4>1. h[m] = step[<<m, g[m - 1]>>] /\ h[m - 1] = g[m - 1]
        OBVIOUS
      <4> HIDE DEF h
      <4> QED
        BY <3>2, <4>1
    <3>3. CASE i # m
      <4>1. i \in 1 .. m - 1 /\ h[i] = g[i]
        BY <3>3
      <4> QED
        BY <2>1, <3>1, <4>1
    <3> QED
      BY <3>2, <3>3
  <2> HIDE DEF h
  <2> QED
    BY <2>3, <2>4, <2>5
<1>3. 0 .. n \subseteq T
  <2> HIDE DEF Upto
  <2>1. 0 \in T /\ \A i \in 1 .. n : i - 1 \in T => i \in T
    BY <1>1, <1>2
  <2> HIDE DEF T
  <2> QED
    BY <2>1, Induction
<1>4. Upto(n)
  <2> HIDE DEF Upto
  <2> QED
    BY <1>3
<1> QED
  BY <1>4

-----------------------------------------------------------------------------
(* The running sums                                                        *)

\* The sums of the weights as the code means them, without a width.
LEMMA IntMods ==
  /\ FullWeight \in Nat /\ ColumnMax \in Nat /\ UintMod \in Nat /\ IntMod \in Nat
  /\ FullWeight > 0 /\ FullWeight <= ColumnMax /\ ColumnMax < UintMod
  /\ UintMod < IntMod
BY EvalAssumption

\* Adding two ints gives an int.
LEMMA WrapIntType == \A n \in Int : WrapInt(n) \in Int
BY IntMods DEF WrapInt

\* Of what fits, the addition makes what it should.
LEMMA WrapIntKeeps == \A n \in Nat : 2 * n < IntMod => WrapInt(n) = n
<1> TAKE n \in Nat
<1>1. 2 * n < IntMod => n % IntMod = n
  BY IntMods
<1> QED
  BY <1>1, IntMods DEF WrapInt

LEMMA ToUintType == \A n \in Int : ToUint(n) \in Nat
BY IntMods DEF ToUint

LEMMA ToUintKeeps == \A n \in Nat : n < UintMod => ToUint(n) = n
BY IntMods DEF ToUint

\* totalWeight after each variant is what its loop computes.
LEMMA TotalsDef ==
  ASSUME NEW vs, Len(vs) \in Nat, \A i \in 1 .. Len(vs) : vs[i].weight \in Int
  PROVE  /\ Totals(vs) \in [0 .. Len(vs) -> Int]
         /\ Totals(vs)[0] = 0
         /\ \A i \in 1 .. Len(vs) :
              Totals(vs)[i] = WrapInt(Totals(vs)[i - 1] + vs[i].weight)
<1> DEFINE n == Len(vs)
           step == [p \in (1 .. n) \X Int |-> WrapInt(p[2] + vs[p[1]].weight)]
<1>1. step \in [(1 .. n) \X Int -> Int]
  <2> SUFFICES ASSUME NEW p \in (1 .. n) \X Int
               PROVE  WrapInt(p[2] + vs[p[1]].weight) \in Int
    OBVIOUS
  <2>1. p[1] \in 1 .. n /\ p[2] \in Int
    OBVIOUS
  <2>2. p[2] + vs[p[1]].weight \in Int
    BY <2>1
  <2> QED
    BY <2>2, WrapIntType
<1>2. PICK g \in [0 .. n -> Int] :
        g[0] = 0 /\ \A i \in 1 .. n : g[i] = step[<<i, g[i - 1]>>]
  <2>1. n \in Nat
    OBVIOUS
  <2> HIDE DEF step, n
  <2> QED
    BY <1>1, <2>1, RecursiveFunction
<1>3. ASSUME NEW i \in 1 .. n PROVE g[i] = WrapInt(g[i - 1] + vs[i].weight)
  <2>1. i - 1 \in 0 .. n
    OBVIOUS
  <2>2. g[i - 1] \in Int /\ g[i] = step[<<i, g[i - 1]>>]
    <3> HIDE DEF step, n
    <3> QED
      BY <1>2, <2>1
  <2> QED
    BY <2>2
<1>4. g = [i \in 0 .. n |-> IF i = 0 THEN 0 ELSE WrapInt(g[i - 1] + vs[i].weight)]
  <2>1. ASSUME NEW i \in 0 .. n
        PROVE  g[i] = IF i = 0 THEN 0 ELSE WrapInt(g[i - 1] + vs[i].weight)
    BY <1>2, <1>3
  <2> QED
    BY <1>2, <2>1
<1>5. Totals(vs) = [i \in 0 .. n |-> IF i = 0 THEN 0
                                    ELSE WrapInt(Totals(vs)[i - 1] + vs[i].weight)]
  BY <1>4 DEF Totals
<1>6. Totals(vs)[0] = 0
  BY <1>5
<1>7. ASSUME NEW i \in 1 .. n
      PROVE  Totals(vs)[i] = WrapInt(Totals(vs)[i - 1] + vs[i].weight)
  BY <1>5
<1>8. ASSUME NEW i \in 1 .. n, Totals(vs)[i - 1] \in Int PROVE Totals(vs)[i] \in Int
  <2>1. Totals(vs)[i - 1] + vs[i].weight \in Int
    BY <1>8
  <2> QED
    BY <1>7, <2>1, WrapIntType
<1> DEFINE T == {i \in 0 .. n : Totals(vs)[i] \in Int}
<1>9. 0 .. n \subseteq T
  <2>1. 0 \in T /\ \A i \in 1 .. n : i - 1 \in T => i \in T
    BY <1>6, <1>8
  <2> HIDE DEF T
  <2> QED
    BY <2>1, Induction
<1>10. Totals(vs) \in [0 .. n -> Int]
  BY <1>5, <1>9
<1> QED
  BY <1>6, <1>7, <1>10

\* cumulative after each variant is what its loop computes.
LEMMA CumulativeDef ==
  ASSUME NEW vs, Len(vs) \in Nat, \A i \in 1 .. Len(vs) : vs[i].weight \in Int
  PROVE  /\ Cumulative(vs)[0] = 0
         /\ \A i \in 1 .. Len(vs) :
              Cumulative(vs)[i] = ToUint(Cumulative(vs)[i - 1] + ToUint(vs[i].weight))
<1> DEFINE n == Len(vs)
           step == [p \in (1 .. n) \X Int |-> ToUint(p[2] + ToUint(vs[p[1]].weight))]
<1>1. step \in [(1 .. n) \X Int -> Int]
  <2> SUFFICES ASSUME NEW p \in (1 .. n) \X Int
               PROVE  ToUint(p[2] + ToUint(vs[p[1]].weight)) \in Int
    OBVIOUS
  <2>1. p[1] \in 1 .. n /\ p[2] \in Int
    OBVIOUS
  <2>2. vs[p[1]].weight \in Int
    BY <2>1
  <2>3. ToUint(vs[p[1]].weight) \in Nat
    BY <2>2, ToUintType
  <2>4. p[2] + ToUint(vs[p[1]].weight) \in Int
    BY <2>1, <2>3
  <2> QED
    BY <2>4, ToUintType
<1>2. PICK g \in [0 .. n -> Int] :
        g[0] = 0 /\ \A i \in 1 .. n : g[i] = step[<<i, g[i - 1]>>]
  <2>1. n \in Nat
    OBVIOUS
  <2> HIDE DEF step, n
  <2> QED
    BY <1>1, <2>1, RecursiveFunction
<1>3. ASSUME NEW i \in 1 .. n PROVE g[i] = ToUint(g[i - 1] + ToUint(vs[i].weight))
  <2>1. i - 1 \in 0 .. n
    OBVIOUS
  <2>2. g[i - 1] \in Int /\ g[i] = step[<<i, g[i - 1]>>]
    <3> HIDE DEF step, n
    <3> QED
      BY <1>2, <2>1
  <2> QED
    BY <2>2
<1>4. g = [i \in 0 .. n |-> IF i = 0 THEN 0 ELSE ToUint(g[i - 1] + ToUint(vs[i].weight))]
  <2>1. ASSUME NEW i \in 0 .. n
        PROVE  g[i] = IF i = 0 THEN 0 ELSE ToUint(g[i - 1] + ToUint(vs[i].weight))
    BY <1>2, <1>3
  <2> QED
    BY <1>2, <2>1
<1>5. Cumulative(vs) =
        [i \in 0 .. n |-> IF i = 0 THEN 0
                         ELSE ToUint(Cumulative(vs)[i - 1] + ToUint(vs[i].weight))]
  BY <1>4 DEF Cumulative
<1> QED
  BY <1>5

\* Variants that were validated and stored.
Stored(vs) ==
  /\ Len(vs) \in Nat /\ Len(vs) > 0 /\ DOMAIN vs = 1 .. Len(vs)
  /\ \A i \in 1 .. Len(vs) :
       vs[i].weight \in Nat /\ vs[i].weight <= ColumnMax
  /\ 2 * (Len(vs) * ColumnMax) < IntMod
  /\ \A i, j \in 1 .. Len(vs) : vs[i].name.text = vs[j].name.text => i = j
  /\ TotalWeight(vs) = FullWeight

LEMMA StoredVariants ==
  ASSUME NEW f \in Flags, ValidateFlag(f), Storable(f) PROVE Stored(f.variants)
<1> DEFINE vs == f.variants
           W == [name : Names, weight : Int]
<1>1. vs \in Seq(W)
  BY EvalAssumption DEF Definitions
<1>2. Len(vs) \in Nat /\ DOMAIN vs = 1 .. Len(vs)
  BY <1>1, LenProperties
<1>3. ValidVariants(vs)
  BY DEF ValidateFlag
<1>4. Len(vs) > 0
  <2>1. vs # <<>>
    BY <1>3 DEF ValidVariants
  <2> HIDE DEF vs, W
  <2> QED
    BY <1>1, <1>2, <2>1, EmptySeq
<1>5. ASSUME NEW i \in 1 .. Len(vs)
      PROVE  vs[i].weight \in Nat /\ vs[i].weight <= ColumnMax
  <2>1. vs[i] \in W
    <3> HIDE DEF vs, W
    <3> QED
      BY <1>1, ElementOfSeq
  <2>2. vs[i].weight >= 0 /\ vs[i].weight <= ColumnMax
    BY <1>2, <1>3 DEF ValidVariants, Storable
  <2> QED
    BY <2>1, <2>2
<1>6. 2 * (Len(vs) * ColumnMax) < IntMod
  BY EvalAssumption
<1>7. /\ TotalWeight(vs) = FullWeight
      /\ \A i, j \in 1 .. Len(vs) : vs[i].name.text = vs[j].name.text => i = j
  BY <1>2, <1>3 DEF ValidVariants
<1>8. Stored(vs)
  <2> HIDE DEF vs
  <2> QED
    BY <1>2, <1>4, <1>5, <1>6, <1>7 DEF Stored
<1> QED
  BY <1>8

\* No sum of stored weights wraps.
LEMMA TotalsExact ==
  ASSUME NEW vs, Stored(vs)
  PROVE  \A i \in 1 .. Len(vs) : /\ Totals(vs)[i] \in Nat /\ Totals(vs)[i - 1] \in Nat
                                 /\ Totals(vs)[i] = Totals(vs)[i - 1] + vs[i].weight
<1> DEFINE n == Len(vs)
           total == Totals(vs)
           T == {i \in 0 .. n : total[i] \in Nat /\ total[i] <= i * ColumnMax}
<1>1. n \in Nat /\ \A i \in 1 .. n : vs[i].weight \in Nat /\ vs[i].weight <= ColumnMax
  BY DEF Stored
<1>2. total[0] = 0 /\ \A i \in 1 .. n : total[i] = WrapInt(total[i - 1] + vs[i].weight)
  <2>1. Len(vs) \in Nat /\ \A i \in 1 .. Len(vs) : vs[i].weight \in Int
    BY <1>1
  <2> QED
    BY <2>1, TotalsDef
<1>3. ASSUME NEW i \in 1 .. n, i - 1 \in T
      PROVE  i \in T /\ total[i] = total[i - 1] + vs[i].weight
  <2> DEFINE sum == total[i - 1] + vs[i].weight
  <2>1. /\ total[i - 1] \in Nat /\ total[i - 1] <= (i - 1) * ColumnMax
        /\ vs[i].weight \in Nat /\ vs[i].weight <= ColumnMax
    BY <1>1, <1>3
  <2>2. (i - 1) * ColumnMax + ColumnMax = i * ColumnMax
    BY IntMods
  <2>3. i * ColumnMax <= n * ColumnMax
    BY <1>1, IntMods
  <2>4. i * ColumnMax \in Nat /\ (i - 1) * ColumnMax \in Nat /\ n * ColumnMax \in Nat
    BY <1>1, IntMods
  <2>5. sum \in Nat /\ sum <= i * ColumnMax
    <3> DEFINE last == total[i - 1]    weight == vs[i].weight
               before == (i - 1) * ColumnMax    after == i * ColumnMax
    <3>1. /\ last \in Nat /\ weight \in Nat /\ before \in Nat /\ after \in Nat
          /\ last <= before /\ weight <= ColumnMax /\ before + ColumnMax = after
      BY <2>1, <2>2, <2>4
    <3>2. sum = last + weight
      OBVIOUS
    <3> HIDE DEF sum, last, weight, before, after
    <3>3. sum \in Nat /\ sum <= after
      BY <3>1, <3>2, IntMods
    <3> QED
      BY <3>3 DEF after
  <2>6. 2 * sum < IntMod
    <3>1. 2 * (n * ColumnMax) < IntMod
      BY DEF Stored
    <3> DEFINE after == i * ColumnMax    most == n * ColumnMax
    <3>2. /\ sum \in Nat /\ after \in Nat /\ most \in Nat
          /\ sum <= after /\ after <= most /\ 2 * most < IntMod
      BY <2>3, <2>4, <2>5, <3>1
    <3> HIDE DEF sum, after, most
    <3> QED
      BY <3>2, IntMods
  <2>7. total[i] = sum
    BY <1>2, <2>5, <2>6, WrapIntKeeps
  <2> QED
    BY <2>5, <2>7
<1>4. 0 \in T
  BY <1>1, <1>2, IntMods
<1>5. 0 .. n \subseteq T
  <2>1. \A i \in 1 .. n : i - 1 \in T => i \in T
    BY <1>3
  <2> HIDE DEF T, n
  <2> QED
    BY <1>1, <1>4, <2>1, Induction
<1>6. ASSUME NEW i \in 1 .. n
      PROVE  /\ total[i] \in Nat /\ total[i - 1] \in Nat
             /\ total[i] = total[i - 1] + vs[i].weight
  <2>1. i \in T /\ i - 1 \in T
    BY <1>1, <1>5
  <2> QED
    BY <1>3, <2>1
<1> QED
  BY <1>6

\* The sums never decrease.
LEMMA TotalsGrow ==
  ASSUME NEW vs, Stored(vs), NEW i \in 0 .. Len(vs), NEW j \in i .. Len(vs)
  PROVE  Totals(vs)[i] \in Nat /\ Totals(vs)[j] \in Nat /\ Totals(vs)[i] <= Totals(vs)[j]
<1> DEFINE n == Len(vs)
           total == Totals(vs)
           T == {d \in 0 .. n - i : total[i] <= total[i + d]}
<1>1. n \in Nat /\ n > 0 /\ i \in Nat /\ n - i \in Nat
  BY DEF Stored
<1>2. \A k \in 0 .. n : total[k] \in Nat
  <2>1. \A k \in 1 .. n : total[k] \in Nat /\ total[k - 1] \in Nat
    BY TotalsExact
  <2>2. 1 \in 1 .. n /\ 1 - 1 = 0
    BY <1>1
  <2>3. total[0] \in Nat
    BY <2>1, <2>2
  <2> HIDE DEF total, n
  <2> QED
    BY <1>1, <2>1, <2>3
<1>3. ASSUME NEW d \in 1 .. n - i, d - 1 \in T PROVE d \in T
  <2>1. i + d \in 1 .. n /\ i + (d - 1) = (i + d) - 1 /\ (i + d) - 1 \in 0 .. n
    BY <1>1
  <2>2. total[i + d] = total[(i + d) - 1] + vs[i + d].weight /\ vs[i + d].weight \in Nat
    BY <2>1, TotalsExact DEF Stored
  <2>3. total[i] <= total[(i + d) - 1]
    BY <1>3, <2>1
  <2>4. total[i] \in Nat /\ total[(i + d) - 1] \in Nat
    BY <1>2, <2>1
  <2> HIDE DEF total
  <2> QED
    BY <2>2, <2>3, <2>4
<1>4. 0 \in T
  BY <1>1, <1>2
<1>5. 0 .. n - i \subseteq T
  <2>1. \A d \in 1 .. n - i : d - 1 \in T => d \in T
    BY <1>3
  <2> HIDE DEF T
  <2> QED
    BY <1>1, <1>4, <2>1, Induction
<1>6. j - i \in T /\ i + (j - i) = j
  <2>1. j - i \in 0 .. n - i /\ i + (j - i) = j
    BY <1>1
  <2> HIDE DEF T, n
  <2> QED
    BY <1>5, <2>1
<1>7. i \in 0 .. n /\ j \in 0 .. n
  BY <1>1
<1> HIDE DEF n, total
<1>8. total[i] <= total[i + (j - i)]
  BY <1>6
<1> QED
  BY <1>2, <1>6, <1>7, <1>8 DEF total, n

\* pickVariant adds up the same sums, in uint32s.
LEMMA CumulativeExact ==
  ASSUME NEW vs, Stored(vs)
  PROVE  \A i \in 0 .. Len(vs) : Cumulative(vs)[i] = Totals(vs)[i]
<1> DEFINE n == Len(vs)
           T == {i \in 0 .. n : Cumulative(vs)[i] = Totals(vs)[i]}
<1>1. /\ n \in Nat /\ n > 0 /\ Totals(vs)[n] = FullWeight
      /\ \A i \in 1 .. n : vs[i].weight \in Nat /\ vs[i].weight <= ColumnMax
  BY DEF Stored, TotalWeight
<1>2. \A i \in 1 .. n : vs[i].weight \in Int
  BY <1>1
<1>3. 0 \in T
  BY <1>1, <1>2, CumulativeDef, TotalsDef
<1>4. ASSUME NEW i \in 1 .. n, i - 1 \in T PROVE i \in T
  <2>1. Cumulative(vs)[i] = ToUint(Cumulative(vs)[i - 1] + ToUint(vs[i].weight))
    BY <1>1, <1>2, CumulativeDef
  <2>2. ToUint(vs[i].weight) = vs[i].weight
    BY <1>1, IntMods, ToUintKeeps
  <2>3. /\ Totals(vs)[i] \in Nat
        /\ Totals(vs)[i] = Totals(vs)[i - 1] + vs[i].weight
    BY TotalsExact
  <2>4. Totals(vs)[i] <= FullWeight
    <3>1. i \in 0 .. n /\ n \in i .. n
      BY <1>1
    <3> QED
      BY <1>1, <3>1, TotalsGrow
  <2>5. Totals(vs)[i] < UintMod
    BY <2>3, <2>4, IntMods
  <2>6. ToUint(Totals(vs)[i]) = Totals(vs)[i]
    BY <2>3, <2>5, ToUintKeeps
  <2>7. Cumulative(vs)[i - 1] = Totals(vs)[i - 1]
    BY <1>4
  <2> QED
    BY <2>1, <2>2, <2>3, <2>6, <2>7
<1>5. 0 .. n \subseteq T
  <2>1. \A i \in 1 .. n : i - 1 \in T => i \in T
    BY <1>4
  <2> HIDE DEF T, n
  <2> QED
    BY <1>1, <1>3, <2>1, Induction
<1> QED
  BY <1>5

-----------------------------------------------------------------------------
(* The rollout                                                             *)

\* The buckets that pickVariant gives to a variant are those between the sum
\* before it and the sum after it.
LEMMA Shares ==
  ASSUME NEW c, Stored(c.rollout), NEW k \in 1 .. Len(c.rollout), NEW b \in 0 .. FullWeight - 1
  PROVE  PickVariant(c, b) = c.rollout[k].name
           <=> b \in Totals(c.rollout)[k - 1] .. Totals(c.rollout)[k] - 1
<1> DEFINE vs == c.rollout
           n == Len(vs)
           total == Totals(vs)
           over == {i \in DOMAIN vs : b < Cumulative(vs)[i]}
           first == First(over)
<1>1. n \in Nat /\ n > 0 /\ DOMAIN vs = 1 .. n /\ total[n] = FullWeight
  BY DEF Stored, TotalWeight
<1>2. over = {i \in 1 .. n : b < total[i]}
  BY <1>1, CumulativeExact
<1>3. b \in Nat /\ b < FullWeight
  BY IntMods
<1>4. n \in over /\ over \subseteq Nat
  BY <1>1, <1>2, <1>3
<1>5. first \in over /\ \A i \in over : first <= i
  <2> HIDE DEF over
  <2> QED
    BY <1>4, FirstLeast
<1>6. PickVariant(c, b) = vs[first].name
  BY <1>4 DEF PickVariant
<1>7. first \in 1 .. n /\ b < total[first]
  BY <1>2, <1>5
<1>8. vs[first].name = vs[k].name <=> first = k
  <2>1. \A i, j \in 1 .. n : vs[i].name = vs[j].name => i = j
    BY DEF Stored
  <2> HIDE DEF first
  <2> QED
    BY <1>7, <2>1
<1>9. /\ total[k] \in Nat /\ total[k - 1] \in Nat
      /\ total[first] \in Nat /\ total[first - 1] \in Nat
  <2> HIDE DEF first
  <2> QED
    BY <1>7, TotalsExact
<1>10. total[0] = 0
  <2>1. \A i \in 1 .. n : vs[i].weight \in Int
    BY DEF Stored
  <2> QED
    BY <1>1, <2>1, TotalsDef
<1>11. ASSUME first = k PROVE total[k - 1] <= b
  <2>1. CASE k = 1
    BY <1>3, <1>10, <2>1
  <2>2. CASE k # 1
    <3>1. k - 1 \in 1 .. n /\ ~ (k <= k - 1)
      BY <2>2
    <3>2. k - 1 \notin over
      <4> HIDE DEF over
      <4> QED
        BY <1>5, <1>11, <3>1
    <3>3. ~ (b < total[k - 1])
      BY <1>2, <3>1, <3>2
    <3> QED
      BY <1>3, <1>9, <3>3
  <2> QED
    BY <2>1, <2>2
<1>12. ASSUME total[k - 1] <= b, b < total[k] PROVE first = k
  <2>1. k \in over
    BY <1>2, <1>12
  <2>2. first <= k
    BY <1>5, <2>1
  <2>3. ASSUME first < k PROVE FALSE
    <3>1. first \in 0 .. n /\ k - 1 \in first .. n
      <4> HIDE DEF first
      <4> QED
        BY <1>7, <2>3
    <3>2. total[first] <= total[k - 1]
      <4> HIDE DEF first
      <4> QED
        BY <3>1, TotalsGrow
    <3> HIDE DEF first, total
    <3> QED
      BY <1>3, <1>7, <1>9, <1>12, <3>2
  <2> HIDE DEF first
  <2> QED
    BY <1>7, <2>2, <2>3
<1> HIDE DEF first, total, vs
<1>13. b \in total[k - 1] .. total[k] - 1 <=> total[k - 1] <= b /\ b < total[k]
  BY <1>3, <1>9
<1>14. PickVariant(c, b) = vs[k].name <=> b \in total[k - 1] .. total[k] - 1
  BY <1>6, <1>7, <1>8, <1>11, <1>12, <1>13
<1> QED
  BY <1>14 DEF vs, total

\* What is served is the compiled form of a definition that was validated and
\* stored.
ServedInv ==
  /\ flag \in Flags
  /\ Served => /\ ValidateFlag(flag) /\ Storable(flag)
               /\ compiled = CompileFlag(flag)

LEMMA ServedIsCompiled == Spec => []ServedInv
<1>1. Init => ServedInv
  BY DEF Init, ServedInv, Served
<1>2. ServedInv /\ [Next]_vars => ServedInv'
  BY DEF ServedInv, Served, Next, Reject, Refuse, Serve, vars
<1> QED
  BY <1>1, <1>2, PTL DEF Spec

\* Every variant gets exactly its weight of the buckets: no sum of the weights
\* wraps, neither as ints nor as uint32s, so a variant's buckets are the numbers
\* between the sums before and after it.
THEOREM RolloutIsExact == Spec => []RolloutExact
<1>1. ASSUME ServedInv, Served, NEW k \in DOMAIN flag.variants
      PROVE  Cardinality({b \in 0 .. FullWeight - 1 :
                            PickVariant(compiled, b) = flag.variants[k].name})
               = flag.variants[k].weight
  <2> DEFINE vs == flag.variants
             total == Totals(vs)
             share == {b \in 0 .. FullWeight - 1 : PickVariant(compiled, b) = vs[k].name}
  <2>1. Stored(vs)
    BY <1>1, StoredVariants DEF ServedInv
  <2>2. compiled.rollout = vs
    BY <1>1 DEF ServedInv, CompileFlag
  <2>3. k \in 1 .. Len(vs) /\ Len(vs) \in Nat
    BY <1>1, <2>1 DEF Stored
  <2>4. \A b \in 0 .. FullWeight - 1 :
          PickVariant(compiled, b) = vs[k].name <=> b \in total[k - 1] .. total[k] - 1
    BY <2>1, <2>2, <2>3, Shares
  <2>5. /\ total[k - 1] \in Nat /\ total[k] \in Nat /\ vs[k].weight \in Nat
        /\ total[k] = total[k - 1] + vs[k].weight
    BY <2>1, <2>3, TotalsExact DEF Stored
  <2>6. total[k] <= FullWeight
    <3>1. k \in 0 .. Len(vs) /\ Len(vs) \in k .. Len(vs)
      BY <2>3
    <3>2. total[k] <= total[Len(vs)]
      BY <2>1, <3>1, TotalsGrow
    <3> QED
      BY <2>1, <3>2 DEF Stored, TotalWeight
  <2>7. share = total[k - 1] .. total[k] - 1
    <3>1. total[k - 1] .. total[k] - 1 \subseteq 0 .. FullWeight - 1
      <4> HIDE DEF total
      <4> QED
        BY <2>5, <2>6, IntMods
    <3> HIDE DEF total
    <3> QED
      BY <2>4, <3>1
  <2>8. Cardinality(total[k - 1] .. total[k] - 1) = vs[k].weight
    <3>1. /\ total[k - 1] \in Int /\ total[k] - 1 \in Int
          /\ total[k - 1] > total[k] - 1 <=> vs[k].weight = 0
          /\ (total[k] - 1) - total[k - 1] + 1 = vs[k].weight
      <4> HIDE DEF total, vs
      <4> QED
        BY <2>5
    <3> HIDE DEF total, vs
    <3> QED
      BY <3>1, FS_Interval
  <2> QED
    BY <2>7, <2>8
<1>2. ServedInv => RolloutExact
  BY <1>1 DEF RolloutExact
<1> QED
  BY <1>2, ServedIsCompiled, PTL

-----------------------------------------------------------------------------
(* The rules                                                               *)

\* A rearrangement of the rules by priority.
IsOrder(p, rs) ==
  /\ p \in [DOMAIN rs -> DOMAIN rs]
  /\ \A i, j \in DOMAIN rs :
       i < j => p[i] # p[j] /\ rs[p[i]].priority <= rs[p[j]].priority

\* Rules that were validated.
ValidRules(rs) ==
  /\ Len(rs) \in Nat /\ DOMAIN rs = 1 .. Len(rs)
  /\ \A i \in 1 .. Len(rs) : rs[i].priority \in Int
  /\ UniquePriorities(rs)

\* A function from an interval into itself that takes no value twice takes them
\* all.
LEMMA Rearranged ==
  ASSUME NEW n \in Nat, NEW p \in [1 .. n -> 1 .. n],
         \A i, j \in 1 .. n : p[i] = p[j] => i = j
  PROVE  \A k \in 1 .. n : \E i \in 1 .. n : p[i] = k
<1>1. p \in Injection(1 .. n, 1 .. n)
  BY DEF Injection, IsInjective
<1>2. IsFiniteSet(1 .. n)
  BY FS_Interval
<1>3. p \in Surjection(1 .. n, 1 .. n)
  BY <1>1, <1>2, FS_Injection
<1> QED
  BY <1>3 DEF Surjection

\* Rules with different priorities can be sorted: the place of each is given by
\* the number of those with less priority.
LEMMA OrderExists ==
  ASSUME NEW rs, ValidRules(rs) PROVE \E p : IsOrder(p, rs)
<1> DEFINE n == Len(rs)
           Before(i) == {j \in 1 .. n : rs[j].priority < rs[i].priority}
           place == [i \in 1 .. n |-> Cardinality(Before(i)) + 1]
<1>1. n \in Nat /\ DOMAIN rs = 1 .. n /\ \A i \in 1 .. n : rs[i].priority \in Int
  BY DEF ValidRules
<1>2. \A i, j \in 1 .. n : rs[i].priority = rs[j].priority => i = j
  BY <1>1 DEF ValidRules, UniquePriorities
<1>3. IsFiniteSet(1 .. n) /\ Cardinality(1 .. n) = n
  BY <1>1, FS_Interval
<1>4. ASSUME NEW i \in 1 .. n
      PROVE  /\ IsFiniteSet(Before(i)) /\ Cardinality(Before(i)) \in Nat
             /\ Cardinality(Before(i)) < n
  <2>1. Before(i) \subseteq (1 .. n) \ {i}
    BY <1>1
  <2>2. /\ IsFiniteSet((1 .. n) \ {i})
        /\ Cardinality((1 .. n) \ {i}) = n - 1
    BY <1>3, FS_RemoveElement
  <2> HIDE DEF Before
  <2>3. IsFiniteSet(Before(i)) /\ Cardinality(Before(i)) <= n - 1
    BY <2>1, <2>2, FS_Subset
  <2>4. Cardinality(Before(i)) \in Nat
    BY <2>3, FS_CardinalityType
  <2> QED
    BY <1>1, <2>3, <2>4
<1>5. ASSUME NEW i \in 1 .. n, NEW j \in 1 .. n, rs[i].priority < rs[j].priority
      PROVE  place[i] < place[j]
  <2>1. Before(i) \subseteq Before(j) /\ i \in Before(j) /\ i \notin Before(i)
    BY <1>1, <1>5
  <2>2. place[i] = Cardinality(Before(i)) + 1 /\ place[j] = Cardinality(Before(j)) + 1
    OBVIOUS
  <2> HIDE DEF Before, place
  <2>3. /\ IsFiniteSet(Before(j))
        /\ Cardinality(Before(i)) \in Nat /\ Cardinality(Before(j)) \in Nat
    BY <1>4
  <2>4. Cardinality(Before(i)) <= Cardinality(Before(j))
    BY <2>1, <2>3, FS_Subset
  <2>5. Cardinality(Before(i)) # Cardinality(Before(j))
    BY <2>1, <2>3, FS_Subset
  <2> QED
    BY <2>2, <2>3, <2>4, <2>5
<1>6. place \in [1 .. n -> 1 .. n]
  <2> SUFFICES ASSUME NEW i \in 1 .. n PROVE Cardinality(Before(i)) + 1 \in 1 .. n
    OBVIOUS
  <2> HIDE DEF Before
  <2> QED
    BY <1>1, <1>4
<1> HIDE DEF place, Before
<1>7. \A i, j \in 1 .. n : place[i] < place[j] => rs[i].priority < rs[j].priority
  <2> SUFFICES ASSUME NEW i \in 1 .. n, NEW j \in 1 .. n, place[i] < place[j],
                      ~ (rs[i].priority < rs[j].priority)
               PROVE  FALSE
    OBVIOUS
  <2>1. i # j /\ rs[j].priority # rs[i].priority
    BY <1>2, <1>6
  <2>2. rs[j].priority < rs[i].priority
    BY <1>1, <2>1
  <2>3. place[j] < place[i] /\ place[i] \in Nat /\ place[j] \in Nat
    BY <1>5, <1>6, <2>2
  <2> QED
    BY <2>3
<1>8. ASSUME NEW i \in 1 .. n, NEW j \in 1 .. n, place[i] = place[j] PROVE i = j
  <2>1. ~ (rs[i].priority < rs[j].priority) /\ ~ (rs[j].priority < rs[i].priority)
    <3>1. place[i] \in Nat /\ place[j] \in Nat
      BY <1>6
    <3> QED
      BY <1>5, <1>8, <3>1
  <2>2. rs[i].priority = rs[j].priority
    BY <1>1, <2>1
  <2> QED
    BY <1>2, <2>2
<1>9. \A k \in 1 .. n : \E i \in 1 .. n : place[i] = k
  BY <1>1, <1>6, <1>8, Rearranged
<1> DEFINE order == [k \in 1 .. n |-> CHOOSE i \in 1 .. n : place[i] = k]
<1>10. \A k \in 1 .. n : order[k] \in 1 .. n /\ place[order[k]] = k
  BY <1>9
<1>11. order \in [1 .. n -> 1 .. n]
  BY <1>10
<1> HIDE DEF order
<1>12. ASSUME NEW i \in 1 .. n, NEW j \in 1 .. n, i < j
       PROVE  order[i] # order[j] /\ rs[order[i]].priority <= rs[order[j]].priority
  <2>1. /\ order[i] \in 1 .. n /\ order[j] \in 1 .. n
        /\ place[order[i]] = i /\ place[order[j]] = j /\ i # j
    BY <1>10, <1>12
  <2>2. rs[order[i]].priority < rs[order[j]].priority
    BY <1>7, <1>12, <2>1
  <2> QED
    BY <1>1, <2>1, <2>2
<1>13. IsOrder(order, rs)
  BY <1>1, <1>11, <1>12 DEF IsOrder
<1> QED
  BY <1>13

\* CompileFlag's rules are those of the definition, each once, by priority.
LEMMA Sorted ==
  ASSUME NEW rs, ValidRules(rs)
  PROVE  \E p : /\ IsOrder(p, rs)
               /\ SortRules(rs) = [i \in DOMAIN rs |-> rs[p[i]]]
               /\ \A k \in DOMAIN rs : \E i \in DOMAIN rs : p[i] = k
<1> DEFINE order == CHOOSE p \in [DOMAIN rs -> DOMAIN rs] :
             \A i, j \in DOMAIN rs :
               i < j => p[i] # p[j] /\ rs[p[i]].priority <= rs[p[j]].priority
<1>1. IsOrder(order, rs)
  BY OrderExists DEF IsOrder
<1>2. SortRules(rs) = [i \in DOMAIN rs |-> rs[order[i]]]
  BY DEF SortRules
<1> HIDE DEF order
<1>3. Len(rs) \in Nat /\ DOMAIN rs = 1 .. Len(rs)
  BY DEF ValidRules
<1>4. \A i, j \in 1 .. Len(rs) : order[i] = order[j] => i = j
  <2> SUFFICES ASSUME NEW i \in 1 .. Len(rs), NEW j \in 1 .. Len(rs),
                      order[i] = order[j], i # j
               PROVE  FALSE
    OBVIOUS
  <2>1. i < j \/ j < i
    BY <1>3
  <2> QED
    BY <1>1, <1>3, <2>1 DEF IsOrder
<1>5. \A k \in 1 .. Len(rs) : \E i \in 1 .. Len(rs) : order[i] = k
  <2>1. order \in [1 .. Len(rs) -> 1 .. Len(rs)]
    BY <1>1, <1>3 DEF IsOrder
  <2> QED
    BY <1>3, <1>4, <2>1, Rearranged
<1> QED
  BY <1>1, <1>2, <1>3, <1>5

LEMMA ValidatedRules ==
  ASSUME NEW f \in Flags, ValidateFlag(f) PROVE ValidRules(f.rules)
<1> DEFINE rs == f.rules
           R == [attribute : STRING, operator : STRING, values : Seq(STRING),
                 variant : Names, priority : Int]
<1>1. rs \in Seq(R)
  BY EvalAssumption DEF Definitions
<1>2. Len(rs) \in Nat /\ DOMAIN rs = 1 .. Len(rs)
  BY <1>1, LenProperties
<1>3. ASSUME NEW i \in 1 .. Len(rs) PROVE rs[i].priority \in Int
  <2>1. rs[i] \in R
    <3> HIDE DEF rs, R
    <3> QED
      BY <1>1, ElementOfSeq
  <2> QED
    BY <2>1
<1>4. UniquePriorities(rs)
  BY DEF ValidateFlag
<1>5. ValidRules(rs)
  <2> HIDE DEF rs
  <2> QED
    BY <1>2, <1>3, <1>4 DEF ValidRules
<1> QED
  BY <1>5

\* Of the sorted rules the first that matches is, of those that match, the one
\* with the least priority.
LEMMA FirstIsLeast ==
  ASSUME NEW rs, ValidRules(rs), NEW ctx, NEW i \in DOMAIN rs, Match(rs[i], ctx),
         \A j \in DOMAIN rs : Match(rs[j], ctx) => rs[i].priority <= rs[j].priority
  PROVE  LET sorted == SortRules(rs)
             matching == {k \in DOMAIN sorted : Match(sorted[k], ctx)}
         IN  matching # {} /\ sorted[First(matching)] = rs[i]
<1> DEFINE sorted == SortRules(rs)
           matching == {k \in DOMAIN sorted : Match(sorted[k], ctx)}
           first == First(matching)
<1>1. PICK p : /\ IsOrder(p, rs)
               /\ sorted = [k \in DOMAIN rs |-> rs[p[k]]]
               /\ \A k \in DOMAIN rs : \E j \in DOMAIN rs : p[j] = k
  BY Sorted
<1>2. Len(rs) \in Nat /\ DOMAIN rs = 1 .. Len(rs) /\ DOMAIN sorted = DOMAIN rs
  BY <1>1 DEF ValidRules
<1>3. PICK k \in DOMAIN rs : p[k] = i
  BY <1>1
<1>4. k \in matching
  BY <1>1, <1>2, <1>3
<1>5. matching \subseteq Nat
  BY <1>2
<1>6. first \in matching /\ first <= k
  <2> HIDE DEF matching
  <2> QED
    BY <1>4, <1>5, FirstLeast
<1>7. /\ first \in DOMAIN rs /\ sorted[first] = rs[p[first]] /\ Match(rs[p[first]], ctx)
      /\ p[first] \in DOMAIN rs
  <2>1. first \in DOMAIN rs /\ Match(sorted[first], ctx)
    BY <1>2, <1>6
  <2> HIDE DEF first, matching, sorted
  <2> QED
    BY <1>1, <2>1 DEF IsOrder
<1> HIDE DEF first
<1>8. rs[i].priority <= rs[p[first]].priority
  BY <1>7
<1>9. rs[p[first]].priority <= rs[i].priority
  <2>1. CASE first = k
    BY <1>2, <1>3, <2>1 DEF ValidRules
  <2>2. CASE first # k
    <3>1. first < k
      BY <1>2, <1>6, <1>7, <2>2
    <3> QED
      BY <1>1, <1>3, <1>7, <3>1 DEF IsOrder
  <2> QED
    BY <2>1, <2>2
<1>10. rs[p[first]].priority = rs[i].priority
  BY <1>2, <1>7, <1>8, <1>9 DEF ValidRules
<1>11. p[first] = i
  BY <1>7, <1>10 DEF ValidRules, UniquePriorities
<1> HIDE DEF matching, sorted
<1>12. matching # {} /\ sorted[first] = rs[i]
  BY <1>4, <1>7, <1>11
<1> QED
  BY <1>12 DEF matching, sorted, first

\* Whatever the order in which the rules were written, the matching rule with the
\* least priority decides: the sort keeps every rule, and no two have the same
\* priority.
THEOREM LeastPriorityDecides == Spec => []LeastPriorityWins
<1>1. ASSUME ServedInv, Served, flag.enabled, NEW ctx \in Contexts,
             NEW i \in DOMAIN flag.rules, Match(flag.rules[i], ctx),
             \A j \in DOMAIN flag.rules :
               Match(flag.rules[j], ctx) => flag.rules[i].priority <= flag.rules[j].priority,
             NEW h \in Hashes
      PROVE  Answer(ctx, h) = flag.rules[i].variant
  <2>1. compiled.rules = SortRules(flag.rules) /\ compiled.enabled = flag.enabled
    <3>1. compiled = CompileFlag(flag)
      BY <1>1 DEF ServedInv
    <3> QED
      BY <3>1, Zenon DEF CompileFlag
  <2>2. ValidRules(flag.rules)
    BY <1>1, ValidatedRules DEF ServedInv
  <2> DEFINE matching == {k \in DOMAIN compiled.rules : Match(compiled.rules[k], ctx)}
  <2>3. matching # {} /\ compiled.rules[First(matching)] = flag.rules[i]
    BY <1>1, <2>1, <2>2, FirstIsLeast
  <2> QED
    BY <1>1, <2>1, <2>3 DEF Answer, Evaluate
<1>2. ServedInv => LeastPriorityWins
  BY <1>1 DEF LeastPriorityWins
<1> QED
  BY <1>2, ServedIsCompiled, PTL

-----------------------------------------------------------------------------
(* The answers                                                             *)

\* A trimmed name has no white space to trim.
LEMMA TrimTwice == \A n : Trim(Trim(n)) = Trim(n)
BY DEF Trim, Name

\* An evaluation answers a variant of the flag, whatever the context and the
\* hash: the default and the rules' variants were looked up when the definition
\* was validated, and the rollout has no other names.
THEOREM AnswersAreKnown == Spec => []AnswerKnown
<1>1. ASSUME ServedInv, Served, NEW ctx \in Contexts, NEW h \in Hashes
      PROVE  Trim(Answer(ctx, h)) \in VariantNames(flag.variants)
  <2> DEFINE names == VariantNames(flag.variants)
             matching == {k \in DOMAIN compiled.rules : Match(compiled.rules[k], ctx)}
  <2>1. /\ compiled.rules = SortRules(flag.rules) /\ compiled.default = flag.default
        /\ compiled.rollout = flag.variants
    BY <1>1 DEF ServedInv, CompileFlag
  <2>2. /\ flag.default \in names /\ \A i \in DOMAIN flag.rules : flag.rules[i].variant \in names
    BY <1>1 DEF ServedInv, ValidateFlag, ValidRule
  <2>3. \A n \in names : Trim(n) \in names
    BY TrimTwice DEF VariantNames
  <2>4. ASSUME matching # {}
        PROVE  compiled.rules[First(matching)].variant \in names
    <3>1. ValidRules(flag.rules)
      BY <1>1, ValidatedRules DEF ServedInv
    <3>2. PICK p : /\ IsOrder(p, flag.rules)
                   /\ compiled.rules = [i \in DOMAIN flag.rules |-> flag.rules[p[i]]]
      <4> DEFINE rs == flag.rules
      <4>1. ValidRules(rs)
        BY <3>1
      <4>2. PICK p : IsOrder(p, rs) /\ SortRules(rs) = [i \in DOMAIN rs |-> rs[p[i]]]
        <5> HIDE DEF rs
        <5> QED
          BY <4>1, Sorted
      <4> QED
        BY <2>1, <4>2
    <3>3. DOMAIN compiled.rules = DOMAIN flag.rules /\ matching \subseteq Nat
      BY <3>1, <3>2 DEF ValidRules
    <3>4. First(matching) \in matching
      <4> HIDE DEF matching
      <4> QED
        BY <2>4, <3>3, FirstLeast
    <3>5. First(matching) \in DOMAIN flag.rules
      BY <3>3, <3>4
    <3> HIDE DEF matching, names
    <3> QED
      BY <2>2, <3>2, <3>5 DEF IsOrder
  <2>5. ASSUME NEW b PROVE Trim(PickVariant(compiled, b)) \in names
    <3> DEFINE vs == flag.variants
               over == {i \in DOMAIN vs : b < Cumulative(vs)[i]}
    <3>1. PickVariant(compiled, b) = IF over = {} THEN flag.default ELSE vs[First(over)].name
      BY <2>1 DEF PickVariant
    <3>2. ASSUME over # {} PROVE First(over) \in DOMAIN vs
      <4>1. Stored(vs)
        BY <1>1, StoredVariants DEF ServedInv
      <4>2. over \subseteq Nat
        BY <4>1 DEF Stored
      <4>3. First(over) \in over
        <5> HIDE DEF over
        <5> QED
          BY <3>2, <4>2, FirstLeast
      <4> QED
        BY <4>3
    <3>3. \A i \in DOMAIN vs : Trim(vs[i].name) \in names
      BY DEF VariantNames
    <3> HIDE DEF over, vs, names
    <3> QED
      BY <2>2, <2>3, <3>1, <3>2, <3>3
  <2> HIDE DEF names
  <2>6. \/ Answer(ctx, h) = flag.default
        \/ matching # {} /\ Answer(ctx, h) = compiled.rules[First(matching)].variant
        \/ \E b : Answer(ctx, h) = PickVariant(compiled, b)
    BY <2>1 DEF Answer, Evaluate
  <2>7. Trim(Answer(ctx, h)) \in names
    <3> HIDE DEF matching
    <3> QED
      BY <2>2, <2>3, <2>4, <2>5, <2>6
  <2> QED
    BY <2>7 DEF names
<1>2. ServedInv => AnswerKnown
  BY <1>1 DEF AnswerKnown
<1> QED
  BY <1>2, ServedIsCompiled, PTL
=============================================================================
