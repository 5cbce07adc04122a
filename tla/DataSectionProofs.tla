------------------------- MODULE DataSectionProofs -------------------------
(***************************************************************************)
(* What holds of every data section: how values end, and that the decoders *)
(* skip to where they end.  Before that, induction and recursion on the    *)
(* natural numbers, stated about sets, so that this and other proofs can   *)
(* use them for the recursive functions of this project.                   *)
(***************************************************************************)
EXTENDS DataSection, WellFoundedInduction, TLAPS

-----------------------------------------------------------------------------
(* Numbers.                                                                 *)

\* Natural numbers are well ordered.
LEMMA LeastNumber ==
    ASSUME NEW T \in SUBSET Nat, T # {}
    PROVE  \E x \in T : \A y \in T : x <= y
<1> DEFINE R == OpToRel(<, Nat)
<1>1. IsWellFoundedOn(R, Nat)
  BY NatLessThanWellFounded
<1> HIDE DEF R
<1>2. PICK x \in T : \A y \in T : ~(<<y, x>> \in R)
  BY <1>1, WFMin
<1>3. \A y \in Nat : <<y, x>> \in R <=> y < x
  BY DEF R, OpToRel
<1>4. \A y \in T : ~(y < x)
  BY <1>2, <1>3
<1> QED
  BY <1>4

\* Induction, for the set of numbers that have a property.
LEMMA Induction ==
    ASSUME NEW T, 0 \in T, \A n \in Nat : n \in T => n + 1 \in T
    PROVE  Nat \subseteq T
<1> SUFFICES ASSUME Nat \ T # {} PROVE FALSE
  OBVIOUS
<1>1. PICK x \in Nat \ T : \A y \in Nat \ T : x <= y
  BY LeastNumber
<1>2. x # 0 /\ x - 1 \in Nat
  BY <1>1
<1>3. x - 1 \in T
  BY <1>1, <1>2
<1> QED
  BY <1>1, <1>2, <1>3

\* Induction along an interval, upwards and downwards.
LEMMA IntervalInduction ==
    ASSUME NEW a \in Int, NEW b \in Int, NEW T
    PROVE  /\ a \in T /\ (\A i \in a .. b - 1 : i \in T => i + 1 \in T) => a .. b \subseteq T
           /\ b \in T /\ (\A i \in a .. b - 1 : i + 1 \in T => i \in T) => a .. b \subseteq T
<1>1. ASSUME a \in T, \A i \in a .. b - 1 : i \in T => i + 1 \in T
      PROVE  a .. b \subseteq T
  <2> DEFINE U == {n \in Nat : a + n <= b => a + n \in T}
  <2>1. 0 \in U
    BY <1>1
  <2>2. ASSUME NEW n \in Nat, n \in U PROVE n + 1 \in U
    <3> SUFFICES ASSUME a + (n + 1) <= b PROVE a + (n + 1) \in T
      OBVIOUS
    <3>1. a + n \in a .. b - 1 /\ a + n <= b /\ (a + n) + 1 = a + (n + 1)
      OBVIOUS
    <3> QED
      BY <1>1, <2>2, <3>1
  <2>3. Nat \subseteq U
    <3> HIDE DEF U
    <3> QED
      BY <2>1, <2>2, Induction
  <2>4. ASSUME NEW i \in a .. b PROVE i \in T
    <3>1. i - a \in Nat /\ a + (i - a) = i /\ i <= b
      OBVIOUS
    <3> QED
      BY <2>3, <3>1
  <2> QED
    BY <2>4
<1>2. ASSUME b \in T, \A i \in a .. b - 1 : i + 1 \in T => i \in T
      PROVE  a .. b \subseteq T
  <2> DEFINE U == {n \in Nat : a <= b - n => b - n \in T}
  <2>1. 0 \in U
    BY <1>2
  <2>2. ASSUME NEW n \in Nat, n \in U PROVE n + 1 \in U
    <3> SUFFICES ASSUME a <= b - (n + 1) PROVE b - (n + 1) \in T
      OBVIOUS
    <3>1. b - (n + 1) \in a .. b - 1 /\ a <= b - n /\ (b - (n + 1)) + 1 = b - n
      OBVIOUS
    <3> QED
      BY <1>2, <2>2, <3>1
  <2>3. Nat \subseteq U
    <3> HIDE DEF U
    <3> QED
      BY <2>1, <2>2, Induction
  <2>4. ASSUME NEW i \in a .. b PROVE i \in T
    <3>1. b - i \in Nat /\ b - (b - i) = i /\ a <= i
      OBVIOUS
    <3> QED
      BY <2>3, <3>1
  <2> QED
    BY <2>4
<1> QED
  BY <1>1, <1>2

\* g computes the first n values from start by step.
Computes(g, n, S, start, step) ==
    /\ g \in [0 .. n -> S] /\ g[0] = start
    /\ \A k \in 1 .. n : g[k] = step[k][g[k - 1]]

\* f begins with start and goes on with step[k] at each k.
Follows(f, S, start, step) ==
    /\ f \in [Nat -> S] /\ f[0] = start
    /\ \A n \in Nat : f[n + 1] = step[n + 1][f[n]]

\* There is such a function.
LEMMA RecursiveFunction ==
    ASSUME NEW S, NEW start, start \in S, NEW step, step \in [Nat -> [S -> S]]
    PROVE  \E f : Follows(f, S, start, step)
<1> DEFINE C(g, n) == Computes(g, n, S, start, step)
<1>1. \A n \in Nat : \E g : C(g, n)
  <2> DEFINE T == {n \in Nat : \E g : C(g, n)}
  <2>1. 0 \in T
    <3>1. C([k \in 0 .. 0 |-> start], 0)
      BY DEF Computes
    <3> QED
      BY <3>1
  <2>2. ASSUME NEW n \in Nat, n \in T PROVE n + 1 \in T
    <3>1. PICK g : C(g, n)
      BY <2>2
    <3> DEFINE h == [k \in 0 .. n + 1 |-> IF k = n + 1 THEN step[n + 1][g[n]] ELSE g[k]]
    <3>2. g[n] \in S /\ step[n + 1] \in [S -> S]
      BY <3>1 DEF Computes
    <3>3. h \in [0 .. n + 1 -> S] /\ h[0] = start
      BY <3>1, <3>2 DEF Computes
    <3>4. ASSUME NEW k \in 1 .. n + 1 PROVE h[k] = step[k][h[k - 1]]
      <4>1. CASE k = n + 1
        BY <4>1
      <4>2. CASE k # n + 1
        BY <3>1, <4>2 DEF Computes
      <4> QED
        BY <4>1, <4>2
    <3>5. C(h, n + 1)
      BY <3>3, <3>4 DEF Computes
    <3> QED
      BY <3>5
  <2> HIDE DEF T
  <2>3. Nat \subseteq T
    BY <2>1, <2>2, Induction
  <2> QED
    BY <2>3 DEF T
<1>2. \A n \in Nat : \A g, h : C(g, n) /\ C(h, n + 1) => g[n] = h[n]
  <2> DEFINE T == {n \in Nat : \A k \in Nat : \A j \in Nat : \A g, h :
                      C(g, k) /\ C(h, j) /\ n <= k /\ n <= j => g[n] = h[n]}
  <2>1. 0 \in T
    BY DEF Computes
  <2>2. ASSUME NEW n \in Nat, n \in T PROVE n + 1 \in T
    <3> SUFFICES ASSUME NEW k \in Nat, NEW j \in Nat, NEW g, NEW h,
                        C(g, k), C(h, j), n + 1 <= k, n + 1 <= j
                 PROVE  g[n + 1] = h[n + 1]
      OBVIOUS
    <3>1. g[n] = h[n]
      BY <2>2
    <3>2. g[n + 1] = step[n + 1][g[n]] /\ h[n + 1] = step[n + 1][h[n]]
      BY DEF Computes
    <3> QED
      BY <3>1, <3>2
  <2> HIDE DEF T
  <2>3. Nat \subseteq T
    BY <2>1, <2>2, Induction
  <2> QED
    BY <2>3 DEF T
<1> DEFINE best(n) == CHOOSE g : C(g, n)
           f == [n \in Nat |-> best(n)[n]]
<1> HIDE DEF C
<1>3. \A n \in Nat : C(best(n), n)
  BY <1>1
<1> HIDE DEF best
<1>4. \A n \in Nat : f[n] \in S
  BY <1>3 DEF C, Computes
<1>5. f[0] = start
  BY <1>3 DEF C, Computes
<1>6. ASSUME NEW n \in Nat PROVE f[n + 1] = step[n + 1][f[n]]
  <2>1. best(n + 1)[n + 1] = step[n + 1][best(n + 1)[n]]
    BY <1>3 DEF C, Computes
  <2>2. best(n + 1)[n] = best(n)[n]
    BY <1>2, <1>3
  <2> QED
    BY <2>1, <2>2
<1>7. f \in [Nat -> S]
  BY <1>4
<1> HIDE DEF f
<1>8. Follows(f, S, start, step)
  BY <1>5, <1>6, <1>7 DEF Follows
<1> QED
  BY <1>8

\* The turns of a loop along an interval, and what a loop has at each point of it.
Turns(a, b, S) == [a + 1 .. b -> [S -> S]]
RunsAlong(g, a, b, S, start, turn) ==
    /\ g \in [a .. b -> S]
    /\ a <= b => g[a] = start
    /\ \A i \in a + 1 .. b : g[i] = turn[i][g[i - 1]]

\* There is such a loop.
LEMMA LoopFunction ==
    ASSUME NEW a, a \in Int, NEW b, b \in Int, NEW S, NEW start, start \in S,
           NEW turn, turn \in Turns(a, b, S)
    PROVE  \E g : RunsAlong(g, a, b, S, start, turn)
<1> USE DEF Turns
<1> DEFINE step == [k \in Nat |-> IF a + k \in a + 1 .. b THEN turn[a + k] ELSE [x \in S |-> x]]
<1>1. step \in [Nat -> [S -> S]]
  OBVIOUS
<1>2. ASSUME NEW i \in a + 1 .. b
      PROVE  i - a \in Nat /\ i - 1 - a \in Nat /\ (i - 1 - a) + 1 = i - a /\ step[i - a] = turn[i]
  <2>1. i - a \in Nat /\ i - 1 - a \in Nat /\ (i - 1 - a) + 1 = i - a /\ a + (i - a) = i
    OBVIOUS
  <2> QED
    BY <2>1
<1> HIDE DEF step
<1>3. PICK f : Follows(f, S, start, step)
  BY <1>1, RecursiveFunction
<1>4. /\ f \in [Nat -> S] /\ f[0] = start
      /\ \A n \in Nat : f[n + 1] = step[n + 1][f[n]]
  BY <1>3 DEF Follows
<1> DEFINE g == [i \in a .. b |-> f[i - a]]
<1>5. g \in [a .. b -> S]
  BY <1>4
<1>6. a <= b => g[a] = start
  BY <1>4
<1>7. ASSUME NEW i \in a + 1 .. b PROVE g[i] = turn[i][g[i - 1]]
  <2>1. i \in a .. b /\ i - 1 \in a .. b
    OBVIOUS
  <2>2. f[i - a] = step[i - a][f[i - 1 - a]]
    BY <1>2, <1>4
  <2> QED
    BY <1>2, <2>1, <2>2
<1> HIDE DEF g
<1>8. RunsAlong(g, a, b, S, start, turn)
  BY <1>5, <1>6, <1>7 DEF RunsAlong
<1> QED
  BY <1>8

-----------------------------------------------------------------------------
(* Sections.                                                                *)

\* A section's records, and the values that follow them.
LEMMA RecordsTyped ==
    ASSUME NEW s \in Seq(Record)
    PROVE  /\ Len(s) \in Nat
           /\ \A i \in 1 .. Len(s) : s[i] \in Record /\ Values(s[i]) \in Nat
<1>1. Len(s) \in Nat /\ \A i \in 1 .. Len(s) : s[i] \in Record
  OBVIOUS
<1>2. \A r \in Record : Values(r) \in Nat
  BY DEF Record, Values
<1> QED
  BY <1>1, <1>2

\* Missing counts from one record to the next.
LEMMA MissingSteps ==
    ASSUME NEW s \in Seq(Record), NEW o \in 1 .. Len(s) + 1, NEW n \in Nat
    PROVE  /\ Missing(s, o, n, o) = n
           /\ \A e \in o .. Len(s) + 1 : Missing(s, o, n, e) \in Int
           /\ \A e \in o .. Len(s) :
                  Missing(s, o, n, e + 1) = Missing(s, o, n, e) - 1 + Values(s[e])
<1> DEFINE L == Len(s)
           V == [i \in 1 .. L |-> Values(s[i])]
<1>1. L \in Nat /\ V \in [1 .. L -> Nat]
  BY RecordsTyped
<1>2. \A i \in 1 .. L : Values(s[i]) = V[i]
  OBVIOUS
<1> HIDE DEF L, V
<1> DEFINE step == [k \in Nat |-> [x \in Int |-> IF k \in Nat \ {0} /\ o + k - 1 <= L
                                                THEN x - 1 + V[o + k - 1] ELSE x]]
<1>3. o \in 1 .. L + 1
  BY DEF L
<1>4. step \in [Nat -> [Int -> Int]]
  <2> SUFFICES ASSUME NEW k \in Nat \ {0}, NEW x \in Int, o + k - 1 <= L
               PROVE  x - 1 + V[o + k - 1] \in Int
    OBVIOUS
  <2>1. o + k - 1 \in 1 .. L
    BY <1>1, <1>3
  <2>2. V[o + k - 1] \in Nat
    BY <1>1, <2>1
  <2> QED
    BY <2>2
<1>5. \A k \in Nat : \A x \in Int : o + k <= L => step[k + 1][x] = x - 1 + V[o + k]
  <2> TAKE k \in Nat
  <2> TAKE x \in Int
  <2> HAVE o + k <= L
  <2>1. k + 1 \in Nat \ {0} /\ o + (k + 1) - 1 = o + k
    BY <1>3
  <2> QED
    BY <2>1
<1> HIDE DEF step
<1>6. PICK f : Follows(f, Int, n, step)
  <2>1. n \in Int
    OBVIOUS
  <2> QED
    BY <1>4, <2>1, RecursiveFunction
<1>7. /\ f \in [Nat -> Int] /\ f[0] = n
      /\ \A k \in Nat : o + k <= L => f[k + 1] = f[k] - 1 + V[o + k]
  BY <1>5, <1>6 DEF Follows
<1>8. ASSUME NEW e \in o .. L + 1
      PROVE  Missing(s, o, n, e) = f[e - o]
  <2> DEFINE eq(g) == g = [i \in o .. e |-> IF i = o THEN n ELSE g[i - 1] - 1 + Values(s[i - 1])]
             open == CHOOSE g : eq(g)
             w == [i \in o .. e |-> f[i - o]]
  <2>1. Missing(s, o, n, e) = open[e]
    BY DEF Missing
  <2>2. eq(w)
    <3>1. ASSUME NEW i \in o .. e, i # o
          PROVE  f[i - o] = w[i - 1] - 1 + Values(s[i - 1])
      <4>1. /\ i - 1 \in 1 .. L /\ i - 1 \in o .. e /\ i - 1 - o \in Nat
            /\ i - 1 - o + 1 = i - o /\ o + (i - 1 - o) = i - 1
        BY <1>1, <1>3, <1>8, <3>1
      <4>2. f[i - 1 - o + 1] = f[i - 1 - o] - 1 + V[o + (i - 1 - o)]
        BY <1>1, <1>7, <4>1
      <4> QED
        BY <1>2, <4>1, <4>2
    <3>2. f[o - o] = n
      BY <1>3, <1>7
    <3> QED
      BY <3>1, <3>2
  <2>3. eq(open)
    <3> HIDE DEF eq
    <3> QED
      BY <2>2
  <2> HIDE DEF open
  <2> DEFINE T == {k \in Nat : o + k <= e => open[o + k] = f[k]}
  <2>4. 0 \in T
    BY <1>3, <1>7, <1>8, <2>3
  <2>5. ASSUME NEW k \in Nat, k \in T PROVE k + 1 \in T
    <3> SUFFICES ASSUME o + (k + 1) <= e PROVE open[o + (k + 1)] = f[k + 1]
      OBVIOUS
    <3>1. /\ o + (k + 1) \in o .. e /\ o + (k + 1) # o /\ o + (k + 1) - 1 = o + k
          /\ o + k \in 1 .. L /\ o + k <= e
      BY <1>1, <1>3, <1>8
    <3>2. open[o + (k + 1)] = open[o + k] - 1 + Values(s[o + k])
      BY <2>3, <3>1
    <3>3. f[k + 1] = f[k] - 1 + V[o + k]
      BY <1>1, <1>7, <3>1
    <3> QED
      BY <1>2, <2>5, <3>1, <3>2, <3>3
  <2>6. Nat \subseteq T
    <3> HIDE DEF T
    <3> QED
      BY <2>4, <2>5, Induction
  <2>7. e - o \in Nat /\ o + (e - o) = e /\ e <= e
    BY <1>1, <1>3, <1>8
  <2> QED
    BY <2>1, <2>6, <2>7
<1>9. Missing(s, o, n, o) = n
  BY <1>1, <1>3, <1>7, <1>8
<1>10. \A e \in o .. L + 1 : Missing(s, o, n, e) \in Int
  <2> TAKE e \in o .. L + 1
  <2>1. e - o \in Nat
    BY <1>1, <1>3
  <2> QED
    BY <1>7, <1>8, <2>1
<1>11. ASSUME NEW e \in o .. L
       PROVE  Missing(s, o, n, e + 1) = Missing(s, o, n, e) - 1 + Values(s[e])
  <2>1. /\ e \in o .. L + 1 /\ e + 1 \in o .. L + 1 /\ e - o \in Nat /\ e \in 1 .. L
        /\ e + 1 - o = (e - o) + 1 /\ o + (e - o) = e
    BY <1>1, <1>3
  <2> QED
    BY <1>1, <1>2, <1>7, <1>8, <2>1
<1> QED
  BY <1>9, <1>10, <1>11 DEF L

\* More values asked for are more values missing.
LEMMA MissingAdds ==
    ASSUME NEW s \in Seq(Record), NEW o \in 1 .. Len(s) + 1, NEW a \in Nat, NEW b \in Nat,
           NEW e \in o .. Len(s) + 1
    PROVE  Missing(s, o, a + b, e) = Missing(s, o, a, e) + b
<1> DEFINE T == {i \in o .. Len(s) + 1 : Missing(s, o, a + b, i) = Missing(s, o, a, i) + b}
<1>1. Len(s) \in Nat /\ a + b \in Nat /\ \A i \in 1 .. Len(s) : Values(s[i]) \in Nat
  BY RecordsTyped
<1>2. o \in T
  BY <1>1, MissingSteps
<1>3. ASSUME NEW i \in o .. (Len(s) + 1) - 1, i \in T PROVE i + 1 \in T
  <2>1. i \in o .. Len(s) /\ i \in 1 .. Len(s) /\ i + 1 \in o .. Len(s) + 1 /\ i \in o .. Len(s) + 1
    BY <1>1
  <2>2. Missing(s, o, a, i) \in Int /\ Missing(s, o, a + b, i) = Missing(s, o, a, i) + b
    BY <1>3, <2>1, MissingSteps
  <2>3. /\ Missing(s, o, a + b, i + 1) = Missing(s, o, a + b, i) - 1 + Values(s[i])
        /\ Missing(s, o, a, i + 1) = Missing(s, o, a, i) - 1 + Values(s[i])
    <3>1. ASSUME NEW n \in Nat
          PROVE  Missing(s, o, n, i + 1) = Missing(s, o, n, i) - 1 + Values(s[i])
      BY <2>1, MissingSteps
    <3> QED
      BY <1>1, <3>1
  <2>4. Values(s[i]) \in Nat
    BY <1>1, <2>1
  <2>5. \A x, y \in Int : (x + b) - 1 + y = (x - 1 + y) + b
    OBVIOUS
  <2>6. Missing(s, o, a + b, i + 1) = Missing(s, o, a, i + 1) + b
    BY <2>2, <2>3, <2>4, <2>5
  <2> QED
    BY <2>1, <2>6
<1>4. o .. Len(s) + 1 \subseteq T
  <2> HIDE DEF T
  <2> QED
    BY <1>1, <1>2, <1>3, IntervalInduction
<1> QED
  BY <1>4

\* The count may be taken up at any position.
LEMMA MissingFrom ==
    ASSUME NEW s \in Seq(Record), NEW o \in 1 .. Len(s) + 1, NEW n \in Nat,
           NEW p \in o .. Len(s) + 1, NEW k \in Nat, Missing(s, o, n, p) = k,
           NEW e \in p .. Len(s) + 1
    PROVE  Missing(s, o, n, e) = Missing(s, p, k, e)
<1> DEFINE T == {i \in p .. Len(s) + 1 : Missing(s, o, n, i) = Missing(s, p, k, i)}
<1>1. Len(s) \in Nat /\ p \in 1 .. Len(s) + 1 /\ \A i \in 1 .. Len(s) : Values(s[i]) \in Nat
  BY RecordsTyped
<1>2. p \in T
  BY <1>1, MissingSteps
<1>3. ASSUME NEW i \in p .. (Len(s) + 1) - 1, i \in T PROVE i + 1 \in T
  <2>1. i \in o .. Len(s) /\ i \in p .. Len(s) /\ i + 1 \in p .. Len(s) + 1
    BY <1>1
  <2>2. /\ Missing(s, o, n, i + 1) = Missing(s, o, n, i) - 1 + Values(s[i])
        /\ Missing(s, p, k, i + 1) = Missing(s, p, k, i) - 1 + Values(s[i])
    BY <1>1, <2>1, MissingSteps
  <2> QED
    BY <1>3, <2>1, <2>2
<1>4. p .. Len(s) + 1 \subseteq T
  <2> DEFINE b == Len(s) + 1
  <2>1. p \in Int /\ b \in Int
    BY <1>1
  <2>2. \A i \in p .. b - 1 : i \in T => i + 1 \in T
    BY <1>3
  <2> HIDE DEF T, b
  <2>3. p .. b \subseteq T
    BY <1>2, <2>1, <2>2, IntervalInduction
  <2> QED
    BY <2>3 DEF b
<1> QED
  BY <1>4

\* e is the first position at which none of n values is missing.
EndsAt(s, o, n, e) ==
    /\ e \in o .. Len(s) + 1
    /\ Missing(s, o, n, e) = 0
    /\ \A i \in o .. e - 1 : Missing(s, o, n, i) > 0

\* There is at most one such position, and EndOf finds it.
LEMMA EndOfFinds ==
    ASSUME NEW s \in Seq(Record), NEW o \in 1 .. Len(s) + 1, NEW n \in Nat
    PROVE  /\ \A e : EndsAt(s, o, n, e) => EndOf(s, o, n) = e
           /\ EndOf(s, o, n) # Bad => EndsAt(s, o, n, EndOf(s, o, n))
           /\ EndOf(s, o, n) \in {Bad} \cup (o .. Len(s) + 1)
<1> DEFINE ends == {e \in o .. Len(s) + 1 :
                       Missing(s, o, n, e) = 0 /\ \A i \in o .. e - 1 : Missing(s, o, n, i) > 0}
<1>1. \A e : e \in ends <=> EndsAt(s, o, n, e)
  BY DEF EndsAt
<1>2. EndOf(s, o, n) = IF ends = {} THEN Bad ELSE CHOOSE e \in ends : TRUE
  BY DEF EndOf
<1>3. ASSUME NEW d \in ends, NEW e \in ends PROVE d = e
  <2>1. Len(s) \in Nat
    BY RecordsTyped
  <2>2. d < e => d \in o .. e - 1
    BY <2>1
  <2>3. e < d => e \in o .. d - 1
    BY <2>1
  <2>4. d \in Int /\ e \in Int
    BY <2>1
  <2> QED
    BY <2>2, <2>3, <2>4
<1>4. ends \subseteq o .. Len(s) + 1
  OBVIOUS
<1> HIDE DEF ends
<1> QED
  BY <1>1, <1>2, <1>3, <1>4

\* Two counts that end at the same positions have the same end.
LEMMA SameEnds ==
    ASSUME NEW s \in Seq(Record), NEW o \in 1 .. Len(s) + 1, NEW n \in Nat,
           NEW p \in 1 .. Len(s) + 1, NEW k \in Nat,
           \A e : EndsAt(s, o, n, e) <=> EndsAt(s, p, k, e)
    PROVE  EndOf(s, o, n) = EndOf(s, p, k)
BY EndOfFinds

\* No values end where they start.
LEMMA EndOfNone ==
    ASSUME NEW s \in Seq(Record), NEW o \in 1 .. Len(s) + 1
    PROVE  EndOf(s, o, 0) = o
<1>1. Len(s) \in Nat /\ o \in o .. Len(s) + 1 /\ o .. o - 1 = {}
  BY RecordsTyped
<1>2. EndsAt(s, o, 0, o)
  BY <1>1, MissingSteps DEF EndsAt
<1> QED
  BY <1>2, EndOfFinds

\* Values ask for their contents: a record is passed, and its values come on top.
LEMMA EndOfStep ==
    ASSUME NEW s \in Seq(Record), NEW o \in 1 .. Len(s), NEW n \in Nat \ {0}
    PROVE  EndOf(s, o, n) = EndOf(s, o + 1, n - 1 + Values(s[o]))
<1> DEFINE k == n - 1 + Values(s[o])
<1>1. /\ Len(s) \in Nat /\ Values(s[o]) \in Nat /\ k \in Nat
      /\ o \in 1 .. Len(s) + 1 /\ o + 1 \in 1 .. Len(s) + 1
      /\ o \in o .. Len(s) /\ o + 1 \in o .. Len(s) + 1
  BY RecordsTyped
<1>2. Missing(s, o, n, o) = n /\ Missing(s, o, n, o + 1) = k
  <2>1. Missing(s, o, n, o) = n
    BY <1>1, MissingSteps
  <2>2. Missing(s, o, n, o + 1) = Missing(s, o, n, o) - 1 + Values(s[o])
    BY <1>1, MissingSteps
  <2> QED
    BY <2>1, <2>2
<1> HIDE DEF k
<1>3. \A e \in o + 1 .. Len(s) + 1 : Missing(s, o, n, e) = Missing(s, o + 1, k, e)
  BY <1>1, <1>2, MissingFrom
<1>4. ASSUME NEW e PROVE EndsAt(s, o, n, e) <=> EndsAt(s, o + 1, k, e)
  <2>1. ASSUME EndsAt(s, o, n, e) PROVE EndsAt(s, o + 1, k, e)
    <3>1. e # o
      BY <1>2, <2>1 DEF EndsAt
    <3>2. e \in o + 1 .. Len(s) + 1
      BY <1>1, <2>1, <3>1 DEF EndsAt
    <3>3. \A i \in o + 1 .. e - 1 : i \in o .. e - 1 /\ i \in o + 1 .. Len(s) + 1
      BY <1>1, <3>2
    <3> QED
      BY <1>3, <2>1, <3>2, <3>3 DEF EndsAt
  <2>2. ASSUME EndsAt(s, o + 1, k, e) PROVE EndsAt(s, o, n, e)
    <3>1. e \in o + 1 .. Len(s) + 1 /\ e \in o .. Len(s) + 1
      BY <1>1, <2>2 DEF EndsAt
    <3>2. \A i \in o .. e - 1 : i = o \/ (i \in o + 1 .. e - 1 /\ i \in o + 1 .. Len(s) + 1)
      BY <1>1, <3>1
    <3>3. Missing(s, o, n, o) > 0
      BY <1>2
    <3> QED
      BY <1>3, <2>2, <3>1, <3>2, <3>3 DEF EndsAt
  <2> QED
    BY <2>1, <2>2
<1> QED
  BY <1>1, <1>4, SameEnds DEF k

\* A value that holds no others ends right behind its record; a container's header is
\* followed by its contents.
LEMMA EndOfOne ==
    ASSUME NEW s \in Seq(Record), NEW o \in 1 .. Len(s)
    PROVE  /\ EndOf(s, o, 1) = EndOf(s, o + 1, Values(s[o]))
           /\ s[o].kind \notin {"map", "slice"} => EndOf(s, o, 1) = o + 1
<1>1. Len(s) \in Nat /\ Values(s[o]) \in Nat /\ o + 1 \in 1 .. Len(s) + 1
  BY RecordsTyped
<1>2. EndOf(s, o, 1) = EndOf(s, o + 1, Values(s[o]))
  BY <1>1, EndOfStep
<1>3. s[o].kind \notin {"map", "slice"} => Values(s[o]) = 0
  BY DEF Values
<1> QED
  BY <1>1, <1>2, <1>3, EndOfNone

\* Values follow one another: b values after the first a end where a + b do.
LEMMA EndOfSum ==
    ASSUME NEW s \in Seq(Record), NEW o \in 1 .. Len(s) + 1, NEW a \in Nat, NEW b \in Nat,
           EndOf(s, o, a) # Bad
    PROVE  EndOf(s, o, a + b) = EndOf(s, EndOf(s, o, a), b)
<1> DEFINE p == EndOf(s, o, a)
<1>1. EndsAt(s, o, a, p)
  BY EndOfFinds
<1> HIDE DEF p
<1>2. /\ Len(s) \in Nat /\ a + b \in Nat /\ p \in o .. Len(s) + 1 /\ p \in 1 .. Len(s) + 1
      /\ Missing(s, o, a, p) = 0 /\ \A i \in o .. p - 1 : Missing(s, o, a, i) > 0
  BY <1>1, RecordsTyped DEF EndsAt
<1>3. Missing(s, o, a + b, p) = b
  BY <1>2, MissingAdds
<1>4. \A e \in p .. Len(s) + 1 : Missing(s, o, a + b, e) = Missing(s, p, b, e)
  BY <1>2, <1>3, MissingFrom
<1>5. ASSUME NEW i \in o .. p - 1 PROVE Missing(s, o, a + b, i) > 0
  <2>1. i \in o .. Len(s) + 1
    BY <1>2
  <2>2. Missing(s, o, a, i) \in Int /\ Missing(s, o, a, i) > 0
    BY <1>2, <2>1, MissingSteps
  <2>3. Missing(s, o, a + b, i) = Missing(s, o, a, i) + b
    BY <2>1, MissingAdds
  <2> QED
    BY <2>2, <2>3
<1>6. ASSUME NEW e PROVE EndsAt(s, o, a + b, e) <=> EndsAt(s, p, b, e)
  <2>1. ASSUME EndsAt(s, o, a + b, e) PROVE EndsAt(s, p, b, e)
    <3>1. e \notin o .. p - 1 /\ e \in o .. Len(s) + 1
      BY <1>5, <2>1 DEF EndsAt
    <3>2. e \in p .. Len(s) + 1
      BY <1>2, <3>1
    <3>3. \A i \in p .. e - 1 : i \in o .. e - 1 /\ i \in p .. Len(s) + 1
      BY <1>2, <3>2
    <3> QED
      BY <1>4, <2>1, <3>2, <3>3 DEF EndsAt
  <2>2. ASSUME EndsAt(s, p, b, e) PROVE EndsAt(s, o, a + b, e)
    <3>1. e \in p .. Len(s) + 1 /\ e \in o .. Len(s) + 1
      BY <1>2, <2>2 DEF EndsAt
    <3>2. \A i \in o .. e - 1 : \/ i \in o .. p - 1
                                \/ i \in p .. e - 1 /\ i \in p .. Len(s) + 1
      BY <1>2, <3>1
    <3> QED
      BY <1>4, <1>5, <2>2, <3>1, <3>2 DEF EndsAt
  <2> QED
    BY <2>1, <2>2
<1> QED
  BY <1>2, <1>6, SameEnds DEF p

\* At the end of the section nothing more can be found.
LEMMA EndOfSection ==
    ASSUME NEW s \in Seq(Record), NEW n \in Nat \ {0}
    PROVE  EndOf(s, Len(s) + 1, n) = Bad
<1>1. Len(s) \in Nat /\ Len(s) + 1 \in 1 .. Len(s) + 1
  BY RecordsTyped
<1>2. \A e : EndsAt(s, Len(s) + 1, n, e) => e = Len(s) + 1
  BY <1>1 DEF EndsAt
<1>3. Missing(s, Len(s) + 1, n, Len(s) + 1) = n
  <2>1. \A o \in 1 .. Len(s) + 1 : Missing(s, o, n, o) = n
    BY MissingSteps
  <2> QED
    BY <1>1, <2>1
<1>4. \A e : ~EndsAt(s, Len(s) + 1, n, e)
  BY <1>2, <1>3 DEF EndsAt
<1> QED
  BY <1>1, <1>4, EndOfFinds

\* nextValueOffset walks to where the values end, and reports malformed data exactly
\* when the section ends before: for every section, offset and number of values.
THEOREM SkipsToTheEnd ==
    ASSUME NEW s \in Seq(Record), NEW o \in 1 .. Len(s) + 1, NEW n \in Nat
    PROVE  nextValueOffset(s, o, n) = EndOf(s, o, n)
<1> DEFINE L == Len(s)
           eq(f) == f = [p \in 1 .. Len(s) + 1 |->
                          [k \in Nat |-> IF k = 0 THEN p
                                         ELSE IF p > Len(s) THEN Bad
                                         ELSE f[p + 1][k - 1 + Values(s[p])]]]
           w == [p \in 1 .. L + 1 |-> [k \in Nat |-> EndOf(s, p, k)]]
           after == CHOOSE f : eq(f)
<1>1. nextValueOffset(s, o, n) = after[o][n]
  BY DEF nextValueOffset
<1>2. L \in Nat /\ \A p \in 1 .. L : Values(s[p]) \in Nat
  BY RecordsTyped
<1>3. eq(w)
  <2> SUFFICES ASSUME NEW p \in 1 .. L + 1, NEW k \in Nat
               PROVE  EndOf(s, p, k) = IF k = 0 THEN p
                                       ELSE IF p > L THEN Bad
                                       ELSE w[p + 1][k - 1 + Values(s[p])]
    OBVIOUS
  <2>1. CASE k = 0
    BY <2>1, EndOfNone
  <2>2. CASE k # 0 /\ p > L
    <3>1. p = Len(s) + 1
      BY <1>2, <2>2
    <3> QED
      BY <2>2, <3>1, EndOfSection
  <2>3. CASE k # 0 /\ ~(p > L)
    <3>1. p \in 1 .. L /\ p + 1 \in 1 .. L + 1 /\ k - 1 + Values(s[p]) \in Nat
      BY <1>2, <2>3
    <3>2. w[p + 1][k - 1 + Values(s[p])] = EndOf(s, p + 1, k - 1 + Values(s[p]))
      BY <3>1
    <3> QED
      BY <2>3, <3>1, <3>2, EndOfStep
  <2> QED
    BY <2>1, <2>2, <2>3
<1>4. eq(after)
  <2> HIDE DEF eq
  <2> QED
    BY <1>3
<1> HIDE DEF after
<1>8. \A p \in 1 .. L + 1 : \A k \in Nat :
          after[p][k] = IF k = 0 THEN p
                        ELSE IF p > L THEN Bad ELSE after[p + 1][k - 1 + Values(s[p])]
  <2> DEFINE right(p, k) == IF k = 0 THEN p
                            ELSE IF p > Len(s) THEN Bad ELSE after[p + 1][k - 1 + Values(s[p])]
             F == [p \in 1 .. Len(s) + 1 |-> [k \in Nat |-> right(p, k)]]
  <2>1. after = F
    BY <1>4
  <2> TAKE p \in 1 .. L + 1
  <2> TAKE k \in Nat
  <2>2. F[p][k] = right(p, k)
    <3> HIDE DEF right
    <3> QED
      OBVIOUS
  <2>3. after[p][k] = F[p][k]
    <3> HIDE DEF F
    <3> QED
      BY <2>1
  <2> QED
    BY <2>2, <2>3
<1> HIDE DEF eq
<1> DEFINE T == {p \in 1 .. L + 1 : \A k \in Nat : after[p][k] = EndOf(s, p, k)}
<1>5. L + 1 \in T
  <2>1. L + 1 \in 1 .. L + 1 /\ L + 1 > L
    BY <1>2
  <2>2. \A k \in Nat : after[L + 1][k] = IF k = 0 THEN L + 1 ELSE Bad
    BY <1>8, <2>1
  <2> QED
    BY <2>1, <2>2, EndOfNone, EndOfSection
<1>6. ASSUME NEW p \in 1 .. (L + 1) - 1, p + 1 \in T PROVE p \in T
  <2>1. p \in 1 .. L /\ p \in 1 .. L + 1 /\ ~(p > L)
    BY <1>2
  <2> SUFFICES ASSUME NEW k \in Nat PROVE after[p][k] = EndOf(s, p, k)
    BY <2>1
  <2>2. CASE k = 0
    BY <1>8, <2>1, <2>2, EndOfNone
  <2>3. CASE k # 0
    <3>1. k - 1 + Values(s[p]) \in Nat
      BY <1>2, <2>1, <2>3
    <3>2. after[p][k] = after[p + 1][k - 1 + Values(s[p])]
      BY <1>8, <2>1, <2>3
    <3> QED
      BY <1>6, <2>1, <2>3, <3>1, <3>2, EndOfStep
  <2> QED
    BY <2>2, <2>3
<1>7. 1 .. L + 1 \subseteq T
  <2>1. 1 \in Int /\ L + 1 \in Int
    BY <1>2
  <2> HIDE DEF T, L
  <2> QED
    BY <1>5, <1>6, <2>1, IntervalInduction
<1> QED
  BY <1>1, <1>7

-----------------------------------------------------------------------------
(* Positions in a section, and the records at them.                          *)

Position(s) == 1 .. Len(s) + 1

\* What resolveCtrlData finds at a position: the record itself, or one behind a pointer.
LEMMA Resolved ==
    ASSUME NEW s \in Seq(Record), NEW o \in Position(s),
           resolveCtrlData(s, o).kind # "bad"
    PROVE  LET r == resolveCtrlData(s, o) IN
           /\ o \in 1 .. Len(s) /\ r.n \in Nat /\ r.data \in Position(s) /\ o + 1 \in Position(s)
           /\ \/ r.next = 0 /\ r.kind = s[o].kind /\ r.n = s[o].n /\ r.data = o + 1
              \/ r.next = o + 1 /\ EndOf(s, o, 1) = o + 1
           /\ r.next \in Nat
<1>1. Len(s) \in Nat /\ \A i \in 1 .. Len(s) : s[i] \in Record
  BY RecordsTyped
<1>2. o \in 1 .. Len(s)
  BY <1>1 DEF resolveCtrlData, Position
<1>3. s[o] \in Record /\ o + 1 \in Position(s) /\ o + 1 \in Nat
  BY <1>1, <1>2 DEF Position
<1>4. CASE s[o].kind # "pointer"
  BY <1>1, <1>2, <1>3, <1>4 DEF resolveCtrlData, Record
<1>5. CASE s[o].kind = "pointer"
  <2> DEFINE to == s[o].n
  <2>1. to \in 1 .. Len(s)
    BY <1>1, <1>2, <1>3, <1>5 DEF resolveCtrlData, Record
  <2>2. s[to] \in Record /\ to + 1 \in Position(s)
    BY <1>1, <2>1 DEF Position
  <2>3. EndOf(s, o, 1) = o + 1
    BY <1>2, <1>5, EndOfOne
  <2> QED
    BY <1>2, <1>3, <1>5, <2>1, <2>2, <2>3 DEF resolveCtrlData, Record
<1> QED
  BY <1>4, <1>5

\* Behind a scalar, or the pointer to one, its value ends; so does a key.
LEMMA PlainEnds ==
    ASSUME NEW s \in Seq(Record), NEW o \in Position(s),
           resolveCtrlData(s, o).kind \in {"string", "number"}
    PROVE  LET r == resolveCtrlData(s, o)
               end == IF r.next # 0 THEN r.next ELSE r.data
           IN  o \in 1 .. Len(s) /\ end \in Position(s) /\ end = EndOf(s, o, 1)
<1> DEFINE r == resolveCtrlData(s, o)
<1>1. /\ o \in 1 .. Len(s) /\ o + 1 \in Position(s)
      /\ \/ r.next = 0 /\ r.kind = s[o].kind /\ r.data = o + 1
         \/ r.next = o + 1 /\ EndOf(s, o, 1) = o + 1
  BY Resolved
<1>2. o + 1 # 0 /\ r.kind \in {"string", "number"}
  BY <1>1
<1> HIDE DEF r
<1>3. CASE r.next = 0 /\ r.kind = s[o].kind /\ r.data = o + 1
  BY <1>1, <1>2, <1>3, EndOfOne DEF r
<1>4. CASE r.next = o + 1 /\ EndOf(s, o, 1) = o + 1
  BY <1>1, <1>2, <1>4 DEF r
<1> QED
  BY <1>1, <1>3, <1>4

LEMMA KeyEnds ==
    ASSUME NEW s \in Seq(Record), NEW o \in Position(s), decodeKey(s, o) # Bad
    PROVE  /\ o \in 1 .. Len(s) /\ decodeKey(s, o) \in Position(s)
           /\ decodeKey(s, o) = EndOf(s, o, 1)
<1>1. resolveCtrlData(s, o).kind = "string"
  BY DEF decodeKey
<1> QED
  BY <1>1, PlainEnds DEF decodeKey

\* One more value: a value behind what has been passed.
LEMMA OneMore ==
    ASSUME NEW s \in Seq(Record), NEW from \in Position(s), NEW k \in Nat, NEW o \in Position(s),
           o = EndOf(s, from, k), NEW end, end = EndOf(s, o, 1)
    PROVE  end = EndOf(s, from, k + 1)
<1>1. EndOf(s, from, k) # Bad
  BY DEF Position, Bad
<1> QED
  BY <1>1, EndOfSum DEF Position

\* A sequence as a stack: its top, the rest, and one element more.
LEMMA Stack ==
    ASSUME NEW S, NEW ls \in Seq(S)
    PROVE  LET outer == SubSeq(ls, 1, Len(ls) - 1) IN
           /\ ls # <<>> => /\ Len(ls) \in DOMAIN ls /\ ls[Len(ls)] \in S
                           /\ outer \in Seq(S) /\ Len(outer) = Len(ls) - 1
                           /\ \A i \in DOMAIN outer : i \in DOMAIN ls /\ outer[i] = ls[i]
           /\ \A l \in S :
                  LET more == Append(ls, l) IN
                  /\ more \in Seq(S) /\ more # <<>> /\ Len(more) = Len(ls) + 1
                  /\ more[Len(more)] = l /\ \A i \in 1 .. Len(ls) : more[i] = ls[i]
                  /\ \A i \in DOMAIN more : (i \in DOMAIN ls /\ more[i] = ls[i]) \/ more[i] = l
<1> DEFINE outer == SubSeq(ls, 1, Len(ls) - 1)
<1>1. Len(ls) \in Nat /\ DOMAIN ls = 1 .. Len(ls) /\ \A i \in 1 .. Len(ls) : ls[i] \in S
  OBVIOUS
<1>2. ASSUME ls # <<>>
      PROVE  /\ Len(ls) \in DOMAIN ls /\ ls[Len(ls)] \in S
             /\ outer \in Seq(S) /\ Len(outer) = Len(ls) - 1
             /\ \A i \in DOMAIN outer : i \in DOMAIN ls /\ outer[i] = ls[i]
  <2>1. Len(ls) > 0
    BY <1>1, <1>2
  <2>2. outer \in Seq(S) /\ Len(outer) = Len(ls) - 1
    BY <1>1, <2>1
  <2>3. DOMAIN outer = 1 .. Len(ls) - 1 /\ \A i \in 1 .. Len(ls) - 1 : outer[i] = ls[i]
    BY <1>1, <2>1
  <2> HIDE DEF outer
  <2> QED
    BY <1>1, <2>1, <2>2, <2>3
<1>3. ASSUME NEW l \in S
      PROVE  LET more == Append(ls, l) IN
             /\ more \in Seq(S) /\ more # <<>> /\ Len(more) = Len(ls) + 1
             /\ more[Len(more)] = l /\ \A i \in 1 .. Len(ls) : more[i] = ls[i]
             /\ \A i \in DOMAIN more : (i \in DOMAIN ls /\ more[i] = ls[i]) \/ more[i] = l
  <2> DEFINE more == Append(ls, l)
  <2>1. more \in Seq(S) /\ Len(more) = Len(ls) + 1 /\ more # <<>>
    BY <1>1
  <2>2. DOMAIN more = 1 .. Len(ls) + 1
    BY <1>1
  <2>3. more[Len(ls) + 1] = l /\ \A i \in 1 .. Len(ls) : more[i] = ls[i]
    BY <1>1
  <2> HIDE DEF more
  <2>4. more[Len(more)] = l
    BY <2>1, <2>3
  <2>5. \A i \in DOMAIN more : (i \in DOMAIN ls /\ more[i] = ls[i]) \/ more[i] = l
    <3> SUFFICES ASSUME NEW i \in 1 .. Len(ls) + 1
                 PROVE  (i \in DOMAIN ls /\ more[i] = ls[i]) \/ more[i] = l
      BY <2>2
    <3> QED
      BY <1>1, <2>3
  <2> QED
    BY <2>1, <2>3, <2>4, <2>5 DEF more
<1> QED
  BY <1>2, <1>3
=============================================================================
