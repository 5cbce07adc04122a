------------------------- MODULE DecodeBudgetProofs -------------------------
(***************************************************************************)
(* Proofs about DecodeBudget: for any sections, budgets and destinations.   *)
(***************************************************************************)
EXTENDS DecodeBudget, DataSectionProofs

Frame ==
    [kind : {"map", "slice"}, dest : {"all", "reused", "struct", "path"}, left : Nat,
     depth : Nat, return : Nat]

\* Open containers: each but the innermost is in the middle of an entry, and behind
\* each decoding goes on at a position of the section.
FramesIn(s, fs) ==
    /\ fs \in Seq(Frame)
    /\ \A i \in 1 .. Len(fs) : fs[i].return \in {0} \cup Position(s)
    /\ \A i \in 1 .. Len(fs) - 1 : fs[i].left > 0

ToCome(fs) ==
    IF fs = <<>> THEN 0
    ELSE Under(fs, Len(fs) - 1) + Children(fs[Len(fs)]) * fs[Len(fs)].left

\* What is paid for: children out of the budget, bytes out of the payload.  Before a
\* budget is active nothing is copied, except by a root that is then done.
ChildrenPaid ==
    /\ budgetRemaining \in 0 .. FullBudget /\ visited \in Nat
    /\ frames # <<>> => Active
    /\ visited + ToCome(frames) <= IF Active THEN FullBudget - budgetRemaining ELSE 0
BytesPaid ==
    /\ payloadRemaining \in 0 .. Payload /\ copied \in Nat
    /\ Active => copied <= Payload - payloadRemaining
    /\ Running /\ ~Active => copied = 0

IInv ==
    /\ section \in Seq(Record) /\ offset \in Position(section) /\ depth \in Nat
    /\ FramesIn(section, frames)
    /\ ChildrenPaid /\ BytesPaid

-----------------------------------------------------------------------------
(* Reserving.                                                               *)

\* A reservation that succeeds takes exactly the children, and leaves the budget active.
LEMMA Reserved ==
    ASSUME NEW budget \in Nat, NEW c, c.kind \in {"map", "slice"}, c.n \in Nat,
           reserveActiveContainer(budget, c.kind, c.n) # Exhausted
    PROVE  LET left == reserveActiveContainer(budget, c.kind, c.n) IN
           /\ left \in 1 .. budget /\ Values(c) \in Nat /\ left = budget - Values(c)
           /\ Values(c) = Children(c) * c.n
<1>1. CASE c.kind = "map"
  <2>1. /\ ~(c.n >= (budget + 1) \div 2) /\ Values(c) = 2 * c.n /\ Children(c) = 2
        /\ reserveActiveContainer(budget, c.kind, c.n) = budget - 2 * c.n
    BY <1>1 DEF reserveActiveContainer, Values, Children
  <2>2. 2 * c.n < budget
    BY <2>1
  <2> QED
    BY <2>1, <2>2
<1>2. CASE c.kind = "slice"
  <2>1. /\ ~(c.n >= budget) /\ Values(c) = c.n /\ Children(c) = 1
        /\ reserveActiveContainer(budget, c.kind, c.n) = budget - c.n
    BY <1>2 DEF reserveActiveContainer, Values, Children
  <2> QED
    BY <2>1
<1> QED
  BY <1>1, <1>2

\* The loop of a skip that starts at o with budget b.
Skip(o, b) ==
    {x \in [end : o .. Len(section) + 1, left : Nat, budget : {Exhausted} \cup (1 .. b), seen : Nat] :
        x.budget # Exhausted => x.budget + x.seen = b}

LEMMA StepOver ==
    ASSUME section \in Seq(Record), NEW o \in Position(section), NEW b \in Nat \ {0},
           NEW x \in Skip(o, b), NEW p \in o .. Len(section)
    PROVE  stepOver(x, p) \in Skip(o, b)
<1>1. /\ Len(section) \in Nat /\ p \in 1 .. Len(section) /\ p + 1 \in o .. Len(section) + 1
      /\ section[p] \in Record /\ Values(section[p]) \in Nat
  BY RecordsTyped DEF Position
<1>2. CASE x.left = 0 \/ x.budget = Exhausted
  BY <1>2 DEF stepOver
<1>3. CASE x.left # 0 /\ x.budget # Exhausted
  <2> DEFINE paid == IF section[p].kind \notin {"map", "slice"} THEN x.budget
                     ELSE reserveActiveContainer(x.budget, section[p].kind, section[p].n)
             v == Values(section[p])
             y == [end |-> p + 1, left |-> x.left - 1 + v, budget |-> paid, seen |-> x.seen + v]
  <2>1. stepOver(x, p) = y
    BY <1>3 DEF stepOver
  <2>2. /\ x.left \in Nat \ {0} /\ x.seen \in Nat /\ x.budget \in 1 .. b
        /\ x.budget + x.seen = b
    BY <1>3 DEF Skip
  <2>3. paid = Exhausted \/ (paid \in 1 .. b /\ paid + (x.seen + v) = b)
    <3>1. CASE section[p].kind \notin {"map", "slice"}
      <4>1. v = 0
        BY <3>1 DEF Values
      <4> QED
        BY <2>2, <3>1, <4>1
    <3>2. CASE section[p].kind \in {"map", "slice"} /\ paid # Exhausted
      <4>1. section[p].n \in Nat
        BY <1>1 DEF Record
      <4>2. paid \in 1 .. x.budget /\ paid = x.budget - v
        BY <2>2, <3>2, <4>1, Reserved
      <4> HIDE DEF paid, v
      <4> QED
        BY <1>1, <2>2, <4>2 DEF v
    <3> QED
      BY <3>1, <3>2
  <2> HIDE DEF paid
  <2>4. x.left - 1 + v \in Nat /\ x.seen + v \in Nat
    <3>1. v \in Nat
      BY <1>1
    <3>2. \A i \in Nat \ {0} : \A j \in Nat : \A k \in Nat : i - 1 + k \in Nat /\ j + k \in Nat
      OBVIOUS
    <3> HIDE DEF v
    <3> QED
      BY <2>2, <3>1, <3>2, Zenon
  <2> HIDE DEF v
  <2>5. y \in Skip(o, b)
    BY <1>1, <2>3, <2>4 DEF Skip
  <2> QED
    BY <2>1, <2>5
<1> QED
  BY <1>2, <1>3

\* A skip that gets to an end has paid for exactly what it passed.
LEMMA SkipPaid ==
    ASSUME section \in Seq(Record), NEW o \in Position(section), NEW n \in Nat,
           NEW b \in Nat \ {0},
           budgetedSkip(o, n, b).budget # Exhausted, budgetedSkip(o, n, b).end # Bad
    PROVE  LET skip == budgetedSkip(o, n, b) IN
           /\ skip.end \in Position(section) /\ skip.seen \in Nat
           /\ skip.budget \in 1 .. b /\ skip.budget + skip.seen = b
<1> DEFINE L == Len(section)
           first == [end |-> o, left |-> n, budget |-> b, seen |-> 0]
           eq(f) == f = [p \in o .. Len(section) + 1 |->
                            IF p = o THEN first ELSE stepOver(f[p - 1], p - 1)]
           walk == CHOOSE f : eq(f)
           last == walk[Len(section) + 1]
           turn == [p \in o + 1 .. L + 1 |-> [x \in Skip(o, b) |-> stepOver(x, p - 1)]]
<1>1. /\ L \in Nat /\ o \in 1 .. L + 1 /\ o <= L + 1
      /\ \A p \in o + 1 .. L + 1 : p - 1 \in o .. L /\ p - 1 \in o .. L + 1 /\ p # o
  BY RecordsTyped DEF Position
<1>2. budgetedSkip(o, n, b) = [end |-> IF last.left = 0 THEN last.end ELSE Bad,
                               budget |-> last.budget, seen |-> last.seen]
  BY DEF budgetedSkip
<1>3. first \in Skip(o, b)
  BY <1>1 DEF Skip, Exhausted
<1>4. turn \in [o + 1 .. L + 1 -> [Skip(o, b) -> Skip(o, b)]]
  BY <1>1, StepOver
<1>5. PICK g : RunsAlong(g, o, L + 1, Skip(o, b), first, turn)
  <2>1. o \in Int /\ L + 1 \in Int /\ turn \in Turns(o, L + 1, Skip(o, b))
    BY <1>1, <1>4 DEF Turns
  <2> HIDE DEF turn, first, L
  <2> QED
    BY <1>3, <2>1, LoopFunction
<1>6. eq(g)
  <2> HIDE DEF first
  <2>1. ASSUME NEW p \in o .. L + 1, p # o
        PROVE  g[p] = stepOver(g[p - 1], p - 1)
    <3>1. p \in o + 1 .. L + 1 /\ p - 1 \in o .. L + 1
      BY <1>1, <2>1
    <3> QED
      BY <1>5, <3>1 DEF RunsAlong
  <2> QED
    BY <1>1, <1>5, <2>1 DEF RunsAlong
<1>7. eq(walk)
  <2> HIDE DEF eq
  <2> QED
    BY <1>6
<1> HIDE DEF walk
<1> DEFINE T == {p \in o .. L + 1 : walk[p] \in Skip(o, b)}
<1>8. o \in T
  BY <1>1, <1>3, <1>7
<1>9. ASSUME NEW p \in o .. (L + 1) - 1, p \in T PROVE p + 1 \in T
  <2>1. p + 1 \in o .. L + 1 /\ p + 1 # o /\ (p + 1) - 1 = p /\ p \in o .. L
    BY <1>1
  <2>2. walk[p + 1] = stepOver(walk[p], p)
    <3> HIDE DEF first
    <3> QED
      BY <1>7, <2>1
  <2> QED
    BY <1>9, <2>1, <2>2, StepOver
<1>10. o .. L + 1 \subseteq T
  <2>1. o \in Int /\ L + 1 \in Int
    BY <1>1
  <2> HIDE DEF T, L
  <2> QED
    BY <1>8, <1>9, <2>1, IntervalInduction
<1>11. last \in Skip(o, b)
  BY <1>1, <1>10
<1> HIDE DEF last
<1>12. last.budget # Exhausted /\ last.left = 0
  BY <1>2
<1>13. /\ last.end \in o .. L + 1 /\ last.seen \in Nat /\ last.budget \in 1 .. b
       /\ last.budget + last.seen = b
  BY <1>11, <1>12 DEF Skip
<1> QED
  BY <1>1, <1>2, <1>12, <1>13 DEF Position

-----------------------------------------------------------------------------
(* The children still to come.                                              *)

LEMMA Charged ==
    ASSUME NEW f \in Frame
    PROVE  /\ Children(f) \in {1, 2} /\ f.left \in Nat
           /\ Children(f) * f.left \in Nat
           /\ Children(f) * (f.left - 1) = Children(f) * f.left - Children(f)
           /\ f.left > 0 => Children(f) * (f.left - 1) \in Nat
<1>1. f.left \in Nat /\ Children(f) \in {1, 2}
  BY DEF Children, Frame
<1>2. CASE Children(f) = 1
  BY <1>1, <1>2
<1>3. CASE Children(f) = 2
  BY <1>1, <1>3
<1> QED
  BY <1>1, <1>2, <1>3

\* A frame with one entry less to come.
LEMMA OneLess ==
    ASSUME NEW f \in Frame, f.left > 0
    PROVE  LET less == [f EXCEPT !.left = @ - 1] IN
           /\ less \in Frame /\ less.left = f.left - 1 /\ less.kind = f.kind
           /\ less.return = f.return
<1>1. f.left \in Nat
  BY DEF Frame
<1>2. f.left - 1 \in Nat
  BY <1>1
<1> QED
  BY <1>2 DEF Frame

LEMMA UnderSteps ==
    ASSUME NEW fs \in Seq(Frame)
    PROVE  /\ Under(fs, 0) = 0
           /\ \A n \in 0 .. Len(fs) : Under(fs, n) \in Int
           /\ \A n \in 1 .. Len(fs) :
                  Under(fs, n) = Under(fs, n - 1) + Children(fs[n]) * (fs[n].left - 1)
<1> DEFINE L == Len(fs)
           W == [i \in 1 .. L |-> Children(fs[i]) * (fs[i].left - 1)]
           turn == [i \in 1 .. L |-> [x \in Int |-> x + W[i]]]
<1>1. L \in Nat /\ \A i \in 1 .. L : fs[i] \in Frame
  OBVIOUS
<1>2. W \in [1 .. L -> Int] /\ \A i \in 1 .. L : W[i] = Children(fs[i]) * (fs[i].left - 1)
  BY <1>1, Charged
<1> HIDE DEF L, W
<1>3. turn \in Turns(0, L, Int)
  BY <1>1, <1>2 DEF Turns
<1>4. \A i \in 1 .. L : \A x \in Int : turn[i][x] = x + W[i]
  OBVIOUS
<1> HIDE DEF turn
<1>5. PICK g : RunsAlong(g, 0, L, Int, 0, turn)
  <2>1. 0 \in Int /\ L \in Int
    BY <1>1
  <2> QED
    BY <1>3, <2>1, LoopFunction
<1>6. g \in [0 .. L -> Int] /\ g[0] = 0 /\ \A i \in 1 .. L : g[i] = g[i - 1] + W[i]
  <2>1. g \in [0 .. L -> Int] /\ g[0] = 0 /\ \A i \in 1 .. L : g[i] = turn[i][g[i - 1]]
    BY <1>1, <1>5 DEF RunsAlong
  <2> SUFFICES ASSUME NEW i \in 1 .. L PROVE g[i] = g[i - 1] + W[i]
    BY <2>1
  <2>2. g[i - 1] \in Int
    BY <1>1, <2>1
  <2> QED
    BY <1>4, <2>1, <2>2
<1>7. ASSUME NEW n \in 0 .. L PROVE Under(fs, n) = g[n]
  <2> DEFINE w(i) == Children(fs[i]) * (fs[i].left - 1)
             eq(f) == f = [i \in 0 .. n |-> IF i = 0 THEN 0 ELSE f[i - 1] + w(i)]
             sum == CHOOSE f : eq(f)
             h == [i \in 0 .. n |-> g[i]]
  <2>1. Under(fs, n) = sum[n]
    BY DEF Under
  <2>2. \A i \in 1 .. L : w(i) = W[i]
    BY <1>2
  <2> HIDE DEF w
  <2>3. eq(h)
    <3>1. ASSUME NEW i \in 0 .. n, i # 0 PROVE g[i] = h[i - 1] + w(i)
      <4>1. i \in 1 .. L /\ i - 1 \in 0 .. n
        BY <1>1, <3>1
      <4> QED
        BY <1>6, <2>2, <4>1
    <3> QED
      BY <1>6, <3>1
  <2>4. eq(sum)
    <3> HIDE DEF eq
    <3> QED
      BY <2>3
  <2> HIDE DEF sum
  <2> DEFINE T == {i \in 0 .. n : sum[i] = g[i]}
  <2>5. 0 \in T
    BY <1>6, <2>4
  <2>6. ASSUME NEW i \in 0 .. n - 1, i \in T PROVE i + 1 \in T
    <3>1. i + 1 \in 0 .. n /\ i + 1 # 0 /\ (i + 1) - 1 = i /\ i + 1 \in 1 .. L
      BY <1>1
    <3>2. sum[i + 1] = sum[i] + w(i + 1)
      BY <2>4, <3>1
    <3>3. g[i + 1] = g[i] + W[i + 1]
      BY <1>6, <3>1
    <3> QED
      BY <2>2, <2>6, <3>1, <3>2, <3>3
  <2>7. 0 .. n \subseteq T
    <3> HIDE DEF T
    <3> QED
      BY <2>5, <2>6, IntervalInduction
  <2> QED
    BY <1>1, <2>1, <2>7
<1>8. Under(fs, 0) = 0
  BY <1>1, <1>6, <1>7
<1>9. \A n \in 0 .. L : Under(fs, n) \in Int
  BY <1>6, <1>7
<1>10. ASSUME NEW n \in 1 .. L
       PROVE  Under(fs, n) = Under(fs, n - 1) + Children(fs[n]) * (fs[n].left - 1)
  <2>1. n \in 0 .. L /\ n - 1 \in 0 .. L
    BY <1>1
  <2>2. Under(fs, n) = g[n] /\ Under(fs, n - 1) = g[n - 1]
    BY <1>7, <2>1
  <2>3. g[n] = g[n - 1] + W[n]
    BY <1>6
  <2> QED
    BY <1>2, <2>2, <2>3
<1> QED
  BY <1>8, <1>9, <1>10 DEF L

\* They depend on the containers counted alone, and are never less than none.
LEMMA UnderAgrees ==
    ASSUME NEW fs \in Seq(Frame), NEW gs \in Seq(Frame), NEW n \in Nat,
           n <= Len(fs), n <= Len(gs), \A i \in 1 .. n : fs[i] = gs[i]
    PROVE  Under(fs, n) = Under(gs, n)
<1> DEFINE T == {i \in 0 .. n : Under(fs, i) = Under(gs, i)}
<1>1. 0 \in T
  BY UnderSteps
<1>2. ASSUME NEW i \in 0 .. n - 1, i \in T PROVE i + 1 \in T
  <2>1. /\ i + 1 \in 0 .. n /\ i + 1 \in 1 .. n /\ (i + 1) - 1 = i
        /\ i + 1 \in 1 .. Len(fs) /\ i + 1 \in 1 .. Len(gs)
    OBVIOUS
  <2>2. /\ Under(fs, i + 1) = Under(fs, i) + Children(fs[i + 1]) * (fs[i + 1].left - 1)
        /\ Under(gs, i + 1) = Under(gs, i) + Children(gs[i + 1]) * (gs[i + 1].left - 1)
    BY <2>1, UnderSteps
  <2> QED
    BY <1>2, <2>1, <2>2
<1>3. 0 .. n \subseteq T
  <2> HIDE DEF T
  <2> QED
    BY <1>1, <1>2, IntervalInduction
<1> QED
  BY <1>3

LEMMA UnderNat ==
    ASSUME NEW s, NEW fs, FramesIn(s, fs), NEW n \in Nat, n < Len(fs)
    PROVE  Under(fs, n) \in Nat
<1> DEFINE T == {i \in 0 .. n : Under(fs, i) \in Nat}
<1>1. fs \in Seq(Frame) /\ Len(fs) \in Nat
  BY DEF FramesIn
<1>2. 0 \in T
  BY <1>1, UnderSteps
<1>3. ASSUME NEW i \in 0 .. n - 1, i \in T PROVE i + 1 \in T
  <2>1. /\ i + 1 \in 0 .. n /\ (i + 1) - 1 = i /\ i + 1 \in 1 .. Len(fs)
        /\ i + 1 \in 1 .. Len(fs) - 1
    BY <1>1
  <2>2. Under(fs, i + 1) = Under(fs, i) + Children(fs[i + 1]) * (fs[i + 1].left - 1)
    BY <1>1, <2>1, UnderSteps
  <2>3. fs[i + 1] \in Frame /\ fs[i + 1].left > 0
    BY <1>1, <2>1 DEF FramesIn
  <2>4. Children(fs[i + 1]) * (fs[i + 1].left - 1) \in Nat
    BY <2>3, Charged
  <2> QED
    BY <1>3, <2>1, <2>2, <2>4
<1>4. 0 .. n \subseteq T
  <2> HIDE DEF T
  <2> QED
    BY <1>2, <1>3, IntervalInduction
<1> QED
  BY <1>4

\* What is to come, seen from the innermost container.
LEMMA ToComeTop ==
    ASSUME NEW s, NEW fs, FramesIn(s, fs)
    PROVE  /\ ToCome(fs) \in Nat
           /\ fs # <<>> => LET top == fs[Len(fs)] IN
                /\ top \in Frame /\ top.return \in {0} \cup Position(s)
                /\ ToCome(fs) - Children(top) = Under(fs, Len(fs))
                /\ Children(top) * top.left <= ToCome(fs)
                /\ top.left > 0 => ToCome(fs) >= Children(top)
<1>1. fs \in Seq(Frame) /\ Len(fs) \in Nat
  BY DEF FramesIn
<1>2. CASE fs = <<>>
  BY <1>2 DEF ToCome
<1>3. CASE fs # <<>>
  <2> DEFINE n == Len(fs)
             top == fs[n]
  <2>1. n \in 1 .. Len(fs) /\ n - 1 \in Nat /\ n - 1 < Len(fs)
    BY <1>1, <1>3
  <2>2. top \in Frame /\ top.return \in {0} \cup Position(s)
    BY <1>1, <2>1 DEF FramesIn
  <2>3. Under(fs, n - 1) \in Nat
    BY <2>1, UnderNat
  <2>4. Under(fs, n) = Under(fs, n - 1) + Children(top) * (top.left - 1)
    BY <1>1, <2>1, UnderSteps
  <2>5. ToCome(fs) = Under(fs, n - 1) + Children(top) * top.left
    BY <1>3 DEF ToCome
  <2>6. /\ Children(top) \in {1, 2} /\ top.left \in Nat /\ Children(top) * top.left \in Nat
        /\ Children(top) * (top.left - 1) = Children(top) * top.left - Children(top)
        /\ top.left > 0 => Children(top) * (top.left - 1) \in Nat
    BY <2>2, Charged
  <2> DEFINE c == Children(top)
             m == Children(top) * top.left
             k == Children(top) * (top.left - 1)
             u == Under(fs, n - 1)
  <2>7. /\ c \in {1, 2} /\ m \in Nat /\ k = m - c /\ (top.left > 0 => k \in Nat)
        /\ u \in Nat /\ ToCome(fs) = u + m /\ Under(fs, n) = u + k
    BY <2>3, <2>4, <2>5, <2>6
  <2> HIDE DEF c, m, k, u, top, n
  <2>8. /\ ToCome(fs) \in Nat /\ ToCome(fs) - c = Under(fs, n) /\ m <= ToCome(fs)
        /\ top.left > 0 => ToCome(fs) >= c
    BY <2>7
  <2> QED
    BY <1>3, <2>2, <2>8 DEF c, m, n, top
<1> QED
  BY <1>2, <1>3

\* The children of the entry that the innermost container is at.
Entry(fs) == IF fs = <<>> THEN 0 ELSE Children(fs[Len(fs)])

LEMMA Pushed ==
    ASSUME NEW s, NEW fs, FramesIn(s, fs), fs # <<>> => fs[Len(fs)].left > 0,
           NEW f \in Frame, f.return \in {0} \cup Position(s)
    PROVE  /\ FramesIn(s, Append(fs, f)) /\ Append(fs, f) # <<>>
           /\ ToCome(Append(fs, f)) = ToCome(fs) - Entry(fs) + Children(f) * f.left
<1> DEFINE gs == Append(fs, f)
           n == Len(fs)
<1>1. fs \in Seq(Frame) /\ n \in Nat
  BY DEF FramesIn
<1>2. /\ gs \in Seq(Frame) /\ gs # <<>> /\ Len(gs) = n + 1 /\ gs[n + 1] = f
      /\ \A i \in 1 .. n : gs[i] = fs[i]
  BY <1>1, Stack
<1> HIDE DEF gs
<1>3. FramesIn(s, gs)
  <2>1. ASSUME NEW i \in 1 .. n + 1 PROVE i \in 1 .. n \/ i = n + 1
    BY <1>1
  <2>2. \A i \in 1 .. n + 1 : gs[i].return \in {0} \cup Position(s)
    BY <1>2, <2>1 DEF FramesIn
  <2>3. ASSUME NEW i \in 1 .. (n + 1) - 1 PROVE gs[i].left > 0
    <3>1. i \in 1 .. n /\ (i \in 1 .. n - 1 \/ (i = n /\ n > 0))
      BY <1>1
    <3>2. n > 0 => fs # <<>>
      BY <1>1
    <3> QED
      BY <1>2, <3>1, <3>2 DEF FramesIn
  <2> QED
    BY <1>2, <2>2, <2>3 DEF FramesIn
<1>4. Under(gs, n) = Under(fs, n)
  BY <1>1, <1>2, UnderAgrees
<1>5. ToCome(gs) = Under(gs, n) + Children(f) * f.left
  <2>1. (n + 1) - 1 = n
    BY <1>1
  <2> QED
    BY <1>2, <2>1 DEF ToCome
<1>6. Under(fs, n) = ToCome(fs) - Entry(fs)
  <2>1. CASE fs = <<>>
    <3>1. n = 0 /\ ToCome(fs) = 0 /\ Entry(fs) = 0
      BY <2>1 DEF ToCome, Entry
    <3>2. Under(fs, 0) = 0
      BY <1>1, UnderSteps
    <3> QED
      BY <3>1, <3>2
  <2>2. CASE fs # <<>>
    BY <2>2, ToComeTop DEF Entry
  <2> QED
    BY <2>1, <2>2
<1> QED
  BY <1>2, <1>3, <1>4, <1>5, <1>6 DEF gs

\* The innermost container has one entry less to come.
LEMMA Passed ==
    ASSUME NEW s, NEW fs, FramesIn(s, fs), fs # <<>>, fs[Len(fs)].left > 0,
           NEW gs \in Seq(Frame), Len(gs) = Len(fs), \A i \in 1 .. Len(fs) - 1 : gs[i] = fs[i],
           gs[Len(fs)].left = fs[Len(fs)].left - 1, gs[Len(fs)].kind = fs[Len(fs)].kind,
           gs[Len(fs)].return = fs[Len(fs)].return
    PROVE  FramesIn(s, gs) /\ gs # <<>> /\ ToCome(gs) = ToCome(fs) - Entry(fs)
<1> DEFINE n == Len(fs)
<1>1. fs \in Seq(Frame) /\ n \in Nat /\ n > 0 /\ n \in 1 .. n /\ n - 1 \in Nat /\ gs # <<>>
  BY DEF FramesIn
<1>2. fs[n] \in Frame /\ fs[n].return \in {0} \cup Position(s) /\ gs[n] \in Frame
  BY <1>1, ToComeTop
<1>3. \A i \in 1 .. n : i \in 1 .. n - 1 \/ i = n
  BY <1>1
<1>4. FramesIn(s, gs)
  BY <1>2, <1>3 DEF FramesIn
<1>5. Under(gs, n - 1) = Under(fs, n - 1)
  BY <1>1, UnderAgrees
<1>6. Children(gs[n]) = Children(fs[n])
  BY DEF Children
<1>7. ToCome(gs) = Under(fs, n - 1) + Children(fs[n]) * (fs[n].left - 1)
  BY <1>1, <1>5, <1>6 DEF ToCome
<1>8. Under(fs, n) = Under(fs, n - 1) + Children(fs[n]) * (fs[n].left - 1)
  BY <1>1, UnderSteps
<1>9. Under(fs, n) = ToCome(fs) - Entry(fs)
  BY ToComeTop DEF Entry
<1> QED
  BY <1>1, <1>4, <1>7, <1>8, <1>9

\* A container without entries to come is closed.
LEMMA Popped ==
    ASSUME NEW s, NEW fs, FramesIn(s, fs), fs # <<>>, fs[Len(fs)].left = 0
    PROVE  LET outer == SubSeq(fs, 1, Len(fs) - 1)
               gs == [outer EXCEPT ![Len(outer)].left = @ - 1]
           IN  outer # <<>> => FramesIn(s, gs) /\ gs # <<>> /\ ToCome(gs) = ToCome(fs)
<1> DEFINE outer == SubSeq(fs, 1, Len(fs) - 1)
           n == Len(fs)
           gs == [outer EXCEPT ![Len(outer)].left = @ - 1]
<1> SUFFICES ASSUME outer # <<>>
             PROVE  FramesIn(s, gs) /\ gs # <<>> /\ ToCome(gs) = ToCome(fs)
  OBVIOUS
<1>1. fs \in Seq(Frame) /\ n \in Nat /\ fs[n] \in Frame
  BY ToComeTop DEF FramesIn
<1>2. /\ outer \in Seq(Frame) /\ Len(outer) = n - 1
      /\ \A i \in DOMAIN outer : outer[i] = fs[i]
  BY <1>1, Stack
<1> HIDE DEF outer
<1>3. /\ n - 1 \in 1 .. n - 1 /\ n - 1 \in Nat /\ n \in 1 .. n /\ DOMAIN outer = 1 .. n - 1
      /\ (n - 1) - 1 \in Nat /\ n - 1 \in 1 .. n
  <2>1. Len(outer) > 0 /\ DOMAIN outer = 1 .. Len(outer)
    BY <1>2
  <2> QED
    BY <1>1, <1>2, <2>1
<1>4. FramesIn(s, outer) /\ outer[n - 1].left > 0 /\ outer[n - 1] \in Frame
  <2>1. \A i \in 1 .. n - 1 : outer[i] = fs[i] /\ i \in 1 .. n
    BY <1>1, <1>2, <1>3
  <2>2. \A i \in 1 .. (n - 1) - 1 : i \in 1 .. n - 1
    BY <1>1
  <2> QED
    BY <1>1, <1>2, <1>3, <2>1, <2>2 DEF FramesIn
<1>5. /\ gs \in Seq(Frame) /\ Len(gs) = n - 1 /\ \A i \in 1 .. (n - 1) - 1 : gs[i] = outer[i]
      /\ gs[n - 1] = [outer[n - 1] EXCEPT !.left = @ - 1]
  <2> DEFINE less == [outer[n - 1] EXCEPT !.left = @ - 1]
  <2>1. less \in Frame
    BY <1>4 DEF Frame
  <2>2. gs = [outer EXCEPT ![n - 1] = less]
    BY <1>2
  <2> HIDE DEF gs, less
  <2>3. /\ gs \in Seq(Frame) /\ Len(gs) = n - 1 /\ gs[n - 1] = less
        /\ \A i \in 1 .. (n - 1) - 1 : gs[i] = outer[i]
    BY <1>1, <1>2, <1>3, <2>1, <2>2
  <2> QED
    BY <2>3 DEF less
<1> HIDE DEF gs
<1>6. /\ gs[n - 1].left = outer[n - 1].left - 1 /\ gs[n - 1].kind = outer[n - 1].kind
      /\ gs[n - 1].return = outer[n - 1].return
  BY <1>4, <1>5 DEF Frame
<1>7. FramesIn(s, gs) /\ gs # <<>> /\ ToCome(gs) = ToCome(outer) - Entry(outer)
  <2>1. Len(gs) = Len(outer) /\ \A i \in 1 .. Len(outer) - 1 : gs[i] = outer[i]
    BY <1>2, <1>5
  <2>2. /\ gs[Len(outer)].left = outer[Len(outer)].left - 1
        /\ gs[Len(outer)].kind = outer[Len(outer)].kind
        /\ gs[Len(outer)].return = outer[Len(outer)].return /\ outer[Len(outer)].left > 0
    BY <1>2, <1>4, <1>6
  <2> QED
    BY <1>4, <1>5, <2>1, <2>2, Passed
<1>8. ToCome(outer) - Entry(outer) = Under(outer, n - 1)
  BY <1>2, <1>4, ToComeTop DEF Entry
<1>9. Under(outer, n - 1) = Under(fs, n - 1)
  BY <1>1, <1>2, <1>3, UnderAgrees
<1>10. ToCome(fs) = Under(fs, n - 1)
  <2>1. Children(fs[n]) * fs[n].left = 0 /\ Under(fs, n - 1) \in Int
    <3>1. Children(fs[n]) \in {1, 2}
      BY DEF Children
    <3>2. n - 1 \in 0 .. n
      BY <1>1, <1>3
    <3> QED
      BY <1>1, <3>1, <3>2, UnderSteps
  <2> QED
    BY <2>1 DEF ToCome
<1> QED
  BY <1>7, <1>8, <1>9, <1>10 DEF gs

-----------------------------------------------------------------------------
(* The steps.                                                               *)

\* A decode that gives up leaves everything as it is.
LEMMA StopOK == ASSUME IInv, Running, NEW v, Stop(v) PROVE IInv'
BY DEF Stop, input, IInv, ChildrenPaid, BytesPaid, Active, Running

\* What a step has to pay: it visits some values, opens and closes containers, and
\* copies some bytes.
LEMMA Paying ==
    ASSUME IInv, Running, section' = section, depth' = depth,
           offset' \in Position(section), FramesIn(section, frames'),
           NEW values \in Nat, visited' = visited + values,
           budgetRemaining' \in 0 .. FullBudget, frames' # <<>> => Active', Active => Active',
           values + ToCome(frames') <=
               ToCome(frames) + IF Active THEN budgetRemaining - budgetRemaining'
                                ELSE IF Active' THEN FullBudget - budgetRemaining' ELSE 0,
           NEW bytes \in Nat, copied' = copied + bytes,
           NEW charge \in Nat, charge <= payloadRemaining,
           payloadRemaining' = payloadRemaining - charge,
           Active => bytes <= charge, ~Active /\ (Active' \/ Running') => bytes = 0
    PROVE  IInv'
<1>1. FullBudget \in Nat /\ Payload \in Nat
  BY BudgetAssumption DEF FullBudget
<1>2. ToCome(frames) \in Nat /\ ToCome(frames') \in Nat
  BY ToComeTop DEF IInv
<1>3. /\ budgetRemaining \in 0 .. FullBudget /\ visited \in Nat
      /\ visited + ToCome(frames) <= IF Active THEN FullBudget - budgetRemaining ELSE 0
  BY DEF IInv, ChildrenPaid
<1>4. ChildrenPaid'
  <2>1. /\ visited' \in Nat
        /\ visited' + ToCome(frames') <= IF Active' THEN FullBudget - budgetRemaining' ELSE 0
    <3>1. CASE Active
      BY <1>1, <1>2, <1>3, <3>1
    <3>2. CASE ~Active /\ Active'
      BY <1>1, <1>2, <1>3, <3>2
    <3>3. CASE ~Active /\ ~Active'
      BY <1>1, <1>2, <1>3, <3>3
    <3> QED
      BY <3>1, <3>2, <3>3
  <2> QED
    BY <2>1 DEF ChildrenPaid, FullBudget
<1>5. BytesPaid'
  <2>1. /\ payloadRemaining \in 0 .. Payload /\ copied \in Nat
        /\ Active => copied <= Payload - payloadRemaining
        /\ ~Active => copied = 0
    BY DEF IInv, BytesPaid
  <2>2. payloadRemaining' \in 0 .. Payload /\ copied' \in Nat
    BY <1>1, <2>1
  <2>3. Active' => copied' <= Payload - payloadRemaining'
    BY <1>1, <2>1
  <2>4. Running' /\ ~Active' => copied' = 0
    BY <2>1
  <2> QED
    BY <2>2, <2>3, <2>4 DEF BytesPaid
<1> QED
  BY <1>4, <1>5 DEF IInv

\* An entry, or the root, is done.
LEMMA EntryDoneOK ==
    ASSUME IInv, frames # <<>> => Top.left > 0, EntryDone
    PROVE  /\ FramesIn(section, frames') /\ (frames' = <<>> <=> frames = <<>>)
           /\ ToCome(frames') = ToCome(frames) - Entry(frames)
           /\ frames = <<>> => ~Running'
<1>1. FramesIn(section, frames)
  BY DEF IInv
<1>2. CASE frames = <<>>
  <2>1. frames' = frames /\ verdict' = "ok"
    BY <1>2 DEF EntryDone
  <2>2. ToCome(frames) = 0 /\ Entry(frames) = 0
    BY <1>2 DEF ToCome, Entry
  <2> QED
    BY <1>1, <2>1, <2>2 DEF Running
<1>3. CASE frames # <<>>
  <2> DEFINE n == Len(frames)
             less == [Top EXCEPT !.left = @ - 1]
  <2>1. frames' = Append(Outer, less) /\ frames \in Seq(Frame) /\ n \in Nat
    BY <1>1, <1>3 DEF EntryDone, FramesIn
  <2>2. /\ Top \in Frame /\ Outer \in Seq(Frame) /\ Len(Outer) = n - 1
        /\ \A i \in DOMAIN Outer : Outer[i] = frames[i]
    BY <1>3, <2>1, Stack DEF Top, Outer
  <2>3. less \in Frame /\ less.left = Top.left - 1 /\ less.kind = Top.kind /\ less.return = Top.return
    BY <1>3, <2>2, OneLess
  <2> HIDE DEF less
  <2>4. /\ frames' \in Seq(Frame) /\ Len(frames') = Len(Outer) + 1 /\ frames'[Len(frames')] = less
        /\ \A i \in 1 .. Len(Outer) : frames'[i] = Outer[i]
    BY <2>1, <2>2, <2>3, Stack
  <2>5. (n - 1) + 1 = n /\ DOMAIN Outer = 1 .. n - 1
    BY <2>1, <2>2
  <2>6. /\ Len(frames') = Len(frames) /\ frames'[Len(frames)] = less
        /\ \A i \in 1 .. Len(frames) - 1 : frames'[i] = frames[i]
    BY <2>2, <2>4, <2>5
  <2>7. /\ frames'[Len(frames)].left = frames[Len(frames)].left - 1
        /\ frames'[Len(frames)].kind = frames[Len(frames)].kind
        /\ frames'[Len(frames)].return = frames[Len(frames)].return
    BY <2>3, <2>6 DEF Top
  <2>8. frames[Len(frames)].left > 0
    BY <1>3 DEF Top
  <2> QED
    BY <1>1, <1>3, <2>4, <2>6, <2>7, <2>8, Passed
<1> QED
  BY <1>2, <1>3

\* A value at o, whose key took keyBytes, in the entry that is at hand.
LEMMA ScalarOK ==
    ASSUME IInv, Running, frames # <<>> => Top.left > 0, NEW o \in Position(section),
           NEW keyBytes \in Nat, ~Active => keyBytes = 0,
           resolveCtrlData(section, o).kind \in {"string", "number"},
           decodeScalar(Entry(frames), keyBytes, resolveCtrlData(section, o))
    PROVE  IInv'
<1> DEFINE r == resolveCtrlData(section, o)
           next == IF r.next # 0 THEN r.next ELSE r.data
           bytes == keyBytes + IF r.kind = "string" THEN r.n ELSE 0
<1>1. section \in Seq(Record)
  BY DEF IInv
<1>2. next \in Position(section)
  BY <1>1, PlainEnds
<1>3. r.n \in Nat
  BY <1>1, Resolved
<1>4. CASE PayloadCharge(bytes) > payloadRemaining
  BY <1>4, StopOK DEF decodeScalar
<1>5. CASE ~(PayloadCharge(bytes) > payloadRemaining)
  <2>1. /\ Progress(next, Entry(frames), bytes) /\ EntryDone
        /\ UNCHANGED <<input, path, depth, budgetRemaining>>
    BY <1>5 DEF decodeScalar
  <2> HIDE DEF next, r
  <2>2. bytes \in Nat
    BY <1>3
  <2> HIDE DEF bytes
  <2>3. /\ offset' = next /\ visited' = visited + Entry(frames) /\ copied' = copied + bytes
        /\ payloadRemaining' = payloadRemaining - PayloadCharge(bytes)
        /\ section' = section /\ depth' = depth /\ budgetRemaining' = budgetRemaining
    BY <2>1 DEF Progress, input
  <2>4. /\ FramesIn(section, frames') /\ (frames' = <<>> <=> frames = <<>>)
        /\ ToCome(frames') = ToCome(frames) - Entry(frames)
        /\ frames = <<>> => ~Running'
    BY <2>1, EntryDoneOK
  <2>5. Entry(frames) \in Nat /\ ToCome(frames) \in Nat
    BY ToComeTop DEF Entry, Children, IInv
  <2>6. /\ budgetRemaining \in 0 .. FullBudget /\ (frames # <<>> => Active)
        /\ payloadRemaining \in Nat
    BY DEF IInv, ChildrenPaid, BytesPaid
  <2>7. PayloadCharge(bytes) \in Nat /\ (Active => bytes <= PayloadCharge(bytes))
        /\ PayloadCharge(bytes) <= payloadRemaining
    BY <1>5, <2>2, <2>6 DEF PayloadCharge
  <2>8. Active' <=> Active
    BY <2>3 DEF Active
  <2>9. ~Active => frames = <<>> /\ ~Running'
    BY <2>4, <2>6
  <2>10. Entry(frames) + ToCome(frames') <=
             ToCome(frames) + IF Active THEN budgetRemaining - budgetRemaining'
                              ELSE IF Active' THEN FullBudget - budgetRemaining' ELSE 0
    BY <2>3, <2>4, <2>5, <2>6, <2>8
  <2> QED
    BY <1>2, <2>2, <2>3, <2>4, <2>5, <2>6, <2>7, <2>8, <2>9, <2>10, Paying
<1> QED
  BY <1>4, <1>5

LEMMA ContainerOK ==
    ASSUME IInv, Running, frames # <<>> => Top.left > 0, NEW o \in Position(section),
           NEW d \in Nat, NEW keyBytes \in Nat, ~Active => keyBytes = 0,
           PayloadCharge(keyBytes) <= payloadRemaining,
           resolveCtrlData(section, o).kind \in {"map", "slice"},
           NEW dest \in {"all", "reused", "struct"},
           decodeContainer(d, Entry(frames), keyBytes, resolveCtrlData(section, o), dest)
    PROVE  IInv'
<1> DEFINE r == resolveCtrlData(section, o)
           before == IF Active THEN budgetRemaining ELSE FullBudget
           after == reserveActiveContainer(before, r.kind, r.n)
           sized == IF dest = "all" THEN validateContainerSize(r.kind, r.n, r.data, d + 1) ELSE "ok"
           f == [kind |-> r.kind, dest |-> dest, left |-> r.n, depth |-> d + 1, return |-> r.next]
<1>1. section \in Seq(Record)
  BY DEF IInv
<1>2. /\ r.n \in Nat /\ r.data \in Position(section) /\ r.next \in Nat
      /\ r.next = 0 \/ r.next \in Position(section)
  BY <1>1, Resolved
<1>3. CASE after = Exhausted \/ sized # "ok"
  BY <1>3, StopOK DEF decodeContainer
<1>4. CASE after # Exhausted /\ sized = "ok"
  <2>1. /\ budgetRemaining' = after /\ frames' = Append(frames, f)
        /\ Progress(r.data, Entry(frames), keyBytes)
        /\ UNCHANGED <<input, path, depth, verdict>>
    BY <1>4 DEF decodeContainer
  <2>2. r.kind \in {"map", "slice"}
    OBVIOUS
  <2> HIDE DEF r, sized
  <2>3. /\ offset' = r.data /\ visited' = visited + Entry(frames) /\ copied' = copied + keyBytes
        /\ payloadRemaining' = payloadRemaining - PayloadCharge(keyBytes)
        /\ section' = section /\ depth' = depth /\ verdict' = verdict
    BY <2>1 DEF Progress, input
  <2>4. /\ f \in Frame /\ f.return \in {0} \cup Position(section) /\ f.left = r.n
        /\ f.kind = r.kind
    BY <1>2, <2>2 DEF Frame
  <2> HIDE DEF f
  <2>5. /\ budgetRemaining \in 0 .. FullBudget /\ (frames # <<>> => Active)
        /\ FullBudget \in Nat /\ before \in 0 .. FullBudget /\ payloadRemaining \in Nat
    BY BudgetAssumption DEF IInv, ChildrenPaid, BytesPaid, FullBudget
  <2>6. /\ after \in 1 .. before /\ Values(r) \in Nat /\ after = before - Values(r)
        /\ Values(r) = Children(r) * r.n
    BY <1>2, <1>4, <2>2, <2>5, Reserved
  <2>7. Children(f) * f.left = Values(r)
    BY <2>4, <2>6 DEF Children
  <2>8. /\ FramesIn(section, frames') /\ frames' # <<>>
        /\ ToCome(frames') = ToCome(frames) - Entry(frames) + Values(r)
    BY <2>1, <2>4, <2>7, Pushed DEF IInv, Top
  <2>9. Entry(frames) \in Nat /\ ToCome(frames) \in Nat
    BY ToComeTop DEF Entry, Children, IInv
  <2>10. Active' /\ budgetRemaining' \in 0 .. FullBudget
    BY <2>1, <2>5, <2>6 DEF Active
  <2>11. Entry(frames) + ToCome(frames') <=
             ToCome(frames) + IF Active THEN budgetRemaining - budgetRemaining'
                              ELSE IF Active' THEN FullBudget - budgetRemaining' ELSE 0
    <3>1. Values(r) = before - budgetRemaining'
      BY <2>1, <2>5, <2>6
    <3> QED
      BY <2>5, <2>6, <2>8, <2>9, <2>10, <3>1
  <2>12. PayloadCharge(keyBytes) \in Nat /\ (Active => keyBytes <= PayloadCharge(keyBytes))
    BY DEF PayloadCharge
  <2> QED
    BY <1>2, <2>3, <2>8, <2>9, <2>10, <2>11, <2>12, Paying
<1> QED
  BY <1>3, <1>4

\* Progress past an entry without opening a container; what was skipped on the way has
\* been paid for out of the budget.
LEMMA PassedOver ==
    ASSUME IInv, Running, frames # <<>> => Top.left > 0, NEW seen \in Nat,
           section' = section, depth' = depth, offset' \in Position(section),
           visited' = visited + (Entry(frames) + seen), EntryDone,
           budgetRemaining' \in 0 .. FullBudget, seen = budgetRemaining - budgetRemaining',
           Active => Active',
           NEW bytes \in Nat, copied' = copied + bytes, ~Active => bytes = 0,
           NEW charge \in Nat, charge <= payloadRemaining,
           payloadRemaining' = payloadRemaining - charge, Active => bytes <= charge
    PROVE  IInv'
<1>1. /\ FramesIn(section, frames') /\ (frames' = <<>> <=> frames = <<>>)
      /\ ToCome(frames') = ToCome(frames) - Entry(frames)
  BY EntryDoneOK
<1>2. Entry(frames) \in Nat /\ ToCome(frames) \in Nat /\ ToCome(frames') \in Nat
  BY <1>1, ToComeTop DEF Entry, Children, IInv
<1>3. /\ budgetRemaining \in 0 .. FullBudget /\ (frames # <<>> => Active)
      /\ FullBudget \in Nat
  BY BudgetAssumption DEF IInv, ChildrenPaid, FullBudget
<1>4. frames' # <<>> => Active'
  BY <1>1, <1>3
<1>5. ~Active => budgetRemaining' = 0 /\ seen = 0 /\ ~Active'
  <2> SUFFICES ASSUME ~Active PROVE budgetRemaining' = 0 /\ seen = 0 /\ ~Active'
    OBVIOUS
  <2>1. budgetRemaining = 0 /\ budgetRemaining' \in Nat
    BY <1>3 DEF Active
  <2>2. \A x, y \in Nat : x = 0 - y => x = 0 /\ y = 0
    OBVIOUS
  <2>3. budgetRemaining' = 0 /\ seen = 0
    BY <2>1, <2>2
  <2> QED
    BY <2>3 DEF Active
<1>6. Entry(frames) + seen + ToCome(frames') <=
          ToCome(frames) + IF Active THEN budgetRemaining - budgetRemaining'
                           ELSE IF Active' THEN FullBudget - budgetRemaining' ELSE 0
  <2>1. CASE Active
    <3>1. seen = budgetRemaining - budgetRemaining'
      BY <1>3
    <3>2. Entry(frames) + seen + ToCome(frames') = ToCome(frames) + seen
      BY <1>1, <1>2
    <3> QED
      BY <1>2, <2>1, <3>1, <3>2
  <2>2. CASE ~Active
    BY <1>1, <1>2, <1>5, <2>2
  <2> QED
    BY <2>1, <2>2
<1>7. Entry(frames) + seen \in Nat
  BY <1>2
<1> QED
  BY <1>1, <1>4, <1>5, <1>6, <1>7, Paying

\* decodeValue and tryCustomUnmarshal.
LEMMA DecodeAtOK ==
    ASSUME IInv, Running, frames # <<>> => Top.left > 0, NEW o \in Position(section),
           NEW d \in Nat, NEW keyBytes \in Nat, ~Active => keyBytes = 0,
           PayloadCharge(keyBytes) <= payloadRemaining,
           decodeAt(o, d, Entry(frames), keyBytes)
    PROVE  IInv'
<1> DEFINE r == resolveCtrlData(section, o)
           at == IF r.next # 0 THEN d + 1 ELSE d
           end == nextValueOffset(section, o, 1)
           custom == /\ Progress(end, Entry(frames), keyBytes) /\ EntryDone
                     /\ UNCHANGED <<input, path, depth, budgetRemaining>>
<1>1. section \in Seq(Record)
  BY DEF IInv
<1>2. at \in Nat
  OBVIOUS
<1>3. \/ \E v : Stop(v)
      \/ r.kind \in {"string", "number"} /\ decodeScalar(Entry(frames), keyBytes, r)
      \/ /\ r.kind \in {"map", "slice"}
         /\ \E dest \in Destinations(r.kind) : decodeContainer(at, Entry(frames), keyBytes, r, dest)
      \/ end # Bad /\ custom
  BY DEF decodeAt, decodeValue, tryCustomUnmarshal
<1>4. CASE \E v : Stop(v)
  BY <1>4, StopOK
<1>5. CASE r.kind \in {"string", "number"} /\ decodeScalar(Entry(frames), keyBytes, r)
  BY <1>5, ScalarOK
<1>6. CASE /\ r.kind \in {"map", "slice"}
           /\ \E dest \in Destinations(r.kind) :
                  decodeContainer(at, Entry(frames), keyBytes, r, dest)
  <2>1. PICK dest \in Destinations(r.kind) : decodeContainer(at, Entry(frames), keyBytes, r, dest)
    BY <1>6
  <2>2. dest \in {"all", "reused", "struct"}
    BY DEF Destinations
  <2> HIDE DEF at
  <2> QED
    BY <1>2, <1>6, <2>1, <2>2, ContainerOK
<1>7. CASE end # Bad /\ custom
  <2>1. end \in Position(section)
    <3>1. end \in {Bad} \cup (o .. Len(section) + 1) /\ Len(section) \in Nat
      BY <1>1, SkipsToTheEnd, EndOfFinds, RecordsTyped DEF Position
    <3> HIDE DEF end
    <3> QED
      BY <1>7, <3>1 DEF Position
  <2>2. /\ offset' = end /\ visited' = visited + Entry(frames) /\ copied' = copied + keyBytes
        /\ payloadRemaining' = payloadRemaining - PayloadCharge(keyBytes) /\ EntryDone
        /\ section' = section /\ depth' = depth /\ budgetRemaining' = budgetRemaining
    BY <1>7 DEF Progress, input
  <2> HIDE DEF end
  <2>3. PayloadCharge(keyBytes) \in Nat /\ (Active => keyBytes <= PayloadCharge(keyBytes))
    BY DEF PayloadCharge
  <2>4. budgetRemaining \in 0 .. FullBudget /\ 0 = budgetRemaining - budgetRemaining
    BY BudgetAssumption DEF IInv, ChildrenPaid, FullBudget
  <2>5. Active' <=> Active
    BY <2>2 DEF Active
  <2>6. Entry(frames) + 0 = Entry(frames)
    BY DEF Entry, Children
  <2> QED
    BY <2>1, <2>2, <2>3, <2>4, <2>5, <2>6, PassedOver
<1> QED
  BY <1>3, <1>4, <1>5, <1>6, <1>7

LEMMA DecodeRootOK == ASSUME IInv, DecodeRoot PROVE IInv'
<1>1. /\ Running /\ frames = <<>> /\ decodeAt(offset, depth, 0, 0)
      /\ offset \in Position(section) /\ depth \in Nat
  BY DEF DecodeRoot, IInv
<1>2. Entry(frames) = 0 /\ PayloadCharge(0) = 0 /\ payloadRemaining >= 0
  BY <1>1, BudgetAssumption DEF Entry, PayloadCharge, IInv, BytesPaid
<1> QED
  BY <1>1, <1>2, DecodeAtOK

\* The innermost container, when it is at an entry.
LEMMA AtEntry ==
    ASSUME IInv, NEW kind, NEW dests, In(kind, dests)
    PROVE  /\ Running /\ frames # <<>> /\ Active /\ Top \in Frame /\ Top.left > 0
           /\ Top.depth \in Nat /\ Top.dest \in dests
           /\ Entry(frames) = IF kind = "map" THEN 2 ELSE 1
<1>1. Running /\ frames # <<>> /\ Top.kind = kind /\ Top.left > 0 /\ Top.dest \in dests
  BY DEF In
<1>2. Top \in Frame
  BY <1>1, ToComeTop DEF IInv, Top
<1>3. Top.depth \in Nat
  BY <1>2 DEF Frame
<1> QED
  BY <1>1, <1>2, <1>3 DEF IInv, ChildrenPaid, Entry, Children, Top

LEMMA DecodeElementOK == ASSUME IInv, decodeElement PROVE IInv'
<1>1. /\ Running /\ frames # <<>> /\ Active /\ Top.left > 0 /\ Top.depth \in Nat
      /\ Entry(frames) = 1
  BY AtEntry DEF decodeElement
<1>2. offset \in Position(section) /\ PayloadCharge(0) = 0 /\ payloadRemaining >= 0
  BY BudgetAssumption DEF PayloadCharge, IInv, BytesPaid
<1> QED
  BY <1>1, <1>2, DecodeAtOK DEF decodeElement

\* The key of an entry.
LEMMA KeyOK ==
    ASSUME IInv, KeyEnd # Bad
    PROVE  KeyEnd \in Position(section) /\ KeyLength \in Nat
<1>1. section \in Seq(Record) /\ offset \in Position(section)
  BY DEF IInv
<1>2. KeyEnd \in Position(section)
  BY <1>1, KeyEnds DEF KeyEnd
<1>3. resolveCtrlData(section, offset).kind = "string"
  BY DEF KeyEnd, decodeKey
<1> QED
  BY <1>1, <1>2, <1>3, Resolved DEF KeyLength

LEMMA DecodeEntryOK == ASSUME IInv, decodeEntry PROVE IInv'
<1> DEFINE keyBytes == IF Top.dest = "all" THEN KeyLength ELSE 0
<1>1. /\ Running /\ frames # <<>> /\ Active /\ Top.left > 0 /\ Top.depth \in Nat
      /\ Entry(frames) = 2
  BY AtEntry DEF decodeEntry
<1>2. CASE KeyEnd = Bad \/ PayloadCharge(keyBytes) > payloadRemaining
  BY <1>1, <1>2, StopOK DEF decodeEntry
<1>3. CASE KeyEnd # Bad /\ ~(PayloadCharge(keyBytes) > payloadRemaining)
  <2>1. decodeAt(KeyEnd, Top.depth, 2, keyBytes)
    BY <1>3 DEF decodeEntry
  <2>2. KeyEnd \in Position(section) /\ keyBytes \in Nat
    BY <1>3, KeyOK
  <2> HIDE DEF keyBytes
  <2>3. PayloadCharge(keyBytes) <= payloadRemaining
    BY <1>3, <2>2, BudgetAssumption DEF PayloadCharge, IInv, BytesPaid
  <2> QED
    BY <1>1, <2>1, <2>2, <2>3, DecodeAtOK
<1> QED
  BY <1>2, <1>3

\* What holds of the numbers, where they are needed as such.
LEMMA Numbers ==
    ASSUME IInv
    PROVE  /\ FullBudget \in Nat /\ budgetRemaining \in 0 .. FullBudget
           /\ budgetRemaining \in Nat /\ (Active => budgetRemaining \in Nat \ {0})
           /\ visited \in Nat /\ copied \in Nat /\ payloadRemaining \in Nat
           /\ PayloadCharge(0) = 0
           /\ \A n \in Nat : PayloadCharge(n) \in Nat
           /\ \A b \in 1 .. budgetRemaining : b \in 0 .. FullBudget /\ b # 0 /\ b \in Nat
<1>1. FullBudget \in Nat /\ budgetRemaining \in 0 .. FullBudget
  BY BudgetAssumption DEF FullBudget, IInv, ChildrenPaid
<1>2. visited \in Nat /\ copied \in Nat /\ payloadRemaining \in Nat
  BY BudgetAssumption DEF IInv, ChildrenPaid, BytesPaid
<1>3. PayloadCharge(0) = 0 /\ \A n \in Nat : PayloadCharge(n) \in Nat
  BY DEF PayloadCharge
<1> QED
  BY <1>1, <1>2, <1>3 DEF Active

LEMMA Sums ==
    /\ \A x \in Int : x + 0 = x /\ x - 0 = x /\ x - x = 0
    /\ \A x, y, z \in Int : x + y = z => y = z - x
    /\ \A x, y, z \in Int : x + (y + z) = x + y + z
OBVIOUS

\* A value of an entry is skipped, and all it holds is paid for.
LEMMA SkippedOver ==
    ASSUME IInv, Running, frames # <<>>, Active, Top.left > 0, Entry(frames) = 2,
           NEW o \in Position(section), NEW skip, skip = budgetedSkip(o, 1, budgetRemaining),
           skip.budget # Exhausted, skip.end # Bad,
           section' = section, depth' = depth, offset' = skip.end,
           visited' = visited + 2 + skip.seen, budgetRemaining' = skip.budget, EntryDone,
           copied' = copied, NEW charge \in Nat, charge <= payloadRemaining,
           payloadRemaining' = payloadRemaining - charge
    PROVE  IInv'
<1>1. section \in Seq(Record)
  BY DEF IInv
<1>2. /\ skip.end \in Position(section) /\ skip.seen \in Nat
      /\ skip.budget \in 1 .. budgetRemaining /\ skip.budget + skip.seen = budgetRemaining
  BY <1>1, Numbers, SkipPaid
<1> DEFINE b == skip.budget
           seen == skip.seen
<1>3. b \in 0 .. FullBudget /\ b # 0 /\ b \in Nat /\ seen \in Nat
  <2>1. b \in 1 .. budgetRemaining /\ seen \in Nat
    BY <1>2
  <2> HIDE DEF b
  <2> QED
    BY <2>1, Numbers
<1>4. b + seen = budgetRemaining
  BY <1>2
<1> HIDE DEF b, seen
<1>5. seen = budgetRemaining - b
  <2>1. b \in Int /\ seen \in Int /\ budgetRemaining \in Int
    BY <1>3, Numbers
  <2> QED
    BY <1>4, <2>1, Sums
<1>6. /\ budgetRemaining' \in 0 .. FullBudget /\ seen = budgetRemaining - budgetRemaining'
      /\ Active'
  BY <1>3, <1>5 DEF b, Active
<1>7. visited' = visited + (Entry(frames) + seen) /\ copied' = copied + 0
  <2>1. visited \in Int /\ copied \in Int /\ seen \in Int /\ 2 \in Int
    BY <1>3, Numbers
  <2>2. visited' = visited + 2 + seen
    BY DEF seen
  <2> QED
    BY <2>1, <2>2, Sums
<1> QED
  BY <1>2, <1>3, <1>6, <1>7, PassedOver

LEMMA SkipFieldOK == ASSUME IInv, skipField PROVE IInv'
<1> DEFINE skip == budgetedSkip(KeyEnd, 1, budgetRemaining)
<1>1. Running /\ frames # <<>> /\ Active /\ Top.left > 0 /\ Entry(frames) = 2
  BY AtEntry DEF skipField
<1>2. CASE KeyEnd = Bad \/ skip.budget = Exhausted \/ skip.end = Bad
  BY <1>1, <1>2, StopOK DEF skipField
<1>3. CASE KeyEnd # Bad /\ skip.budget # Exhausted /\ skip.end # Bad
  <2>1. /\ Progress(skip.end, 2 + skip.seen, 0) /\ budgetRemaining' = skip.budget
        /\ EntryDone /\ UNCHANGED <<input, path, depth>>
    BY <1>3 DEF skipField
  <2>2. KeyEnd \in Position(section) /\ section \in Seq(Record)
    BY <1>3, KeyOK DEF IInv
  <2>3. skip.seen \in Nat
    BY <1>1, <1>3, <2>2, Numbers, SkipPaid
  <2> HIDE DEF skip
  <2>4. /\ offset' = skip.end /\ visited' = visited + (2 + skip.seen) /\ copied' = copied + 0
        /\ payloadRemaining' = payloadRemaining - 0 /\ section' = section /\ depth' = depth
    BY <2>1, Numbers DEF Progress, input
  <2>5. visited' = visited + 2 + skip.seen /\ copied' = copied /\ 0 <= payloadRemaining
    BY <2>3, <2>4, Numbers
  <2> QED
    BY <1>1, <1>3, <2>1, <2>2, <2>4, <2>5, SkippedOver DEF skip
<1> QED
  BY <1>2, <1>3

\* No containers are open.
LEMMA NoFrames == \A s : FramesIn(s, <<>>) /\ ToCome(<<>>) = 0
BY DEF FramesIn, ToCome

LEMMA ContainerDoneOK == ASSUME IInv, containerDone PROVE IInv'
<1>1. /\ Running /\ frames # <<>> /\ Top.left = 0
      /\ offset' = IF Top.return # 0 THEN Top.return ELSE offset
      /\ section' = section /\ depth' = depth /\ budgetRemaining' = budgetRemaining
      /\ payloadRemaining' = payloadRemaining /\ visited' = visited /\ copied' = copied
  BY DEF containerDone, input
<1>2. /\ section \in Seq(Record) /\ offset \in Position(section) /\ FramesIn(section, frames)
      /\ Active
  BY <1>1 DEF IInv, ChildrenPaid
<1>3. offset' \in Position(section)
  BY <1>1, <1>2, ToComeTop DEF Top
<1>4. FramesIn(section, frames') /\ ToCome(frames') <= ToCome(frames)
  <2>1. ToCome(frames) \in Nat
    BY <1>2, ToComeTop
  <2>2. CASE Outer = <<>>
    <3>1. frames' = <<>>
      BY <2>2 DEF containerDone
    <3> QED
      BY <2>1, <3>1, NoFrames
  <2>3. CASE Outer # <<>>
    <3>1. frames' = [Outer EXCEPT ![Len(Outer)].left = @ - 1]
      BY <2>3 DEF containerDone
    <3> QED
      <4>1. FramesIn(section, frames') /\ ToCome(frames') = ToCome(frames)
        <5>1. frames[Len(frames)].left = 0
          BY <1>1 DEF Top
        <5> QED
          BY <1>1, <1>2, <2>3, <3>1, <5>1, Popped DEF Outer
      <4> QED
        BY <2>1, <4>1
  <2> QED
    BY <2>2, <2>3
<1>5. Active' /\ ToCome(frames) \in Nat /\ ToCome(frames') \in Nat
  BY <1>1, <1>2, <1>4, ToComeTop DEF Active
<1>6. /\ visited' = visited + 0 /\ copied' = copied + 0
      /\ payloadRemaining' = payloadRemaining - 0 /\ 0 <= payloadRemaining
      /\ 0 + ToCome(frames') <= ToCome(frames) + (budgetRemaining - budgetRemaining')
  <2>1. visited \in Int /\ copied \in Int /\ payloadRemaining \in Nat /\ budgetRemaining \in Int
    BY Numbers
  <2>2. /\ visited' = visited + 0 /\ copied' = copied + 0
        /\ payloadRemaining' = payloadRemaining - 0 /\ budgetRemaining - budgetRemaining' = 0
    BY <1>1, <2>1, Sums
  <2> QED
    BY <1>4, <1>5, <2>1, <2>2
<1>7. budgetRemaining' \in 0 .. FullBudget
  BY <1>1, Numbers
<1> QED
  BY <1>1, <1>2, <1>3, <1>4, <1>5, <1>6, <1>7, Paying

-----------------------------------------------------------------------------
(* decodePath.                                                              *)

LEMMA PathKeyOK == ASSUME IInv, PathKey PROVE IInv'
<1> DEFINE charge == PayloadCharge(KeyLength)
           skip == budgetedSkip(KeyEnd, 1, budgetRemaining)
           found == /\ offset' = KeyEnd /\ path' = path - 1 /\ frames' = <<>>
                    /\ visited' = visited + 1 /\ payloadRemaining' = payloadRemaining - charge
                    /\ UNCHANGED <<input, depth, budgetRemaining, copied, verdict>>
           passed == /\ skip.budget # Exhausted /\ skip.end # Bad
                     /\ offset' = skip.end /\ visited' = visited + 2 + skip.seen
                     /\ payloadRemaining' = payloadRemaining - charge
                     /\ budgetRemaining' = skip.budget /\ EntryDone
                     /\ UNCHANGED <<input, path, depth, copied>>
<1>1. Running /\ frames # <<>> /\ Active /\ Top.left > 0 /\ Entry(frames) = 2
  BY AtEntry DEF PathKey
<1>2. \/ \E v : Stop(v)
      \/ KeyEnd # Bad /\ ~(charge > payloadRemaining) /\ (found \/ passed)
  BY DEF PathKey
<1>3. CASE \E v : Stop(v)
  BY <1>1, <1>3, StopOK
<1>4. CASE KeyEnd # Bad /\ ~(charge > payloadRemaining) /\ (found \/ passed)
  <2>1. /\ KeyEnd \in Position(section) /\ charge \in Nat /\ charge <= payloadRemaining
    BY <1>4, KeyOK, Numbers
  <2> HIDE DEF charge
  <2>2. CASE found
    <3>1. /\ section' = section /\ depth' = depth /\ budgetRemaining' = budgetRemaining
          /\ copied' = copied + 0 /\ Active'
      BY <1>1, <2>2, Numbers DEF input, Active
    <3>2. ToCome(frames) \in Nat /\ ToCome(frames) >= 2
      BY <1>1, ToComeTop DEF IInv, Entry, Top
    <3>3. 1 + ToCome(frames') <= ToCome(frames) + (budgetRemaining - budgetRemaining')
      BY <2>2, <3>1, <3>2, Numbers, NoFrames
    <3>4. FramesIn(section, frames') /\ budgetRemaining' \in 0 .. FullBudget
      BY <2>2, <3>1, Numbers, NoFrames
    <3> QED
      BY <1>1, <2>1, <2>2, <3>1, <3>3, <3>4, Paying
  <2>3. CASE passed
    <3>1. section' = section /\ depth' = depth /\ copied' = copied
      BY <2>3 DEF input
    <3> HIDE DEF skip
    <3> QED
      BY <1>1, <2>1, <2>3, <3>1, SkippedOver DEF skip
  <2> QED
    BY <1>4, <2>2, <2>3
<1> QED
  BY <1>2, <1>3, <1>4

LEMMA FollowPathOK == ASSUME IInv, FollowPath PROVE IInv'
<1> DEFINE r == resolveCtrlData(section, offset)
           left == reserveActiveContainer(budgetRemaining, r.kind, r.n)
           f == [kind |-> "map", dest |-> "path", left |-> r.n, depth |-> depth, return |-> 0]
           into == /\ r.kind = "map" /\ frames' = <<f>>
                   /\ budgetRemaining' = left /\ offset' = r.data
                   /\ UNCHANGED <<input, path, depth, payloadRemaining, visited, copied, verdict>>
           skip(i) == budgetedSkip(r.data, i, left)
           along(i) == /\ skip(i).budget # Exhausted /\ skip(i).end # Bad
                       /\ Progress(skip(i).end, i + skip(i).seen, 0)
                       /\ budgetRemaining' = skip(i).budget /\ path' = path - 1
                       /\ UNCHANGED <<input, depth, frames, verdict>>
<1>1. /\ Running /\ frames = <<>> /\ section \in Seq(Record) /\ offset \in Position(section)
      /\ depth \in Nat
  BY DEF FollowPath, IInv
<1>2. \/ \E v : Stop(v)
      \/ left # Exhausted /\ into
      \/ left # Exhausted /\ r.kind = "slice" /\ \E i \in 0 .. r.n - 1 : along(i)
  <2> HIDE DEF into
  <2>1. \/ \E v : Stop(v)
        \/ /\ r.kind \notin {"bad", "string", "number"}
           /\ ~(r.kind \in {"map", "slice"} /\ left = Exhausted)
           /\ \/ into
              \/ r.kind = "slice" /\ \E i \in 0 .. r.n - 1 : along(i)
    BY DEF FollowPath, into
  <2>2. into => r.kind = "map"
    BY DEF into
  <2> HIDE DEF along, left, r
  <2> QED
    BY <2>1, <2>2
<1>3. CASE \E v : Stop(v)
  BY <1>1, <1>3, StopOK
<1>4. ASSUME left # Exhausted, r.kind \in {"map", "slice"}
      PROVE  /\ r.n \in Nat /\ r.data \in Position(section)
             /\ left \in 1 .. budgetRemaining /\ left = budgetRemaining - Values(r)
             /\ Values(r) = Children(r) * r.n /\ Values(r) \in Nat
             /\ left \in Nat \ {0} /\ left \in 0 .. FullBudget /\ Active
  <2>1. r.n \in Nat /\ r.data \in Position(section)
    BY <1>1, <1>4, Resolved
  <2> HIDE DEF r
  <2>2. /\ left \in 1 .. budgetRemaining /\ Values(r) \in Nat
        /\ left = budgetRemaining - Values(r) /\ Values(r) = Children(r) * r.n
    BY <1>4, <2>1, Numbers, Reserved
  <2> HIDE DEF left
  <2>3. left \in 0 .. FullBudget /\ left # 0 /\ left \in Nat
    BY <2>2, Numbers
  <2>4. Active
    BY <2>2, Numbers DEF Active
  <2> QED
    BY <2>1, <2>2, <2>3, <2>4
<1>5. /\ visited \in Int /\ copied \in Int /\ payloadRemaining \in Nat
      /\ budgetRemaining \in Int /\ ToCome(frames) = 0
  BY <1>1, Numbers, NoFrames
<1>6. CASE left # Exhausted /\ into
  <2>1. /\ frames' = <<f>> /\ budgetRemaining' = left /\ offset' = r.data
        /\ section' = section /\ depth' = depth /\ payloadRemaining' = payloadRemaining
        /\ visited' = visited /\ copied' = copied /\ r.kind = "map"
    BY <1>6 DEF input
  <2>2. /\ r.n \in Nat /\ r.data \in Position(section) /\ left = budgetRemaining - Values(r)
        /\ Values(r) = Children(r) * r.n /\ Values(r) \in Nat
        /\ left \in Nat \ {0} /\ left \in 0 .. FullBudget /\ Active
    BY <1>4, <1>6
  <2> HIDE DEF left, r
  <2>3. f \in Frame /\ f.return = 0 /\ f.left = r.n /\ f.kind = "map"
    BY <1>1, <2>2 DEF Frame
  <2> HIDE DEF f
  <2>4. <<f>> = Append(frames, f)
    BY <1>1
  <2>5. /\ FramesIn(section, frames')
        /\ ToCome(frames') = ToCome(frames) - Entry(frames) + Children(f) * f.left
    BY <1>1, <2>1, <2>3, <2>4, Pushed DEF IInv
  <2>6. Children(f) * f.left = Values(r) /\ Entry(frames) = 0
    BY <1>1, <2>1, <2>2, <2>3 DEF Children, Entry
  <2>7. ToCome(frames') = Values(r)
    BY <1>5, <2>2, <2>5, <2>6
  <2>8. /\ visited' = visited + 0 /\ copied' = copied + 0
        /\ payloadRemaining' = payloadRemaining - 0 /\ 0 <= payloadRemaining
    BY <1>5, <2>1, Sums
  <2>9. 0 + ToCome(frames') <= ToCome(frames) + (budgetRemaining - budgetRemaining')
    <3>1. budgetRemaining - left = Values(r)
      BY <1>5, <2>2
    <3> QED
      BY <1>5, <2>1, <2>2, <2>7, <3>1
  <2>10. Active'
    BY <2>1, <2>2 DEF Active
  <2> QED
    BY <1>1, <2>1, <2>2, <2>5, <2>8, <2>9, <2>10, Paying
<1>7. CASE left # Exhausted /\ r.kind = "slice" /\ \E i \in 0 .. r.n - 1 : along(i)
  <2>1. /\ r.n \in Nat /\ r.data \in Position(section) /\ left = budgetRemaining - Values(r)
        /\ Values(r) = r.n /\ left \in Nat \ {0} /\ left \in 0 .. FullBudget /\ Active
        /\ left \in 1 .. budgetRemaining
    BY <1>4, <1>7 DEF Values
  <2>2. PICK i \in 0 .. r.n - 1 : along(i)
    BY <1>7
  <2> HIDE DEF left, r
  <2> DEFINE e == skip(i)
  <2>3. /\ e.budget # Exhausted /\ e.end # Bad /\ Progress(e.end, i + e.seen, 0)
        /\ budgetRemaining' = e.budget /\ UNCHANGED <<input, depth, frames, verdict>>
    BY <2>2
  <2>4. /\ e.end \in Position(section) /\ e.seen \in Nat
        /\ e.budget \in 1 .. left /\ e.budget + e.seen = left
    <3>1. i \in Nat
      BY <2>1
    <3> QED
      BY <1>1, <2>1, <2>3, <3>1, SkipPaid
  <2> HIDE DEF e
  <2>5. /\ offset' = e.end /\ visited' = visited + (i + e.seen) /\ copied' = copied + 0
        /\ payloadRemaining' = payloadRemaining - 0 /\ 0 <= payloadRemaining
        /\ section' = section /\ depth' = depth /\ frames' = frames
    BY <1>5, <2>3, Numbers DEF Progress, input
  <2> DEFINE b == e.budget
             seen == e.seen
  <2>6. b \in 1 .. left /\ seen \in Nat /\ b + seen = left /\ budgetRemaining' = b
    BY <2>3, <2>4
  <2> HIDE DEF b, seen
  <2>7. b \in 1 .. budgetRemaining /\ b \in Nat
    BY <1>5, <2>1, <2>6
  <2>8. b \in 0 .. FullBudget /\ b # 0
    BY <2>7, Numbers
  <2>9. i + seen \in Nat /\ i + seen <= budgetRemaining - b
    BY <1>5, <2>1, <2>6, <2>7
  <2>10. (i + seen) + ToCome(frames') <= ToCome(frames) + (budgetRemaining - budgetRemaining')
    BY <1>5, <2>5, <2>6, <2>7, <2>9
  <2>11. Active' /\ visited' = visited + (i + seen) /\ FramesIn(section, frames')
    BY <2>5, <2>6, <2>8 DEF Active, seen, IInv
  <2> QED
    BY <1>1, <2>1, <2>4, <2>5, <2>6, <2>8, <2>9, <2>10, <2>11, Paying
<1> QED
  BY <1>2, <1>3, <1>6, <1>7

-----------------------------------------------------------------------------

LEMMA InitIInv == Init => IInv
<1> SUFFICES ASSUME Init PROVE IInv
  OBVIOUS
<1>1. /\ section \in Seq(Record) /\ offset \in DOMAIN section /\ path \in 0 .. MaxPath
      /\ depth = path /\ frames = <<>> /\ visited = 0 /\ copied = 0
      /\ payloadRemaining = Payload
      /\ budgetRemaining = FullBudget \/ budgetRemaining = 0
  BY BudgetAssumption DEF Init
<1>2. offset \in Position(section) /\ depth \in Nat
  BY <1>1, BudgetAssumption DEF Position
<1>3. FramesIn(section, frames) /\ ToCome(frames) = 0
  BY <1>1, NoFrames
<1>4. FullBudget \in Nat /\ Payload \in Nat
  BY BudgetAssumption DEF FullBudget
<1>5. ChildrenPaid
  BY <1>1, <1>3, <1>4 DEF ChildrenPaid, Active
<1>6. BytesPaid
  BY <1>1, <1>4 DEF BytesPaid
<1> QED
  BY <1>1, <1>2, <1>3, <1>5, <1>6 DEF IInv

LEMMA NextIInv == IInv /\ [Next]_vars => IInv'
<1> SUFFICES ASSUME IInv, [Next]_vars PROVE IInv'
  OBVIOUS
<1>1. CASE DecodeRoot
  BY <1>1, DecodeRootOK
<1>2. CASE decodeElement
  BY <1>2, DecodeElementOK
<1>3. CASE decodeEntry
  BY <1>3, DecodeEntryOK
<1>4. CASE skipField
  BY <1>4, SkipFieldOK
<1>5. CASE containerDone
  BY <1>5, ContainerDoneOK
<1>6. CASE FollowPath
  BY <1>6, FollowPathOK
<1>7. CASE PathKey
  BY <1>7, PathKeyOK
<1>8. CASE PathNotFound
  BY <1>8, StopOK DEF PathNotFound
<1>9. CASE UNCHANGED vars
  BY <1>9 DEF vars, IInv, ChildrenPaid, BytesPaid, Active, Running
<1> QED
  BY <1>1, <1>2, <1>3, <1>4, <1>5, <1>6, <1>7, <1>8, <1>9 DEF Next, Returned

LEMMA IInvPaid == IInv => WorkIsPaidFor
<1>1. Outstanding = ToCome(frames)
  BY DEF Outstanding, ToCome, Top
<1> QED
  BY <1>1 DEF IInv, ChildrenPaid, BytesPaid, WorkIsPaidFor

\* Reflection decoding never does more work than its budget pays for, nor copies more
\* than its payload, whatever the section shares or loops through pointers, for every
\* budget, depth, preflight limit and path.
THEOREM WorkAlwaysPaidFor == Spec => []WorkIsPaidFor
BY InitIInv, NextIInv, IInvPaid, PTL DEF Spec
=============================================================================
