--------------------------- MODULE VerifierProofs ---------------------------
(***************************************************************************)
(* Proofs about Verifier, and about VerifiedIteration: Verify and then     *)
(* NetworksWithin, for every search tree and data section, every address   *)
(* width and every separator.                                              *)
(***************************************************************************)
EXTENDS VerifiedIteration, FiniteSetTheorems, TLAPS

\* For induction and recursion on numbers.
Numbers == INSTANCE DataSectionProofs

-----------------------------------------------------------------------------
(* What lies below a record.                                                *)

\* f has the records below p, level by level.
Levels(f, t, p) ==
    /\ f[0] = {p} /\ \A k \in Nat : f[k + 1] = Children(t, f[k])
    /\ \A k \in Nat : Below(t, p, k) = f[k]

\* What Below computes.
LEMMA BelowComputed ==
    ASSUME NEW t, NEW p
    PROVE  \E f : Levels(f, t, p)
<1> DEFINE S == SUBSET ({p} \cup Children(t, DOMAIN t.node))
           start == {p}
           step == [n \in Nat |-> [x \in S |-> Children(t, x)]]
           eq(f) == f = [j \in Nat |-> IF j = 0 THEN {p} ELSE Children(t, f[j - 1])]
           at == CHOOSE f : eq(f)
<1>1. \A k : Below(t, p, k) = at[k]
  BY DEF Below
<1>2. \A x : Children(t, x) \in S
  BY DEF Children
<1>3. step \in [Nat -> [S -> S]]
  BY <1>2
<1>4. \A n \in Nat : \A x \in S : step[n + 1][x] = Children(t, x)
  OBVIOUS
<1>5. start \in S
  OBVIOUS
<1> HIDE DEF step, S, start
<1>6. PICK f : Numbers!Follows(f, S, start, step)
  BY <1>3, <1>5, Numbers!RecursiveFunction
<1>7. /\ f \in [Nat -> S] /\ f[0] = {p}
      /\ \A n \in Nat : f[n + 1] = Children(t, f[n])
  BY <1>4, <1>6 DEF Numbers!Follows, start
<1>8. eq(f)
  <2>1. ASSUME NEW n \in Nat, n # 0 PROVE f[n] = Children(t, f[n - 1])
    <3>1. n - 1 \in Nat /\ (n - 1) + 1 = n
      BY <2>1
    <3> QED
      BY <1>7, <3>1
  <2> QED
    BY <1>7, <2>1
<1>9. eq(at)
  <2> HIDE DEF eq
  <2> QED
    BY <1>8
<1> HIDE DEF at
<1>10. at[0] = {p} /\ \A k \in Nat : at[k + 1] = Children(t, at[k])
  BY <1>9
<1>11. Levels(at, t, p)
  BY <1>1, <1>10 DEF Levels
<1> QED
  BY <1>11

\* Nothing is passed on the way to the record itself.
LEMMA BelowRoot ==
    ASSUME NEW t, NEW p
    PROVE  Below(t, p, 0) = {p}
<1>1. PICK f : Levels(f, t, p)
  BY BelowComputed
<1> QED
  BY <1>1 DEF Levels

\* One step further down.
LEMMA BelowStep ==
    ASSUME NEW t, NEW p, NEW k, k \in Nat
    PROVE  Below(t, p, k + 1) = Children(t, Below(t, p, k))
<1>1. PICK f : Levels(f, t, p)
  BY BelowComputed
<1>2. k + 1 \in Nat
  OBVIOUS
<1> QED
  BY <1>1, <1>2 DEF Levels

\* One step down.
LEMMA BelowOne ==
    ASSUME NEW t, NEW p
    PROVE  Below(t, p, 1) = IF p \in DOMAIN t.node THEN {t.node[p][1], t.node[p][2]} ELSE {}
<1>1. Below(t, p, 0 + 1) = Children(t, Below(t, p, 0))
  BY BelowStep
<1>2. 0 + 1 = 1
  OBVIOUS
<1>3. \A x : x \in Below(t, p, 0) <=> x = p
  BY BelowRoot
<1>4. Children(t, Below(t, p, 0)) =
          IF p \in DOMAIN t.node THEN {t.node[p][1], t.node[p][2]} ELSE {}
  BY <1>3 DEF Children
<1> QED
  BY <1>1, <1>2, <1>4

\* Below a node lies what lies below its children.
LEMMA BelowNode ==
    ASSUME NEW t, NEW m \in DOMAIN t.node, NEW k \in Nat
    PROVE  Below(t, m, k + 1) = Below(t, t.node[m][1], k) \cup Below(t, t.node[m][2], k)
<1> DEFINE a == t.node[m][1]
           b == t.node[m][2]
           T == {j \in Nat : Below(t, m, j + 1) = Below(t, a, j) \cup Below(t, b, j)}
<1>1. 0 \in T
  <2>1. 0 + 1 = 1 /\ Below(t, m, 1) = {a, b}
    BY BelowOne
  <2>2. Below(t, a, 0) = {a} /\ Below(t, b, 0) = {b}
    BY BelowRoot
  <2> QED
    BY <2>1, <2>2
<1>2. ASSUME NEW j \in Nat, j \in T PROVE j + 1 \in T
  <2>1. Below(t, m, (j + 1) + 1) = Children(t, Below(t, m, j + 1))
    BY BelowStep
  <2>2. /\ Below(t, a, j + 1) = Children(t, Below(t, a, j))
        /\ Below(t, b, j + 1) = Children(t, Below(t, b, j))
    BY BelowStep
  <2>3. \A x, y : Children(t, x \cup y) = Children(t, x) \cup Children(t, y)
    BY DEF Children
  <2>4. Below(t, m, j + 1) = Below(t, a, j) \cup Below(t, b, j)
    BY <1>2
  <2> QED
    BY <2>1, <2>2, <2>3, <2>4
<1>3. Nat \subseteq T
  <2> HIDE DEF T
  <2> QED
    BY <1>1, <1>2, Numbers!Induction
<1> QED
  BY <1>3

\* Ways down join.
LEMMA BelowAdds ==
    ASSUME NEW t, NEW p, NEW i \in Nat, NEW q \in Below(t, p, i), NEW j \in Nat
    PROVE  Below(t, q, j) \subseteq Below(t, p, i + j)
<1> DEFINE T == {k \in Nat : Below(t, q, k) \subseteq Below(t, p, i + k)}
<1>1. 0 \in T
  <2>1. i + 0 = i /\ Below(t, q, 0) = {q}
    BY BelowRoot
  <2> QED
    BY <2>1
<1>2. ASSUME NEW k \in Nat, k \in T PROVE k + 1 \in T
  <2>1. i + (k + 1) = (i + k) + 1 /\ i + k \in Nat
    OBVIOUS
  <2>2. /\ Below(t, q, k + 1) = Children(t, Below(t, q, k))
        /\ Below(t, p, (i + k) + 1) = Children(t, Below(t, p, i + k))
    BY <2>1, BelowStep
  <2>3. \A x, y : x \subseteq y => Children(t, x) \subseteq Children(t, y)
    BY DEF Children
  <2> QED
    BY <1>2, <2>1, <2>2, <2>3
<1>3. Nat \subseteq T
  <2> HIDE DEF T
  <2> QED
    BY <1>1, <1>2, Numbers!Induction
<1> QED
  BY <1>3

\* A way that ends stays ended.
LEMMA BelowEnds ==
    ASSUME NEW t, NEW p, NEW i \in Nat, Below(t, p, i) = {}, NEW j \in Nat, i <= j
    PROVE  Below(t, p, j) = {}
<1> DEFINE T == {k \in Nat : Below(t, p, i + k) = {}}
<1>1. 0 \in T
  OBVIOUS
<1>2. ASSUME NEW k \in Nat, k \in T PROVE k + 1 \in T
  <2>1. i + (k + 1) = (i + k) + 1 /\ i + k \in Nat
    OBVIOUS
  <2>2. Below(t, p, (i + k) + 1) = Children(t, Below(t, p, i + k))
    BY <2>1, BelowStep
  <2>3. Children(t, {}) = {}
    BY DEF Children
  <2> QED
    BY <1>2, <2>1, <2>2, <2>3
<1>3. Nat \subseteq T
  <2> HIDE DEF T
  <2> QED
    BY <1>1, <1>2, Numbers!Induction
<1>4. j - i \in Nat /\ i + (j - i) = j
  OBVIOUS
<1> QED
  BY <1>3, <1>4

\* There is no end to the ways down from a node that lies below itself.
LEMMA BelowCycle ==
    ASSUME NEW t, NEW p, NEW c \in Nat, c > 0, p \in Below(t, p, c), NEW k \in Nat
    PROVE  Below(t, p, k) # {}
<1> DEFINE T == {m \in Nat : \E j \in Nat : j >= m /\ p \in Below(t, p, j)}
<1>1. 0 \in T
  OBVIOUS
<1>2. ASSUME NEW m \in Nat, m \in T PROVE m + 1 \in T
  <2>1. PICK j \in Nat : j >= m /\ p \in Below(t, p, j)
    BY <1>2
  <2>2. p \in Below(t, p, j + c)
    BY <2>1, BelowAdds
  <2>3. j + c \in Nat /\ j + c >= m + 1
    BY <2>1
  <2> QED
    BY <2>2, <2>3
<1>3. Nat \subseteq T
  <2> HIDE DEF T
  <2> QED
    BY <1>1, <1>2, Numbers!Induction
<1>4. PICK j \in Nat : j >= k /\ p \in Below(t, p, j)
  BY <1>3
<1> QED
  BY <1>4, BelowEnds

-----------------------------------------------------------------------------
(* Where values start.                                                      *)

\* The offsets x and those where the values at x end.
Onwards(t, x) == x \cup {t.end[o] : o \in x \cap DOMAIN t.end}

\* f has the starts of values, one value further each time.
Rows(f, t) ==
    /\ f[0] = {0} /\ \A k \in Nat : f[k + 1] = Onwards(t, f[k])
    /\ \A k \in Nat : StartsWithin(t, k) = f[k]

\* What StartsWithin computes.
LEMMA StartsComputed ==
    ASSUME NEW t
    PROVE  \E f : Rows(f, t)
<1> DEFINE S == SUBSET ({0} \cup {t.end[o] : o \in DOMAIN t.end})
           start == {0}
           step == [n \in Nat |-> [x \in S |-> Onwards(t, x)]]
           eq(f) == f = [j \in Nat |-> IF j = 0 THEN {0}
                            ELSE f[j - 1] \cup {t.end[o] : o \in f[j - 1] \cap DOMAIN t.end}]
           at == CHOOSE f : eq(f)
<1>1. \A k : StartsWithin(t, k) = at[k]
  BY DEF StartsWithin
<1>2. \A x \in S : Onwards(t, x) \in S
  BY DEF Onwards
<1>3. step \in [Nat -> [S -> S]]
  BY <1>2
<1>4. \A n \in Nat : \A x \in S : step[n + 1][x] = Onwards(t, x)
  OBVIOUS
<1>5. start \in S
  OBVIOUS
<1> HIDE DEF step, S, start
<1>6. PICK f : Numbers!Follows(f, S, start, step)
  BY <1>3, <1>5, Numbers!RecursiveFunction
<1>7. /\ f \in [Nat -> S] /\ f[0] = {0}
      /\ \A n \in Nat : f[n + 1] = Onwards(t, f[n])
  BY <1>4, <1>6 DEF Numbers!Follows, start
<1>8. eq(f)
  <2>1. ASSUME NEW n \in Nat, n # 0 PROVE f[n] = Onwards(t, f[n - 1])
    <3>1. n - 1 \in Nat /\ (n - 1) + 1 = n
      BY <2>1
    <3> QED
      BY <1>7, <3>1
  <2> QED
    BY <1>7, <2>1 DEF Onwards
<1>9. eq(at)
  <2> HIDE DEF eq
  <2> QED
    BY <1>8
<1> HIDE DEF at
<1>10. at[0] = {0} /\ \A k \in Nat : at[k + 1] = Onwards(t, at[k])
  BY <1>9 DEF Onwards
<1>11. Rows(at, t)
  BY <1>1, <1>10 DEF Rows
<1> QED
  BY <1>11

\* The first value starts at offset 0.
LEMMA StartsRoot ==
    ASSUME NEW t
    PROVE  StartsWithin(t, 0) = {0}
<1>1. PICK f : Rows(f, t)
  BY StartsComputed
<1> QED
  BY <1>1 DEF Rows

\* Another value starts where one ends.
LEMMA StartsStep ==
    ASSUME NEW t, NEW k, k \in Nat
    PROVE  StartsWithin(t, k + 1) = Onwards(t, StartsWithin(t, k))
<1>1. PICK f : Rows(f, t)
  BY StartsComputed
<1>2. k + 1 \in Nat
  OBVIOUS
<1> QED
  BY <1>1, <1>2 DEF Rows

\* Starts are never lost.
LEMMA StartsGrow ==
    ASSUME NEW t, NEW i \in Nat, NEW j \in Nat, i <= j
    PROVE  StartsWithin(t, i) \subseteq StartsWithin(t, j)
<1> DEFINE T == {k \in Nat : StartsWithin(t, i) \subseteq StartsWithin(t, i + k)}
<1>1. 0 \in T
  OBVIOUS
<1>2. ASSUME NEW k \in Nat, k \in T PROVE k + 1 \in T
  <2>1. i + (k + 1) = (i + k) + 1 /\ i + k \in Nat
    OBVIOUS
  <2>2. StartsWithin(t, (i + k) + 1) = Onwards(t, StartsWithin(t, i + k))
    BY <2>1, StartsStep
  <2>3. \A x : x \subseteq Onwards(t, x)
    BY DEF Onwards
  <2> QED
    BY <1>2, <2>1, <2>2, <2>3
<1>3. Nat \subseteq T
  <2> HIDE DEF T
  <2> QED
    BY <1>1, <1>2, Numbers!Induction
<1>4. j - i \in Nat /\ i + (j - i) = j
  OBVIOUS
<1> QED
  BY <1>3, <1>4

\* Offsets that hold 0 and the end of each of their values hold every start.
LEMMA StartsClosed ==
    ASSUME NEW t, NEW x, 0 \in x, \A o \in x \cap DOMAIN t.end : t.end[o] \in x, NEW k \in Nat
    PROVE  StartsWithin(t, k) \subseteq x
<1> DEFINE T == {j \in Nat : StartsWithin(t, j) \subseteq x}
<1>1. 0 \in T
  BY StartsRoot
<1>2. ASSUME NEW j \in Nat, j \in T PROVE j + 1 \in T
  <2>1. StartsWithin(t, j + 1) = Onwards(t, StartsWithin(t, j))
    BY StartsStep
  <2>2. Onwards(t, StartsWithin(t, j)) \subseteq x
    BY <1>2 DEF Onwards
  <2> QED
    BY <2>1, <2>2
<1>3. Nat \subseteq T
  <2> HIDE DEF T
  <2> QED
    BY <1>1, <1>2, Numbers!Induction
<1> QED
  BY <1>3

-----------------------------------------------------------------------------
(* The inductive invariant.                                                 *)

\* The reader is one Open returns.
ReaderOK ==
    /\ IsFiniteSet(DOMAIN r.node) /\ DOMAIN r.node = 0 .. NodeCount(r) - 1
    /\ \A n \in DOMAIN r.node : r.node[n] \in Nat \X Nat
    /\ r.dataSectionSize \in Nat /\ DOMAIN r.end = 0 .. r.dataSectionSize - 1
    /\ \A o \in DOMAIN r.end : r.end[o] \in Int

Frame == [node : DOMAIN r.node, bitDepth : Nat, left : {None} \cup 0 .. Bits]

TypeOK ==
    /\ phase \in {"metadata", "tree", "separator", "data", "end"}
    /\ frames \in Seq(Frame)
    /\ call = Nil \/ call \in [pointer : Nat, bitDepth : Nat]
    /\ height \in {None} \cup 0 .. Bits
    /\ nodeStates \in [DOMAIN r.node -> 0 .. Bits \cup {Visiting}]
    /\ offsets \subseteq 0 .. r.dataSectionSize - 1
    /\ stateCount \in Nat /\ offset \in Nat
    /\ verdict \in {"none", "ok", "err"} /\ (verdict # "none" <=> phase = "end")

\* Nothing has happened before the tree is walked, and the sweep begins after it.
Untouched ==
    /\ phase = "metadata" => call = Nil /\ height = None /\ frames = <<>> /\ offsets = {}
                                 /\ \A n \in DOMAIN r.node : nodeStates[n] = Unvisited
    /\ phase \in {"metadata", "tree", "separator"} => offset = 0

\* The child of its node that a frame is waiting for.
Awaited(f) == r.node[f.node][IF f.left = None THEN 1 ELSE 2]

\* The record whose height is wanted next.
Current == IF frames = <<>> THEN 0 ELSE Awaited(Top)

\* The stack is the way down from the root to the current record.
Path ==
    /\ \A i \in 1 .. Len(frames) : frames[i].bitDepth = rootDepth + i - 1 /\ i <= AddressBits(r)
    /\ frames # <<>> => frames[1].node = 0
    /\ \A i \in 1 .. Len(frames) - 1 : frames[i + 1].node = Awaited(frames[i])
    /\ \A i, j \in 1 .. Len(frames) :
           i <= j => frames[j].node \in Below(r, frames[i].node, j - i)

\* The nodes of the stack are those marked, each there once.
Marked ==
    /\ \A i \in 1 .. Len(frames) : nodeStates[frames[i].node] = Visiting
    /\ \A i, j \in 1 .. Len(frames) : frames[i].node = frames[j].node => i = j
    /\ \A n \in DOMAIN r.node :
           nodeStates[n] = Visiting => \E i \in 1 .. Len(frames) : frames[i].node = n

\* The walk is either about to look at the current record or back from it.
Turn ==
    phase = "tree" =>
        \/ call # Nil /\ height = None
               /\ call.pointer = Current /\ call.bitDepth = rootDepth + Len(frames)
        \/ call = Nil /\ height # None

\* A record of d that a walk with these marks and offsets is done with: its data
\* offset or its whole subtree is known.
Settled(d, marks, offs, p) ==
    \/ p \in DOMAIN d.node /\ marks[p] \notin {Unvisited, Visiting}
    \/ p = NodeCount(d)
    \/ p > NodeCount(d) /\ resolveDataPointer(d, p) >= 0 /\ resolveDataPointer(d, p) \in offs
Finished(p) == Settled(r, nodeStates, offsets, p)

Known(p, h) == Height(p, h) /\ Finished(p)

\* What the walk has returned so far is right, in every frame and for every node.
Returns ==
    phase \in {"metadata", "tree"} =>
        /\ \A i \in 1 .. Len(frames) :
               frames[i].left # None => Known(r.node[frames[i].node][1], frames[i].left)
        /\ height # None => Known(Current, height)
        /\ \A n \in DOMAIN r.node : nodeStates[n] \notin {Unvisited, Visiting} =>
               Finished(r.node[n][1]) /\ Finished(r.node[n][2])

\* Only offsets that the tree points to are collected, and no others are left over.
Collected ==
    /\ offsets \subseteq PointedTo
    /\ phase \in {"tree", "separator", "data"} => r.metadataOK
    /\ phase \in {"separator", "data"} => TreeSound(r)
    /\ phase = "data" => r.separatorOK

\* The values met by the sweep.
Swept == PointedTo \ offsets

\* The sweep has followed the values from offset 0, and met them all.
Sweeping ==
    phase \in {"separator", "data"} =>
        /\ \A o \in Swept : o < offset /\ r.end[o] > o /\ r.end[o] \in Swept \cup {offset}
        /\ 0 \in Swept \cup {offset}
        /\ Swept \subseteq Starts
        /\ \E k \in 0 .. r.dataSectionSize : k <= offset /\ offset \in StartsWithin(r, k)

IInv == /\ ReaderOK /\ TypeOK /\ Untouched /\ Path /\ Marked /\ Turn
        /\ Returns /\ Collected /\ Sweeping
        /\ HeightsExact /\ EachNodeOnce /\ VerifiedIffSound

-----------------------------------------------------------------------------
(* Heights and depths.                                                      *)

\* The numbers of nodes and bits.
LEMMA Numbering ==
    ASSUME ReaderOK
    PROVE  /\ NodeCount(r) \in Nat /\ AddressBits(r) \in Nat \ {0}
           /\ rootDepth = Bits - AddressBits(r) /\ rootDepth \in Nat /\ rootDepth < Bits
           /\ \A n \in DOMAIN r.node : n \in Nat /\ n < NodeCount(r)
                                           /\ r.node[n][1] \in Nat /\ r.node[n][2] \in Nat
           /\ \A p \in Nat : p \in DOMAIN r.node <=> p < NodeCount(r)
<1>1. NodeCount(r) \in Nat
  BY FS_CardinalityType DEF ReaderOK, NodeCount
<1>2. /\ \A n \in DOMAIN r.node : n \in Nat /\ n < NodeCount(r)
      /\ \A p \in Nat : p \in DOMAIN r.node <=> p < NodeCount(r)
  BY <1>1 DEF ReaderOK
<1>3. \A n \in DOMAIN r.node : r.node[n][1] \in Nat /\ r.node[n][2] \in Nat
  BY DEF ReaderOK
<1>4. /\ AddressBits(r) \in Nat \ {0} /\ rootDepth = Bits - AddressBits(r)
      /\ rootDepth \in Nat /\ rootDepth < Bits
  BY BitsAssumption DEF AddressBits, rootDepth, V4Depth
<1> QED
  BY <1>1, <1>2, <1>3, <1>4

\* A record that is no node has height 0.
LEMMA LeafHeight ==
    ASSUME NEW p, p \notin DOMAIN r.node
    PROVE  Height(p, 0)
<1>1. Below(r, p, 1) = {}
  BY BelowOne
<1>2. Below(r, p, 0) # {}
  BY BelowRoot
<1> QED
  BY <1>1, <1>2 DEF Height

\* A node is one higher than the higher of its children.
LEMMA HigherChild ==
    ASSUME NEW m \in DOMAIN r.node, NEW a \in Nat, NEW b \in Nat,
           Height(r.node[m][1], a), Height(r.node[m][2], b)
    PROVE  Height(m, Max({a, b}) + 1)
<1> DEFINE h == Max({a, b})
           x == r.node[m][1]
           y == r.node[m][2]
<1>1. h \in Nat /\ h >= a /\ h >= b /\ (h = a \/ h = b)
  BY DEF Max
<1> HIDE DEF h, x, y
<1>2. /\ Below(r, m, h + 1) = Below(r, x, h) \cup Below(r, y, h)
      /\ Below(r, m, (h + 1) + 1) = Below(r, x, h + 1) \cup Below(r, y, h + 1)
  <2>1. h + 1 \in Nat
    BY <1>1
  <2> QED
    BY <1>1, <2>1, BelowNode DEF x, y
<1>3. Below(r, x, a) # {} /\ Below(r, x, a + 1) = {} /\ Below(r, y, b) # {} /\ Below(r, y, b + 1) = {}
  BY DEF Height, x, y
<1>4. Below(r, m, h + 1) # {}
  BY <1>1, <1>2, <1>3
<1>5. Below(r, x, h + 1) = {} /\ Below(r, y, h + 1) = {}
  <2>1. a + 1 \in Nat /\ b + 1 \in Nat /\ h + 1 \in Nat /\ a + 1 <= h + 1 /\ b + 1 <= h + 1
    BY <1>1
  <2> QED
    BY <1>3, <2>1, BelowEnds
<1> QED
  BY <1>2, <1>4, <1>5 DEF Height, h

\* A way down that is longer than an address makes a tree unsound.
LEMMA TooLong ==
    ASSUME ReaderOK, NEW i \in Nat, NEW q \in Below(r, 0, i), NEW k \in Nat,
           Below(r, q, k) # {}, i + k > AddressBits(r)
    PROVE  ~TreeSound(r)
<1> DEFINE w == AddressBits(r)
<1>1. w \in Nat /\ w + 1 \in Nat /\ i + k \in Nat /\ w + 1 <= i + k
  BY Numbering
<1> HIDE DEF w
<1>2. Below(r, 0, i + k) # {}
  BY BelowAdds
<1>3. Below(r, 0, w + 1) # {}
  BY <1>1, <1>2, BelowEnds
<1>4. Below(r, 0, w + 1) = Children(r, Below(r, 0, w))
  BY <1>1, BelowStep
<1>5. PICK m \in Below(r, 0, w) : m \in DOMAIN r.node
  BY <1>3, <1>4 DEF Children
<1>6. m \in Nat /\ m < NodeCount(r) /\ NodeCount(r) \in Nat
  BY <1>5, Numbering
<1>7. w \in 0 .. w
  BY <1>1
<1> QED
  BY <1>1, <1>5, <1>6, <1>7 DEF TreeSound, w

-----------------------------------------------------------------------------
(* Steps that leave the stack and the marks alone.                          *)

\* What they leave alone.
LEMMA Frozen ==
    ASSUME IInv, UNCHANGED <<r, frames, nodeStates, stateCount>>
    PROVE  /\ ReaderOK' /\ Path' /\ Marked' /\ HeightsExact' /\ EachNodeOnce'
           /\ PointedTo' = PointedTo /\ rootDepth' = rootDepth /\ Current' = Current
<1> USE DEF IInv
<1>1. ReaderOK'
  BY DEF ReaderOK
<1>2. PointedTo' = PointedTo
  BY DEF PointedTo
<1>3. rootDepth' = rootDepth
  BY DEF rootDepth
<1>4. Current' = Current
  BY DEF Current, Awaited, Top
<1>5. Path'
  BY <1>3 DEF Path, Awaited
<1>6. Marked'
  BY DEF Marked
<1>7. HeightsExact'
  BY DEF HeightsExact, Height
<1>8. EachNodeOnce'
  BY DEF EachNodeOnce
<1> QED
  BY <1>1, <1>2, <1>3, <1>4, <1>5, <1>6, <1>7, <1>8

\* Verify gives up, and the database is at fault.
LEMMA FailStep ==
    ASSUME IInv, Fail, UNCHANGED <<r, walk, offsets, offset>>,
           ~(r.metadataOK /\ TreeSound(r) /\ r.separatorOK /\ DataSound)
    PROVE  IInv'
<1>1. UNCHANGED <<r, frames, call, height, nodeStates, stateCount, offsets, offset>>
  BY DEF walk
<1>2. /\ ReaderOK' /\ Path' /\ Marked' /\ HeightsExact' /\ EachNodeOnce'
      /\ PointedTo' = PointedTo
  BY <1>1, Frozen
<1>3. phase' = "end" /\ verdict' = "err"
  BY DEF Fail
<1>4. TypeOK'
  BY <1>1, <1>3 DEF IInv, TypeOK, Frame
<1>5. Untouched' /\ Turn' /\ Returns' /\ Sweeping'
  BY <1>3 DEF Untouched, Turn, Returns, Sweeping
<1>6. Collected'
  BY <1>1, <1>2, <1>3 DEF IInv, Collected
<1>7. DataSound' = DataSound
  BY <1>1, <1>2 DEF DataSound, Starts
<1>8. VerifiedIffSound'
  BY <1>1, <1>3, <1>7 DEF VerifiedIffSound
<1> QED
  BY <1>2, <1>4, <1>5, <1>6, <1>8 DEF IInv

\* The metadata is checked.
LEMMA MetadataStep ==
    ASSUME IInv, verifyMetadata
    PROVE  IInv'
<1>1. CASE ~r.metadataOK
  <2>1. Fail /\ UNCHANGED <<r, walk, offsets, offset>>
    BY <1>1 DEF verifyMetadata, walk
  <2> QED
    BY <1>1, <2>1, FailStep
<1>2. CASE r.metadataOK
  <2>1. /\ phase = "metadata" /\ phase' = "tree" /\ verdict' = verdict
        /\ call' = [pointer |-> 0, bitDepth |-> rootDepth]
        /\ UNCHANGED <<r, frames, height, nodeStates, stateCount, offsets, offset>>
    BY <1>2 DEF verifyMetadata
  <2>2. /\ ReaderOK' /\ Path' /\ Marked' /\ HeightsExact' /\ EachNodeOnce'
        /\ PointedTo' = PointedTo /\ rootDepth' = rootDepth /\ Current' = Current
    BY <2>1, Frozen
  <2>3. height = None /\ frames = <<>> /\ offset = 0 /\ Len(frames) = 0
        /\ \A n \in DOMAIN r.node : nodeStates[n] = Unvisited
    BY <2>1 DEF IInv, Untouched
  <2>4. call' \in [pointer : Nat, bitDepth : Nat]
    BY <2>1, Numbering DEF IInv
  <2>5. TypeOK'
    BY <2>1, <2>4 DEF IInv, TypeOK, Frame
  <2>6. Untouched'
    BY <2>1, <2>3 DEF Untouched
  <2>7. Turn'
    <3>1. call'.pointer = 0 /\ call'.bitDepth = rootDepth /\ call' # Nil
      BY <2>1 DEF Nil, None
    <3>2. Current = 0
      BY <2>3 DEF Current
    <3>3. rootDepth + 0 = rootDepth
      BY Numbering DEF IInv
    <3> QED
      BY <2>1, <2>2, <2>3, <3>1, <3>2, <3>3 DEF Turn
  <2>8. Returns'
    BY <2>1, <2>3 DEF Returns
  <2>9. Collected'
    BY <1>2, <2>1, <2>2 DEF IInv, Collected
  <2>10. Sweeping' /\ VerifiedIffSound'
    BY <2>1 DEF IInv, TypeOK, Sweeping, VerifiedIffSound
  <2> QED
    BY <2>2, <2>5, <2>6, <2>7, <2>8, <2>9, <2>10 DEF IInv
<1> QED
  BY <1>1, <1>2

\* The separator is checked.
LEMMA SeparatorStep ==
    ASSUME IInv, verifyDataSectionSeparator
    PROVE  IInv'
<1>1. CASE ~r.separatorOK
  <2>1. Fail /\ UNCHANGED <<r, walk, offsets, offset>>
    BY <1>1 DEF verifyDataSectionSeparator
  <2> QED
    BY <1>1, <2>1, FailStep
<1>2. CASE r.separatorOK
  <2>1. /\ phase = "separator" /\ phase' = "data" /\ verdict' = verdict
        /\ UNCHANGED <<r, frames, call, height, nodeStates, stateCount, offsets, offset>>
    BY <1>2 DEF verifyDataSectionSeparator, walk
  <2>2. /\ ReaderOK' /\ Path' /\ Marked' /\ HeightsExact' /\ EachNodeOnce'
        /\ PointedTo' = PointedTo
    BY <2>1, Frozen
  <2>3. TypeOK'
    BY <2>1 DEF IInv, TypeOK, Frame
  <2>4. Untouched' /\ Turn' /\ Returns' /\ VerifiedIffSound'
    BY <2>1 DEF IInv, TypeOK, Untouched, Turn, Returns, VerifiedIffSound
  <2>5. Collected'
    BY <1>2, <2>1, <2>2 DEF IInv, Collected
  <2>6. Sweeping'
    BY <2>1, <2>2 DEF IInv, Sweeping, Swept, Starts
  <2> QED
    BY <2>2, <2>3, <2>4, <2>5, <2>6 DEF IInv
<1> QED
  BY <1>1, <1>2

-----------------------------------------------------------------------------
(* The walk.                                                                *)

\* What resolveDataPointer finds.
LEMMA Resolving ==
    ASSUME ReaderOK, NEW p \in Nat
    PROVE  /\ resolveDataPointer(r, p) \in Int
           /\ resolveDataPointer(r, p) >= 0 =>
                  /\ resolveDataPointer(r, p) \in 0 .. r.dataSectionSize - 1
                  /\ p = NodeCount(r) + Separator + resolveDataPointer(r, p)
           /\ \A o \in 0 .. r.dataSectionSize - 1 :
                  p = NodeCount(r) + Separator + o => resolveDataPointer(r, p) = o
<1>1. NodeCount(r) \in Nat /\ Separator \in Nat /\ r.dataSectionSize \in Nat
  BY Numbering, BitsAssumption DEF ReaderOK
<1> QED
  BY <1>1 DEF resolveDataPointer

\* The walk is never undone.
LEMMA SettledKept ==
    ASSUME NEW d, NEW marks, NEW offs, NEW marks2, NEW offs2, offs \subseteq offs2,
           \A n \in DOMAIN d.node :
               marks[n] \notin {Unvisited, Visiting} => marks2[n] \notin {Unvisited, Visiting},
           NEW p, Settled(d, marks, offs, p)
    PROVE  Settled(d, marks2, offs2, p)
BY DEF Settled

\* What the frames and the finished nodes know survives a step of the walk.
LEMMA ReturnsKept ==
    ASSUME IInv, phase = "tree", offsets \subseteq offsets',
           \A n \in DOMAIN r.node :
               nodeStates[n] \notin {Unvisited, Visiting} =>
                   nodeStates'[n] \notin {Unvisited, Visiting}
    PROVE  /\ \A i \in 1 .. Len(frames) : frames[i].left # None =>
                  /\ Height(r.node[frames[i].node][1], frames[i].left)
                  /\ Settled(r, nodeStates', offsets', r.node[frames[i].node][1])
           /\ height # None =>
                  Height(Current, height) /\ Settled(r, nodeStates', offsets', Current)
           /\ \A n \in DOMAIN r.node : nodeStates[n] \notin {Unvisited, Visiting} =>
                  /\ Settled(r, nodeStates', offsets', r.node[n][1])
                  /\ Settled(r, nodeStates', offsets', r.node[n][2])
<1>1. \A p : Settled(r, nodeStates, offsets, p) => Settled(r, nodeStates', offsets', p)
  BY SettledKept
<1>2. /\ \A i \in 1 .. Len(frames) : frames[i].left # None =>
             /\ Height(r.node[frames[i].node][1], frames[i].left)
             /\ Settled(r, nodeStates, offsets, r.node[frames[i].node][1])
      /\ height # None =>
             Height(Current, height) /\ Settled(r, nodeStates, offsets, Current)
      /\ \A n \in DOMAIN r.node : nodeStates[n] \notin {Unvisited, Visiting} =>
             /\ Settled(r, nodeStates, offsets, r.node[n][1])
             /\ Settled(r, nodeStates, offsets, r.node[n][2])
  BY DEF IInv, Returns, Known, Finished
<1> QED
  BY <1>1, <1>2

\* A frame of the stack.
LEMMA FrameTyped ==
    ASSUME IInv
    PROVE  /\ Len(frames) \in Nat /\ (frames # <<>> <=> Len(frames) > 0)
           /\ \A i \in 1 .. Len(frames) :
                  /\ frames[i] \in Frame /\ frames[i].node \in DOMAIN r.node
                  /\ frames[i].left \in {None} \cup 0 .. Bits /\ Awaited(frames[i]) \in Nat
                  /\ Awaited(frames[i]) \in Below(r, frames[i].node, 1)
<1>1. frames \in Seq(Frame)
  BY DEF IInv, TypeOK
<1>2. Len(frames) \in Nat /\ (frames # <<>> <=> Len(frames) > 0)
  BY <1>1
<1>3. ASSUME NEW i \in 1 .. Len(frames)
      PROVE  /\ frames[i] \in Frame /\ frames[i].node \in DOMAIN r.node
             /\ frames[i].left \in {None} \cup 0 .. Bits /\ Awaited(frames[i]) \in Nat
             /\ Awaited(frames[i]) \in Below(r, frames[i].node, 1)
  <2>1. frames[i] \in Frame
    BY <1>1
  <2>2. frames[i].node \in DOMAIN r.node /\ frames[i].left \in {None} \cup 0 .. Bits
    BY <2>1 DEF Frame
  <2>3. Awaited(frames[i]) \in {r.node[frames[i].node][1], r.node[frames[i].node][2]}
    BY DEF Awaited
  <2>4. Awaited(frames[i]) \in Nat
    BY <2>2, <2>3, Numbering DEF IInv
  <2>5. Awaited(frames[i]) \in Below(r, frames[i].node, 1)
    BY <2>2, <2>3, BelowOne
  <2> QED
    BY <2>1, <2>2, <2>4, <2>5
<1> QED
  BY <1>2, <1>3

\* The current record lies below every node of the stack, and below the root.
LEMMA CurrentBelow ==
    ASSUME IInv
    PROVE  /\ Current \in Nat /\ Current \in Below(r, 0, Len(frames))
           /\ Len(frames) \in Nat /\ Len(frames) <= AddressBits(r)
           /\ \A i \in 1 .. Len(frames) :
                  Current \in Below(r, frames[i].node, Len(frames) - i + 1)
<1> DEFINE L == Len(frames)
<1>1. L \in Nat /\ (frames # <<>> <=> L > 0)
  BY FrameTyped
<1>2. L <= AddressBits(r)
  BY <1>1, Numbering DEF IInv, Path
<1>3. CASE frames = <<>>
  <2>1. Current = 0 /\ L = 0
    BY <1>1, <1>3 DEF Current
  <2>2. 0 \in Below(r, 0, 0)
    BY BelowRoot
  <2> QED
    BY <1>1, <1>2, <2>1, <2>2
<1>4. CASE frames # <<>>
  <2>1. L \in 1 .. L /\ Current = Awaited(frames[L])
    BY <1>1, <1>4 DEF Current, Top
  <2>2. Current \in Nat /\ Current \in Below(r, frames[L].node, 1)
    BY <2>1, FrameTyped
  <2>3. ASSUME NEW i \in 1 .. L
        PROVE  Current \in Below(r, frames[i].node, L - i + 1)
    <3>1. frames[L].node \in Below(r, frames[i].node, L - i)
      BY <2>1 DEF IInv, Path
    <3>2. L - i \in Nat
      BY <1>1
    <3> QED
      BY <2>2, <3>1, <3>2, BelowAdds
  <2>4. Current \in Below(r, 0, L)
    <3>1. 1 \in 1 .. L /\ L - 1 + 1 = L /\ frames[1].node = 0
      BY <1>1, <1>4 DEF IInv, Path
    <3> QED
      BY <2>3, <3>1
  <2> QED
    BY <1>1, <1>2, <2>2, <2>3, <2>4
<1> QED
  BY <1>3, <1>4

\* A call is about the current record.
LEMMA CallCurrent ==
    ASSUME IInv, Calling
    PROVE  /\ phase = "tree" /\ call # Nil /\ height = None
           /\ call.pointer = Current /\ call.bitDepth = rootDepth + Len(frames)
BY DEF IInv, Calling, Turn

\* The walk comes back from the current record with its height.
LEMMA ReturnStep ==
    ASSUME IInv, phase = "tree", NEW h \in 0 .. Bits, Return(h), Height(Current, h),
           UNCHANGED <<r, phase, verdict, frames, nodeStates, stateCount, offset>>,
           offsets \subseteq offsets', offsets' \subseteq PointedTo,
           Settled(r, nodeStates, offsets', Current)
    PROVE  IInv'
<1>1. /\ ReaderOK' /\ Path' /\ Marked' /\ HeightsExact' /\ EachNodeOnce'
      /\ PointedTo' = PointedTo /\ rootDepth' = rootDepth /\ Current' = Current
  BY Frozen
<1>2. call' = Nil /\ height' = h /\ height' # None
  BY DEF Return, None
<1>3. TypeOK'
  <2>1. offsets' \subseteq 0 .. r.dataSectionSize - 1
    BY DEF PointedTo
  <2> QED
    BY <1>2, <2>1 DEF IInv, TypeOK, Frame
<1>4. Untouched' /\ Sweeping' /\ VerifiedIffSound'
  BY DEF IInv, Untouched, Sweeping, VerifiedIffSound, TypeOK
<1>5. Turn'
  BY <1>2 DEF Turn
<1>6. Returns'
  <2>1. /\ \A i \in 1 .. Len(frames) : frames[i].left # None =>
               /\ Height(r.node[frames[i].node][1], frames[i].left)
               /\ Settled(r, nodeStates', offsets', r.node[frames[i].node][1])
        /\ \A n \in DOMAIN r.node : nodeStates[n] \notin {Unvisited, Visiting} =>
               /\ Settled(r, nodeStates', offsets', r.node[n][1])
               /\ Settled(r, nodeStates', offsets', r.node[n][2])
    BY ReturnsKept
  <2> QED
    BY <1>1, <1>2, <2>1 DEF Returns, Known, Finished, Height
<1>7. Collected'
  BY <1>1 DEF IInv, Collected
<1> QED
  BY <1>1, <1>3, <1>4, <1>5, <1>6, <1>7 DEF IInv

\* An empty record or a data pointer.
LEMMA PointerStep ==
    ASSUME IInv, verifyPointer
    PROVE  IInv'
<1> DEFINE o == resolveDataPointer(r, call.pointer)
<1>1. /\ phase = "tree" /\ call.pointer = Current /\ call.pointer >= NodeCount(r)
      /\ UNCHANGED <<r, frames, nodeStates, stateCount, offset>>
  BY CallCurrent DEF verifyPointer
<1>2. /\ Current \in Nat /\ Current \in Below(r, 0, Len(frames))
      /\ Len(frames) \in 0 .. AddressBits(r)
  BY CurrentBelow, Numbering DEF IInv
<1>3. NodeCount(r) \in Nat /\ ReaderOK /\ Current \notin DOMAIN r.node
  BY <1>1, <1>2, Numbering DEF IInv
<1>4. Height(Current, 0) /\ 0 \in 0 .. Bits
  BY <1>3, LeafHeight, BitsAssumption
<1>5. /\ o \in Int
      /\ o >= 0 => o \in 0 .. r.dataSectionSize - 1 /\ Current = NodeCount(r) + Separator + o
  BY <1>1, <1>2, <1>3, Resolving
<1>6. CASE call.pointer = NodeCount(r)
  <2>1. Return(0) /\ UNCHANGED <<phase, verdict, offsets>>
    <3>1. ~(call.pointer > NodeCount(r))
      BY <1>3, <1>6
    <3> QED
      BY <1>6, <3>1 DEF verifyPointer
  <2>2. Settled(r, nodeStates, offsets', Current)
    BY <1>1, <1>6 DEF Settled
  <2>3. offsets \subseteq offsets' /\ offsets' \subseteq PointedTo
    BY <2>1 DEF IInv, Collected
  <2> QED
    BY <1>1, <1>4, <2>1, <2>2, <2>3, ReturnStep
<1>7. CASE call.pointer > NodeCount(r) /\ o < 0
  <2>1. Fail /\ UNCHANGED <<r, walk, offsets, offset>>
    BY <1>1, <1>3, <1>7 DEF verifyPointer, walk
  <2>2. ~TreeSound(r)
    <3> HIDE DEF o
    <3>1. Current > NodeCount(r) /\ resolveDataPointer(r, Current) = o /\ o < 0
      BY <1>1, <1>7 DEF o
    <3>2. ~(Current < NodeCount(r)) /\ Current # NodeCount(r) /\ ~(o >= 0)
      BY <1>2, <1>3, <1>5, <3>1
    <3> QED
      BY <1>2, <3>1, <3>2 DEF TreeSound
  <2> QED
    BY <2>1, <2>2, FailStep
<1>8. CASE call.pointer > NodeCount(r) /\ o >= 0
  <2>1. Return(0) /\ offsets' = offsets \cup {o} /\ UNCHANGED <<phase, verdict>>
    <3> HIDE DEF o
    <3>1. call.pointer # NodeCount(r) /\ ~(o < 0)
      BY <1>1, <1>2, <1>3, <1>5, <1>8
    <3> QED
      BY <3>1 DEF verifyPointer, o
  <2>2. Settled(r, nodeStates, offsets', Current)
    BY <1>1, <1>8, <2>1 DEF Settled
  <2>3. o \in PointedTo
    BY <1>2, <1>5, <1>8 DEF PointedTo
  <2>4. offsets \subseteq offsets' /\ offsets' \subseteq PointedTo
    BY <2>1, <2>3 DEF IInv, Collected
  <2> QED
    BY <1>1, <1>4, <2>1, <2>2, <2>4, ReturnStep
<1> QED
  BY <1>1, <1>2, <1>3, <1>5, <1>6, <1>7, <1>8

\* A node that is known already.
LEMMA ReuseStep ==
    ASSUME IInv, ReuseNode
    PROVE  IInv'
<1> DEFINE h == nodeStates[call.pointer]
<1>1. /\ phase = "tree" /\ call.pointer = Current /\ call.pointer < NodeCount(r)
      /\ h \notin {Unvisited, Visiting} /\ Return(h)
      /\ UNCHANGED <<r, phase, verdict, frames, nodeStates, stateCount, offsets, offset>>
  BY CallCurrent DEF ReuseNode, OnNode
<1>2. Current \in DOMAIN r.node
  BY <1>1, CurrentBelow, Numbering DEF IInv
<1>3. h \in 0 .. Bits
  BY <1>1, <1>2 DEF IInv, TypeOK
<1>4. Height(Current, h)
  BY <1>1, <1>2 DEF IInv, HeightsExact
<1>5. Settled(r, nodeStates, offsets', Current)
  BY <1>1, <1>2 DEF Settled
<1>6. offsets \subseteq offsets' /\ offsets' \subseteq PointedTo
  BY <1>1 DEF IInv, Collected
<1> QED
  BY <1>1, <1>3, <1>4, <1>5, <1>6, ReturnStep

\* A node too deep, or one of its own ancestors.
LEMMA RejectStep ==
    ASSUME IInv, RejectNode
    PROVE  IInv'
<1> DEFINE L == Len(frames)
           w == AddressBits(r)
<1>1. /\ phase = "tree" /\ call.pointer = Current /\ call.pointer < NodeCount(r)
      /\ call.bitDepth = rootDepth + L
      /\ call.bitDepth >= Bits \/ nodeStates[call.pointer] = Visiting
      /\ Fail /\ UNCHANGED <<r, walk, offsets, offset>>
  BY CallCurrent DEF RejectNode, OnNode
<1>2. /\ Current \in Below(r, 0, L) /\ L \in Nat
      /\ \A i \in 1 .. L : Current \in Below(r, frames[i].node, L - i + 1)
  BY CurrentBelow
<1>3. Current \in DOMAIN r.node /\ ReaderOK
  BY <1>1, CurrentBelow, Numbering DEF IInv
<1>4. w \in Nat /\ rootDepth = Bits - w /\ rootDepth \in Nat /\ Bits \in Nat
  BY Numbering, BitsAssumption DEF IInv
<1>5. CASE call.bitDepth >= Bits
  <2>1. Below(r, Current, 1) # {}
    BY <1>3, BelowOne
  <2>2. L + 1 > w
    BY <1>1, <1>2, <1>4, <1>5
  <2>3. ~TreeSound(r)
    BY <1>2, <1>3, <2>1, <2>2, TooLong
  <2> QED
    BY <1>1, <2>3, FailStep
<1>6. CASE nodeStates[call.pointer] = Visiting
  <2>1. PICK i \in 1 .. L : frames[i].node = Current
    BY <1>1, <1>3, <1>6 DEF IInv, Marked
  <2>2. L - i + 1 \in Nat /\ L - i + 1 > 0 /\ Current \in Below(r, Current, L - i + 1)
    BY <1>2, <2>1
  <2>3. w + 1 \in Nat /\ L + (w + 1) > w
    BY <1>2, <1>4
  <2>4. Below(r, Current, w + 1) # {}
    BY <2>2, <2>3, BelowCycle
  <2>5. ~TreeSound(r)
    BY <1>2, <1>3, <2>3, <2>4, TooLong
  <2> QED
    BY <1>1, <2>5, FailStep
<1> QED
  BY <1>1, <1>5, <1>6

\* The stack's nodes and the marked nodes are the same.
LEMMA MarkedNodes ==
    ASSUME NEW N, NEW marks, NEW stack, NEW F, stack \in Seq(F),
           \A i \in 1 .. Len(stack) : stack[i].node \in N /\ marks[stack[i].node] = Visiting,
           \A n \in N : marks[n] = Visiting => \E i \in 1 .. Len(stack) : stack[i].node = n
    PROVE  {stack[i].node : i \in DOMAIN stack} = {n \in N : marks[n] = Visiting}
<1>1. DOMAIN stack = 1 .. Len(stack)
  OBVIOUS
<1> QED
  BY <1>1

\* A node is entered, marked and put on the stack, and its left child comes next.
LEMMA EnterStep ==
    ASSUME IInv, EnterNode
    PROVE  IInv'
<1> DEFINE L == Len(frames)
           m == call.pointer
           f == [node |-> m, bitDepth |-> call.bitDepth, left |-> None]
           seen == {n \in DOMAIN r.node : nodeStates[n] # Unvisited}
<1>1. /\ phase = "tree" /\ call.pointer = Current /\ m < NodeCount(r) /\ height = None
      /\ call.bitDepth = rootDepth + L /\ call.bitDepth < Bits /\ nodeStates[m] = Unvisited
      /\ nodeStates' = [nodeStates EXCEPT ![m] = Visiting]
      /\ stateCount' = stateCount + 1 /\ frames' = Append(frames, f)
      /\ call' = [pointer |-> r.node[m][1], bitDepth |-> call.bitDepth + 1]
      /\ UNCHANGED <<r, phase, verdict, height, offsets, offset>>
  BY CallCurrent DEF EnterNode, OnNode
<1>2. /\ m \in Below(r, 0, L) /\ L \in Nat /\ m \in Nat
      /\ \A i \in 1 .. L : m \in Below(r, frames[i].node, L - i + 1)
  BY <1>1, CurrentBelow
<1>3. m \in DOMAIN r.node /\ ReaderOK /\ r.node[m][1] \in Nat
  BY <1>1, <1>2, Numbering DEF IInv
<1>4. /\ AddressBits(r) \in Nat /\ rootDepth = Bits - AddressBits(r) /\ rootDepth \in Nat
      /\ Bits \in Nat /\ Visiting \in Nat /\ Visiting > Bits
  BY Numbering, BitsAssumption, VisitingAssumption DEF IInv
<1>5. Visiting # Unvisited /\ Visiting \notin 0 .. Bits
  BY <1>4 DEF Unvisited
<1>6. L + 1 <= AddressBits(r)
  BY <1>1, <1>2, <1>4
<1>7. frames \in Seq(Frame) /\ f \in Frame
  <2>1. call.bitDepth \in Nat
    BY <1>1, <1>2, <1>4
  <2> QED
    BY <1>3, <2>1 DEF IInv, TypeOK, Frame
<1> HIDE DEF f, m
<1>8. /\ frames' \in Seq(Frame) /\ Len(frames') = L + 1 /\ frames'[L + 1] = f
      /\ \A i \in 1 .. L : frames'[i] = frames[i]
  BY <1>1, <1>7
<1>9. f.node = m /\ f.bitDepth = rootDepth + L /\ f.left = None
  BY <1>1 DEF f
<1>10. nodeStates \in [DOMAIN r.node -> 0 .. Bits \cup {Visiting}]
  BY DEF IInv, TypeOK
<1>11. /\ nodeStates'[m] = Visiting
       /\ \A n \in DOMAIN r.node : n # m => nodeStates'[n] = nodeStates[n]
  BY <1>1, <1>3, <1>10
<1>12. ReaderOK' /\ PointedTo' = PointedTo /\ rootDepth' = rootDepth
  BY <1>1, <1>3 DEF ReaderOK, PointedTo, rootDepth
<1>13. TypeOK'
  <2>1. call' \in [pointer : Nat, bitDepth : Nat]
    BY <1>1, <1>2, <1>3, <1>4
  <2>2. nodeStates' \in [DOMAIN r.node -> 0 .. Bits \cup {Visiting}]
    BY <1>1, <1>10
  <2>3. stateCount' \in Nat /\ frames' \in Seq(Frame')
    BY <1>1, <1>8 DEF IInv, TypeOK, Frame
  <2> QED
    BY <1>1, <2>1, <2>2, <2>3 DEF IInv, TypeOK
<1>14. Untouched' /\ Sweeping' /\ VerifiedIffSound'
  BY <1>1 DEF IInv, TypeOK, Untouched, Sweeping, VerifiedIffSound
<1>15. Path'
  <2>1. ASSUME NEW i \in 1 .. L + 1
        PROVE  frames'[i].bitDepth = rootDepth + i - 1 /\ i <= AddressBits(r)
    <3>1. CASE i = L + 1
      BY <1>2, <1>4, <1>6, <1>8, <1>9, <3>1
    <3>2. CASE i # L + 1
      <4>1. i \in 1 .. L
        BY <1>2, <3>2
      <4> QED
        BY <1>8, <4>1 DEF IInv, Path
    <3> QED
      BY <3>1, <3>2
  <2>2. frames'[1].node = 0
    <3>1. CASE L = 0
      <4>1. frames = <<>> /\ L + 1 = 1
        BY <1>7, <3>1
      <4> QED
        BY <1>1, <1>8, <1>9, <4>1 DEF Current, m
    <3>2. CASE L # 0
      <4>1. frames # <<>> /\ 1 \in 1 .. L
        BY <1>2, <1>7, <3>2
      <4> QED
        BY <1>8, <4>1 DEF IInv, Path
    <3> QED
      BY <3>1, <3>2
  <2>3. ASSUME NEW i \in 1 .. L
        PROVE  frames'[i + 1].node = Awaited(frames[i])
    <3>1. CASE i = L
      <4>1. frames # <<>>
        BY <1>2, <1>7, <3>1
      <4> QED
        BY <1>1, <1>8, <1>9, <3>1, <4>1 DEF Current, Top, m
    <3>2. CASE i # L
      <4>1. i \in 1 .. L - 1 /\ i + 1 \in 1 .. L
        BY <1>2, <3>2
      <4> QED
        BY <1>8, <4>1 DEF IInv, Path
    <3> QED
      BY <3>1, <3>2
  <2>4. ASSUME NEW i \in 1 .. L + 1, NEW j \in 1 .. L + 1, i <= j
        PROVE  frames'[j].node \in Below(r, frames'[i].node, j - i)
    <3>1. CASE j # L + 1
      <4>1. i \in 1 .. L /\ j \in 1 .. L
        BY <1>2, <2>4, <3>1
      <4> QED
        BY <1>8, <2>4, <4>1 DEF IInv, Path
    <3>2. CASE j = L + 1 /\ i # L + 1
      <4>1. i \in 1 .. L /\ j - i = L - i + 1
        BY <1>2, <3>2
      <4> QED
        BY <1>2, <1>8, <1>9, <3>2, <4>1
    <3>3. CASE j = L + 1 /\ i = L + 1
      <4>1. j - i = 0 /\ m \in Below(r, m, 0)
        BY <1>2, <3>3, BelowRoot
      <4> QED
        BY <1>8, <1>9, <3>3, <4>1
    <3> QED
      BY <3>1, <3>2, <3>3
  <2>5. L + 1 - 1 = L
    BY <1>2
  <2>6. \A i \in 1 .. L :
            frames'[i + 1].node = r.node[frames'[i].node][IF frames'[i].left = None THEN 1 ELSE 2]
    BY <1>8, <2>3 DEF Awaited
  <2> QED
    BY <1>1, <1>8, <1>12, <2>1, <2>2, <2>4, <2>5, <2>6 DEF Path, Awaited
<1>16. Marked'
  <2>1. \A i \in 1 .. L : frames[i].node \in DOMAIN r.node /\ frames[i].node # m
                              /\ nodeStates[frames[i].node] = Visiting
    BY <1>1, <1>5, FrameTyped DEF IInv, Marked, m
  <2>2. ASSUME NEW i \in 1 .. L + 1
        PROVE  /\ nodeStates'[frames'[i].node] = Visiting
               /\ i # L + 1 => i \in 1 .. L /\ frames'[i] = frames[i] /\ frames'[i].node # m
               /\ i = L + 1 => frames'[i].node = m
    BY <1>2, <1>8, <1>9, <1>11, <2>1
  <2>3. ASSUME NEW i \in 1 .. L + 1, NEW j \in 1 .. L + 1, frames'[i].node = frames'[j].node
        PROVE  i = j
    BY <2>2, <2>3 DEF IInv, Marked
  <2>4. ASSUME NEW n \in DOMAIN r.node, nodeStates'[n] = Visiting
        PROVE  \E i \in 1 .. L + 1 : frames'[i].node = n
    <3>1. CASE n = m
      BY <1>2, <1>8, <1>9, <3>1
    <3>2. CASE n # m
      <4>1. PICK i \in 1 .. L : frames[i].node = n
        BY <1>11, <2>4, <3>2 DEF IInv, Marked
      <4>2. i \in 1 .. L + 1
        BY <1>2
      <4> QED
        BY <1>8, <4>1, <4>2
    <3> QED
      BY <3>1, <3>2
  <2> QED
    BY <1>1, <1>8, <2>2, <2>3, <2>4 DEF Marked
<1>17. Turn'
  <2>1. call' # Nil /\ call'.pointer = r.node[m][1] /\ call'.bitDepth = rootDepth + (L + 1)
    <3>1. call.bitDepth + 1 = rootDepth + (L + 1)
      BY <1>1, <1>2, <1>4
    <3>2. r.node[m][1] # None
      BY <1>3 DEF None
    <3> QED
      BY <1>1, <3>1, <3>2 DEF Nil
  <2>2. Current' = r.node[m][1]
    <3>1. frames' # <<>> /\ frames'[Len(frames')] = f
      BY <1>2, <1>8
    <3> QED
      BY <1>1, <1>9, <3>1 DEF Current, Top, Awaited
  <2> QED
    BY <1>1, <1>8, <1>12, <2>1, <2>2 DEF Turn
<1>18. \A n \in DOMAIN r.node : nodeStates'[n] \notin {Unvisited, Visiting} =>
           n # m /\ nodeStates'[n] = nodeStates[n] /\ nodeStates[n] \notin {Unvisited, Visiting}
  BY <1>11
<1>19. Returns'
  <2>1. /\ \A i \in 1 .. L : frames[i].left # None =>
               /\ Height(r.node[frames[i].node][1], frames[i].left)
               /\ Settled(r, nodeStates', offsets', r.node[frames[i].node][1])
        /\ \A n \in DOMAIN r.node : nodeStates[n] \notin {Unvisited, Visiting} =>
               /\ Settled(r, nodeStates', offsets', r.node[n][1])
               /\ Settled(r, nodeStates', offsets', r.node[n][2])
    <3>1. \A n \in DOMAIN r.node : nodeStates[n] \notin {Unvisited, Visiting} =>
              nodeStates'[n] \notin {Unvisited, Visiting}
      BY <1>1, <1>11 DEF m
    <3> QED
      BY <1>1, <3>1, ReturnsKept
  <2>2. ASSUME NEW i \in 1 .. L + 1, frames'[i].left # None
        PROVE  i \in 1 .. L /\ frames'[i] = frames[i]
    BY <1>2, <1>8, <1>9, <2>2
  <2>3. \A i \in 1 .. Len(frames') : frames'[i].left # None =>
            /\ Height(r.node[frames'[i].node][1], frames'[i].left)
            /\ Settled(r, nodeStates', offsets', r.node[frames'[i].node][1])
    BY <1>8, <2>1, <2>2
  <2>4. \A n \in DOMAIN r.node : nodeStates'[n] \notin {Unvisited, Visiting} =>
            /\ Settled(r, nodeStates', offsets', r.node[n][1])
            /\ Settled(r, nodeStates', offsets', r.node[n][2])
    BY <1>18, <2>1
  <2> QED
    BY <1>1, <2>3, <2>4 DEF Returns, Known, Finished, Height
<1>20. Collected'
  BY <1>1, <1>12 DEF IInv, Collected
<1>21. HeightsExact'
  BY <1>1, <1>18 DEF IInv, HeightsExact, Height
<1>22. EachNodeOnce'
  <2>1. {frames'[i].node : i \in DOMAIN frames'} =
            {n \in DOMAIN r.node : nodeStates'[n] = Visiting}
    <3>1. /\ \A i \in 1 .. Len(frames') :
                 frames'[i].node \in DOMAIN r.node /\ nodeStates'[frames'[i].node] = Visiting
          /\ \A n \in DOMAIN r.node : nodeStates'[n] = Visiting =>
                 \E i \in 1 .. Len(frames') : frames'[i].node = n
      <4>1. \A i \in 1 .. Len(frames') : frames'[i] \in Frame
        BY <1>8
      <4>2. \A i \in 1 .. Len(frames') : frames'[i].node \in DOMAIN r.node
        BY <4>1 DEF Frame
      <4> QED
        BY <1>1, <1>16, <4>2 DEF Marked
    <3> QED
      BY <1>8, <3>1, MarkedNodes
  <2>2. {n \in DOMAIN r.node : nodeStates'[n] # Unvisited} = seen \cup {m}
    BY <1>3, <1>5, <1>11
  <2>3. IsFiniteSet(seen) /\ m \notin seen
    BY <1>1, FS_Subset DEF IInv, ReaderOK, m
  <2>4. Cardinality(seen \cup {m}) = Cardinality(seen) + 1
    BY <2>3, FS_AddElement
  <2>5. stateCount = Cardinality(seen)
    BY DEF IInv, EachNodeOnce
  <2> QED
    BY <1>1, <2>1, <2>2, <2>4, <2>5 DEF EachNodeOnce
<1> QED
  BY <1>12, <1>13, <1>14, <1>15, <1>16, <1>17, <1>19, <1>20, <1>21, <1>22 DEF IInv

\* A return is about the current record.
LEMMA ReturnCurrent ==
    ASSUME IInv, Returned
    PROVE  /\ phase = "tree" /\ call = Nil /\ height \in 0 .. Bits
           /\ Height(Current, height) /\ Settled(r, nodeStates, offsets, Current)
BY DEF IInv, TypeOK, Returned, Turn, Returns, Known, Finished

\* The innermost frame.
LEMMA TopFrame ==
    ASSUME IInv, frames # <<>>
    PROVE  /\ Len(frames) \in Nat \ {0} /\ Len(frames) \in 1 .. Len(frames)
           /\ Top = frames[Len(frames)] /\ Top \in Frame /\ Top.node \in DOMAIN r.node
           /\ Current = r.node[Top.node][IF Top.left = None THEN 1 ELSE 2]
           /\ Top.bitDepth = rootDepth + Len(frames) - 1
           /\ Top.node \in Below(r, 0, Len(frames) - 1)
           /\ nodeStates[Top.node] = Visiting
<1>1. Len(frames) \in Nat \ {0} /\ Len(frames) \in 1 .. Len(frames) /\ 1 \in 1 .. Len(frames)
  BY FrameTyped
<1>2. Top = frames[Len(frames)]
  BY DEF Top
<1>3. Top \in Frame /\ Top.node \in DOMAIN r.node
  BY <1>1, <1>2, FrameTyped
<1>4. Current = r.node[Top.node][IF Top.left = None THEN 1 ELSE 2]
  BY DEF Current, Awaited
<1>5. /\ Top.bitDepth = rootDepth + Len(frames) - 1 /\ frames[1].node = 0
      /\ Top.node \in Below(r, frames[1].node, Len(frames) - 1)
  BY <1>1, <1>2 DEF IInv, Path
<1>6. nodeStates[Top.node] = Visiting
  BY <1>1, <1>2 DEF IInv, Marked
<1> QED
  BY <1>1, <1>2, <1>3, <1>4, <1>5, <1>6

\* The left child is done and the right one comes next.
LEMMA LeftStep ==
    ASSUME IInv, LeftDone
    PROVE  IInv'
<1> DEFINE L == Len(frames)
           m == Top.node
           f == [Top EXCEPT !.left = height]
<1>1. /\ frames # <<>> /\ Top.left = None
      /\ frames' = [frames EXCEPT ![L].left = height]
      /\ call' = [pointer |-> r.node[m][2], bitDepth |-> Top.bitDepth + 1]
      /\ height' = None
      /\ UNCHANGED <<r, phase, verdict, nodeStates, stateCount, offsets, offset>>
  BY DEF LeftDone
<1>2. /\ phase = "tree" /\ height \in 0 .. Bits
      /\ Height(Current, height) /\ Settled(r, nodeStates, offsets, Current)
  BY ReturnCurrent DEF LeftDone
<1>3. /\ L \in Nat \ {0} /\ L \in 1 .. L /\ Top = frames[L] /\ Top \in Frame
      /\ m \in DOMAIN r.node /\ Current = r.node[m][1] /\ Top.bitDepth = rootDepth + L - 1
  BY <1>1, TopFrame
<1>4. r.node[m][2] \in Nat /\ rootDepth \in Nat /\ ReaderOK
  BY <1>3, Numbering DEF IInv
<1>5. f \in Frame /\ f.node = m /\ f.bitDepth = Top.bitDepth /\ f.left = height /\ height # None
  BY <1>2, <1>3 DEF Frame, None
<1>6. frames \in Seq(Frame)
  BY DEF IInv, TypeOK
<1> HIDE DEF f, m
<1>7. /\ frames' \in Seq(Frame) /\ Len(frames') = L /\ frames'[L] = f
      /\ \A i \in 1 .. L : i # L => frames'[i] = frames[i]
  <2>1. frames' = [frames EXCEPT ![L] = f]
    BY <1>1, <1>3 DEF f
  <2> QED
    BY <1>3, <1>5, <1>6, <2>1
<1>8. \A i \in 1 .. L : /\ frames'[i].node = frames[i].node
                        /\ frames'[i].bitDepth = frames[i].bitDepth
  BY <1>3, <1>5, <1>7 DEF m
<1>9. ReaderOK' /\ PointedTo' = PointedTo /\ rootDepth' = rootDepth
  BY <1>1, <1>4 DEF ReaderOK, PointedTo, rootDepth
<1>10. TypeOK'
  <2>1. call' \in [pointer : Nat, bitDepth : Nat]
    BY <1>1, <1>3, <1>4
  <2>2. frames' \in Seq(Frame')
    BY <1>1, <1>7 DEF Frame
  <2> QED
    BY <1>1, <2>1, <2>2 DEF IInv, TypeOK
<1>11. Untouched' /\ Sweeping' /\ VerifiedIffSound'
  BY <1>1, <1>2 DEF IInv, TypeOK, Untouched, Sweeping, VerifiedIffSound
<1>12. Path'
  <2>1. \A i \in 1 .. L : frames'[i].bitDepth = rootDepth + i - 1 /\ i <= AddressBits(r)
    BY <1>8 DEF IInv, Path
  <2>2. frames'[1].node = 0
    BY <1>1, <1>3, <1>8 DEF IInv, Path
  <2>3. ASSUME NEW i \in 1 .. L - 1
        PROVE  frames'[i + 1].node =
                   r.node[frames'[i].node][IF frames'[i].left = None THEN 1 ELSE 2]
    <3>1. i \in 1 .. L /\ i # L /\ i + 1 \in 1 .. L
      BY <1>3
    <3>2. frames[i + 1].node = Awaited(frames[i])
      BY DEF IInv, Path
    <3> QED
      BY <1>7, <1>8, <3>1, <3>2 DEF Awaited
  <2>4. \A i, j \in 1 .. L : i <= j => frames'[j].node \in Below(r, frames'[i].node, j - i)
    BY <1>8 DEF IInv, Path
  <2> QED
    BY <1>1, <1>7, <1>9, <2>1, <2>2, <2>3, <2>4 DEF Path, Awaited
<1>13. Marked'
  BY <1>1, <1>7, <1>8 DEF IInv, Marked
<1>14. Turn'
  <2>1. call' # Nil /\ call'.pointer = r.node[m][2] /\ call'.bitDepth = rootDepth + L
    <3>1. Top.bitDepth + 1 = rootDepth + L
      BY <1>3, <1>4
    <3>2. r.node[m][2] # None
      BY <1>4 DEF None
    <3> QED
      BY <1>1, <3>1, <3>2 DEF Nil
  <2>2. Current' = r.node[m][2]
    <3>1. frames' # <<>> /\ frames'[Len(frames')] = f
      BY <1>3, <1>7
    <3> QED
      BY <1>1, <1>5, <3>1 DEF Current, Top, Awaited
  <2> QED
    BY <1>1, <1>7, <1>9, <2>1, <2>2 DEF Turn
<1>15. Returns'
  <2>1. /\ \A i \in 1 .. L : frames[i].left # None =>
               /\ Height(r.node[frames[i].node][1], frames[i].left)
               /\ Settled(r, nodeStates', offsets', r.node[frames[i].node][1])
        /\ \A n \in DOMAIN r.node : nodeStates[n] \notin {Unvisited, Visiting} =>
               /\ Settled(r, nodeStates', offsets', r.node[n][1])
               /\ Settled(r, nodeStates', offsets', r.node[n][2])
    BY <1>1, <1>2, ReturnsKept
  <2>2. \A i \in 1 .. Len(frames') : frames'[i].left # None =>
            /\ Height(r.node[frames'[i].node][1], frames'[i].left)
            /\ Settled(r, nodeStates', offsets', r.node[frames'[i].node][1])
    <3> SUFFICES ASSUME NEW i \in 1 .. L, frames'[i].left # None
                 PROVE  /\ Height(r.node[frames'[i].node][1], frames'[i].left)
                        /\ Settled(r, nodeStates', offsets', r.node[frames'[i].node][1])
      BY <1>7
    <3>1. CASE i = L
      <4>1. frames'[i].left = height /\ r.node[frames'[i].node][1] = Current
        BY <1>3, <1>5, <1>7, <3>1
      <4> QED
        BY <1>1, <1>2, <4>1
    <3>2. CASE i # L
      BY <1>7, <2>1, <3>2
    <3> QED
      BY <3>1, <3>2
  <2> QED
    BY <1>1, <2>1, <2>2 DEF Returns, Known, Finished, Height
<1>16. Collected' /\ HeightsExact'
  BY <1>1, <1>9 DEF IInv, Collected, HeightsExact, Height
<1>17. EachNodeOnce'
  <2>1. {frames'[i].node : i \in DOMAIN frames'} =
            {n \in DOMAIN r.node : nodeStates'[n] = Visiting}
    <3>1. \A i \in 1 .. Len(frames') : frames'[i] \in Frame
      BY <1>7
    <3>2. \A i \in 1 .. Len(frames') : frames'[i].node \in DOMAIN r.node
      BY <3>1 DEF Frame
    <3>3. /\ \A i \in 1 .. Len(frames') : nodeStates'[frames'[i].node] = Visiting
          /\ \A n \in DOMAIN r.node : nodeStates'[n] = Visiting =>
                 \E i \in 1 .. Len(frames') : frames'[i].node = n
      BY <1>1, <1>13 DEF Marked
    <3> QED
      BY <1>7, <3>2, <3>3, MarkedNodes
  <2> QED
    BY <1>1, <2>1 DEF IInv, EachNodeOnce
<1> QED
  BY <1>9, <1>10, <1>11, <1>12, <1>13, <1>14, <1>15, <1>16, <1>17 DEF IInv

\* A stack without its top.
LEMMA Popped ==
    ASSUME NEW S, NEW q \in Seq(S), Len(q) > 0
    PROVE  /\ SubSeq(q, 1, Len(q) - 1) \in Seq(S)
           /\ Len(SubSeq(q, 1, Len(q) - 1)) = Len(q) - 1
           /\ \A i \in 1 .. Len(q) - 1 : SubSeq(q, 1, Len(q) - 1)[i] = q[i]
<1> DEFINE outer == SubSeq(q, 1, Len(q) - 1)
<1>1. q # <<>>
  OBVIOUS
<1>2. /\ outer \in Seq(S) /\ Len(outer) = Len(q) - 1
      /\ \A i \in DOMAIN outer : i \in DOMAIN q /\ outer[i] = q[i]
  BY <1>1, Numbers!Stack
<1> HIDE DEF outer
<1>3. DOMAIN outer = 1 .. Len(q) - 1
  BY <1>2
<1>4. /\ outer \in Seq(S) /\ Len(outer) = Len(q) - 1
      /\ \A i \in 1 .. Len(q) - 1 : outer[i] = q[i]
  BY <1>2, <1>3
<1> QED
  BY <1>4 DEF outer

\* Both children are done, and the node's height with them.
LEMMA RightStep ==
    ASSUME IInv, RightDone
    PROVE  IInv'
<1> DEFINE L == Len(frames)
           m == Top.node
           most == Max({Top.left, height})
           h == most + 1
<1>1. frames # <<>> /\ Top.left # None
  BY DEF RightDone
<1>2. /\ phase = "tree" /\ call = Nil /\ height \in 0 .. Bits
      /\ Height(Current, height) /\ Settled(r, nodeStates, offsets, Current)
  BY ReturnCurrent DEF RightDone
<1>3. /\ L \in Nat \ {0} /\ L \in 1 .. L /\ Top = frames[L] /\ Top \in Frame
      /\ m \in DOMAIN r.node /\ Current = r.node[m][2]
      /\ m \in Below(r, 0, L - 1) /\ nodeStates[m] = Visiting
  BY <1>1, TopFrame
<1>4. /\ AddressBits(r) \in Nat /\ rootDepth = Bits - AddressBits(r) /\ rootDepth \in Nat
      /\ Bits \in Nat /\ Visiting \in Nat /\ Visiting > Bits /\ ReaderOK
  BY Numbering, BitsAssumption, VisitingAssumption DEF IInv
<1>5. /\ Top.left \in 0 .. Bits
      /\ Height(r.node[m][1], Top.left) /\ Settled(r, nodeStates, offsets, r.node[m][1])
  <2>1. Top.left \in 0 .. Bits
    BY <1>1, <1>3 DEF Frame
  <2> QED
    BY <1>1, <1>2, <1>3, <2>1 DEF IInv, Returns, Known, Finished
<1>6. most \in 0 .. Bits
  BY <1>2, <1>5 DEF Max
<1>7. Height(m, h)
  <2>1. Top.left \in Nat /\ height \in Nat
    BY <1>2, <1>4, <1>5
  <2> QED
    BY <1>2, <1>3, <1>5, <2>1, HigherChild
<1> HIDE DEF most, m
<1>8. CASE most = Bits
  <2>1. Fail /\ UNCHANGED <<r, walk, offsets, offset>>
    BY <1>8 DEF RightDone, most
  <2>2. Below(r, m, Bits + 1) # {}
    BY <1>7, <1>8 DEF Height
  <2>3. L - 1 \in Nat /\ Bits + 1 \in Nat /\ (L - 1) + (Bits + 1) > AddressBits(r)
    BY <1>3, <1>4
  <2>4. ~TreeSound(r)
    BY <1>3, <1>4, <2>2, <2>3, TooLong
  <2> QED
    BY <2>1, <2>4, FailStep
<1>9. CASE most # Bits
  <2>1. /\ nodeStates' = [nodeStates EXCEPT ![m] = h]
        /\ frames' = SubSeq(frames, 1, L - 1) /\ height' = h
        /\ UNCHANGED <<call, stateCount, phase, verdict, r, offsets, offset>>
    BY <1>9 DEF RightDone, NodeHeight, most, m
  <2>2. h \in 1 .. Bits /\ h \in 0 .. Bits
    BY <1>4, <1>6, <1>9
  <2> HIDE DEF h
  <2>3. h \notin {Unvisited, Visiting} /\ h # None /\ Visiting # Unvisited
    BY <1>4, <2>2 DEF Unvisited, None
  <2>4. frames \in Seq(Frame) /\ nodeStates \in [DOMAIN r.node -> 0 .. Bits \cup {Visiting}]
    BY DEF IInv, TypeOK
  <2>5. /\ frames' \in Seq(Frame) /\ Len(frames') = L - 1
        /\ \A i \in 1 .. L - 1 : frames'[i] = frames[i]
    BY <1>3, <2>1, <2>4, Popped
  <2>6. /\ nodeStates'[m] = h
        /\ \A n \in DOMAIN r.node : n # m => nodeStates'[n] = nodeStates[n]
    BY <1>3, <2>1, <2>4 DEF m
  <2>7. ReaderOK' /\ PointedTo' = PointedTo /\ rootDepth' = rootDepth
    BY <1>4, <2>1 DEF ReaderOK, PointedTo, rootDepth
  <2>8. TypeOK'
    <3>1. frames' \in Seq(Frame')
      BY <2>1, <2>5 DEF Frame
    <3>2. nodeStates' \in [DOMAIN r.node -> 0 .. Bits \cup {Visiting}]
      BY <2>1, <2>2, <2>4
    <3> QED
      BY <2>1, <2>2, <3>1, <3>2 DEF IInv, TypeOK
  <2>9. Untouched' /\ Sweeping' /\ VerifiedIffSound'
    BY <1>2, <2>1 DEF IInv, TypeOK, Untouched, Sweeping, VerifiedIffSound
  <2>10. \A i \in 1 .. L - 1 : i \in 1 .. L /\ i # L
    BY <1>3
  <2>11. Path'
    <3>1. \A i \in 1 .. L - 1 : frames'[i].bitDepth = rootDepth + i - 1 /\ i <= AddressBits(r)
      BY <2>5, <2>10 DEF IInv, Path
    <3>2. frames' # <<>> => frames'[1].node = 0
      <4>1. ASSUME frames' # <<>> PROVE 1 \in 1 .. L - 1
        BY <1>3, <2>5, <4>1
      <4> QED
        BY <1>1, <2>5, <4>1 DEF IInv, Path
    <3>3. ASSUME NEW i \in 1 .. (L - 1) - 1
          PROVE  frames'[i + 1].node =
                     r.node[frames'[i].node][IF frames'[i].left = None THEN 1 ELSE 2]
      <4>1. i \in 1 .. L - 1 /\ i + 1 \in 1 .. L - 1
        BY <1>3
      <4>2. frames[i + 1].node = Awaited(frames[i])
        BY <4>1 DEF IInv, Path
      <4> QED
        BY <2>5, <4>1, <4>2 DEF Awaited
    <3>4. \A i, j \in 1 .. L - 1 : i <= j => frames'[j].node \in Below(r, frames'[i].node, j - i)
      BY <2>5, <2>10 DEF IInv, Path
    <3> QED
      BY <2>1, <2>5, <2>7, <3>1, <3>2, <3>3, <3>4 DEF Path, Awaited
  <2>12. Marked'
    <3>1. ASSUME NEW i \in 1 .. L - 1
          PROVE  frames[i].node # m /\ frames[i].node \in DOMAIN r.node
      BY <1>3, <2>10, FrameTyped DEF IInv, Marked, m
    <3>2. \A i \in 1 .. L - 1 : nodeStates'[frames'[i].node] = Visiting
      BY <2>5, <2>6, <2>10, <3>1 DEF IInv, Marked
    <3>3. \A i, j \in 1 .. L - 1 : frames'[i].node = frames'[j].node => i = j
      BY <2>5, <2>10 DEF IInv, Marked
    <3>4. ASSUME NEW n \in DOMAIN r.node, nodeStates'[n] = Visiting
          PROVE  \E i \in 1 .. L - 1 : frames'[i].node = n
      <4>1. n # m /\ nodeStates[n] = Visiting
        BY <2>3, <2>6, <3>4
      <4>2. PICK i \in 1 .. L : frames[i].node = n
        BY <4>1 DEF IInv, Marked
      <4>3. i # L
        BY <1>3, <4>1, <4>2 DEF m
      <4>4. i \in 1 .. L - 1
        BY <1>3, <4>3
      <4> QED
        BY <2>5, <4>2, <4>4
    <3> QED
      BY <2>1, <2>5, <3>2, <3>3, <3>4 DEF Marked
  <2>13. Turn'
    BY <1>2, <2>1, <2>3 DEF Turn
  <2>14. Current' = m
    <3>1. CASE L = 1
      <4>1. frames' = <<>>
        BY <2>5, <3>1
      <4> QED
        BY <1>1, <1>3, <3>1, <4>1 DEF Current, IInv, Path, m
    <3>2. CASE L # 1
      <4>1. /\ frames' # <<>> /\ L - 1 \in 1 .. L - 1 /\ frames'[L - 1] = frames[L - 1]
            /\ (L - 1) + 1 = L
        BY <1>3, <2>5, <3>2
      <4>2. frames[(L - 1) + 1].node = Awaited(frames[L - 1])
        BY <4>1 DEF IInv, Path
      <4>3. Current' = r.node[frames[L - 1].node][IF frames[L - 1].left = None THEN 1 ELSE 2]
        BY <2>1, <2>5, <4>1 DEF Current, Top, Awaited
      <4> QED
        BY <1>3, <4>1, <4>2, <4>3 DEF Awaited, m
    <3> QED
      BY <3>1, <3>2
  <2>15. \A n \in DOMAIN r.node : nodeStates'[n] \notin {Unvisited, Visiting} =>
             n = m \/ (nodeStates'[n] = nodeStates[n] /\ nodeStates[n] \notin {Unvisited, Visiting})
    BY <2>6
  <2>16. Returns'
    <3>1. \A n \in DOMAIN r.node : nodeStates[n] \notin {Unvisited, Visiting} =>
              nodeStates'[n] \notin {Unvisited, Visiting}
      BY <2>3, <2>6
    <3>2. /\ \A i \in 1 .. L : frames[i].left # None =>
                 /\ Height(r.node[frames[i].node][1], frames[i].left)
                 /\ Settled(r, nodeStates', offsets', r.node[frames[i].node][1])
          /\ Settled(r, nodeStates', offsets', Current)
          /\ \A n \in DOMAIN r.node : nodeStates[n] \notin {Unvisited, Visiting} =>
                 /\ Settled(r, nodeStates', offsets', r.node[n][1])
                 /\ Settled(r, nodeStates', offsets', r.node[n][2])
      <4>1. height # None
        BY <1>2 DEF None
      <4> QED
        BY <1>2, <2>1, <3>1, <4>1, ReturnsKept
    <3>3. \A i \in 1 .. Len(frames') : frames'[i].left # None =>
              /\ Height(r.node[frames'[i].node][1], frames'[i].left)
              /\ Settled(r, nodeStates', offsets', r.node[frames'[i].node][1])
      BY <2>5, <2>10, <3>2
    <3>4. Settled(r, nodeStates', offsets', r.node[m][1])
          /\ Settled(r, nodeStates', offsets', r.node[m][2])
      BY <1>1, <1>3, <3>2 DEF m
    <3>5. \A n \in DOMAIN r.node : nodeStates'[n] \notin {Unvisited, Visiting} =>
              /\ Settled(r, nodeStates', offsets', r.node[n][1])
              /\ Settled(r, nodeStates', offsets', r.node[n][2])
      BY <2>15, <3>2, <3>4
    <3>6. Height(m, h) /\ Settled(r, nodeStates', offsets', m)
      BY <1>3, <1>7, <2>3, <2>6 DEF Settled, m
    <3> QED
      BY <2>1, <2>14, <3>3, <3>5, <3>6 DEF Returns, Known, Finished, Height
  <2>17. Collected'
    BY <2>1, <2>7 DEF IInv, Collected
  <2>18. HeightsExact'
    <3>1. \A n \in DOMAIN r.node : nodeStates'[n] \notin {Unvisited, Visiting} =>
              Height(n, nodeStates'[n])
      BY <1>7, <2>6, <2>15 DEF IInv, HeightsExact
    <3> QED
      BY <2>1, <3>1 DEF HeightsExact, Height
  <2>19. EachNodeOnce'
    <3>1. {frames'[i].node : i \in DOMAIN frames'} =
              {n \in DOMAIN r.node : nodeStates'[n] = Visiting}
      <4>1. \A i \in 1 .. Len(frames') : frames'[i] \in Frame
        BY <2>5
      <4>2. \A i \in 1 .. Len(frames') : frames'[i].node \in DOMAIN r.node
        BY <4>1 DEF Frame
      <4>3. /\ \A i \in 1 .. Len(frames') : nodeStates'[frames'[i].node] = Visiting
            /\ \A n \in DOMAIN r.node : nodeStates'[n] = Visiting =>
                   \E i \in 1 .. Len(frames') : frames'[i].node = n
        BY <2>1, <2>12 DEF Marked
      <4>4. frames' \in Seq(Frame)
        BY <2>5
      <4> QED
        BY <4>2, <4>3, <4>4, MarkedNodes
    <3>2. {n \in DOMAIN r.node : nodeStates'[n] # Unvisited}
              = {n \in DOMAIN r.node : nodeStates[n] # Unvisited}
      BY <1>3, <2>3, <2>6 DEF m
    <3> QED
      BY <2>1, <3>1, <3>2 DEF IInv, EachNodeOnce
  <2> QED
    BY <2>7, <2>8, <2>9, <2>11, <2>12, <2>13, <2>16, <2>17, <2>18, <2>19 DEF IInv
<1> QED
  BY <1>8, <1>9

\* Once the root is done, so is everything below it.
LEMMA AllSettled ==
    ASSUME IInv, phase = "tree", Settled(r, nodeStates, offsets, 0), NEW k \in Nat
    PROVE  \A p \in Below(r, 0, k) : Settled(r, nodeStates, offsets, p)
<1> DEFINE T == {j \in Nat : \A p \in Below(r, 0, j) : Settled(r, nodeStates, offsets, p)}
<1>1. 0 \in T
  BY BelowRoot
<1>2. ASSUME NEW j \in Nat, j \in T PROVE j + 1 \in T
  <2> SUFFICES ASSUME NEW p \in Below(r, 0, j + 1)
               PROVE  Settled(r, nodeStates, offsets, p)
    OBVIOUS
  <2>1. p \in Children(r, Below(r, 0, j))
    BY BelowStep
  <2>2. PICK n \in Below(r, 0, j) \cap DOMAIN r.node : p \in {r.node[n][1], r.node[n][2]}
    BY <2>1 DEF Children
  <2>3. n < NodeCount(r) /\ n \in Nat /\ NodeCount(r) \in Nat
    BY <2>2, Numbering DEF IInv
  <2>4. Settled(r, nodeStates, offsets, n)
    BY <1>2, <2>2
  <2>5. nodeStates[n] \notin {Unvisited, Visiting}
    BY <2>3, <2>4 DEF Settled
  <2> QED
    BY <2>2, <2>5 DEF IInv, Returns, Finished
<1>3. Nat \subseteq T
  <2> HIDE DEF T
  <2> QED
    BY <1>1, <1>2, Numbers!Induction
<1> QED
  BY <1>3

\* The walk is over, and its height has the last word.
LEMMA TreeStep ==
    ASSUME IInv, TreeDone
    PROVE  IInv'
<1> DEFINE w == AddressBits(r)
<1>1. frames = <<>> /\ Len(frames) = 0 /\ Current = 0
  BY DEF TreeDone, Current
<1>2. /\ phase = "tree" /\ call = Nil /\ height \in 0 .. Bits
      /\ Height(0, height) /\ Settled(r, nodeStates, offsets, 0)
  BY <1>1, ReturnCurrent DEF TreeDone
<1>3. /\ w \in Nat /\ rootDepth = Bits - w /\ Bits \in Nat /\ Separator \in Nat \ {0}
      /\ NodeCount(r) \in Nat /\ ReaderOK
  BY Numbering, BitsAssumption DEF IInv
<1>4. height \in Nat /\ height + 1 \in Nat /\ (rootDepth + height > Bits <=> height > w)
  BY <1>2, <1>3
<1>5. CASE rootDepth + height > Bits
  <2>1. Fail /\ UNCHANGED <<r, walk, offsets, offset>>
    BY <1>5 DEF TreeDone
  <2>2. 0 \in Below(r, 0, 0) /\ Below(r, 0, height) # {}
    BY <1>2, BelowRoot DEF Height
  <2>3. 0 + height > w
    BY <1>4, <1>5
  <2>4. ~TreeSound(r)
    BY <1>3, <1>4, <2>2, <2>3, TooLong
  <2> QED
    BY <2>1, <2>4, FailStep
<1>6. CASE ~(rootDepth + height > Bits)
  <2>1. /\ phase' = "separator" /\ verdict' = verdict
        /\ UNCHANGED <<r, frames, call, height, nodeStates, stateCount, offsets, offset>>
    BY <1>6 DEF TreeDone, walk
  <2>2. /\ ReaderOK' /\ Path' /\ Marked' /\ HeightsExact' /\ EachNodeOnce'
        /\ PointedTo' = PointedTo
    BY <2>1, Frozen
  <2>3. height <= w
    BY <1>3, <1>4, <1>6
  <2>4. TreeSound(r)
    <3> SUFFICES ASSUME NEW k \in 0 .. w, NEW p \in Below(r, 0, k)
                 PROVE  \/ p < NodeCount(r) /\ k < w
                        \/ p = NodeCount(r)
                        \/ p > NodeCount(r) /\ resolveDataPointer(r, p) >= 0
      BY DEF TreeSound
    <3>1. Settled(r, nodeStates, offsets, p)
      BY <1>2, AllSettled
    <3>2. CASE p \in DOMAIN r.node
      <4>1. p < NodeCount(r)
        BY <3>2, Numbering DEF IInv
      <4>2. Below(r, p, 1) # {}
        BY <3>2, BelowOne
      <4>3. Below(r, 0, k + 1) # {}
        BY <4>2, BelowAdds
      <4>4. Below(r, 0, height + 1) = {}
        BY <1>2 DEF Height
      <4>5. k < w
        <5> SUFFICES ASSUME ~(k < w) PROVE FALSE
          OBVIOUS
        <5>1. k + 1 \in Nat /\ height + 1 <= k + 1
          BY <1>3, <1>4, <2>3
        <5> QED
          BY <1>4, <4>3, <4>4, <5>1, BelowEnds
      <4> QED
        BY <4>1, <4>5
    <3>3. CASE p \notin DOMAIN r.node
      BY <3>1, <3>3 DEF Settled
    <3> QED
      BY <3>2, <3>3
  <2>5. Swept = {}
    <3> SUFFICES ASSUME NEW o \in PointedTo PROVE o \in offsets
      BY DEF Swept
    <3> DEFINE p == NodeCount(r) + Separator + o
    <3>1. o \in 0 .. r.dataSectionSize - 1 /\ \E k \in 0 .. w : p \in Below(r, 0, k)
      BY DEF PointedTo
    <3>2. p \in Nat /\ p > NodeCount(r) /\ ~(p < NodeCount(r))
      BY <1>3, <3>1
    <3>3. resolveDataPointer(r, p) = o
      BY <1>3, <3>1, <3>2, Resolving
    <3>4. Settled(r, nodeStates, offsets, p)
      BY <1>2, <3>1, AllSettled
    <3>5. p \notin DOMAIN r.node /\ p # NodeCount(r)
      BY <1>3, <3>2, Numbering
    <3> HIDE DEF p
    <3> QED
      BY <3>3, <3>4, <3>5 DEF Settled
  <2>6. TypeOK'
    BY <1>2, <2>1 DEF IInv, TypeOK, Frame
  <2>7. Untouched' /\ Turn' /\ Returns' /\ VerifiedIffSound'
    BY <1>2, <2>1 DEF IInv, TypeOK, Untouched, Turn, Returns, VerifiedIffSound
  <2>8. Collected'
    BY <1>2, <2>1, <2>2, <2>4 DEF IInv, Collected
  <2>9. Sweeping'
    <3>1. offset = 0
      BY <1>2 DEF IInv, Untouched
    <3>2. 0 \in 0 .. r.dataSectionSize /\ 0 <= 0 /\ 0 \in StartsWithin(r, 0)
      BY <1>3, StartsRoot DEF ReaderOK
    <3>3. Swept' = {}
      BY <2>1, <2>2, <2>5 DEF Swept
    <3> QED
      BY <2>1, <3>1, <3>2, <3>3 DEF Sweeping
  <2> QED
    BY <2>2, <2>6, <2>7, <2>8, <2>9 DEF IInv
<1> QED
  BY <1>5, <1>6

-----------------------------------------------------------------------------
(* The sweep.                                                               *)

\* Where the sweep stands is the start of a value, which it has not met before; once
\* it has passed the end of the section there are no other starts.
LEMMA SweepAt ==
    ASSUME IInv, phase = "data"
    PROVE  /\ r.dataSectionSize \in Nat /\ offset \in Nat
           /\ offset \in Starts /\ offset \notin Swept /\ Swept \subseteq Starts
           /\ offset >= r.dataSectionSize => Starts = Swept \cup {offset}
<1>1. /\ r.dataSectionSize \in Nat /\ offset \in Nat
      /\ DOMAIN r.end = 0 .. r.dataSectionSize - 1
  BY DEF IInv, ReaderOK, TypeOK
<1>2. offset \notin Swept /\ Swept \subseteq Starts
  <2>1. (\A o \in Swept : o < offset) /\ Swept \subseteq Starts
    BY DEF IInv, Sweeping
  <2>2. ~(offset < offset)
    BY <1>1
  <2> QED
    BY <2>1, <2>2
<1>3. PICK k \in 0 .. r.dataSectionSize : offset \in StartsWithin(r, k)
  BY DEF IInv, Sweeping
<1>4. offset \in Starts
  BY <1>1, <1>3, StartsGrow DEF Starts
<1>5. ASSUME offset >= r.dataSectionSize PROVE Starts \subseteq Swept \cup {offset}
  <2> DEFINE x == Swept \cup {offset}
  <2>1. 0 \in x
    BY DEF IInv, Sweeping
  <2>2. ASSUME NEW o \in x \cap DOMAIN r.end PROVE r.end[o] \in x
    <3>1. o # offset
      BY <1>1, <1>5
    <3> QED
      BY <3>1 DEF IInv, Sweeping
  <2> HIDE DEF x
  <2>3. Starts \subseteq x
    BY <1>1, <2>1, <2>2, StartsClosed DEF Starts
  <2> QED
    BY <2>3 DEF x
<1> QED
  BY <1>1, <1>2, <1>4, <1>5

\* One value of the data section.
LEMMA SweepStep ==
    ASSUME IInv, Sweep
    PROVE  IInv'
<1>1. phase = "data" /\ offset < r.dataSectionSize /\ UNCHANGED <<r, walk>>
  BY DEF Sweep
<1>2. /\ r.dataSectionSize \in Nat /\ offset \in Nat
      /\ offset \in Starts /\ offset \notin Swept /\ Swept \subseteq Starts
  BY <1>1, SweepAt
<1>3. offset \in DOMAIN r.end /\ r.end[offset] \in Int
  BY <1>1, <1>2 DEF IInv, ReaderOK
<1>4. CASE r.end[offset] <= offset \/ offset \notin offsets
  <2>1. Fail /\ UNCHANGED <<r, walk, offsets, offset>>
    BY <1>1, <1>4 DEF Sweep
  <2>2. offset # r.dataSectionSize
    BY <1>1, <1>2
  <2>3. CASE r.end[offset] <= offset
    <3>1. ~(r.end[offset] > offset)
      BY <1>2, <1>3, <2>3
    <3>2. ~DataSound
      BY <1>2, <2>2, <3>1 DEF DataSound
    <3> QED
      BY <2>1, <3>2, FailStep
  <2>4. CASE offset \notin offsets
    <3>1. offset \notin PointedTo
      BY <1>2, <2>4 DEF Swept
    <3>2. ~DataSound
      BY <1>2, <2>2, <3>1 DEF DataSound
    <3> QED
      BY <2>1, <3>2, FailStep
  <2> QED
    BY <1>4, <2>3, <2>4
<1>5. CASE ~(r.end[offset] <= offset \/ offset \notin offsets)
  <2>1. /\ offset' = r.end[offset] /\ offsets' = offsets \ {offset}
        /\ UNCHANGED <<r, phase, verdict, frames, call, height, nodeStates, stateCount>>
    BY <1>1, <1>5 DEF Sweep, walk
  <2>2. offset \in offsets /\ r.end[offset] > offset /\ offset' \in Nat
    BY <1>2, <1>3, <1>5, <2>1
  <2>3. /\ ReaderOK' /\ Path' /\ Marked' /\ HeightsExact' /\ EachNodeOnce'
        /\ PointedTo' = PointedTo
    BY <2>1, Frozen
  <2>4. TypeOK'
    BY <2>1, <2>2 DEF IInv, TypeOK, Frame
  <2>5. Untouched' /\ Turn' /\ Returns' /\ VerifiedIffSound'
    BY <1>1, <2>1 DEF IInv, TypeOK, Untouched, Turn, Returns, VerifiedIffSound
  <2>6. Collected'
    BY <2>1, <2>3 DEF IInv, Collected
  <2>7. Swept' = Swept \cup {offset}
    BY <2>1, <2>2, <2>3 DEF IInv, Collected, Swept
  <2>8. ASSUME NEW o \in Swept'
        PROVE  o < offset' /\ r.end[o] > o /\ r.end[o] \in Swept' \cup {offset'}
    <3>1. CASE o = offset
      BY <2>1, <2>2, <3>1
    <3>2. CASE o # offset
      <4>1. o \in Swept /\ o \in Nat
        BY <1>2, <2>7, <3>2 DEF Swept, PointedTo
      <4>2. o < offset /\ r.end[o] > o /\ r.end[o] \in Swept \cup {offset}
        BY <1>1, <4>1 DEF IInv, Sweeping
      <4>3. o < offset'
        BY <1>2, <1>3, <2>1, <2>2, <4>1, <4>2
      <4> QED
        BY <2>7, <4>2, <4>3
    <3> QED
      BY <3>1, <3>2
  <2>9. 0 \in Swept' \cup {offset'}
    BY <1>1, <2>7 DEF IInv, Sweeping
  <2>10. Swept' \subseteq Starts
    BY <1>2, <2>7
  <2>11. \E k \in 0 .. r.dataSectionSize : k <= offset' /\ offset' \in StartsWithin(r, k)
    <3>1. PICK k \in 0 .. r.dataSectionSize : k <= offset /\ offset \in StartsWithin(r, k)
      BY <1>1 DEF IInv, Sweeping
    <3>2. k \in Nat /\ k + 1 \in 0 .. r.dataSectionSize /\ k + 1 <= offset'
      BY <1>1, <1>2, <1>3, <2>1, <2>2, <3>1
    <3>3. StartsWithin(r, k + 1) = Onwards(r, StartsWithin(r, k))
      BY <3>2, StartsStep
    <3>4. offset' \in StartsWithin(r, k + 1)
      BY <1>3, <2>1, <3>1, <3>3 DEF Onwards
    <3> QED
      BY <3>2, <3>4
  <2>12. Sweeping'
    <3>1. Starts' = Starts
      BY <2>1 DEF Starts
    <3> QED
      BY <2>1, <2>8, <2>9, <2>10, <2>11, <3>1 DEF Sweeping
  <2> QED
    BY <2>3, <2>4, <2>5, <2>6, <2>12 DEF IInv
<1> QED
  BY <1>4, <1>5

\* The end of the data section.
LEMMA SweepDoneStep ==
    ASSUME IInv, SweepDone
    PROVE  IInv'
<1>1. /\ phase = "data" /\ offset >= r.dataSectionSize /\ phase' = "end"
      /\ verdict' = IF offset = r.dataSectionSize /\ offsets = {} THEN "ok" ELSE "err"
      /\ UNCHANGED <<r, walk, offsets, offset>>
  BY DEF SweepDone
<1>2. /\ r.dataSectionSize \in Nat /\ offset \in Nat
      /\ offset \in Starts /\ offset \notin Swept /\ Starts = Swept \cup {offset}
      /\ DOMAIN r.end = 0 .. r.dataSectionSize - 1
  BY <1>1, SweepAt DEF IInv, ReaderOK
<1>3. CASE offset = r.dataSectionSize /\ offsets = {}
  <2>1. UNCHANGED <<r, frames, call, height, nodeStates, stateCount, offsets, offset>>
    BY <1>1 DEF walk
  <2>2. /\ ReaderOK' /\ Path' /\ Marked' /\ HeightsExact' /\ EachNodeOnce'
        /\ PointedTo' = PointedTo
    BY <2>1, Frozen
  <2>3. verdict' = "ok"
    BY <1>1, <1>3
  <2>4. Swept = PointedTo
    BY <1>3 DEF Swept
  <2>5. DataSound
    <3>1. ASSUME NEW o \in Starts, o # r.dataSectionSize
          PROVE  o \in DOMAIN r.end /\ r.end[o] > o
      <4>1. o \in Swept
        BY <1>2, <1>3, <3>1
      <4>2. o \in 0 .. r.dataSectionSize - 1
        BY <2>4, <4>1 DEF PointedTo
      <4> QED
        BY <1>1, <1>2, <4>1, <4>2 DEF IInv, Sweeping
    <3>2. Starts \ {r.dataSectionSize} = PointedTo
      BY <1>2, <1>3, <2>4
    <3> QED
      BY <3>1, <3>2 DEF DataSound
  <2>6. r.metadataOK /\ TreeSound(r) /\ r.separatorOK
    BY <1>1 DEF IInv, Collected
  <2>7. TypeOK'
    BY <1>1, <2>1, <2>3 DEF IInv, TypeOK, Frame
  <2>8. Untouched' /\ Turn' /\ Returns' /\ Sweeping'
    BY <1>1 DEF Untouched, Turn, Returns, Sweeping
  <2>9. Collected'
    BY <1>1, <2>1, <2>2 DEF IInv, Collected
  <2>10. DataSound' = DataSound
    BY <2>1, <2>2 DEF DataSound, Starts
  <2>11. VerifiedIffSound'
    BY <2>1, <2>3, <2>5, <2>6, <2>10 DEF VerifiedIffSound
  <2> QED
    BY <2>2, <2>7, <2>8, <2>9, <2>11 DEF IInv
<1>4. CASE ~(offset = r.dataSectionSize /\ offsets = {})
  <2>1. Fail /\ UNCHANGED <<r, walk, offsets, offset>>
    BY <1>1, <1>4 DEF Fail
  <2>2. CASE offset # r.dataSectionSize
    <3>1. offset \notin DOMAIN r.end
      BY <1>1, <1>2
    <3>2. ~DataSound
      BY <1>2, <2>2, <3>1 DEF DataSound
    <3> QED
      BY <2>1, <3>2, FailStep
  <2>3. CASE offset = r.dataSectionSize
    <3>1. PICK o \in offsets : o \in PointedTo
      BY <1>4, <2>3 DEF IInv, Collected
    <3>2. o \notin Swept /\ o # r.dataSectionSize
      BY <1>2, <3>1 DEF Swept, PointedTo
    <3>3. o \notin Starts
      BY <1>2, <2>3, <3>2
    <3>4. ~DataSound
      BY <3>1, <3>3 DEF DataSound
    <3> QED
      BY <2>1, <3>4, FailStep
  <2> QED
    BY <2>2, <2>3
<1> QED
  BY <1>3, <1>4

-----------------------------------------------------------------------------
(* The theorems.                                                            *)

\* setIPv4Start touches nothing that Verify looks at.
LEMMA InitReader ==
    ASSUME Init
    PROVE  ReaderOK
<1>1. PICK d \in Databases : r = setIPv4Start(d)
  BY DEF Init
<1>2. PICK x, y : r = [d EXCEPT !.ipv4Start = x, !.ipv4StartBitDepth = y]
  BY <1>1 DEF setIPv4Start
<1>3. /\ {"version", "node", "dataSectionSize", "end", "metadataOK", "separatorOK",
          "ipv4Start", "ipv4StartBitDepth"} \subseteq DOMAIN d
      /\ IsFiniteSet(DOMAIN d.node) /\ DOMAIN d.node = 0 .. NodeCount(d) - 1
      /\ \A n \in DOMAIN d.node : d.node[n] \in Nat \X Nat
      /\ d.dataSectionSize \in Nat /\ DOMAIN d.end = 0 .. d.dataSectionSize - 1
      /\ \A o \in DOMAIN d.end : d.end[o] \in Int
  BY DatabasesAssumption
<1>4. r.node = d.node /\ r.end = d.end /\ r.dataSectionSize = d.dataSectionSize
  BY <1>2, <1>3
<1>5. NodeCount(r) = NodeCount(d)
  BY <1>4 DEF NodeCount
<1> QED
  BY <1>3, <1>4, <1>5 DEF ReaderOK

\* The invariant holds before anything is verified.
LEMMA InitIInv ==
    ASSUME Init
    PROVE  IInv
<1>1. ReaderOK
  BY InitReader
<1>2. /\ phase = "metadata" /\ frames = <<>> /\ call = Nil /\ height = None
      /\ nodeStates = [n \in DOMAIN r.node |-> Unvisited]
      /\ offsets = {} /\ stateCount = 0 /\ offset = 0 /\ verdict = "none"
  BY DEF Init
<1>3. Visiting # Unvisited /\ 0 \in 0 .. Bits
  BY BitsAssumption, VisitingAssumption DEF Unvisited
<1>4. TypeOK
  BY <1>2, <1>3 DEF TypeOK, Unvisited
<1>5. Len(frames) = 0 /\ DOMAIN frames = {}
  BY <1>2
<1>6. Untouched /\ Path /\ Turn /\ Collected /\ Sweeping /\ VerifiedIffSound
  BY <1>2, <1>5 DEF Untouched, Path, Turn, Collected, Sweeping, VerifiedIffSound
<1>7. Marked
  BY <1>2, <1>3, <1>5 DEF Marked
<1>8. Returns /\ HeightsExact
  BY <1>2, <1>5 DEF Returns, HeightsExact
<1>9. EachNodeOnce
  <2>1. {n \in DOMAIN r.node : nodeStates[n] # Unvisited} = {}
    BY <1>2
  <2>2. {n \in DOMAIN r.node : nodeStates[n] = Visiting} = {}
    BY <1>2, <1>3
  <2>3. {frames[i].node : i \in DOMAIN frames} = {}
    BY <1>5
  <2>4. Cardinality({}) = 0
    BY FS_EmptySet
  <2> QED
    BY <1>2, <2>1, <2>2, <2>3, <2>4 DEF EachNodeOnce
<1> QED
  BY <1>1, <1>4, <1>6, <1>7, <1>8, <1>9 DEF IInv

\* Nothing changes.
LEMMA StutterStep ==
    ASSUME IInv, UNCHANGED vars
    PROVE  IInv'
<1>1. UNCHANGED <<r, phase, frames, call, height, nodeStates, offsets, stateCount, offset, verdict>>
  BY DEF vars
<1>2. /\ ReaderOK' /\ Path' /\ Marked' /\ HeightsExact' /\ EachNodeOnce'
      /\ PointedTo' = PointedTo /\ rootDepth' = rootDepth /\ Current' = Current
  BY <1>1, Frozen
<1>3. TypeOK' /\ Untouched'
  BY <1>1 DEF IInv, TypeOK, Frame, Untouched
<1>4. Turn'
  BY <1>1, <1>2 DEF IInv, Turn
<1>5. Returns'
  BY <1>1, <1>2 DEF IInv, Returns, Known, Finished, Height
<1>6. Collected'
  BY <1>1, <1>2 DEF IInv, Collected
<1>7. Sweeping'
  BY <1>1, <1>2 DEF IInv, Sweeping, Swept, Starts
<1>8. VerifiedIffSound'
  <2>1. DataSound' = DataSound
    BY <1>1, <1>2 DEF DataSound, Starts
  <2> QED
    BY <1>1, <2>1 DEF IInv, VerifiedIffSound
<1> QED
  BY <1>2, <1>3, <1>4, <1>5, <1>6, <1>7, <1>8 DEF IInv

\* Every state of Verify satisfies the invariant, whatever the database.
THEOREM Invariance == Spec => []IInv
<1>1. Init => IInv
  BY InitIInv
<1>2. IInv /\ [Next]_vars => IInv'
  BY MetadataStep, PointerStep, RejectStep, ReuseStep, EnterStep, LeftStep, RightStep,
     TreeStep, SeparatorStep, SweepStep, SweepDoneStep, StutterStep DEF Next
<1> QED
  BY <1>1, <1>2, PTL DEF Spec

\* verifyNode memoises heights: the one left at a node is the length of the longest
\* way down from it, for every tree, also where subtrees are shared.
THEOREM HeightsAreExact == Spec => []HeightsExact
<1>1. IInv => HeightsExact
  BY DEF IInv
<1> QED
  BY <1>1, Invariance, PTL

\* verifyNode expands each node at most once, and marks exactly the nodes on its way.
THEOREM NodesExpandedOnce == Spec => []EachNodeOnce
<1>1. IInv => EachNodeOnce
  BY DEF IInv
<1> QED
  BY <1>1, Invariance, PTL

\* Reader.Verify returns nil exactly for the well-formed databases.
THEOREM VerifyIsExact == Spec => []VerifiedIffSound
<1>1. IInv => VerifiedIffSound
  BY DEF IInv
<1> QED
  BY <1>1, Invariance, PTL

-----------------------------------------------------------------------------
(* Iterating: the invariant.                                                *)

\* The Reader of an open database.
Opened == r \in {setIPv4Start(d) : d \in Databases}

IsSequence(s) == \E S : s \in Seq(S)

\* How far below the root of tree t a netNode is.
Level(t, x) == x.bit - (Bits - AddressBits(t))

\* A netNode is where its bits lead.
Placed(t, x) ==
    /\ x.bit \in 0 .. Bits /\ Level(t, x) \in 0 .. AddressBits(t)
    /\ x.pointer \in Below(t, 0, Level(t, x))

\* The netNodes whose records are still to be looked at.
Pending == Range(nodes) \cup (IF node = Iteration!Nil THEN {} ELSE {node})

\* The Reader is open, the arguments are what a caller can give, and nothing is
\* iterated before the call.
Asked ==
    /\ Opened
    /\ status \in {"verifying", "start", "loop", "done", "stopped"}
    /\ prefix.bits \in Int /\ prefix.ip.is4 \in BOOLEAN /\ prefix.ip.a \in Nat
    /\ IsSequence(nodes) /\ IsSequence(out)
    /\ status \in {"verifying", "start"} => nodes = <<>> /\ node = Iteration!Nil /\ out = <<>>

InPlace == \A x \in Pending : Placed(r, x)

\* What a sound tree lets the iterator yield: no record is stray, and one that cannot
\* be examined was to be.
Harmless(e) ==
    \/ e.kind = "empty"
    \/ e.kind = "data" /\ e.offset \in PointedTo
    \/ e.kind = "err" /\ "skip" \in opts
           /\ e.offset \in PointedTo /\ r.value[e.offset] = "corrupt"
Clean == TreeSound(r) /\ ~Iteration!Rejected => \A e \in Range(out) : Harmless(e)

Reported == \E e \in Range(out) : e.kind \in {"err", "fatal"}

\* What TreeSound asks of record p, k steps below the root of t.
Good(t, p, k) ==
    \/ p < NodeCount(t) /\ k < AddressBits(t)
    \/ p = NodeCount(t)
    \/ p > NodeCount(t) /\ resolveDataPointer(t, p) >= 0

\* Record p, k steps below the root of t, lies below one of the netNodes.
Awaits(t, pending, p, k) ==
    \E x \in pending : Level(t, x) <= k /\ p \in Below(t, x.pointer, k - Level(t, x))

\* All of the tree is asked for.
Whole ==
    /\ ~Iteration!Rejected /\ "skip" \notin opts /\ "aliased" \in opts
    /\ prefix.bits = 0 /\ (r.version = 6 => ~prefix.ip.is4)

\* Of the whole tree, no bad record is forgotten.
Exhaustive ==
    Whole /\ status \in {"loop", "done"} /\ ~Reported =>
        /\ \A k \in 0 .. AddressBits(r) : \A p \in Below(r, 0, k) :
               Good(r, p, k) \/ Awaits(r, Pending, p, k)
        /\ status = "done" => nodes = <<>> /\ node = Iteration!Nil

Surveyed == Asked /\ InPlace /\ Clean /\ Exhaustive

\* Whether t is a tree: its nodes are numbered from 0 and have two records each.
IsTree(t) ==
    /\ DOMAIN t.node = 0 .. NodeCount(t) - 1 /\ NodeCount(t) \in Nat
    /\ \A n \in DOMAIN t.node : t.node[n] \in Nat \X Nat

-----------------------------------------------------------------------------
(* Descending.                                                              *)

\* The iteration's tree is the verifier's.
LEMMA SameTree ==
    /\ \A t : Iteration!NodeCount(t) = NodeCount(t)
    /\ \A t, p : Iteration!resolveDataPointer(t, p) = resolveDataPointer(t, p)
    /\ \A t : Iteration!TreeSound(t) <=> TreeSound(t)
<1>1. \A t : Iteration!NodeCount(t) = NodeCount(t)
  BY DEF Iteration!NodeCount, NodeCount, Iteration!Cardinality, Cardinality
<1>2. \A t, p : Iteration!resolveDataPointer(t, p) = resolveDataPointer(t, p)
  BY <1>1 DEF Iteration!resolveDataPointer, resolveDataPointer
<1>3. \A t, p, k : Iteration!Below(t, p, k) = Below(t, p, k)
  BY DEF Iteration!Below, Below, Iteration!Children, Children
<1>4. \A t : Iteration!AddressBits(t) = AddressBits(t)
  BY DEF Iteration!AddressBits, AddressBits
<1>5. \A t : Iteration!TreeSound(t) <=> TreeSound(t)
  BY <1>1, <1>2, <1>3, <1>4 DEF Iteration!TreeSound, TreeSound
<1> QED
  BY <1>1, <1>2, <1>5

\* Its lookups walk as the verifier's do.
LEMMA SameDescent ==
    ASSUME NEW t, NEW ip, NEW n
    PROVE  Iteration!traverseTree(t, ip, n) = traverseTree(t, ip, n)
<1>1. \A p, a, w, i, m : Iteration!Descend(t, p, a, w, i, m) = Descend(t, p, a, w, i, m)
  BY DEF Iteration!Descend, Descend, Iteration!NodeCount, NodeCount, Iteration!Bit, Bit,
         Iteration!Cardinality, Cardinality
<1>2. \A S : Iteration!Min(S) = Min(S)
  BY DEF Iteration!Min, Min
<1> QED
  BY <1>1, <1>2 DEF Iteration!traverseTree, traverseTree

\* An address bit chooses one of two records.
LEMMA BitChooses ==
    ASSUME NEW a \in Nat, NEW w \in Nat, NEW i \in Nat, i < w
    PROVE  1 + Bit(a, w, i) \in {1, 2}
<1>1. w - 1 - i \in Nat
  OBVIOUS
<1> QED
  BY <1>1 DEF Bit

\* One turn of traverseTree's loop.
Down(t, a, w, n, x) ==
    IF x.steps < n /\ x.node < NodeCount(t)
    THEN [node |-> t.node[x.node][1 + Bit(a, w, 0 + x.steps)], steps |-> x.steps + 1]
    ELSE x

\* g is the run of that loop.
Descends(g, t, p, a, w, n) ==
    /\ g \in [0 .. Bits -> [node : Nat, steps : Nat]]
    /\ g[0] = [node |-> p, steps |-> 0]
    /\ \A k \in 1 .. Bits : g[k] = Down(t, a, w, n, g[k - 1])
    /\ Descend(t, p, a, w, 0, n) = g[Bits]

\* What Descend computes.
LEMMA DescendComputed ==
    ASSUME NEW t, IsTree(t), NEW p \in Nat, NEW a \in Nat, NEW w \in Nat, NEW n \in Nat, n <= w
    PROVE  \E g : Descends(g, t, p, a, w, n)
<1> DEFINE S == [node : Nat, steps : Nat]
           start == [node |-> p, steps |-> 0]
           turn == [k \in 0 + 1 .. Bits |-> [x \in S |-> Down(t, a, w, n, x)]]
           eq(f) == f = [k \in 0 .. Bits |->
                            IF k = 0 THEN [node |-> p, steps |-> 0]
                            ELSE LET v == f[k - 1] IN
                                 IF v.steps < n /\ v.node < NodeCount(t)
                                 THEN [node |-> t.node[v.node][1 + Bit(a, w, 0 + v.steps)],
                                       steps |-> v.steps + 1]
                                 ELSE v]
           at == CHOOSE f : eq(f)
<1>1. Descend(t, p, a, w, 0, n) = at[Bits]
  BY DEF Descend
<1>2. ASSUME NEW x \in S PROVE Down(t, a, w, n, x) \in S
  <2>1. CASE x.steps < n /\ x.node < NodeCount(t)
    <3>1. x.node \in DOMAIN t.node /\ x.steps \in Nat /\ x.steps < w /\ 0 + x.steps = x.steps
      BY <2>1 DEF IsTree
    <3>2. 1 + Bit(a, w, 0 + x.steps) \in {1, 2}
      BY <3>1, BitChooses
    <3>3. t.node[x.node][1] \in Nat /\ t.node[x.node][2] \in Nat
      BY <3>1 DEF IsTree
    <3>4. t.node[x.node][1 + Bit(a, w, 0 + x.steps)] \in Nat
      BY <3>2, <3>3
    <3> QED
      BY <2>1, <3>1, <3>4 DEF Down
  <2> QED
    BY <2>1 DEF Down
<1>3. turn \in Numbers!Turns(0, Bits, S)
  <2> HIDE DEF S
  <2> QED
    BY <1>2 DEF Numbers!Turns
<1>4. \A k \in 1 .. Bits : \A x \in S : turn[k][x] = Down(t, a, w, n, x)
  OBVIOUS
<1>5. start \in S /\ 0 \in Int /\ Bits \in Nat /\ Bits \in Int
  BY BitsAssumption
<1> HIDE DEF turn, S, start
<1>6. PICK g : Numbers!RunsAlong(g, 0, Bits, S, start, turn)
  BY <1>3, <1>5, Numbers!LoopFunction
<1>7. g \in [0 .. Bits -> S] /\ g[0] = [node |-> p, steps |-> 0]
  BY <1>5, <1>6 DEF Numbers!RunsAlong, start
<1>8. ASSUME NEW k \in 1 .. Bits PROVE g[k] = Down(t, a, w, n, g[k - 1])
  <2>1. k - 1 \in 0 .. Bits /\ k \in 0 + 1 .. Bits
    BY <1>5
  <2>2. g[k] = turn[k][g[k - 1]]
    BY <1>6, <2>1 DEF Numbers!RunsAlong
  <2> QED
    BY <1>4, <1>7, <2>1, <2>2
<1>9. eq(g)
  <2>1. ASSUME NEW k \in 0 .. Bits, k # 0 PROVE k \in 1 .. Bits
    BY <2>1, <1>5
  <2> QED
    BY <1>7, <1>8, <2>1 DEF Down
<1>10. eq(at)
  <2> HIDE DEF eq
  <2> QED
    BY <1>9
<1>11. at = g
  <2>1. at = [k \in 0 .. Bits |-> at[k]] /\ DOMAIN at = 0 .. Bits
    BY <1>10
  <2>2. at[0] = [node |-> p, steps |-> 0]
    <3>1. 0 \in 0 .. Bits
      BY <1>5
    <3> HIDE DEF at
    <3> QED
      BY <1>10, <3>1
  <2>3. ASSUME NEW k \in 1 .. Bits PROVE at[k] = Down(t, a, w, n, at[k - 1])
    <3>1. k \in 0 .. Bits /\ k # 0
      BY <1>5
    <3> HIDE DEF at
    <3> QED
      BY <1>10, <3>1 DEF Down
  <2> HIDE DEF eq, at
  <2> DEFINE T == {k \in 0 .. Bits : at[k] = g[k]}
  <2>4. 0 \in T
    BY <1>5, <1>7, <2>2
  <2>5. ASSUME NEW k \in 0 .. Bits - 1, k \in T PROVE k + 1 \in T
    <3>1. k + 1 \in 1 .. Bits /\ (k + 1) - 1 = k /\ k + 1 \in 0 .. Bits
      BY <1>5
    <3>2. at[k + 1] = Down(t, a, w, n, at[k]) /\ g[k + 1] = Down(t, a, w, n, g[k])
      BY <1>8, <2>3, <3>1
    <3> QED
      BY <2>5, <3>1, <3>2
  <2>6. 0 .. Bits \subseteq T
    <3> HIDE DEF T
    <3> QED
      BY <1>5, <2>4, <2>5, Numbers!IntervalInduction
  <2>7. \A k \in 0 .. Bits : at[k] = g[k]
    BY <2>6
  <2>8. g = [k \in 0 .. Bits |-> g[k]]
    BY <1>7
  <2> QED
    BY <2>1, <2>7, <2>8
<1> HIDE DEF at
<1>12. Descends(g, t, p, a, w, n)
  BY <1>1, <1>7, <1>8, <1>11 DEF Descends, S
<1> QED
  BY <1>12

\* A descent of at most n steps ends below where it began, as far down as it counted;
\* one of no steps stays.
LEMMA DescendBelow ==
    ASSUME NEW t, IsTree(t), NEW p \in Nat, NEW a \in Nat, NEW w \in Nat, NEW n \in Nat, n <= w
    PROVE  /\ Descend(t, p, a, w, 0, n).steps \in 0 .. n
           /\ Descend(t, p, a, w, 0, n).node \in Nat
           /\ Descend(t, p, a, w, 0, n).node \in
                  Below(t, p, Descend(t, p, a, w, 0, n).steps)
<1>1. PICK g : Descends(g, t, p, a, w, n)
  BY DescendComputed
<1> DEFINE T == {k \in 0 .. Bits : g[k].steps \in 0 .. n /\ g[k].node \in Below(t, p, g[k].steps)}
<1>2. Bits \in Nat
  BY BitsAssumption
<1>3. 0 \in T
  <2>1. g[0].node = p /\ g[0].steps = 0 /\ 0 \in 0 .. Bits
    BY <1>1, <1>2 DEF Descends
  <2>2. p \in Below(t, p, 0)
    BY BelowRoot
  <2> QED
    BY <2>1, <2>2
<1>4. ASSUME NEW k \in 0 .. Bits - 1, k \in T PROVE k + 1 \in T
  <2> DEFINE x == g[k]
  <2>1. k + 1 \in 1 .. Bits /\ (k + 1) - 1 = k /\ k + 1 \in 0 .. Bits /\ k \in 0 .. Bits
    BY <1>2
  <2>2. g[k + 1] = Down(t, a, w, n, x) /\ x \in [node : Nat, steps : Nat]
    BY <1>1, <2>1 DEF Descends
  <2>3. x.steps \in 0 .. n /\ x.node \in Below(t, p, x.steps) /\ x.steps \in Nat /\ x.node \in Nat
    BY <1>4, <2>2
  <2> HIDE DEF x
  <2>4. CASE x.steps < n /\ x.node < NodeCount(t)
    <3>1. x.node \in DOMAIN t.node /\ x.steps < w /\ 0 + x.steps = x.steps
      BY <2>3, <2>4 DEF IsTree
    <3>2. 1 + Bit(a, w, 0 + x.steps) \in {1, 2}
      BY <2>3, <3>1, BitChooses
    <3>3. g[k + 1] = [node |-> t.node[x.node][1 + Bit(a, w, 0 + x.steps)], steps |-> x.steps + 1]
      BY <2>2, <2>4 DEF Down
    <3>4. g[k + 1].steps = x.steps + 1 /\ x.steps + 1 \in 0 .. n
      BY <2>3, <2>4, <3>3
    <3>5. g[k + 1].node \in {t.node[x.node][1], t.node[x.node][2]}
      BY <3>2, <3>3
    <3>6. g[k + 1].node \in Children(t, Below(t, p, x.steps))
      BY <2>3, <3>1, <3>5 DEF Children
    <3>7. g[k + 1].node \in Below(t, p, x.steps + 1)
      BY <2>3, <3>6, BelowStep
    <3> QED
      BY <2>1, <3>4, <3>7
  <2>5. CASE ~(x.steps < n /\ x.node < NodeCount(t))
    <3>1. g[k + 1] = x
      BY <2>2, <2>5 DEF Down
    <3> QED
      BY <2>1, <2>3, <3>1
  <2> QED
    BY <2>4, <2>5
<1>5. 0 .. Bits \subseteq T
  <2>1. 0 \in Int /\ Bits \in Int
    BY <1>2
  <2> HIDE DEF T
  <2> QED
    BY <1>3, <1>4, <2>1, Numbers!IntervalInduction
<1>6. Bits \in T
  BY <1>2, <1>5
<1>7. g[Bits] \in [node : Nat, steps : Nat] /\ Descend(t, p, a, w, 0, n) = g[Bits]
  BY <1>1, <1>2 DEF Descends
<1> QED
  BY <1>6, <1>7

\* A descent of no steps stays where it is.
LEMMA DescendNowhere ==
    ASSUME NEW t, IsTree(t), NEW p \in Nat, NEW a \in Nat, NEW w \in Nat
    PROVE  Descend(t, p, a, w, 0, 0).node = p /\ Descend(t, p, a, w, 0, 0).steps = 0
<1>1. /\ Descend(t, p, a, w, 0, 0).steps \in 0 .. 0
      /\ Descend(t, p, a, w, 0, 0).node \in Below(t, p, Descend(t, p, a, w, 0, 0).steps)
  BY DescendBelow
<1>2. Descend(t, p, a, w, 0, 0).steps = 0
  BY <1>1
<1> QED
  BY <1>1, <1>2, BelowRoot

\* Below looks at the nodes only.
LEMMA BelowSame ==
    ASSUME NEW t, NEW u, t.node = u.node, NEW p, NEW k \in Nat
    PROVE  Below(t, p, k) = Below(u, p, k)
<1> DEFINE T == {j \in Nat : Below(t, p, j) = Below(u, p, j)}
<1>1. 0 \in T
  BY BelowRoot
<1>2. ASSUME NEW j \in Nat, j \in T PROVE j + 1 \in T
  <2>1. /\ Below(t, p, j + 1) = Children(t, Below(t, p, j))
        /\ Below(u, p, j + 1) = Children(u, Below(u, p, j))
    BY BelowStep
  <2>2. \A x : Children(t, x) = Children(u, x)
    BY DEF Children
  <2> QED
    BY <1>2, <2>1, <2>2
<1>3. Nat \subseteq T
  <2> HIDE DEF T
  <2> QED
    BY <1>1, <1>2, Numbers!Induction
<1> QED
  BY <1>3

-----------------------------------------------------------------------------
(* Where an iteration starts.                                               *)

\* What traverseTree finds of a tree t for an IPv6 address.
LEMMA LongDescent ==
    ASSUME NEW t, IsTree(t), NEW ip, ip.is4 = FALSE, ip.a \in Nat, NEW n \in Nat, n <= Bits
    PROVE  /\ traverseTree(t, ip, n)[2] \in 0 .. n
           /\ traverseTree(t, ip, n)[1] \in Nat
           /\ traverseTree(t, ip, n)[1] \in Below(t, 0, traverseTree(t, ip, n)[2])
<1> DEFINE w == Descend(t, 0, ip.a, Bits, 0, n)
<1>1. traverseTree(t, ip, n) = <<w.node, w.steps>>
  BY DEF traverseTree
<1>2. w.steps \in 0 .. n /\ w.node \in Nat /\ w.node \in Below(t, 0, w.steps)
  <2>1. Bits \in Nat /\ 0 \in Nat
    BY BitsAssumption
  <2> QED
    BY <2>1, DescendBelow
<1> HIDE DEF w
<1> QED
  BY <1>1, <1>2

\* Where its IPv4 subtree starts.
StartsIPv4 ==
    /\ r.version = 4 => r.ipv4Start = 0 /\ r.ipv4StartBitDepth = V4Depth
    /\ r.version = 6 => /\ r.ipv4StartBitDepth \in 0 .. V4Depth
                        /\ r.ipv4Start \in Nat
                        /\ r.ipv4Start \in Below(r, 0, r.ipv4StartBitDepth)

\* What setIPv4Start leaves of a database.
LEMMA OpenedReader ==
    ASSUME Opened
    PROVE  /\ IsTree(r) /\ r.dataSectionSize \in Nat
           /\ r.version \in {4, 6}
           /\ \A o \in DOMAIN r.end : r.value[o] = "corrupt" => r.end[o] <= o
           /\ \A q \in Queries(r) :
                  q[1].bits \in Int /\ q[1].ip.is4 \in BOOLEAN /\ q[1].ip.a \in Nat
           /\ StartsIPv4
<1>1. PICK d \in Databases : r = setIPv4Start(d)
  BY DEF Opened
<1>2. /\ {"version", "node", "dataSectionSize", "end", "metadataOK", "separatorOK",
          "ipv4Start", "ipv4StartBitDepth"} \subseteq DOMAIN d
      /\ IsFiniteSet(DOMAIN d.node) /\ DOMAIN d.node = 0 .. NodeCount(d) - 1
      /\ \A n \in DOMAIN d.node : d.node[n] \in Nat \X Nat
      /\ d.dataSectionSize \in Nat
  BY DatabasesAssumption
<1>3. /\ d.version \in {4, 6} /\ "value" \in DOMAIN d
      /\ \A o \in DOMAIN d.end : d.value[o] = "corrupt" => d.end[o] <= o
      /\ \A q \in Queries(r) :
             q[1].bits \in Int /\ q[1].ip.is4 \in BOOLEAN /\ q[1].ip.a \in Nat
  BY <1>1, QueriesAssumption
<1> DEFINE t == IF d.version = 6 THEN traverseTree(d, IPv6(0), V4Depth) ELSE <<0, V4Depth>>
<1>4. r = [d EXCEPT !.ipv4Start = t[1], !.ipv4StartBitDepth = t[2]]
  BY <1>1 DEF setIPv4Start
<1> HIDE DEF t
<1>5. /\ r.node = d.node /\ r.end = d.end /\ r.dataSectionSize = d.dataSectionSize
      /\ r.version = d.version /\ r.value = d.value
      /\ r.ipv4Start = t[1] /\ r.ipv4StartBitDepth = t[2]
  BY <1>2, <1>3, <1>4
<1>6. NodeCount(r) = NodeCount(d)
  BY <1>5 DEF NodeCount
<1>7. NodeCount(d) \in Nat
  BY <1>2, FS_CardinalityType DEF NodeCount
<1>8. IsTree(r) /\ IsTree(d)
  BY <1>2, <1>5, <1>6, <1>7 DEF IsTree
<1>9. V4Depth \in Nat /\ V4Depth <= Bits
  BY BitsAssumption DEF V4Depth
<1>10. r.version = 4 => r.ipv4Start = 0 /\ r.ipv4StartBitDepth = V4Depth
  BY <1>5 DEF t
<1>11. ASSUME r.version = 6
       PROVE  /\ r.ipv4StartBitDepth \in 0 .. V4Depth
              /\ r.ipv4Start \in Nat
              /\ r.ipv4Start \in Below(r, 0, r.ipv4StartBitDepth)
  <2>1. t = traverseTree(d, IPv6(0), V4Depth)
    BY <1>5, <1>11 DEF t
  <2>2. IPv6(0).is4 = FALSE /\ IPv6(0).a \in Nat
    BY DEF IPv6
  <2>3. t[2] \in 0 .. V4Depth /\ t[1] \in Nat /\ t[1] \in Below(d, 0, t[2])
    BY <1>8, <1>9, <2>1, <2>2, LongDescent
  <2>4. t[2] \in Nat
    BY <1>9, <2>3
  <2>5. Below(d, 0, t[2]) = Below(r, 0, t[2])
    BY <1>5, <2>4, BelowSame
  <2> QED
    BY <1>5, <2>3, <2>5
<1> QED
  BY <1>2, <1>3, <1>5, <1>8, <1>10, <1>11 DEF StartsIPv4

\* The netNode that NetworksWithin begins with is where its bits lead, and the root
\* when all of the tree is asked for.
LEMMA StartPlaced ==
    ASSUME Opened, prefix.bits \in Int, prefix.ip.is4 \in BOOLEAN, prefix.ip.a \in Nat,
           ~Iteration!Rejected
    PROVE  LET t == traverseTree(r, prefix.ip, Iteration!stopBit) IN
           /\ t[2] \in rootDepth .. Bits
           /\ t[1] \in Below(r, 0, t[2] - rootDepth)
           /\ prefix.bits = 0 /\ (r.version = 6 => ~prefix.ip.is4) =>
                  t[1] = 0 /\ t[2] = rootDepth
<1> DEFINE n == Iteration!stopBit
           t == traverseTree(r, prefix.ip, n)
<1>1. IsTree(r) /\ r.version \in {4, 6} /\ StartsIPv4
  BY OpenedReader
<1>2. /\ Bits \in Nat /\ V4Bits \in Nat /\ V4Depth \in Nat /\ V4Bits <= Bits /\ V4Bits > 0
      /\ V4Depth + V4Bits = Bits
  BY BitsAssumption DEF V4Depth
<1>3. /\ n = prefix.bits + (IF prefix.ip.is4 THEN V4Depth ELSE 0)
      /\ prefix.bits \in Nat /\ (r.version = 4 => prefix.ip.is4) /\ n <= Bits /\ n \in Nat
  BY <1>2 DEF Iteration!Rejected, Iteration!stopBit, Iteration!V4Depth, V4Depth
<1> HIDE DEF n
<1>4. CASE ~prefix.ip.is4
  <2>1. r.version = 6 /\ rootDepth = 0
    BY <1>1, <1>3, <1>4 DEF rootDepth
  <2>2. t[2] \in 0 .. n /\ t[1] \in Below(r, 0, t[2])
    <3>1. prefix.ip.is4 = FALSE
      BY <1>4
    <3> QED
      BY <1>1, <1>3, <3>1, LongDescent
  <2>3. ASSUME prefix.bits = 0 PROVE t[1] = 0 /\ t[2] = 0
    <3>1. n = 0
      BY <1>3, <1>4, <2>3
    <3>2. t[2] = 0
      BY <2>2, <3>1
    <3> QED
      BY <2>2, <3>2, BelowRoot
  <2> HIDE DEF t
  <2>4. t[2] \in 0 .. Bits /\ t[2] - 0 = t[2]
    BY <1>2, <1>3, <2>2
  <2> QED
    BY <2>1, <2>2, <2>3, <2>4 DEF t, n
<1>5. CASE prefix.ip.is4
  <2> DEFINE i == r.ipv4StartBitDepth
             p == r.ipv4Start
             m == Min({n - i, V4Bits})
             w == Descend(r, p, prefix.ip.a, V4Bits, 0, m)
  <2>1. t = IF n <= i THEN <<p, i>> ELSE <<w.node, i + w.steps>>
    BY <1>5 DEF traverseTree
  <2>2. /\ p \in Nat /\ i \in rootDepth .. V4Depth /\ p \in Below(r, 0, i - rootDepth)
        /\ rootDepth \in {0, V4Depth}
    <3>1. CASE r.version = 4
      <4>1. p = 0 /\ i = V4Depth /\ rootDepth = V4Depth /\ i - rootDepth = 0
        BY <1>1, <1>2, <3>1 DEF StartsIPv4, rootDepth
      <4> QED
        BY <1>2, <4>1, BelowRoot
    <3>2. CASE r.version = 6
      <4>1. p \in Nat /\ i \in 0 .. V4Depth /\ rootDepth = 0 /\ p \in Below(r, 0, i)
        BY <1>1, <3>2 DEF StartsIPv4, rootDepth
      <4>2. i - 0 = i
        BY <1>2, <4>1
      <4> QED
        BY <4>1, <4>2
    <3> QED
      BY <1>1, <3>1, <3>2
  <2> HIDE DEF i, p
  <2>3. i \in Nat /\ i - rootDepth \in Nat /\ rootDepth \in Nat /\ i <= Bits
    BY <1>2, <2>2
  <2>4. CASE n <= i
    <3>1. t[1] = p /\ t[2] = i
      BY <2>1, <2>4
    <3>2. ASSUME r.version = 6 => ~prefix.ip.is4 PROVE p = 0 /\ i = rootDepth
      BY <1>1, <1>5, <3>2 DEF StartsIPv4, rootDepth, p, i
    <3> HIDE DEF t
    <3>3. i \in rootDepth .. Bits
      BY <1>2, <2>2, <2>3
    <3> QED
      BY <2>2, <3>1, <3>2, <3>3 DEF t, n
  <2>5. CASE ~(n <= i)
    <3>1. m \in Nat /\ m <= n - i /\ m <= V4Bits
      <4>1. n - i \in Nat
        BY <1>3, <2>3, <2>5
      <4>2. \A x, y \in Nat : Min({x, y}) \in Nat /\ Min({x, y}) <= x /\ Min({x, y}) <= y
        BY DEF Min
      <4> QED
        BY <1>2, <4>1, <4>2
    <3> HIDE DEF m
    <3>2. w.steps \in 0 .. m /\ w.node \in Below(r, p, w.steps)
      BY <1>1, <1>2, <2>2, <3>1, DescendBelow
    <3>3. t[1] = w.node /\ t[2] = i + w.steps
      BY <2>1, <2>5
    <3> HIDE DEF w, t
    <3>4. w.steps \in Nat /\ w.steps <= n - i
      BY <1>3, <2>3, <3>1, <3>2
    <3>5. w.node \in Below(r, 0, (i - rootDepth) + w.steps)
      BY <2>2, <2>3, <3>2, <3>4, BelowAdds
    <3>6. t[2] \in rootDepth .. Bits /\ t[2] - rootDepth = (i - rootDepth) + w.steps
      BY <1>2, <1>3, <2>2, <2>3, <3>3, <3>4
    <3>7. ASSUME prefix.bits = 0, r.version = 6 => ~prefix.ip.is4 PROVE FALSE
      <4>1. n = V4Depth /\ i = V4Depth
        BY <1>1, <1>2, <1>3, <1>5, <3>7 DEF StartsIPv4, i
      <4> QED
        BY <1>2, <2>5, <4>1
    <3> QED
      BY <3>3, <3>5, <3>6, <3>7 DEF t, n
  <2> QED
    BY <2>4, <2>5
<1> QED
  BY <1>4, <1>5

-----------------------------------------------------------------------------
(* Iterating: the steps.                                                    *)

\* What a sequence holds after an Append.
LEMMA Appended ==
    ASSUME NEW s, IsSequence(s), NEW e
    PROVE  IsSequence(Append(s, e)) /\ Range(Append(s, e)) = Range(s) \cup {e}
<1>1. PICK S : s \in Seq(S)
  BY DEF IsSequence
<1> DEFINE U == S \cup {e}
           more == Append(s, e)
<1>2. s \in Seq(U) /\ e \in U
  <2>1. Len(s) \in Nat /\ s \in [1 .. Len(s) -> U]
    BY <1>1
  <2> QED
    BY <2>1
<1> HIDE DEF U
<1>3. /\ more \in Seq(U) /\ Len(more) = Len(s) + 1 /\ more[Len(s) + 1] = e
      /\ \A i \in 1 .. Len(s) : more[i] = s[i]
  BY <1>2
<1> HIDE DEF more
<1>4. DOMAIN more = 1 .. Len(s) + 1 /\ DOMAIN s = 1 .. Len(s) /\ Len(s) \in Nat
  BY <1>2, <1>3
<1>5. Range(more) = Range(s) \cup {e}
  <2>1. \A i \in DOMAIN more : i = Len(s) + 1 \/ i \in DOMAIN s
    BY <1>4
  <2>2. \A i \in DOMAIN s : i \in DOMAIN more /\ more[i] = s[i]
    BY <1>3, <1>4
  <2>3. Len(s) + 1 \in DOMAIN more /\ more[Len(s) + 1] = e
    BY <1>3, <1>4
  <2> QED
    BY <2>1, <2>2, <2>3 DEF Range
<1>6. IsSequence(more)
  BY <1>3 DEF IsSequence
<1> QED
  BY <1>5, <1>6 DEF more

\* What a stack holds before its top is taken.
LEMMA Taken ==
    ASSUME NEW s, IsSequence(s), s # <<>>
    PROVE  /\ IsSequence(SubSeq(s, 1, Len(s) - 1))
           /\ Range(s) = Range(SubSeq(s, 1, Len(s) - 1)) \cup {s[Len(s)]}
<1>1. PICK S : s \in Seq(S)
  BY DEF IsSequence
<1> DEFINE rest == SubSeq(s, 1, Len(s) - 1)
<1>2. Len(s) \in Nat /\ Len(s) > 0 /\ DOMAIN s = 1 .. Len(s)
  BY <1>1
<1>3. rest \in Seq(S) /\ Len(rest) = Len(s) - 1 /\ \A i \in 1 .. Len(s) - 1 : rest[i] = s[i]
  BY <1>1, <1>2, Popped
<1> HIDE DEF rest
<1>4. DOMAIN rest = 1 .. Len(s) - 1
  BY <1>3
<1>5. Range(s) = Range(rest) \cup {s[Len(s)]}
  <2>1. \A i \in DOMAIN s : i = Len(s) \/ (i \in DOMAIN rest /\ rest[i] = s[i])
    BY <1>2, <1>3, <1>4
  <2>2. \A i \in DOMAIN rest : i \in DOMAIN s /\ rest[i] = s[i]
    BY <1>2, <1>3, <1>4
  <2>3. Len(s) \in DOMAIN s
    BY <1>2
  <2> QED
    BY <2>1, <2>2, <2>3 DEF Range
<1>6. IsSequence(rest)
  BY <1>3 DEF IsSequence
<1> QED
  BY <1>5, <1>6 DEF rest

\* Nothing is below a record that is no node.
LEMMA BelowLeaf ==
    ASSUME NEW t, NEW p, p \notin DOMAIN t.node, NEW k \in Nat, k > 0
    PROVE  Below(t, p, k) = {}
<1>1. Below(t, p, 1) = {}
  BY BelowOne
<1>2. 1 \in Nat /\ 1 <= k
  OBVIOUS
<1> QED
  BY <1>1, <1>2, BelowEnds

\* A sound record that a netNode points to.
LEMMA PlacedRecord ==
    ASSUME Opened, NEW x, Placed(r, x)
    PROVE  /\ AddressBits(r) \in Nat /\ Level(r, x) \in Nat /\ x.bit \in Nat
           /\ x.bit = Level(r, x) + (Bits - AddressBits(r))
           /\ Bits - AddressBits(r) \in Nat
           /\ TreeSound(r) => Good(r, x.pointer, Level(r, x))
           /\ resolveDataPointer(r, x.pointer) >= 0 =>
                  resolveDataPointer(r, x.pointer) \in PointedTo
           /\ x.pointer \in Nat
<1>1. AddressBits(r) \in Nat /\ Bits \in Nat /\ AddressBits(r) <= Bits
  BY BitsAssumption DEF AddressBits
<1>2. /\ x.bit \in 0 .. Bits /\ Level(r, x) \in 0 .. AddressBits(r)
      /\ x.pointer \in Below(r, 0, Level(r, x)) /\ Level(r, x) = x.bit - (Bits - AddressBits(r))
  BY DEF Placed, Level
<1>3. TreeSound(r) => Good(r, x.pointer, Level(r, x))
  BY <1>2 DEF TreeSound, Good
<1>4. IsTree(r) /\ r.dataSectionSize \in Nat
  BY OpenedReader
<1>5. x.pointer \in Nat
  <2>1. ASSUME NEW k \in Nat, NEW p \in Below(r, 0, k) PROVE p \in Nat
    <3>1. CASE k = 0
      BY <3>1, BelowRoot
    <3>2. CASE k # 0
      <4>1. k - 1 \in Nat /\ (k - 1) + 1 = k
        BY <3>2
      <4>2. p \in Children(r, Below(r, 0, k - 1))
        BY <4>1, BelowStep
      <4>3. PICK n \in DOMAIN r.node : p \in {r.node[n][1], r.node[n][2]}
        BY <4>2 DEF Children
      <4> QED
        BY <1>4, <4>3 DEF IsTree
    <3> QED
      BY <3>1, <3>2
  <2>2. Level(r, x) \in Nat
    BY <1>1, <1>2
  <2> QED
    BY <1>2, <2>1, <2>2
<1>6. ASSUME resolveDataPointer(r, x.pointer) >= 0
      PROVE  resolveDataPointer(r, x.pointer) \in PointedTo
  <2> DEFINE o == resolveDataPointer(r, x.pointer)
  <2>1. NodeCount(r) \in Nat /\ Separator \in Nat
    BY <1>4, BitsAssumption DEF IsTree
  <2>2. o \in 0 .. r.dataSectionSize - 1 /\ NodeCount(r) + Separator + o = x.pointer
    BY <1>4, <1>5, <1>6, <2>1 DEF resolveDataPointer
  <2> HIDE DEF o
  <2>3. o \in PointedTo
    BY <1>2, <2>2 DEF PointedTo
  <2> QED
    BY <2>3 DEF o
<1> QED
  BY <1>1, <1>2, <1>3, <1>5, <1>6

\* What out holds after a step, and what it may.
Yielding ==
    \/ out' = out
    \/ \E e : /\ out' = Append(out, e)
              /\ TreeSound(r) /\ ~Iteration!Rejected => Harmless(e)

\* The records below netNodes dealt with are good or below the others.
ForgettingNone ==
    Whole /\ status' \in {"loop", "done"} /\ ~Reported' =>
        /\ \A k \in 0 .. AddressBits(r) : \A p :
               Awaits(r, Pending, p, k) => Good(r, p, k) \/ Awaits(r, Pending', p, k)
        /\ status' = "done" => nodes' = <<>> /\ node' = Iteration!Nil

\* What a step of the loop has to show.
LEMMA LoopStep ==
    ASSUME Surveyed, status = "loop", r' = r, prefix' = prefix, opts' = opts,
           status' \in {"loop", "done", "stopped"}, IsSequence(nodes'), Yielding,
           \A x \in Pending' : Placed(r, x), ForgettingNone
    PROVE  Surveyed'
<1>1. Asked /\ InPlace /\ Clean /\ Exhaustive
  BY DEF Surveyed
<1>2. IsSequence(out)
  BY <1>1 DEF Asked
<1>3. IsSequence(out') /\ Range(out) \subseteq Range(out')
  <2>1. CASE out' = out
    BY <1>2, <2>1
  <2>2. CASE \E e : out' = Append(out, e)
    <3>1. PICK e : out' = Append(out, e)
      BY <2>2
    <3>2. IsSequence(Append(out, e)) /\ Range(Append(out, e)) = Range(out) \cup {e}
      BY <1>2, Appended
    <3> QED
      BY <3>1, <3>2
  <2> QED
    BY <2>1, <2>2 DEF Yielding
<1>4. Asked'
  BY <1>1, <1>3 DEF Asked, Opened
<1>5. InPlace'
  BY DEF InPlace
<1>6. Iteration!Rejected' = Iteration!Rejected
  BY DEF Iteration!Rejected, Iteration!stopBit
<1>7. Clean'
  <2> SUFFICES ASSUME TreeSound(r), ~Iteration!Rejected, NEW e \in Range(out') PROVE Harmless(e)'
    BY <1>6 DEF Clean
  <2>1. Harmless(e)
    <3>1. CASE out' = out
      BY <1>1, <3>1 DEF Clean
    <3>2. CASE \E x : out' = Append(out, x) /\ Harmless(x)
      <4>1. PICK x : out' = Append(out, x) /\ Harmless(x)
        BY <3>2
      <4>2. Range(Append(out, x)) = Range(out) \cup {x}
        BY <1>2, Appended
      <4>3. e \in Range(out) \/ e = x
        BY <4>1, <4>2
      <4> QED
        BY <1>1, <4>1, <4>3 DEF Clean
    <3> QED
      BY <3>1, <3>2 DEF Yielding
  <2>2. PointedTo' = PointedTo
    BY DEF PointedTo
  <2> QED
    BY <2>1, <2>2 DEF Harmless
<1>8. Exhaustive'
  <2> SUFFICES ASSUME Whole, status' \in {"loop", "done"}, ~Reported'
               PROVE  /\ \A k \in 0 .. AddressBits(r) : \A p \in Below(r, 0, k) :
                             Good(r, p, k) \/ Awaits(r, Pending', p, k)
                      /\ status' = "done" => nodes' = <<>> /\ node' = Iteration!Nil
    <3>1. Whole' => Whole
      BY <1>6 DEF Whole
    <3> QED
      BY <3>1 DEF Exhaustive, Iteration!Nil
  <2>1. ~Reported
    BY <1>3 DEF Reported
  <2>2. \A k \in 0 .. AddressBits(r) : \A p \in Below(r, 0, k) :
            Good(r, p, k) \/ Awaits(r, Pending, p, k)
    BY <1>1, <2>1 DEF Exhaustive
  <2> QED
    BY <2>2 DEF ForgettingNone
<1> QED
  BY <1>4, <1>5, <1>7, <1>8 DEF Surveyed

\* The netNode at hand.
LEMMA AtHand ==
    ASSUME Surveyed, Iteration!Stepping
    PROVE  /\ Opened /\ status = "loop" /\ node # Iteration!Nil
           /\ Pending = Range(nodes) \cup {node}
           /\ Placed(r, node) /\ \A x \in Range(nodes) : Placed(r, x)
           /\ IsSequence(nodes) /\ IsSequence(out)
<1>1. status = "loop" /\ node # Iteration!Nil
  BY DEF Iteration!Stepping, Iteration!IsNode
<1>2. Pending = Range(nodes) \cup {node}
  BY <1>1 DEF Pending
<1> QED
  BY <1>1, <1>2 DEF Surveyed, Asked, InPlace

\* It is dropped.
LEMMA Dropped ==
    ASSUME Surveyed, Iteration!Stepping, nodes' = nodes, node' = Iteration!Nil
    PROVE  Pending' = Range(nodes) /\ \A x \in Pending' : Placed(r, x)
<1>1. Pending' = Range(nodes)
  BY DEF Pending, Iteration!Nil
<1> QED
  BY <1>1, AtHand

\* Nothing else lies below a leaf.
LEMMA LeafDropped ==
    ASSUME Surveyed, Iteration!Stepping, nodes' = nodes, node' = Iteration!Nil,
           node.pointer >= NodeCount(r), Good(r, node.pointer, Level(r, node)),
           NEW k \in 0 .. AddressBits(r), NEW p, Awaits(r, Pending, p, k)
    PROVE  Good(r, p, k) \/ Awaits(r, Pending', p, k)
<1>1. PICK x \in Pending : Level(r, x) <= k /\ p \in Below(r, x.pointer, k - Level(r, x))
  BY DEF Awaits
<1>2. CASE x \in Range(nodes)
  BY <1>1, <1>2, Dropped DEF Awaits
<1>3. CASE x = node
  <2>1. Opened /\ Placed(r, node)
    BY AtHand
  <2>2. AddressBits(r) \in Nat /\ Level(r, node) \in Nat /\ node.pointer \in Nat
    BY <2>1, PlacedRecord
  <2>3. k \in Nat /\ k - Level(r, node) \in Nat
    BY <1>1, <1>3, <2>2
  <2>4. node.pointer \notin DOMAIN r.node
    <3>1. DOMAIN r.node = 0 .. NodeCount(r) - 1 /\ NodeCount(r) \in Nat
      BY <2>1, OpenedReader DEF IsTree
    <3> QED
      BY <2>2, <3>1
  <2>5. k - Level(r, node) = 0
    <3>1. k - Level(r, node) > 0 => Below(r, node.pointer, k - Level(r, node)) = {}
      BY <2>3, <2>4, BelowLeaf
    <3> QED
      BY <1>1, <1>3, <2>3, <3>1
  <2>6. p = node.pointer
    BY <1>1, <1>3, <2>5, BelowRoot
  <2>7. k = Level(r, node)
    BY <2>2, <2>3, <2>5
  <2> QED
    BY <2>6, <2>7
<1>4. x \in Range(nodes) \/ x = node
  BY <1>1, AtHand
<1> QED
  BY <1>2, <1>3, <1>4

\* An empty record is good, and nothing lies below it.
LEMMA VisitEmptyStep ==
    ASSUME Surveyed, Iteration!VisitEmpty
    PROVE  Surveyed'
<1>1. /\ Iteration!Stepping /\ node.pointer = NodeCount(r) /\ node' = Iteration!Nil /\ nodes' = nodes
      /\ r' = r /\ prefix' = prefix /\ opts' = opts
  BY SameTree DEF Iteration!VisitEmpty, Iteration!Yield, Iteration!Skip
<1>2. status = "loop" /\ IsSequence(nodes') /\ Opened /\ Placed(r, node)
  BY <1>1, AtHand
<1>3. status' \in {"loop", "done", "stopped"}
  BY <1>2 DEF Iteration!VisitEmpty, Iteration!Yield, Iteration!Skip
<1>4. Yielding
  <2>1. \A ip, n : Harmless(Iteration!Result("empty", ip, n, -1, FALSE))
    BY DEF Iteration!Result, Harmless
  <2>2. out' = out \/ \E ip, n : out' = Append(out, Iteration!Result("empty", ip, n, -1, FALSE))
    BY DEF Iteration!VisitEmpty, Iteration!Yield, Iteration!Skip
  <2> QED
    BY <2>1, <2>2 DEF Yielding
<1>5. \A x \in Pending' : Placed(r, x)
  BY <1>1, Dropped
<1>6. ForgettingNone
  <2>1. Good(r, node.pointer, Level(r, node)) /\ node.pointer >= NodeCount(r)
    <3>1. node.pointer \in Nat
      BY <1>2, PlacedRecord
    <3> QED
      BY <1>1, <3>1 DEF Good
  <2>2. \A k \in 0 .. AddressBits(r) : \A p :
            Awaits(r, Pending, p, k) => Good(r, p, k) \/ Awaits(r, Pending', p, k)
    BY <1>1, <2>1, LeafDropped
  <2>3. status' # "done"
    BY <1>2 DEF Iteration!VisitEmpty, Iteration!Yield, Iteration!Skip
  <2> QED
    BY <2>2, <2>3 DEF ForgettingNone
<1> QED
  BY <1>1, <1>2, <1>3, <1>4, <1>5, <1>6, LoopStep

\* An alias is skipped only where aliases were not asked for.
LEMMA SkipAliasStep ==
    ASSUME Surveyed, Iteration!SkipAlias
    PROVE  Surveyed'
<1>1. /\ Iteration!Stepping /\ node' = Iteration!Nil /\ nodes' = nodes
      /\ r' = r /\ prefix' = prefix /\ opts' = opts /\ out' = out /\ status' = status
      /\ "aliased" \notin opts
  BY DEF Iteration!SkipAlias, Iteration!Skip, Iteration!IsAlias
<1>2. status = "loop" /\ IsSequence(nodes')
  BY <1>1, AtHand
<1>3. \A x \in Pending' : Placed(r, x)
  BY <1>1, Dropped
<1>4. ForgettingNone /\ Yielding
  BY <1>1 DEF ForgettingNone, Whole, Yielding
<1> QED
  BY <1>1, <1>2, <1>3, <1>4, LoopStep

\* What VisitData yields for a record at offset o.
OfData(kind, o) == Iteration!Result(kind, Iteration!mappedIP(node.ip), node.bit, o, TRUE)
Examined(o) ==
    \/ o < 0 /\ out' = Append(out, OfData("err", o))
    \/ o >= 0 /\ "skip" \in opts /\ r.value[o] = "corrupt" /\ out' = Append(out, OfData("err", o))
    \/ o >= 0 /\ out' = out
    \/ o >= 0 /\ out' = Append(out, OfData("data", o))

\* The cases of VisitData.
LEMMA DataExamined ==
    ASSUME Iteration!VisitData, Iteration!Stepping,
           NEW o \in Int, o = Iteration!resolveDataPointer(r, node.pointer)
    PROVE  /\ Examined(o)
           /\ r' = r /\ prefix' = prefix /\ opts' = opts /\ status' \in {"loop", "stopped"}
<1>1. CASE o < 0
  <2>1. ~(o >= 0)
    BY <1>1
  <2>2. Iteration!Yield(OfData("err", o), "loop")
    BY <1>1, <2>1 DEF Iteration!VisitData, OfData, Iteration!Yield
  <2> QED
    BY <1>1, <2>2 DEF Iteration!Yield, Examined
<1>2. CASE o >= 0
  <2>1. ~(o < 0)
    BY <1>2
  <2>2. CASE "skip" \in opts /\ r.value[o] = "corrupt"
    <3>1. r.value[o] # "empty"
      BY <2>2
    <3>2. Iteration!Yield(OfData("err", o), "loop")
      BY <1>2, <2>1, <2>2, <3>1 DEF Iteration!VisitData, OfData, Iteration!Yield
    <3> QED
      BY <1>2, <2>2, <3>2 DEF Iteration!Yield, Examined
  <2>3. CASE "skip" \in opts /\ r.value[o] = "empty"
    <3>1. r.value[o] # "corrupt"
      BY <2>3
    <3>2. Iteration!Skip
      BY <1>2, <2>1, <2>3, <3>1 DEF Iteration!VisitData, Iteration!Skip
    <3>3. status = "loop"
      BY DEF Iteration!Stepping
    <3> QED
      BY <1>2, <3>2, <3>3 DEF Iteration!Skip, Examined
  <2>4. CASE "skip" \notin opts \/ (r.value[o] # "corrupt" /\ r.value[o] # "empty")
    <3>1. Iteration!Yield(OfData("data", o), "loop")
      BY <1>2, <2>1, <2>4 DEF Iteration!VisitData, OfData, Iteration!Yield
    <3> QED
      BY <1>2, <3>1 DEF Iteration!Yield, Examined
  <2> QED
    BY <2>2, <2>3, <2>4
<1> QED
  BY <1>1, <1>2

\* A data record is good, or an error is yielded.
LEMMA VisitDataStep ==
    ASSUME Surveyed, Iteration!VisitData
    PROVE  Surveyed'
<1> DEFINE o == resolveDataPointer(r, node.pointer)
<1>1. /\ Iteration!Stepping /\ node.pointer > NodeCount(r) /\ node' = Iteration!Nil
      /\ nodes' = nodes /\ o = Iteration!resolveDataPointer(r, node.pointer)
  BY SameTree DEF Iteration!VisitData
<1>2. status = "loop" /\ IsSequence(nodes') /\ IsSequence(out) /\ Opened /\ Placed(r, node)
  BY <1>1, AtHand
<1>3. /\ node.pointer \in Nat /\ (o >= 0 => o \in PointedTo)
      /\ (TreeSound(r) => Good(r, node.pointer, Level(r, node)))
  BY <1>2, PlacedRecord
<1>4. NodeCount(r) \in Nat /\ r.dataSectionSize \in Nat /\ Separator \in Nat
  BY <1>2, OpenedReader, BitsAssumption DEF IsTree
<1>5. o \in Int
  BY <1>3, <1>4 DEF resolveDataPointer
<1>6. TreeSound(r) => o >= 0
  BY <1>1, <1>3, <1>4 DEF Good
<1>7. o >= 0 => Good(r, node.pointer, Level(r, node)) /\ node.pointer >= NodeCount(r)
  BY <1>1, <1>3, <1>4 DEF Good
<1> HIDE DEF o
<1>8. /\ Examined(o)
      /\ r' = r /\ prefix' = prefix /\ opts' = opts /\ status' \in {"loop", "stopped"}
  BY <1>1, <1>5, DataExamined
<1>9. \A kind : OfData(kind, o).kind = kind /\ OfData(kind, o).offset = o
  BY DEF Iteration!Result, OfData
<1>10. Yielding
  <2>1. CASE o < 0 /\ out' = Append(out, OfData("err", o))
    <3>1. ~TreeSound(r)
      BY <1>5, <1>6, <2>1
    <3> QED
      BY <2>1, <3>1 DEF Yielding
  <2>2. CASE /\ o >= 0 /\ "skip" \in opts /\ r.value[o] = "corrupt"
             /\ out' = Append(out, OfData("err", o))
    <3>1. Harmless(OfData("err", o))
      BY <1>3, <1>9, <2>2 DEF Harmless
    <3> QED
      BY <2>2, <3>1 DEF Yielding
  <2>3. CASE out' = out
    BY <2>3 DEF Yielding
  <2>4. CASE o >= 0 /\ out' = Append(out, OfData("data", o))
    <3>1. Harmless(OfData("data", o))
      BY <1>3, <1>9, <2>4 DEF Harmless
    <3> QED
      BY <2>4, <3>1 DEF Yielding
  <2> QED
    BY <1>8, <2>1, <2>2, <2>3, <2>4 DEF Examined
<1>11. \A x \in Pending' : Placed(r, x)
  BY <1>1, Dropped
<1>12. ForgettingNone
  <2> SUFFICES ASSUME Whole, ~Reported'
               PROVE  \A k \in 0 .. AddressBits(r) : \A p :
                          Awaits(r, Pending, p, k) => Good(r, p, k) \/ Awaits(r, Pending', p, k)
    BY <1>8 DEF ForgettingNone
  <2>1. o >= 0
    <3> SUFFICES ASSUME o < 0 PROVE FALSE
      BY <1>5
    <3>1. out' = Append(out, OfData("err", o))
      BY <1>5, <1>8 DEF Examined
    <3>2. OfData("err", o) \in Range(out')
      BY <1>2, <3>1, Appended
    <3> QED
      BY <1>9, <3>2 DEF Reported
  <2> QED
    BY <1>1, <1>7, <2>1, LeafDropped
<1> QED
  BY <1>1, <1>2, <1>8, <1>10, <1>11, <1>12, LoopStep

\* A node at the last bit: the tree is not sound, and that is reported.
LEMMA TooDeepStep ==
    ASSUME Surveyed, Iteration!TooDeep
    PROVE  Surveyed'
<1> DEFINE e == Iteration!Result("fatal", Iteration!mappedIP(node.ip), node.bit, -1, FALSE)
<1>1. /\ Iteration!Stepping /\ node.pointer < NodeCount(r) /\ node.bit >= Bits
      /\ nodes' = nodes /\ node' = node
      /\ r' = r /\ prefix' = prefix /\ opts' = opts /\ status' \in {"done", "stopped"}
      /\ out' = Append(out, e)
  BY SameTree DEF Iteration!TooDeep, Iteration!Inner, Iteration!Yield
<1>2. e.kind = "fatal"
  BY DEF Iteration!Result
<1> HIDE DEF e
<1>3. /\ Opened /\ status = "loop" /\ Placed(r, node) /\ IsSequence(nodes) /\ IsSequence(out)
      /\ Pending = Range(nodes) \cup {node} /\ \A x \in Range(nodes) : Placed(r, x)
  BY <1>1, AtHand
<1>4. ~TreeSound(r)
  <2>1. /\ node.bit \in 0 .. Bits /\ Level(r, node) = node.bit - (Bits - AddressBits(r))
        /\ node.pointer \in Nat /\ AddressBits(r) \in Nat /\ Bits \in Nat
        /\ TreeSound(r) => Good(r, node.pointer, Level(r, node))
    BY <1>3, PlacedRecord, BitsAssumption DEF Placed, Level
  <2>2. Level(r, node) = AddressBits(r)
    BY <1>1, <2>1
  <2>3. NodeCount(r) \in Nat
    BY <1>3, OpenedReader DEF IsTree
  <2> QED
    BY <1>1, <2>1, <2>2, <2>3 DEF Good
<1>5. Yielding
  BY <1>1, <1>4 DEF Yielding
<1>6. \A x \in Pending' : Placed(r, x)
  <2>1. Pending' = Pending
    BY <1>1 DEF Pending, Iteration!Nil
  <2> QED
    BY <1>3, <2>1
<1>7. ForgettingNone
  <2>1. e \in Range(out')
    BY <1>1, <1>3, Appended
  <2> QED
    BY <1>2, <2>1 DEF ForgettingNone, Reported
<1> QED
  BY <1>1, <1>3, <1>5, <1>6, <1>7, LoopStep

\* A child of the netNode at hand is in its place.
LEMMA ChildPlaced ==
    ASSUME Opened, Placed(r, node), node.bit < Bits, node.pointer \in DOMAIN r.node,
           NEW i \in {1, 2}, NEW c, c.bit = node.bit + 1, c.pointer = r.node[node.pointer][i]
    PROVE  Placed(r, c) /\ Level(r, c) = Level(r, node) + 1 /\ c.bit > 0
<1>1. /\ AddressBits(r) \in Nat /\ Level(r, node) \in Nat /\ node.bit \in Nat
      /\ node.bit = Level(r, node) + (Bits - AddressBits(r)) /\ Bits - AddressBits(r) \in Nat
      /\ Bits \in Nat /\ Level(r, c) = (node.bit + 1) - (Bits - AddressBits(r))
      /\ node.pointer \in Below(r, 0, Level(r, node))
  BY PlacedRecord, BitsAssumption DEF Placed, Level
<1>2. Level(r, c) = Level(r, node) + 1 /\ Level(r, c) \in 0 .. AddressBits(r) /\ c.bit \in 0 .. Bits
  BY <1>1
<1>3. c.pointer \in Children(r, Below(r, 0, Level(r, node)))
  BY <1>1 DEF Children
<1>4. c.pointer \in Below(r, 0, Level(r, node) + 1)
  BY <1>1, <1>3, BelowStep
<1> QED
  BY <1>1, <1>2, <1>4 DEF Placed

\* What lies below a node lies below its children.
LEMMA BranchStep ==
    ASSUME Surveyed, Iteration!Branch
    PROVE  Surveyed'
<1>1. /\ Iteration!Stepping /\ node.pointer < NodeCount(r) /\ node.bit < Bits
      /\ r' = r /\ prefix' = prefix /\ opts' = opts /\ status' = status /\ out' = out
  BY SameTree DEF Iteration!Branch, Iteration!Inner, Iteration!Skip
<1>2. /\ Opened /\ status = "loop" /\ Placed(r, node) /\ IsSequence(nodes)
      /\ Pending = Range(nodes) \cup {node} /\ \A x \in Range(nodes) : Placed(r, x)
  BY <1>1, AtHand
<1>3. /\ AddressBits(r) \in Nat /\ Level(r, node) \in Nat /\ node.pointer \in Nat
      /\ node.bit = Level(r, node) + (Bits - AddressBits(r)) /\ Bits \in Nat
  BY <1>2, PlacedRecord, BitsAssumption
<1>4. node.pointer \in DOMAIN r.node
  BY <1>1, <1>2, <1>3, OpenedReader DEF IsTree
<1>5. PICK a, b : /\ a.bit = node.bit + 1 /\ a.pointer = r.node[node.pointer][1]
                  /\ b.bit = node.bit + 1 /\ b.pointer = r.node[node.pointer][2]
                  /\ nodes' = Append(nodes, b) /\ node' = a
  BY DEF Iteration!Branch
<1>6. /\ Placed(r, a) /\ Level(r, a) = Level(r, node) + 1 /\ a.bit > 0
      /\ Placed(r, b) /\ Level(r, b) = Level(r, node) + 1
  <2>1. Placed(r, a) /\ Level(r, a) = Level(r, node) + 1 /\ a.bit > 0
    BY <1>1, <1>2, <1>4, <1>5, ChildPlaced
  <2>2. Placed(r, b) /\ Level(r, b) = Level(r, node) + 1
    BY <1>1, <1>2, <1>4, <1>5, ChildPlaced
  <2> QED
    BY <2>1, <2>2
<1>7. a # Iteration!Nil
  BY <1>6 DEF Iteration!Nil
<1>8. IsSequence(nodes') /\ Range(nodes') = Range(nodes) \cup {b}
  BY <1>2, <1>5, Appended
<1>9. Pending' = Range(nodes) \cup {a, b}
  BY <1>5, <1>7, <1>8 DEF Pending, Iteration!Nil
<1>10. \A x \in Pending' : Placed(r, x)
  BY <1>2, <1>6, <1>9
<1>11. ASSUME NEW k \in 0 .. AddressBits(r), NEW p, Awaits(r, Pending, p, k)
       PROVE  Good(r, p, k) \/ Awaits(r, Pending', p, k)
  <2>1. PICK x \in Pending : Level(r, x) <= k /\ p \in Below(r, x.pointer, k - Level(r, x))
    BY <1>11 DEF Awaits
  <2>2. CASE x \in Range(nodes)
    BY <1>9, <2>1, <2>2 DEF Awaits
  <2>3. CASE x = node
    <3>1. k - Level(r, node) \in Nat
      BY <1>3, <2>1, <2>3
    <3>2. CASE k - Level(r, node) = 0
      <4>1. p = node.pointer
        BY <2>1, <2>3, <3>2, BelowRoot
      <4>2. k < AddressBits(r)
        BY <1>1, <1>3, <3>2
      <4> QED
        BY <1>1, <4>1, <4>2 DEF Good
    <3>3. CASE k - Level(r, node) # 0
      <4> DEFINE j == k - (Level(r, node) + 1)
      <4>1. j \in Nat /\ j + 1 = k - Level(r, node) /\ Level(r, node) + 1 <= k
        BY <1>3, <3>1, <3>3
      <4>2. p \in Below(r, a.pointer, j) \/ p \in Below(r, b.pointer, j)
        <5>1. p \in Below(r, node.pointer, j + 1)
          BY <2>1, <2>3, <4>1
        <5> HIDE DEF j
        <5>2. Below(r, node.pointer, j + 1) =
                  Below(r, r.node[node.pointer][1], j) \cup Below(r, r.node[node.pointer][2], j)
          BY <1>4, <4>1, BelowNode
        <5> QED
          BY <1>5, <5>1, <5>2
      <4> QED
        BY <1>6, <1>9, <4>1, <4>2 DEF Awaits
    <3> QED
      BY <3>2, <3>3
  <2> QED
    BY <1>2, <2>1, <2>2, <2>3
<1>12. ForgettingNone /\ Yielding
  BY <1>1, <1>2, <1>11 DEF ForgettingNone, Yielding
<1> QED
  BY <1>1, <1>2, <1>8, <1>10, <1>12, LoopStep

\* The next netNode comes off the stack.
LEMMA PopStep ==
    ASSUME Surveyed, Iteration!Pop
    PROVE  Surveyed'
<1>1. /\ status = "loop" /\ node = Iteration!Nil /\ nodes # <<>>
      /\ node' = nodes[Len(nodes)] /\ nodes' = SubSeq(nodes, 1, Len(nodes) - 1)
      /\ r' = r /\ prefix' = prefix /\ opts' = opts /\ status' = status /\ out' = out
  BY DEF Iteration!Pop, Iteration!IsNode, Iteration!Skip
<1>2. IsSequence(nodes) /\ \A x \in Range(nodes) : Placed(r, x)
  BY DEF Surveyed, Asked, InPlace, Pending
<1>3. IsSequence(nodes') /\ Range(nodes) = Range(nodes') \cup {node'}
  BY <1>1, <1>2, Taken
<1>4. Placed(r, node')
  BY <1>2, <1>3
<1>5. node' # Iteration!Nil
  <2>1. node'.bit \in 0 .. Bits
    BY <1>4 DEF Placed
  <2>2. Iteration!Nil.bit = -1
    BY DEF Iteration!Nil
  <2> QED
    BY <2>1, <2>2, BitsAssumption
<1>6. Pending' = Pending
  BY <1>1, <1>3, <1>5 DEF Pending, Iteration!Nil
<1>7. \A x \in Pending' : Placed(r, x)
  BY <1>6 DEF Surveyed, InPlace
<1>8. ForgettingNone /\ Yielding
  BY <1>1, <1>6 DEF ForgettingNone, Yielding
<1> QED
  BY <1>1, <1>3, <1>7, <1>8, LoopStep

\* The stack is empty.
LEMMA FinishStep ==
    ASSUME Surveyed, Iteration!Finish
    PROVE  Surveyed'
<1>1. /\ status = "loop" /\ node = Iteration!Nil /\ nodes = <<>> /\ status' = "done"
      /\ r' = r /\ prefix' = prefix /\ opts' = opts /\ out' = out
      /\ nodes' = nodes /\ node' = node
  BY DEF Iteration!Finish, Iteration!IsNode
<1>2. Pending' = Pending
  BY <1>1 DEF Pending, Iteration!Nil
<1>3. IsSequence(nodes') /\ \A x \in Pending' : Placed(r, x)
  BY <1>1, <1>2 DEF Surveyed, Asked, InPlace
<1>4. ForgettingNone /\ Yielding
  BY <1>1, <1>2 DEF ForgettingNone, Yielding
<1> QED
  BY <1>1, <1>3, <1>4, LoopStep

\* A query that makes no sense.
LEMMA RejectedStep ==
    ASSUME Surveyed, Iteration!Reject
    PROVE  Surveyed'
<1>1. /\ status = "start" /\ Iteration!Rejected /\ status' \in {"done", "stopped"}
      /\ r' = r /\ prefix' = prefix /\ opts' = opts /\ nodes' = nodes /\ node' = node
  BY DEF Iteration!Reject, Iteration!Yield
<1>2. \E e : out' = Append(out, e)
  BY DEF Iteration!Reject, Iteration!Yield
<1>3. Asked /\ InPlace
  BY DEF Surveyed
<1>4. IsSequence(out')
  BY <1>2, <1>3, Appended DEF Asked
<1>5. Asked'
  BY <1>1, <1>3, <1>4 DEF Asked, Opened
<1>6. InPlace'
  <2>1. Pending' = Pending
    BY <1>1 DEF Pending, Iteration!Nil
  <2> QED
    BY <1>1, <1>3, <2>1 DEF InPlace
<1>7. Iteration!Rejected'
  BY <1>1 DEF Iteration!Rejected, Iteration!stopBit
<1>8. Clean' /\ Exhaustive'
  BY <1>7 DEF Clean, Exhaustive, Whole
<1> QED
  BY <1>5, <1>6, <1>8 DEF Surveyed

\* An iteration of the whole starts at the root, with everything below it.
LEMMA StartStep ==
    ASSUME Surveyed, Iteration!Start
    PROVE  Surveyed'
<1> DEFINE t == traverseTree(r, prefix.ip, Iteration!stopBit)
           x == [ip |-> Iteration!Masked(Iteration!As16(prefix.ip), t[2]), bit |-> t[2],
                 pointer |-> t[1]]
<1>1. /\ status = "start" /\ ~Iteration!Rejected /\ status' = "loop"
      /\ r' = r /\ prefix' = prefix /\ opts' = opts /\ node' = node /\ out' = out
  BY DEF Iteration!Start
<1>2. nodes' = <<x>>
  BY SameDescent DEF Iteration!Start
<1>3. Asked /\ node = Iteration!Nil /\ out = <<>>
  BY <1>1 DEF Surveyed, Asked
<1>4. /\ t[2] \in rootDepth .. Bits /\ t[1] \in Below(r, 0, t[2] - rootDepth)
      /\ Whole => t[1] = 0 /\ t[2] = rootDepth
  BY <1>1, <1>3, StartPlaced DEF Asked, Whole
<1>5. x.bit = t[2] /\ x.pointer = t[1]
  OBVIOUS
<1> HIDE DEF x, t
<1>6. Pending' = {x}
  <2>1. Range(<<x>>) = {x}
    BY DEF Range
  <2> QED
    BY <1>1, <1>2, <1>3, <2>1 DEF Pending, Iteration!Nil
<1>7. rootDepth = Bits - AddressBits(r) /\ rootDepth \in Nat /\ Bits \in Nat /\ AddressBits(r) \in Nat
  BY BitsAssumption DEF rootDepth, AddressBits, V4Depth
<1>8. Level(r, x) = t[2] - rootDepth
  BY <1>5, <1>7 DEF Level
<1>9. Placed(r, x)
  <2>1. t[2] \in 0 .. Bits /\ t[2] - rootDepth \in 0 .. AddressBits(r)
    BY <1>4, <1>7
  <2> QED
    BY <1>4, <1>5, <1>8, <2>1 DEF Placed
<1>10. Asked'
  <2>1. IsSequence(<<x>>)
    <3>1. <<x>> \in Seq({x})
      OBVIOUS
    <3> QED
      BY <3>1 DEF IsSequence
  <2> QED
    BY <1>1, <1>2, <1>3, <2>1 DEF Asked, Opened
<1>11. InPlace'
  BY <1>1, <1>6, <1>9 DEF InPlace
<1>12. Range(out') = {}
  BY <1>1, <1>3 DEF Range
<1>13. Clean'
  BY <1>12 DEF Clean
<1>14. Exhaustive'
  <2> SUFFICES ASSUME Whole, NEW k \in 0 .. AddressBits(r), NEW p \in Below(r, 0, k)
               PROVE  Awaits(r, {x}, p, k)
    <3>1. Whole' => Whole
      BY <1>1 DEF Whole, Iteration!Rejected, Iteration!stopBit
    <3> QED
      BY <1>1, <1>6, <3>1 DEF Exhaustive
  <2>1. Level(r, x) = 0 /\ x.pointer = 0
    BY <1>4, <1>5, <1>7, <1>8
  <2>2. 0 <= k /\ k - 0 = k
    BY <1>7
  <2> QED
    BY <2>1, <2>2 DEF Awaits
<1> QED
  BY <1>10, <1>11, <1>13, <1>14 DEF Surveyed

\* A query is made.
LEMMA QueryStep ==
    ASSUME Surveyed, Query
    PROVE  Surveyed'
<1>1. /\ status = "verifying" /\ status' = "start" /\ r' = r /\ nodes' = nodes /\ node' = node
      /\ out' = out
  BY DEF Query, vars
<1>2. PICK q \in Queries(r) : prefix' = q[1] /\ opts' = q[2]
  BY DEF Query
<1>3. Asked /\ nodes = <<>> /\ node = Iteration!Nil /\ out = <<>>
  BY <1>1 DEF Surveyed, Asked
<1>4. Opened
  BY <1>3 DEF Asked
<1>5. prefix'.bits \in Int /\ prefix'.ip.is4 \in BOOLEAN /\ prefix'.ip.a \in Nat
  BY <1>2, <1>4, OpenedReader
<1>6. Asked'
  BY <1>1, <1>3, <1>5 DEF Asked, Opened, Iteration!Nil
<1>7. Range(nodes') = {} /\ Range(out') = {}
  BY <1>1, <1>3 DEF Range
<1>8. Pending' = {}
  BY <1>1, <1>3, <1>7 DEF Pending, Iteration!Nil
<1>9. InPlace' /\ Clean' /\ Exhaustive'
  BY <1>1, <1>7, <1>8 DEF InPlace, Clean, Exhaustive
<1> QED
  BY <1>6, <1>9 DEF Surveyed

\* While the iteration rests, nothing of it changes.
LEMMA Resting ==
    ASSUME Surveyed, r' = r, iteration' = iteration
    PROVE  Surveyed'
<1>1. /\ prefix' = prefix /\ opts' = opts /\ nodes' = nodes /\ node' = node /\ out' = out
      /\ status' = status
  BY DEF iteration
<1>2. Pending' = Pending /\ PointedTo' = PointedTo /\ (Iteration!Rejected' <=> Iteration!Rejected)
  BY <1>1 DEF Pending, PointedTo, Iteration!Nil, Iteration!Rejected, Iteration!stopBit
<1>3. Asked' /\ InPlace'
  BY <1>1, <1>2 DEF Surveyed, Asked, InPlace, Opened, Iteration!Nil
<1>4. Clean'
  BY <1>1, <1>2 DEF Surveyed, Clean, Harmless
<1>5. Exhaustive'
  BY <1>1, <1>2 DEF Surveyed, Exhaustive, Whole, Reported, Iteration!Nil
<1> QED
  BY <1>3, <1>4, <1>5 DEF Surveyed

\* Before Verify there is nothing to survey.
LEMMA TreeInitSurveyed ==
    ASSUME TreeInit
    PROVE  Surveyed
<1>1. Opened
  BY DEF TreeInit, Init, Opened
<1>2. /\ prefix = Everything /\ nodes = <<>> /\ node = Iteration!Nil /\ out = <<>>
      /\ status = "verifying"
  BY DEF TreeInit
<1>3. prefix.bits \in Int /\ prefix.ip.is4 \in BOOLEAN /\ prefix.ip.a \in Nat
  BY <1>2 DEF Everything, IPv4, IPv6
<1>4. IsSequence(<<>>) /\ Range(<<>>) = {}
  <2>1. <<>> \in Seq({})
    OBVIOUS
  <2> QED
    BY <2>1 DEF IsSequence, Range
<1>5. Pending = {}
  BY <1>2, <1>4 DEF Pending
<1>6. Asked
  BY <1>1, <1>2, <1>3, <1>4 DEF Asked
<1>7. InPlace /\ Clean /\ Exhaustive
  BY <1>2, <1>4, <1>5 DEF InPlace, Clean, Exhaustive
<1> QED
  BY <1>6, <1>7 DEF Surveyed

\* Every state of Verify and NetworksWithin on one Reader satisfies both invariants.
THEOREM TreeInvariance == TreeSpec => [](IInv /\ Surveyed)
<1>1. TreeInit => IInv /\ Surveyed
  BY InitIInv, TreeInitSurveyed DEF TreeInit
<1>2. IInv /\ [Next]_vars => IInv'
  BY MetadataStep, PointerStep, RejectStep, ReuseStep, EnterStep, LeftStep, RightStep,
     TreeStep, SeparatorStep, SweepStep, SweepDoneStep, StutterStep DEF Next
<1>3. [TreeNext]_<<vars, iteration>> => [Next]_vars
  BY DEF TreeNext, Verify, Query, Iterate
<1>4. ASSUME Surveyed, [TreeNext]_<<vars, iteration>> PROVE Surveyed'
  <2>1. Iteration!Next => Surveyed'
    BY <1>4, RejectedStep, StartStep, PopStep, FinishStep, VisitEmptyStep, SkipAliasStep,
       VisitDataStep, TooDeepStep, BranchStep DEF Iteration!Next
  <2>2. Next => r' = r
    BY DEF Next, verifyMetadata, verifyPointer, RejectNode, ReuseNode, EnterNode, LeftDone,
           RightDone, TreeDone, verifyDataSectionSeparator, Sweep, SweepDone
  <2>3. vars' = vars => r' = r
    BY DEF vars
  <2>4. Verify => Surveyed'
    BY <1>4, <2>2, Resting DEF Verify
  <2>5. UNCHANGED <<vars, iteration>> => Surveyed'
    BY <1>4, <2>3, Resting
  <2> QED
    BY <1>4, <2>1, <2>4, <2>5, QueryStep DEF TreeNext, Iterate
<1> QED
  BY <1>1, <1>2, <1>3, <1>4, PTL DEF TreeSpec

\* Whatever is asked of a database that Verify accepts, NetworksWithin yields no error,
\* and every record it yields decodes.
THEOREM VerifiedDatabasesIterateCleanly == TreeSpec => []VerifiedIteratesCleanly
<1>1. ASSUME IInv, Surveyed PROVE VerifiedIteratesCleanly
  <2> SUFFICES ASSUME verdict = "ok", ~Iteration!Rejected, NEW i \in DOMAIN out
               PROVE  \/ out[i].kind = "empty"
                      \/ out[i].kind = "data" /\ r.end[out[i].offset] > out[i].offset
    BY DEF VerifiedIteratesCleanly
  <2>1. TreeSound(r) /\ DataSound
    BY <1>1 DEF IInv, VerifiedIffSound
  <2>2. ASSUME NEW o \in PointedTo PROVE r.end[o] > o /\ o \in DOMAIN r.end
    <3>1. o \in Starts /\ o # r.dataSectionSize
      BY <2>1 DEF DataSound
    <3> QED
      BY <2>1, <3>1 DEF DataSound
  <2>3. Harmless(out[i])
    <3>1. out[i] \in Range(out)
      BY DEF Range
    <3> QED
      BY <1>1, <2>1, <3>1 DEF Surveyed, Clean
  <2>4. CASE out[i].offset \in PointedTo /\ r.value[out[i].offset] = "corrupt"
    <3> DEFINE o == out[i].offset
    <3>1. r.end[o] > o /\ o \in DOMAIN r.end
      BY <2>2, <2>4
    <3>2. r.end[o] <= o
      BY <1>1, <2>4, <3>1, OpenedReader DEF Surveyed, Asked
    <3>3. o \in Int /\ r.end[o] \in Int
      BY <1>1, <3>1 DEF IInv, ReaderOK
    <3> QED
      BY <3>1, <3>2, <3>3
  <2> QED
    BY <2>2, <2>3, <2>4 DEF Harmless
<1> QED
  BY <1>1, TreeInvariance, PTL

\* Iterating is a check of the tree: without SkipEmptyValues a sound tree yields no
\* error, and an unsound one, iterated whole and with its aliases, yields one.
THEOREM IterationErrorsMeanUnsound == TreeSpec => []ErrorsMeanUnsound
<1>1. ASSUME Surveyed PROVE ErrorsMeanUnsound
  <2> SUFFICES ASSUME ~Iteration!Rejected, "skip" \notin opts
               PROVE  /\ TreeSound(r) => \A i \in DOMAIN out : out[i].kind \in {"data", "empty"}
                      /\ (/\ status = "done" /\ prefix.bits = 0 /\ (r.version = 6 => ~prefix.ip.is4)
                          /\ "aliased" \in opts /\ ~TreeSound(r)) =>
                             \E i \in DOMAIN out : out[i].kind \in {"err", "fatal"}
    BY SameTree DEF ErrorsMeanUnsound, Iteration!ErrorsMeanUnsound
  <2>1. ASSUME TreeSound(r), NEW i \in DOMAIN out PROVE out[i].kind \in {"data", "empty"}
    <3>1. out[i] \in Range(out)
      BY DEF Range
    <3>2. Harmless(out[i])
      BY <1>1, <2>1, <3>1 DEF Surveyed, Clean
    <3> QED
      BY <3>2 DEF Harmless
  <2>2. ASSUME status = "done", Whole, ~Reported PROVE TreeSound(r)
    <3>1. /\ nodes = <<>> /\ node = Iteration!Nil
          /\ \A k \in 0 .. AddressBits(r) : \A p \in Below(r, 0, k) :
                 Good(r, p, k) \/ Awaits(r, Pending, p, k)
      BY <1>1, <2>2 DEF Surveyed, Exhaustive
    <3>2. Pending = {}
      BY <3>1 DEF Pending, Range
    <3> QED
      BY <3>1, <3>2 DEF TreeSound, Good, Awaits
  <2>3. Reported => \E i \in DOMAIN out : out[i].kind \in {"err", "fatal"}
    BY DEF Reported, Range
  <2> QED
    BY <2>1, <2>2, <2>3 DEF Whole
<1> QED
  BY <1>1, TreeInvariance, PTL
=============================================================================
