----------------------- MODULE DecoderPositionProofs -----------------------
(***************************************************************************)
(* Proofs about DecoderPosition: for any sections and any nesting of loops. *)
(***************************************************************************)
EXTENDS DecoderPosition, DataSectionProofs

\* How many values make up a container, and how many lie before an entry's key or value.
Total(l) == IF l.kind = "map" THEN 2 * l.size ELSE l.size
Before(l) == IF l.kind = "map" THEN 2 * l.index ELSE l.index
Ahead(l) == IF l.kind = "map" THEN 2 * l.index + 1 ELSE l.index

Loops ==
    [kind : {"map", "slice"}, start : Nat, size : Nat, index : Nat, value : Nat]

\* A loop runs over the contents of some container of the section.
LoopOver(l) ==
    /\ l \in Loops
    /\ l.start - 1 \in 1 .. Len(section)
    /\ section[l.start - 1].kind = l.kind /\ section[l.start - 1].n = l.size

\* It stands on the value of one of its entries.
LoopOK(l) ==
    /\ LoopOver(l) /\ l.index < l.size
    /\ l.value \in Position(section) /\ l.value = EndOf(section, l.start, Ahead(l))

\* What nextOffset may say during a turn: where the turn's value ends.
NextOK ==
    Running /\ Complete(section) /\ loops # <<>> =>
        /\ consumed => nextOffset = Unset
        /\ nextOffset \in {Unset, EndOf(section, Top.value, 1)}

IInv ==
    /\ section \in Seq(Record)
    /\ root \in Position(section) /\ offset \in Position(section)
    /\ nextOffset \in {Unset} \cup Position(section)
    /\ consumed \in BOOLEAN
    /\ loops \in Seq(Loops) /\ \A i \in DOMAIN loops : LoopOK(loops[i])
    /\ Running /\ loops # <<>> /\ ~consumed => offset = Top.value
    /\ NextOK

\* A skip goes to the end of what it skips.
LEMMA Skipped ==
    ASSUME NEW s \in Seq(Record), NEW o \in Position(s), NEW n \in Nat
    PROVE  /\ nextValueOffset(s, o, n) = EndOf(s, o, n)
           /\ EndOf(s, o, n) \in {Bad} \cup Position(s)
<1>1. EndOf(s, o, n) \in {Bad} \cup (o .. Len(s) + 1)
  BY EndOfFinds DEF Position
<1>2. o .. Len(s) + 1 \subseteq Position(s)
  BY RecordsTyped DEF Position
<1> QED
  BY <1>1, <1>2, SkipsToTheEnd DEF Position

LEMMA InitIInv == Init => IInv
<1> SUFFICES ASSUME Init PROVE IInv
  OBVIOUS
<1>1. section \in Seq(Record) /\ root \in DOMAIN section
  BY SectionsAssumption DEF Init
<1>2. root \in Position(section)
  BY <1>1 DEF Position
<1>3. <<>> \in Seq(Loops) /\ DOMAIN <<>> = {}
  OBVIOUS
<1> QED
  BY <1>1, <1>2, <1>3 DEF Init, IInv, NextOK

\* The head of the loop, with the decoder behind the entries that are done.
LEMMA EnterTurnOK ==
    ASSUME IInv, NEW outer \in Seq(Loops), \A i \in DOMAIN outer : LoopOK(outer[i]),
           NEW l, LoopOver(l), l.index <= l.size,
           NEW current \in Position(section), current = EndOf(section, l.start, Before(l)),
           EnterTurn(outer, l, current), UNCHANGED <<section, root>>
    PROVE  /\ IInv'
           /\ \/ ~Running' /\ UNCHANGED loops
              \/ l.index = l.size /\ loops' = outer /\ offset' = current /\ nextOffset' = Unset
              \/ Len(loops') = Len(outer) + 1
<1> DEFINE value == IF l.kind = "map" THEN decodeKey(section, current) ELSE current
           k == [l EXCEPT !.value = value]
<1>1. /\ section \in Seq(Record) /\ l \in Loops
      /\ l.index \in Nat /\ l.size \in Nat /\ l.kind \in {"map", "slice"} /\ l.start \in Nat
  BY DEF IInv, LoopOver, Loops
<1>2. CASE l.index = l.size
  <2>1. offset' = current /\ nextOffset' = Unset /\ loops' = outer /\ consumed' = TRUE
    BY <1>2 DEF EnterTurn, reset
  <2>2. \A x : LoopOK(x)' <=> LoopOK(x)
    BY DEF LoopOK, LoopOver
  <2>3. IInv'
    BY <1>1, <2>1, <2>2 DEF IInv, NextOK
  <2> QED
    BY <1>2, <2>1, <2>3
<1>3. CASE l.index # l.size /\ value = Bad
  <2>1. status' = "failed" /\ UNCHANGED <<offset, nextOffset, loops, consumed>>
    BY <1>3 DEF EnterTurn, Fail, decoder
  <2>2. \A x : LoopOK(x)' <=> LoopOK(x)
    BY DEF LoopOK, LoopOver
  <2>3. IInv'
    BY <2>1, <2>2 DEF IInv, NextOK, Running
  <2> QED
    BY <2>1, <2>3 DEF Running
<1>4. CASE l.index # l.size /\ value # Bad
  <2>1. offset' = value /\ nextOffset' = Unset /\ loops' = Append(outer, k) /\ consumed' = FALSE
    BY <1>4 DEF EnterTurn, reset
  <2>2. l.start \in Position(section)
    BY <1>1, RecordsTyped DEF LoopOver, Position
  <2>3. value \in Position(section) /\ value = EndOf(section, l.start, Ahead(l))
    <3>1. CASE l.kind = "map"
      <4>1. value \in Position(section) /\ value = EndOf(section, current, 1)
        BY <1>1, <1>4, <3>1, KeyEnds
      <4>2. Before(l) \in Nat /\ Ahead(l) = Before(l) + 1
        BY <1>1, <3>1 DEF Before, Ahead
      <4> QED
        BY <1>1, <2>2, <4>1, <4>2, OneMore
    <3>2. CASE l.kind # "map"
      BY <3>2 DEF Before, Ahead
    <3> QED
      BY <3>1, <3>2
  <2>4. value \in Nat
    BY <1>1, <2>3, RecordsTyped DEF Position
  <2> HIDE DEF value
  <2>5. /\ k \in Loops /\ k.kind = l.kind /\ k.start = l.start /\ k.size = l.size
        /\ k.index = l.index /\ k.value = value
    BY <1>1, <2>4 DEF Loops
  <2> HIDE DEF k
  <2>6. LoopOK(k)
    BY <1>1, <1>4, <2>3, <2>5 DEF LoopOK, LoopOver, Ahead
  <2>7. \A x : LoopOK(x)' <=> LoopOK(x)
    BY DEF LoopOK, LoopOver
  <2>8. /\ loops' \in Seq(Loops) /\ loops' # <<>> /\ Len(loops') = Len(outer) + 1
        /\ loops'[Len(loops')] = k /\ \A i \in DOMAIN loops' : LoopOK(loops'[i])
    BY <2>1, <2>5, <2>6, Stack
  <2>9. IInv'
    BY <1>1, <2>1, <2>3, <2>5, <2>7, <2>8 DEF IInv, NextOK, Top
  <2> QED
    BY <2>8, <2>9
<1> QED
  BY <1>2, <1>3, <1>4

\* Whether a loop is in order depends on the section alone, which never changes.
LEMMA LoopsStay ==
    ASSUME UNCHANGED section
    PROVE  \A x : LoopOK(x)' <=> LoopOK(x)
BY DEF LoopOK, LoopOver

\* The innermost loop and the loops around it.
LEMMA LoopsAround ==
    ASSUME IInv, loops # <<>>
    PROVE  /\ Top \in Loops /\ LoopOK(Top)
           /\ Outer \in Seq(Loops) /\ Len(Outer) = Len(loops) - 1
           /\ \A i \in DOMAIN Outer : LoopOK(Outer[i])
<1>1. loops \in Seq(Loops) /\ \A i \in DOMAIN loops : LoopOK(loops[i])
  BY DEF IInv
<1>2. /\ Len(loops) \in DOMAIN loops /\ loops[Len(loops)] \in Loops
      /\ Outer \in Seq(Loops) /\ Len(Outer) = Len(loops) - 1
      /\ \A i \in DOMAIN Outer : i \in DOMAIN loops /\ Outer[i] = loops[i]
  BY <1>1, Stack DEF Outer
<1> QED
  BY <1>1, <1>2 DEF Top

-----------------------------------------------------------------------------
(* What the caller does with the value of its turn.                         *)

\* A read may only fix where the value of this turn ends.
LEMMA ReadOK ==
    ASSUME IInv, Reads,
           \/ nextOffset' = nextOffset
           \/ nextOffset' \in Position(section) /\ nextOffset' = EndOf(section, offset, 1),
           UNCHANGED <<section, root, offset, loops, consumed, status>>
    PROVE  IInv'
<1>1. /\ section' = section /\ root' = root /\ offset' = offset /\ loops' = loops
      /\ consumed' = consumed /\ status' = status
  OBVIOUS
<1>2. nextOffset' \in {Unset} \cup Position(section)
  BY DEF IInv
<1>3. NextOK'
  <2>1. CASE nextOffset' = nextOffset
    BY <1>1, <2>1 DEF IInv, NextOK, Top, Running
  <2>2. CASE loops # <<>> /\ nextOffset' = EndOf(section, offset, 1)
    <3>1. offset = Top.value /\ ~consumed
      BY <2>2 DEF IInv, Reads
    <3> QED
      BY <1>1, <2>2, <3>1 DEF NextOK, Top, Running
  <2>3. CASE loops = <<>>
    BY <1>1, <2>3 DEF NextOK
  <2> QED
    BY <2>1, <2>2, <2>3
<1> QED
  BY <1>1, <1>2, <1>3, LoopsStay DEF IInv, Top, Running

LEMMA ReadScalarOK == ASSUME IInv, ReadScalar PROVE IInv' /\ loops' = loops
<1> DEFINE r == resolveCtrlData(section, offset)
           end == IF r.next # 0 THEN r.next ELSE r.data
<1>1. section \in Seq(Record) /\ offset \in Position(section)
  BY DEF IInv
<1>2. r.kind \in {"string", "number"} /\ nextOffset' = setNextOffset(Followed(r), r.data)
  BY DEF ReadScalar
<1>3. end \in Position(section) /\ end = EndOf(section, offset, 1)
  BY <1>1, <1>2, PlainEnds
<1> HIDE DEF r
<1>4. nextOffset' = nextOffset \/ nextOffset' = end
  BY <1>2 DEF setNextOffset, Followed, Unset
<1> HIDE DEF end
<1> QED
  BY <1>3, <1>4, ReadOK DEF ReadScalar

LEMMA FollowOnlyOK == ASSUME IInv, FollowOnly PROVE IInv' /\ loops' = loops
<1> DEFINE r == resolveCtrlData(section, offset)
<1>1. section \in Seq(Record) /\ offset \in Position(section)
  BY DEF IInv
<1>2. r.kind # "bad" /\ nextOffset' = Followed(r)
  BY DEF FollowOnly
<1>3. /\ offset + 1 \in Position(section)
      /\ \/ r.next = 0
         \/ r.next = offset + 1 /\ EndOf(section, offset, 1) = offset + 1
  BY <1>1, <1>2, Resolved
<1> HIDE DEF r
<1>4. \/ nextOffset' = nextOffset
      \/ nextOffset' \in Position(section) /\ nextOffset' = EndOf(section, offset, 1)
  BY <1>2, <1>3 DEF setNextOffset, Followed, Unset
<1> QED
  BY <1>4, ReadOK DEF FollowOnly

LEMMA SkipValueOK == ASSUME IInv, SkipValue PROVE IInv' /\ loops' = loops
<1> DEFINE end == nextValueOffset(section, offset, 1)
<1>1. section \in Seq(Record) /\ offset \in Position(section)
  BY DEF IInv
<1>2. end \in {Bad} \cup Position(section)
  BY <1>1, Skipped
<1>3. section' = section /\ root' = root /\ loops' = loops
  BY DEF SkipValue
<1>4. CASE end = Bad
  <2>1. status' = "failed" /\ UNCHANGED <<offset, nextOffset, consumed>>
    BY <1>4 DEF SkipValue, decoder
  <2> QED
    BY <1>3, <2>1, LoopsStay DEF IInv, NextOK, Running
<1>5. CASE end # Bad
  <2>1. offset' = end /\ nextOffset' = Unset /\ consumed' = TRUE
    BY <1>5 DEF SkipValue, reset
  <2> HIDE DEF end
  <2>2. end \in Position(section)
    BY <1>2, <1>5
  <2> QED
    BY <1>3, <2>1, <2>2, LoopsStay DEF IInv, NextOK
<1> QED
  BY <1>3, <1>4, <1>5

-----------------------------------------------------------------------------
(* The iterators.                                                           *)

\* ReadMap and ReadSlice find the container at the offset or behind its pointer.
LEMMA ContainerFound ==
    ASSUME NEW s \in Seq(Record), NEW o \in Position(s),
           resolveCtrlData(s, o).kind \in {"map", "slice"}
    PROVE  LET r == resolveCtrlData(s, o) IN
           /\ r.n \in Nat /\ r.data \in Position(s) /\ r.data \in Nat
           /\ r.data - 1 \in 1 .. Len(s)
           /\ s[r.data - 1].kind = r.kind /\ s[r.data - 1].n = r.n
<1>1. Len(s) \in Nat /\ \A i \in 1 .. Len(s) : s[i] \in Record
  BY RecordsTyped
<1>2. o \in 1 .. Len(s)
  BY <1>1 DEF resolveCtrlData, Position
<1>3. s[o] \in Record
  BY <1>1, <1>2
<1>4. CASE s[o].kind # "pointer"
  <2>1. resolveCtrlData(s, o)
          = [kind |-> s[o].kind, n |-> s[o].n, data |-> o + 1, next |-> 0]
    BY <1>1, <1>2, <1>4 DEF resolveCtrlData
  <2>2. (o + 1) - 1 = o /\ o + 1 \in Position(s) /\ o + 1 \in Nat
    BY <1>1, <1>2 DEF Position
  <2> QED
    BY <1>2, <1>3, <2>1, <2>2 DEF Record
<1>5. CASE s[o].kind = "pointer"
  <2> DEFINE to == s[o].n
  <2>1. to \in 1 .. Len(s)
    BY <1>1, <1>2, <1>3, <1>5 DEF resolveCtrlData, Record
  <2>2. resolveCtrlData(s, o)
          = [kind |-> s[to].kind, n |-> s[to].n, data |-> to + 1, next |-> o + 1]
    BY <1>1, <1>2, <1>5, <2>1 DEF resolveCtrlData
  <2>3. s[to] \in Record
    BY <1>1, <2>1
  <2> HIDE DEF to
  <2>4. (to + 1) - 1 = to /\ to + 1 \in Position(s) /\ to + 1 \in Nat
    BY <1>1, <2>1 DEF Position
  <2> QED
    BY <2>1, <2>2, <2>3, <2>4 DEF Record
<1> QED
  BY <1>4, <1>5

LEMMA IterateOK ==
    ASSUME IInv, Iterate
    PROVE  IInv' /\ Len(loops') >= Len(loops)
<1> DEFINE r == resolveCtrlData(section, offset)
           l == Loop(r.kind, r.data, r.n)
<1>1. /\ section \in Seq(Record) /\ offset \in Position(section)
      /\ loops \in Seq(Loops) /\ \A i \in DOMAIN loops : LoopOK(loops[i])
  BY DEF IInv
<1>2. r.kind \in {"map", "slice"} /\ EnterTurn(loops, l, r.data) /\ UNCHANGED <<section, root>>
  BY DEF Iterate
<1>3. /\ r.n \in Nat /\ r.data \in Position(section) /\ r.data \in Nat
      /\ r.data - 1 \in 1 .. Len(section)
      /\ section[r.data - 1].kind = r.kind /\ section[r.data - 1].n = r.n
  BY <1>1, <1>2, ContainerFound
<1> HIDE DEF r
<1>4. /\ l \in Loops /\ l.kind = r.kind /\ l.start = r.data /\ l.size = r.n
      /\ l.index = 0
  BY <1>2, <1>3 DEF Loop, Loops
<1> HIDE DEF l
<1>5. LoopOver(l) /\ l.index <= l.size
  BY <1>3, <1>4 DEF LoopOver
<1>6. r.data = EndOf(section, l.start, Before(l))
  BY <1>1, <1>3, <1>4, EndOfNone DEF Before, Position
<1>7. /\ IInv'
      /\ \/ ~Running' /\ UNCHANGED loops
         \/ loops' = loops
         \/ Len(loops') = Len(loops) + 1
  BY <1>1, <1>2, <1>3, <1>5, <1>6, EnterTurnOK
<1>8. Len(loops) \in Nat
  BY <1>1
<1> QED
  BY <1>7, <1>8

\* The loop's locals in the next turn.
LEMMA NextEntry ==
    ASSUME NEW t \in Loops
    PROVE  LET l == [t EXCEPT !.index = @ + 1] IN
           /\ l \in Loops /\ l.kind = t.kind /\ l.start = t.start /\ l.size = t.size
           /\ l.index = t.index + 1
BY DEF Loops

\* Entries that are done, the one of this turn, and the remaining ones make up the container.
LEMMA EntriesLeft ==
    ASSUME NEW t \in Loops, t.index < t.size
    PROVE  LET rest == t.size - t.index - 1
               more == IF t.kind = "map" THEN 2 * rest ELSE rest
           IN  /\ rest \in Nat /\ more \in Nat /\ Ahead(t) \in Nat
               /\ Total(t) = Ahead(t) + (1 + more)
<1>1. t.size \in Nat /\ t.index \in Nat
  BY DEF Loops
<1>2. \A n, i \in Nat : i < n =>
          /\ n - i - 1 \in Nat /\ 2 * (n - i - 1) \in Nat /\ 2 * i + 1 \in Nat
          /\ n = i + (1 + (n - i - 1)) /\ 2 * n = (2 * i + 1) + (1 + 2 * (n - i - 1))
  OBVIOUS
<1> QED
  BY <1>1, <1>2 DEF Ahead, Total

\* Continue steps over the value of this turn; the loop may be done with that.
LEMMA ContinueOK ==
    ASSUME IInv, Continue
    PROVE  /\ IInv'
           /\ Len(loops') < Len(loops) =>
                  offset' = EndOf(section, Top.start, Total(Top)) /\ nextOffset' = Unset
<1> DEFINE end == nextValueOffset(section, Top.value, 1)
           l == [Top EXCEPT !.index = @ + 1]
<1>1. /\ section \in Seq(Record) /\ loops \in Seq(Loops) /\ loops # <<>>
      /\ section' = section /\ root' = root
  BY DEF IInv, Continue
<1>2. /\ Top \in Loops /\ LoopOK(Top)
      /\ Outer \in Seq(Loops) /\ Len(Outer) = Len(loops) - 1
      /\ \A i \in DOMAIN Outer : LoopOK(Outer[i])
  BY <1>1, LoopsAround
<1>3. /\ Top.value \in Position(section) /\ LoopOver(Top)
      /\ Top.value = EndOf(section, Top.start, Ahead(Top))
      /\ Top.index < Top.size
  BY <1>2 DEF LoopOK
<1>4. end = EndOf(section, Top.value, 1) /\ end \in {Bad} \cup Position(section)
  BY <1>1, <1>3, Skipped
<1>5. Len(loops) \in Nat
  BY <1>1
<1>6. CASE end = Bad
  <2>1. status' = "failed" /\ UNCHANGED <<offset, nextOffset, loops, consumed>>
    BY <1>6 DEF Continue, Fail, decoder
  <2>2. IInv'
    BY <1>1, <2>1, LoopsStay DEF IInv, NextOK, Running
  <2> QED
    BY <1>5, <2>1, <2>2
<1>7. CASE end # Bad
  <2>1. EnterTurn(Outer, l, end)
    BY <1>7 DEF Continue
  <2> HIDE DEF end
  <2>2. /\ l \in Loops /\ l.kind = Top.kind /\ l.start = Top.start /\ l.size = Top.size
        /\ l.index = Top.index + 1 /\ Top.index \in Nat /\ Top.size \in Nat
    <3>1. Top.index \in Nat /\ Top.size \in Nat
      BY <1>2 DEF Loops
    <3> QED
      BY <1>2, <3>1, NextEntry
  <2> HIDE DEF l
  <2>3. end \in Position(section)
    BY <1>4, <1>7
  <2>4. LoopOver(l) /\ l.index <= l.size
    BY <1>3, <2>2 DEF LoopOver
  <2>5. Ahead(Top) \in Nat /\ Before(l) = Ahead(Top) + 1
    BY <2>2 DEF Ahead, Before
  <2>6. Top.start \in Position(section)
    <3>1. Top.start - 1 \in 1 .. Len(section) /\ Top.start \in Nat /\ Len(section) \in Nat
      BY <1>1, <1>2, <1>3, RecordsTyped DEF LoopOver, Loops
    <3> QED
      BY <3>1 DEF Position
  <2>7. end = EndOf(section, l.start, Before(l))
    BY <1>1, <1>3, <1>4, <2>2, <2>5, <2>6, OneMore
  <2>8. /\ IInv'
        /\ \/ ~Running' /\ UNCHANGED loops
           \/ l.index = l.size /\ loops' = Outer /\ offset' = end /\ nextOffset' = Unset
           \/ Len(loops') = Len(Outer) + 1
    BY <1>1, <1>2, <2>1, <2>3, <2>4, <2>7, EnterTurnOK
  <2>9. l.index = l.size => Before(l) = Total(Top)
    BY <2>2 DEF Before, Total
  <2> QED
    BY <1>2, <1>5, <2>2, <2>7, <2>8, <2>9
<1> QED
  BY <1>6, <1>7

\* Stopping early: whatever the body of this turn read, the skip of the remaining
\* entries starts and ends right.
LEMMA StopsBehind ==
    ASSUME IInv, Running, loops # <<>>, Complete(section)
    PROVE  /\ AfterStop.from # Bad
           /\ nextValueOffset(section, AfterStop.from, AfterStop.values)
                = EndOf(section, Top.start, Total(Top))
           /\ EndOf(section, Top.start, Total(Top)) # Bad
<1> DEFINE rest == Top.size - Top.index - 1
           more == IF Top.kind = "map" THEN 2 * rest ELSE rest
           end == EndOf(section, Top.value, 1)
<1>1. /\ section \in Seq(Record) /\ Len(section) \in Nat
      /\ Top \in Loops /\ LoopOver(Top) /\ Top.index < Top.size
      /\ Top.value \in Position(section)
      /\ Top.value = EndOf(section, Top.start, Ahead(Top))
  BY LoopsAround, RecordsTyped DEF IInv, LoopOK
<1>2. /\ Top.kind \in {"map", "slice"} /\ Top.start \in Nat /\ Top.size \in Nat
      /\ Top.index \in Nat
      /\ Top.start - 1 \in 1 .. Len(section)
      /\ section[Top.start - 1].kind = Top.kind /\ section[Top.start - 1].n = Top.size
  BY <1>1 DEF LoopOver, Loops
<1>3. /\ rest \in Nat /\ more \in Nat /\ more + 1 \in Nat \ {0} /\ Ahead(Top) \in Nat
      /\ Total(Top) = Ahead(Top) + (1 + more)
  <2>1. rest \in Nat /\ more \in Nat /\ Ahead(Top) \in Nat /\ Total(Top) = Ahead(Top) + (1 + more)
    BY <1>1, EntriesLeft
  <2> HIDE DEF more, rest
  <2> QED
    BY <2>1
<1>4. EndOf(section, Top.start, Total(Top)) # Bad
  <2>1. EndOf(section, Top.start - 1, 1) # Bad
    BY <1>2 DEF Complete
  <2>2. Values(section[Top.start - 1]) = Total(Top)
    BY <1>2 DEF Values, Total
  <2>3. (Top.start - 1) + 1 = Top.start
    BY <1>2
  <2> QED
    BY <1>1, <1>2, <2>1, <2>2, <2>3, EndOfOne
<1>5. Top.start \in Position(section) /\ Top.value # Bad
  BY <1>1, <1>2 DEF Position, Bad
<1>6. EndOf(section, Top.start, Total(Top)) = EndOf(section, Top.value, 1 + more)
  <2> HIDE DEF more
  <2>1. 1 + more \in Nat
    BY <1>3
  <2>2. EndOf(section, Top.start, Ahead(Top)) # Bad
    BY <1>1, <1>5
  <2>3. Top.start \in 1 .. Len(section) + 1 /\ Ahead(Top) \in Nat
    BY <1>3, <1>5 DEF Position
  <2>4. EndOf(section, Top.start, Ahead(Top) + (1 + more))
            = EndOf(section, EndOf(section, Top.start, Ahead(Top)), 1 + more)
    BY <1>1, <2>1, <2>2, <2>3, EndOfSum
  <2> QED
    BY <1>1, <1>3, <2>4, Zenon
<1> HIDE DEF more
<1>7. Top.value \in 1 .. Len(section)
  <2>1. Top.value # Len(section) + 1
    BY <1>1, <1>3, <1>4, <1>6, EndOfSection
  <2> QED
    BY <1>1, <2>1 DEF Position
<1>8. end # Bad /\ end \in Position(section)
  BY <1>1, <1>7, Skipped DEF Complete
<1>9. EndOf(section, Top.value, 1 + more) = EndOf(section, end, more)
  BY <1>1, <1>3, <1>8, EndOfSum DEF Position
<1>10. /\ nextValueOffset(section, Top.value, 1) = end
       /\ nextValueOffset(section, Top.value, 1 + more) = EndOf(section, Top.value, 1 + more)
       /\ nextValueOffset(section, end, more) = EndOf(section, end, more)
  BY <1>1, <1>3, <1>8, Skipped
<1>11. nextOffset # Unset => nextOffset = end
  BY DEF IInv, NextOK
<1> HIDE DEF end
<1>12. \/ AfterStop.from = end /\ AfterStop.values = more
       \/ AfterStop.from = Top.value /\ AfterStop.values = 1 + more
  <2>1. CASE nextOffset # Unset
    BY <1>2, <1>11, <2>1 DEF AfterStop, more
  <2>2. CASE nextOffset = Unset /\ Top.kind = "map"
    BY <1>2, <1>10, <2>2 DEF AfterStop, more
  <2>3. CASE nextOffset = Unset /\ Top.kind # "map"
    <3>1. AfterStop.from = Top.value /\ AfterStop.values = rest + 1
      BY <2>3 DEF AfterStop
    <3> QED
      BY <1>3, <2>3, <3>1 DEF more
  <2> QED
    BY <2>1, <2>2, <2>3
<1> QED
  BY <1>4, <1>5, <1>6, <1>8, <1>9, <1>10, <1>12

LEMMA BreakOK ==
    ASSUME IInv, Break
    PROVE  /\ IInv'
           /\ Complete(section) =>
                  offset' = EndOf(section, Top.start, Total(Top)) /\ nextOffset' = Unset
<1> DEFINE end == IF AfterStop.from = Bad THEN Bad
                  ELSE nextValueOffset(section, AfterStop.from, AfterStop.values)
<1>1. /\ section \in Seq(Record) /\ Running /\ loops # <<>> /\ loops' = Outer
      /\ consumed' = TRUE /\ section' = section /\ root' = root /\ status' = status
  BY DEF IInv, Break
<1>2. /\ Top \in Loops /\ LoopOK(Top) /\ Outer \in Seq(Loops)
      /\ \A i \in DOMAIN Outer : LoopOK(Outer[i])
  BY <1>1, LoopsAround
<1>3. /\ end = Bad => UNCHANGED <<offset, nextOffset>>
      /\ end # Bad => offset' = end /\ nextOffset' = Unset
  BY DEF Break, reset, decoder
<1>4. end \in {Bad} \cup Position(section)
  <2>1. /\ Top.value \in Position(section) /\ Top.index \in Nat /\ Top.size \in Nat
        /\ Top.index < Top.size
    BY <1>2 DEF LoopOK, Loops
  <2>2. nextValueOffset(section, Top.value, 1) \in {Bad} \cup Position(section)
    BY <1>1, <2>1, Skipped
  <2>3. nextOffset \in {Unset} \cup Position(section)
    BY DEF IInv
  <2>4. AfterStop.from \in {Bad} \cup Position(section) /\ AfterStop.values \in Nat
    BY <2>1, <2>2, <2>3 DEF AfterStop
  <2> QED
    BY <1>1, <2>4, Skipped
<1>5. Complete(section) =>
          offset' = EndOf(section, Top.start, Total(Top)) /\ nextOffset' = Unset
  BY <1>1, <1>3, StopsBehind
<1> HIDE DEF end
<1>6. offset' \in Position(section) /\ nextOffset' \in {Unset} \cup Position(section)
  BY <1>3, <1>4 DEF IInv
<1>7. NextOK'
  BY <1>1, <1>5 DEF NextOK
<1> QED
  BY <1>1, <1>2, <1>5, <1>6, <1>7, LoopsStay DEF IInv

LEMMA ReturnOK == ASSUME IInv, Return PROVE IInv' /\ loops' = loops
<1> DEFINE end == nextValueOffset(section, root, 1)
<1>1. /\ section \in Seq(Record) /\ loops = <<>>
      /\ UNCHANGED <<section, root, nextOffset, loops, consumed>>
  BY DEF IInv, Return
<1>2. end \in {Bad} \cup Position(section)
  BY <1>1, Skipped DEF IInv
<1>3. offset' \in Position(section)
  BY <1>2 DEF Return, IInv
<1> QED
  BY <1>1, <1>3, LoopsStay DEF IInv, NextOK

-----------------------------------------------------------------------------

\* Every step keeps the invariant, and a step that ends a loop ends it behind its
\* container.
LEMMA NextIInv ==
    ASSUME IInv, [Next]_vars
    PROVE  IInv' /\ EndsBehindContainer
<1>0. Len(loops) \in Nat
  BY DEF IInv
<1>1. ASSUME loops' = loops PROVE EndsBehindContainer
  BY <1>0, <1>1 DEF EndsBehindContainer
<1>2. CASE ReadScalar
  BY <1>1, <1>2, ReadScalarOK
<1>3. CASE FollowOnly
  BY <1>1, <1>3, FollowOnlyOK
<1>4. CASE SkipValue
  BY <1>1, <1>4, SkipValueOK
<1>5. CASE Iterate
  <2>1. IInv' /\ Len(loops') >= Len(loops)
    BY <1>5, IterateOK
  <2>2. Len(loops') \in Nat
    BY <2>1 DEF IInv
  <2> QED
    BY <1>0, <2>1, <2>2 DEF EndsBehindContainer
<1>6. CASE Continue
  BY <1>6, ContinueOK DEF EndsBehindContainer, Total
<1>7. CASE Break
  BY <1>7, BreakOK DEF EndsBehindContainer, Total
<1>8. CASE Return
  BY <1>1, <1>8, ReturnOK
<1>9. CASE UNCHANGED vars
  <2>1. IInv'
    BY <1>9, LoopsStay DEF vars, IInv, NextOK, Top, Running
  <2> QED
    BY <1>1, <1>9, <2>1 DEF vars
<1> QED
  BY <1>2, <1>3, <1>4, <1>5, <1>6, <1>7, <1>8, <1>9 DEF Next

LEMMA IInvTurns == IInv => EachTurnAtItsValue
BY DEF IInv, LoopOK, EachTurnAtItsValue, EntryOf, Ahead

\* The iterators of ReadMap and ReadSlice show the caller the value of its own entry
\* in every turn, in any section and however deep the loops nest.
THEOREM TurnsAtTheirValues == Spec => []EachTurnAtItsValue
<1>1. Init => IInv
  BY InitIInv
<1>2. IInv /\ [Next]_vars => IInv'
  BY NextIInv
<1> QED
  BY <1>1, <1>2, IInvTurns, PTL DEF Spec

\* An iterator that ends, or is stopped in any turn and after any read, leaves the
\* decoder behind its container in any complete section.
THEOREM LoopsEndBehind == Spec => LoopsEndBehindContainer
<1>1. Init => IInv
  BY InitIInv
<1>2. IInv /\ [Next]_vars => IInv'
  BY NextIInv
<1>3. IInv /\ [Next]_vars => [EndsBehindContainer]_vars
  BY NextIInv
<1> QED
  BY <1>1, <1>2, <1>3, PTL DEF Spec, LoopsEndBehindContainer
===============================================================
