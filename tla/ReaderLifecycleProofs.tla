----------------------- MODULE ReaderLifecycleProofs -----------------------
(***************************************************************************)
(* Proofs about ReaderLifecycle for any number of goroutines.              *)
(***************************************************************************)
EXTENDS ReaderLifecycle, TLAPS

\* Until Open succeeds nobody holds the Reader.
OpeningOK ==
    /\ stage # "open" => /\ kept = {} /\ closing = "no" /\ ~closed /\ cleanup = "none"
                         /\ \A g \in Goroutines : pc[g] = "idle"
    /\ stage \in {"start", "parse", "publish", "failed"} => ~hasMapped
    /\ stage \in {"start", "parse", "publish", "arm"} => munmaps = 0
    /\ stage = "start" => mem = "none"
    /\ stage = "parse" => mem \in {"mapped", "heap"}
    /\ stage \in {"publish", "arm"} => mem = "mapped" /\ buffer

\* Whoever wins the compare-and-swap on hasMapped, and only they, still has to unmap.
OwnershipOK ==
    /\ hasMapped => mem = "mapped" /\ munmaps = 0
    /\ closing = "munmap" => /\ mem = "mapped" /\ munmaps = 0 /\ ~hasMapped
                             /\ cleanup # "running"
    /\ cleanup = "running" => mem = "mapped" /\ munmaps = 0 /\ ~hasMapped

\* An open Reader that is neither closed, being closed nor being cleaned up is backed.
BackedOK ==
    stage = "open" =>
        /\ ~closed => buffer
        /\ closed => ~buffer
        /\ buffer /\ closing = "no" /\ cleanup \in {"none", "armed"} =>
               munmaps = 0 /\ mem \in {"mapped", "heap"}

\* Once the cleanup has started, nothing refers to the Reader again.
ForgottenOK ==
    cleanup \in {"running", "done"} => ~Reachable

\* An operation that reads does so on an open Reader, whose memory it needs; only
\* iterators pause; Close waits for every other operation.
ReadingOK ==
    /\ \A g \in Goroutines :
          /\ pc[g] = "reading" => buffer /\ ~closed /\ op[g] \notin {"absent", "traverse"}
          /\ pc[g] \in {"paused", "resumed"} => op[g] = "networks"
    /\ closing # "no" => \A g \in Goroutines : pc[g] \in {"idle", "paused"}

\* The caller holds the cursor it inspects.
InspectOK ==
    \A g \in Goroutines : pc[g] # "idle" /\ op[g] = "inspect" => "cursor" \in kept

IInv == /\ TypeOK /\ OpeningOK /\ OwnershipOK /\ BackedOK /\ ForgottenOK /\ ReadingOK
        /\ InspectOK /\ UnmappedOnce

\* What one munmap of a mapped database does.
LEMMA MunmapEffect ==
    ASSUME TypeOK, mem = "mapped", munmaps = 0, Munmap
    PROVE  /\ munmaps' \in Nat /\ munmaps' <= 1
           /\ mem' \in {"mapped", "unmapped"}
           /\ munmapErr' \in BOOLEAN /\ emptyStart' = emptyStart
<1>1. munmaps' = 1
  BY DEF Munmap
<1>2. /\ mem' \in {"mapped", "unmapped"} /\ munmapErr' \in BOOLEAN
      /\ emptyStart' = emptyStart
  BY DEF Munmap, TypeOK
<1> QED
  BY <1>1, <1>2

\* The strengthening holds before Open is called.
LEMMA InitIInv == Init => IInv
<1> SUFFICES ASSUME Init PROVE IInv
  OBVIOUS
<1>1. TypeOK
  BY DEF Init, TypeOK
<1>2. UnmappedOnce
  BY DEF Init, UnmappedOnce
<1>3. OpeningOK /\ OwnershipOK /\ BackedOK /\ ForgottenOK /\ ReadingOK /\ InspectOK
  BY DEF Init, OpeningOK, OwnershipOK, BackedOK, ForgottenOK, ReadingOK, InspectOK
<1> QED
  BY <1>1, <1>2, <1>3 DEF IInv

\* Opening a database preserves the strengthening.
LEMMA OpeningPreserves == IInv /\ Opening => IInv'
<1> SUFFICES ASSUME IInv, Opening PROVE IInv'
  OBVIOUS
<1> USE DEF IInv, TypeOK, OpeningOK, OwnershipOK, BackedOK, ForgottenOK, ReadingOK,
            InspectOK, UnmappedOnce, Reachable, FrameHolds, memory, calls
<1>1. CASE OpenFails
  BY <1>1 DEF OpenFails
<1>2. CASE Mmap
  BY <1>2 DEF Mmap
<1>3. CASE HeapBuffer
  BY <1>3 DEF HeapBuffer
<1>4. CASE ParseFails
  <2>1. CASE mem = "mapped"
    BY <1>4, <2>1, MunmapEffect DEF ParseFails
  <2>2. CASE mem # "mapped"
    BY <1>4, <2>2 DEF ParseFails
  <2> QED
    BY <2>1, <2>2
<1>5. CASE Parse
  BY <1>5 DEF Parse
<1>6. CASE StoreHasMapped
  BY <1>6 DEF StoreHasMapped
<1>7. CASE AddCleanup
  BY <1>7 DEF AddCleanup
<1> QED
  BY <1>1, <1>2, <1>3, <1>4, <1>5, <1>6, <1>7 DEF Opening

\* Until it is open, a Reader is used by nobody; once collected, by nobody ever.
LEMMA Unused ==
    ASSUME IInv
    PROVE  /\ stage # "open" => kept = {} /\ \A g \in Goroutines : pc[g] = "idle"
           /\ cleanup \in {"running", "done"} =>
                 /\ kept \subseteq {"absent"} /\ stage \in {"open", "failed"}
                 /\ closing = "no"
                 /\ \A g \in Goroutines : pc[g] # "idle" => op[g] = "absent"
<1>1. stage # "open" => kept = {} /\ \A g \in Goroutines : pc[g] = "idle"
  BY DEF IInv, OpeningOK
<1>2. ASSUME cleanup \in {"running", "done"}
      PROVE  /\ kept \subseteq {"absent"} /\ stage \in {"open", "failed"}
             /\ closing = "no"
             /\ \A g \in Goroutines : pc[g] # "idle" => op[g] = "absent"
  <2>1. ~Reachable
    BY <1>2 DEF IInv, ForgottenOK
  <2>2. kept \subseteq {"absent"} /\ stage \in {"open", "failed"} /\ closing = "no"
    BY <2>1 DEF Reachable
  <2>3. ASSUME NEW g \in Goroutines, pc[g] # "idle" PROVE op[g] = "absent"
    <3>1. op[g] \in {"absent", "inspect"}
      BY <2>1, <2>3 DEF Reachable, FrameHolds
    <3>2. op[g] # "inspect"
      BY <2>2, <2>3 DEF IInv, InspectOK
    <3> QED
      BY <3>1, <3>2
  <2> QED
    BY <2>2, <2>3
<1> QED
  BY <1>1, <1>2

\* The Reader itself is open and stays as it is.
Steady == /\ stage = "open"
          /\ UNCHANGED <<stage, memory, buffer, hasMapped, cleanup, closing, closed>>

\* A step of a call on a steady Reader cannot disturb what is said of the Reader alone.
LEMMA SteadyPreserves ==
    ASSUME IInv, Steady, TypeOK', ForgottenOK', ReadingOK', InspectOK'
    PROVE  IInv'
<1>1. OpeningOK' /\ OwnershipOK' /\ BackedOK' /\ UnmappedOnce'
  BY DEF IInv, Steady, memory, OpeningOK, OwnershipOK, BackedOK, UnmappedOnce
<1> QED
  BY <1>1 DEF IInv

\* The operations preserve the strengthening.
LEMMA UsingPreserves ==
    ASSUME IInv, NEW g \in Goroutines, Using(g)
    PROVE  IInv'
<1> USE DEF Steady, memory, calls
<1>0. TypeOK /\ ReadingOK /\ InspectOK /\ (stage = "open" => (closed <=> ~buffer))
  BY DEF IInv, BackedOK, TypeOK
<1> USE <1>0
<1>1. ASSUME NEW o \in Operations, Enter(g, o) PROVE IInv'
  <2>1. Steady
    BY <1>1, Unused DEF Enter, Operations, Receiver
  <2>2. TypeOK'
    BY <1>1, <2>1 DEF Enter, Operations, Receiver, TypeOK
  <2>6. Receiver[o] = "absent" <=> o = "absent"
    BY DEF Operations, Receiver
  <2>3. ForgottenOK'
    BY <1>1, <2>1, <2>6, Unused DEF Enter, TypeOK, ForgottenOK, Reachable, FrameHolds
  <2>4. ReadingOK'
    BY <1>1, <2>1 DEF Enter, Operations, Receiver, ReadingOK, TypeOK
  <2>5. InspectOK'
    BY <1>1, <2>1 DEF Enter, Operations, Receiver, InspectOK, TypeOK
  <2> QED
    BY <2>1, <2>2, <2>3, <2>4, <2>5, SteadyPreserves
<1>2. CASE AnswerWithoutMemory(g)
  <2>1. Steady
    BY <1>2, Unused DEF AnswerWithoutMemory
  <2>6. /\ outcome' \in [Goroutines -> {"none", "ok", "err"}]
        /\ kept' \subseteq {"handle", "result", "absent", "cursor"}
    BY <1>2 DEF AnswerWithoutMemory, TypeOK
  <2>2. TypeOK'
    BY <1>2, <2>1, <2>6 DEF AnswerWithoutMemory, TypeOK
  <2>3. ForgottenOK'
    BY <1>2, <2>1, Unused DEF AnswerWithoutMemory, ForgottenOK, Reachable, FrameHolds
  <2>4. ReadingOK'
    BY <1>2, <2>1 DEF AnswerWithoutMemory, ReadingOK, TypeOK
  <2>5. InspectOK'
    BY <1>2, <2>1 DEF AnswerWithoutMemory, InspectOK, TypeOK
  <2> QED
    BY <2>1, <2>2, <2>3, <2>4, <2>5, SteadyPreserves
<1>3. CASE LoadBuffer(g)
  <2>1. Steady
    BY <1>3, Unused DEF LoadBuffer
  <2>6. /\ outcome' \in [Goroutines -> {"none", "ok", "err"}]
        /\ kept' \subseteq {"handle", "result", "absent", "cursor"}
    BY <1>3 DEF LoadBuffer, TypeOK
  <2>7. pc' \in [Goroutines -> {"idle", "enter", "reading", "paused", "resumed"}]
    BY <1>3 DEF LoadBuffer, TypeOK
  <2>2. TypeOK'
    BY <1>3, <2>1, <2>6, <2>7 DEF LoadBuffer, TypeOK
  <2>3. ForgottenOK'
    BY <1>3, <2>1, Unused DEF LoadBuffer, ForgottenOK, Reachable, FrameHolds
  <2>4. ReadingOK'
    BY <1>3, <2>1 DEF LoadBuffer, ReadingOK, TypeOK
  <2>5. InspectOK'
    BY <1>3, <2>1 DEF LoadBuffer, InspectOK, TypeOK
  <2> QED
    BY <2>1, <2>2, <2>3, <2>4, <2>5, SteadyPreserves
<1>4. CASE GoOnWithoutBuffer(g)
  <2>1. Steady
    BY <1>4, Unused DEF GoOnWithoutBuffer
  <2>6. /\ outcome' \in [Goroutines -> {"none", "ok", "err"}]
        /\ kept' \subseteq {"handle", "result", "absent", "cursor"}
    BY <1>4 DEF GoOnWithoutBuffer, TypeOK
  <2>7. pc' \in [Goroutines -> {"idle", "enter", "reading", "paused", "resumed"}]
    BY <1>4 DEF GoOnWithoutBuffer, TypeOK
  <2>2. TypeOK'
    BY <1>4, <2>1, <2>6, <2>7 DEF GoOnWithoutBuffer, TypeOK
  <2>3. ForgottenOK'
    BY <1>4, <2>1, Unused DEF GoOnWithoutBuffer, ForgottenOK, Reachable, FrameHolds
  <2>4. ReadingOK'
    BY <1>4, <2>1 DEF GoOnWithoutBuffer, ReadingOK, TypeOK
  <2>5. InspectOK'
    BY <1>4, <2>1 DEF GoOnWithoutBuffer, InspectOK, TypeOK
  <2> QED
    BY <2>1, <2>2, <2>3, <2>4, <2>5, SteadyPreserves
<1>5. CASE Finish(g)
  <2>6. PICK K \in SUBSET Retainable(g) : kept' = kept \cup K
    BY <1>5 DEF Finish
  <2>7. /\ K \subseteq {"result", "absent", "cursor"}
        /\ kept' = kept \cup K
        /\ op[g] # "absent"
    BY <1>5, <2>6 DEF Retainable, Finish, ReadingOK
  <2>1. Steady
    BY <1>5, Unused DEF Finish
  <2>2. TypeOK'
    BY <1>5, <2>7, <2>1 DEF Finish, TypeOK
  <2>3. ForgottenOK'
    BY <1>5, <2>7, <2>1, Unused DEF Finish, ForgottenOK, Reachable, FrameHolds
  <2>4. ReadingOK'
    BY <1>5, <2>7, <2>1 DEF Finish, ReadingOK, TypeOK
  <2>5. InspectOK'
    BY <1>5, <2>7, <2>1 DEF Finish, InspectOK, TypeOK
  <2> QED
    BY <2>1, <2>2, <2>3, <2>4, <2>5, SteadyPreserves
<1>6. CASE Yield(g)
  <2>1. Steady
    BY <1>6, Unused DEF Yield
  <2>2. TypeOK'
    BY <1>6, <2>1 DEF Yield, TypeOK
  <2>3. ForgottenOK'
    BY <1>6, <2>1, Unused DEF Yield, ForgottenOK, Reachable, FrameHolds
  <2>4. ReadingOK'
    BY <1>6, <2>1 DEF Yield, ReadingOK, TypeOK
  <2>5. InspectOK'
    BY <1>6, <2>1 DEF Yield, InspectOK, TypeOK
  <2> QED
    BY <2>1, <2>2, <2>3, <2>4, <2>5, SteadyPreserves
<1>7. CASE Resume(g)
  <2>1. Steady
    BY <1>7, Unused DEF Resume
  <2>2. TypeOK'
    BY <1>7, <2>1 DEF Resume, TypeOK
  <2>3. ForgottenOK'
    BY <1>7, <2>1, Unused DEF Resume, ForgottenOK, Reachable, FrameHolds
  <2>4. ReadingOK'
    BY <1>7, <2>1 DEF Resume, ReadingOK, TypeOK
  <2>5. InspectOK'
    BY <1>7, <2>1 DEF Resume, InspectOK, TypeOK
  <2> QED
    BY <2>1, <2>2, <2>3, <2>4, <2>5, SteadyPreserves
<1>8. CASE Stop(g)
  <2>1. Steady
    BY <1>8, Unused DEF Stop
  <2>2. TypeOK'
    BY <1>8, <2>1 DEF Stop, TypeOK
  <2>3. ForgottenOK'
    BY <1>8, <2>1, Unused DEF Stop, ForgottenOK, Reachable, FrameHolds
  <2>4. ReadingOK'
    BY <1>8, <2>1 DEF Stop, ReadingOK, TypeOK
  <2>5. InspectOK'
    BY <1>8, <2>1 DEF Stop, InspectOK, TypeOK
  <2> QED
    BY <2>1, <2>2, <2>3, <2>4, <2>5, SteadyPreserves
<1> QED
  BY <1>1, <1>2, <1>3, <1>4, <1>5, <1>6, <1>7, <1>8 DEF Using

\* Forgetting a reference, Close and the cleanup preserve the strengthening.
LEMMA ReleasePreserves == IInv /\ ((\E k \in kept : Drop(k)) \/ Close \/ Collector) => IInv'
<1> SUFFICES ASSUME IInv, (\E k \in kept : Drop(k)) \/ Close \/ Collector PROVE IInv'
  OBVIOUS
<1> USE DEF memory, calls
<1>1. ASSUME NEW k \in kept, Drop(k) PROVE IInv'
  <2>1. Steady
    BY <1>1, Unused DEF Steady, Drop
  <2>2. TypeOK'
    BY <1>1 DEF Drop, IInv, TypeOK
  <2>3. ForgottenOK'
    BY <1>1 DEF Drop, IInv, ForgottenOK, Reachable, FrameHolds
  <2>4. ReadingOK' /\ InspectOK'
    BY <1>1 DEF Drop, IInv, ReadingOK, InspectOK
  <2> QED
    BY <2>1, <2>2, <2>3, <2>4, SteadyPreserves
<1>2. CASE CloseBegin
  <2>5. closing' \in {"no", "munmap", "clear"}
    BY <1>2 DEF CloseBegin
  <2>6. TypeOK /\ UnmappedOnce
    BY DEF IInv
  <2>8. /\ hasMapped' = FALSE
        /\ UNCHANGED <<stage, memory, buffer, cleanup, closed, kept, calls>>
    BY <1>2 DEF CloseBegin
  <2>7. TypeOK'
    BY <2>5, <2>6, <2>8 DEF TypeOK
  <2>1. TypeOK' /\ UnmappedOnce'
    BY <1>2, <2>6, <2>7 DEF CloseBegin, UnmappedOnce
  <2>2. OpeningOK' /\ OwnershipOK' /\ BackedOK'
    BY <1>2 DEF CloseBegin, IInv, TypeOK, OpeningOK, OwnershipOK, BackedOK, ForgottenOK, Reachable
  <2>3. ForgottenOK'
    BY <1>2 DEF CloseBegin, IInv, TypeOK, ForgottenOK, Reachable, FrameHolds
  <2>4. ReadingOK' /\ InspectOK'
    BY <1>2 DEF CloseBegin, IInv, TypeOK, ReadingOK, InspectOK
  <2> QED
    BY <2>1, <2>2, <2>3, <2>4 DEF IInv
<1>3. CASE CloseMunmap
  <2>1. TypeOK' /\ UnmappedOnce'
    BY <1>3, MunmapEffect DEF CloseMunmap, IInv, TypeOK, OwnershipOK, UnmappedOnce
  <2>2. OpeningOK' /\ OwnershipOK' /\ BackedOK'
    BY <1>3, MunmapEffect DEF CloseMunmap, IInv, TypeOK, OpeningOK, OwnershipOK, BackedOK, ForgottenOK, Reachable
  <2>3. ForgottenOK'
    BY <1>3 DEF CloseMunmap, IInv, TypeOK, ForgottenOK, Reachable, FrameHolds
  <2>4. ReadingOK' /\ InspectOK'
    BY <1>3 DEF CloseMunmap, IInv, TypeOK, ReadingOK, InspectOK
  <2> QED
    BY <2>1, <2>2, <2>3, <2>4 DEF IInv
<1>4. CASE CloseClear
  <2>1. TypeOK' /\ UnmappedOnce'
    BY <1>4 DEF CloseClear, IInv, TypeOK, OwnershipOK, UnmappedOnce
  <2>2. OpeningOK' /\ OwnershipOK' /\ BackedOK'
    BY <1>4 DEF CloseClear, IInv, TypeOK, OpeningOK, OwnershipOK, BackedOK, ForgottenOK, Reachable
  <2>3. ForgottenOK'
    BY <1>4 DEF CloseClear, IInv, TypeOK, ForgottenOK, Reachable, FrameHolds
  <2>4. ReadingOK' /\ InspectOK'
    BY <1>4 DEF CloseClear, IInv, TypeOK, ReadingOK, InspectOK
  <2> QED
    BY <2>1, <2>2, <2>3, <2>4 DEF IInv
<1>5. CASE CleanupBegin
  <2>5. cleanup' \in {"none", "armed", "running", "done"}
    BY <1>5 DEF CleanupBegin
  <2>6. TypeOK /\ UnmappedOnce
    BY DEF IInv
  <2>8. /\ hasMapped' = FALSE
        /\ UNCHANGED <<stage, memory, buffer, closing, closed, kept, calls>>
    BY <1>5 DEF CleanupBegin
  <2>7. TypeOK'
    BY <2>5, <2>6, <2>8 DEF TypeOK
  <2>1. TypeOK' /\ UnmappedOnce'
    BY <1>5, <2>6, <2>7 DEF CleanupBegin, UnmappedOnce
  <2>2. OpeningOK' /\ OwnershipOK' /\ BackedOK'
    BY <1>5 DEF CleanupBegin, IInv, TypeOK, OpeningOK, OwnershipOK, BackedOK, ForgottenOK, Reachable
  <2>3. ForgottenOK'
    BY <1>5 DEF CleanupBegin, IInv, TypeOK, ForgottenOK, Reachable, FrameHolds
  <2>4. ReadingOK' /\ InspectOK'
    BY <1>5 DEF CleanupBegin, IInv, TypeOK, ReadingOK, InspectOK
  <2> QED
    BY <2>1, <2>2, <2>3, <2>4 DEF IInv
<1>6. CASE CleanupMunmap
  <2>1. TypeOK' /\ UnmappedOnce'
    BY <1>6, MunmapEffect DEF CleanupMunmap, IInv, TypeOK, OwnershipOK, UnmappedOnce
  <2>2. OpeningOK' /\ OwnershipOK' /\ BackedOK'
    BY <1>6, MunmapEffect DEF CleanupMunmap, IInv, TypeOK, OpeningOK, OwnershipOK, BackedOK, ForgottenOK, Reachable
  <2>3. ForgottenOK'
    BY <1>6 DEF CleanupMunmap, IInv, TypeOK, ForgottenOK, Reachable, FrameHolds
  <2>4. ReadingOK' /\ InspectOK'
    BY <1>6 DEF CleanupMunmap, IInv, TypeOK, ReadingOK, InspectOK
  <2> QED
    BY <2>1, <2>2, <2>3, <2>4 DEF IInv
<1> QED
  BY <1>1, <1>2, <1>3, <1>4, <1>5, <1>6 DEF Close, Collector

\* Every step preserves the strengthening.
LEMMA NextPreserves == IInv /\ [Next]_vars => IInv'
<1> SUFFICES ASSUME IInv, [Next]_vars PROVE IInv'
  OBVIOUS
<1>1. CASE Next
  BY <1>1, OpeningPreserves, UsingPreserves, ReleasePreserves DEF Next
<1>2. CASE UNCHANGED vars
  BY <1>2 DEF vars, IInv, TypeOK, OpeningOK, OwnershipOK, BackedOK, ForgottenOK,
              ReadingOK, InspectOK, UnmappedOnce, Reachable, FrameHolds
<1> QED
  BY <1>1, <1>2

\* The conjunction of the five facts above with the type and UnmappedOnce is inductive.
THEOREM InductiveInvariant == Spec => []IInv
BY InitIInv, NextPreserves, PTL DEF Spec

\* The Reader's fields and the calls keep their types.
THEOREM TypeCorrect == Spec => []TypeOK
<1>1. IInv => TypeOK
  BY DEF IInv
<1> QED
  BY <1>1, InductiveInvariant, PTL

\* A failed Open, Close and the cleanup together unmap the database at most once.
THEOREM AtMostOneMunmap == Spec => []UnmappedOnce
<1>1. IInv => UnmappedOnce
  BY DEF IInv
<1> QED
  BY <1>1, InductiveInvariant, PTL

\* No operation ever reads memory that was unmapped, whatever the application
\* keeps or forgets and whatever Close and the garbage collector do.
THEOREM MemorySafe == Spec => []NoReadAfterUnmap
<1>1. IInv => NoReadAfterUnmap
  <2> SUFFICES ASSUME IInv, NEW g \in Goroutines, pc[g] = "reading"
               PROVE  mem \in {"mapped", "heap"}
    BY DEF NoReadAfterUnmap
  <2>1. stage = "open" /\ buffer /\ closing = "no"
    BY DEF IInv, TypeOK, OpeningOK, ReadingOK
  <2>2. cleanup \notin {"running", "done"}
    BY DEF IInv, ForgottenOK, ReadingOK, InspectOK, Reachable, FrameHolds
  <2> QED
    BY <2>1, <2>2 DEF IInv, TypeOK, BackedOK
<1> QED
  BY <1>1, InductiveInvariant, PTL

\* Once Close has returned, an operation that needs the memory ends with an error, and
\* a Result that found nothing is answered as before.
THEOREM ClosedMeansError == Spec => ErrorAfterClose
<1> DEFINE Ends(g) == outcome'[g] \notin {outcome[g], "none"}
           Told(g) == outcome'[g] = IF op[g] = "absent" THEN "ok" ELSE "err"
           A == \A g \in Goroutines : closed /\ ~NeedsNoMemory(g) /\ Ends(g) => Told(g)
<1>1. IInv /\ [Next]_vars => [A]_vars
  <2> SUFFICES ASSUME IInv, Next PROVE A
    OBVIOUS
  <2> SUFFICES ASSUME NEW g \in Goroutines, closed, ~NeedsNoMemory(g), Ends(g)
               PROVE  Told(g)
    OBVIOUS
  <2> USE DEF IInv, TypeOK, calls
  <2>1. CASE Opening
    BY <2>1 DEF Opening, OpenFails, Mmap, HeapBuffer, ParseFails, Parse, StoreHasMapped,
                AddCleanup
  <2>2. ASSUME NEW h \in Goroutines, Using(h) PROVE Told(g)
    \* a closed Reader has no buffer, and nobody reads
    <3>1. ~buffer /\ pc[h] # "reading"
      BY DEF OpeningOK, BackedOK, ReadingOK
    <3>2. CASE AnswerWithoutMemory(h)
      BY <3>2 DEF AnswerWithoutMemory, NeedsNoMemory
    <3>3. CASE LoadBuffer(h)
      BY <3>1, <3>3 DEF LoadBuffer
    <3>4. CASE GoOnWithoutBuffer(h)
      BY <3>4 DEF GoOnWithoutBuffer, NeedsNoMemory
    <3>5. ASSUME NEW o \in Operations, Enter(h, o) PROVE FALSE
      BY <3>5 DEF Enter
    <3>6. CASE Finish(h) \/ Yield(h) \/ Resume(h) \/ Stop(h)
      BY <3>1, <3>6 DEF Finish, Yield, Resume, Stop
    <3> QED
      BY <2>2, <3>2, <3>3, <3>4, <3>5, <3>6 DEF Using
  <2>3. CASE (\E k \in kept : Drop(k)) \/ Close \/ Collector
    BY <2>3 DEF Drop, Close, CloseBegin, CloseMunmap, CloseClear, Collector,
                CleanupBegin, CleanupMunmap
  <2> QED
    BY <2>1, <2>2, <2>3 DEF Next
<1> QED
  BY <1>1, InductiveInvariant, PTL DEF Spec, ErrorAfterClose
=============================================================================
