------------------------- MODULE StringCacheProofs -------------------------
(***************************************************************************)
(* Proofs about StringCache for any number of goroutines, slots and        *)
(* strings: the cache's invariants, and that it implements Interning.      *)
(***************************************************************************)
EXTENDS StringCache, TLAPS

\* The odd step of stringCacheAlternateIndex keeps an index within the array.
LEMMA SlotsInRange ==
    ASSUME NEW o \in Offsets
    PROVE  Primary(o) \in Slot /\ Alternate(o) \in Slot
<1>1. o \in Nat
  BY OffsetsAssumption
<1>2. \A n \in Nat : n % Slots \in Slot
  BY SlotsAssumption DEF Slot
<1>3. o \div Slots \in Nat
  BY <1>1, SlotsAssumption
<1>4. (o \div Slots) * Mult \in Nat
  BY <1>3, MultAssumption
<1>5. Primary(o) \in Slot
  BY <1>1, <1>2 DEF Primary
<1>6. Primary(o) + Odd((o \div Slots) * Mult) \in Nat
  <2> DEFINE m == (o \div Slots) * Mult
  <2>1. m \in Nat /\ Primary(o) \in Nat
    BY <1>4, <1>5 DEF Slot
  <2> HIDE DEF m
  <2>2. Primary(o) + Odd(m) \in Nat
    BY <2>1 DEF Odd
  <2> QED
    BY <2>2 DEF m
<1> QED
  BY <1>2, <1>5, <1>6 DEF Alternate

\* A string has two different slots, so a collision in the primary slot leaves
\* the alternate one: the step of stringCacheAlternateIndex is odd, the number
\* of slots even.
THEOREM TwoSlots ==
    ASSUME NEW o \in Offsets
    PROVE  Alternate(o) # Primary(o)
<1> DEFINE k == Odd((o \div Slots) * Mult)
           p == Primary(o)
<1>1. (o \div Slots) * Mult \in Nat
  BY OffsetsAssumption, SlotsAssumption, MultAssumption
<1>2. k \in Nat /\ k % 2 = 1
  <2> DEFINE m == (o \div Slots) * Mult
  <2>1. m \in Nat
    BY <1>1
  <2> HIDE DEF m
  <2>2. Odd(m) \in Nat /\ Odd(m) % 2 = 1
    BY <2>1 DEF Odd
  <2> QED
    BY <2>2 DEF m
<1>3. p \in Nat /\ p < Slots
  BY SlotsInRange, SlotsAssumption DEF Slot
<1> HIDE DEF k, p
<1>4. SUFFICES ASSUME (p + k) % Slots = p PROVE FALSE
  BY DEF Alternate, k, p
<1> DEFINE q == (p + k) \div Slots
<1>5. q \in Int /\ p + k = q * Slots + p
  BY <1>2, <1>3, <1>4, SlotsAssumption
<1> HIDE DEF q
<1>6. PICK h \in Nat : Slots = 2 * h
  <2>1. Slots \div 2 \in Nat /\ Slots = 2 * (Slots \div 2)
    BY SlotsAssumption
  <2> QED
    BY <2>1
<1>7. k = 2 * (q * h)
  <2>1. k = q * (2 * h)
    BY <1>2, <1>3, <1>5, <1>6
  <2> QED
    BY <2>1, <1>5, <1>6
<1>8. q * h \in Int
  BY <1>5, <1>6
<1> QED
  BY <1>2, <1>7, <1>8

-----------------------------------------------------------------------------
\* What a goroutine knows while it runs internAt: it has an unanswered request,
\* its entry pointer refers to one of the two slots of its offset, and it is past
\* the admission check only if a miss of that offset was recorded.
RunningOK ==
    \A g \in Goroutines :
        /\ pc[g] # "idle" => req[g] \in Offsets /\ ret[g] = Nil
        /\ pc[g] = "idle" /\ req[g] # Nil => ret[g] = Payload[req[g]]
        /\ pc[g] \notin {"idle", "copy"} =>
               target[g] \in {Primary(req[g]), Alternate(req[g])}
        /\ pc[g] \in {"choose", "store"} => req[g] \in recorded

\* A slot of recentMisses holds 0 or the biased offset of a recorded miss.
MissesOK ==
    \A s \in Slot : recentMisses[s] = 0
                        \/ \E o \in recorded : recentMisses[s] = admissionValue(o)

IInv == TypeOK /\ EntriesReachable /\ AdmittedAfterRecordedMiss
               /\ RunningOK /\ MissesOK

\* newStringCache's zeroed arrays satisfy the invariant.
LEMMA InitIInv == Init => IInv
BY SlotsAssumption DEF Init, IInv, TypeOK, EntriesReachable, AdmittedAfterRecordedMiss,
       RunningOK, MissesOK, Slot

\* Entering internAt, whatever the size of the string, keeps the invariant.
LEMMA CallPreserves ==
    ASSUME IInv, NEW g \in Goroutines, NEW o \in Offsets, Call(g, o)
    PROVE  IInv'
<1>1. Primary(o) \in Slot
  BY SlotsInRange
<1>2. TypeOK'
  BY <1>1 DEF IInv, TypeOK, Call, Goto
<1>3. (EntriesReachable /\ AdmittedAfterRecordedMiss /\ MissesOK)'
  BY DEF IInv, EntriesReachable, AdmittedAfterRecordedMiss, MissesOK, Call
<1>4. RunningOK'
  BY NilAssumption DEF IInv, TypeOK, RunningOK, Call, Goto
<1> QED
  BY <1>2, <1>3, <1>4 DEF IInv

\* A load of entries[s] that hits or misses keeps the invariant; a hit answers with the
\* bytes of the record asked for because the entry found is a reachable one.
LEMMA ProbePreserves ==
    ASSUME IInv, NEW g \in Goroutines, NEW s \in Slot,
           NEW miss \in {"alternate", "admit?"},
           pc[g] \in {"primary", "alternate"}, Probe(g, s, miss)
    PROVE  IInv'
<1>1. req[g] \in Offsets
  BY DEF IInv, RunningOK
<1>2. Hit(g, s) => entries[s] \in Entry /\ entries[s].str = Payload[req[g]]
  BY DEF IInv, TypeOK, EntriesReachable, Hit
<1>3. TypeOK'
  BY <1>2 DEF IInv, TypeOK, Probe, Goto, Return, Entry
<1>4. (EntriesReachable /\ AdmittedAfterRecordedMiss /\ MissesOK)'
  BY DEF IInv, EntriesReachable, AdmittedAfterRecordedMiss, MissesOK, Probe
<1>5. RunningOK'
  BY <1>1, <1>2 DEF IInv, TypeOK, RunningOK, Probe, Goto, Return
<1> QED
  BY <1>3, <1>4, <1>5 DEF IInv

\* Every atomic access of internAt keeps the invariant.  Two of them matter: the
\* comparison with recentMisses shows that a miss of this very offset was recorded,
\* since the bias is injective and never 0; and the store overwrites a slot that the
\* new entry's offset probes.
LEMMA StepPreserves ==
    ASSUME IInv, NEW g \in Goroutines, Step(g)
    PROVE  IInv'
<1> USE DEF IInv
<1>0. pc[g] # "idle" => /\ req[g] \in Offsets
                        /\ Payload[req[g]] \in Strings
                        /\ Primary(req[g]) \in Slot
                        /\ Alternate(req[g]) \in Slot
  BY SlotsInRange DEF RunningOK, Strings
<1>1. CASE Copy(g)
  <2>1. TypeOK'
    BY <1>0, <1>1 DEF TypeOK, Copy, Goto, Return
  <2>2. (EntriesReachable /\ AdmittedAfterRecordedMiss /\ MissesOK)'
    BY <1>1 DEF EntriesReachable, AdmittedAfterRecordedMiss, MissesOK, Copy
  <2>3. RunningOK'
    BY <1>0, <1>1 DEF TypeOK, RunningOK, Copy, Goto, Return
  <2> QED
    BY <2>1, <2>2, <2>3
<1>2. CASE ProbePrimary(g)
  BY <1>0, <1>2, ProbePreserves DEF ProbePrimary
<1>3. CASE ProbeAlternate(g)
  BY <1>0, <1>3, ProbePreserves DEF ProbeAlternate
<1>4. CASE CheckAdmission(g)
  <2>1. TypeOK'
    BY <1>4 DEF TypeOK, CheckAdmission, Goto
  <2>2. (EntriesReachable /\ AdmittedAfterRecordedMiss /\ MissesOK)'
    BY <1>4 DEF EntriesReachable, AdmittedAfterRecordedMiss, MissesOK, CheckAdmission
  <2>3. recentMisses[Alternate(req[g])] = admissionValue(req[g]) => req[g] \in recorded
    <3>1. req[g] \in Nat /\ recorded \subseteq Nat
      BY <1>0, <1>4, OffsetsAssumption DEF TypeOK, CheckAdmission
    <3> QED
      BY <1>0, <1>4, <3>1 DEF MissesOK, CheckAdmission, admissionValue
  <2>4. RunningOK'
    BY <1>4, <2>3 DEF TypeOK, RunningOK, CheckAdmission, Goto
  <2> QED
    BY <2>1, <2>2, <2>4
<1>5. CASE ChooseSlot(g)
  <2>1. TypeOK'
    BY <1>0, <1>5 DEF TypeOK, ChooseSlot, Goto
  <2>2. (EntriesReachable /\ AdmittedAfterRecordedMiss /\ MissesOK)'
    BY <1>5 DEF EntriesReachable, AdmittedAfterRecordedMiss, MissesOK, ChooseSlot
  <2>3. RunningOK'
    BY <1>5 DEF TypeOK, RunningOK, ChooseSlot, Goto
  <2> QED
    BY <2>1, <2>2, <2>3
<1>6. CASE StoreEntry(g)
  <2> DEFINE e == [offset |-> req[g], str |-> Payload[req[g]]]
  <2>1. /\ e \in Entry /\ e # Nil /\ e.offset = req[g] /\ e.str = Payload[req[g]]
        /\ target[g] \in Slot
        /\ target[g] \in {Primary(req[g]), Alternate(req[g])}
        /\ req[g] \in recorded
    BY <1>0, <1>6, NilAssumption DEF TypeOK, RunningOK, StoreEntry, Entry
  <2>2. entries' = [entries EXCEPT ![target[g]] = e]
    BY <1>6 DEF StoreEntry
  <2> HIDE DEF e
  <2>3. TypeOK'
    BY <1>0, <1>6, <2>1, <2>2 DEF TypeOK, StoreEntry, Goto, Return
  <2>4. \A s \in Slot : entries'[s] = IF s = target[g] THEN e ELSE entries[s]
    BY <2>2 DEF TypeOK
  <2>5. EntriesReachable'
    BY <2>1, <2>4 DEF EntriesReachable
  <2>6. (AdmittedAfterRecordedMiss /\ MissesOK)'
    BY <1>6, <2>1, <2>4 DEF AdmittedAfterRecordedMiss, MissesOK, StoreEntry
  <2>7. RunningOK'
    BY <1>0, <1>6 DEF TypeOK, RunningOK, StoreEntry, Goto, Return
  <2> QED
    BY <2>3, <2>5, <2>6, <2>7
<1>7. CASE RecordMiss(g)
  <2>0. req[g] \in Offsets /\ Alternate(req[g]) \in Slot
    BY <1>0, <1>7 DEF RecordMiss
  <2>1. admissionValue(req[g]) \in Nat
    <3>1. req[g] \in Nat
      BY <2>0, OffsetsAssumption
    <3> QED
      BY <3>1 DEF admissionValue
  <2>2. TypeOK'
    BY <1>0, <1>7, <2>0, <2>1 DEF TypeOK, RecordMiss, Goto, Return
  <2>3. (EntriesReachable /\ AdmittedAfterRecordedMiss)'
    BY <1>7 DEF EntriesReachable, AdmittedAfterRecordedMiss, RecordMiss
  <2>4. MissesOK'
    BY <1>7, <2>0 DEF TypeOK, MissesOK, RecordMiss, admissionValue
  <2>5. RunningOK'
    BY <1>0, <1>7 DEF TypeOK, RunningOK, RecordMiss, Goto, Return
  <2> QED
    BY <2>2, <2>3, <2>4, <2>5
<1> QED
  BY <1>1, <1>2, <1>3, <1>4, <1>5, <1>6, <1>7 DEF Step

\* Any interleaving of the goroutines' accesses keeps the invariant.
LEMMA NextPreserves == IInv /\ [Next]_vars => IInv'
<1> SUFFICES ASSUME IInv, [Next]_vars PROVE IInv'
  OBVIOUS
<1>1. CASE Next
  BY <1>1, CallPreserves, StepPreserves DEF Next
<1>2. CASE UNCHANGED vars
  BY <1>2 DEF vars, IInv, TypeOK, EntriesReachable, AdmittedAfterRecordedMiss,
              RunningOK, MissesOK
<1> QED
  BY <1>1, <1>2

\* The invariant holds in every reachable state of the shared cache.
THEOREM InductiveInvariant == Spec => []IInv
BY InitIInv, NextPreserves, PTL DEF Spec

\* The arrays and registers of the cache keep their types.
THEOREM TypeCorrect == Spec => []TypeOK
<1>1. IInv => TypeOK
  BY DEF IInv
<1> QED
  BY <1>1, InductiveInvariant, PTL

\* Every entry of the cache is correct and findable, however internAt calls race.
THEOREM EntriesAlwaysReachable == Spec => []EntriesReachable
<1>1. IInv => EntriesReachable
  BY DEF IInv
<1> QED
  BY <1>1, InductiveInvariant, PTL

\* No string is admitted on its first miss, however internAt calls race.
THEOREM AdmissionNeedsMiss == Spec => []AdmittedAfterRecordedMiss
<1>1. IInv => AdmittedAfterRecordedMiss
  BY DEF IInv
<1> QED
  BY <1>1, InductiveInvariant, PTL

-----------------------------------------------------------------------------
\* A fresh cache is an interning service nobody has called.
LEMMA InitRefines == Init => Interned!Init
BY DEF Init, Interned!Init

\* An access of internAt is either the answer of Interning, with the bytes of the
\* record asked for, or invisible to callers.
LEMMA StepRefines == IInv /\ [Next]_vars => [Interned!Next]_(Interned!vars)
<1> SUFFICES ASSUME IInv, [Next]_vars PROVE [Interned!Next]_(Interned!vars)
  OBVIOUS
<1> USE DEF IInv
<1>1. ASSUME NEW g \in Goroutines, NEW o \in Offsets, Call(g, o)
      PROVE  Interned!Call(g, o)
  <2>1. ~Interned!Running(g)
    <3>1. pc[g] = "idle"
      BY <1>1 DEF Call
    <3>2. req[g] # Nil => ret[g] \in Strings
      BY <3>1 DEF RunningOK, TypeOK, Strings
    <3> QED
      BY <3>2, NilAssumption DEF Interned!Running
  <2> QED
    BY <1>1, <2>1 DEF Call, Interned!Call
<1>2. ASSUME NEW g \in Goroutines, pc[g] # "idle",
             ret' = [ret EXCEPT ![g] = Payload[req[g]]], UNCHANGED req
      PROVE  Interned!Return(g)
  BY <1>2, NilAssumption DEF RunningOK, Interned!Return, Interned!Running
<1>3. ASSUME NEW g \in Goroutines, NEW s \in Slot, NEW miss, pc[g] # "idle",
             Probe(g, s, miss)
      PROVE  Interned!Return(g) \/ UNCHANGED Interned!vars
  <2>1. CASE Hit(g, s)
    <3>1. entries[s].str = Payload[req[g]]
      BY <2>1 DEF EntriesReachable, Hit
    <3> QED
      BY <1>2, <1>3, <2>1, <3>1 DEF Probe, Return
  <2>2. CASE ~Hit(g, s)
    BY <1>3, <2>2 DEF Probe, Interned!vars
  <2> QED
    BY <2>1, <2>2
<1>4. ASSUME NEW g \in Goroutines, Step(g)
      PROVE  Interned!Return(g) \/ UNCHANGED Interned!vars
  <2>0. pc[g] # "idle" => Primary(req[g]) \in Slot /\ Alternate(req[g]) \in Slot
    BY SlotsInRange DEF RunningOK
  <2>1. CASE Copy(g)
    BY <1>2, <2>1 DEF Copy, Return
  <2>2. CASE ProbePrimary(g)
    BY <1>3, <2>0, <2>2 DEF ProbePrimary
  <2>3. CASE ProbeAlternate(g)
    BY <1>3, <2>0, <2>3 DEF ProbeAlternate
  <2>4. CASE CheckAdmission(g) \/ ChooseSlot(g)
    BY <2>4 DEF CheckAdmission, ChooseSlot, Interned!vars
  <2>5. CASE StoreEntry(g) \/ RecordMiss(g)
    BY <1>2, <2>5 DEF StoreEntry, RecordMiss, Return
  <2> QED
    BY <1>4, <2>1, <2>2, <2>3, <2>4, <2>5 DEF Step
<1>5. CASE Next
  BY <1>1, <1>4, <1>5 DEF Next, Interned!Next
<1>6. CASE UNCHANGED vars
  BY <1>6 DEF vars, Interned!vars
<1> QED
  BY <1>5, <1>6

\* internAt implements interning: whatever entries other goroutines publish or
\* displace between its accesses, a call returns its own record's bytes.
THEOREM Refinement == Spec => ImplementsInterning
BY InitRefines, StepRefines, InductiveInvariant, PTL
   DEF Spec, ImplementsInterning, Interned!Spec
-----------------------------------------------------------------------------
(* One goroutine on its own.  As long as nobody else has used the cache, what *)
(* a call has seen of the arrays is still true when it acts on it.            *)

Cached(o) == \E s \in Slot : entries[s] # Nil /\ entries[s].offset = o

\* The last call for o left it cached, or its miss on record.
Remembered(o) == Cached(o) \/ recentMisses[Alternate(o)] = admissionValue(o)

\* What the probes and loads of a call have established, by the access that is next.
Knows(g) ==
    /\ pc[g] = "copy" => ~Cacheable(req[g])
    /\ pc[g] = "idle" /\ Cacheable(req[g]) => Remembered(req[g])
    /\ prev[g] = req[g] /\ Cacheable(req[g]) => Remembered(req[g])
    /\ prev[g] = req[g] /\ Cacheable(req[g]) /\ pc[g] = "idle" => Cached(req[g])
    /\ pc[g] = "alternate" => ~(/\ entries[Primary(req[g])] # Nil
                                /\ entries[Primary(req[g])].offset = req[g])
    /\ pc[g] \in {"admit?", "choose", "store", "record"} => ~Cached(req[g])
    /\ pc[g] = "record" => recentMisses[Alternate(req[g])] # admissionValue(req[g])
    /\ pc[g] = "choose" => target[g] = Primary(req[g])
    /\ pc[g] \in {"primary", "alternate", "admit?"} => target[g] = Primary(req[g])
    /\ pc[g] = "store" => entries[target[g]] = Nil \/ target[g] = Alternate(req[g])

AloneOK == Alone => \A g \in Goroutines : req[g] # Nil => Knows(g)

\* A goroutine that was not alone is never alone again: requests are not taken back.
LEMMA AloneBefore ==
    ASSUME IInv, [Next]_vars, Alone'
    PROVE  Alone
<1>1. \A h \in Goroutines : req[h] # Nil => req'[h] # Nil
  <2>1. ASSUME NEW g \in Goroutines, NEW o \in Offsets, Call(g, o)
        PROVE  \A h \in Goroutines : req[h] # Nil => req'[h] # Nil
    BY <2>1, NilAssumption DEF IInv, TypeOK, Call
  <2>2. ASSUME NEW g \in Goroutines, Step(g) PROVE req' = req
    BY <2>2 DEF Step, Copy, ProbePrimary, ProbeAlternate, Probe, CheckAdmission,
                ChooseSlot, StoreEntry, RecordMiss
  <2> QED
    BY <2>1, <2>2 DEF Next, vars
<1> QED
  BY <1>1 DEF Alone

\* Entering internAt.
LEMMA CallKnows ==
    ASSUME IInv, AloneOK, NEW g \in Goroutines, NEW o \in Offsets, Call(g, o), Alone, Alone'
    PROVE  AloneOK'
<1>1. \A h \in Goroutines : req'[h] # Nil => h = g
  BY NilAssumption DEF Alone, Call, IInv, TypeOK
<1>2. UNCHANGED <<entries, recentMisses>> /\ req'[g] = o /\ prev'[g] = req[g]
  BY DEF Call, IInv, TypeOK
<1>3. /\ pc'[g] = IF Cacheable(o) THEN "primary" ELSE "copy"
      /\ target'[g] = Primary(o) /\ pc[g] = "idle"
  BY DEF Call, Goto, IInv, TypeOK
<1>4. req[g] = o => Knows(g)
  BY NilAssumption DEF AloneOK
<1>5. prev'[g] = o /\ Cacheable(o) => Remembered(o)'
  BY <1>2, <1>3, <1>4 DEF Knows, Remembered, Cached
<1>6. Knows(g)'
  BY <1>2, <1>3, <1>5 DEF Knows
<1> QED
  BY <1>1, <1>6 DEF AloneOK

\* One access of a goroutine on its own.
LEMMA StepKnows ==
    ASSUME IInv, IInv', AloneOK, NEW g \in Goroutines, Step(g), Alone, Alone'
    PROVE  AloneOK'
<1> DEFINE o == req[g]
<1>0. /\ pc[g] # "idle" /\ o \in Offsets /\ o # Nil /\ Knows(g)
      /\ Primary(o) \in Slot /\ Alternate(o) \in Slot
  <2>1. pc[g] # "idle"
    BY DEF Step, Copy, ProbePrimary, ProbeAlternate, CheckAdmission, ChooseSlot,
           StoreEntry, RecordMiss
  <2> QED
    BY <2>1, NilAssumption, SlotsInRange DEF IInv, RunningOK, AloneOK
<1>1. /\ UNCHANGED <<req, prev>>
      /\ \A h \in Goroutines : req'[h] # Nil => h = g
  <2>1. UNCHANGED <<req, prev>>
    BY DEF Step, Copy, ProbePrimary, ProbeAlternate, Probe, CheckAdmission,
           ChooseSlot, StoreEntry, RecordMiss
  <2> QED
    BY <1>0, <2>1 DEF Alone
<1>2. SUFFICES Knows(g)'
  BY <1>1 DEF AloneOK
<1>3. UNCHANGED <<entries, recentMisses>> =>
          (Cached(o) <=> Cached(o)') /\ (Remembered(o) <=> Remembered(o)')
  BY <1>1 DEF Cached, Remembered
<1>4. Cached(o) <=> \/ entries[Primary(o)] # Nil /\ entries[Primary(o)].offset = o
                    \/ entries[Alternate(o)] # Nil /\ entries[Alternate(o)].offset = o
  BY <1>0 DEF Cached, IInv, EntriesReachable
<1>5. CASE Copy(g)
  BY <1>0, <1>1, <1>5 DEF Copy, Return, Goto, Knows, IInv, TypeOK
<1>6. ASSUME NEW s \in Slot, NEW miss \in {"alternate", "admit?"}, Probe(g, s, miss),
             Hit(g, s)
      PROVE  Knows(g)'
  <2>1. pc'[g] = "idle" /\ UNCHANGED <<entries, recentMisses, target>>
    BY <1>6 DEF Probe, Return, Goto, IInv, TypeOK
  <2>2. Cached(o)
    BY <1>6 DEF Hit, Cached
  <2>3. Cached(o)' /\ Remembered(o)'
    BY <1>3, <2>1, <2>2 DEF Remembered
  <2> QED
    BY <1>1, <2>1, <2>3 DEF Knows
<1>7. ASSUME NEW s \in Slot, NEW miss, Probe(g, s, miss), ~Hit(g, s)
      PROVE  pc'[g] = miss /\ UNCHANGED <<entries, recentMisses, target>>
  BY <1>7 DEF Probe, Goto, IInv, TypeOK
<1>8. CASE ProbePrimary(g)
  <2>1. Probe(g, Primary(o), "alternate") /\ pc[g] = "primary"
    BY <1>8 DEF ProbePrimary
  <2>2. CASE ~Hit(g, Primary(o))
    BY <1>0, <1>1, <1>3, <1>7, <2>1, <2>2 DEF Hit, Knows
  <2> QED
    BY <1>0, <1>6, <2>1, <2>2
<1>9. CASE ProbeAlternate(g)
  <2>1. Probe(g, Alternate(o), "admit?") /\ pc[g] = "alternate"
    BY <1>9 DEF ProbeAlternate
  <2>2. CASE ~Hit(g, Alternate(o))
    <3>1. ~Cached(o)
      BY <1>0, <1>4, <2>1, <2>2 DEF Hit, Knows
    <3> QED
      BY <1>0, <1>1, <1>3, <1>7, <2>1, <2>2, <3>1 DEF Knows
  <2> QED
    BY <1>0, <1>6, <2>1, <2>2
<1>10. CASE CheckAdmission(g)
  <2>1. /\ pc[g] = "admit?" /\ UNCHANGED <<entries, recentMisses, target>>
        /\ pc'[g] = IF recentMisses[Alternate(o)] = admissionValue(o)
                    THEN "choose" ELSE "record"
    BY <1>10 DEF CheckAdmission, Goto, IInv, TypeOK
  <2> QED
    BY <1>0, <1>1, <1>3, <2>1 DEF Knows
<1>11. CASE ChooseSlot(g)
  <2>1. /\ pc[g] = "choose" /\ UNCHANGED <<entries, recentMisses>> /\ pc'[g] = "store"
        /\ target'[g] = IF entries[target[g]] # Nil THEN Alternate(o) ELSE target[g]
    BY <1>11 DEF ChooseSlot, Goto, IInv, TypeOK
  <2> QED
    BY <1>0, <1>1, <1>3, <2>1 DEF Knows
<1>12. CASE StoreEntry(g)
  <2>1. /\ pc'[g] = "idle" /\ target[g] \in Slot
        /\ entries'[target[g]] = [offset |-> o, str |-> Payload[o]]
    BY <1>12 DEF StoreEntry, Return, Goto, IInv, TypeOK
  <2>2. [offset |-> o, str |-> Payload[o]] \in Entry
    BY <1>0 DEF Entry, Strings
  <2>3. Cached(o)'
    BY <1>1, <2>1, <2>2, NilAssumption DEF Cached
  <2> QED
    BY <1>1, <2>1, <2>3 DEF Knows, Remembered
<1>13. CASE RecordMiss(g)
  <2>1. /\ pc'[g] = "idle" /\ pc[g] = "record"
        /\ recentMisses'[Alternate(o)] = admissionValue(o)
    BY <1>0, <1>13 DEF RecordMiss, Return, Goto, IInv, TypeOK
  <2>2. Remembered(o)'
    BY <1>1, <2>1 DEF Remembered
  <2>3. ~(prev[g] = o /\ Cacheable(o))
    BY <1>0, <2>1 DEF Knows, Remembered
  <2> QED
    BY <1>1, <2>1, <2>2, <2>3 DEF Knows
<1> QED
  BY <1>5, <1>8, <1>9, <1>10, <1>11, <1>12, <1>13 DEF Step

\* The knowledge of a lone goroutine is never outdated.
LEMMA NextKnows == IInv /\ IInv' /\ AloneOK /\ [Next]_vars => AloneOK'
<1> SUFFICES ASSUME IInv, IInv', AloneOK, [Next]_vars, Alone' PROVE AloneOK'
  BY DEF AloneOK
<1>1. Alone
  BY AloneBefore
<1>2. CASE Next
  BY <1>1, <1>2, CallKnows, StepKnows DEF Next
<1>3. CASE UNCHANGED vars
  BY <1>1, <1>3 DEF vars, AloneOK, Knows, Cached, Remembered
<1> QED
  BY <1>2, <1>3

\* A lone goroutine's knowledge holds in every reachable state.
THEOREM LoneInvariant == Spec => []AloneOK
<1>1. Init => AloneOK
  BY DEF Init, AloneOK
<1> QED
  BY <1>1, NextKnows, InductiveInvariant, PTL DEF Spec

\* The second of two calls in a row finds the string cached or admits it, for any
\* number and any collision of strings, as long as no other goroutine interferes.
THEOREM SecondCallAlwaysInterns == Spec => []SecondCallInterns
<1>1. AloneOK => SecondCallInterns
  BY DEF AloneOK, Knows, Cached, SecondCallInterns
<1> QED
  BY <1>1, LoneInvariant, PTL

\* Admission by a lone goroutine displaces at most the entry in the newcomer's
\* alternate slot and makes no second copy of a string.
THEOREM AdmissionDisplacesOnlyAlternate == Spec => DisplacesOnlyAlternate
<1> DEFINE Displaces ==
        \A s \in Slot :
          Alone /\ entries'[s] # entries[s] =>
              /\ entries[s] # Nil => s = Alternate(entries'[s].offset)
              /\ \A t \in Slot : entries[t] # Nil =>
                     entries[t].offset # entries'[s].offset
<1>1. IInv /\ AloneOK /\ [Next]_vars => [Displaces]_vars
  <2> SUFFICES ASSUME IInv, AloneOK, Next, Alone,
                      NEW s \in Slot, entries'[s] # entries[s]
               PROVE  /\ entries[s] # Nil => s = Alternate(entries'[s].offset)
                      /\ \A t \in Slot : entries[t] # Nil =>
                             entries[t].offset # entries'[s].offset
    OBVIOUS
  <2>1. PICK g \in Goroutines : StoreEntry(g)
    BY DEF Next, Call, Step, Copy, ProbePrimary, ProbeAlternate, Probe, CheckAdmission,
           ChooseSlot, RecordMiss
  <2>2. pc[g] = "store" /\ req[g] # Nil /\ Knows(g)
    BY <2>1, NilAssumption DEF StoreEntry, IInv, RunningOK, AloneOK
  <2>3. s = target[g] /\ entries'[s].offset = req[g]
    BY <2>1 DEF StoreEntry, IInv, TypeOK
  <2> QED
    BY <2>2, <2>3 DEF Knows, Cached
<1>2. [][Displaces]_vars <=> DisplacesOnlyAlternate
  BY DEF DisplacesOnlyAlternate
<1> HIDE DEF Displaces
<1>3. IInv /\ AloneOK /\ [Next]_vars => [Displaces]_vars
  BY <1>1
<1> QED
  BY <1>2, <1>3, LoneInvariant, InductiveInvariant, PTL DEF Spec
=============================================================================
