---------------------------- MODULE StringCache ----------------------------
(***************************************************************************)
(* The lock-free string interning cache that every decode through a Reader *)
(* shares (internal/decoder/string_cache.go).  Each atomic access of       *)
(* internAt is one action, so goroutines interleave between any two loads  *)
(* or stores, as sync/atomic permits.                                      *)
(***************************************************************************)
EXTENDS Integers

CONSTANTS
    Goroutines,      \* the goroutines decoding through one Reader
    Offsets,         \* control-record offsets of the strings they decode
    Payload,         \* Payload[o]: the bytes of the string record at o
    Size,            \* Size[o]: their number
    Slots,           \* stringCacheSlots, 4096 in the code
    Mult,            \* the multiplier of stringCacheAlternateIndex, 0x9e37
    MinCachedLen,    \* 2 in the code
    MaxCachedLen,    \* 100 in the code
    Nil              \* a nil *cacheEntry; also "no call" and "no answer yet"

Strings == {Payload[o] : o \in Offsets}
Entry == [offset : Offsets, str : Strings]
Slot == 0 .. Slots - 1

ASSUME OffsetsAssumption == Offsets \subseteq Nat
\* 4096 is even; that it is a power of two matters only in that & mask is a modulus.
ASSUME SlotsAssumption == Slots \in Nat /\ Slots > 0 /\ Slots % 2 = 0
ASSUME MultAssumption == Mult \in Nat
ASSUME NilAssumption == Nil \notin Entry /\ Nil \notin Strings /\ Nil \notin Offsets
ASSUME SizeAssumption == /\ Size \in [Offsets -> Nat]
                         /\ MinCachedLen \in Nat /\ MaxCachedLen \in Nat

VARIABLES
    entries,         \* entries[s]: the admitted string, or Nil
    recentMisses,    \* recentMisses[s]: 1 + the last missing offset, 0 for none
    pc,              \* pc[g]: the access g performs next
    req,             \* req[g]: the offset g's latest call asks for
    target,          \* target[g]: the slot that call's entry pointer refers to
    ret,             \* ret[g]: what the call returned, Nil while it runs
    prev,            \* history: the offset of g's call before the latest
    recorded         \* history: offsets for which some call stored a miss

vars == <<entries, recentMisses, pc, req, target, ret, prev, recorded>>

Primary(o) == o % Slots

Odd(n) == IF n % 2 = 0 THEN n + 1 ELSE n    \* n | 1

Alternate(o) == (Primary(o) + Odd((o \div Slots) * Mult)) % Slots

Cacheable(o) == Size[o] >= MinCachedLen /\ Size[o] <= MaxCachedLen

\* The +1 bias keeps 0 as "no prior miss".  Mutant: without the bias.
unbiasedAdmissionValue(o) == o
admissionValue(o) == o + 1

\* A probe of slot s hits.  Mutant: an occupied slot is taken for a hit.
OccupiedSlotHits(g, s) == entries[s] # Nil
Hit(g, s) == entries[s] # Nil /\ entries[s].offset = req[g]

Init ==
    /\ entries = [s \in Slot |-> Nil]
    /\ recentMisses = [s \in Slot |-> 0]
    /\ pc = [g \in Goroutines |-> "idle"]
    /\ req = [g \in Goroutines |-> Nil]
    /\ target = [g \in Goroutines |-> 0]
    /\ ret = [g \in Goroutines |-> Nil]
    /\ prev = [g \in Goroutines |-> Nil]
    /\ recorded = {}

Goto(g, l) == pc' = [pc EXCEPT ![g] = l]

Return(g, str) == Goto(g, "idle") /\ ret' = [ret EXCEPT ![g] = str]

\* internAt is entered; only strings of a moderate size go through the cache.
Call(g, o) ==
    /\ pc[g] = "idle"
    /\ req' = [req EXCEPT ![g] = o]
    /\ prev' = [prev EXCEPT ![g] = req[g]]
    /\ ret' = [ret EXCEPT ![g] = Nil]
    /\ target' = [target EXCEPT ![g] = Primary(o)]
    /\ Goto(g, IF Cacheable(o) THEN "primary" ELSE "copy")
    /\ UNCHANGED <<entries, recentMisses, recorded>>

\* A string too short or too long to cache is copied and returned.
Copy(g) ==
    /\ pc[g] = "copy"
    /\ Return(g, Payload[req[g]])
    /\ UNCHANGED <<entries, recentMisses, req, target, prev, recorded>>

\* One probe: load slot s; a hit returns the cached string, a miss goes on.
Probe(g, s, miss) ==
    /\ IF Hit(g, s) THEN Return(g, entries[s].str)
                    ELSE Goto(g, miss) /\ UNCHANGED ret
    /\ UNCHANGED <<entries, recentMisses, req, target, prev, recorded>>

ProbePrimary(g) ==
    /\ pc[g] = "primary"
    /\ Probe(g, Primary(req[g]), "alternate")

ProbeAlternate(g) ==
    /\ pc[g] = "alternate"
    /\ Probe(g, Alternate(req[g]), "admit?")

\* Load recentMisses[alternate]: admit on a second consecutive miss there.
CheckAdmission(g) ==
    /\ pc[g] = "admit?"
    /\ Goto(g, IF recentMisses[Alternate(req[g])] = admissionValue(req[g])
               THEN "choose" ELSE "record")
    /\ UNCHANGED <<entries, recentMisses, req, target, ret, prev, recorded>>

\* Mutants: keep the primary slot even when occupied; try its neighbour instead
\* of the alternate slot; forget to mask the alternate index.
AlwaysPrimary(g) ==
    /\ pc[g] = "choose"
    /\ Goto(g, "store")
    /\ UNCHANGED <<entries, recentMisses, req, target, ret, prev, recorded>>
NextSlotOver(g) ==
    /\ pc[g] = "choose"
    /\ target' = [target EXCEPT ![g] = IF entries[@] # Nil
                                       THEN (@ + 1) % Slots ELSE @]
    /\ Goto(g, "store")
    /\ UNCHANGED <<entries, recentMisses, req, ret, prev, recorded>>

UnmaskedAlternate(g) ==
    /\ pc[g] = "choose"
    /\ target' = [target EXCEPT ![g] = IF entries[@] # Nil
                    THEN Primary(req[g]) + Odd((req[g] \div Slots) * Mult) ELSE @]
    /\ Goto(g, "store")
    /\ UNCHANGED <<entries, recentMisses, req, ret, prev, recorded>>

\* Load the primary slot again: an occupied one is left alone.
ChooseSlot(g) ==
    /\ pc[g] = "choose"
    /\ target' = [target EXCEPT ![g] = IF entries[@] # Nil
                                       THEN Alternate(req[g]) ELSE @]
    /\ Goto(g, "store")
    /\ UNCHANGED <<entries, recentMisses, req, ret, prev, recorded>>

\* Publish the new entry, whatever the slot holds by now.
StoreEntry(g) ==
    /\ pc[g] = "store"
    /\ entries' = [entries EXCEPT ![target[g]] =
                      [offset |-> req[g], str |-> Payload[req[g]]]]
    /\ Return(g, Payload[req[g]])
    /\ UNCHANGED <<recentMisses, req, target, prev, recorded>>

\* Mutant: the miss is recorded under the primary slot, where nobody looks.
RecordUnderPrimary(g) ==
    /\ pc[g] = "record"
    /\ recentMisses' = [recentMisses EXCEPT
                          ![Primary(req[g])] = admissionValue(req[g])]
    /\ recorded' = recorded \cup {req[g]}
    /\ Return(g, Payload[req[g]])
    /\ UNCHANGED <<entries, req, target, prev>>

\* Remember the miss and return the uncached copy.
RecordMiss(g) ==
    /\ pc[g] = "record"
    /\ recentMisses' = [recentMisses EXCEPT
                          ![Alternate(req[g])] = admissionValue(req[g])]
    /\ recorded' = recorded \cup {req[g]}
    /\ Return(g, Payload[req[g]])
    /\ UNCHANGED <<entries, req, target, prev>>

Step(g) ==
    \/ Copy(g) \/ ProbePrimary(g) \/ ProbeAlternate(g) \/ CheckAdmission(g)
    \/ ChooseSlot(g) \/ StoreEntry(g) \/ RecordMiss(g)

Next == \E g \in Goroutines : Step(g) \/ \E o \in Offsets : Call(g, o)

Spec == Init /\ [][Next]_vars

-----------------------------------------------------------------------------
(* Properties.                                                             *)

\* The cache arrays, the goroutines' registers and the histories have their types.
TypeOK ==
    /\ entries \in [Slot -> Entry \cup {Nil}]
    /\ recentMisses \in [Slot -> Nat]
    /\ pc \in [Goroutines -> {"idle", "copy", "primary", "alternate", "admit?",
                              "choose", "store", "record"}]
    /\ req \in [Goroutines -> Offsets \cup {Nil}]
    /\ target \in [Goroutines -> Slot]
    /\ ret \in [Goroutines -> Strings \cup {Nil}]
    /\ prev \in [Goroutines -> Offsets \cup {Nil}]
    /\ recorded \subseteq Offsets

\* internAt always returns the bytes of the record it was asked for, although
\* other goroutines displace the entries it probes between its loads.
Interned == INSTANCE Interning WITH req <- req, ret <- ret
ImplementsInterning == Interned!Spec

\* Every admitted entry pairs an offset with that record's own bytes and sits in
\* a slot that the next internAt for the offset probes, so no entry is dead weight.
EntriesReachable ==
    \A s \in Slot : entries[s] # Nil =>
        LET e == entries[s] IN
        /\ e.str = Payload[e.offset]
        /\ s \in {Primary(e.offset), Alternate(e.offset)}

\* A string is admitted only after an earlier call for it missed and said so;
\* in particular the zeroed miss array admits no first-time string, offset 0 included.
AdmittedAfterRecordedMiss ==
    \A s \in Slot : entries[s] # Nil => entries[s].offset \in recorded

\* Only one goroutine has used the cache so far.
Alone == \A g, h \in Goroutines : req[g] # Nil /\ req[h] # Nil => g = h

\* Alone, two calls in a row for a cacheable string leave it cached: the second
\* either hits or is the consecutive miss that admits it.
SecondCallInterns ==
    \A g \in Goroutines :
        (Alone /\ pc[g] = "idle" /\ req[g] # Nil /\ prev[g] = req[g] /\ Cacheable(req[g]))
            => \E s \in Slot : entries[s] # Nil /\ entries[s].offset = req[g]

\* Alone, admission displaces an entry only from the newcomer's
\* alternate slot and never makes a second copy of a string already cached.
DisplacesOnlyAlternate ==
    [][\A s \in Slot :
          Alone /\ entries'[s] # entries[s] =>
              /\ entries[s] # Nil => s = Alternate(entries'[s].offset)
              /\ \A t \in Slot : entries[t] # Nil =>
                     entries[t].offset # entries'[s].offset]_vars

=============================================================================
