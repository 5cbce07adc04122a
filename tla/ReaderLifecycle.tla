-------------------------- MODULE ReaderLifecycle --------------------------
(***************************************************************************)
(* The life of one Reader and of the memory behind it: Open or OpenBytes,  *)
(* concurrent lookups, decodes, iterations and verifications, values the   *)
(* application retains, Close, and the cleanup the garbage collector runs  *)
(* when nothing refers to the Reader any more (reader.go, result.go,       *)
(* traverse.go, verifier.go, mmap_*.go).  What the operations compute is   *)
(* left to the other modules; here they load r.buffer and then read the    *)
(* memory behind it for a while.                                           *)
(***************************************************************************)
EXTENDS Naturals

CONSTANTS
    Goroutines   \* goroutines using the Reader

VARIABLES
    stage,       \* progress of Open: "start", "parse", "publish", "arm", "open", "failed"
    mem,         \* memory behind the database: "none", "mapped", "unmapped", "heap"
    buffer,      \* r.buffer # nil
    emptyStart,  \* some search starts at the empty record: node_count is 0, or IPv4
                 \* addresses have no subtree (r.ipv4Start = node_count)
    hasMapped,   \* the shared atomic.Bool r.hasMappedFile
    cleanup,     \* runtime.AddCleanup: "none", "armed", "running", "done"
    closing,     \* progress of Close: "no", "munmap", "clear"
    closed,      \* history: some Close has returned
    munmaps,     \* history: number of munmap calls on the database
    munmapErr,   \* history: munmap reported an error
    kept,        \* what the application refers to: "handle", "result", "cursor", and
                 \* "absent", a Result that found nothing and refers to no Reader
    pc,          \* pc[g]: "idle", "enter" (before r.buffer is loaded), "reading", and for
                 \* an iterator "paused" at a yield and "resumed" from it
    op,          \* op[g]: the operation g runs or ran last
    outcome      \* outcome[g]: "none" while it runs, then "ok" or "err"

memory == <<mem, munmaps, munmapErr, emptyStart>>
calls == <<pc, op, outcome>>
vars == <<stage, mem, buffer, emptyStart, hasMapped, cleanup, closing, closed,
          munmaps, munmapErr, kept, pc, op, outcome>>

Init ==
    /\ stage = "start" /\ mem = "none" /\ buffer = FALSE /\ hasMapped = FALSE
    /\ emptyStart \in BOOLEAN
    /\ cleanup = "none" /\ closing = "no" /\ closed = FALSE
    /\ munmaps = 0 /\ munmapErr = FALSE /\ kept = {}
    /\ pc = [g \in Goroutines |-> "idle"]
    /\ op = [g \in Goroutines |-> "none"]
    /\ outcome = [g \in Goroutines |-> "none"]

-----------------------------------------------------------------------------
(* Opening.  Nobody else knows the Reader until Open returns.               *)

\* os.Open, Stat or mmap fails, the file is empty, or its size is not an int;
\* on Windows a partial view is unmapped again inside mmap.
OpenFails ==
    /\ stage = "start"
    /\ stage' = "failed"
    /\ UNCHANGED <<memory, buffer, hasMapped, cleanup, closing, closed, kept, calls>>

Mmap ==
    /\ stage = "start"
    /\ stage' = "parse" /\ mem' = "mapped"
    /\ UNCHANGED <<munmaps, munmapErr, emptyStart, buffer, hasMapped, cleanup, closing,
                   closed, kept, calls>>

\* mmap is unsupported and openFallback reads the file into the heap, which may
\* fail halfway; or the caller brings the bytes to OpenBytes itself.
HeapBuffer ==
    /\ stage = "start"
    /\ mem' = "heap" /\ stage' \in {"parse", "failed"}
    /\ UNCHANGED <<munmaps, munmapErr, emptyStart, buffer, hasMapped, cleanup, closing,
                   closed, kept, calls>>

\* munmap itself, as Open, Close and the cleanup call it.
Munmap ==
    /\ munmaps' = munmaps + 1 /\ UNCHANGED emptyStart
    /\ \/ mem' = "unmapped" /\ UNCHANGED munmapErr
       \/ munmapErr' = TRUE /\ UNCHANGED mem

\* Mutant: a mapped database that does not parse is forgotten.
ParseFailsForgetting ==
    /\ stage = "parse"
    /\ stage' = "failed"
    /\ UNCHANGED <<memory, buffer, hasMapped, cleanup, closing, closed, kept, calls>>

\* OpenBytes rejects the database: a mapping is returned to the system.
ParseFails ==
    /\ stage = "parse"
    /\ stage' = "failed"
    /\ IF mem = "mapped" THEN Munmap ELSE UNCHANGED memory
    /\ UNCHANGED <<buffer, hasMapped, cleanup, closing, closed, kept, calls>>

\* OpenBytes accepts it.  A Reader on heap memory is returned as it is.
Parse ==
    /\ stage = "parse"
    /\ buffer' = TRUE
    /\ IF mem = "mapped" THEN stage' = "publish" /\ UNCHANGED kept
                         ELSE stage' = "open" /\ kept' = {"handle"}
    /\ UNCHANGED <<memory, hasMapped, cleanup, closing, closed, calls>>

StoreHasMapped ==
    /\ stage = "publish"
    /\ stage' = "arm" /\ hasMapped' = TRUE
    /\ UNCHANGED <<memory, buffer, cleanup, closing, closed, kept, calls>>

AddCleanup ==
    /\ stage = "arm"
    /\ stage' = "open" /\ cleanup' = "armed" /\ kept' = {"handle"}
    /\ UNCHANGED <<memory, buffer, hasMapped, closing, closed, calls>>

-----------------------------------------------------------------------------
(* Operations.  Their frames refer to the Reader until runtime.KeepAlive.   *)
(* A cursor refers to it by a pointer to the DataDecoder inside r.decoder,   *)
(* which PrepareForConcurrentUse hands to callbacks.  cursor.go has no       *)
(* KeepAlive: a cursor operation that returns a successor or wraps an error  *)
(* uses c.decoder once more after its last read, which keeps the Reader      *)
(* alive until then, but Kind, Offset and CheckMaxSize ("inspect") do not.   *)

\* Mutant: without KeepAlive the last use of r is the load of r.buffer.
FrameHoldsUntilLoad(g) ==
    pc[g] \in {"enter", "paused", "resumed"} /\ op[g] \notin {"absent", "inspect"}

\* g's frame refers to the Reader: not that of a Result without one, and not
\* that of an inspection, which leaves it to its caller (see Drop).
FrameHolds(g) == pc[g] # "idle" /\ op[g] \notin {"absent", "inspect"}

\* The garbage collector finds a reference to the Reader.
Reachable ==
    \/ stage \notin {"open", "failed"}
    \/ closing # "no"
    \/ kept \ {"absent"} # {}
    \/ \E g \in Goroutines : FrameHolds(g)

\* What an operation is called on: "decode" is Decode or DecodePath of a Result that
\* refers to a Reader, "absent" of one that found nothing; "cursor" reads a value or
\* a container's header and returns a successor, "inspect" returns none, "traverse"
\* moves through a container already entered (MapCursor, SliceCursor, MapReader).
Receiver == [lookup |-> "handle", networks |-> "handle", verify |-> "handle",
             decode |-> "result", absent |-> "absent",
             cursor |-> "cursor", inspect |-> "cursor", traverse |-> "cursor"]
Operations == DOMAIN Receiver

\* No use may overlap Close (the documented contract); a use after it is answered.
Enter(g, o) ==
    /\ pc[g] = "idle" /\ closing = "no" /\ Receiver[o] \in kept
    /\ pc' = [pc EXCEPT ![g] = "enter"]
    /\ op' = [op EXCEPT ![g] = o]
    /\ outcome' = [outcome EXCEPT ![g] = "none"]
    /\ UNCHANGED <<stage, memory, buffer, hasMapped, cleanup, closing, closed, kept>>

\* Answered without a look at the memory or at r.buffer: Decode and DecodePath of a
\* Result that found nothing succeed and leave the destination alone, those of a
\* Result that carries its lookup's error return it, and the bookkeeping of a
\* container's cursors succeeds or fails on what they hold themselves.
AnswerWithoutMemory(g) ==
    /\ pc[g] = "enter"
    /\ \/ op[g] = "absent" /\ outcome' = [outcome EXCEPT ![g] = "ok"] /\ UNCHANGED kept
       \/ op[g] = "decode" /\ outcome' = [outcome EXCEPT ![g] = "err"] /\ UNCHANGED kept
       \/ /\ op[g] = "traverse"
          /\ \E res \in {"ok", "err"} : outcome' = [outcome EXCEPT ![g] = res]
          /\ kept' \in {kept, kept \cup {"cursor"}}
    /\ pc' = [pc EXCEPT ![g] = "idle"]
    /\ UNCHANGED <<stage, memory, buffer, hasMapped, cleanup, closing, closed, op>>

\* r.buffer, or the decoder's copy of it, is loaded and the memory behind it read; a
\* closed Reader is reported, to the consumer of an iterator begun before Close
\* possibly more than once and in a Result that refers to the Reader.
LoadBuffer(g) ==
    /\ pc[g] \in {"enter", "resumed"} /\ op[g] \notin {"absent", "traverse"}
    /\ IF buffer
       THEN pc' = [pc EXCEPT ![g] = "reading"] /\ UNCHANGED <<outcome, kept>>
       ELSE /\ outcome' = [outcome EXCEPT ![g] = "err"]
            /\ \/ pc' = [pc EXCEPT ![g] = "idle"] /\ UNCHANGED kept
               \/ /\ pc[g] = "resumed" /\ pc' = [pc EXCEPT ![g] = "paused"]
                  /\ kept' \in {kept, kept \cup {"result"}}
    /\ UNCHANGED <<stage, memory, buffer, hasMapped, cleanup, closing, closed, op>>

\* An iterator needs no memory for what is left on its stack when it is resumed, nor
\* for a search that starts at the empty record, closed or not: it yields a network
\* without data or ends.
GoOnWithoutBuffer(g) ==
    /\ op[g] = "networks"
    /\ pc[g] = "resumed" \/ (pc[g] = "enter" /\ emptyStart)
    /\ \/ /\ pc' = [pc EXCEPT ![g] = "paused"] /\ UNCHANGED outcome
          /\ kept' \in {kept, kept \cup {"absent"}}
       \/ /\ pc' = [pc EXCEPT ![g] = "idle"] /\ UNCHANGED kept
          /\ outcome' = [outcome EXCEPT ![g] = "ok"]
    /\ UNCHANGED <<stage, memory, buffer, hasMapped, cleanup, closing, closed, op>>

\* Mutant: a callback keeps the pooled Decoder it was lent.
RetainableDecoder(g) ==
    CASE op[g] = "lookup" -> {"result", "absent"}
      [] op[g] \in {"decode", "cursor"} -> {"cursor", "decoder"}
      [] OTHER -> {}

\* What the caller may take from g's operation: Lookup and LookupOffset hand out a
\* Result, which refers to the Reader when it found something; decoding may run a
\* callback that keeps its cursor.
Retainable(g) ==
    CASE op[g] = "lookup" -> {"result", "absent"}
      [] op[g] \in {"decode", "cursor"} -> {"cursor"}
      [] OTHER -> {}

\* KeepAlive and return, with an answer or with a decoding error.
Finish(g) ==
    /\ pc[g] = "reading"
    /\ pc' = [pc EXCEPT ![g] = "idle"]
    /\ \E res \in {"ok", "err"} : outcome' = [outcome EXCEPT ![g] = res]
    /\ \E K \in SUBSET Retainable(g) : kept' = kept \cup K
    /\ UNCHANGED <<stage, memory, buffer, hasMapped, cleanup, closing, closed, op>>

\* The iterator yields a Result, which the consumer may keep, and waits.
Yield(g) ==
    /\ pc[g] = "reading" /\ op[g] = "networks"
    /\ pc' = [pc EXCEPT ![g] = "paused"]
    /\ kept' \in {kept, kept \cup {"result"}, kept \cup {"absent"}}
    /\ UNCHANGED <<stage, memory, buffer, hasMapped, cleanup, closing, closed, op, outcome>>

\* The consumer asks for more: the loop body loads r.buffer anew.
Resume(g) ==
    /\ pc[g] = "paused" /\ closing = "no"
    /\ pc' = [pc EXCEPT ![g] = "resumed"]
    /\ UNCHANGED <<stage, memory, buffer, hasMapped, cleanup, closing, closed, kept, op, outcome>>

\* The consumer breaks out of the loop.
Stop(g) ==
    /\ pc[g] = "paused"
    /\ pc' = [pc EXCEPT ![g] = "idle"]
    /\ UNCHANGED <<stage, memory, buffer, hasMapped, cleanup, closing, closed, kept, op, outcome>>

\* The application forgets something it kept; a cursor not before it has inspected
\* it, the caller's part in keeping the Reader alive: CheckMaxSize, the one inspection
\* made in this repository, is followed by a read of the same cursor.
Drop(k) ==
    /\ k \in kept
    /\ k = "cursor" => \A g \in Goroutines : pc[g] # "idle" => op[g] # "inspect"
    /\ kept' = kept \ {k}
    /\ UNCHANGED <<stage, memory, buffer, hasMapped, cleanup, closing, closed, calls>>

-----------------------------------------------------------------------------
(* Close, while no operation is running; an iterator may be paused.         *)
CloseBegin ==
    /\ "handle" \in kept /\ closing = "no"
    /\ \A g \in Goroutines : pc[g] \in {"idle", "paused"}
    /\ hasMapped' = FALSE                                \* CompareAndSwap(true, false)
    /\ closing' = IF hasMapped THEN "munmap" ELSE "clear"
    /\ UNCHANGED <<stage, memory, buffer, cleanup, closed, kept, calls>>

CloseMunmap ==
    /\ closing = "munmap"
    /\ Munmap
    /\ closing' = "clear"
    /\ UNCHANGED <<stage, buffer, hasMapped, cleanup, closed, kept, calls>>

\* Mutant: the slice survives Close.
CloseKeepsBuffer ==
    /\ closing = "clear"
    /\ closed' = TRUE /\ closing' = "no"
    /\ UNCHANGED <<stage, memory, buffer, hasMapped, cleanup, kept, calls>>

\* r.buffer, r.decoder and r.dataSectionSize are zeroed.
CloseClear ==
    /\ closing = "clear"
    /\ buffer' = FALSE /\ closed' = TRUE /\ closing' = "no"
    /\ UNCHANGED <<stage, memory, hasMapped, cleanup, kept, calls>>

-----------------------------------------------------------------------------
(* The cleanup, which the runtime starts once the Reader is unreachable.    *)

\* Mutant: the cleanup unmaps without asking whether Close did.
CleanupAlways ==
    /\ cleanup = "armed" /\ ~Reachable
    /\ cleanup' = "running"
    /\ hasMapped' = FALSE
    /\ UNCHANGED <<stage, memory, buffer, closing, closed, kept, calls>>

CleanupBegin ==
    /\ cleanup = "armed" /\ ~Reachable
    /\ hasMapped' = FALSE                                \* CompareAndSwap(true, false)
    /\ cleanup' = IF hasMapped THEN "running" ELSE "done"
    /\ UNCHANGED <<stage, memory, buffer, closing, closed, kept, calls>>

\* Mutant: the cleanup returns without unmapping.
CleanupSkips ==
    /\ cleanup = "running"
    /\ cleanup' = "done"
    /\ UNCHANGED <<stage, memory, buffer, hasMapped, closing, closed, kept, calls>>

CleanupMunmap ==
    /\ cleanup = "running"
    /\ Munmap
    /\ cleanup' = "done"
    /\ UNCHANGED <<stage, buffer, hasMapped, closing, closed, kept, calls>>

Opening == OpenFails \/ Mmap \/ HeapBuffer \/ ParseFails \/ Parse \/ StoreHasMapped
               \/ AddCleanup

Using(g) ==
    \/ \E o \in Operations : Enter(g, o)
    \/ AnswerWithoutMemory(g) \/ LoadBuffer(g) \/ GoOnWithoutBuffer(g)
    \/ Finish(g) \/ Yield(g) \/ Resume(g) \/ Stop(g)

Close == CloseBegin \/ CloseMunmap \/ CloseClear

Collector == CleanupBegin \/ CleanupMunmap

Next == Opening \/ (\E g \in Goroutines : Using(g)) \/ (\E k \in kept : Drop(k))
            \/ Close \/ Collector

Spec == Init /\ [][Next]_vars

\* Open, Close, the cleanup and the bodies of operations run to their end when
\* scheduled; nothing obliges the application to call, resume or drop anything.
Fairness ==
    /\ WF_vars(Opening) /\ WF_vars(CloseMunmap) /\ WF_vars(CloseClear)
    /\ WF_vars(Collector)
    /\ \A g \in Goroutines : /\ WF_vars(AnswerWithoutMemory(g))
                             /\ WF_vars(LoadBuffer(g)) /\ WF_vars(Finish(g))

FairSpec == Spec /\ Fairness

-----------------------------------------------------------------------------
(* Properties.                                                             *)

\* The Reader's fields, the application's references and the calls have their types.
TypeOK ==
    /\ stage \in {"start", "parse", "publish", "arm", "open", "failed"}
    /\ mem \in {"none", "mapped", "unmapped", "heap"}
    /\ buffer \in BOOLEAN /\ hasMapped \in BOOLEAN
    /\ emptyStart \in BOOLEAN
    /\ cleanup \in {"none", "armed", "running", "done"}
    /\ closing \in {"no", "munmap", "clear"} /\ closed \in BOOLEAN
    /\ munmaps \in Nat /\ munmapErr \in BOOLEAN
    /\ kept \subseteq {"handle", "result", "absent", "cursor"}
    /\ pc \in [Goroutines -> {"idle", "enter", "reading", "paused", "resumed"}]
    /\ op \in [Goroutines -> Operations \cup {"none"}]
    /\ outcome \in [Goroutines -> {"none", "ok", "err"}]

\* No operation reads database memory that Close or the cleanup has returned to
\* the system, through whatever the application kept: KeepAlive, the interior
\* pointer of cursors, the check of r.buffer and the order of Close see to it.
NoReadAfterUnmap ==
    \A g \in Goroutines : pc[g] = "reading" => mem \in {"mapped", "heap"}

\* Memory is handed to munmap at most once, by whichever of a failed Open, Close
\* and the cleanup comes first, and never when it is ordinary heap memory.
UnmappedOnce == munmaps <= 1 /\ (mem = "heap" => munmaps = 0)

\* g's operation runs on without the memory: an iterator begun before Close, one whose
\* search starts at the empty record, or the bookkeeping inside an entered container.
NeedsNoMemory(g) ==
    \/ op[g] = "traverse"
    \/ op[g] = "networks" /\ (pc[g] = "resumed" \/ emptyStart)

\* Once Close has returned, every operation that needs the memory ends with an error,
\* whatever it is called on: the Reader, a Result or a cursor taken before.  A Result
\* that found nothing is still answered with no error, as Decode documents
\* (result.go:31-32).
ErrorAfterClose ==
    [][\A g \in Goroutines :
          closed /\ ~NeedsNoMemory(g) /\ outcome'[g] \notin {outcome[g], "none"}
              => outcome'[g] = IF op[g] = "absent" THEN "ok" ELSE "err"]_vars

\* A mapping does not outlive its use: when Open fails, when Close is called or
\* when the application forgets the Reader, it is eventually unmapped, unless
\* munmap itself reports an error.
EventuallyUnmapped ==
    (stage = "failed" \/ closing # "no" \/ ~Reachable) ~> (mem # "mapped" \/ munmapErr)
=============================================================================
