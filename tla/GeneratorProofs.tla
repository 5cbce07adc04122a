--------------------------- MODULE GeneratorProofs ---------------------------
(***************************************************************************)
(* Proofs about Generator for any package, any number of source files and  *)
(* any outputs to begin with.                                              *)
(***************************************************************************)
EXTENDS Generator, FiniteSetTheorems, TLAPS

\* For induction and recursion on numbers.
Numbers == INSTANCE DataSectionProofs

\* What an output path may come to hold: what it held, or a complete new file where
\* no handwritten one was.
Kept(p, content) ==
    \/ content = initial[p]
    \/ /\ p \in Files /\ initial[p] # Handwritten
       /\ IsGenerated(content) /\ content.whole

Steps == {"create", "write", "chmod", "sync", "close", "replace"}

\* What the running generator has got so far.
RunOK ==
    run # Idle =>
        /\ run.file \in Files /\ initial[run.file] # Handwritten
        /\ \E targets, plans :
               \E step \in Steps :
                   run = [file |-> run.file, step |-> step, source |-> Source(targets, plans)]

\* How far its temporary file is, by the step that is next.
TempOK ==
    /\ temp \subseteq [whole : BOOLEAN, synced : BOOLEAN]
    /\ run = Idle => temp = {}
    /\ At("chmod") \/ At("sync") => \A file \in temp : file.whole
    /\ At("close") \/ At("replace") => \A file \in temp : file.whole /\ file.synced

\* What every path holds, and what of it a power failure may leave.
DiskOK ==
    /\ disk = [p \in Paths |-> disk[p]]
    /\ surviving = [p \in Paths |-> surviving[p]]
    /\ \A p \in Paths : Kept(p, disk[p]) /\ \A content \in surviving[p] : Kept(p, content)

LitterOK == interruptions = 0 => litter = {}

IInv == RunOK /\ TempOK /\ DiskOK /\ LitterOK

\* The package as it is found.
LEMMA InitIInv == Init => IInv
<1> SUFFICES ASSUME Init PROVE IInv
  OBVIOUS
<1>1. RunOK /\ TempOK /\ LitterOK
  BY DEF Init, RunOK, TempOK, LitterOK, At, Idle
<1>2. disk = [p \in Paths |-> disk[p]]
  BY DEF Init
<1>3. DiskOK
  BY <1>2 DEF Init, DiskOK, Kept
<1> QED
  BY <1>1, <1>3 DEF IInv

\* generatePackage decides to write only where no handwritten file is.
LEMMA GeneratePreserves ==
    ASSUME IInv, NEW f \in Files, Generate(f)
    PROVE  IInv'
<1>1. UNCHANGED <<initial, disk, surviving, temp, litter, interruptions>> /\ run = Idle
  BY DEF Generate
<1>2. temp = {} /\ f \in Paths
  BY <1>1 DEF IInv, TempOK, Paths
<1>3. (DiskOK /\ LitterOK)'
  BY <1>1 DEF IInv, DiskOK, LitterOK, Kept
<1>4. CASE run' = run
  BY <1>1, <1>2, <1>3, <1>4 DEF IInv, RunOK, TempOK, At
<1>5. CASE run' # run
  <2>1. /\ disk[f] # Handwritten
        /\ \E visible : run' = [file |-> f, step |-> "create", source |-> Rendered(f, visible)]
    BY <1>5 DEF Generate
  <2>2. PICK targets, plans :
            run' = [file |-> f, step |-> "create", source |-> Source(targets, plans)]
    BY <2>1 DEF Rendered
  <2>3. initial[f] # Handwritten
    BY <1>2, <2>1 DEF IInv, DiskOK, Kept
  <2>4. RunOK'
    BY <1>1, <2>2, <2>3 DEF RunOK, Steps
  <2>5. TempOK'
    BY <1>1, <1>2, <2>2 DEF TempOK
  <2> QED
    BY <1>3, <2>4, <2>5 DEF IInv
<1> QED
  BY <1>4, <1>5
\* The steps between the creation of the temporary file and the rename: contents are
\* complete before the sync, and synced before the rename.
LEMMA TempStepPreserves ==
    ASSUME IInv, CreateTemp \/ Write \/ Chmod \/ Sync \/ CloseTemp
    PROVE  IInv'
<1> USE DEF IInv
<1>1. UNCHANGED <<initial, disk, surviving, litter, interruptions>>
  BY DEF CreateTemp, Write, Chmod, Sync, CloseTemp, Elsewhere
<1>2. (DiskOK /\ LitterOK)'
  BY <1>1 DEF DiskOK, LitterOK, Kept
<1>3. run # Idle
  BY DEF CreateTemp, Write, Chmod, Sync, CloseTemp, At, Idle
<1>4. PICK targets, plans : \E step \in Steps :
          run = [file |-> run.file, step |-> step, source |-> Source(targets, plans)]
  BY <1>3 DEF RunOK
<1>5. ASSUME NEW next \in Steps, GoTo(next)
      PROVE  RunOK' /\ run' # Idle /\ run'.step = next
  <2>1. run' = [file |-> run.file, step |-> next, source |-> Source(targets, plans)]
    BY <1>4, <1>5 DEF GoTo
  <2>2. next # "idle"
    BY DEF Steps
  <2>3. run'.file = run.file /\ run'.step = next
    BY <2>1
  <2> QED
    BY <1>1, <1>3, <2>1, <2>2, <2>3 DEF RunOK, Idle
<1>6. CASE CreateTemp
  BY <1>2, <1>5, <1>6 DEF CreateTemp, TempOK, At, Steps
<1>7. CASE Write
  <2>1. \A file \in temp : /\ [file EXCEPT !.whole = TRUE] \in [whole : BOOLEAN, synced : BOOLEAN]
                           /\ [file EXCEPT !.whole = TRUE].whole
    BY DEF TempOK
  <2> QED
    BY <1>2, <1>5, <1>7, <2>1 DEF Write, TempOK, At, Steps
<1>8. CASE Chmod
  BY <1>2, <1>5, <1>8 DEF Chmod, TempOK, At, Steps
<1>9. CASE Sync
  <2>1. \A file \in temp :
            /\ [file EXCEPT !.synced = TRUE] \in [whole : BOOLEAN, synced : BOOLEAN]
            /\ file.whole => [file EXCEPT !.synced = TRUE].whole
            /\ [file EXCEPT !.synced = TRUE].synced
    BY DEF TempOK
  <2>2. \A file \in temp : file.whole
    BY <1>9 DEF Sync, TempOK
  <2> QED
    BY <1>2, <1>5, <1>9, <2>1, <2>2 DEF Sync, TempOK, At, Steps
<1>10. CASE CloseTemp
  BY <1>2, <1>5, <1>10 DEF CloseTemp, TempOK, At, Steps
<1> QED
  BY <1>6, <1>7, <1>8, <1>9, <1>10

\* The rename publishes contents that are complete and on the disk, so that a reader
\* and a power failure both find the old file or the whole new one.
LEMMA ReplacePreserves ==
    ASSUME IInv, Replace
    PROVE  IInv'
<1> USE DEF IInv
<1>1. run # Idle /\ UNCHANGED <<initial, litter, interruptions>>
  BY DEF Replace, At, Idle
<1>2. PICK targets, plans : \E step \in Steps :
          run = [file |-> run.file, step |-> step, source |-> Source(targets, plans)]
  BY <1>1 DEF RunOK
<1>3. run.file \in Files /\ run.file \in Paths /\ initial[run.file] # Handwritten
  BY <1>1 DEF RunOK, Paths
<1>4. PICK file \in temp :
          /\ disk' = [disk EXCEPT ![run.file] = [run.source EXCEPT !.whole = file.whole]]
          /\ surviving' = [surviving EXCEPT ![run.file] =
                 @ \cup {[run.source EXCEPT !.whole = file.whole /\ file.synced]}]
  BY DEF Replace
<1>5. file.whole = TRUE /\ file.synced = TRUE
  BY DEF Replace, TempOK
<1> DEFINE new == [run.source EXCEPT !.whole = TRUE]
<1>6. IsGenerated(new) /\ new.whole
  <2>1. run.source = Source(targets, plans)
    BY <1>2
  <2> QED
    BY <2>1 DEF Source, IsGenerated
<1>7. /\ disk' = [disk EXCEPT ![run.file] = new]
      /\ surviving' = [surviving EXCEPT ![run.file] = @ \cup {new}]
  BY <1>4, <1>5
<1> HIDE DEF new
<1>8. DiskOK'
  BY <1>1, <1>3, <1>6, <1>7 DEF DiskOK, Kept
<1>9. (RunOK /\ TempOK /\ LitterOK)'
  BY <1>1 DEF Replace, RunOK, TempOK, LitterOK, At, Idle
<1> QED
  BY <1>8, <1>9

\* A call that fails, a kill and a power failure.
LEMMA StopPreserves ==
    ASSUME IInv, Fail \/ Kill \/ PowerFailure
    PROVE  IInv'
<1> USE DEF IInv
<1>1. run' = Idle /\ temp' = {} /\ UNCHANGED initial
  BY DEF Fail, Kill, PowerFailure
<1>2. (RunOK /\ TempOK)'
  BY <1>1 DEF RunOK, TempOK, At, Idle
<1>3. LitterOK'
  BY DEF Fail, Kill, PowerFailure, LitterOK
<1>4. CASE Fail \/ Kill
  BY <1>1, <1>2, <1>3, <1>4 DEF Fail, Kill, DiskOK, Kept
<1>5. CASE PowerFailure
  <2>1. /\ disk' = [p \in Paths |-> disk'[p]]
        /\ \A p \in Paths : disk'[p] \in surviving[p]
        /\ surviving' = [p \in Paths |-> {disk'[p]}]
    BY <1>5 DEF PowerFailure
  <2>2. \A p \in Paths : surviving'[p] = {disk'[p]}
    BY <2>1
  <2>3. surviving' = [p \in Paths |-> surviving'[p]]
    BY <2>1
  <2>4. \A p \in Paths : Kept(p, disk'[p])
    BY <2>1 DEF DiskOK
  <2>5. DiskOK'
    BY <1>1, <2>1, <2>2, <2>3, <2>4 DEF DiskOK, Kept
  <2> QED
    BY <1>2, <1>3, <2>5
<1> QED
  BY <1>4, <1>5

\* Whatever a run does, and wherever it or the machine stops.
LEMMA NextPreserves == IInv /\ [Next]_vars => IInv'
<1> SUFFICES ASSUME IInv, [Next]_vars PROVE IInv'
  OBVIOUS
<1>1. CASE Next
  BY <1>1, GeneratePreserves, TempStepPreserves, ReplacePreserves, StopPreserves DEF Next
<1>2. CASE UNCHANGED vars
  BY <1>2 DEF vars, IInv, RunOK, TempOK, DiskOK, LitterOK, Kept, At
<1> QED
  BY <1>1, <1>2

\* A generator that fails, is killed or loses power at any point leaves every output
\* path with its old contents or a complete new file, spares handwritten files, and
\* cleans up behind itself when it can.
THEOREM OutputsAlwaysWhole == Spec => []OutputsWhole
<1>1. IInv => OutputsWhole
  BY DEF IInv, TempOK, DiskOK, LitterOK, Kept, OutputsWhole
<1> QED
  BY <1>1, InitIInv, NextPreserves, PTL DEF Spec
-----------------------------------------------------------------------------
(* Convergence.  A set of methods that generated files declare only ever      *)
(* hides handwritten methods: the fewer are visible, the more are found.      *)

Handmade == {"good", "odd"}

\* Own methods: visible ones come after handwritten ones.
LEMMA OwnMethods ==
    ASSUME NEW t, NEW m, NEW few, NEW many, few \subseteq many
    PROVE  /\ Own(t, m, few) # "none" => Own(t, m, many) = Own(t, m, few)
           /\ Own(t, m, many) \in Handmade => Own(t, m, few) = Own(t, m, many)
BY DEF Own, Handmade

\* A handwritten method that lookupMethod finds among many visible methods it also
\* finds among few: those in between can only have hidden it or made it ambiguous.
LEMMA LookupMonotonic ==
    ASSUME NEW t, NEW m, NEW few, NEW many, few \subseteq many,
           lookupMethod(t, m, many) \in Handmade
    PROVE  lookupMethod(t, m, few) = lookupMethod(t, m, many)
<1> DEFINE at(v, n) == {path \in EmbeddedAt[n][t] : Own(path[Len(path)], m, v) # "none"}
           deepest  == Cardinality({u \in LiveTypes : pkg.types[u].embeds # {}})
           depths(v) == {n \in 1 .. deepest : at(v, n) # {}}
           depth(v) == CHOOSE n \in depths(v) : \A k \in depths(v) : n <= k
           nearest(v) == at(v, depth(v))
<1>1. \A v : Own(t, m, v) # "none" => lookupMethod(t, m, v) = Own(t, m, v)
  BY DEF lookupMethod
<1>2. \A v : Own(t, m, v) = "none" /\ (depths(v) = {} \/ \E p, q \in nearest(v) : p # q)
                 => lookupMethod(t, m, v) = "none"
  BY DEF lookupMethod
<1>3. \A v, path :
          Own(t, m, v) = "none" /\ depths(v) # {} /\ nearest(v) = {path}
              => lookupMethod(t, m, v) = Own(path[Len(path)], m, v)
  <2> TAKE v, path
  <2> HAVE Own(t, m, v) = "none" /\ depths(v) # {} /\ nearest(v) = {path}
  <2>1. lookupMethod(t, m, v) =
            LET p == CHOOSE p \in nearest(v) : TRUE IN Own(p[Len(p)], m, v)
    <3>1. ~(\E p, q \in nearest(v) : p # q)
      OBVIOUS
    <3> QED
      BY <3>1 DEF lookupMethod
  <2> HIDE DEF nearest
  <2>2. (CHOOSE p \in nearest(v) : TRUE) = path
    OBVIOUS
  <2> QED
    BY <2>1, <2>2
<1>4. \A n : at(few, n) \subseteq at(many, n)
  BY OwnMethods
<1>5. depths(few) \subseteq depths(many)
  BY <1>4
<1>6. \A v : depths(v) # {} => /\ depth(v) \in depths(v)
                               /\ \A k \in depths(v) : depth(v) <= k
  <2> TAKE v
  <2> HAVE depths(v) # {}
  <2>1. depths(v) \in SUBSET Nat
    BY DEF depths
  <2> HIDE DEF depths
  <2>2. \E n \in depths(v) : \A k \in depths(v) : n <= k
    BY <2>1, Numbers!LeastNumber
  <2> QED
    BY <2>2
<1>7. \A v : depths(v) \subseteq Int /\ \A n \in depths(v) : at(v, n) # {}
  OBVIOUS
<1>8. \A v, n : n \in depths(many) /\ at(v, n) # {} => n \in depths(v)
  OBVIOUS
<1>9. \A v, n, path : path \in at(v, n) <=>
          path \in EmbeddedAt[n][t] /\ Own(path[Len(path)], m, v) # "none"
  OBVIOUS
<1>10. \A v : nearest(v) = at(v, depth(v))
  OBVIOUS
<1> HIDE DEF at, depths, depth, nearest
<1>11. CASE Own(t, m, many) # "none"
  BY <1>1, <1>11, OwnMethods DEF Handmade
<1>12. CASE Own(t, m, many) = "none"
  <2>1. Own(t, m, few) = "none"
    BY <1>12, OwnMethods
  <2>2. depths(many) # {} /\ ~(\E p, q \in nearest(many) : p # q)
    BY <1>2, <1>12 DEF Handmade
  <2>3. nearest(many) # {}
    BY <1>6, <1>7, <1>10, <2>2
  <2>0. PICK path \in nearest(many) : TRUE
    BY <2>3
  <2>4. nearest(many) = {path}
    BY <2>2, <2>0
  <2>5. lookupMethod(t, m, many) = Own(path[Len(path)], m, many)
    BY <1>3, <1>12, <2>2, <2>4
  <2>6. Own(path[Len(path)], m, few) = Own(path[Len(path)], m, many)
    BY <2>5, OwnMethods
  <2>7. path \in at(few, depth(many))
    BY <1>9, <1>10, <2>4, <2>5, <2>6 DEF Handmade
  <2>8. at(few, depth(many)) = {path}
    BY <1>4, <1>10, <2>4, <2>7
  <2>9. depth(many) \in depths(few)
    BY <1>6, <1>8, <2>2, <2>8
  <2>10. depth(few) = depth(many)
    <3>1. depth(few) \in depths(few) /\ depth(few) <= depth(many)
      BY <1>6, <2>9
    <3>2. depth(many) <= depth(few)
      BY <1>5, <1>6, <2>2, <3>1
    <3>3. depth(few) \in Int /\ depth(many) \in Int
      BY <1>7, <2>9, <3>1
    <3> QED
      BY <3>1, <3>2, <3>3
  <2>11. nearest(few) = {path} /\ depths(few) # {}
    BY <1>10, <2>8, <2>9, <2>10
  <2> QED
    BY <1>3, <2>1, <2>5, <2>6, <2>11
<1> QED
  BY <1>11, <1>12

\* The types that are targets, or have been, and the methods they may have got.
Ever == (UNION {Candidates(f) : f \in Files}) \cup (UNION {initial[p].targets : p \in Paths})
EverVisible == signatureOverlay({}, Ever)

\* With any of those methods visible, a struct has the handwritten methods that it
\* has with none.
LEMMA StableLookups ==
    ASSUME PromotionsStable, NEW v, v \subseteq EverVisible,
           NEW t \in LiveTypes, NEW m \in Methods
    PROVE  /\ lookupMethod(t, m, v) \in Handmade <=> lookupMethod(t, m, {}) \in Handmade
           /\ lookupMethod(t, m, {}) \in Handmade =>
                  lookupMethod(t, m, v) = lookupMethod(t, m, {})
<1>1. CASE lookupMethod(t, m, {}) \in Handmade
  <2>1. lookupMethod(t, m, EverVisible) = lookupMethod(t, m, {})
    BY <1>1 DEF PromotionsStable, Ever, EverVisible, Handmade
  <2>2. lookupMethod(t, m, v) = lookupMethod(t, m, EverVisible)
    BY <1>1, <2>1, LookupMonotonic
  <2> QED
    BY <1>1, <2>1, <2>2
<1>2. CASE lookupMethod(t, m, v) \in Handmade
  <2>1. {} \subseteq v
    OBVIOUS
  <2>2. lookupMethod(t, m, {}) = lookupMethod(t, m, v)
    BY <1>2, <2>1, LookupMonotonic
  <2> QED
    BY <1>2, <2>2
<1> QED
  BY <1>1, <1>2

\* So it is handled in the same way, and decoded in the same way.
LEMMA StableTypes ==
    ASSUME PromotionsStable, NEW v, v \subseteq EverVisible, NEW t \in LiveTypes
    PROVE  Handling(t, v) = Handling(t, {}) /\ Plan(t, v) = Plan(t, {})
<1>1. \A m \in Methods :
          /\ lookupMethod(t, m, v) \in {"good", "odd"} <=> lookupMethod(t, m, {}) \in {"good", "odd"}
          /\ implements(t, m, v) <=> implements(t, m, {})
  BY StableLookups DEF Handmade, implements
<1>2. {m \in Methods : lookupMethod(t, m, v) \in {"good", "odd"}} =
      {m \in Methods : lookupMethod(t, m, {}) \in {"good", "odd"}}
  BY <1>1
<1> QED
  BY <1>1, <1>2 DEF Handling, Plan, Methods

\* analyzeStruct only reaches types that the package declares.
LEMMA ReachedDeclared ==
    ASSUME IsFiniteSet(LiveTypes), NEW from \in SUBSET LiveTypes,
           NEW nested, \A t \in LiveTypes : nested[t] \subseteq LiveTypes
    PROVE  Reached(from, nested) \subseteq LiveTypes
<1> DEFINE S == SUBSET LiveTypes
           longest == Cardinality({u \in LiveTypes : pkg.types[u].fields # {}})
           next(x) == x \cup UNION {nested[t] : t \in x}
           step == [n \in Nat |-> [x \in S |-> next(x)]]
           eq(r) == r = [n \in Nat |-> IF n = 0 THEN from
                            ELSE LET nearer == r[n - 1]
                                 IN  nearer \cup UNION {nested[t] : t \in nearer}]
           reach == CHOOSE r : eq(r)
<1>1. Reached(from, nested) = reach[longest]
  BY DEF Reached
<1>2. longest \in Nat
  BY FS_Subset, FS_CardinalityType
<1>3. \A x \in S : next(x) \in S
  OBVIOUS
<1>4. step \in [Nat -> [S -> S]]
  BY <1>3
<1>5. \A n \in Nat : \A x \in S : step[n + 1][x] = next(x)
  OBVIOUS
<1> HIDE DEF step
<1>6. PICK f : Numbers!Follows(f, S, from, step)
  <2>1. from \in S
    OBVIOUS
  <2> HIDE DEF S
  <2> QED
    BY <1>4, <2>1, Numbers!RecursiveFunction
<1>7. eq(f)
  <2>1. ASSUME NEW n \in Nat, n # 0 PROVE f[n] = next(f[n - 1])
    <3>1. n - 1 \in Nat /\ (n - 1) + 1 = n /\ f[n - 1] \in S
      BY <1>6, <2>1 DEF Numbers!Follows
    <3>2. f[(n - 1) + 1] = step[(n - 1) + 1][f[n - 1]]
      BY <1>6, <3>1 DEF Numbers!Follows
    <3>3. step[(n - 1) + 1][f[n - 1]] = next(f[n - 1])
      BY <1>5, <3>1
    <3> QED
      BY <3>1, <3>2, <3>3
  <2> QED
    BY <1>6, <2>1 DEF Numbers!Follows
<1>8. eq(reach)
  <2> HIDE DEF eq
  <2> QED
    BY <1>7
<1> HIDE DEF reach, longest
<1>9. reach[0] = from /\ \A n \in Nat : reach[n + 1] = next(reach[n])
  BY <1>8
<1> DEFINE T == {n \in Nat : reach[n] \in S}
<1>10. Nat \subseteq T
  <2>1. 0 \in T
    BY <1>9
  <2>2. ASSUME NEW n \in Nat, n \in T PROVE n + 1 \in T
    BY <1>3, <1>9, <2>2
  <2> HIDE DEF T
  <2> QED
    BY <2>1, <2>2, Numbers!Induction
<1> QED
  BY <1>1, <1>2, <1>10

\* A run writes the same whatever outputs it finds.
LEMMA StableRendered ==
    ASSUME PromotionsStable, TypesResolve, IsFiniteSet(LiveTypes),
           NEW f \in Files, Candidates(f) \subseteq LiveTypes,
           NEW v, v \subseteq EverVisible
    PROVE  /\ Rendered(f, v) = Rendered(f, {})
           /\ Reached(Targets(f, {}), Nested({})) \subseteq LiveTypes
<1>1. Targets(f, v) = Targets(f, {}) /\ Targets(f, {}) \subseteq LiveTypes
  BY StableTypes DEF Targets
<1>2. \A t \in LiveTypes : pkg.types[t].fields \subseteq LiveTypes
  BY DEF TypesResolve
<1>3. Nested(v) = Nested({})
  BY <1>2, StableTypes DEF Nested
<1>4. \A t \in LiveTypes : Nested({})[t] \subseteq LiveTypes
  BY <1>2 DEF Nested
<1> DEFINE structs == Reached(Targets(f, {}), Nested({}))
<1>5. structs \subseteq LiveTypes
  BY <1>1, <1>4, ReachedDeclared
<1> HIDE DEF structs
<1>6. \A t \in structs : [u \in pkg.types[t].fields |-> Plan(u, v)] =
                         [u \in pkg.types[t].fields |-> Plan(u, {})]
  BY <1>2, <1>5, StableTypes
<1>7. [t \in structs |-> [u \in pkg.types[t].fields |-> Plan(u, v)]] =
      [t \in structs |-> [u \in pkg.types[t].fields |-> Plan(u, {})]]
  BY <1>6
<1> QED
  BY <1>1, <1>3, <1>5, <1>7 DEF Rendered, structs

(* The sources of the package never change, and so does nothing that only    *)
(* depends on them.                                                          *)

LEMMA SameTypes ==
    ASSUME UNCHANGED pkg
    PROVE  UNCHANGED <<LiveTypes, EmbeddedAt, TypesResolve>> /\ \A f : UNCHANGED Candidates(f)
<1>1. UNCHANGED LiveTypes
  BY DEF LiveTypes
<1>2. UNCHANGED EmbeddedAt
  BY <1>1, Zenon DEF EmbeddedAt
<1>3. UNCHANGED TypesResolve
  BY <1>1 DEF TypesResolve
<1> QED
  BY <1>1, <1>2, <1>3 DEF Candidates

LEMMA SameLookups ==
    ASSUME UNCHANGED pkg, NEW t, NEW m, NEW v
    PROVE  UNCHANGED lookupMethod(t, m, v)
<1> DEFINE origin(path) == Own(path[Len(path)], m, v)
           at(n) == {path \in EmbeddedAt[n][t] : origin(path) # "none"}
           deepest == Cardinality({u \in LiveTypes : pkg.types[u].embeds # {}})
           depths == {n \in 1 .. deepest : at(n) # {}}
           depth == CHOOSE n \in depths : \A k \in depths : n <= k
           nearest == at(depth)
           only == CHOOSE path \in nearest : TRUE
           found == IF Own(t, m, v) # "none" THEN Own(t, m, v)
                    ELSE IF depths = {} \/ (\E p, q \in nearest : p # q) THEN "none"
                    ELSE origin(only)
<1>1. lookupMethod(t, m, v) = found /\ lookupMethod(t, m, v)' = found'
  BY DEF lookupMethod
<1>2. UNCHANGED Own(t, m, v) /\ \A p : UNCHANGED Own(p[Len(p)], m, v)
  BY DEF Own
<1>3. \A n : UNCHANGED at(n)
  BY <1>2, SameTypes, SMT
<1>4. UNCHANGED deepest
  BY SameTypes
<1> HIDE DEF at, deepest
<1>5. UNCHANGED depths
  BY <1>3, <1>4
<1> HIDE DEF depths
<1>6. UNCHANGED depth
  BY <1>5
<1> HIDE DEF depth
<1>7. UNCHANGED nearest
  BY <1>3, <1>6
<1> HIDE DEF nearest
<1>8. UNCHANGED only
  BY <1>7
<1> HIDE DEF only
<1> QED
  BY <1>1, <1>2, <1>5, <1>7, <1>8

LEMMA SameRendered ==
    ASSUME UNCHANGED pkg, NEW f
    PROVE  UNCHANGED Rendered(f, {})
<1>1. \A t : UNCHANGED <<Plan(t, {}), Handling(t, {})>>
  BY SameLookups DEF Plan, Handling, implements
<1>2. UNCHANGED Nested({})
  BY <1>1, SameTypes DEF Nested
<1>3. UNCHANGED Targets(f, {})
  BY <1>1, SameTypes DEF Targets
<1>4. \A from, nested : UNCHANGED Reached(from, nested)
  <2> TAKE from, nested
  <2>1. UNCHANGED LiveTypes
    BY SameTypes
  <2> QED
    BY <2>1, Zenon DEF Reached
<1> DEFINE structs == Reached(Targets(f, {}), Nested({}))
<1>5. UNCHANGED structs
  BY <1>2, <1>3, <1>4
<1> HIDE DEF structs
<1>6. UNCHANGED [t \in structs |-> [u \in pkg.types[t].fields |-> Plan(u, {})]]
  BY <1>1, <1>5
<1> QED
  BY <1>3, <1>6 DEF Rendered, Source, structs

LEMMA SameStability ==
    ASSUME UNCHANGED <<pkg, initial>>
    PROVE  UNCHANGED <<Ever, EverVisible>> /\ (PromotionsStable' <=> PromotionsStable)
<1>1. UNCHANGED Ever
  BY SameTypes DEF Ever
<1>2. \A x : UNCHANGED signatureOverlay({}, x)
  BY SameTypes DEF signatureOverlay
<1>3. UNCHANGED EverVisible
  BY <1>1, <1>2 DEF EverVisible
<1>4. /\ PromotionsStable <=>
             \A t \in LiveTypes : \A m \in Methods :
                 lookupMethod(t, m, {}) \in {"good", "odd"} =>
                     lookupMethod(t, m, EverVisible) = lookupMethod(t, m, {})
      /\ PromotionsStable' <=>
             \A t \in LiveTypes' : \A m \in Methods :
                 lookupMethod(t, m, {})' \in {"good", "odd"} =>
                     lookupMethod(t, m, EverVisible)' = lookupMethod(t, m, {})'
  BY DEF PromotionsStable, EverVisible, Ever
<1>5. \A t, m : UNCHANGED lookupMethod(t, m, EverVisible)
  BY <1>3, SameLookups
<1>6. PromotionsStable' <=> PromotionsStable
  BY <1>4, <1>5, SameTypes, SameLookups
<1> QED
  BY <1>1, <1>3, <1>6

\* Files that are there, or may be after a power failure, only declare methods of types
\* that are targets or have been.
Bounded(content) == IsGenerated(content) => content.targets \subseteq Ever
TargetsOK ==
    /\ \A p \in Paths : Bounded(disk[p]) /\ \A content \in surviving[p] : Bounded(content)
    /\ run # Idle => Bounded(run.source)

\* The package lets a run for f succeed.
Sound(f) == TypesResolve /\ Candidates(f) \subseteq LiveTypes

\* What a run is about to write, and what a run that succeeded has left.
SourcesOK ==
    /\ outcome = [f \in Files |-> outcome[f]]
    /\ run # Idle => /\ Sound(run.file)
                     /\ PromotionsStable => run.source = Rendered(run.file, {})
    /\ \A f \in Files : outcome[f] = "ok" =>
           /\ Sound(f)
           /\ PromotionsStable => disk[f] = Rendered(f, {})

CInv == IInv /\ pkg \in Packages /\ TargetsOK /\ SourcesOK

\* The methods that the outputs declare are among those that there may ever be.
LEMMA VisibleBounded ==
    ASSUME TargetsOK, NEW files \in SUBSET Paths
    PROVE  signatureOverlay(files, {}) \subseteq EverVisible
BY DEF TargetsOK, Bounded, signatureOverlay, EverVisible

\* A run settles what it writes on the outputs that it finds; that is what it would
\* settle on without them.
LEMMA GenerateConverges ==
    ASSUME CInv, NEW f \in Files, Generate(f)
    PROVE  CInv'
<1>1. UNCHANGED <<pkg, initial, disk, surviving>> /\ run = Idle
  BY DEF Generate
<1>2. IInv' /\ pkg' \in Packages
  BY <1>1, GeneratePreserves DEF CInv
<1>3. UNCHANGED <<Ever, EverVisible>> /\ (PromotionsStable' <=> PromotionsStable)
  BY <1>1, SameStability
<1>4. \A g : Sound(g)' <=> Sound(g)
  BY <1>1, SameTypes DEF Sound
<1>5. \A g : UNCHANGED Rendered(g, {})
  BY <1>1, SameRendered
<1>6. \A p \in Paths : Bounded(disk[p])' /\ \A content \in surviving'[p] : Bounded(content)'
  BY <1>1, <1>3 DEF CInv, TargetsOK, Bounded
<1>7. CASE run' = run /\ outcome' = [outcome EXCEPT ![f] = "refused"]
  <2>1. TargetsOK'
    BY <1>1, <1>6, <1>7 DEF TargetsOK
  <2>2. SourcesOK'
    BY <1>1, <1>3, <1>4, <1>5, <1>7 DEF CInv, SourcesOK
  <2> QED
    BY <1>2, <2>1, <2>2 DEF CInv
<1>8. CASE ~(run' = run /\ outcome' = [outcome EXCEPT ![f] = "refused"])
  <2> DEFINE v == signatureOverlay(Paths, {})
  <2>1. /\ run' = [file |-> f, step |-> "create", source |-> Rendered(f, v)]
        /\ UNCHANGED outcome
        /\ Sound(f)
    BY <1>8 DEF Generate, Sound
  <2>2. v \subseteq EverVisible
    BY VisibleBounded DEF CInv
  <2> HIDE DEF v
  <2>3. Rendered(f, v).targets \subseteq Ever
    BY DEF Rendered, Source, Targets, Ever
  <2>4. TargetsOK'
    BY <1>3, <1>6, <2>1, <2>3 DEF TargetsOK, Bounded
  <2>5. IsFiniteSet(LiveTypes)
    BY PackagesAssumption, FS_Subset DEF CInv, LiveTypes
  <2>6. PromotionsStable => Rendered(f, v) = Rendered(f, {})
    BY <2>1, <2>2, <2>5, StableRendered DEF Sound
  <2>7. SourcesOK'
    BY <1>1, <1>3, <1>4, <1>5, <2>1, <2>6 DEF CInv, SourcesOK
  <2> QED
    BY <1>2, <2>4, <2>7 DEF CInv
<1> QED
  BY <1>7, <1>8

\* Sources are whole.
LEMMA SourceParts ==
    ASSUME NEW x, NEW y
    PROVE  /\ Source(x, y).targets = x /\ Source(x, y).plans = y
           /\ [Source(x, y) EXCEPT !.whole = TRUE] = Source(x, y)
<1> DEFINE K == {"kind", "targets", "plans", "whole"}
           r == Source(x, y)
           s == [Source(x, y) EXCEPT !.whole = TRUE]
<1>1. r = [k \in K |-> r[k]] /\ s = [k \in K |-> s[k]]
  BY DEF Source
<1>2. s.kind = r.kind /\ s.targets = r.targets /\ s.plans = r.plans /\ s.whole = r.whole
  BY DEF Source
<1>3. r = s
  BY <1>1, <1>2
<1> QED
  BY <1>3 DEF Source

\* The other steps bring that to the disk, or give up.
LEMMA OtherStepsConverge ==
    ASSUME CInv,
           \/ CreateTemp \/ Write \/ Chmod \/ Sync \/ CloseTemp
           \/ Replace \/ Fail \/ Kill \/ PowerFailure \/ UNCHANGED vars
    PROVE  CInv'
<1>1. UNCHANGED <<pkg, initial>>
  BY DEF CreateTemp, Write, Chmod, Sync, CloseTemp, Elsewhere, Replace, Fail, Kill, PowerFailure, vars
<1>2. IInv' /\ pkg' \in Packages
  BY <1>1, TempStepPreserves, ReplacePreserves, StopPreserves, NextPreserves DEF CInv
<1>3. UNCHANGED <<Ever, EverVisible>> /\ (PromotionsStable' <=> PromotionsStable)
  BY <1>1, SameStability
<1>4. \A g : Sound(g)' <=> Sound(g)
  BY <1>1, SameTypes DEF Sound
<1>5. \A g : UNCHANGED Rendered(g, {})
  BY <1>1, SameRendered
<1>6. CASE CreateTemp \/ Write \/ Chmod \/ Sync \/ CloseTemp
  <2>1. run # Idle /\ \E step : GoTo(step)
    BY <1>6 DEF CreateTemp, Write, Chmod, Sync, CloseTemp, At, Idle
  <2>2. run'.file = run.file /\ run'.source = run.source
    BY <2>1 DEF CInv, IInv, RunOK, GoTo
  <2>3. UNCHANGED <<disk, surviving, outcome>>
    BY <1>6 DEF CreateTemp, Write, Chmod, Sync, CloseTemp, Elsewhere
  <2>4. TargetsOK'
    BY <1>3, <2>1, <2>2, <2>3 DEF CInv, TargetsOK, Bounded
  <2>5. SourcesOK'
    BY <1>3, <1>4, <1>5, <2>1, <2>2, <2>3 DEF CInv, SourcesOK
  <2> QED
    BY <1>2, <2>4, <2>5 DEF CInv
<1>7. CASE Replace
  <2>1. run # Idle /\ run' = Idle /\ outcome' = [outcome EXCEPT ![run.file] = "ok"]
    BY <1>7 DEF Replace, At, Idle
  <2>2. PICK file \in temp :
          /\ disk' = [disk EXCEPT ![run.file] = [run.source EXCEPT !.whole = file.whole]]
          /\ surviving' = [surviving EXCEPT ![run.file] =
                 @ \cup {[run.source EXCEPT !.whole = file.whole /\ file.synced]}]
    BY <1>7 DEF Replace
  <2>3. file.whole = TRUE /\ file.synced = TRUE
    BY <1>7 DEF Replace, CInv, IInv, TempOK
  <2>4. [run.source EXCEPT !.whole = TRUE] = run.source
    <3>1. PICK targets, plans : run.source = Source(targets, plans)
      BY <2>1 DEF CInv, IInv, RunOK
    <3> QED
      BY <3>1, SourceParts
  <2>5. /\ disk' = [disk EXCEPT ![run.file] = run.source]
        /\ surviving' = [surviving EXCEPT ![run.file] = @ \cup {run.source}]
    BY <2>2, <2>3, <2>4
  <2>6. run.file \in Files /\ run.file \in Paths /\ Files \subseteq Paths
    BY <2>1 DEF CInv, IInv, RunOK, Paths
  <2>7. TargetsOK'
    BY <1>3, <2>1, <2>5, <2>6 DEF CInv, IInv, DiskOK, TargetsOK, Bounded
  <2>8. SourcesOK'
    BY <1>3, <1>4, <1>5, <2>1, <2>5, <2>6 DEF CInv, IInv, DiskOK, SourcesOK
  <2> QED
    BY <1>2, <2>7, <2>8 DEF CInv
<1>8. CASE Fail \/ Kill
  <2>1. /\ run' = Idle /\ UNCHANGED <<disk, surviving>>
        /\ \/ outcome' = [outcome EXCEPT ![run.file] = "failed"]
           \/ UNCHANGED outcome
    BY <1>8 DEF Fail, Kill
  <2>2. TargetsOK'
    BY <1>3, <2>1 DEF CInv, TargetsOK, Bounded
  <2>3. SourcesOK'
    BY <1>3, <1>4, <1>5, <2>1 DEF CInv, SourcesOK
  <2> QED
    BY <1>2, <2>2, <2>3 DEF CInv
<1>9. CASE PowerFailure
  <2>1. /\ run' = Idle /\ outcome' = [f \in Files |-> "none"]
        /\ \A p \in Paths : disk'[p] \in surviving[p] /\ surviving'[p] = {disk'[p]}
    BY <1>9 DEF PowerFailure
  <2>2. TargetsOK'
    BY <1>3, <2>1 DEF CInv, TargetsOK, Bounded
  <2>3. SourcesOK'
    BY <2>1 DEF SourcesOK
  <2> QED
    BY <1>2, <2>2, <2>3 DEF CInv
<1>10. CASE UNCHANGED vars
  <2>1. UNCHANGED <<disk, surviving, run, outcome>>
    BY <1>10 DEF vars
  <2> QED
    BY <1>2, <1>3, <1>4, <1>5, <2>1 DEF CInv, TargetsOK, Bounded, SourcesOK
<1> QED
  BY <1>6, <1>7, <1>8, <1>9, <1>10

\* What runs that succeeded have left, once they all have, is a package that builds.
LEMMA ConvergedPackageBuilds ==
    ASSUME CInv, PromotionsStable,
           \A f \in Files : outcome[f] = "ok"
    PROVE  /\ \A f, g \in Files : f # g =>
                  /\ disk[f].targets \cap disk[g].targets = {}
                  /\ Helpers(f, disk[f]) \cap Helpers(g, disk[g]) = {}
           /\ \A f \in Files : \A t \in disk[f].targets : \A m \in Methods :
                  pkg.types[t].hand[m] = "none"
           /\ \A f \in Files : CallbacksResolve(disk[f], signatureOverlay(Files, {}))
<1>1. \A f \in Files : Sound(f) /\ disk[f] = Rendered(f, {})
  BY DEF CInv, SourcesOK
<1>2. \A f \in Files : disk[f].targets = Targets(f, {})
  <2>1. \A f : Rendered(f, {}).targets = Targets(f, {})
    BY SourceParts DEF Rendered
  <2> QED
    BY <1>1, <2>1
<1>3. \A f, g \in Files : f # g => disk[f].targets \cap disk[g].targets = {}
  BY <1>2 DEF Targets, Candidates
<1>4. ASSUME NEW f \in Files, NEW g \in Files, f # g
      PROVE  Helpers(f, disk[f]) \cap Helpers(g, disk[g]) = {}
  <2> SUFFICES ASSUME NEW t, NEW u,
                      helperName(f, disk[f].targets, t) = helperName(g, disk[g].targets, u)
               PROVE  FALSE
    BY DEF Helpers
  <2>1. <<t>> # <<g, u>> /\ <<f, t>> # <<u>>
    <3>1. Len(<<t>>) = 1 /\ Len(<<u>>) = 1 /\ Len(<<g, u>>) = 2 /\ Len(<<f, t>>) = 2
      OBVIOUS
    <3> QED
      BY <3>1
  <2>2. t \in disk[f].targets /\ u \in disk[g].targets /\ t = u
    BY <1>4, <2>1 DEF helperName
  <2> QED
    BY <1>3, <1>4, <2>2
<1>5. ASSUME NEW f \in Files, NEW t \in disk[f].targets, NEW m \in Methods
      PROVE  pkg.types[t].hand[m] = "none"
  <2>1. t \in DOMAIN pkg.types /\ Handling(t, {}) = "target"
    BY <1>2 DEF Targets, Candidates
  <2>2. lookupMethod(t, m, {}) \notin Handmade
    <3>1. {k \in Methods : lookupMethod(t, k, {}) \in {"good", "odd"}} = {}
      BY <2>1 DEF Handling
    <3> QED
      BY <3>1 DEF Handmade
  <2>3. pkg.types[t].hand[m] \in {"none"} \cup Handmade
    BY <2>1, PackagesAssumption DEF CInv, Handmade
  <2>4. pkg.types[t].hand[m] # "none" => lookupMethod(t, m, {}) = pkg.types[t].hand[m]
    BY DEF lookupMethod, Own
  <2> QED
    BY <2>2, <2>3, <2>4
<1>6. ASSUME NEW f \in Files
      PROVE  CallbacksResolve(disk[f], signatureOverlay(Files, {}))
  <2> DEFINE v == signatureOverlay(Files, {})
             structs == Reached(Targets(f, {}), Nested({}))
  <2>1. v \subseteq EverVisible
    BY VisibleBounded DEF CInv, Paths
  <2>2. IsFiniteSet(LiveTypes)
    BY PackagesAssumption, FS_Subset DEF CInv, LiveTypes
  <2>3. structs \subseteq LiveTypes
    BY <1>1, <2>1, <2>2, StableRendered DEF Sound
  <2>4. disk[f].plans = [t \in structs |-> [u \in pkg.types[t].fields |-> Plan(u, {})]]
    <3>1. Rendered(f, {}).plans = [t \in structs |-> [u \in pkg.types[t].fields |-> Plan(u, {})]]
      BY SourceParts DEF Rendered
    <3> QED
      BY <1>1, <3>1
  <2> HIDE DEF v, structs
  <2> SUFFICES ASSUME NEW t \in structs, NEW u \in pkg.types[t].fields, Plan(u, {}) \in Methods
               PROVE  lookupMethod(u, Plan(u, {}), v) \notin {"none", "odd"}
    BY <2>4 DEF CallbacksResolve, v
  <2>5. u \in LiveTypes
    BY <1>1, <2>3 DEF Sound, TypesResolve
  <2>6. lookupMethod(u, Plan(u, {}), {}) = "good"
    BY DEF Plan, Methods, implements
  <2>7. lookupMethod(u, Plan(u, {}), v) = "good"
    BY <2>1, <2>5, <2>6, StableLookups DEF Handmade
  <2> QED
    BY <2>7
<1> QED
  BY <1>3, <1>4, <1>5, <1>6

\* Generation converges for every package, every order of the runs and whatever outputs
\* there are at first: a run that succeeds writes what it would have written in a clean
\* package, and when all have succeeded their outputs fit together.
THEOREM OutputsConverge == Spec => []GenerationConverges
<1>1. Init => CInv
  <2> SUFFICES ASSUME Init PROVE CInv
    OBVIOUS
  <2>1. /\ run = Idle /\ outcome = [f \in Files |-> "none"]
        /\ disk = [p \in Paths |-> initial[p]] /\ surviving = [p \in Paths |-> {initial[p]}]
    BY DEF Init
  <2>2. TargetsOK
    BY <2>1 DEF TargetsOK, Bounded, Ever
  <2>3. SourcesOK
    BY <2>1 DEF SourcesOK
  <2> QED
    BY InitIInv, <2>2, <2>3 DEF CInv, Init
<1>2. CInv /\ [Next]_vars => CInv'
  BY GenerateConverges, OtherStepsConverge DEF Next
<1>3. CInv => GenerationConverges
  <2> SUFFICES ASSUME CInv, PromotionsStable PROVE GenerationConverges
    BY DEF GenerationConverges
  <2>1. \A f \in Files : outcome[f] = "ok" => disk[f] = Rendered(f, {})
    BY DEF CInv, SourcesOK
  <2> QED
    BY <2>1, ConvergedPackageBuilds DEF GenerationConverges
<1> QED
  BY <1>1, <1>2, <1>3, PTL DEF Spec
=============================================================================
