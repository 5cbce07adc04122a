------------------------------ MODULE Generator ------------------------------
(***************************************************************************)
(* maxminddb-gen: one run per source file of a package reads the package   *)
(* and the files that earlier runs left, decides which structs get methods *)
(* and how their fields are decoded, and replaces its output file.  Runs   *)
(* follow one another in any order; each may fail at any system call, be   *)
(* killed, or be cut off by a power failure.                               *)
(*                                                                         *)
(* A package is a record                                                   *)
(*   types     per type: file, target (exported and not ignored), embeds,  *)
(*             fields (the struct types its fields hold), supported (the   *)
(*             other fields), hand (per method: "none", "good", or "odd"   *)
(*             for a wrong signature)                                      *)
(*   built     the source files that the build constraints select          *)
(*   calls     the types whose methods handwritten code calls              *)
(*   reserved  the declared names that look like a helper's                *)
(* The text of generated code is abstracted to the methods and helpers it  *)
(* declares and to how each field is decoded.                              *)
(***************************************************************************)
EXTENDS Integers, Sequences, FiniteSets

CONSTANTS
    Files,             \* the source files that have a directive
    Packages,          \* the packages to generate for
    Outputs            \* the output files a package may start with

Methods == {"cursor", "decoder"}

\* A package has finitely many types; a method that a type has by hand has the right
\* signature or another.
ASSUME PackagesAssumption ==
    \A p \in Packages :
        /\ IsFiniteSet(DOMAIN p.types)
        /\ \A t \in DOMAIN p.types : \A m \in Methods :
               p.types[t].hand[m] \in {"none", "good", "odd"}

Superseded == "superseded"             \* an output path no directive uses any more
Paths == Files \cup {Superseded}       \* a directive's output is named by its file

VARIABLES
    pkg,               \* the package's sources
    initial,           \* the output files at the beginning
    disk,              \* disk[p]: the output file
    surviving,         \* surviving[p]: what a power failure may leave of it
    run,               \* the running generator: its file, next step and output
    temp,              \* its temporary file: a set of at most one
    litter,            \* temporary files left by interrupted runs
    outcome,           \* outcome[f]: how the last run for f ended
    interruptions      \* kills and power failures so far

vars == <<pkg, initial, disk, surviving, run, temp, litter, outcome, interruptions>>

-----------------------------------------------------------------------------
(* Loading the package.                                                      *)

\* What an output path may hold: nothing, somebody's source, or generated code.
Absent == [kind |-> "absent", targets |-> {}, plans |-> << >>, whole |-> TRUE]
Handwritten == [Absent EXCEPT !.kind = "handwritten"]
Source(targets, plans) ==
    [kind |-> "generated", targets |-> targets, plans |-> plans, whole |-> TRUE]

\* parseGeneratedFile: the files with the marker, as findGeneratedFiles collects them.
IsGenerated(content) == content.kind = "generated"

\* liveTypes: what the handwritten files of the build declare.
LiveTypes == {t \in DOMAIN pkg.types : pkg.types[t].file \in pkg.built}

\* signatureOverlay: of the generated files of the build only the methods are
\* kept, and of these none whose type is gone or has its own by now.
signatureOverlay(files, included) ==
    {tm \in LiveTypes \X Methods :
        /\ pkg.types[tm[1]].hand[tm[2]] = "none"
        /\ \/ tm[1] \in included
           \/ \E p \in files \cap (pkg.built \cup {Superseded}) :
                  IsGenerated(disk[p]) /\ tm[1] \in disk[p].targets}

Own(t, m, visible) ==
    IF pkg.types[t].hand[m] # "none" THEN pkg.types[t].hand[m]
    ELSE IF <<t, m>> \in visible THEN "generated" ELSE "none"

\* The types that a type embeds at depth n, one path for every way to get there.
EmbeddedAt[n \in Nat] ==
    IF n = 0 THEN [t \in LiveTypes |-> {<<t>>}]
    ELSE [t \in LiveTypes |->
             UNION {{<<t>> \o path : path \in EmbeddedAt[n - 1][u]} : u \in pkg.types[t].embeds}]

\* The method set of Go: the type's own method, or else the shallowest one that the
\* types it embeds have, if there is just one.
lookupMethod(t, m, visible) ==
    LET origin(path) == Own(path[Len(path)], m, visible)
        at(n)    == {path \in EmbeddedAt[n][t] : origin(path) # "none"}
        deepest  == Cardinality({u \in LiveTypes : pkg.types[u].embeds # {}})
        depths   == {n \in 1 .. deepest : at(n) # {}}
        nearest  == at(CHOOSE n \in depths : \A k \in depths : n <= k)
    IN  IF Own(t, m, visible) # "none" THEN Own(t, m, visible)
        ELSE IF depths = {} \/ (\E p, q \in nearest : p # q) THEN "none"
        ELSE origin(CHOOSE path \in nearest : TRUE)

\* Mutant: a method from an earlier generated file counts like a handwritten one.
ImplementsByAnyFile(t, m, visible) == lookupMethod(t, m, visible) \in {"good", "generated"}

\* implements: by a method of the right signature that is not generated.
implements(t, m, visible) == lookupMethod(t, m, visible) = "good"

\* packages.Load reports types that no file of the build declares, and calls that find
\* no method.
TypesResolve ==
    \A t \in LiveTypes : pkg.types[t].embeds \cup pkg.types[t].fields \subseteq LiveTypes
CallsResolve(visible) ==
    \A t \in pkg.calls \cap LiveTypes : lookupMethod(t, "cursor", visible) # "none"

-----------------------------------------------------------------------------
(* Analysing the targets of a file.                                          *)

\* discoverTargets
Candidates(f) == {t \in DOMAIN pkg.types : pkg.types[t].file = f /\ pkg.types[t].target}

\* addTargets: the first handwritten method decides, the deprecated one first.
Handling(t, visible) ==
    LET found == {m \in Methods : lookupMethod(t, m, visible) \in {"good", "odd"}}
        first == IF "decoder" \in found THEN "decoder" ELSE "cursor"
    IN  IF found = {} THEN "target"
        ELSE IF implements(t, first, visible) THEN "skip" ELSE "error"

Targets(f, visible) == {t \in Candidates(f) : Handling(t, visible) = "target"}

\* analyzeType: a callback where the type has one, cursors first, or a helper.
Plan(u, visible) ==
    IF implements(u, "cursor", visible) THEN "cursor"
    ELSE IF implements(u, "decoder", visible) THEN "decoder" ELSE "helper"

\* Per struct, the structs of its fields that need a helper.
Nested(visible) ==
    [t \in LiveTypes |-> {u \in pkg.types[t].fields : Plan(u, visible) = "helper"}]

\* The structs that analyzeStruct reaches from a set; reach[n] in at most n steps.
Reached(from, nested) ==
    LET longest == Cardinality({u \in LiveTypes : pkg.types[u].fields # {}})
        reach[n \in Nat] ==
            IF n = 0 THEN from
            ELSE LET nearer == reach[n - 1]
                 IN  nearer \cup UNION {nested[t] : t \in nearer}
    IN  reach[longest]

\* analyzeStruct: nothing embedded, nothing unsupported, no recursion.
Analyzable(t, visible) ==
    /\ pkg.types[t].embeds = {}
    /\ pkg.types[t].supported
    /\ t \notin Reached(Nested(visible)[t], Nested(visible))

\* A helper that is not a target's own carries the name of the output file.
helperName(f, targets, t) == IF t \in targets THEN <<t>> ELSE <<f, t>>

Helpers(f, source) == {helperName(f, source.targets, t) : t \in DOMAIN source.plans}

Rendered(f, visible) ==
    LET targets == Targets(f, visible)
        structs == Reached(targets, Nested(visible))
    IN  Source(targets, [t \in structs |-> [u \in pkg.types[t].fields |-> Plan(u, visible)]])

\* Every reason not to write, other than the checks of whole packages.
Refused(f, visible) ==
    \/ Candidates(f) = {}
    \/ ~(Candidates(f) \subseteq LiveTypes)
    \/ \E t \in Candidates(f) : Handling(t, visible) = "error"
    \/ Targets(f, visible) = {}
    \/ \E t \in Reached(Targets(f, visible), Nested(visible)) : ~Analyzable(t, visible)
    \/ Helpers(f, Rendered(f, visible)) \cap pkg.reserved # {}

CallbacksResolve(source, visible) ==
    \A t \in DOMAIN source.plans : \A u \in DOMAIN source.plans[t] :
        source.plans[t][u] \in Methods =>
            lookupMethod(u, source.plans[t][u], visible) \notin {"none", "odd"}

\* validateGeneratedPackage: the package with the new file and the others' methods.
validateGeneratedPackage(f, source) ==
    LET visible == signatureOverlay(Paths \ {f}, source.targets)
    IN  CallsResolve(visible) /\ CallbacksResolve(source, visible)

-----------------------------------------------------------------------------
(* Runs.                                                                     *)

Idle == [file |-> Superseded, step |-> "idle", source |-> Absent]

Init ==
    /\ pkg \in Packages
    /\ initial \in Outputs
    /\ disk = [p \in Paths |-> initial[p]]
    /\ surviving = [p \in Paths |-> {initial[p]}]
    /\ run = Idle /\ temp = {} /\ litter = {}
    /\ outcome = [f \in Files |-> "none"]
    /\ interruptions = 0

\* generatePackage up to the write.
Generate(f) ==
    /\ run = Idle
    /\ LET visible == signatureOverlay(Paths, {})
           accepted ==
               /\ disk[f] # Handwritten
               /\ \A p \in Paths : IsGenerated(disk[p]) => disk[p].whole
               /\ Candidates(f) \subseteq LiveTypes
               /\ TypesResolve /\ CallsResolve(visible)
               /\ ~Refused(f, visible)
               /\ validateGeneratedPackage(f, Rendered(f, visible))
       IN  IF accepted
           THEN /\ run' = [file |-> f, step |-> "create", source |-> Rendered(f, visible)]
                /\ UNCHANGED outcome
           ELSE outcome' = [outcome EXCEPT ![f] = "refused"] /\ UNCHANGED run
    /\ UNCHANGED <<pkg, initial, disk, surviving, temp, litter, interruptions>>

At(step) == run.step = step
GoTo(step) == run' = [run EXCEPT !.step = step]
Elsewhere == UNCHANGED <<pkg, initial, disk, surviving, litter, outcome, interruptions>>

CreateTemp ==
    /\ At("create") /\ GoTo("write")
    /\ temp' = {[whole |-> FALSE, synced |-> FALSE]}
    /\ Elsewhere

Write ==
    /\ At("write") /\ GoTo("chmod")
    /\ temp' = {[file EXCEPT !.whole = TRUE] : file \in temp}
    /\ Elsewhere

Chmod == At("chmod") /\ GoTo("sync") /\ UNCHANGED temp /\ Elsewhere

\* Mutant: the contents are left to the system to write.
NoSync == At("sync") /\ GoTo("close") /\ UNCHANGED temp /\ Elsewhere

Sync ==
    /\ At("sync") /\ GoTo("close")
    /\ temp' = {[file EXCEPT !.synced = TRUE] : file \in temp}
    /\ Elsewhere

CloseTemp == At("close") /\ GoTo("replace") /\ UNCHANGED temp /\ Elsewhere

\* The rename: readers see the old or the new file, and so does a system that
\* loses power, except that contents which were not synced may be incomplete.
Replace ==
    /\ At("replace")
    /\ \E file \in temp :
           /\ disk' = [disk EXCEPT ![run.file] = [run.source EXCEPT !.whole = file.whole]]
           /\ surviving' = [surviving EXCEPT ![run.file] =
                  @ \cup {[run.source EXCEPT !.whole = file.whole /\ file.synced]}]
    /\ outcome' = [outcome EXCEPT ![run.file] = "ok"]
    /\ run' = Idle /\ temp' = {}
    /\ UNCHANGED <<pkg, initial, litter, interruptions>>

\* Any of the calls fails: the deferred Remove takes the temporary file away.
Fail ==
    /\ run # Idle
    /\ outcome' = [outcome EXCEPT ![run.file] = "failed"]
    /\ run' = Idle /\ temp' = {}
    /\ UNCHANGED <<pkg, initial, disk, surviving, litter, interruptions>>

\* The process is killed.
Kill ==
    /\ run # Idle /\ interruptions = 0
    /\ interruptions' = 1
    /\ litter' = litter \cup temp
    /\ run' = Idle /\ temp' = {}
    /\ UNCHANGED <<pkg, initial, disk, surviving, outcome>>

\* The machine goes down, during a run or after it.
PowerFailure ==
    /\ interruptions = 0
    /\ interruptions' = 1
    /\ disk' \in {d \in [Paths -> UNION {surviving[p] : p \in Paths}] :
                     \A p \in Paths : d[p] \in surviving[p]}
    /\ surviving' = [p \in Paths |-> {disk'[p]}]
    /\ litter' = litter \cup temp
    /\ run' = Idle /\ temp' = {}
    /\ outcome' = [f \in Files |-> "none"]
    /\ UNCHANGED <<pkg, initial>>

Next ==
    \/ \E f \in Files : Generate(f)
    \/ CreateTemp
    \/ Write
    \/ Chmod
    \/ Sync
    \/ CloseTemp
    \/ Replace
    \/ Fail
    \/ Kill
    \/ PowerFailure

Spec == Init /\ [][Next]_vars

-----------------------------------------------------------------------------
(* Properties.                                                               *)

(* Whatever fails and wherever a run or the machine stops, every output path *)
(* holds what it held at first or a complete new file, a handwritten file is *)
(* never replaced, and no temporary file is left by a run that could clean   *)
(* up behind itself.                                                         *)
OutputsWhole ==
    /\ \A p \in Paths :
           \/ disk[p] = initial[p]
           \/ p \in Files /\ initial[p] # Handwritten /\ IsGenerated(disk[p]) /\ disk[p].whole
    /\ run = Idle => temp = {}
    /\ interruptions = 0 => litter = {}

\* No struct loses a handwritten method that it has or promotes, good or not, when
\* every type that is a target, or once was, has generated methods.
PromotionsStable ==
    LET ever == (UNION {Candidates(f) : f \in Files}) \cup (UNION {initial[p].targets : p \in Paths})
        visible == signatureOverlay({}, ever)
    IN  \A t \in LiveTypes : \A m \in Methods :
            lookupMethod(t, m, {}) \in {"good", "odd"} =>
                lookupMethod(t, m, visible) = lookupMethod(t, m, {})

(* Whichever outputs exist already, stale or new, and in whatever order the  *)
(* files are generated, a run that succeeds writes what it would have        *)
(* written with none of them; and when all have succeeded, and the outputs   *)
(* that were superseded are removed, the package builds: no method and no    *)
(* helper is declared twice, none replaces a handwritten one, and callbacks  *)
(* resolve.  That is, unless a struct promotes a handwritten method and      *)
(* would promote a generated one as well.                                    *)
GenerationConverges ==
    PromotionsStable =>
        /\ \A f \in Files : outcome[f] = "ok" => disk[f] = Rendered(f, {})
        /\ (\A f \in Files : outcome[f] = "ok") /\ disk[Superseded] = Absent =>
               LET visible == signatureOverlay(Files, {})
               IN  /\ \A f, g \in Files : f # g =>
                          /\ disk[f].targets \cap disk[g].targets = {}
                          /\ Helpers(f, disk[f]) \cap Helpers(g, disk[g]) = {}
                   /\ \A f \in Files : \A t \in disk[f].targets : \A m \in Methods :
                          pkg.types[t].hand[m] = "none"
                   /\ \A f \in Files : CallbacksResolve(disk[f], visible)

(* README: the directives "produce the same output regardless of their       *)
(* execution order or which generated files already exist".  So a file whose *)
(* generation would succeed in a package without generated files is not      *)
(* refused because of the files that exist.                                  *)
SucceedsInAnyOrder ==
    \A f \in Files :
        outcome[f] = "refused" /\ pkg.calls = {} /\ disk[f] # Handwritten =>
            Refused(f, {}) \/ ~CallbacksResolve(Rendered(f, {}),
                                   signatureOverlay({}, Rendered(f, {}).targets))
=============================================================================
