--------------------------- MODULE Instrumentation ---------------------------
(***************************************************************************)
(* How UnifiedMemSafePass writes its results into the module.  A run of    *)
(* the pass calls valueRangeAnalysis for the heap pointers and then for    *)
(* the stack pointers; each call puts a pair of inline-assembly markers    *)
(* around the GEPs it cannot show to stay in bounds, or tags them for      *)
(* another protection.  A module goes through several runs with different  *)
(* options, so a run meets the markers of the runs before.                 *)
(*                                                                         *)
(* An instruction is a name; the program gives its kind and its operands   *)
(* (of a store: the value, then the pointer; of a GEP or a load: the       *)
(* pointer first).  pts is the points-to relation on base objects, site    *)
(* the allocation of an object (None if there is none).  flagged[b] is     *)
(* what the range rules (StraightLine, RangeExecution) report with         *)
(* UsePC = b, oow the result of OutOfWindowPass.                           *)
(***************************************************************************)
EXTENDS Integers, Sequences, Functions, FiniteSets

CONSTANTS Programs,
          Options,     \* the option records a run may be started with
          MaxRuns,     \* bound on the runs over one module
          None

VARIABLES
    prog,
    flagged,
    code,        \* per block, the instructions and markers in order
    unsafeTag,   \* metadata dualguard.unsafe
    dponlyTag,   \* metadata dualguard.unsafe.dponly
    history,     \* the options of the runs so far, the last one current
    stage,
    pending,     \* heapUnsafeSeqPointerSet still to be marked
    reported     \* history: what this run put into heapUnsafeSeqPointerSet

vars == <<prog, flagged, code, unsafeTag, dponlyTag, history, stage, pending, reported>>

Kind(v) == IF v \in DOMAIN prog.insts THEN prog.insts[v].kind ELSE "other"
Ops(i) == prog.insts[i].ops
Insts(k) == {i \in DOMAIN prog.insts : prog.insts[i].kind = k}
Users(v) == {i \in DOMAIN prog.insts : v \in Range(Ops(i))}
Pointer(i) == IF Kind(i) = "store" THEN Ops(i)[2] ELSE Ops(i)[1]
Objects(v) == IF v \in DOMAIN prog.pts THEN prog.pts[v] ELSE {}
option == history[Len(history)]

-----------------------------------------------------------------------------
(* The markers.                                                             *)

MAGIC_ASM_BEGIN == "magic begin"
MAGIC_ASM_END == "magic end"
NORMAL_MAGIC_ASM_BEGIN == "normal begin"
NORMAL_MAGIC_ASM_END == "normal end"
NormalMarkers == {NORMAL_MAGIC_ASM_BEGIN, NORMAL_MAGIC_ASM_END}
MagicMarkers == {MAGIC_ASM_BEGIN, MAGIC_ASM_END}
EndMarkers == {NORMAL_MAGIC_ASM_END, MAGIC_ASM_END}
Markers == NormalMarkers \cup MagicMarkers

\* An instruction has one place in the module, the markers are none of the
\* program's instructions, and a block does not end in a GEP.  Objects have a known
\* allocation, which is no GEP, or none.
ASSUME ProgramAssumption ==
    \A p \in Programs :
        /\ DOMAIN p.insts \cap Markers = {}
        /\ p.code \in [DOMAIN p.code -> Seq(DOMAIN p.insts)]
        /\ \A b, c \in DOMAIN p.code : \A j \in DOMAIN p.code[b], k \in DOMAIN p.code[c] :
              p.code[b][j] = p.code[c][k] => b = c /\ j = k
        /\ \A g \in p.heap \cup p.stack :
              /\ g \in DOMAIN p.insts /\ p.insts[g].kind = "gep"
              /\ \E b \in DOMAIN p.code : \E k \in 1 .. Len(p.code[b]) - 1 : p.code[b][k] = g
        /\ \A v \in DOMAIN p.pts : p.pts[v] \subseteq DOMAIN p.site
        /\ \A o \in DOMAIN p.site : p.site[o] \in DOMAIN p.insts => p.insts[p.site[o]].kind # "gep"
        /\ p.entry \in BOOLEAN

\* taint tells the runs of TaintPass in the history.
ASSUME OptionAssumption ==
    Options \subseteq [usePC : BOOLEAN, diffOnly : BOOLEAN, sfiOnly : BOOLEAN, useBaggy : BOOLEAN, oow : BOOLEAN, taint : {FALSE}]

\* The GEPs directly in front of an end marker of the given kind.
GEPsBefore(marker) ==
    UNION {{code[b][k - 1] : k \in {j \in 2 .. Len(code[b]) : code[b][j] = marker /\ Kind(code[b][j - 1]) = "gep"}} : b \in DOMAIN code}

\* The sequence s without its elements at the given places.
Without(s, places) ==
    LET kept[n \in 0 .. Len(s)] ==
            IF n = 0 THEN <<>> ELSE IF n \in places THEN kept[n - 1] ELSE Append(kept[n - 1], s[n])
    IN  kept[Len(s)]

Erased(c, markers) == [b \in DOMAIN c |-> Without(c[b], {k \in DOMAIN c[b] : c[b][k] \in markers})]

BlockOf(c, g) == CHOOSE b \in DOMAIN c : g \in Range(c[b])
Place(c, g) == CHOOSE k \in DOMAIN c[BlockOf(c, g)] : c[BlockOf(c, g)][k] = g

NeverMarked(c, g) == FALSE
alreadyMarked(c, g) == c[BlockOf(c, g)][Place(c, g) + 1] \in EndMarkers

Inserted(c, g) ==
    LET k == Place(c, g)
        s == c[BlockOf(c, g)]
        pair == IF option.usePC THEN <<NORMAL_MAGIC_ASM_BEGIN, g, NORMAL_MAGIC_ASM_END>>
                                ELSE <<MAGIC_ASM_BEGIN, g, MAGIC_ASM_END>>
    IN  [c EXCEPT ![BlockOf(c, g)] = SubSeq(s, 1, k - 1) \o pair \o SubSeq(s, k + 1, Len(s))]

-----------------------------------------------------------------------------
(* tagOperationsForProtections.                                             *)

insertUnsafePts(geps) == UNION {Objects(Pointer(g)) : g \in geps}
isPointToUnsafeObjects(objs, v) == Objects(v) \cap objs # {}
onlyUsedInLoadStore(g) ==
    /\ Users(g) # {}
    /\ \A u \in Users(g) : Kind(u) = "load" \/ (Kind(u) = "store" /\ Ops(u)[2] = g)

Tagged(geps) ==
    LET objs == insertUnsafePts(geps)
    IN  geps \cup {prog.site[o] : o \in {x \in objs : prog.site[x] # None}}
             \cup {i \in Insts("load") \cup Insts("store") : isPointToUnsafeObjects(objs, Pointer(i))}
             \cup {i \in Insts("cmp") : \E v \in Range(Ops(i)) : isPointToUnsafeObjects(objs, v)}
DponlyTagged(geps) ==
    {g \in Insts("gep") \ geps : isPointToUnsafeObjects(insertUnsafePts(geps), Pointer(g)) /\ ~onlyUsedInLoadStore(g)}

tagOperationsForProtections(sets) ==
    /\ unsafeTag' = unsafeTag \cup UNION {Tagged(s) : s \in sets}
    /\ dponlyTag' = dponlyTag \cup UNION {DponlyTagged(s) : s \in sets}

-----------------------------------------------------------------------------
(* A run of the pass.                                                       *)

Init ==
    /\ prog \in Programs
    /\ flagged \in [BOOLEAN -> SUBSET (prog.heap \cup prog.stack)]
    /\ code = prog.code
    /\ unsafeTag = {} /\ dponlyTag = {} /\ pending = {} /\ reported = {}
    /\ history = <<>>
    /\ stage = "ready"

startRun(o) ==
    /\ stage = "ready" /\ Len(history) < MaxRuns
    /\ history' = Append(history, o)
    /\ stage' = "heap" /\ reported' = {}
    /\ UNCHANGED <<prog, flagged, code, unsafeTag, dponlyTag, pending>>

\* What -diff-only takes out: with baggy bounds the GEPs that carry the markers
\* of a -use-pc run, otherwise every GEP that shares an object with one of them.
Covered(g) ==
    LET dgUnsafeGEPs == GEPsBefore(NORMAL_MAGIC_ASM_END)
    IN  IF option.useBaggy THEN g \in dgUnsafeGEPs
        ELSE isPointToUnsafeObjects(insertUnsafePts(dgUnsafeGEPs), Pointer(g))

TagsReported(pointerSet) ==
    LET unsafe == (flagged[option.usePC] \cap pointerSet) \ (IF option.oow THEN prog.oow ELSE {})
    IN  /\ reported' = reported \cup unsafe
        /\ tagOperationsForProtections(IF option.sfiOnly \/ option.diffOnly THEN {unsafe} ELSE {})
        /\ pending' = {g \in unsafe : ~(option.diffOnly /\ Covered(g))}

valueRangeAnalysis(pointerSet) ==
    LET unsafe == (flagged[option.usePC] \cap pointerSet) \ (IF option.oow THEN prog.oow ELSE {})
    IN  /\ reported' = reported \cup unsafe
        /\ tagOperationsForProtections((IF option.sfiOnly THEN {unsafe} ELSE {})
                                       \cup (IF option.diffOnly THEN {GEPsBefore(NORMAL_MAGIC_ASM_END)} ELSE {}))
        /\ pending' = {g \in unsafe : ~(option.diffOnly /\ Covered(g))}

heapPointers ==
    /\ stage = "heap" /\ stage' = "mark heap"
    /\ IF prog.entry THEN valueRangeAnalysis(prog.heap) ELSE UNCHANGED <<reported, unsafeTag, dponlyTag, pending>>
    /\ UNCHANGED <<prog, flagged, code, history>>

stackPointers ==
    /\ stage = "mark heap" /\ pending = {} /\ stage' = "mark stack"
    /\ IF prog.entry THEN valueRangeAnalysis(prog.stack) ELSE UNCHANGED <<reported, unsafeTag, dponlyTag, pending>>
    /\ UNCHANGED <<prog, flagged, code, history>>

\* The loop runs in the order of the instructions' addresses.
markPointer(g) ==
    /\ stage \in {"mark heap", "mark stack"}
    /\ code' = IF alreadyMarked(code, g) THEN code ELSE Inserted(code, g)
    /\ pending' = pending \ {g}
    /\ UNCHANGED <<prog, flagged, unsafeTag, dponlyTag, history, stage, reported>>

RemovesAllMarkers ==
    /\ stage = "mark stack" /\ pending = {} /\ stage' = "ready"
    /\ code' = IF option.diffOnly \/ option.sfiOnly THEN Erased(code, Markers) ELSE code
    /\ UNCHANGED <<prog, flagged, unsafeTag, dponlyTag, history, pending, reported>>

removeMarkers ==
    /\ stage = "mark stack" /\ pending = {} /\ stage' = "ready"
    /\ code' = IF option.diffOnly \/ option.sfiOnly
               THEN Erased(code, NormalMarkers \cup (IF option.sfiOnly THEN MagicMarkers ELSE {})) ELSE code
    /\ UNCHANGED <<prog, flagged, unsafeTag, dponlyTag, history, pending, reported>>

RunStep ==
    \/ \E o \in Options : startRun(o)
    \/ heapPointers
    \/ stackPointers
    \/ \E g \in pending : markPointer(g)
    \/ removeMarkers

-----------------------------------------------------------------------------
(* Properties.                                                              *)

\* Whatever runs a module goes through, every marker belongs to a GEP: a begin
\* marker stands directly in front of it, the end marker of the same kind
\* directly behind it, and no GEP has two pairs.  X86SpeculativeLoadHardening
\* and TaintPass rely on it to find the GEP of a marker.
WellMarked ==
    \A b \in DOMAIN code : \A k \in DOMAIN code[b] : code[b][k] \in Markers =>
        LET Pair(j, first, last) == j > 1 /\ j < Len(code[b]) /\ Kind(code[b][j]) = "gep"
                                    /\ code[b][j - 1] = first /\ code[b][j + 1] = last
            Between(j) == Pair(j, MAGIC_ASM_BEGIN, MAGIC_ASM_END) \/ Pair(j, NORMAL_MAGIC_ASM_BEGIN, NORMAL_MAGIC_ASM_END)
        IN  IF code[b][k] \in EndMarkers THEN Between(k - 1) ELSE Between(k + 1)

\* Inserting and removing markers leaves the program's own instructions alone,
\* in their order.
ProgramKept == Erased(code, Markers) = prog.code

\* When a run ends, each GEP it could not show to stay in bounds is protected in
\* some way: it is marked, it is tagged, or (-diff-only without baggy bounds) it
\* shares an object with a tagged GEP whose allocation is tagged.  Only a run with
\* both -use-pc and -diff-only takes off the markers that it has put.
ReportedProtected ==
    (stage = "ready" /\ history # <<>> /\ ~option.taint /\ ~(option.usePC /\ option.diffOnly)) =>
        \A g \in reported :
            \/ g \in GEPsBefore(MAGIC_ASM_END) \cup GEPsBefore(NORMAL_MAGIC_ASM_END) \cup unsafeTag
            \/ /\ option.diffOnly /\ ~option.useBaggy
               /\ \E o \in Objects(Pointer(g)) \cap insertUnsafePts(unsafeTag \cap Insts("gep")) :
                     prog.site[o] \in unsafeTag \cup {None}

\* -diff-only after -use-pc gives "the difference between DG and DG--": marked
\* are the GEPs that only the analysis without path conditions reports, tagged
\* the ones that both or only the first report.
DiffExact ==
    (stage = "ready" /\ prog.entry /\ Len(history) = 2
        /\ history[1] = [usePC |-> TRUE, diffOnly |-> FALSE, sfiOnly |-> FALSE, useBaggy |-> TRUE, oow |-> option.oow, taint |-> FALSE]
        /\ option = [history[1] EXCEPT !.usePC = FALSE, !.diffOnly = TRUE]) =>
        LET Reported(pc) == flagged[pc] \ (IF option.oow THEN prog.oow ELSE {})
        IN  /\ GEPsBefore(MAGIC_ASM_END) = Reported(FALSE) \ Reported(TRUE)
            /\ unsafeTag \cap Insts("gep") = Reported(TRUE)

=============================================================================
