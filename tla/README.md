# A TLA+ verification of MSV

MSV (Unified Memory Safety Validation) is a set of LLVM passes that decides, for
every pointer of a C or C++ module, whether its uses are memory safe, and leaves
markers and metadata in the module for the back ends that protect the rest. This
directory holds TLA+ models of the passes, the TLC configurations that check them
on small programs, and machine-checked proofs about the pointer classification, the
points-to solver, the alias edges of the dependence graph, and the heap, stack and cast
analyses.

File names below are relative to `src/Unified-Memory-Safety-Validation/`; those of the
dependence graph are in `program-dependence-graph/src/`, those of the points-to
analysis in `program-dependence-graph/SVF/svf/`.

## 1. The system

| Part | Code | State | Operations | Module |
|---|---|---|---|---|
| Pointer table | `Utils.hpp`, `Utils.cpp` | `Variables`: class, size, flags of each pointer | register, classify, set size, null pointers | `AnalysisState` |
| CCured classification | `UnifiedMemSafe.cpp` | the table, dependent functions of globals, the iterator of the propagation | one handler per instruction kind, propagation over globals | `Classification` |
| Points-to analysis (SVF's AndersenWaveDiff) | `Andersen.cpp`, `AndersenWaveDiff.cpp`, `ConsG.cpp`, `SCC.h` | constraint graph, points-to and propagated sets, representatives, worklist | find cycles, merge, propagate, collapse, load and store, resolve calls | `ConstraintGraph`, `SCCDetection`, `Andersen` |
| Program dependence graph | `DataDependencyGraph.cpp`, `ControlDependencyGraph.cpp`, `ProgramDependencyGraph.cpp` | typed edges between instructions, sets of instructions on an object | data edges function by function, control edges, trees of globals | `DependenceGraph` |
| Heap pointers (Uriah) | `Uriah.cpp` | heap pointer sets by class, alias sets of allocations | collect, classify, expand aliases, reduce alias sets | `PointerSets` |
| Stack pointers (DataGuard) | `DataGuard.cpp` | stack pointer sets by class | classify, hand on | `PointerSets` |
| Casts | `CompatibleType.cpp` | the map of casts, erased while it is iterated | one cast per step | `CompatibleType`, `PointerSets` |
| Range domain and transfer | `ValueRange.cpp` | a map from values to ranges | one rule per instruction, branch constraints | `RangeValue`, `RangeTransfer` |
| Dataflow framework | `DataflowAnalysis.h` | results per (context, function), worklists, recursion | take a block, transfer, queue successors, analyse a callee | `ForwardDataflow` |
| Speculation window | `OutOfWindow.cpp` | remaining GEPs, call stack, visited positions | explore from each branch | `OutOfWindow` |
| Marking | `ValueRange.cpp`, `UnifiedMemSafe.cpp`, points-to wrapper | the module's code with markers, metadata | filter, mark, tag, remove | `Instrumentation` |
| Second stage (TaintPass) | `Taint.cpp` | two worklists, reachable GEPs | follow, split, unmark | `Taint` |

How they interact. The points-to analysis runs first; the dependence graph turns its
points-to sets into alias edges, which the heap analysis follows. The classification
gives each pointer a class (Safe, Seq for pointers with arithmetic, Dyn for pointers
cast between types). Uriah and DataGuard divide the Seq and Dyn pointers into heap and
stack pointers. Seq pointers go to the value range analysis, which is the dataflow
framework instantiated with the range domain; Dyn pointers go to the cast analysis. A
GEP whose index is not shown to stay in bounds is marked (or tagged, depending on the
options), unless OutOfWindowPass has shown that no branch can speculatively reach it.
TaintPass then takes the markers off GEPs that are not fed by a value loaded through a
marked GEP. The models meet in the same places: `RangeExecution` puts the range rules,
the framework and an execution of the program together; `Taint` extends
`Instrumentation`, so TaintPass runs on what the marking runs left; `PointerSets`
composes the dependence graph, Uriah, DataGuard and `CompatibleType`: the alias edges it
follows are the ones `DependenceGraph` has just built. The class of a pointer, the
points-to sets and the GEPs reported by the range rules are data of a program where the
module that computes them is another one.

What is hard here. The code has no threads. Its difficulties are maps that are changed
while they are iterated, results that depend on the order of addresses (`std::map` or
`unordered_map` keyed by pointers), flags cleared before the work they stand for is
done, state that leaks from one exploration or run into the next, differences that count
as propagated before they have arrived everywhere, nodes that are merged while others
still refer to them, fixpoints that have to end, recursion over a recursive program, and
fixed-width arithmetic about fixed-width arithmetic. `PROJECT.json` lists these hazards
line by line with the property that watches each.

## 2. The modules

In every module a *program* (an LLVM module reduced to what the pass looks at) is
a record chosen in `Init` from the constant `Programs` (`Codes` in
`StraightLine`); an instruction is a record with its kind and operands. Text
output, timing and counts that are only printed are left out everywhere.

**`AnalysisState`, `Classification`.** `Variables` is a total function with a field
`reg` for "in the map". The handlers (`processAllocaInst`, `processCallInst`,
`processStoreInst`, `processLoadInst`, `processGetElementPtrInst`, `processCastInst`)
are functions from tables to tables. A pointer load from null reads an uninitialised
field of a temporary entry, so `Outcomes` gives both results. `analyzeInstruction` is
one step of the walk through the functions. `visitGlobal`, `reprocessAlias` and
`endVisit` are the propagation: globals are met in any order, since the order is that of
a hash map, and if a rescan inserts a key the set that the iterator still reaches
becomes arbitrary (rehashing). The loop over the globals runs once. `seen` is a history
variable, the class a global had when its flag was last cleared.

**`RangeValue`, `RangeTransfer`.** The range domain (unknown, infinity, constant
range) with the two meets of the code, and the handlers of `RangeTransfer` on
APInts of width w; 64-bit arithmetic of the analysis is `WideBits`-bit here and
overflows in the same places. Entries created by `DenseMap::operator[]` are kept.
`lw` is the width of the lower bound where it differs from that of the value: the mask
rule of `And` gives a 1-bit lower bound. `Stripped` is `stripPointerCasts`, which
decides whether a pointer is an alloca or a call of malloc; the state is kept under the
pointer as it is written.

**`StraightLine`.** The concrete execution of any sequence of instructions next to
the abstract state computed by `RangeTransfer` for the same path. Instructions
whose result LLVM leaves undefined have no outcome: a division by zero, and an
operation marked `nsw` that overflows. A GEP of a heap pointer has a list of indices,
each with its stride. `exact` is a history variable, the pointers that were moved by
single values only, with only the last index other than 0.

**`ForwardDataflow`.** The recursion of `computeForwardDataflow` is a stack of
frames, each with its worklist; `WorkList::add` and `take` keep the code's
asymmetry (what `add` queues is not entered in `inList`). `contextWork` is the
outer worklist. A context is one call site, `ContextSize` being 1. `dirty` and
`dropped` in a frame are history: blocks with a changed predecessor, and blocks
dropped by the visit limit.

**`RangeExecution`.** After the analysis has ended, `main` is executed: calls return
any value, unguarded branches go either way.

**`OutOfWindow`.** The activations of `explore` are `frames`; `step` and `callStack`
are passed by reference in the code and are global here. `Within` is the reference
definition: the GEPs that an execution from a branch reaches within `Window`
instructions. Two variables are history: `explored` are the explorations begun, with the
calls to return from, `cut` those that returned at once because the same place had been
visited after as many steps, but with other calls to return from
(`OutOfWindow.cpp:182-186` compares the place and the steps only).

**`Instrumentation`, `Taint`.** `code` is the sequence of instructions and markers of
each block. A run has options; a module goes through up to `MaxRuns` runs, and a
TaintPass run may follow each. What the range analysis reports is any set, chosen
separately with and without `-use-pc` (`flagged`). `Without` is the erasure of the
instructions collected in `toBeRemoved`, by both passes. `InSomeOrder` stands for the
order in which new values join a queue, which no property depends on. A function that is
passed to another one as an argument counts as called there (`Taint.cpp`, `Callers`).

**`ConstraintGraph`, `SCCDetection`, `Andersen`.** The points-to solver. A node is a
value or an object; `<<x, 0>>` is the object x as a whole, `<<x, i + 1>>` its field i.
Edges are compared by kind and ends only, as the code does, so a gep between two nodes
that have one already is dropped. `phase` is the position in `solveConstraints`: the
recursive search for cycles step by step ("detect"), one merge per step, the wave
("wave"), in which a collapse of an object (`todo`, then `col` for its fields)
interrupts the topological order, loads and stores ("post", one new edge per step), the
parameters of resolved indirect calls ("connect"). `joined` is a history variable: the
objects that came to a pointer by a merge. As configured by the passes: differences and
persistent points-to sets on, cycles over fields detected, objects' first fields
distinct from the objects. Left out: virtual and variadic calls, the limit on indirect
call edges, the time limit, clustering, black-hole objects apart from the opaque ones,
negative offsets. A gep of offset 0 inside a cycle is dropped by the code like a copy,
and so it is here. The fields of an object wrap around beyond `MaxFieldLimit` and end at
the last one below it (`getModulusOffset`); the objects of the instance are below it, the
proofs cover both.

**`InclusionConstraints`, `AndersenRefinement`.** What an inclusion-based analysis
promises: the solution only grows, by what one closure under the constraints of the
program implies, and objects may give up their fields. The mapping gives each node the
points-to set of its representative, with the objects that are or are about to be
collapsed reduced to one node.

**`DependenceGraph`.** `edges` are triples of source, destination and type.
`runOnInstructions`, `addInstSet` and `connectAliasSets` are the parts of
`DataDependencyGraph::runOnModule` for one function: the edges of its instructions, then
`unique_alias_inst_set`, into which the objects' sets of instructions come in any order
and where the first comparable set decides, then the edges within each set. The
post-dominator tree is LLVM's and is defined by paths. The control edges are added in
one step after the data edges: the pass manager runs the pass on every function before
`ProgramDependencyGraph`, and it neither reads nor changes data edges. A parameter tree
of a global is built before its root has a debug type, so the root has no children and
the only edge that connecting it adds runs to the node itself or to its aliases.

**`CompatibleType`, `PointerSets`.** `buildGraph` is a step of `DependenceGraph`; the
analyses begin when the graph is complete. `order` is the order of addresses, which
decides where the loops over ordered maps are and whether an inserted key is still met.
The use of an iterator to an erased key (`CompatibleType.cpp:128`) is undefined: the
loop goes on from any key, or the pass stops (`crash`).

## 3. The runs

Each run is `tlc -config <cfg> <module>`. The state counts are of distinct states.

| Run | Module, cfg | Question | Result |
|---|---|---|---|
| classification | `MCClassification`, `Classification.cfg` | all instruction kinds over a global and null, and propagation between two globals | holds, 1,013,406 states |
| range_sound | `MCStraightLine`, `RangeSound.cfg` | are the range rules sound along a path | holds for the instructions of the run, 70,450 states |
| range_store | `MCStraightLine`, `RangeStore.cfg` | the same with a negative value stored and loaded | violated, finding 1 |
| dataflow | `MCForwardDataflow`, `Dataflow.cfg` | does the worklist lose a block, does it converge, recursion and calls | holds, 7,662 states |
| dataflow_callers | `MCForwardDataflow`, `DataflowCallers.cfg` | are callers queued when results change | violated, finding 2 |
| execution | `MCRangeExecution`, `Execution.cfg` | analysis followed by execution | holds, 20,658 states |
| out_of_window | `MCOutOfWindow`, `OutOfWindow.cfg` | does `explore` find exactly the window | holds, 40,604 states |
| out_of_window_stack | `MCOutOfWindow`, `OutOfWindowStack.cfg` | the same with two indirect calls | violated, finding 3 |
| taint | `MCTaint`, `Taint.cfg` | marking and TaintPass over three runs | holds, 301,831 states |
| pointer_sets | `MCPointerSets`, `PointerSets.cfg` | dependence graph, then heap, stack and cast analyses in every address order | holds, 150,706 states |
| andersen | `MCAndersen`, `Andersen.cfg` | does the wave solver solve the constraints, and derive only what they imply | holds, 86,377 states |
| andersen_merge | `MCAndersen`, `AndersenMerge.cfg` | the same for loads and stores of merged pointers | violated, finding 4 |

**Classification.** Every program of three instructions over all kinds, whose operands
are a global, null and earlier results, and every program of three stores, loads and
GEPs over two globals. Three instructions are what a flow through memory needs (index,
store, load), and two globals with every alias pair of neighbouring instructions
what a lost propagation needs: a rescan for one global that changes another one
already visited. Checked: an unsafe class never goes back to Safe (`ClassesRise`,
`ProcessedStayUnsafe`), unsafety follows stores and loads (`UnsafetyFlows`),
`didClassificationChange` announces every class change (`NoLostClassChange`), the rescan
of the dependent functions hands the class of an unsafe global on to what was processed
before it became unsafe (`RescanCatchesUp`), the pass ends although Seq and Dyn
alternate. A rescan may raise the flag of a global whose turn is over. The loop over the
globals runs once, so that flag stays up and nothing acts on it; `RescanCatchesUp`
speaks only of globals whose flag is down.

**Ranges.** `range_sound` runs up to five instructions of five programs of 5-bit
integers with 7-bit analysis arithmetic, so that sums and products overflow both
widths within the bound. `AcceptedInBounds` is the reason the pass may leave a GEP
without protection; `TypeOK` says that a bound always fits its width.

`RoomNotOverstated` says of a heap pointer that it has at least the room the analysis
counts. It holds for the pointers in `exact`: those moved only by indices with one
possible value each, of which only the last is not 0. Of an index with a range,
`handleGEP` subtracts the lower bound (`ValueRange.cpp:811`), and it multiplies every
index by the size of the last element type (`:814-824`), so a GEP with a range for an
index, or with two indices other than 0, can leave more room in the state than there
is. The run has such GEPs; what they compute, and what is computed from it, is excepted.

The programs leave out the rules for which `AcceptedInBounds` fails in the model:

- unsigned division (`ValueRange.cpp:590`);
- arithmetic on a value bounded by the unsigned maximum (`:302`);
- signed comparison with a constant that is not negative (`:285`);
- a comparison of a value whose alloca has been overwritten since it was loaded
  (`DataflowAnalysis.h:298`);
- `Trunc` of anything but a masked value that fits (the two bounds are truncated
  separately), and `ZExt` of a truncated value;
- a store through a cast or a zero GEP of an alloca, which changes the entry of the cast
  and leaves the entry of the alloca as it was (`:736`).

Arithmetic without `nsw` is in a program of its own, without memory and division. So the
run shows soundness of the remaining rules and of their combinations, not of the whole
transfer function.
The run may stop (`CHECK_DEADLOCK FALSE`): the bound `MaxSteps` ends a path.

**Dataflow.** The programs of `dataflow` have six control-flow graphs (line, diamond,
loop with both predecessor orders, self-loop, nested loops) with four bodies for each
inner block, with and without `-use-pc`. `MaxVisits` is 25 there (100 in the code).
`LimitNotReached` shows that these programs converge before the limit, loops included.
It does not show that the limit never matters: it counts how often a block is queued,
once for each predecessor that changes, so a join with more predecessors than the limit
reaches it without any loop. `NoLostBlock` says that the result is a real fixpoint,
except for the blocks dropped at the limit, which are those behind the `break`
(`DataflowAnalysis.h:480`), too. Sixty call structures with direct and mutual recursion
show that the recursion of the analysis ends (`Terminates`) and that every callee is
analysed in its context (`CalleesAnalyzed`). `execution` closes the circle: an index
accepted at the end of the analysis is in bounds in every execution, loops included,
with 3-bit integers and arrays of up to three elements. Its execution ends with the
program, hence `CHECK_DEADLOCK FALSE`.

**Window.** About a thousand modules of three functions, window 5: deep enough to
cross a call, a return and a branch. `InWindowErased` and `OnlyInWindowErased`
compare the result with `Within` in both directions. Left out: recursive functions
(`OutOfWindow.cpp:257`), a switch whose default is none of its cases (`:164`), functions
called only through pointers (`:453`), the window's last instruction behind an invoke of
a declaration (`:226`). The first property fails for them. One exception is stated in
`InWindowErased` itself: a function called from two places after as many steps is
explored for the first of them only (`:182-186`), and what an execution reaches by
returning to the second may be missed. The run has modules in which this happens
(`CalledTwice`), and the property holds for everything else in them.

**Marking and taint.** Three modules of three GEPs (straight code, calls, a loop; the
first also without an entry function), every set of reported GEPs, five option
records, three runs in a row. Three runs are needed: a run, the `-diff-only` run on
its markers, and one that meets the results of both. `WellMarked` (each marker next
to its GEP, one pair per GEP) is what the back end and TaintPass rely on;
`ReportedProtected`, `DiffExact` and `SecondStageKept` say that the filters lose no
reported GEP. The properties state their exceptions:

- A run with both `-use-pc` and `-diff-only` removes the markers it has just inserted
  (`UnifiedMemSafe.cpp:1250`). `ReportedProtected` does not speak of it, `DiffExact` only
  of a `-use-pc` run followed by a `-diff-only` run, so neither speaks of the GEPs that
  such a run takes for marked by an earlier one (`:1223`).
- With `-diff-only` and without baggy bounds, `ReportedProtected` takes for protected what
  the filter takes for protected (`ValueRange.cpp:1208`): a GEP of which one possible
  object is tagged, or has no allocation to tag.
- A GEP that is stored through is put into `ReachableGEPs`, which is also the visited set
  of the second search (`Taint.cpp:79`): when a loaded value arrives there later, it is
  not followed further. `SecondStageKept` therefore cuts the data off at these GEPs where
  it asks for markers, and not where it says which markers may stay.

**Dependence graph and pointer sets.** Four families of programs: five pointers each an
alias of the next, chains of three casts between three types, five allocations that
share up to three objects, and every control-flow graph of four blocks with up to two
successors each in which the last block returns and no loop is endless. Every order of
the objects and of the addresses the loops depend on. Three objects and five
instructions are what the reduction needs to go wrong: two incomparable sets and a third
that contains one of them. `AliasEdgesExact` compares the alias edges with the points-to
sets and the syntactic query in both directions, `ControlExact` the control edges with
the definition of control dependence. The latter holds with one difference, which the
property states: a block depends on itself only if it is its own successor, where the
definition asks for any loop through the block. Nothing in UnifiedMemSafePass reads
control edges. `UnsafeAliasesFound` bounds the result of the loop that inserts into its
own map from both sides, since its exact result depends on addresses (the closure is not
always completed). `NonAliasedExact` shows that the reduction of alias sets is
independent of the order. `SeqChecked` excepts pointers computed directly from a global,
which neither the heap nor the stack analysis takes, and `UnsafeCastsKept` the operands
of safe casts, which are erased with them; once an erased key has been used it no longer
promises that all the safe casts are gone. The use of an erased iterator, and a pointer
that is in both the heap and the stack sets, are reachable in this instance.

**Points-to analysis.** 816 modules: every subset of seven constraints that close cycles
through memory, of eight that close cycles changing the field, of seven that collapse
an object whose field is part of the graph, of six around two geps that become parallel,
and of seven around an indirect call of a function or of an allocator. Five pointers and
objects of two fields are enough for a cycle in which another one is merged later, for a
positive weight cycle, and for a field merged while the wave runs. `NothingSkipped` is
the reason that differences suffice: whatever a node counts as propagated has arrived at
the targets of its edges. `DirectSolved` and `MemorySolved` say that the result solves
the constraints, except where it does not: a load or store through a pointer that got
the object by a merge (finding 4), and a gep that a merge made parallel to another one,
which is dropped because edges are compared without their offset (`ConsG.cpp:217`, no
statement of the repository to compare it with). `Refines` is the other direction, by
refinement of `InclusionConstraints`: no step adds anything the constraints do not imply.
`NeverForgets` and `EdgesOnReps` are about collapses and merges in the middle of a wave.

**Fairness.** Every specification with a liveness property has weak fairness of
`Next`: the passes run on one thread, to the end, and nothing else happens in
between. No action has a fairness of its own; when several are enabled (an
iteration order), termination holds for every choice.

**Mutants.** For each property of a passing run `PROJECT.json` names a change of one
definition, as a plausible slip in the code would be, under which TLC finds the
property violated. The definitions commented as mutants, or standing directly in
front of the definition they vary and used nowhere else, are these.

## 4. Findings

1. `ValueRange.cpp:758`, run range_store. `handleStore` takes every constant range
   for an allocation size and writes `[0, r]`; a value in `[-1, 0]`, stored and
   loaded, becomes `[0, 0]` and is accepted as an index. The transfer function sets
   unknown cases to infinity "to retain soundness" (`ValueRange.cpp:714`).
2. `DataflowAnalysis.h:498`, run dataflow_callers. `results` and `oldResults` refer to
   the same object, so their comparison never differs and no caller is queued; the
   comment says "all callers must be updated as well" (`DataflowAnalysis.h:495`).
3. `OutOfWindow.cpp:137`, run out_of_window_stack. `callStack` is cleared after the
   exploration of a branch and not after that of a call, so a later exploration
   returns to a stale call site; a GEP three instructions behind an indirect call
   stays in the result. The comment says "treat indirect call as a branch"
   (`OutOfWindow.cpp:135`).
4. `Andersen.cpp:806`, run andersen_merge. `mergeSrcToTgt` unites the points-to sets and
   moves the load and store edges but does not put the representative on the worklist,
   from which alone loads and stores are processed. The run ends with a store
   through a merged pointer that the pointed-to object never received: its points-to set
   is empty; the comments on `processLoad` and
   `processStore` say that each pointed-to node gets its copy edge (`Andersen.cpp:347`,
   `:367`).

## 5. The proofs

`ClassificationProofs` proves, for all sets of values, globals, functions and programs
that satisfy `NullAssumption`, `GlobalAssumption`, `NoneAssumption` and
`ProgramAssumption` (operands are values, sizes are sizes, alias pairs are pairs of
instructions):

| Theorem | Property |
|---|---|
| `TypeCorrect` | `TypeOK` |
| `ClassChangesAnnounced` | `NoLostClassChange` |
| `UnsafeAfterProcessing` | `ProcessedStayUnsafe` |
| `ClassesOnlyRise` | `ClassesRise` |
| `UnsafetyFlowsThroughMemory` | `UnsafetyFlows` |
| `PropagationCatchesUp` | `RescanCatchesUp` |

The argument. Every handler is a composition of four updates of the table.
`Evolves(V, W)` says what such a composition may do: the new table is typed and
without class Unknown, no entry disappears, `isGlobal` stays, Seq or Dyn never
becomes Safe, a raised flag stays raised, and a new class of a global raises its
flag. The relation is reflexive and transitive, each update establishes it, and so
each handler does. None of the properties is inductive alone: `NoLostClassChange`
needs to know that the entries of `Global` are the ones with `isGlobal` and that the
propagation only rescans real instructions, `ProcessedStayUnsafe` needs the typed
table and that GEPs and classified casts leave their operands unsafe. The inductive
invariant `IInv` collects them with the facts about `phase`, `pc` and `rescan`, and
`NextIInv` has one lemma per action. `UnsafetyFlows` needs in addition that a location,
once a pointer indexed before was stored to it, stays unsafe, and so does each later load
from it. `RescanCatchesUp` speaks of the end of the pass only; `CatchInv` says what holds
on the way there. When the flag of a global has been cleared with an unsafe class, which
`seen` records, each instruction that is to hand the class on has done so or is still in
`rescan` with that global being visited (`ToDo`). The visit puts all of them there,
because the dependent functions are complete by then: every instruction processed so far
recorded its function. A global with its flag down has the class of `seen` by
`NoLostClassChange`. The hash map's iteration order, rehashing and
the uninitialised read are part of `Next`, so the theorems hold for all of them.

`AndersenProofs` proves, for every module, every set of values and objects and every
order of the nodes (`FieldsAssumption`: an object has at least one field, the limit is a
number; `ObjAssumption`: opaque objects hold no pointers; `ProgramsAssumption`:
constraints, parameters and results are nodes):

| Theorem | Property |
|---|---|
| `DifferencesSound` | `NothingSkipped` |
| `PointsToKept` | `NeverForgets` |

The argument. `Cov(o, S, F)` says that o is in S or that its object lost its fields and
stands in S as a whole. Covering is kept when S and F grow (`CovGrows`), and so is the
covering of what an edge passes on, although the edge itself passes on another object
once F has grown (`PassGrows`). A merge keeps in `propa` only what both nodes had
propagated, so every edge of either has delivered it (`Merge`); a new edge keeps only
what both ends had propagated, and what the target has propagated it points to
(`NewEdge`, which is why `NothingSkipped` has its second conjunct); a node processed by
the wave delivers its whole difference (`Propagates`). `NothingSkipped` is inductive
together with the types and the fact that a field being merged belongs to an object that
has lost its fields: `IInv == TypeOK /\ NothingSkipped /\ \A f \in col : name(f) \in fi`.

`DependenceGraphProofs` proves `AliasEdges`, that `DependenceGraph` satisfies
`AliasEdgesExact` for every program whose functions have a control-flow graph
(`ProgramsAssumption`), every order of the objects and every choice among comparable
sets. `AliasEdgesExact` says nothing while the sets of a function are collected, so the
invariant adds that no edge is ever wrong (`AliasSound`), that the edges of the
syntactic query are complete before the sets are connected (`QueryConnected`), and that
every object met so far is covered by a set which is the set of one object
(`SetsCover`). The heart is `ReductionCovers`: replacing a set by a larger one, or
dropping the new one, loses no pair, whichever comparable set is found first.

`PointerSetsProofs`, `AllocationProofs` and `CastProofs` prove the safety properties of
the composition `PointerSets` for every program and every order of the objects and
addresses. They assume that operands are listed in order (`ProgramsAssumption`), that
the pointer variables are finitely many and that no two have the same address
(`OrdersAssumption`). The properties speak of the end of the pass; for each of them an
invariant says what the stages have reached, on top of `Sets`, which types the maps:

| Theorem | Property | Invariant and argument |
|---|---|---|
| `EverySeqChecked` | `SeqChecked` | `Checked`: no heap pointer leaves the map before it is handed on. A pointer that is not a stack pointer has an allocation among its operands and, without globals, is a heap pointer. |
| `AliasesFound` | `UnsafeAliasesFound` | `UnsafeFound`: every key of the start that lies before the iterator has been expanded, and the growing map is inside every set closed under unsafe aliases. A key inserted behind the iterator's back is never one of the start. |
| `AllocationsExact` | `NonAliasedExact` | `Allocations`: each object met is covered by a set of calls, each of which belongs to one object (`ReductionCovers` again); a set of more than one call has two that share it. |
| `CastsAreKept` | `UnsafeCastsKept` | `CastsJudged`: what is gone was safe or the operand of a safe cast, and no safe cast lies before the iterator, unless an erased key was used. |
| `AliasEdgesComposed` | `AliasEdgesExact` | the invariant of `DependenceGraphProofs` holds as long as the graph is built, and no analysis goes back to building it. |

The loops need that a map has a next key (`AfterIsNext`), which rests on the least element
of a set of natural numbers (`LeastNatural`, from the well-foundedness of `<`).

Only model-checked: all liveness properties (the prover does not handle fairness),
`Refines` (the closure is recursive), `CyclesFound`, the two properties about solved
constraints, `ControlExact`, and everything about the modules not named above. `Refines`
has no proof for a second reason: the mapping counts objects as collapsed before they
are.

## 6. What is not modelled

- LLVM, and the rest of the vendored SVF: the construction of its IR from LLVM,
  the other solvers, the value-flow, taint and abstract-execution tools. The passes
  construct only AndersenWaveDiff. SVF and the patched back ends are most of the 128,845
  lines under `src/`; they are libraries that the passes do not call, which is why the
  share of all lines that the modules cover is small. Of the solver, what section 2 names
  is left out.
- In the dependence graph: the debug types of nodes, the searches of `Graph.cpp`, the
  parameter trees of functions and calls, whose connection is commented out in
  `ProgramDependencyGraph.cpp:51`, and the call graph's paths. UnifiedMemSafePass uses
  none of them. The analyses on top of the graph that it does not require (shared data,
  boundaries, atomic regions, data access) are not modelled either.
- `isOutsideWindow` and the definition counts of OutOfWindowPass, which only feed
  printed statistics.
- References into containers that move (`DataflowAnalysis.h:544`), or to a local set
  (`findNodesReachedByEdge`, `Graph.cpp:74`): the states of the models are values.
- IRSafeStack, NesCheck, the patched LLVM back ends, the build scripts: see the
  component list in `PROJECT.json` for the reason for each.

Some things are modelled as the code has them and no property speaks about them,
because the repository says nothing of what they should be: the root of an
allocation is its size argument, so two allocations of the same variable size count
as aliases (`Uriah.cpp:117`); the search for a downcast compares an iterator with a
type and finds none (`CompatibleType.cpp:52`); a pointer that TaintPass sees stored
to memory is not followed further (`Taint.cpp:80`); a heap object of an external
allocator has no allocation to tag (points-to wrapper, `PTAWrapper.cpp:151`), and
`ReportedProtected` excepts it; a store is credited to the source that reached it first
(`Taint.cpp:77`); an unsafe pointer loaded from a slot is analysed both as a heap and as
a stack pointer (`DataGuard.cpp:151`).

## 7. Plan

Modules, in this order:

1. The reader of the markers in `X86SpeculativeLoadHardening.cpp`, composed with
   `Taint`: it finds the GEP of every marker, from `WellMarked`.
2. `AtomicRegion`: pairing of lock and unlock calls, of which the map keeps one unlock
   per lock (`AtomicRegionAnalysis.cpp:165`).
3. `Andersen` in front of `DependenceGraph`: the points-to sets of a program are then
   the solver's. The two instances have to be cut down to a common one first.
4. `Graph.cpp`'s searches, once something reads their results.

Abstract specifications: a marking that only grows the set of protected GEPs, which
`Instrumentation` implements outside `removeMarkers`; a chaotic iteration of the
range equations, which `ForwardDataflow` implements for one function.

Runs: a history variable in `StraightLine` that records when a rule outside the sound
ones was used lets `range_sound` cover every instruction.

Theorems: `EdgesOnReps`, which needs that no node on the stack of the search is merged
twice; `WellMarked` and `ProgramKept` for every program and any number of runs;
`NoLostBlock` for every control-flow graph; that the bounds built by `RangeTransfer` fit
their width, and that the meet only loses precision.
