# A verification development for R2-Piler

R2-Piler (`src/`) compiles R2, a small typed language, to x86-64 assembly. It
is a sequential C program of about 17 000 lines: no threads, no network, no
state that survives a run. What makes it hard is of another kind. Long chains of
rewriting steps each rely on facts a previous step established and a later one
may have made stale; moves that must look simultaneous are carried out one after
the other; counters and tables are kept up to date by hand; and the output has
to keep its meaning whatever a program's control flow, aliasing and register
pressure look like. Those are the things modelled here, with TLA+ modules that
TLC checks on small instances, from the syntax tree to the instructions of the
machine, and, for most components of the back end and for the order in which
initializers and functions are generated, proofs that TLAPS checks for every
instance.

All paths below are relative to the repository's `src/src/` unless they start
with `src/`.

Contents: [inventory](#inventory), [plan](#plan), [modules](#modules-and-the-code),
[runs](#runs-and-bounds), [fairness](#fairness-and-termination),
[proofs](#proofs), [known divergences](#known-divergences),
[what is not modelled](#what-is-not-modelled).

## Inventory

The compiler is a pipeline (`compiler.c`): lexer -> parser -> semantic analysis
-> IR -> optimizer (from -O1) -> code generator. A phase starts only when the
one before reported no error. Phases communicate through data they own: tokens,
the syntax tree `AST`, the symbol table, the IR, and at the end a text buffer.
All of it lives in six arenas; `release_frontend` frees tree and symbols as soon
as the IR stands.

| Component | State | Operations | Hard behaviour | Correct when |
|---|---|---|---|---|
| Arena (`arena/`) | list of blocks, bump pointer, capacity and last allocation | alloc, realloc in place, growth, mark, release | growth in place after marks and releases; `realloc` of a whole block | allocations stay inside their block, disjoint, keep their contents; marks stay valid |
| Error reporter (`error/`) | counts, source position | report | none | every error is counted |
| Type table (`type.c`) | interned types, global | make pointer/array/slice/alias, lookup | interning while types still change | equal types have equal ids |
| Lexer (`lexer/`) | cursor, line | `get_token` | limits of literals, nesting of comments | the text is cut as LANGUAGE.md says |
| Parser (`parser/`) | token window, tree | one routine per construct, synchronisation after errors | recovery makes progress; depth limits | the tree is the text's; parsing ends |
| Sema: symbols and declarations (`sema/sema.c`, `symbol.c`, `types.c`) | scoped hash table, order of initializers | declare, find, scopes, dependency order | recursion over initializers with a mark against cycles | every initializer runs after those it needs, cycles are reported |
| Sema: statements (`sema/statements.c`, `expr_vars.c`) | flags per symbol: assigned, null known, pending write | one routine per statement, saved and intersected flags | branches, loops, switch: which flags survive | no warning-free read of an unassigned variable |
| Sema: expressions and literals (`sema/expr_*.c`, `literals.c`) | types of nodes | one routine per node | widths and signs of constants | constants have the value of their type |
| IR and lowering (`ir/ir.c`) | instructions, registers, labels | one routine per node | labels and short circuits, indices of arrays | code means what the tree means |
| Optimizer driver and block passes (`ir/opt.c`, `ir/opts/{analyze,utils,propagate,cse_coalesce,extra}.c`) | code, use and definition counts, tables per block | seven passes in rounds | passes use counts of the last analysis; memory and calls | meaning kept; rounds settle |
| Control flow passes (`ir/cfg.c`, `ir/opts/cfg.c`) | blocks, edges, label counts | build graph, unreachable code, jumps | in-place rewriting against an old block table | the same instructions run in the same order |
| Liveness and global dead code (`ir/cfg.c`, `ir/opts/dce_live.c`) | live sets per block | solve, sweep | iteration in place; two different rules for what may go | live sets right; only what is dead goes |
| Folding and simplification (`ir/opts/{fold,simplify}.c`) | constants of registers | fold, simplify | overflow, signs, shifts, division | folded value = computed value |
| Inliner (`ir/opts/inline.c`) | call graph marks, budgets | inline a call | renaming, recursion | meaning kept; ends |
| Static initialization (`ir/opts/static.c`) | globals touched per function | turn stores into data | calls before the store | data = value after init |
| Register allocation (`codegen/regalloc/{graph,paint,color}.c`) | interference graph, homes, masks | sweep, merge, simplify, select, scratch loop | degrees after merges; retries with fewer registers | live registers apart, fixed registers free, loop ends |
| Allocation driver (`codegen/regalloc/regalloc.c`) | homes per block, slots, edge moves | constants, aliases, partitions, slots, edges | twins on edges, spans of slots | a value is where the next instruction expects it |
| Verifier (`codegen/regalloc/verifiy.c`) | none of its own | re-checks every allocation | none | its assertions are our invariants |
| Shrink wrapping (`codegen/regalloc/shrink.c`) | per block: here, saves, frees | dominators, place saves and restores | tail calls, cycles, edge moves | callers' registers survive |
| Parallel moves (`codegen/parallel.c`) | pending moves, counters, plan | stores, moves, swaps, loads | cycles, several readers of one source | equals the simultaneous assignment |
| Parameters, arguments, edges (`codegen/x86-64/{move,flow,edges,regs}.c`) | pending group, busy registers | `x86_make_param`, `x86_make_arg`, `x86_make_call`, `x86_make_edge` | three loops that read what others write | every value arrives |
| Instruction selection (`codegen/x86-64/{arith,divmod,cmp,rmw,mem,regs}.c`) | scratch pool, busy and clobber masks | a handler per instruction or fused group | aliasing of homes, flags, fixed registers, narrow values | machine computes what the IR says |
| Emission of functions and programs (`codegen/x86-64/{func,layout,flow,ptr,globals,x86_64}.c`) | frame, saves, clobbers per function | prologue, exits, callees first | tail calls, recursion | frame intact; clobbers complete |
| Driver (`codegen/codegen.c`, `compiler.c`, `main.c`) | text buffer, options | phases in order, run assembler | lifetimes of arenas | stops at the first failing phase |

How they interact. Everything allocates from arenas; code generation marks its
arena before each function and releases it afterwards (`x86_64.c:42-49`). The
optimizer works on a function of the IR in place; the code generator asks the
register allocator for homes per block, the allocator asks the back end how many
scratch registers each instruction will need (`block_scratch`, a callback into
the instruction selection with estimates), and the back end later takes what it
was promised. Moves that must happen at once - parameters, arguments, block
edges - go through the planner of `parallel.c`. Functions are emitted callees
first so that callers can save only what a callee really clobbers.

The hazards, each at its line, with the properties meant to catch it, are listed
under `hazards` in `PROJECT.json`.

## Plan

Ordered by how much of the output's correctness rests on a component and how
little a test can say of it.

1. Done. `ParallelAssign`, `ParallelMove`; `MoveCallers`, the three users of the
   planner; `Arena`.
2. Done. `ProperColoring` (contract), `Coloring` (implements it), `BlockAlloc`
   (uses it); `Liveness`, `LiveDce`, `FrameSlots`; `ShrinkWrap`.
3. Done. `IRBlock`, `BlockOpt`; `Cfg`, `JumpOpt`; `X86`, `Emit`, `InstrSelect`;
   `DivMagic`, `ConstArith`.
4. Done. The front end: `Ast`, `SemaFlow`, `Lowering`, `Inliner`, composed in
   `Front` and held to `TreeMeaning`. Start and end of a program: `Startup`,
   `Program`.
5. Done. Proofs of everything the runs check about `ParallelMove`,
   `MoveCallers`, `Arena`, `Coloring`, `BlockAlloc`, `Liveness`, `LiveDce`,
   `FrameSlots` and `ShrinkWrap`, termination under fairness aside; of `JumpOpt`,
   `FlowKept` and `TablesExact`; of `Startup`, `InitOrdered`; of `Program`,
   `ClobbersKnown`; of `BlockOpt`, `BlockOptInv`; of `DivMagic`, `SearchEnds` and
   `MultipliersExact`.
6. What a further extension would take up: the inliner on optimized code;
   arrays in `Lowering`.

## Modules and the code

| Module | Models | State and actions |
|---|---|---|
| `ParallelAssign` | what a group of moves promises | abstract: `mem` holds the assignment's outcome at the end |
| `ParallelMove` | `codegen/parallel.c` | `pending`, counters and phases of `parallel_actions`; one action per kind of planned instruction (`PlanStore`, `MoveReady`, `SwapCycle`, `PlanLoad`), each executed as planned |
| `MoveCallers` | `x86_make_param`, `x86_make_arg`, `x86_make_call`, `build_edges`, `x86_make_edge` | `home`, `there`, `live` from the allocator, `mem` the machine; composes `ParallelMove` by extension: its plan is the middle stage of each job |
| `Arena` | `arena/arena.c` | blocks, `cap`, `last`, `lastSize`; marks and the clients' allocations; `Alloc`, `Mark`, `Release`, and the ways of growing (`GrowWithin`, `GrowInPlace`, `RegrowBlock`, `GrowByCopy`) |
| `ProperColoring` | the contract between painting and its users | one step from a graph to homes that respect it |
| `Coloring` | `coalesce_graph`, `paint_graph`, the loop of `paint_block` | merged graph, degrees, masks, stack, homes; refines `ProperColoring` |
| `BlockAlloc` | `sweep_instr`, fixed registers, `scratch_regs`, and what the emission grabs | chooses the code backwards as the sweep meets it; uses `ProperColoring` for the painting |
| `IRBlock` | meaning of straight IR (`ir/ir.h`) | terms over entry values, memory with one aliased object; no state |
| `BlockOpt` | `optimize_fn` and the block passes | code, counts of the last analysis (`seen`), `dirty`, `changed`, `pass`, `round`; `RunPass` runs the next pass of `Passes` whole |
| `Cfg` | IR as flow; `cfg_build` | operators; traces of effects |
| `JumpOpt` | `opt_unreachable`, `opt_jumps`, rounds | code rewritten in place, `lrefs`, position of the loop |
| `Liveness` | `live_step`, `live_solve` | live sets per point, position of the sweep |
| `LiveDce` | `opt_live_dce` | extends `Liveness`; then removes, then runs what is left |
| `ShrinkWrap` | `plan_reg` and what `func.c`, `flow.c` make of it | dominators, `here`, saves, frees; then the function runs with the caller's value tracked |
| `X86` | external: the processor | operators on words, flags, registers |
| `Emit` | `regs.c`, `mem.c` | operand access, scratch pool, busy and clobbers as part of the machine state `m` |
| `InstrSelect` | `arith.c`, `divmod.c`, `cmp.c`, `rmw.c`, order of `make_instr` | an action per handler; the instructions it emits run at once while `val` gets the IR's meaning |
| `DivMagic` | `magic_signed`, `magic_unsigned` and the code emitted with them (`divmod.c`) | the variables of the search, an action per iteration (`MagicSpec` is that search alone); what the emitted multiplication computes |
| `ConstArith` | `ir/opts/fold.c`, `simplify.c`, `opt_strength`, `norm_val`, `make_divmod_const` | extends `DivMagic`: `code`, `seen` (the last analysis), `round`; `Fold` and `Strength` run a pass whole, `SearchMagic` and `SearchOn` find a multiplier, `Run` runs the result on an input |
| `FrameSlots` | the slots of `regalloc.c` (`span_instrs`, `span_blocks`, `span_sweep`, `lay_sizes`) | extends `LiveDce`: on the solution found it computes spans (`LaySlots`); `BeginSpan` gives the next one a slot, `EndSpan` gives it back |
| `Ast` | the tree of `parser/ast.h` | `ast`, an array of nodes |
| `SemaFlow` | the flow part of `sema/statements.c`, `expr_vars.c`, `expr_ops.c`, `symbol.c` | a record threaded through one routine per node: symbols with their flags, scopes, what was reported |
| `Lowering` | statements and expressions of `ir/ir.c` | a record threaded through one routine per node: code, counters of registers and labels |
| `Inliner` | `ir/opts/inline.c` | operators from functions to functions: eligibility, sites, renaming |
| `TreeMeaning` | external: what the language means | evaluates the tree, with what was read, written and dereferenced |
| `Front` | `compile`, and the run of the code | `Check`, `Lower`, `Inline`, then one action per instruction; activations on a stack, `TailCall` gives one up (`cg_is_tail_call`) |
| `Startup` | order of global initializers (`sema.c`, `expr_vars.c`), `gen_init_fn`, `ir/opts/static.c` | state and stack of the walk (`CheckRoot`, `CheckInitRef`, `Checked`); `code`, one initializer after the other (`GenInitFn`); globals touched per function; position of the scan, what is dirty, data bound |
| `Program` | `x86_64.c`: order of functions, clobbers of calls | extends `Startup`: functions in work, each with its next call (`GenNext`, `GenCallee`, `GenBody`); clobber masks, what each call was taken to clobber |

Modules named `MC...` give constants their values, and `MCProgram` also holds the
execution of a program that `StartsAsWritten` compares with (it is recursive, and
no proof can be made where it is visible); the
configurations of `ShrinkWrap` and `JumpOpt`, whose constants are numbers and
model values, need none.
Modules named `...Proofs` hold theorems, each for the module it is named after
(`LivenessProofs` for `Liveness`, `LiveDce` and `FrameSlots`; `EmissionProofs` for
`ParallelMove`, `MoveCallers` and `DivMagic`; `AllocProofs` for `BlockAlloc` and `ShrinkWrap`;
`ProgramProofs` for `Startup` and `Program`). `ShrinkWrap` names its behaviours
`WrapSpec`, so that it can be extended together with `BlockAlloc`.
`PROJECT.json` ("map") names the lines each definition translates.

How they fit together: `BlockAlloc` assumes of the painter exactly what
`ProperColoring` says and `Coloring` is shown to implement; `MoveCallers`
assumes of homes what `BlockAlloc` and `Coloring` guarantee, and plans with the
`ParallelMove` that is proved to implement `ParallelAssign`; `InstrSelect`
assumes homes that keep live values apart, and checks that the scratch estimates
`BlockAlloc` relies on are large enough; `LiveDce` runs on the solution
`Liveness` is proved to find, and `FrameSlots` on the same. `Front` composes
semantic analysis, lowering, inlining and the tail calls of the emission, and
compares the run of the result with the meaning of the tree. `Program` starts
where `Startup` ends.

Data that no property tells apart is abstracted: names, types beyond size and
sign, the text of the output. Heuristics (which of several legal nodes,
registers or affinities to take) are nondeterministic, so the results hold for
any heuristic.

## Runs and bounds

| Run | What it explores | Shows |
|---|---|---|
| `moves` | every group that parameters, arguments and edges of three variables can ask for, four registers of which two carry arguments, a stack argument, spills, tail calls, twins | the plan is the simultaneous assignment (`PlanInv`, `Parallel`) and ends (`Terminates`); every value arrives (`ValuesArrive`: parameters, arguments, edges) and live values survive calls (`CallKeepsLive`) |
| `arena` | all orders of allocating, growing, marking, releasing over three blocks, with sizes below, at and above a block | in bounds, disjoint, marks valid (`ArenaInv`), contents kept (`ContentsKept`) |
| `coloring` | all graphs of four nodes, three registers, forbidden and clobbered registers, up to three merges, up to the last retry | colouring proper through every retry, degrees exact (`ColoringInv`, `Contract`), nothing spilled that degrees or merges promised a register (`NoNeedlessSpill`), the loop ends (`NearerTheEnd`) |
| `block_alloc` | all blocks of two instructions out of plain, shift, division, division by a constant | sweep and contract (`SweptLive`, `ContractHolds`); fixed and scratch registers free when emitted (`EmissionServed`) |
| `block_opt` | all blocks of three instructions in three families, -O2 and -O3 | the passes in their rounds keep the meaning (`BlockOptInv`) and settle (`Settles`) |
| `jump_opt` | all functions of six labels, jumps, branches, instructions and returns with two labels | flow kept (`FlowKept`), reference counts and graph exact (`TablesExact`), rounds settle (`Settles`) |
| `live_dce` | all functions of two blocks of two instructions (copies, calls, uses, accesses to a local in memory), any edges, locals in memory or not, both registers spilled with equal or different sizes | the solver is right (`Consistent`, `LiveAsRead`) and ends (`NearerTheEnd`); nothing needed goes (`EffectsKept`); values live together never share bytes of the frame (`SlotsApart`) |
| `shrink_wrap` | all graphs of four blocks with every kind of exit | saved once, restored on every way out (`CallerValueSafe`), dominators exact (`DomExact`) |
| `instr` | every aliasing of operands and destination over three or four registers and memory, for the groups of instructions handlers fuse | the emitted code computes the IR's value (`SelectInv`) with the promised scratch (`NoFault`) and reports its clobbers (`ClobbersTold`) |
| `const_arith` | words of nine and five bits, signed and unsigned: every operator on a parameter and a constant, two constants, one operand twice; conversions, shifts by any count; loops of two instructions over what the entry defined, in memory or not; every divisor on every dividend | the optimized and emitted function shows what was written, and faults where it does (`ComputedAsWritten`); the search for a multiplier ends (`SearchEnds`), and what it finds gives every quotient and remainder (`MultipliersExact`) |
| `front` | eight thousand programs: a main of one statement of every kind with every small body, condition and value, and its continuation, some with a second function called from expressions, conditions, loops, through a pointer and in tail position; with and without selects, with and without inlining; every argument and up to two inputs | the code does what the tree says (`LoweredAsWritten`); a read of an unassigned variable was warned about (`AssignedBeforeRead`); warnings are true (`WarningsTrue`); no function with a value falls off its end (`NoFallOff`) |
| `program` | programs of three globals, a static local or a function from elsewhere, initializers of one or two terms that read, write, call or take addresses, two functions that may call each other | values bound to data change nothing that can be seen (`StartsAsWritten`); initializers are ordered, circles found (`InitOrdered`); callers know all that a call clobbers (`ClobbersKnown`); every program gets through (`Starts`) |

Why the bounds are enough for the cases that matter: two cycles of moves, or a
cycle with a second reader, need four registers; a merge whose neighbour loses a
degree and a node that must then be promised a register need four nodes; growth
across a mark and a release needs two allocations and one mark; a store, a call
and a reload need three instructions; a circle of jumps, a branch around a jump
and a jump to a jump fit in six; a loop, a bypass and two exits need four
blocks; a loop in which one block changes another's live set needs two, and so
do spans that meet only over a back edge. In `instr` words have 8 bits and
narrow values 4: they keep apart what must be extended from what need not be,
and operands too large for an immediate exist. In `const_arith`
nine bits let the loop of `magic_signed` run long enough for both of its
corrections to occur, and two sizes tell `size` and `sign` of a type apart. In `front`
a loop goes round twice (`MaxInputs` = 2), so that what one iteration leaves
behind reaches the next; `LogicBudget` is 3 where the code has 8, and
`InlineMax` 12 where it has 24, so that operands and functions on both sides of
the limit occur. In `program` a circle of initializers with a tail, a chain of
two calls and mutual recursion fit in three globals and two functions.

Bounds are the constants marked "bound" in each module. Real limits of the code
(`PM_MAX_REGS`, `OPT_MAX_ROUNDS`, `OPT_MAX_HOPS`, `X86_SCRATCH_MAX`,
`ARENA_ALIGN`, `LOGIC_BUDGET`, `INLINE_MAX_INSTRS`) are constants too, set small
where reaching them matters. `MCLiveDce` takes, of the functions for the
allocator's solver, those that end with an instruction that reads, and with a
local in memory those whose two blocks are alike: that solver takes no notice of
memory.

Invariants that hold only together, or that are about to be proved together, are
checked as one conjunction of named parts (`PlanInv`, `ArenaInv`, `ColoringInv`,
`BlockOptInv`, `SelectInv`, each with its module's type invariant in it). A
`TypeOK` that is not among a run's properties documents the module's state.

Runs with `CHECK_DEADLOCK FALSE`: each models one compilation of one function or
program (or one client that may stop), which ends.

Symmetry is declared only over names the code merely compares: storage and
allocations, nodes, virtual registers.

Every property of a passing run has a mutant in `PROJECT.json`: a plausible bug
in one mapped definition that makes TLC find the property violated. The mutated
forms stand in the modules in front of the definition, marked "Mutation".

## Fairness and termination

The compiler is one sequential program; while it has a next step it takes it. So
weak fairness of the next-state relation is all there is to assume. `moves`
states it (`CallersSpec`) for `Terminates`, and `program` (`Spec` of `Program`)
for `Starts`: the recursive walk over initializers, the sweeps over the calls
and the generation of callees first all come to an end although the programs
contain circles. Elsewhere that a loop ends is shown by a safety property that
needs no fairness: every step decreases a measure (`NearerTheEnd` of `Coloring`
and of `Liveness`), or the loop is at rest before its limit (`Settles`), or the
search ends while its shift is still legal (`SearchEnds`).

## Proofs

Eight modules prove, for all values of the constants, what the runs check on
small instances. Each follows the same pattern: an inductive invariant that
conjoins the properties with what they need to survive a step, one lemma per
action, and theorems that follow from it. What the invariants add, and why:

`EmissionProofs`, first part (`ParallelMove`): every finite set of registers and
slots, every well-formed group of moves that fits the table.

- `PlanCorrect` and its consequences `TypeCorrect`, `SourcesSafe`,
  `ResultsSafe`, `BystandersSafe`. The invariant `PlanInv` conjoins three claims
  over machine contents: every place a move still to be made will be read from
  (`ReadsFrom`, which exchanges rewrite) holds what the move must deliver, every
  move already made has its result in place, and every place no effective move
  writes is untouched. None is inductive alone: an exchange writes two registers
  for one move, and only the three together tell that the second one is still
  the source of a pending move.
- `Implements`: every step is a step of `ParallelAssign` or a stutter.
- The argument: destinations are pairwise different (`GroupShape`), so writing
  one never disturbs another result; a move is only emitted when its counter is
  zero; if none has a zero counter, every destination is read exactly once and
  what is left are cycles (`CycleSources`), which a swap shortens.

`EmissionProofs`, second part (`MoveCallers`): any number of registers, argument
registers, variables and slots.

- `CallersHold`, with `ValuesSafe`, `CallsSafe`, `CallersTyped` and
  `CallersImplement` (the callers' run as a whole is again a simultaneous
  assignment). The invariant `CallersInv` is `PlanInv` plus, for each of the
  three jobs, a frame (what the allocator promised and which group was asked
  for) and what memory holds at each stage: what the loops before the planner
  leave for it to read, and what the loops after it still have to read. The
  properties speak of the end of a job only and say nothing on the way.
- That the group a caller builds is well formed is where the allocator's promise
  enters: variables alive together have homes of their own (`Apart`).
- Assumptions: argument registers and slots are lists without repetition, and
  the areas of the frame do not overlap (`FrameLayout`, which `layout.c` sees
  to). `~Overwritten` is an assumption of each theorem: it excludes the first
  [divergence](#known-divergences), where the code does lose an argument.

`EmissionProofs`, third part (`DivMagic`): every width of a word above three bits,
every divisor.

- `SearchInTime` (`SearchEnds`) and `DivisionsExact` (`MultipliersExact`). With
  M = `q2` + 1 the code multiplies by M / 2^p, which exceeds 1 / d by
  e / (d * 2^p), where e = d - `r2` when the loop stops. `EndsWithEnough` shows
  that then `anc` * e < 2^p; as `anc` is the largest word with the remainder d - 1
  (`AncIs`), no word has its quotient lifted (`SurplusSmall`, `RoundsDown`,
  `RoundsUp`). The smallest integer lies beyond `anc` and has an argument of its
  own (`SurplusAtEnd`).
  The theorems are about `MagicSpec`, whose steps are the only ones of `ConstArith`
  that touch the search: `SearchMagic` and `SearchOn`.
- The invariant `SearchInv` says that `q1`, `r1` and `q2`, `r2` divide 2^p, and that
  after the first iteration 2^p <= `anc` * (d - `r2`). The property alone bounds
  nothing: it is that inequality which keeps every variable of the loop from
  wrapping (`QuotientsFit`), and p below twice the width less two (`GoesOn`).
- Unsigned multipliers have one bit more than a word; that the mean that adds
  this bit back does not overflow is `MeanIs`.
- Powers of two are a recursive function (`TwoTo`) whose equations are proved by
  an induction on its domain (`Doubles`), and products are bounded by hand: the
  provers do not decide nonlinear arithmetic.

`ArenaProofs` (`Arena`): any alignment, block size, sizes and number of marks.

- `ArenaSound` (`ArenaInv`) and `ContentsSafe` (`ContentsKept`). Added to them:
  no two blocks share storage (`BlocksApart`), the last allocation ends where
  the tail block is used up to (`LastAtEnd`) and lies above every mark that
  could release it (`LastAboveMarks`), and marks are ordered as they were taken
  (`MarksOrdered`). Without these a growth in place could run over a neighbour,
  and a release could free what an older mark protects.
- Assumption `RoomForAll`: the bytes the model keeps per block are enough for
  every size of request; it bounds the model, not the code.

`ColoringProofs` (`Coloring`): every graph, any masks and registers.

- `ColoringCorrect` (`ColoringInv`), `SpillsNeeded` (`NoNeedlessSpill`),
  `Refinement` (`Contract`, the abstract specification `ProperColoring`) and
  `PaintingNearsTheEnd` (`NearerTheEnd`). The invariant adds how the merged graph
  relates to the swept one (`MergesExact`: representatives are roots, masks and
  edges of a node are found at its representative), that the stack holds each
  node once and that the neighbours an easy node has outside of what lies below it
  are too few to take all its registers (`StackSound`), and what is true in the
  middle of removing and of picking (`Removing`, `Picking`).
- The refinement maps a whole painting to one step of `ProperColoring`; all its
  intermediate states stutter.
- That Briggs' test is conservative is proved where the sweep forbids the same
  registers to every node. With masks that differ the limit it compares with
  belongs to the merged node only, and the claim is not true in general.

`AllocProofs`, first part (`BlockAlloc`): every block of any length and any registers,
for whatever painter keeps `ProperColoring`.

- `AllocHolds`, with `SweepExact` (`SweptLive`), `ContractKept`
  (`ContractHolds`) and `EmissionGetsWhatItTakes` (`EmissionServed`). The
  invariant says what the sweep has recorded so far: every result is linked with
  all that lives across its instruction (`ResultsLinked`), what is live
  together is linked, or still live where the sweep stands (`LiveLinked`), and masks of the instructions
  swept are forbidden to all that lives across them (`MasksBanned`). From these
  and the painter's contract follows what the emission finds.
- Assumption `CountNotFirst`: the first register kept for scratch is not the
  count register of shifts (`graph.c:435-445` with `x86-64/common.h:24-28` keep
  rax first). With another order a shift could find its one scratch register
  fixed by itself; the proof shows that this, and not only the number of
  registers, is what the emission relies on. Divisions are excluded in the
  property (second divergence).

`LivenessProofs` (`Liveness`, `LiveDce`, `FrameSlots`): every number of blocks, set of
registers and function.

- `TypeCorrect`.
- `ConsistentAlways`: when `live_solve` stops, the live sets satisfy the
  equations at every point. The strengthening is `SweptFits`: after a block has
  been swept its sets fit those of its successors at that time, and if no
  `live_in` has changed since the sweep began (`FitsSoFar`) they still do. The
  claim alone says nothing until the last sweep.
- `LeastAlways`: the sets never exceed any solution (`Below`), by monotonicity
  of a step. With the previous theorem the solution found is the least one.
- `LiveWhereRead` (`LiveAsRead`): what is read ahead of a point is itself a
  solution, and lies in every solution, so it is what the solver finds.
- `SolvingNearsTheEnd` (`NearerTheEnd`): no step takes a register back
  (`Growing`), so a sweep that is followed by another has found one more.
- `EffectsSafe` (`EffectsKept`): after the pass, what was forgotten is dead where
  the program stands, on every path (`DceInv`). Where the solver and the sweep
  disagree on what is skipped (`SolverAgrees`) the property claims nothing: that
  is the fifth divergence.
- `SlotsStayApart` (`SlotsApart`): any set of spilled registers of any of the
  four sizes. While slots are handed out (`SlotInv`), ends of spans gone through
  precede those still ahead, the slots given back are apart from those of the
  spans that have begun and not ended, and two registers have bytes in common
  only if their spans do not meet. That it suffices to keep spans apart is
  `HeldInSpan`: whatever must be held at an instruction has it in its span,
  because the consistent solution makes it live up to the end of its block, or
  from the start on, where it is not touched itself.

`AllocProofs`, second part (`ShrinkWrap`): every control flow graph with every kind of
exit.

- `DominatorsExact` (`DomExact`): the iteration starts above the dominators and
  never falls below them (`Above`); at rest it is below, because what is reached
  around a block is closed under edges.
- `CallerSafe` (`CallerValueSafe`), from `WrapInv`: the plan lies on every path
  to a use, the save is passed once (no cycle leads back to it), and no way out
  of what is saved avoids a restore. A second run of a function that calls itself
  last is excluded in the property (fourth divergence).

`BlockOptProofs` (`IRBlock`, `BlockOpt`): blocks of any length over any registers and
objects, with any definitions and reads in other blocks, at both levels, however
many rounds there are.

- `BlocksKeepMeaning` (`BlockOptInv`), with `TypesKept`. The invariant `IInv` is
  kept by every single step of every pass, so the order of the passes does not
  matter to it. Besides the meaning it says three things. The counts a pass reads
  are those of the code it starts from (`seen` is the code unless it is dirty).
  Every register read in the block is defined in another block or further up
  (`ReadsDefined`): without it a register with one definition could be read
  before it, and copy propagation, coalescing and the forwarding of globals, which
  ask only how often a register is defined, would be wrong. And a pass brings no
  instruction the source had not, except moves and nops.
- The argument for a pass: the codes before and after a step are executed side by
  side. What the step takes out, joins or replaces makes the two states differ in
  at most one register (`DeadAfter`, and between a result and the copy
  after it that takes its place), which is not read as long as they differ. For what a pass has noted
  there is a claim about values at the point it has got to: an entry of the table
  of common subexpressions is a value its register still holds (`Available`), the
  register noted by `globals_block` holds the global, the counts `opt_dce` lowers
  are at least the reads that are left, what `live_sweep` does not hold live is
  not read again.
- That the counts of the last analysis stay usable while a pass edits: definitions
  are only ever taken away by then, or moved to the register of the copy.
- `CallsApart` is an assumption of `BlocksKeepMeaning`: no local in memory, or no
  call in the block, or nothing the table of common subexpressions takes up, or
  -O2, where that pass is not run. It excludes the third
  [divergence](#known-divergences); the proof uses it in the one place where an
  entry must survive a call. That no product is written to a local in memory in
  the source would not do: coalescing can give a product such a result.
- Assumptions: the names of memory objects are not registers (`ObjectsApart`), a
  pass that makes moves is used on code that may have some (`MovesExist`), and
  blocks have a length (`CodeBounded`).

`JumpOptProofs` (`Cfg`, `JumpOpt`): functions of every length with any labels,
jumps and branches, circles of jumps included, and any limit of hops.

- `FlowSafe` (`FlowKept`) and `TablesSound` (`TablesExact`), with `JumpTypes`.
  The invariant `JumpInv` says that the code is sound (`Sound`: every jump has
  its label, once, and the last instruction is a return), that the counts are
  exact while `opt_jumps` runs, and that the code executes what the source does
  (`SameFlow`). The three need one another: a label is deleted because its count
  is zero, which is safe only if the count is exact; and where control goes is
  only defined while every jump finds its label.
- The argument for an edit: two codes lead to the same effects if the effects of
  either are carried along the steps of the other (`LeadAlike`). Going round in a
  circle without an effect is covered, because a value that is carried from the
  one code to the other must be carried back as well. For most edits the effects
  themselves are carried. For a branch around a jump (`FlipFlow`) what lies
  between the branch and its label stands for something else in either code; it is
  entered from the branch only.
- That as many steps as there are instructions tell where control leads
  (`WalkLongEnough`) is the pigeonhole principle: a walk that is longer repeats
  itself.
- For unreachable code, what is left in place is shown to be closed under the flow
  of control (`KeptClosed`), from the exactness of the graph.

`ProgramProofs` (`Startup`, `Program`): programs with any number of globals,
statics and functions, calls in any circles and functions from elsewhere.

- `InitializersOrdered` (`InitOrdered`). The invariant `CheckInv` ties the walk
  over the declarations to its stack: what is marked "checking" is on it, each
  once (`StackSound`), each waits for the next at the term it stands at
  (`Waiting`), and what is done is in the order after everything it names, as
  long as nothing was reported (`OrderSound`, `NeedsDone`). So a reference to
  something being checked closes a circle (`Circle`): from the global referred to,
  what waits leads up the stack and back. Conversely, if nothing was reported the
  order itself shows that there is no circle (`NoCircle`): the first of a set of
  globals that need one another would need one that is earlier still.
- `ClobbersAlwaysKnown` (`ClobbersKnown`), for `Program` with the whole of
  `Startup` in front of it. The functions in work form a chain of calls
  (`WorkSound`), a function's calls that have been gone through lead to functions
  in work or done (`GoneThrough`), and one that is not done is taken to clobber
  everything (`Untold`). Masks only ever shrink, so what a function recorded of
  its callees still covers them later (`Told`); hence the functions that clobber no more
  than a given one are closed under calls (`ClobberedTold`), whatever circles the
  calls make. That the masks are exact where no recursion is reached (`Exact`) needs the
  other direction: a callee that is still in work would be recursive
  (`CallsInWork`), so all of them are done.
- Assumptions: programs are well formed (`ProgramsKnown`: names and calls refer to
  what exists, nothing at the top level names a static), as the parser and the
  symbol table leave them.

Loops over a block or a walk (`States` of `IRBlock`, `Sweep` of `BlockOpt`, the walks
and hops of `Cfg` and `JumpOpt`) are recursive functions of a number of steps:
what holds of all numbers follows from a least counterexample, with the
well-foundedness of the order on numbers (`AllNumbers`).

Some definitions are written for the prover's sake as least fixpoints where an
iteration would have been shorter: `ReadAhead` of `Liveness`; `From` of
`ShrinkWrap`, which stands for the searches `mark_reach` and `reaches`; `NeededBy`
of `Startup` and `ReachedFrom` of `Program`. `Reachable` of `Cfg` is one by its
nature. A least set is what such a search computes, and it can be reasoned about
without induction over its rounds.

The theorems rest only on the modules' named assumptions on constants, all of
which TLC evaluates in the passing runs.

Only model-checked:

- Termination under fairness (`Terminates`, `Starts`), which is a liveness
  property and out of reach of the prover. The measures of `Coloring` and
  `Liveness` are proved.
- That the rounds settle (`Settles`, for both groups of passes): it depends on how many
  instructions there are and how many rounds are allowed: nothing in the code
  bounds the rounds that a longer function needs.
- `SelectInv`, `NoFault`, `ComputedAsWritten`: `X86` uses bitwise operators, which
  keeps `Emit` and `InstrSelect` from the prover; `ConstArith` uses them too.
- What `Lowering`, `TreeMeaning` and `SemaFlow` do: they walk trees with recursive
  operators; and `StartsAsWritten`, whose reference is a recursive execution.

## Known divergences

Places where the code does not do what its documentation, an assertion or the
language says. Each was found while modelling and seen by compiling a small
program. They are excluded from the passing runs by the constant or conjunct
named, and TLC shows them when it is put back.

1. `codegen/x86-64/move.c:51` with `codegen/regalloc/graph.c:346`: a parameter
   that is overwritten before it is read may share its home with a later one;
   the group then has two moves to one place and the later argument is lost.
   `Overwritten = TRUE` in `MCMoveCallers.cfg`: `ValuesArrive`.
2. `codegen/regalloc/graph.c:207`: `block_reserved` drops the mask a division
   needs, so the register kept for scratch may be one the division fixes; the
   emission stops with "no scratch register available" (the assertion of
   `regs.c:89`). Check `ScratchServed` of `BlockAlloc`.
3. `ir/opts/cse_coalesce.c:98`: a call does not flush table entries whose result
   is a local in memory (-O3). Add to `MCBuilds` of `MCBlockOpt` the build
   `[full |-> TRUE, ops |-> {"move", "mul", "call"}, elseDefs |-> {{}}]`:
   `MeaningKept` is violated. `BlocksKeepMeaning` proves that this is the only
   way in which the modelled block passes change a meaning.
4. `codegen/x86-64/func.c:122`: a tail call of the function itself re-enters it
   before the saves of callee-saved registers, which then overwrite the caller's
   values (-O1 and up). Drop `runs <= 1` from `CallerValueKept` in `ShrinkWrap`.
5. `ir/cfg.c:142` with `ir/opts/dce_live.c:36`: the solver skips a deletable
   instruction with a dead result even if the result is a local in memory, which
   the sweep keeps; what it reads is then deleted in earlier blocks (-O3). Drop
   `SolverAgrees` from `EffectsKept` in `LiveDce`.
6. `codegen/x86-64/arith.c:130`: `x = x * 3 + x` with one register for all
   becomes `6 * x` (-O2 and up). `Kinds = {"self"}`, `Values = {0, 1, 11, 77}`
   in `MCInstrSelect.cfg`: `ValuesHeld`.
7. `codegen/x86-64/divmod.c:139`: an 8-bit unsigned division does not clear the
   upper half of AX (-O1 and up). `Kinds = {"div8"}`: `NoFault`, `ValuesHeld`.
8. `codegen/x86-64/cmp.c:93`: loading a zero for a conditional move clears the
   flags the comparison set (-O3). `Kinds = {"zero"}`: `ValuesHeld`.
9. `codegen/x86-64/mem.c:226`: the scratch estimate of `x86_op_reg_tmp` reads
   the homes of block `f->blk`, which is still that of the previously emitted
   code, and can come out too low (-O2 and up). `Kinds = {"stale"}`,
   `StaleBlk = TRUE`: `NoFault`.
10. `codegen/codegen.c:119`: a call in tail position gives up the frame even if
    an argument points into it (seen at -O0). Let `TailCalls` of `MCFront` run
    with `p` the address of `x` (`AddrX`): `LoweredAsWritten`.
11. `sema/expr_vars.c:136`: a write in a loop is recorded as not used before the
    address of the variable is taken further down, although the next iteration
    reads it through the pointer: an invented warning, which
    `src/LANGUAGE.md:359` says there are none of. Drop `InLoop(i) /\
    AddressTaken(i)` from `DeadWritesTrue` in `Front`.
12. `sema/expr_vars.c:158`: a pointer that is NULL before a loop and assigned at
    the end of its body is reported as NULL where the body dereferences it first,
    also where only the second iteration gets there. Drop `InLoop(i)` from
    `NullTrue` in `Front`.
13. `ir/ir.c:892`: `lone_assign` looks up the left side of the only assignment
    of a branch as a variable; in `if (c) @p = 3;` there is no symbol and the
    table is read outside (the compiler stops with a fault at -O3). In `Front`
    such a program ends in the phase "crashed" when lowered with selects
    (`OutOfTable` of `Lowering`).

## What is not modelled

- Text: wording, layout and formatting of messages, dumps and assembly; reading
  and writing files; running the assembler. The lexer and the parser, which are
  pure functions of the text, except for the shape of the tree (`Ast`).
- Types: checking and conversion of types, ranges of constants, enums, the
  layout of arrays and slices, and the lowering of what depends on them. The
  widths of values are modelled where code is generated (`InstrSelect`) and not
  in the front end, nor in `bind_value` of `static.c`.
- In `ConstArith`, constants the code generator recognizes outside the entry, and
  the passes that run between folding and strength reduction (`BlockOpt` has
  those).
- In `Inliner`, the types and the addressed flags of the copied registers; the
  model inlines code as lowered, the compiler after a first optimization. In
  `Front`, arguments on the stack, which a tail call also looks at.
- In `Startup`, callbacks: a function from elsewhere that calls back into the
  program is taken not to.
- The layout of the frame beyond the sharing of slots (`layout.c`), and the
  addresses of `ptr.c`.
- Running out of memory: the compiler then prints a message and exits.
- `codegen/regalloc/verifiy.c`: its assertions are invariants here.
- Weights, costs and hints of the allocator: left nondeterministic.
- Floating point: the language has none.
