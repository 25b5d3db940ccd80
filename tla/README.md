# TileFlow tracer: models, checks and proofs

TileFlow compiles a Python kernel by tracing it. `compiler/ast.py` rewrites the
syntax tree of a `@tileflow.jit` function into calls of a `Builder`
(`compiler/builder.py`), running the rewritten function makes the builder
append operations to a structured IR (`language/ir.py`), and
`compiler/mlir_emitter.py` walks that IR and builds an MLIR module. This
directory is a TLA+ development of that path: how calls of kernels reach their own
builder, what a trace does for every kernel source, when the IR it leaves is well
formed and well typed, and for which sources the IR means what the Python meant.

Paths below are relative to the package, `src/tileflow/` of the repository.

## 1. The system

| Component | State it keeps | Operations | Correct when |
|---|---|---|---|
| Python IR, `language/ir.py` | `KernelIR` with nested `Region`/`Block`/`Operation`; `IRBuilder._next_value`, `_region_stack`; a per-thread stack of active builders | `append_op`, `ensure_value`, `emit_value`, `region()`, one emitting method per operation | ids are handed out once; no operation follows a terminator; regions form a tree; every use has an earlier definition |
| Builder, `compiler/builder.py` | `bindings`, a stack of scopes from name to Python object; the suspended `ctx_*` generators | `bind`, `rval`, `ctx_for`, `ctx_if`/`ctx_then`/`ctx_else`, `ctx_while`, `ctx_kernel`, `assign_slice`, `aug_assign*`, `boolop`, `ifexp`, `ret` | each generator pops what it pushed; a loop carries exactly the names it rebinds; a name stands for the value Python would give it |
| AST rewriter, `compiler/ast.py` | none between kernels (a fresh-name counter) | one `visit_*` per syntax node | the rewritten statement does what the statement did, in its order |
| Loop specifications, `language/loop.py` | immutable | `range`, `T.Serial`, `T.Pipelined`, `T.Parallel` | bounds are those of Python's `range` |
| MLIR emitter, `compiler/mlir_emitter.py` | `_values`, from IR value to MLIR value, over the whole kernel | `_emit_op` and its handlers | accepts every traced IR; operand, argument and result counts agree; types are coerced where MLIR wants it |
| Tensors, `language/proxy.py`, `allocate.py`, `kernel.py` | `LaunchContext` | `__getitem__`, `alloc_*`, `T.Kernel` | an element access is one load or store at its place in program order |
| Types, `compiler/mlir_types.py`, `language/dtypes.py` | none | table look-up | total on the types a trace makes |
| Scalar helpers, `language/op.py` | none | `ceildiv` | rounds up as in Python, for numbers that are not negative |
| Entry and driver, `compiler/jit.py`, `compiler/compiler.py` | none between calls | `get_ir`, `compile`, the call of a kernel and of a compiled kernel | each call traces its own statements into an IR of its own; a parameter stands for what Python binds it to |
| Native part, `mlir/` | none | verifiers of the dialect's operations, a pass that changes nothing, a binding | agrees with what the emitter builds |

The parts of one trace talk by calls in one thread, and share three mutable
things: the region stack and the value counter of the `IRBuilder`, and the
innermost scope of `Builder.bindings`. The control that is hard to follow is the hand-over between
Python's own control flow and the generators: `for __tb_i in ctx_for(...)` runs
`ctx_for` up to its `yield` with the body region pushed, then runs the body once,
then resumes the generator, which pops the region, decides what the loop carries,
rewrites the body and appends the loop. A name can meanwhile be held in four
places: the scope, a Python local of the rewritten function, the copy of the scope
a suspended `ctx_for` made, and operands that were appended already. Nearly
every hazard of a single trace in `PROJECT.json` is two of these four disagreeing.
A trace is a finite sequence of calls, nothing is persisted and nothing waits: what
can go wrong is a long sequence of legal calls.

Between traces there is one more thing that is shared: the stack of active
builders, one per thread (`_builder_local`, `language/ir.py`). A kernel may call,
compile or inspect another kernel while it is traced, several threads may do so at
once, and any of it may raise half way. A method of `Builder` appends to the
builder of its own call; an operator on a `Value` appends to whatever is on top of
the thread's stack. That the two are the same builder, always, is what `with`
statements, exceptions and threads together have to guarantee.

## 2. The modules

| Module | What it is |
|---|---|
| **One trace** | |
| `TraceIR` | `language/ir.py` as pure operators on a record: `AppendOp`, `Ensure` (`ensure_value`), `Emit`, `EmitValue`, `NewRegion`, `PushRegion`, `PopRegion`, and `ReplaceRegionUses` of the builder |
| `Tracer` | the state machine: `Builder` driven by the rewritten statements |
| `Emitter` | the structural checks of `mlir_emitter.py`, as predicates on traced IR |
| `TracerProperties` | what is stated of a trace |
| `Discipline` | `Tracer` with one more variable, `live`, and the rules a kernel writer has to keep |
| `TraceSemantics` | two interpreters: the Python source, and the IR as the emitter lowers it (`RECURSIVE`, for TLC only) |
| `TraceMeaning` | the two compared on a finished trace |
| **Calls of kernels** | |
| `IsolatedTraces` | abstract: every call traces its own statements, all of them and in order, into an IR of its own |
| `JitCalls` | `compiler/compiler.py` and the stacks of active builders: threads, nested calls, exceptions, emission |
| **Types** | |
| `Coercions` | `mlir_types.py`, `_coerce` and the operation tables of the emitter, with what MLIR's verifiers say of an operation and what number it computes |
| `TypedTrace` | kernels traced, emitted and run with types and numbers, statement by statement |
| **Signature and names** | |
| `Prologue` | how a call's arguments, `x: T.Tensor(...)` and `T.empty(...)` become names, block arguments and entries of the signature, and what the emitter makes of them |
| `Assignments` | the rewriting of an assignment and the run of what it is rewritten to, next to Python |
| **Instances** | `MCTracer`, `MCDiscipline`, `MCFindings`, `MCJitCalls`, `MCTyped`, `MCPrologue`, `MCAssignments` |
| **Proofs** | `TracerProofs`, `TracerUseProofs`, `TracerEmitProofs`, `DisciplineProofs`, `JitCallsProofs`, `TypedTraceProofs`, `PrologueProofs`, `AssignmentsProofs` |

`TracerProperties` composes `Tracer` with `Emitter`; `Discipline` extends it;
`MCDiscipline` and `MCFindings` compose that with the two interpreters. `JitCalls`
instantiates `IsolatedTraces` under a refinement mapping. `TypedTrace` composes the
tracer, the emitter and the run of a kernel, and takes the operations of the
emitter from `Coercions`. The four groups look at the same code from sides that do
not depend on each other: which names a loop carries does not depend on types,
and neither does which builder an operator reaches. Splitting them is what lets
each be enumerated far enough.

### `Tracer`: state

| Variable of `Tracer` | Code |
|---|---|
| `ir.next` | `IRBuilder._next_value` |
| `ir.ops` | every `Operation` in the order of `append_op`; `blk` says in which block. `Block.ops` and `Block.terminator` are the operations of that block |
| `ir.args` | `Block.args` of every block. A `Region` has one `Block`, so one id names both; block 1 is the entry of `KernelIR.body` |
| `ir.stack` | `IRBuilder._region_stack` |
| `ir.err` | the exception that ended the trace, if one did |
| `scope` | `Builder.bindings[-1]`: the objects, and the insertion order of the keys, in which `ctx_for` walks them |
| `locals` | the Python locals of the rewritten function |
| `frames` | the suspended generators, with the locals they need when they are resumed: body region, bounds or condition, the scope they saved |
| `src` | history: the source traced so far, block by block |

A Python object is a number (`Num`), an IR value (`Val`) or nothing (`Unbound`):
the builder distinguishes no more. An expression is evaluated by an operator that
takes the IR and returns the IR after it and the object, so that the order in
which operands are appended is the code's.

### `Tracer`: steps

A behaviour discovers the kernel source while tracing it: each step takes one
statement from the constant `Menu` and does all that the rewritten statement
does, up to the next statement. So the runs quantify over all sources built from
the menu, and a state is a prefix of a source with its partial trace.

| Action | Code |
|---|---|
| `Assign`, `TupleAssign`, `AugAssign` | `visit_Assign`, `visit_AugAssign`, `Builder.bind`, `aug_assign` |
| `AssignSlice`, `AugAssignSlice` | `Builder.assign_slice`, `aug_assign_slice` |
| `Return` | `Builder.ret` |
| `EnterFor`, `ExitFor` | `ctx_for` before and after its `yield`; `ExitFor` is all of it: bounds, carried names, rewiring, the yield, the refusal of a parallel loop that carries, the loop, the rebinding |
| `EnterIf`, `EnterElse`, `ExitIf` | `ctx_if`, `ctx_then`, `ctx_else`. An `if` without `else` goes from `EnterIf` to `ExitIf` |
| `EnterWhile`, `ExitWhile` | `ctx_while` |
| `EnterKernel`, `ExitKernel` | `ctx_kernel`; the target is a plain local |
| `SkipRest`, `AbandonLoop` | `break` and `continue`, which the rewriter leaves to Python: they act on the tracing loop |
| `Stop` | the traced function returned, or an exception left it |

A raise (`afterTerminator` of `Block.append`, `parallelCarry` of `ctx_for`) only
records its reason: the code has no handler, so nothing is traced after it.

`Tracer` leaves to other modules: types and coercions (`TypedTrace`), declarations
of tensors (`Prologue`), chained and nested assignment (`Assignments`), and other
calls (`JitCalls`). It leaves out spans, `attributes` other than the rank of a loop
and the value of a const, operators that differ from a modelled one in their name
only, and ranks of tensors above one. A `break` directly
in a `with` inside a loop is not a step. Conditions and right-hand sides are of
the few shapes that `Condition` and `Value` list: comparison, load, `and`,
conditional expression. They are enough to have a folded comparison, a reflected
one, a lazy operand, and expressions that append two and three operations.

### `JitCalls`

| Variable | Code |
|---|---|
| `active` | `_builder_local.stack`, per thread; a builder is the number of its call |
| `calls` | the Python call stack of a thread: the running `get_ir`/`compile`/`__call__`, each with its kernel, builder, program counter, and the values its body holds |
| `exc` | an exception is on its way up the thread's call stack |
| `ir` | what each builder's IR has recorded: which statement of which call, and its operands |
| `kernel`, `status`, `outside` | history, and the two bounds |

| Action | Code |
|---|---|
| `Start`, `CallKernel` | `get_ir` up to the traced call: `Builder(...)`, `IRBuilder.__enter__` |
| `Operation` | a method of `__tb`, on the call's own builder, or an operator of `Value`, on `current_builder()` |
| `Raise`, `Unwind` | an exception in the body, and `__exit__` of each `with` it leaves; a caller may catch it |
| `Leave` | the body ended: `__exit__`, with its check of the stack |
| `Compile` | `emit_upstream_mlir` with its map of emitted values; after it, for a call of the kernel itself, `CompiledKernel.__call__` |
| `Stray` | an operator outside of every kernel |
| `Rest` | nobody calls anything |

### `TypedTrace`

A name stands for nothing yet, a Python number or an IR value; a number or a value
carries its type, the number Python gives it (`py`), the number the compiled kernel has
there (`hw`), and the depth of the block that defines it (`at`, as tensors do). Each action
is one statement: the type the frontend gives its result, the coercions and the operation
the emitter builds for it, whether MLIR accepts those (`refused`), and what they compute.
`typed` and `careful` record whether the statement kept the rules that the properties below
are about.

| Variable | Code |
|---|---|
| `scope` | what a name reads as (`rval`): its binding in `Builder.bindings[-1]`, or else its Python local |
| `tensors` | the element type, memory and element of a buffer, and the block of its `alloc` |
| `blocks` | the suspended `ctx_for` and `ctx_kernel`, with the scope a loop has saved, and what their bodies bind |
| `refused` | why `MLIREmitter` or `Module.operation.verify()` (`compiler.py:70`) refuses the kernel |
| `lost`, `typed`, `careful` | history: what a body that has ended defines; the rules kept so far |

| Action | Code |
|---|---|
| `EnterFor`, `ExitFor` | `ctx_for` and the emitter's loop: numbers in scope become consts of the block the loop is in, a name whose value another has replaced is carried |
| `Launch`, `ExitKernel` | `ctx_kernel`, `visit_With`, `KernelOp::verify`. The target is not bound: it is a Python local, and `rval` reads it only if no binding of that name shadows it |
| `Alloc` | `alloc_shared`, `alloc_fragment` and their verifiers |
| `Test` | the condition of an `if` or a `while` |
| `Unsupported` | `not` and `assert` |
| the others | an expression or a subscript each |

The end of a body (`Leave`) makes all it defines unusable: the names and the tensors are
there still, but MLIR refuses an operation outside of the body that uses them. The other
half of the code's scoping is the target of a `with`. A name that has none is the launch's
index (`target`); one that is bound goes on standing for what it is bound to, though in
Python it is the index (`Shadowed`); if that is a number (`hidden`), `+=` on it would read
the index, and is left to `StaleLocals` of `TracerProperties`. Loops and launches run once
here; iterations are the business of `Meaning`.

### `Prologue`

| Action | Code |
|---|---|
| `BindParameter` | `x = __tb.bind("x", x)` at the head of the rewritten function, on the kwargs `get_ir` makes (`CallKwargs`) |
| `Declare` | `x: T.Tensor(...)`: `IRBuilder.argument` in the current block |
| `Empty`, `EmptyPair` | `T.empty` bound to a name, and in a tuple: `IRBuilder.output`, which raises anywhere but at the top |
| `Alias`, `Use` | `x = y`, `x[i]` |
| `Enter`, `Leave` | a loop, launch, branch or while body: its block, with an index argument or none |
| `Emit` | `MLIREmitter.emit`: the function's signature, the arguments of each body |

### `Assignments`

`Assign` rewrites an assignment into a list of statements (`VisitAssign`, after
`visit_Assign` and `_emit_assign_target`); `Bind`, `Keep`, `Slice`, `Unpack` and
`Hide` run them one at a time: `__tb.bind` of a name, of the shared temporary,
`__tb.assign_slice`, `__tb.unwrap_value` into temporaries, and the `bind("_", ...)`
of those. `python` is the state Python would be in (`PyAssign`).

Tuples nest in targets, expressions and objects alike. Each is given by its leaves and
the place of each leaf, so that `(a, b), c` has leaves at `<<1, 1>>`, `<<1, 2>>` and `<<2>>`,
and taking an object apart is taking the leaves below a place (`Part`). That makes nesting
of any depth plain functions, without a recursive definition that no proof could reach.

## 3. What is checked

| Run | Instance | Question |
|---|---|---|
| `tracer` | all 21 statement shapes, sources of up to 3 statements, nesting up to 3, 4 names | is the IR well formed, whatever the source |
| `loops` | 9 statements that carry values, sources of up to 5, nesting up to 3, under `Discipline` | does a disciplined source with loops mean what it says |
| `control` | 12 statements with branches, `while`, launches, `continue`, `+=`, lazy operands, up to 4, nesting up to 2, under `Discipline` | the same for control flow |
| `jit_calls` | two threads, five kernels that call one another, one call per thread from outside and one stray operator | do calls keep apart, and do they end |
| `typed` | all 15 kinds of statement, sources of up to 3 (the ends of bodies not counted), two names, four element types, numbers up to 4 | which kernels does MLIR accept, and do those compute Python's numbers |
| `prologue` | a kernel of two parameters, all 2125 calls of it with up to three arguments and any keywords, up to 3 declarations and 3 blocks | what do names stand for, and where is each tensor in the signature |
| `assign` | 12 left-hand sides, 9 right-hand sides, up to 3 assignments | does a rewritten assignment do what it did |
| `aug`, `swap`, `lazy`, `early`, `branch` | three or four statements each | what a comment or the design note says, against what the code does |

The properties of `tracer` hold of every source:

* `TypeOK`: types, and the region stack is the kernel body under one region per
  suspended generator.
* `DefinedOnce`: every id handed out names exactly one thing, and after a raise at most
  one: `new_value` is called from four places, and the loop's arguments and results
  take their ids when its body has taken later ones. `append_op` takes the ids of its
  results before `Block.append` can refuse the operation (`Refuse`), so a refused
  operation leaves ids that name nothing; the trace is over then.
* `DefinedBeforeUse`: an operand is a block argument or an earlier result, also
  after `_replace_region_uses`. The bounds of a loop are materialised after its
  body was traced, and the yield is appended after the loop's iter_args exist.
* `RegionTree`: a region belongs to at most one operation, in an older block, and
  an open one to none yet.
* `EmitterAccepts`: none of the emitter's structural errors can happen on a trace,
  at any moment of it. The counts it needs (operands, body arguments, results of a
  loop) are made to agree in `ctx_for` and checked nowhere else in the frontend.
* `LoopsYield`: a loop with results yields as many values.
* `StaleLocals`: how far the Python local of a name may be from its binding, that
  is, exactly when `+=` reads something else than any other use would.
* `OnlyRewires` (an action property): the one step that may change an operation
  that is there already is the end of a loop, only in the loop's body, only from a
  carried initial to a new argument.

A source may break SSA all the same (a name bound in a branch outlives it), and
may mean something else than Python. `Discipline` states rules under which neither
happens, as guards on the same actions: read only names that are bound in an
enclosing block; use `+=` only on a name no loop has rebound since; no `break`, no
`continue` in a branch, `return` only at the end; and at the end of a loop, a name
that is read again was carried, and no two names that matter share an initial
value. Under these rules the runs check

* `Dominance`: every operand is an argument of an enclosing block or an earlier
  result in one;
* `InitialsRetired`: inside a loop the value from before the loop is not used for a
  carried name any more, the yield included;
* `Meaning`: the finished IR does the reads and writes of the source in the source's
  order, and every name that may still be read has Python's value. Reads are left
  out only for sources with `and` or a conditional expression, whose lazy operand
  the tracer evaluates eagerly (finding `lazy`).

`Meaning` is checked on the whole program, not on a trace: both interpreters are
run on the finished source and IR, with parameters `x = 1`, `n = 2`.

The properties of `jit_calls`:

* `StacksNest`: a thread's stack holds the builders of its tracing calls, in their
  order, and nothing else; so the check in `IRBuilder.__exit__` never fails, also
  when a nested call raised and its caller caught it.
* `Isolation`: `JitCalls` implements `IsolatedTraces`, with `log` as the IRs seen as
  lists of who recorded which statement. In `IsolatedTraces` nobody can write
  another call's log, leave out a statement, or finish before all are recorded.
* `SelfContained`: an IR that was compiled holds its own kernel's values only, with
  the one exception the code has (below).
* `CallsEnd` (liveness): every call ends and leaves its thread's stack of builders
  empty, whatever raised in it. The fairness is `WF_vars(Step(t))` for every thread
  inside a call: the interpreter gives each runnable thread its turn, and no step
  inside a call waits for another thread. Nothing obliges anybody to start a call:
  `Start` and `Stray` have no fairness.

The properties of `typed`:

* `Accepted`: MLIR accepts a kernel exactly when it keeps the rules of types: no
  arithmetic on `int32` and no conversion of it, `/` rather than `//` on floats,
  `bool` conditions, indices, bounds and extents that are index values, carried
  names that keep their type, literal sizes of allocations, no `not`, no `assert`, and
  nothing read after a loop or a launch that its body defines and the loop does not carry:
  a value, a tensor, or a number that a loop in the launch has made a const of.
  Both directions say something: a rule that is missing lets a refused kernel
  through, and a rule too many forbids a kernel that compiles.
* `Exact`: an accepted kernel computes what Python computes if it also keeps the
  rules of numbers (`Keeps`, `BinaryIsExact`): converts only upwards, `%` and
  `ceildiv` of numbers that are not negative, `and` on bools only, no `==` on values,
  no `with` whose target is a bound name already (`Launch`): that one goes on reading
  as what it was bound to.

The properties of `prologue`:

* `BindsAsPython` (an action property): in every call that Python would accept, each
  parameter stands for what Python would bind it to.
* `OnePlace`: every tensor that a name stands for or that is used is in the
  signature once, where its index says, and an argument of one block.
* `RefusesNested`: the emitter refuses the kernels that declare a tensor in the body
  of a loop or of a launch, and no others.

The properties of `assign`: `AssignsAsPython` (names, stores, calls of `T.empty` and
exceptions as under Python) and `OutputPerCall` (a call of `T.empty` makes one
output at most, and names for what it returned stand for one tensor).

### Bounds

`MaxStmts` bounds the statements of a source and `MaxDepth` its nesting; `Fuel`
bounds the iterations of an interpreted run, and a run that exceeds it is not
judged. Three statements are enough for two interacting statements in every kind of
block and for a loop in a loop in an `if`; what takes longer to go wrong does so by
carrying values, and `loops` goes to five statements and three levels for those
(bind, enter, enter, rebind, use). Two names that a loop may carry, one that is only
read and one loop target are what aliasing, swapping and shadowing need. Loops run
zero, one and two times over the reachable bounds, and two iterations tell a carried
value from its initial. The names are not symmetric, since the statements of a menu
mention them, so no symmetry is used in the runs of `Tracer`.

In `jit_calls` two threads are as good as more, since a thread only ever touches its
own stack and the counter of builders is the one thing they share; the kernels nest
two deep, raise before, between and after operations, are caught and not caught, and
are handed a value whose id they have used and one they have not. `MaxStarts` and
`MaxStrays` bound what a thread does outside of kernels. In `typed` three statements
make a value, change it and use it, carry it through a loop, or define it in a body and
use it after (384,119 states); names start as numbers or with no meaning at all, so that
targets of `with` meet both; the two names are interchangeable, as no statement tells
them apart, and the run uses that symmetry (there is no temporal property in it). Nested
bodies take more statements than that: five, of numbers, loads, stores, loops, launches
and allocations over one element type (863,245 states), were run as well. Numbers are counted in halves up to `MaxNumber`, enough for
fractions, negative quotients and the truth values. In `prologue` three declarations
and three blocks give two nested bodies with a tensor in each. In `assign` a chain, a
nested tuple and a repeated name meet what the two assignments before them left.

`CHECK_DEADLOCK FALSE` is set in the two runs under `Discipline` only: a rule may
refuse every continuation of a source (a loop body that broke a rule of `LoopRules`
cannot be left), and such a source is simply not a disciplined one. `Spec` of
`Tracer` stops only in `Stop`. `typed`, `prologue` and `assign` do not check it either,
because there a kernel is over when it was refused, emitted or has used up its
statements. `jit_calls` does: threads that call nothing only take `Rest`, and a thread
that is inside a call must be able to go on.

### Disagreements found

Five are `violation` runs with their quoted line in `PROJECT.json`:

1. `aug`: `x += y` reads the Python local (`ast.py:315`), which a loop that carried
   `x` has left behind; an accumulation in a nested loop, or in a second loop,
   starts from a stale value.
2. `swap`: `x, y = y, x` in a loop yields the initials it read before they were
   replaced (`builder.py:114`), so every iteration yields the same pair.
3. `lazy`: the right operand of `and` is evaluated whatever the left one is
   (`builder.py:257`).
4. `early`: `break` and `continue` leave nothing in the IR, and a `break` in a `for`
   body drops the loop (`ast.py:343`). A `return` in a branch becomes a terminator
   (`builder.py:270`) that the emitter leaves out (`mlir_emitter.py:83`), and the kernel
   goes on; the run stops at the `break`, and with `return` as the only way out in its
   menu it finds that one.
5. `branch`: a name bound in a branch stands for that value after the `if`, and the
   IR uses a value that does not dominate its use (`builder.py:160`).

Others contradict no sentence of the repository; the passing runs state them as the
rule or the exception that holds. Worth knowing:

* A value of another kernel's trace is refused by the emitter, unless the kernel has
  emitted a value with the same id (and type and name) before: `Value` is a frozen
  dataclass (`ir.py:155`) and `_values` is keyed by it (`mlir_emitter.py:134`), so that
  one is used instead (`SelfContained`). For the same reason `==` and `!=` on values are
  decided while tracing (the `careful` of `Equal`).
* `int32` becomes `si32` (`mlir_types.py:85`), which `arith` does not take, so every
  arithmetic operation and every coercion on it is refused (`Accepted`).
* `bool` has no width of its own and is taken as 64 bits wide when it is coerced
  (`mlir_emitter.py:162`); `index` to `bool` keeps one bit (`Keeps`).
* The results of a loop have the types of the initial values and what is yielded is
  not coerced to them (`mlir_emitter.py:436`), so a carried name must keep its type.
* The target of a `with` is never bound (`ast.py:485`, `builder.py:168`). After
  `x = 1; with T.Kernel(1) as x:` the body reads 1 where Python reads the index
  (`careful` of `Launch`).
* A tensor allocated in a loop or a launch, or a name first bound there, may be used after
  it as far as the frontend knows; MLIR refuses the module (`Accepted`).
* `not x` always raises, as `boolop` is given no second operand; `assert` is traced but
  the emitter has no case for it (`Unsupported`).
* Arguments left over and unknown keywords are dropped silently (`compiler.py:31`);
  `BindsAsPython` is about the calls Python accepts.
* `T.empty(...)` kept in a tuple makes new outputs each time the tuple is unpacked
  (`kept` in `OutputPerCall`), and outputs assigned as a tuple are all named `tmp`
  (`builder.py:303`).
* A subscript in a tuple target and a list as a target are rejected when the kernel is
  decorated, though `ast.py:182` speaks of lists (`Rewrites`).
* Calling a kernel compiles it and then always raises: `CompiledKernel.__call__` uses a
  `torch_function` that nothing sets (`Compile`).

## 4. What is proved

All proofs are checked by TLAPS for every value of the constants that satisfies the
named assumptions of the module, which TLC evaluates in the runs.

### A trace

`TracerProofs` (which begins with the operators of `TraceIR`), `TracerEmitProofs`, `TracerUseProofs` and `DisciplineProofs`, for every `Names`, `Params`, `Menu`, `MaxStmts` and `MaxDepth` under `MenuAssumption` (a statement has as
many targets and operands as its syntax, and distinct targets), `BoundsAssumption` and
`ParamsAssumption`.

* `TypeCorrect`: `Spec => []TypeOK`. `TypeOK` is inductive as it stands. It has to
  say that the frame of an `if` or a `while` has a second region, because `EnterElse`
  pushes it and `ExitWhile` attaches it, and that the stack is one longer than
  `frames`, because every `Exit*` pops: that conjunct is what makes the pops defined.
  The argument goes bottom up: each operator of `TraceIR` returns an `IRs`, leaves
  the stack and the block arguments alone if it only emits (`Emitted`), and changes
  the length of the stack by what its name says; an action then is a
  composition of those (`StepInPlace`, `EnterStep`, `LeaveStep`). `ExitFor` also needs
  that a loop that closed without an error has taken as many ids as it has carried
  names, for the names are rebound to the last ids. The lemmas on `Rank`, `Nth` and
  `Pick` say that filtering a list keeps its type and length and that the numbering
  of the consts of `ensure_value` is what the counter hands out.

* `UsesAreDefined`: `Spec => []DefinedBeforeUse`. `DefinedBeforeUse` speaks of the
  operations that are there, and whether the next one keeps it depends on where its
  operands come from. `UseInv` therefore adds that every place an operand can come from
  knows defined ids only: the scope, the Python locals, and in every suspended generator
  the bounds or the condition it holds and the scope it saved; and that a generator's
  body is a block that exists, for the arguments a closing loop adds must land in one.
  All of it holds only until the trace raises (`KnownIds`): ids that `ensure_value`
  would have handed out after a refused append are never used. The argument is that
  every operator and every action lets the IR *grow* (`Grown`: what was defined stays
  defined, what is used is defined), that growing composes (`GrownTwice`), and that
  what was known stays known (`UseKept`). The case that takes work is `CloseLoopUse`:
  the fresh ids become arguments of the body before anything is rewired to them, and
  the yield and the loop use initials and finals that the saved scope and the scope
  knew. `DefinedBeforeUse` is weaker than `Dominance`, which a trace may break
  (finding `branch`): it says that an id is not used before it exists, not that it is
  visible.

* `IdsNameOneThing`, `RegionsFormATree`, `LoopsAlwaysYield`: `Spec => []DefinedOnce`,
  `Spec => []RegionTree`, `Spec => []LoopsYield`, from one inductive invariant, `Inv` of
  `TracerProofs`. None of the three is inductive. `DefinedOnce` needs that the ids
  below the counter are all of them, or a fresh id could be an old one: `Numbered` says
  that what has a place is below the counter and has one, always, and `Complete` that
  what is below the counter has a place, until a refused operation has taken its ids;
  `RegionTree` needs the regions that suspended generators hold and have not handed to an
  operation yet (`Nested`): they belong to nobody, each generator's are younger than those
  of the generators around it, and every region on the stack is one of them; so the
  operation a generator ends with takes regions nobody has, into a block older than them.
  The argument is that almost all a trace does *builds upon* the IR there is (`Upon`): it
  appends operations without regions that are no loops, rewires operands without changing
  how many there are, and adds blocks and arguments. Building composes (`UponTwice`) and
  keeps all of `Sound` (`SoundUpon`). What is left is the end of a compound statement: `Ended`
  says what a generator that resumes knows of its regions, and `Closed` that an operation
  which takes them keeps `Sound` and `Nested`; for a loop with results it also asks for the
  yield, which `YieldFinalsLast` finds in the body.

* `TracesAreAccepted`: `Spec => []EmitterAccepts`. The emitter checks an operation through its
  regions, and these are filled while the generator that will append the operation is
  suspended, so `EmitterAccepts` says nothing of them until it is too late. The inductive
  invariant `EInv` adds to `Inv` that each suspended generator could append its operation now
  (`FrameReady`): its body has the arguments the operation asks for, no terminator but a
  return, and the condition of a `while` is a region with one yield of one value at its end.
  A step writes into the current block (`Adds`) and puts no yield there, so the regions of
  other generators are not touched; `Free` regions and `Held` say that the current block is
  nobody's but the innermost generator's. The yield of a `while` condition and the one that
  closes a loop's body are the two exceptions, each with a lemma of its own. Rewiring changes
  operands only and keeps their number (`Edits`).

* `TracesOnlyRewire`: `Spec => OnlyRewires`, an action property, from `EInv`. All steps but
  `ExitFor` leave the operations as they are (`Kept`). For `ExitFor` the proof relates two
  recursive definitions that walk in opposite directions: `_replace_region_uses` goes down from
  the body through the regions of operations (`Subtree`), `Above` goes up from a block through
  the operations regions belong to. That both are functions at all has to be shown
  (`ReachesExists`, by induction on the rank of a block, which `Ascent` does with sets of
  naturals instead of a predicate), and that a block in the first has the body in the second
  (`SubtreeAbove`, by the same induction). What is redirected is redirected to a fresh id:
  `RedirectsTo` says which, and `CarriedInitial` that the old one was a name's before the loop.

* `LocalsFollowBindings`: `Spec => []StaleLocals`. What excuses a local that is not the
  binding of its name is about operations and blocks that later steps add to, rewire and hand
  over, so `NamesInv` joins `EInv`, `UseInv` and that what has been bound is bound to something
  (`Binds`, or the beginning of a loop would make a const of a name that has none). An id has
  one maker for good (`MadeOnce` and `MakersStay`, from the numbering of `IdsNameOneThing`), so
  a binding to a const or to a loop's result stays one. The body of a kernel stays the same
  block when its generator becomes an operation (`KernelsGoOn`), and only a loop's body gets
  arguments later, which is never a kernel's (`LoopIsNoKernel`), so the target of a `with`
  stays its only argument. `StaleStep` puts these together: a step has to say of each name
  only that it left both alone, made them equal, or has an excuse (`ExitForMakes` for the
  results of a loop, `MaterialisedMakes` for the consts at its beginning).

* `DisciplinedTracesDominate`: `DSpec => []Dominance`. `UsesAreDefined` holds of every source
  and is about time; this one holds of the sources that keep the rules of `Discipline` and is
  about place. Where an operation goes depends on when its generator resumes, and what it uses
  may have waited in a scope, a Python local or a suspended generator meanwhile. `DomInv`
  therefore adds to `EInv` and `UseInv`, level by level of the open blocks (`live` has one set
  of names for each):
  - `Rooted`: each operation uses what a block above its own defines before it;
  - `Levels`: what a name that lives at a level stands for there (in the scope, or in the scope
    that the generator above has saved), and the Python local of a name with no binding, is
    *offered* at that level, that is, defined in a block that is open there, or a number;
  - `Lasts`: a name that lives at a level and is not bound lives at the deeper levels too;
  - `Holds`: so is what a suspended generator will use; nothing that a name stood for when it
    started is from its body; what was bound then still is; and the region of an `else` is
    empty while the `then` is traced.

  An operator or an expression lets the IR *flow* (`Flows`: the new operations are in the
  current block and use what is offered there), and flowing composes. A step of one statement
  then has to say only which names it binds (`BindingDom`), the beginning of a block what the
  new generator holds (`EnterDom`), and its end that the operation it appends uses what is
  offered outside and that the names that live on stand for that (`LeaveDom`, `CloseDom`). The
  case that takes the work is `ExitFor`: the rewired operations are deep in the body and use a
  new argument of it (`LoopFeeds`, with `SubtreeAbove`), while the yield uses the final values,
  which the rules ask to be visible at that point, and the loop the initial ones, which the
  rules ask too; that an initial value is not the body's own, so that it is visible outside
  too, is a part of `Holds`. `Above` changes as generators become operations; `AboveStays` and
  `DeeperAbove` say that no block loses one that it was under.

* `InitialsAreRetired`: `DSpec => []InitialsRetired`. The inductive invariant, `RetInv`, is
  `DomInv` with the property itself, said of the operations by their numbers (`Retired`). Three
  things could break it, at two kinds of step.
  - A new operation could land in the body of a loop that has ended. It cannot: operations go to
    blocks that are open or that a suspended generator holds (`Placed`), no block above such a
    one belongs to an operation (`GrowingAbove`), and the body of a loop that has ended does
    (`AttachedAbove`). So every step that keeps the operations there are keeps `Retired`
    (`RetiredStays`); that is every step but the end of a loop.
  - At the end of a loop `_replace_region_uses` could miss a use. What is below the body in the
    sense of `Above` is what its recursion visits (`AboveSubtree`), every operand there that is
    an initial value is redirected (`RewiredApart`), and the yield, which comes after that, uses
    final values, which the rules of `Discipline` make different from every initial one
    (`FinalsDiffer`).
  - Redirecting could give the loops already closed inside it a value they have retired: their own
    initial values are operands of operations in this body and are redirected as well. A new
    argument has a fresh id, which is the redirection of one id only, so two operands that
    differed before differ after it (`MovesApart`).

### Calls

`JitCallsProofs`, for any threads, kernels and bodies
(`BodyAssumption`: a body is a sequence of statements; `BoundAssumption`).

* `CallsTypeCorrect`, `StacksAlwaysNest`: `Spec => []TypeOK`, `Spec => []StacksNest`, from one
  inductive invariant, `IInv`. `StacksNest` alone is not inductive: a step of one thread
  could write the builder of another. `IInv` adds that the builders of the running calls
  are there and belong to those calls' kernels (`OwnsBuilder`), that no builder has two
  calls (`NoSharing`), that a caller waits at a call statement (`CallersWait`), and that
  an IR has recorded exactly the statements up to its call's program counter
  (`RecordedSoFar`).
* `CallsAreIsolated`: `Spec => Isolation`, the refinement. Initial states map to initial
  states, and under `IInv` every step of `JitCalls` is a step of `IsolatedTraces` or leaves
  its variables alone: an operator reaches the top of the stack, that is by `StacksNest`
  the call's own builder, and by `RecordedSoFar` it records the next statement.
* `CompiledFromOwnValues`: `Spec => []SelfContained`. What a kernel holds as its last value
  is its own and older than the next operation (`OwnValues`), so an operand from another
  builder came in by the one way there is (`OnlyHanded`), and an IR becomes `ready` only
  when each operand was found among the ids emitted before it (`ReadyEmits`).

### Types

`TypedTraceProofs`, for any names and tensors that are not called the same
(`NamesAssumption`), any bounds, and any element types other than `index`
(`ElementsAssumption`). `BoundsAssumption` keeps the bound on numbers below `Lost`,
the mark of a number that nobody knows: a number that is the mark would be taken for one
that is not known, and the model, not the code, would be wrong about it.

* `KernelsTypeCorrect`: `Spec => []TypeOK`; a value always has a type the frontend knows.
* `RulesOfTypes`: `Spec => []Accepted`, for kernels of any length. The lemmas go through the
  tables: for every two types, when the coercion is verified and when each operation is.
  The rules of types are the conditions under which all of them are, so a statement
  refuses nothing just when it keeps them. The rule about reading after a body says which
  names the source shows to be out of reach (`lost`), and MLIR says where a value is defined
  (`at`). That the two agree is not inductive either: `Scoped` adds that what an open body
  defines is among what it binds (`Inside`), that what a loop binds is bound in all bodies
  around it (`Nested`), so that the end of a body reaches all it defines and nothing else, and
  that a loop remembers what was out of reach when it began (`Remembers`), which its initial
  values may be.
* `CarefulKernelsAreExact`: `Spec => []Exact`. That the compiled kernel has Python's number
  under every name is not inductive: whether a coercion or an operation keeps a number depends
  on the number. `NInv` adds to the types and to `Accepted` that, while a kernel has kept both
  kinds of rules, a name holds a number that is known and *fine* for its type (`Right`: an
  `index` or a `bool` is whole), and a tensor's element a fine one or nothing (`Stored`). From
  this the lemmas go through the tables again, now for what is computed: a coercion the rules
  admit changes no fine number (`KeptByCoercion`), and an operation they admit, on operands
  coerced to its type, computes Python's number and a fine one (`BinaryComputes`, `CeilDivSmall`,
  with the little that is needed about quotients and products, `Euclid` and `EvenClosed`). A
  statement then keeps `NInv` one by one, a loop that carries a name included, for what it
  carries is a name before and after, and a launch, whose index is 0 in both, if its target
  is a new name.

### Signature and names

`PrologueProofs`, for any names, parameters without repetition (`ArgNamesAssumption`),
calls (`CallsAssumption`) and bounds.

* `PrologueTypeCorrect`: `Spec => []TypeOK`.
* `EveryTensorHasOnePlace`: `Spec => []OnePlace`. A tensor that is in scope or used was
  handed out before, and the lists of the signature hold what was handed out, each once
  (`ListedOnce`), with its index (`Indices`), as an argument of one block (`OwnedOnce`).
  That no id is listed twice needs that all listed ids are below the counter, which is
  part of the types.
* `OnlyNestedAreRefused`: `Spec => []RefusesNested`. A body with an index has more than one
  argument just when a declaration added one (`NestedGrows`), and every use finds its
  value, for a used tensor is always listed (`UsesListed`).
* `ParametersAsPython`: `Spec => BindsAsPython`, from the same invariant: a call Python
  accepts gives each parameter one argument, so that looking among the positional ones
  first finds it, and the number of a new tensor stands for no name yet.

### Assignments

`AssignmentsProofs`, for any names, and any targets and expressions, of any depth and number
(`SyntaxAssumption`: leaves are names, subscripts, numbers, `T.empty(...)`, each in a place of its
own; `BoundAssumption`).

* `RewritingIsPython`: `Spec => []AssignsAsPython`. `AssignsAsPython` speaks of the moments between
  two assignments, and Python's history is ahead of the kernel at all others. What relates the two
  in between is a *machine* that runs the rewritten statements on Python's own objects (`Moves`,
  `Leads`). One lemma is about the rewriter alone: the statements of an assignment lead the machine
  to the state `PyAssign` gives (`VisitLeads`), although a tuple is taken apart before any of its
  names is bound, several targets share one temporary, and a later target may be bound to what an
  earlier one is. The inductive invariant, `AInv`, then says that there is a machine the kernel is
  the same as, name by name and temporary by temporary (`Related`), up to `T.empty(...)` having
  become an output in one and not in the other, and that what is left of the code leads that machine
  to where Python is already. Every statement moves both; a statement raises in the kernel
  just when it raises for the machine, and then Python has raised. The right-hand side is evaluated
  by the first statement only (`RhsFirst`), before anything was bound, and so in the scope
  Python evaluates it in.
* `CallsMakeOneOutput`: `Spec => []OutputPerCall`. It needs to know, in the middle of an assignment,
  where each call of `T.empty` has got to (`OInv`): the outputs are distinct calls that have been
  made (`Once`); every tensor in scope or in a temporary is the output it says it is; the scope and
  the shared temporary hold nothing that `T.empty` returned and that is no output yet
  (`Settled`); and what a temporary of a tuple holds of that kind is of a call that no output and no
  other temporary has (`OutsLoose`), and the statement that makes the output of it comes before
  all others (`Pending`). That distinct calls are no more than have been made is counting
  (`OnceIsFew`). The exception `kept` is what breaks it, when a tuple is unpacked twice.

### Only model-checked

`CallsEnd`, which is liveness, and `Meaning`, which compares two recursive interpreters over
programs of any depth: it is about what they compute for every program, and that is induction
over data.

## 5. Not modelled

* The mechanics of the rewriter: quoting, spans, fresh names, closures and the evaluation
  of annotations. What it rewrites each statement to is modelled.
* Operators that differ from a modelled one in name only (`|`, `^`, `<<`, `>>`, bitwise `&`),
  ranks of tensors above one, memory spaces, layouts, `f64`, which no dtype names.
* `IRBuilder.break_op`, `continue_op` and `cast`, and the emitter's `CAST`: nothing in the
  package calls or emits them.
* Of the native part, the verifiers of `parallel` and `dot`: the emitter fixes the shape of
  the former and never emits the latter. `FrontendVerify` changes nothing and the binding is
  plumbing.
* MLIR itself, but for the verifiers of the `arith` and `memref` operations the emitter
  builds, which `Coercions` models as external.

## 6. What could follow

1. A module for `MLIREmitter`'s walk over nested regions, so that "no value is missing when
   it is used" becomes a property of tracer and emitter together; today `Dominance`,
   `EmitterAccepts`, `RefusesNested` and `SelfContained` each cover a part of it.
2. An abstract specification of a trace (append, nest, close over) that `Tracer` implements.
3. Tiles and tensors of more than one dimension in `TypedTrace`.
