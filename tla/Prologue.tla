------------------------------ MODULE Prologue ------------------------------
(***************************************************************************)
(* What a kernel is called with and what it declares: how get_ir binds the  *)
(* arguments of a call (tileflow/compiler/compiler.py), how the names of    *)
(* the kernel come to stand for tensors (Builder.bind), where these become  *)
(* block arguments and entries of the signature (IRBuilder.argument and     *)
(* output), and what the emitter makes of the two.                          *)
(*                                                                          *)
(* A tensor is the number of its IR value, a scalar what the caller passes. *)
(***************************************************************************)
EXTENDS Integers, Sequences, FiniteSets

CONSTANTS
    Names,     \* the Python names of the kernel
    ArgNames,  \* sequence: the names that are its parameters
    Scalars,   \* what a caller passes, other than annotations and T.empty(...)
    Calls,     \* the calls a caller makes: positional arguments and keywords
    MaxDecls,  \* bound: tensors that a kernel declares
    MaxBlocks  \* bound: blocks

ASSUME ArgNamesAssumption ==
    /\ ArgNames \in Seq(Names)
    /\ \A j, l \in DOMAIN ArgNames : ArgNames[j] = ArgNames[l] => j = l

(* Python objects: k says what it is, v which. "out" is an OutTensor.       *)
Obj(k, v) == [k |-> k, v |-> v]
None == Obj("none", 0)
Unbound == Obj("unbound", 0)
Out == Obj("out", 0)
Annotation == Obj("annotation", 0)
Tensor(v) == Obj("tensor", v)
Passable == {Obj("scalar", s) : s \in Scalars} \cup {None, Out, Annotation}
Keywords == UNION {[K -> Passable] : K \in SUBSET Names}
ASSUME CallsAssumption == Calls \subseteq [args : Seq(Passable), kwargs : Keywords]
ASSUME BoundsAssumption == MaxDecls \in Nat /\ MaxBlocks \in Nat

VARIABLES
    call,     \* what the kernel is called with, until its parameters are bound
    bound,    \* how many parameters are bound
    at,       \* Builder.bindings[-1]
    blocks,   \* sequence of [op, args]: the operation a block belongs to, its arguments
    stack,    \* the region stack, as blocks
    params,   \* KernelIR.params and KernelIR.outputs
    outputs,
    next,     \* IRBuilder._next_value
    uses,     \* history: the tensors read and written
    nested,   \* history: a tensor was declared in the body of a loop or a launch
    result    \* "tracing", "raised", "refused" by the emitter or "emitted"

vars == <<call, bound, at, blocks, stack, params, outputs, next, uses, nested, result>>

Here == stack[Len(stack)]
Declared == Len(params) + Len(outputs)

(***************************************************************************)
(* JITImplementation.get_ir                                                 *)
(***************************************************************************)
Position(x) == CHOOSE j \in DOMAIN ArgNames : ArgNames[j] = x

(* Positional arguments first, then keywords, then None; an annotation      *)
(* becomes None. What is left over is dropped: zip is not strict, and the   *)
(* rewritten function takes any keyword.                                    *)
MutCallKwargs(c, x) ==      \* a bug: the self of a bound method is counted
    LET j == Position(x) - 1
    IN  IF j \in DOMAIN c.args THEN c.args[j] ELSE IF x \in DOMAIN c.kwargs THEN c.kwargs[x] ELSE None
CallKwargs(c, x) ==
    LET j == Position(x)
        given == IF j \in DOMAIN c.args THEN c.args[j]
                 ELSE IF x \in DOMAIN c.kwargs THEN c.kwargs[x] ELSE None
    IN  IF given = Annotation THEN None ELSE given

(* IRBuilder.argument, in the current block, and IRBuilder.output, which    *)
(* raises anywhere but at the top. An index counts the declarations.        *)
MutEntry(x, list) == [name |-> x, index |-> Len(list), value |-> next + 1]    \* a bug: counts first
Entry(x, list) == [name |-> x, index |-> Len(list), value |-> next]
MutArgument(x) ==           \* a bug: always an argument of the entry block
    /\ blocks' = [blocks EXCEPT ![1].args = Append(@, next)]
    /\ params' = Append(params, Entry(x, params))
    /\ next' = next + 1
Argument(x) ==
    /\ blocks' = [blocks EXCEPT ![Here].args = Append(@, next)]
    /\ params' = Append(params, Entry(x, params))
    /\ next' = next + 1
MutOutputs(n) ==            \* a bug: _next_output_index stays
    [j \in 1 .. n |-> [name |-> "tmp", index |-> Len(outputs), value |-> next + j - 1]]
Outputs(n) ==
    [j \in 1 .. n |-> [name |-> "tmp", index |-> Len(outputs) + j - 1, value |-> next + j - 1]]
AppendOutputs(new) ==
    /\ blocks' = [blocks EXCEPT ![1].args = @ \o [j \in DOMAIN new |-> new[j].value]]
    /\ outputs' = outputs \o new
    /\ next' = next + Len(new)

(* Builder.bind of a value: an OutTensor becomes an output, and the name    *)
(* stands for its tensor.                                                   *)
BindValue(x, o) ==
    IF o = Out
    THEN /\ AppendOutputs(<<[Outputs(1)[1] EXCEPT !.name = x]>>)
         /\ at' = [at EXCEPT ![x] = Tensor(next)]
    ELSE at' = [at EXCEPT ![x] = o] /\ UNCHANGED <<blocks, outputs, next>>

(* x = __tb.bind("x", x), for every parameter: after the last one, nothing  *)
(* is left of the arguments.                                                *)
NoCall == [args |-> <<>>, kwargs |-> [x \in {} |-> None]]
BindParameter ==
    /\ result = "tracing" /\ bound < Len(ArgNames)
    /\ BindValue(ArgNames[bound + 1], CallKwargs(call, ArgNames[bound + 1]))
    /\ bound' = bound + 1
    /\ call' = IF bound + 1 = Len(ArgNames) THEN NoCall ELSE call
    /\ UNCHANGED <<stack, params, uses, nested, result>>

(***************************************************************************)
(* The body of the kernel.                                                  *)
(***************************************************************************)
Tracing == result = "tracing" /\ bound = Len(ArgNames)

(* A loop and a launch have an index, a branch and a while body have none.  *)
Indexed == {"for", "kernel"}

(* x: T.Tensor(shape, dtype)                                                *)
Declare(x) ==
    /\ Tracing /\ Declared < MaxDecls
    /\ Argument(x)
    /\ at' = [at EXCEPT ![x] = Tensor(next)]
    /\ nested' = (nested \/ blocks[Here].op \in Indexed)
    /\ UNCHANGED <<call, bound, stack, outputs, uses, result>>

(* x = T.empty(shape, dtype)                                                *)
Empty(x) ==
    /\ Tracing /\ Declared < MaxDecls
    /\ IF Here = 1 THEN BindValue(x, Out) /\ UNCHANGED result
       ELSE result' = "raised" /\ UNCHANGED <<at, blocks, outputs, next>>
    /\ UNCHANGED <<call, bound, stack, params, uses, nested>>

(* x, y = T.empty(...), T.empty(...): each is bound to "_" on its way.      *)
EmptyPair(x, y) ==
    /\ Tracing /\ Declared + 2 <= MaxDecls /\ x # y
    /\ IF Here = 1
       THEN /\ AppendOutputs(Outputs(2))
            /\ at' = [at EXCEPT ![x] = Tensor(next), ![y] = Tensor(next + 1)]
            /\ UNCHANGED result
       ELSE result' = "raised" /\ UNCHANGED <<at, blocks, outputs, next>>
    /\ UNCHANGED <<call, bound, stack, params, uses, nested>>

(* x = y                                                                    *)
Alias(x, y) ==
    /\ Tracing /\ at[y] # Unbound /\ at[x] # at[y]
    /\ BindValue(x, at[y])
    /\ UNCHANGED <<call, bound, stack, params, uses, nested, result>>

(* x[i], in whatever block.                                                 *)
Use(x) ==
    /\ Tracing /\ at[x].k = "tensor"
    /\ uses' = uses \cup {at[x].v}
    /\ UNCHANGED <<call, bound, at, blocks, stack, params, outputs, next, nested, result>>

(* A loop, a launch, a branch or a while body.                              *)
Enter(op) ==
    /\ Tracing /\ Len(blocks) < MaxBlocks
    /\ LET index == IF op \in Indexed THEN <<next>> ELSE <<>>
       IN  /\ blocks' = Append(blocks, [op |-> op, args |-> index])
           /\ next' = next + Len(index)
    /\ stack' = Append(stack, Len(blocks) + 1)
    /\ UNCHANGED <<call, bound, at, params, outputs, uses, nested, result>>
Leave ==
    /\ Tracing /\ Len(stack) > 1
    /\ stack' = SubSeq(stack, 1, Len(stack) - 1)
    /\ UNCHANGED <<call, bound, at, blocks, params, outputs, next, uses, nested, result>>

(***************************************************************************)
(* MLIREmitter.emit: the function has an argument per entry of the          *)
(* signature, params first; a body that is given more arguments than its    *)
(* operation has indices is refused, and so is a value with no MLIR value.  *)
(***************************************************************************)
Signature == params \o outputs
Emitted == {Signature[j].value : j \in DOMAIN Signature}
BodyEmits(b) == blocks[b].op \in Indexed => Len(blocks[b].args) = 1
Emit ==
    /\ Tracing /\ stack = <<1>>
    /\ result' = IF /\ \A b \in DOMAIN blocks : BodyEmits(b)
                    /\ uses \subseteq Emitted
                 THEN "emitted" ELSE "refused"
    /\ UNCHANGED <<call, bound, at, blocks, stack, params, outputs, next, uses, nested>>

Init ==
    /\ call \in Calls
    /\ bound = 0
    /\ at = [x \in Names |-> Unbound]
    /\ blocks = <<[op |-> "func", args |-> <<>>]>>
    /\ stack = <<1>>
    /\ params = <<>> /\ outputs = <<>>
    /\ next = 0
    /\ uses = {} /\ nested = FALSE
    /\ result = "tracing"

Next ==
    \/ BindParameter
    \/ \E x \in Names : Declare(x) \/ Empty(x) \/ Use(x)
    \/ \E x, y \in Names : EmptyPair(x, y) \/ Alias(x, y)
    \/ \E op \in {"for", "kernel", "if", "while"} : Enter(op)
    \/ Leave \/ Emit

Spec == Init /\ [][Next]_vars

(***************************************************************************)
(* What is stated.                                                          *)
(***************************************************************************)
Objects == Passable \cup {Unbound} \cup {Tensor(v) : v \in 0 .. next - 1}
Entries == [name : Names \cup {"tmp"}, index : Nat, value : 0 .. next - 1]

(* The types of the state.                                                  *)
TypeOK ==
    /\ call \in Calls \cup {NoCall}
    /\ bound \in 0 .. Len(ArgNames)
    /\ at \in [Names -> Objects]
    /\ blocks \in Seq([op : {"func", "for", "kernel", "if", "while"}, args : Seq(0 .. next - 1)])
    /\ stack \in Seq(DOMAIN blocks) /\ stack # <<>>
    /\ params \in Seq(Entries) /\ outputs \in Seq(Entries)
    /\ next \in Nat
    /\ uses \subseteq 0 .. next - 1
    /\ nested \in BOOLEAN
    /\ result \in {"tracing", "raised", "refused", "emitted"}

(* A parameter stands for what Python would bind it to, when Python accepts *)
(* the call: no argument too many, none twice, none missing. An annotation  *)
(* stands for nothing and a T.empty(...) for a tensor of its own.           *)
IsParameter(x) == \E j \in DOMAIN ArgNames : ArgNames[j] = x
Positional(c) == {ArgNames[j] : j \in DOMAIN c.args \cap DOMAIN ArgNames}
PythonAccepts(c) ==
    /\ Len(c.args) <= Len(ArgNames)
    /\ \A x \in Names : IF IsParameter(x) THEN (x \in Positional(c)) # (x \in DOMAIN c.kwargs)
                        ELSE x \notin DOMAIN c.kwargs
PythonBinds(c, x) == IF x \in DOMAIN c.kwargs THEN c.kwargs[x] ELSE c.args[Position(x)]
StandsFor(o, passed) ==
    CASE passed.k = "scalar" -> o = passed
      [] passed = Out -> o.k = "tensor" /\ \A y \in Names : at[y] # o
      [] OTHER -> o = None
BindsAsPython ==
    [][bound' > bound /\ PythonAccepts(call) =>
         LET x == ArgNames[bound'] IN StandsFor(at'[x], PythonBinds(call, x))]_vars

(* Every tensor a name stands for, and every one that is used, has one      *)
(* place in the signature, which its index names, and is an argument of one *)
(* block: however it was declared, aliased and rebound, the emitter finds   *)
(* it, and finds the right one.                                             *)
Places(v) == {j \in DOMAIN Signature : Signature[j].value = v}
Owners(v) == {b \in DOMAIN blocks : \E j \in DOMAIN blocks[b].args : blocks[b].args[j] = v}
Tensors == {at[x].v : x \in {y \in Names : at[y].k = "tensor"}} \cup uses
OnePlace ==
    /\ \A v \in Tensors : Cardinality(Places(v)) = 1 /\ Cardinality(Owners(v)) = 1
    /\ \A j \in DOMAIN params : params[j].index = j - 1
    /\ \A j \in DOMAIN outputs : outputs[j].index = j - 1

(* A tensor may be declared at the top, in a branch and in a while body,    *)
(* and used anywhere after that: the emitter refuses the kernels that       *)
(* declare one in the body of a loop or of a launch, and no others.         *)
RefusesNested == result \in {"refused", "emitted"} => (result = "refused" <=> nested)
=============================================================================
