------------------------------- MODULE Tracer -------------------------------
(***************************************************************************)
(* The tracing of one kernel: the Builder of tileflow/compiler/builder.py   *)
(* driven by the statements of tileflow/compiler/ast.py after DSLMutator's  *)
(* rewriting, on the IR of TraceIR.                                         *)
(*                                                                          *)
(* A behaviour is the trace of one kernel source, which it discovers as it  *)
(* goes: every step takes the next statement of the source from Menu and    *)
(* does all that the rewritten statement does. A statement is a record      *)
(*   s    what it is          c    the kind of its condition, if it has one *)
(*   dst  the names it binds  arg  the names it reads    n    a literal     *)
(* and src[b] is the source text whose trace goes to block b, every         *)
(* statement with the blocks of its own bodies. The kernel works on one     *)
(* buffer, IR value 0, declared in the prologue.                            *)
(***************************************************************************)
EXTENDS TraceIR

CONSTANTS
    Names,      \* the Python names of the kernel
    Params,     \* sequence of [x, n]: the scalar parameters and their values
    Menu,       \* the statements a source may be made of
    MaxStmts,   \* bound: statements in a source
    MaxDepth    \* bound: nesting of if, for, while and with

(* The shape of a statement. A parallel loop binds one name per extent.     *)
Shape(st, s, dst, arg) == st.s = s /\ Len(st.dst) = dst /\ Len(st.arg) = arg
LoopKinds == {"serial", "parallel", "pipelined"}
Conditions == {"lt", "mem", "and"}
Statements == [s : STRING, c : STRING, dst : Seq(Names), arg : Seq(Names), n : Int]
WellFormed(st) ==
    /\ st \in Statements
    /\ \A j, k \in DOMAIN st.dst : st.dst[j] = st.dst[k] => j = k
    /\ \/ Shape(st, "num", 1, 0) \/ Shape(st, "name", 1, 1) \/ Shape(st, "add", 1, 2)
       \/ Shape(st, "load", 1, 1) \/ Shape(st, "ifexp", 1, 2) \/ Shape(st, "aug", 1, 1)
       \/ Shape(st, "tuple", 2, 2) \/ Shape(st, "store", 0, 2) \/ Shape(st, "augstore", 0, 2)
       \/ st.s \in {"return", "break", "continue"} /\ st.dst = <<>>
       \/ st.s \in {"if", "while"} /\ st.c \in Conditions /\ Shape(st, st.s, 0, 2)
       \/ Shape(st, "kernel", 1, 1)
       \/ st.s \in {"serial", "pipelined"} /\ Len(st.dst) = 1 /\ Len(st.arg) \in 1..3
       \/ st.s = "parallel" /\ st.dst # <<>> /\ Len(st.arg) = Len(st.dst)

ASSUME MenuAssumption == \A st \in Menu : WellFormed(st)
ASSUME BoundsAssumption == MaxStmts \in Nat /\ MaxDepth \in Nat
ASSUME ParamsAssumption ==
    /\ Params \in Seq([x : Names, n : Int])
    /\ \A j, k \in DOMAIN Params : Params[j].x = Params[k].x => j = k

VARIABLES
    ir,      \* the IRBuilder
    scope,   \* Builder.bindings[-1]: at[x], and its keys in insertion order
    locals,  \* the Python locals of the rewritten function
    frames,  \* the suspended ctx_* generators, innermost last
    src      \* history: the source traced so far

vars == <<ir, scope, locals, frames, src>>

Buffer == Val(0)

(* The scope and the locals as functions of names.                          *)
Bind(sc, x, o) ==
    [order |-> IF sc.at[x] = Unbound THEN Append(sc.order, x) ELSE sc.order,
     at    |-> [sc.at EXCEPT ![x] = o]]

(* Builder.rval: the binding, or else the Python local of that name.        *)
Rval(x) == IF scope.at[x] # Unbound THEN scope.at[x] ELSE locals[x]
Rvals(xs) == [j \in DOMAIN xs |-> Rval(xs[j])]

(* The objects bound to the names of sc, in insertion order.                *)
Objects(sc) == [j \in DOMAIN sc.order |-> sc.at[sc.order[j]]]

Top == frames[Len(frames)]
Up == SubSeq(frames, 1, Len(frames) - 1)
InLoop == \E k \in DOMAIN frames : frames[k].s.s \in LoopKinds \cup {"while"}

(***************************************************************************)
(* Python expressions over numbers and Values: what they append, and what   *)
(* they evaluate to.                                                        *)
(***************************************************************************)
Pure(r, o) == [ir |-> r, o |-> o]

Add(r, a, b) ==
    IF IsNum(a) /\ IsNum(b) THEN Pure(r, Num(a.n + b.n)) ELSE EmitValue(r, "add", <<a, b>>)

(* a < b: of a number and a Value, Python calls the reflected b.__gt__(a).  *)
Less(r, a, b) ==
    IF IsNum(a) /\ IsNum(b) THEN Pure(r, Num(IF a.n < b.n THEN 1 ELSE 0))
    ELSE IF IsNum(a) THEN EmitValue(r, "gt", <<b, a>>) ELSE EmitValue(r, "lt", <<a, b>>)

(* TensorValue.__getitem__                                                  *)
Load(r, a) == EmitValue(r, "load", <<Buffer, a>>)

(* a < b, B[a] < b, or a < b and B[a] < b: boolop calls its lambda, the     *)
(* right operand, before it emits the and.                                  *)
Condition(r, c, a, b) ==
    LET lt == Less(r, a, b)
        ld == Load(IF c = "and" THEN lt.ir ELSE r, a)
        right == Less(ld.ir, ld.o, b)
    IN  CASE c = "lt" -> lt
          [] c = "mem" -> right
          [] c = "and" -> EmitValue(right.ir, "and", <<lt.o, right.o>>)

(* B[a] if a < b else b: ifexp calls both lambdas, then selects.            *)
IfExp(r, a, b) ==
    LET lt == Less(r, a, b)
        ld == Load(lt.ir, a)
    IN  EmitValue(ld.ir, "select", <<lt.o, ld.o, b>>)

(***************************************************************************)
(* Statements that are one call. The guard Stmt(st) takes st from the menu  *)
(* and writes it down; a raise of an earlier statement ended the trace.     *)
(***************************************************************************)
SrcSize == LET f[b \in 0..Len(src)] == IF b = 0 THEN 0 ELSE f[b - 1] + Len(src[b])
           IN  f[Len(src)]

Readable(st) == \A j \in DOMAIN st.arg : Rval(st.arg[j]) # Unbound

Reached == /\ ir.err = "none"
           /\ frames # <<>> => ~Top.skip
Stmt(st) == /\ Reached
            /\ SrcSize < MaxStmts
            /\ Readable(st)

Wrote(st, body, other) ==
    [src EXCEPT ![Block(ir)] = Append(@, [st |-> st, body |-> body, other |-> other])]

(* name = __tb.bind('name', value)                                          *)
MutBindAs(x, r) ==          \* a bug: the call of bind without the assignment
    ir' = r.ir /\ scope' = Bind(scope, x, r.o) /\ UNCHANGED locals
BindAs(x, r) == /\ ir' = r.ir
                /\ scope' = Bind(scope, x, r.o)
                /\ locals' = [locals EXCEPT ![x] = r.o]

(* x = n, x = y, x = y + z, x = B[y], x = B[y] if y < z else z              *)
Value(st) ==
    LET o == Rvals(st.arg)
    IN  CASE st.s = "num"   -> Pure(ir, Num(st.n))
          [] st.s = "name"  -> Pure(ir, o[1])
          [] st.s = "add"   -> Add(ir, o[1], o[2])
          [] st.s = "load"  -> Load(ir, o[1])
          [] st.s = "ifexp" -> IfExp(ir, o[1], o[2])

Assign(st) ==
    /\ st.s \in {"num", "name", "add", "load", "ifexp"}
    /\ Stmt(st)
    /\ BindAs(st.dst[1], Value(st))
    /\ src' = Wrote(st, 0, 0)
    /\ UNCHANGED frames

(* x, y = a, b: both right-hand sides first, through temporaries.           *)
TupleAssign(st) ==
    /\ st.s = "tuple"
    /\ Stmt(st)
    /\ LET o == Rvals(st.arg) IN
        /\ scope' = Bind(Bind(scope, st.dst[1], o[1]), st.dst[2], o[2])
        /\ locals' = [locals EXCEPT ![st.dst[1]] = o[1], ![st.dst[2]] = o[2]]
    /\ src' = Wrote(st, 0, 0)
    /\ UNCHANGED <<ir, frames>>

(* x += y: visit_AugAssign leaves the target a plain Python name, so the    *)
(* left operand is the local, not the binding; binary never folds.          *)
AugOperand(x) == locals[x]
AugAssign(st) ==
    /\ st.s = "aug"
    /\ Stmt(st)
    /\ locals[st.dst[1]] # Unbound
    /\ BindAs(st.dst[1], EmitValue(ir, "add", <<AugOperand(st.dst[1]), Rval(st.arg[1])>>))
    /\ src' = Wrote(st, 0, 0)
    /\ UNCHANGED frames

(* B[i] = v                                                                 *)
Store(r, v, i) == Emit(r, "store", <<v, Buffer, i>>, 0, <<>>, 0)
AssignSlice(st) ==
    /\ st.s = "store"
    /\ Stmt(st)
    /\ LET o == Rvals(st.arg) IN ir' = Store(ir, o[2], o[1])
    /\ src' = Wrote(st, 0, 0)
    /\ UNCHANGED <<scope, locals, frames>>

(* B[i] += v: a load and a store, each with its own copy of the index.      *)
AugAssignSlice(st) ==
    /\ st.s = "augstore"
    /\ Stmt(st)
    /\ LET o == Rvals(st.arg)
           current == Load(ir, o[1])
           sum == EmitValue(current.ir, "add", <<current.o, o[2]>>)
       IN  ir' = Store(sum.ir, sum.o, o[1])
    /\ src' = Wrote(st, 0, 0)
    /\ UNCHANGED <<scope, locals, frames>>

(* return v, ...: appends a terminator. Python goes on with what follows.   *)
Return(st) ==
    /\ st.s = "return"
    /\ Stmt(st)
    /\ ir' = Emit(ir, "return", Rvals(st.arg), 0, <<>>, 0)
    /\ src' = Wrote(st, 0, 0)
    /\ UNCHANGED <<scope, locals, frames>>

(***************************************************************************)
(* Compound statements. Entering one runs its ctx_* generator up to the     *)
(* yield and leaves it suspended as a frame; leaving the Python block       *)
(* resumes it.                                                              *)
(***************************************************************************)
Frame(st, body, other, objs, before) ==
    [s |-> st, body |-> body, other |-> other, objs |-> objs, before |-> before,
     branch |-> "then", skip |-> FALSE]

Compound(st) == Stmt(st) /\ Len(frames) < MaxDepth

(* make_range_spec, Pipelined and Parallel: lo, hi and step of every dim,   *)
(* all the lo first, then all the hi, then all the step.                    *)
MutDims(st) ==              \* a bug: Pipelined(start, stop) starts at 0
    LET o == Rvals(st.arg)
        n == Len(o)
    IN  IF st.s = "parallel"
        THEN [j \in 1..n |-> Num(0)] \o o \o [j \in 1..n |-> Num(1)]
        ELSE <<Num(0), o[IF n = 1 THEN 1 ELSE 2], Num(1)>>
Dims(st) ==
    LET o == Rvals(st.arg)
        n == Len(o)
    IN  IF st.s = "parallel"
        THEN [j \in 1..n |-> Num(0)] \o o \o [j \in 1..n |-> Num(1)]
        ELSE CASE n = 1 -> <<Num(0), o[1], Num(1)>>
               [] n = 2 -> <<o[1], o[2], Num(1)>>
               [] n = 3 -> o

(* ctx_for up to its yield: the numbers in scope become consts of the       *)
(* current block, the body region gets one argument per dim and is pushed;  *)
(* then the loop target is bound.                                           *)
BindAll(sc, xs, objs) ==
    [order |-> sc.order \o Pick(xs, {j \in DOMAIN xs : sc.at[xs[j]] = Unbound}),
     at    |-> [x \in Names |-> IF \E j \in DOMAIN xs : xs[j] = x
                                THEN objs[CHOOSE j \in DOMAIN xs : xs[j] = x]
                                ELSE sc.at[x]]]
Materialised(sc, r) ==
    LET ids == EnsureIds(r, Objects(sc))
    IN  BindAll(sc, sc.order, [j \in DOMAIN sc.order |-> Val(ids[j])])
EnterFor(st) ==
    /\ st.s \in LoopKinds
    /\ Compound(st)
    /\ LET entry == NewRegion(Ensure(ir, Objects(scope)))
           body == LastRegion(entry)
           ivs == [j \in DOMAIN st.dst |-> Val(Fresh(entry, Len(st.dst))[j])]
           before == Materialised(scope, ir)
       IN  /\ ir' = PushRegion(NewArgs(entry, body, Len(st.dst)), body)
           /\ scope' = BindAll(before, st.dst, ivs)
           /\ locals' = [x \in Names |-> IF \E j \in DOMAIN st.dst : st.dst[j] = x
                                         THEN scope'.at[x] ELSE locals[x]]
           /\ frames' = Append(frames, Frame(st, body, 0, Dims(st), before))
           /\ src' = Append(Wrote(st, body, 0), <<>>)

(* The rest of ctx_for. A name is carried when it was bound before the loop *)
(* to the result of an operation and is bound to another Value now; its     *)
(* uses in the body become a new argument, the body yields its new Value,   *)
(* and the loop's result is its binding from here on.                       *)
Carried(r, before, now) ==
    {j \in DOMAIN before.order :
        LET initial == before.at[before.order[j]]
            final == now.at[before.order[j]]
        IN  /\ IsVal(initial) /\ initial.n \notin BlockArgs(r)
            /\ IsVal(final)
            /\ final # initial}
LoopOp(kind) == CASE kind = "serial" -> "serial_for"
                  [] kind = "parallel" -> "parallel"
                  [] kind = "pipelined" -> "pipelined_for"

(* A parallel loop may not carry values.                                    *)
MutRefused(f, n) == FALSE   \* a bug: no such check
Refused(f, n) == n > 0 /\ f.s.s = "parallel"

(* The body yields the final values, if there are any.                      *)
MutYieldFinals(r, b, finals) ==     \* a bug: a body that returned is left alone
    IF finals = <<>> \/ Terminated(r, b) THEN r
    ELSE AppendOp(r, b, "yield", finals, 0, <<>>, 0)
YieldFinals(r, b, finals) ==
    IF finals = <<>> THEN r ELSE AppendOp(r, b, "yield", finals, 0, <<>>, 0)

(* The bounds become values of the block the loop is in, and the loop op is *)
(* appended there with the bounds and the initial values as its operands.   *)
CloseLoop(r, f, names, now) ==
    LET n == Len(names)
        outer == PopRegion(r)
        bounds == Ensure(outer, f.objs)
        initials == [j \in 1..n |-> f.before.at[names[j]].n]
        finals == [j \in 1..n |-> now.at[names[j]].n]
        rewired == ReplaceRegionUses(NewArgs(bounds, f.body, n), f.body,
                                     initials, Fresh(bounds, n))
        yielded == YieldFinals(rewired, f.body, finals)
    IN  IF bounds.err = "none" /\ Refused(f, n) THEN Raise(bounds, "parallelCarry")
        ELSE AppendOp(yielded, Block(outer), LoopOp(f.s.s), EnsureIds(outer, f.objs) \o initials,
                      n, <<f.body>>, Len(f.s.dst))

(* scope[name] = result: the last results of the closed trace r.            *)
MutRebound(sc, names, r) == sc      \* a bug: the name keeps the body's value
Rebound(sc, names, r) ==
    BindAll(sc, names, [j \in DOMAIN names |-> Val(r.next - Len(names) + j - 1)])
ExitFor ==
    /\ ir.err = "none" /\ frames # <<>>
    /\ Top.s.s \in LoopKinds
    /\ LET names == Pick(Top.before.order, Carried(ir, Top.before, scope))
       IN  /\ ir' = CloseLoop(ir, Top, names, scope)
           /\ scope' = IF ir'.err = "none" THEN Rebound(scope, names, ir') ELSE scope
    /\ frames' = Up
    /\ UNCHANGED <<locals, src>>

(* if a < b: ... else: ...  The condition is a value of the current block;  *)
(* the branches are traced one after the other on the same scope.           *)
EnterIf(st) ==
    /\ st.s = "if"
    /\ Compound(st)
    /\ LET o == Rvals(st.arg)
           cond == Condition(ir, st.c, o[1], o[2])
           entry == NewRegion(NewRegion(Ensure(cond.ir, <<cond.o>>)))
           body == LastRegion(entry) - 1
           id == EnsureIds(cond.ir, <<cond.o>>)[1]
       IN  /\ ir' = PushRegion(entry, body)
           /\ frames' = Append(frames, Frame(st, body, body + 1, <<Val(id)>>, scope))
           /\ src' = Wrote(st, body, body + 1) \o <<<<>>, <<>>>>
    /\ UNCHANGED <<scope, locals>>

EnterElse ==
    /\ ir.err = "none" /\ frames # <<>>
    /\ Top.s.s = "if" /\ Top.branch = "then"
    /\ ir' = PushRegion(PopRegion(ir), Top.other)
    /\ frames' = [frames EXCEPT ![Len(frames)].branch = "else",
                                ![Len(frames)].skip = FALSE]
    /\ UNCHANGED <<scope, locals, src>>

(* if_op: the else region only when the source has an else.                 *)
MutTwice(f) ==              \* a bug: the then region in both places
    IF f.branch = "else" THEN <<f.body, f.body>> ELSE <<f.body>>
MutSwapped(f) ==            \* a bug: the regions in the wrong order
    IF f.branch = "else" THEN <<f.other, f.body>> ELSE <<f.body>>
IfRegions(f) == IF f.branch = "else" THEN <<f.body, f.other>> ELSE <<f.body>>

ExitIf ==
    /\ ir.err = "none" /\ frames # <<>>
    /\ Top.s.s = "if"
    /\ ir' = Emit(PopRegion(ir), "if", Top.objs, 0, IfRegions(Top), 0)
    /\ frames' = Up
    /\ UNCHANGED <<scope, locals, src>>

(* while: the condition is traced once, in a region of its own.             *)
EnterWhile(st) ==
    /\ st.s = "while"
    /\ Compound(st)
    /\ LET entry == NewRegion(ir)
           test == LastRegion(entry)
           o == Rvals(st.arg)
           cond == Condition(PushRegion(entry, test), st.c, o[1], o[2])
           done == NewRegion(PopRegion(Emit(cond.ir, "yield", <<cond.o>>, 0, <<>>, 0)))
       IN  /\ ir' = PushRegion(done, test + 1)
           /\ frames' = Append(frames, Frame(st, test + 1, test, <<>>, scope))
           /\ src' = Wrote(st, test + 1, test) \o <<<<>>, <<>>>>
    /\ UNCHANGED <<scope, locals>>

ExitWhile ==
    /\ ir.err = "none" /\ frames # <<>>
    /\ Top.s.s = "while"
    /\ ir' = Emit(PopRegion(ir), "while", <<>>, 0, <<Top.other, Top.body>>, 0)
    /\ frames' = Up
    /\ UNCHANGED <<scope, locals, src>>

(* with T.Kernel(n) as x: x is a plain Python name, not bound in the scope. *)
EnterKernel(st) ==
    /\ st.s = "kernel"
    /\ Compound(st)
    /\ LET entry == NewRegion(ir)
           body == LastRegion(entry)
       IN  /\ ir' = PushRegion(NewArgs(entry, body, 1), body)
           /\ locals' = [locals EXCEPT ![st.dst[1]] = Val(entry.next)]
           /\ frames' = Append(frames, Frame(st, body, 0, Rvals(st.arg), scope))
           /\ src' = Append(Wrote(st, body, 0), <<>>)
    /\ UNCHANGED scope

ExitKernel ==
    /\ ir.err = "none" /\ frames # <<>>
    /\ Top.s.s = "kernel"
    /\ ir' = Emit(PopRegion(ir), "kernel", Top.objs, 0, <<Top.body>>, 1)
    /\ frames' = Up
    /\ UNCHANGED <<scope, locals, src>>

(***************************************************************************)
(* break and continue stay Python statements. In a branch they leave the    *)
(* loop over ctx_then or ctx_else, and in a loop body continue resumes the  *)
(* generator early: either way only the rest of that block is not traced.   *)
(* break in a loop body closes the generator, which pops its region and     *)
(* never appends the loop.                                                  *)
(***************************************************************************)
SkipRest(st) ==
    /\ st.s \in {"break", "continue"}
    /\ Stmt(st) /\ InLoop
    /\ \/ Top.s.s = "if"
       \/ Top.s.s # "kernel" /\ st.s = "continue"
    /\ frames' = [frames EXCEPT ![Len(frames)].skip = TRUE]
    /\ src' = Wrote(st, 0, 0)
    /\ UNCHANGED <<ir, scope, locals>>

AbandonLoop(st) ==
    /\ st.s = "break"
    /\ Stmt(st) /\ frames # <<>>
    /\ Top.s.s \in LoopKinds \cup {"while"}
    /\ ir' = PopRegion(ir)
    /\ frames' = Up
    /\ src' = Wrote(st, 0, 0)
    /\ UNCHANGED <<scope, locals>>

(* The kernel function returned, or an exception left it.                   *)
Finished == ir.err # "none" \/ frames = <<>>
Stop == Finished /\ UNCHANGED vars

(***************************************************************************)
(* The prologue has declared the buffer and bound the scalar parameters.    *)
(***************************************************************************)
InitialScope ==
    [order |-> [j \in DOMAIN Params |-> Params[j].x],
     at    |-> [x \in Names |->
                  IF \E j \in DOMAIN Params : Params[j].x = x
                  THEN Num(Params[CHOOSE j \in DOMAIN Params : Params[j].x = x].n)
                  ELSE Unbound]]

Init ==
    /\ ir = [next |-> 1, ops |-> <<>>, args |-> <<<<0>>>>, stack |-> <<1>>, err |-> "none"]
    /\ scope = InitialScope
    /\ locals = InitialScope.at
    /\ frames = <<>>
    /\ src = <<<<>>>>

Next ==
    \/ \E st \in Menu : \/ Assign(st) \/ TupleAssign(st) \/ AugAssign(st)
                        \/ AssignSlice(st) \/ AugAssignSlice(st) \/ Return(st)
                        \/ EnterFor(st) \/ EnterIf(st) \/ EnterWhile(st) \/ EnterKernel(st)
                        \/ SkipRest(st) \/ AbandonLoop(st)
    \/ ExitFor \/ EnterElse \/ ExitIf \/ ExitWhile \/ ExitKernel
    \/ Stop

Spec == Init /\ [][Next]_vars
=============================================================================
