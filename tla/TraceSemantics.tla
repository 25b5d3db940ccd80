--------------------------- MODULE TraceSemantics ---------------------------
(***************************************************************************)
(* What a kernel source means in Python and what the traced IR means once   *)
(* mlir_emitter.py has lowered it, as two interpreters with one observable  *)
(* behaviour: the sequence of reads and writes of the buffer. Both are for  *)
(* TLC only. A run is a record                                              *)
(*   env   names, or value ids, to integers (Undef: not bound)              *)
(*   log   the reads and writes so far                                      *)
(*   fuel  loop iterations left; a run that uses it up says nothing         *)
(*   sig   "next", or what ends the enclosing block: "break", "continue",   *)
(*         "return", "stuck" (Python raises, or the fuel is used up)        *)
(***************************************************************************)
EXTENDS TraceIR

CONSTANT Fuel   \* bound: loop iterations in one run

Undef == -1000
InitialCell(i) == (i + 1) % 3

(* The buffer is what the log says was written last.                        *)
Cell(log, i) ==
    LET writes == {k \in DOMAIN log : log[k].a = "store" /\ log[k].i = i}
    IN  IF writes = {} THEN InitialCell(i)
        ELSE log[CHOOSE k \in writes : \A m \in writes : m <= k].v
Reads(r, i) == [r EXCEPT !.log = Append(@, [a |-> "load", i |-> i, v |-> Cell(r.log, i)])]
Writes(r, i, v) == [r EXCEPT !.log = Append(@, [a |-> "store", i |-> i, v |-> v])]

Start(env) == [env |-> env, log |-> <<>>, fuel |-> Fuel, sig |-> "next"]
Stuck(r) == [r EXCEPT !.sig = "stuck"]
Tick(r) == IF r.fuel = 0 THEN Stuck(r) ELSE [r EXCEPT !.fuel = @ - 1]
Trips(d) == IF d[2] <= d[1] THEN 0 ELSE (d[2] - d[1] + d[3] - 1) \div d[3]
Truth(p) == IF p THEN 1 ELSE 0

(***************************************************************************)
(* Python                                                                   *)
(***************************************************************************)
(* The value of a condition, and the reads it does: and short-circuits.     *)
Test(c, r, a, b) == CASE c = "lt" -> a < b
                      [] c = "mem" -> Cell(r.log, a) < b
                      [] c = "and" -> a < b /\ Cell(r.log, a) < b
TestReads(c, r, a, b) == IF c = "mem" \/ (c = "and" /\ a < b) THEN Reads(r, a) ELSE r

(* Once a loop body has run: break and continue end here.                   *)
AfterBody(r) == IF r.sig = "continue" THEN [r EXCEPT !.sig = "next"] ELSE r
AfterLoop(r) == IF r.sig = "break" THEN [r EXCEPT !.sig = "next"] ELSE r

(* The (lo, hi, step) of every dim from the range arguments.                *)
SourceDims(st, a) ==
    IF st.s = "parallel" \/ Len(a) = 1
    THEN [j \in DOMAIN a |-> <<0, a[j], 1>>]
    ELSE IF Len(a) = 2 THEN <<<<a[1], a[2], 1>>>> ELSE <<<<a[1], a[2], a[3]>>>>

RECURSIVE PyBlock(_, _, _, _), PyFor(_, _, _, _, _, _), PyWhile(_, _, _)

PyStmt(src, e, r) ==
    LET st == e.st
        a == [j \in DOMAIN st.arg |-> r.env[st.arg[j]]]
        read == IF st.s = "load" THEN Reads(r, a[1])
                ELSE IF st.s = "augstore" THEN Reads(r, a[1])
                ELSE IF st.s = "ifexp" THEN TestReads("and", r, a[1], a[2])
                ELSE IF st.s \in {"if", "while"} THEN TestReads(st.c, r, a[1], a[2])
                ELSE r
        set(v) == [read EXCEPT !.env = [@ EXCEPT ![st.dst[1]] = v]]
    IN  IF \E j \in DOMAIN a : a[j] = Undef THEN Stuck(r)
        ELSE CASE st.s = "num" -> set(st.n)
               [] st.s = "name" -> set(a[1])
               [] st.s = "add" -> set(a[1] + a[2])
               [] st.s = "load" -> set(Cell(r.log, a[1]))
               [] st.s = "ifexp" -> set(IF a[1] < a[2] THEN Cell(r.log, a[1]) ELSE a[2])
               [] st.s = "aug" -> IF r.env[st.dst[1]] = Undef THEN Stuck(r)
                                  ELSE set(r.env[st.dst[1]] + a[1])
               [] st.s = "tuple" -> [r EXCEPT !.env = [@ EXCEPT ![st.dst[1]] = a[1],
                                                               ![st.dst[2]] = a[2]]]
               [] st.s = "store" -> Writes(r, a[1], a[2])
               [] st.s = "augstore" -> Writes(read, a[1], Cell(r.log, a[1]) + a[2])
               [] st.s \in {"return", "break", "continue"} -> [r EXCEPT !.sig = st.s]
               [] st.s = "if" ->
                    PyBlock(src, IF Test(st.c, r, a[1], a[2]) THEN e.body ELSE e.other, 1, read)
               [] st.s = "while" -> PyWhile(src, e, r)
               [] st.s \in {"serial", "pipelined", "parallel"} ->
                    AfterLoop(PyFor(src, e, SourceDims(st, a), st.dst, <<>>, r))
               [] st.s = "kernel" -> PyFor(src, e, <<<<0, a[1], 1>>>>, st.dst, <<>>, r)

PyBlock(src, b, k, r) ==
    IF k > Len(src[b]) \/ r.sig # "next" THEN r
    ELSE PyBlock(src, b, k + 1, PyStmt(src, src[b][k], r))

(* The iteration space of dims, outermost first; ivs are the values so far  *)
(* of the outer dims. Only forward ranges have a meaning here. The blocks   *)
(* of a kernel all start from what was bound before it.                     *)
PyFor(src, e, dims, dst, ivs, r) ==
    IF r.sig # "next" THEN r
    ELSE IF Len(ivs) = Len(dims) THEN
        LET start == [r.env EXCEPT ![dst[1]] = ivs[1], ![dst[Len(dst)]] = ivs[Len(dst)]]
            run == AfterBody(PyBlock(src, e.body, 1, [Tick(r) EXCEPT !.env = start]))
        IN  IF e.st.s = "kernel" THEN [run EXCEPT !.env = r.env] ELSE run
    ELSE LET d == dims[Len(ivs) + 1] IN
        IF d[3] <= 0 THEN Stuck(r)
        ELSE LET run[k \in 0..Trips(d)] ==
                   IF k = 0 THEN r
                   ELSE PyFor(src, e, dims, dst, Append(ivs, d[1] + (k - 1) * d[3]), run[k - 1])
             IN  run[Trips(d)]

PyWhile(src, e, r) ==
    LET a == [j \in DOMAIN e.st.arg |-> r.env[e.st.arg[j]]]
        read == TestReads(e.st.c, r, a[1], a[2])
    IN  IF ~Test(e.st.c, r, a[1], a[2]) THEN read
        ELSE LET once == AfterBody(PyBlock(src, e.body, 1, Tick(read)))
             IN  IF once.sig = "next" THEN PyWhile(src, e, once) ELSE AfterLoop(once)

RunSource(src, env) == PyBlock(src, 1, 1, Start(env))

(***************************************************************************)
(* The IR, by the meaning of the operations mlir_emitter.py emits for it.   *)
(***************************************************************************)
RECURSIVE IrBlock(_, _, _, _), IrFor(_, _, _, _, _), IrWhile(_, _, _)

Terminator(ir, b) == CHOOSE k \in OpsOf(ir, b) : ir.ops[k].name \in Terminators

(* env with the values of vs put at ws, all at once.                        *)
Move(env, ws, vs) == [v \in DOMAIN env |-> IF \E j \in DOMAIN ws : ws[j] = v
                                           THEN env[vs[CHOOSE j \in DOMAIN ws : ws[j] = v]]
                                           ELSE env[v]]

IrOp(ir, k, r) ==
    LET op == ir.ops[k]
        a == [j \in DOMAIN op.operands |-> r.env[op.operands[j]]]
        set(q, v) == [q EXCEPT !.env = [@ EXCEPT ![op.results[1]] = v]]
        rank == op.attr
        dims == [j \in 1..rank |-> <<a[j], a[rank + j], a[2 * rank + j]>>]
        carried == SubSeq(op.operands, 3 * rank + 1, Len(op.operands))
        iterArgs == SubSeq(ir.args[op.regions[1]], rank + 1, Len(ir.args[op.regions[1]]))
    IN  CASE op.name = "const" -> set(r, op.attr)
          [] op.name = "add" -> set(r, a[1] + a[2])
          [] op.name = "lt" -> set(r, Truth(a[1] < a[2]))
          [] op.name = "gt" -> set(r, Truth(a[1] > a[2]))
          [] op.name = "and" -> set(r, a[1] * a[2])
          [] op.name = "select" -> set(r, IF a[1] = 1 THEN a[2] ELSE a[3])
          [] op.name = "load" -> set(Reads(r, a[2]), Cell(r.log, a[2]))
          [] op.name = "store" -> Writes(r, a[3], a[1])
          [] op.name = "if" ->
               IF a[1] = 1 THEN IrBlock(ir, op.regions[1], 1, r)
               ELSE IF Len(op.regions) = 2 THEN IrBlock(ir, op.regions[2], 1, r) ELSE r
          [] op.name = "while" -> IrWhile(ir, k, r)
          [] op.name = "kernel" -> IrFor(ir, k, <<<<0, a[1], 1>>>>, <<>>, r)
          [] op.name \in {"serial_for", "pipelined_for", "parallel"} ->
               LET run == IrFor(ir, k, dims, <<>>,
                                [r EXCEPT !.env = Move(@, iterArgs, carried)])
               IN  [run EXCEPT !.env = Move(@, op.results, iterArgs)]

(* _emit_region_contents: the operations; a return is not emitted.          *)
IrBlock(ir, b, k, r) ==
    IF k > Len(ir.ops) \/ r.sig # "next" THEN r
    ELSE IrBlock(ir, b, k + 1,
                 IF ir.ops[k].blk = b /\ ir.ops[k].name \notin Terminators
                 THEN IrOp(ir, k, r) ELSE r)

(* scf.for, tileflow.parallel, tileflow.kernel over their iteration space:  *)
(* an iteration ends by moving what the body yields to its iter_args.       *)
IrFor(ir, k, dims, ivs, r) ==
    LET body == ir.ops[k].regions[1]
        rank == Len(dims)
        args == ir.args[body]
    IN  IF r.sig # "next" THEN r
        ELSE IF Len(ivs) = rank THEN
            LET bound == [v \in DOMAIN r.env |-> IF \E j \in 1..rank : args[j] = v
                                                 THEN ivs[CHOOSE j \in 1..rank : args[j] = v]
                                                 ELSE r.env[v]]
                run == IrBlock(ir, body, 1, [Tick(r) EXCEPT !.env = bound])
            IN  IF Terminated(ir, body)
                THEN [run EXCEPT !.env = Move(@, SubSeq(args, rank + 1, Len(args)),
                                              ir.ops[Terminator(ir, body)].operands)]
                ELSE run
        ELSE LET d == dims[Len(ivs) + 1] IN
            IF d[3] <= 0 THEN Stuck(r)
            ELSE LET run[n \in 0..Trips(d)] ==
                       IF n = 0 THEN r
                       ELSE IrFor(ir, k, dims, Append(ivs, d[1] + (n - 1) * d[3]), run[n - 1])
                 IN  run[Trips(d)]

(* scf.while: the condition region again before every iteration.            *)
IrWhile(ir, k, r) ==
    LET test == ir.ops[k].regions[1]
        tested == IrBlock(ir, test, 1, r)
    IN  IF r.sig # "next" \/ tested.env[ir.ops[Terminator(ir, test)].operands[1]] # 1
        THEN tested
        ELSE IrWhile(ir, k, IrBlock(ir, ir.ops[k].regions[2], 1, Tick(tested)))

RunIR(ir) == IrBlock(ir, 1, 1, Start([v \in 0..LastValue(ir) |-> Undef]))
=============================================================================
