------------------------------ MODULE Emitter ------------------------------
(***************************************************************************)
(* The structural checks of tileflow/compiler/mlir_emitter.py: when         *)
(* MLIREmitter raises on an operation of the traced IR, whatever the types  *)
(* and the values it has emitted so far.                                    *)
(***************************************************************************)
EXTENDS TraceIR

(* The operations _emit_op has a handler for, among those a trace appends.  *)
Handled == {"const", "add", "lt", "gt", "and", "select", "load", "store",
            "serial_for", "pipelined_for", "parallel", "kernel", "if", "while"}

(* _emit_region_contents: a terminator other than return goes to _emit_op.  *)
RegionEmits(ir, b) ==
    \A k \in OpsOf(ir, b) : ir.ops[k].name \in Terminators => ir.ops[k].name = "return"

(* _emit_structured_body: as many arguments as the rank.                    *)
StructuredBody(ir, op) ==
    /\ Len(ir.args[op.regions[1]]) = op.attr
    /\ RegionEmits(ir, op.regions[1])

EmitsKernel(ir, op) == op.attr = Len(op.operands) /\ StructuredBody(ir, op)

EmitsParallel(ir, op) ==
    op.attr >= 1 /\ Len(op.operands) = 3 * op.attr /\ StructuredBody(ir, op)

(* _emit_serial_for, _emit_pipelined_for: rank 1, one argument per iter_arg *)
(* after the induction variable, and as many results, which _bind_results   *)
(* pairs with the iter_args of the scf.for. Its own terminator handling     *)
(* takes any terminator's operands as the yielded values.                   *)
EmitsFor(ir, op) ==
    LET iterArgs == Len(op.operands) - 3
    IN  /\ op.attr = 1
        /\ Len(ir.args[op.regions[1]]) = 1 + iterArgs
        /\ Len(op.results) = iterArgs

EmitsIf(ir, op) == \A j \in DOMAIN op.regions : RegionEmits(ir, op.regions[j])

EmitsWhile(ir, op) ==
    /\ Len(op.regions) = 2
    /\ \E k \in OpsOf(ir, op.regions[1]) :
         ir.ops[k].name = "yield" /\ Len(ir.ops[k].operands) = 1
    /\ RegionEmits(ir, op.regions[2])

Emits(ir, op) ==
    CASE op.name = "kernel" -> EmitsKernel(ir, op)
      [] op.name = "parallel" -> EmitsParallel(ir, op)
      [] op.name \in {"serial_for", "pipelined_for"} -> EmitsFor(ir, op)
      [] op.name = "if" -> EmitsIf(ir, op)
      [] op.name = "while" -> EmitsWhile(ir, op)
      [] OTHER -> op.name \in Handled \cup Terminators
=============================================================================
