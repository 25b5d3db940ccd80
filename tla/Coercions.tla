----------------------------- MODULE Coercions -----------------------------
(***************************************************************************)
(* Types: what tileflow/compiler/mlir_emitter.py emits for an operation on  *)
(* values of given types, whether MLIR accepts it, and what number comes    *)
(* out. The frontend's scalar types are index, bool, int (signed, 32 bits)  *)
(* and two floats; the precision of the floats is left out.                 *)
(*                                                                          *)
(* An emitted operation is [op, ins, out]: its name, the MLIR types of its  *)
(* operands and of its result.                                              *)
(***************************************************************************)
EXTENDS Integers

Floats == {"f16", "f32"}
Kinds == {"index", "bool", "int"} \cup Floats

(* _convert_type. An int has a sign, and arith works on signless integers.  *)
MutMlir(k) == CASE k = "bool" -> "i1" [] k = "int" -> "i32" [] OTHER -> k    \* an int without one
Mlir(k) == CASE k = "bool" -> "i1" [] k = "int" -> "si32" [] OTHER -> k

Bits(k) == CASE k = "int" -> 32 [] k = "f16" -> 16 [] k = "f32" -> 32 [] OTHER -> 64

Op(op, ins, out) == [op |-> op, ins |-> ins, out |-> out]
Unary(op, k, l) == {Op(op, {Mlir(k)}, Mlir(l))}

(* _coerce: the operations that turn a value of type k into one of type l.  *)
CoerceOps(k, l) ==
    IF k = l THEN {} ELSE
    CASE k \in Floats /\ l \in Floats -> Unary(IF Bits(k) < Bits(l) THEN "extf" ELSE "truncf", k, l)
      [] k \notin Floats /\ l \notin Floats ->
            Unary(IF (k = "index") # (l = "index") THEN "index_cast"
                  ELSE IF Bits(k) < Bits(l) THEN "extsi" ELSE "trunci", k, l)
      [] k = "index" /\ l \in Floats -> {Op("index_cast", {"index"}, "i64"), Op("sitofp", {"i64"}, l)}
      [] k \in Floats /\ l = "index" -> {Op("fptosi", {k}, "i64"), Op("index_cast", {"i64"}, "index")}
      [] k \in {"bool", "int"} /\ l \in Floats -> Unary("sitofp", k, l)
      [] k \in Floats /\ l \in {"bool", "int"} -> Unary("fptosi", k, l)

(* The verifiers of the arith and memref dialects.                          *)
Signless == {"i1", "i32", "i64"}
Integral == Signless \cup {"index"}
Verifies(o) ==
    CASE o.op \in {"addi", "subi", "muli", "divsi", "floordivsi", "remsi", "andi", "ceildivui"} ->
            o.out \in Integral /\ o.ins = {o.out}
      [] o.op \in {"addf", "subf", "mulf", "divf", "remf", "negf"} -> o.out \in Floats /\ o.ins = {o.out}
      [] o.op = "cmpi" -> o.out = "i1" /\ \E m \in Integral : o.ins = {m}
      [] o.op = "cmpf" -> o.out = "i1" /\ \E m \in Floats : o.ins = {m}
      [] o.op = "index_cast" -> \E m \in Signless : (o.ins = {m} /\ o.out = "index") \/ (o.ins = {"index"} /\ o.out = m)
      [] o.op = "extsi" -> o.ins = {"i1"} /\ o.out \in Signless \ {"i1"}
      [] o.op = "trunci" -> o.ins \in {{"i32"}, {"i64"}} /\ o.out = "i1"
      [] o.op = "extf" -> o.ins = {"f16"} /\ o.out = "f32"
      [] o.op = "truncf" -> o.ins = {"f32"} /\ o.out = "f16"
      [] o.op = "sitofp" -> o.ins \in {{m} : m \in Signless} /\ o.out \in Floats
      [] o.op = "fptosi" -> o.ins \in {{m} : m \in Floats} /\ o.out \in Signless
      [] OTHER -> FALSE
Verified(ops) == \A o \in ops : Verifies(o)

(* _emit_binary: an operator has a name for integers, one for floats, or    *)
(* raises; everything is coerced to the type of the left operand.           *)
BinaryOps == {"+", "-", "*", "/", "//", "%", "and"}
MutIntegerName(op) == IF op = "//" THEN "divsi" ELSE IF op = "%" THEN "remsi" ELSE "addi"   \* a bug in the table
IntegerName(op) == CASE op = "+" -> "addi" [] op = "-" -> "subi" [] op = "*" -> "muli" [] op = "/" -> "divsi"
                     [] op = "//" -> "floordivsi" [] op = "%" -> "remsi" [] op = "and" -> "andi"
FloatName(op) == CASE op = "+" -> "addf" [] op = "-" -> "subf" [] op = "*" -> "mulf" [] op = "/" -> "divf"
                   [] op = "%" -> "remf" [] OTHER -> "raises"
Name(op, k) == IF k \in Floats THEN FloatName(op) ELSE IntegerName(op)
EmitBinary(op, k) == {Op(Name(op, k), {Mlir(k)}, Mlir(k))}

(* _emit_compare, _emit_ceildiv; NEG has no integer name.     *)
EmitCompare(k) == {Op(IF k \in Floats THEN "cmpf" ELSE "cmpi", {Mlir(k)}, "i1")}
EmitCeildiv(l, r) == {Op("ceildivui", {Mlir(l), Mlir(r)}, Mlir(l))}
EmitNeg(k) == {Op(IF k \in Floats THEN "negf" ELSE "raises", {Mlir(k)}, Mlir(k))}

(***************************************************************************)
(* Numbers, counted in halves: 0.5 is 1, one and True are 2. Lost is what   *)
(* the model does not compute: poison, or a number far out of its range.    *)
(***************************************************************************)
Lost == 1000
Whole(v) == (IF v < 0 THEN -((-v) \div 2) ELSE v \div 2)     \* towards zero
Number(n) == 2 * n
Bit(n) == Number(n % 2)

(* What a coercion makes of a number: i1 is one bit wide, and signed.       *)
Coerced(k, l, v) ==
    IF v = Lost \/ k = l THEN v ELSE
    CASE k = "bool" -> -v
      [] k = "index" /\ l = "bool" -> Bit(Whole(v))
      [] k \in Floats /\ l = "bool" -> IF Whole(v) \in {0, -1} THEN Bit(Whole(v)) ELSE Lost
      [] k \in Floats /\ l = "index" -> Number(Whole(v))
      [] OTHER -> v

(* Division by the number d that floors, and one that truncates.            *)
FloorDiv(a, d) == IF d < 0 THEN (-a) \div (-d) ELSE a \div d
TruncDiv(a, d) == IF (a < 0) = (d < 0) THEN FloorDiv(a, d) ELSE -FloorDiv(-a, d)
CeilDiv(a, d) == -FloorDiv(-a, d)

(* Bitwise and, of numbers that fit in five bits and a sign.                *)
BothSet(a, b, w) == (a \div w) % 2 = 1 /\ (b \div w) % 2 = 1
Weight(a, b, w) == IF BothSet(a, b, w) THEN w ELSE 0
AndBits(a, b) == Weight(a, b, 1) + Weight(a, b, 2) + Weight(a, b, 4) + Weight(a, b, 8) + Weight(a, b, 16)
                   - Weight(a, b, 32)

(* a op b, as Python computes it, and as the operation emitted for type k.  *)
Computes(op, a, b) ==
    CASE op = "+" -> a + b
      [] op = "-" -> a - b
      [] op = "*" -> (a * b) \div 2
      [] op = "/" -> FloorDiv(2 * a, b)
      [] op = "//" -> Number(FloorDiv(a, b))
      [] op = "%" -> a - FloorDiv(a, b) * b
      [] op = "and" -> IF a = 0 THEN a ELSE b
Exactly(op, a, b) == (op = "*" => (a * b) % 2 = 0) /\ (op = "/" => b # 0 /\ TruncDiv(2 * a, b) * b = 2 * a)
RunsBits(name, a, b) ==
    CASE name \in {"addi", "subi"} -> Bit(Whole(a) + Whole(b))
      [] name \in {"muli", "andi"} -> IF a = 0 THEN a ELSE b
      [] name = "remsi" -> 0
      [] OTHER -> IF a = 0 THEN 0 ELSE Lost       \* True is -1: it overflows
RunsNumbers(name, a, b) ==
    CASE name \in {"addi", "addf"} -> a + b
      [] name \in {"subi", "subf"} -> a - b
      [] name \in {"muli", "mulf"} -> (a * b) \div 2
      [] name = "divf" -> FloorDiv(2 * a, b)
      [] name = "divsi" -> Number(TruncDiv(a, b))
      [] name = "floordivsi" -> Number(FloorDiv(a, b))
      [] name \in {"remsi", "remf"} -> a - TruncDiv(a, b) * b
      [] name = "andi" -> Number(AndBits(Whole(a), Whole(b)))
      [] OTHER -> Lost
Divisions == {"divf", "remf", "divsi", "floordivsi", "remsi"}
Runs(name, k, a, b) ==
    IF Lost \in {a, b} \/ (name \in Divisions /\ b = 0) THEN Lost
    ELSE IF k = "bool" THEN RunsBits(name, a, b) ELSE RunsNumbers(name, a, b)
=============================================================================
