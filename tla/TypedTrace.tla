----------------------------- MODULE TypedTrace -----------------------------
(***************************************************************************)
(* A kernel traced, emitted and run, with types and numbers: which traces   *)
(* MLIR accepts, and whether what they compute is what Python computes.     *)
(*                                                                          *)
(* A name stands for nothing yet, a Python number or an IR value. Either has *)
(* a type t (a number has the one its const would get), the number py that  *)
(* Python gives it and the number hw that the compiled kernel has at that   *)
(* point. A value, and a tensor, is defined in the block at some depth, and *)
(* its uses must be in that block. Loops and launches run once; a tensor    *)
(* has one element.                                                         *)
(***************************************************************************)
EXTENDS Coercions, Sequences

CONSTANTS
    Names,
    Tensors,
    Elements,     \* the element types of tensors
    Statements,   \* the statements kernels are made of
    MaxSteps,     \* bound: statements of a kernel
    MaxNumber     \* bound: how large numbers get, in halves

ASSUME NamesAssumption == Names \cap Tensors = {}
ASSUME ElementsAssumption == Elements \subseteq Kinds \ {"index"}
ASSUME BoundsAssumption == MaxSteps \in Nat /\ MaxNumber \in 0 .. Lost - 1

VARIABLES
    scope,    \* name -> what it stands for
    tensors,  \* tensor -> its element type, whether it is a tile, its depth, and its element
    blocks,   \* the bodies being traced: the scope before, and what is bound since
    lost,     \* history: what was last bound in a body that has ended, and is no number
    refused,  \* what the MLIR verifier refuses
    typed,    \* history: the kernel keeps the rules of types below
    careful,  \* history: and the rules of numbers
    left      \* statements left

vars == <<scope, tensors, blocks, lost, refused, typed, careful, left>>

Depth == Len(blocks)

(* What a name stands for, by its kind k: "num", a number in the scope, or  *)
(* "hidden" when the Python local is a launch's index; "val", the result of *)
(* an operation; "arg", an argument of a loop's body; "target", one of a    *)
(* launch's body, which is a Python local only: rval falls back on it.      *)
Literal(t, v) == [k |-> "num", at |-> 0, t |-> t, py |-> v, hw |-> v]
Numbers == {Literal("bool", 0), Literal("bool", 2), Literal("index", -2), Literal("index", 2),
            Literal("index", 4), Literal("f32", 1)}
Unbound == [Literal("bool", 0) EXCEPT !.k = "none"]
Value(t, py, hw) == [k |-> "val", at |-> Depth, t |-> t, py |-> py, hw |-> hw]
Argument(k, t) == [k |-> k, at |-> Depth + 1, t |-> t, py |-> 0, hw |-> 0]
MutBlockArg(k) == Argument(k, "i64")    \* a bug: a type the frontend does not have
BlockArg(k) == Argument(k, "index")

IsNumber(o) == o.k \in {"num", "hidden"}
IsValue(o) == o.k \in {"val", "arg", "target"}
Small(v) == v \in -MaxNumber .. MaxNumber

(* A statement of a kind, unless the kernel has been refused. It reads      *)
(* names that stand for something.                                          *)
Statement(s, read) ==
    /\ s \in Statements /\ refused = {} /\ typed
    /\ \A n \in read : scope[n].k # "none"
    /\ left > 0 /\ left' = left - 1

(* What is refused, whatever else is wrong: an operand that is used outside *)
(* of its block, as MLIR sees it, and, as the source shows it, of its body. *)
Refuses(why, accepted) == IF accepted THEN {} ELSE {why}
At(n) == IF n \in Names THEN scope[n].at ELSE tensors[n].at
Verifier(operands, other) == refused' = other \cup Refuses("dominance", \A n \in operands : At(n) # -1)
Obeys(operands, types, numbers) ==
    /\ typed' = (types /\ operands \cap lost = {})
    /\ careful' = (careful /\ numbers)

BoundIn(ns) == [d \in DOMAIN blocks |-> [blocks[d] EXCEPT !.bound = @ \cup ns]]
BindAs(x, o) ==
    /\ scope' = [scope EXCEPT ![x] = o]
    /\ blocks' = BoundIn({x})
    /\ lost' = lost \ {x}

(* What a coercion from k to l keeps.                                       *)
Keeps(k, l) == k = l \/ (k = "index" /\ l \in Floats) \/ (k = "f16" /\ l = "f32")
Unsigned(k, l) == (k = "int") = (l = "int")

(* x = a number.                                                            *)
Assign(x) ==
    /\ Statement("number", {})
    /\ \E n \in Numbers : BindAs(x, n)
    /\ Obeys({}, TRUE, TRUE)
    /\ UNCHANGED <<tensors, refused>>

(* x = A[i]; A[i] = v. An index is not coerced, a stored value is. What     *)
(* alloc_fragment returns is a tensor for MLIR, and memref.load no op on it. *)
Element(a, i) == Refuses("index", scope[i].t = "index") \cup Refuses("tile", ~tensors[a].tile)
Load(x, a, i) ==
    /\ Statement("load", {i})
    /\ BindAs(x, Value(tensors[a].t, tensors[a].py, tensors[a].hw))
    /\ Verifier({a, i}, Element(a, i))
    /\ Obeys({a, i}, scope[i].t = "index" /\ ~tensors[a].tile, tensors[a].hw # Lost)
    /\ UNCHANGED tensors
Store(a, i, x) ==
    /\ Statement("store", {i, x})
    /\ LET v == scope[x]
           t == tensors[a].t
       IN  /\ tensors' = [tensors EXCEPT ![a] = [@ EXCEPT !.py = v.py, !.hw = Coerced(v.t, t, v.hw)]]
           /\ Verifier({a, i, x}, Element(a, i) \cup Refuses("coercion", Verified(CoerceOps(v.t, t))))
           /\ Obeys({a, i, x}, scope[i].t = "index" /\ ~tensors[a].tile /\ (v.t = t \/ "int" \notin {v.t, t}),
                    Keeps(v.t, t))
    /\ UNCHANGED <<scope, blocks, lost>>

(* x = y op z, y and z, and y op= z when y is a number: the result has the  *)
(* type of y.                                                               *)
BinaryRule(op, l, r) ==
    "int" \notin {l, r} /\ (l \in Floats => op \notin {"//", "and"})
BinaryIsExact(op, a, b) ==
    /\ Keeps(b.t, a.t)
    /\ a.t = "bool" <=> op = "and"
    /\ a.t = "index" => op # "/"
    /\ op = "%" => a.py >= 0 /\ b.py >= 0
Traced(op, x, y, z) ==    \* Value has no __rtruediv__, __rfloordiv__ and __rmod__
    \/ IsValue(scope[y]) \/ op = "and" \/ (x = y /\ scope[y].k = "num")
    \/ IsValue(scope[z]) /\ op \notin {"/", "//", "%"}
Binary(x, op, y, z) ==
    /\ Statement("binary", {y, z})
    /\ Traced(op, x, y, z)
    /\ LET a == scope[y]
           b == scope[z]
           hw == Runs(Name(op, a.t), a.t, a.hw, Coerced(b.t, a.t, b.hw))
           py == Computes(op, a.py, b.py)
       IN  /\ op \in {"/", "//", "%"} => b.py # 0
           /\ Exactly(op, a.py, b.py) /\ Small(py)
           /\ BindAs(x, Value(a.t, py, IF Small(hw) THEN hw ELSE Lost))
           /\ Verifier({y, z}, Refuses("coercion", Verified(CoerceOps(b.t, a.t)))
                                 \cup Refuses("operation", Verified(EmitBinary(op, a.t))))
           /\ Obeys({y, z}, BinaryRule(op, a.t, b.t), BinaryIsExact(op, a, b))
    /\ UNCHANGED tensors

(* x = y < z. Python swaps the operands when only z is a value.             *)
Truth(b) == IF b THEN 2 ELSE 0
IsLess(k, a, b) == IF Lost \in {a, b} THEN Lost
                   ELSE Truth(IF k = "bool" THEN b < a ELSE a < b)     \* i1 is signed
Compare(x, y, z) ==
    /\ Statement("compare", {y, z})
    /\ LET a == scope[y]
           b == scope[z]
           l == IF IsValue(a) THEN a.t ELSE b.t
           r == IF IsValue(a) THEN b.t ELSE a.t
       IN  /\ IsValue(a) \/ IsValue(b)
           /\ BindAs(x, Value("bool", Truth(a.py < b.py),
                              IsLess(l, Coerced(a.t, l, a.hw), Coerced(b.t, l, b.hw))))
           /\ Verifier({y, z}, Refuses("coercion", Verified(CoerceOps(r, l)))
                                 \cup Refuses("operation", Verified(EmitCompare(l))))
           /\ Obeys({y, z}, "int" \notin {l, r}, Keeps(r, l) /\ l # "bool")
    /\ UNCHANGED tensors

(* x = y == z, on values that are not one: dataclass equality, at once.     *)
Equal(x, y, z) ==
    /\ Statement("equal", {y, z})
    /\ IsValue(scope[y]) \/ IsValue(scope[z])
    /\ BindAs(x, [Literal("bool", Truth(scope[y].py = scope[z].py)) EXCEPT !.hw = Truth(y = z)])
    /\ Obeys({}, TRUE, FALSE)
    /\ UNCHANGED <<tensors, refused>>

(* x = y if c else z.                                                       *)
Select(x, c, y, z) ==
    /\ Statement("select", {c, y, z})
    /\ LET a == scope[y]
           b == scope[z]
           cond == scope[c]
           bhw == Coerced(b.t, a.t, b.hw)
       IN  /\ BindAs(x, Value(a.t, IF cond.py # 0 THEN a.py ELSE b.py,
                              CASE cond.hw = Lost -> Lost [] cond.hw = 0 -> bhw [] OTHER -> a.hw))
           /\ Verifier({c, y, z}, Refuses("condition", Mlir(cond.t) = "i1")
                                    \cup Refuses("coercion", Verified(CoerceOps(b.t, a.t))))
           /\ Obeys({c, y, z}, cond.t = "bool" /\ Unsigned(a.t, b.t), Keeps(b.t, a.t))
    /\ UNCHANGED tensors

(* x = -y, and T.ceildiv(y, z), which is unsigned and coerces nothing.      *)
Negate(x, y) ==
    /\ Statement("negate", {y})
    /\ IsValue(scope[y])
    /\ BindAs(x, Value(scope[y].t, -scope[y].py, IF scope[y].hw = Lost THEN Lost ELSE -scope[y].hw))
    /\ Verifier({y}, Refuses("operation", Verified(EmitNeg(scope[y].t))))
    /\ Obeys({y}, \E f \in Floats : scope[y].t = f, TRUE)
    /\ UNCHANGED tensors
UnsignedCeilDiv(a, b) == IF Lost \in {a, b} \/ a < 0 \/ b <= 0 THEN Lost ELSE Number(CeilDiv(a, b))
Ceildiv(x, y, z) ==
    /\ Statement("ceildiv", {y, z})
    /\ LET a == scope[y]
           b == scope[z]
       IN  /\ b.py # 0
           /\ BindAs(x, Value(a.t, Number(CeilDiv(a.py, b.py)), UnsignedCeilDiv(a.hw, b.hw)))
           /\ Verifier({y, z}, Refuses("operation", Verified(EmitCeildiv(a.t, b.t))))
           /\ Obeys({y, z}, a.t = b.t /\ a.t \in {"bool", "index"}, a.py >= 0 /\ b.py > 0)
    /\ UNCHANGED tensors

(* for x in range(y). Numbers in scope become consts of this block: as good *)
(* as bound here.                                                           *)
Materialised == [n \in Names |-> IF IsNumber(scope[n]) THEN [scope[n] EXCEPT !.k = "val", !.at = Depth]
                                 ELSE scope[n]]
NumberNames == {n \in Names : IsNumber(scope[n])}
Block(kind, before, bound) == [kind |-> kind, before |-> before, lost |-> lost, bound |-> bound]
EnterFor(x, y) ==
    /\ Statement("for", {y})
    /\ scope[y].py = 2 /\ scope[y].hw = 2
    /\ scope' = [Materialised EXCEPT ![x] = BlockArg("arg")]
    /\ blocks' = Append(BoundIn(NumberNames \cup {x}), Block("for", Materialised, {x}))
    /\ lost' = lost \ {x}
    /\ Verifier({y}, Refuses("bound", scope[y].t = "index"))
    /\ Obeys({y}, scope[y].t = "index", TRUE)
    /\ UNCHANGED tensors

(* with T.Kernel(y, ..., threads=) as x, of one block: the verifier of      *)
(* tileflow.kernel. The target is not bound in the scope, so that one that  *)
(* is bound already goes on standing for what it did, though not in Python. *)
KernelVerifies(rank, threads) == rank \in 1 .. 3 /\ threads # 0
IsBound(x) == scope[x].k \in {"num", "hidden", "val", "arg"}
Shadowed(o, k) == [o EXCEPT !.k = k, !.py = 0]
MutLaunched(x) == BlockArg("arg")       \* a bug: it is bound
Launched(x) ==
    IF IsBound(x) THEN Shadowed(scope[x], IF IsNumber(scope[x]) THEN "hidden" ELSE scope[x].k)
    ELSE BlockArg("target")
Launch(x, y) ==
    /\ Statement("kernel", {y})
    /\ scope[y].py = 2 /\ scope[y].hw = 2
    /\ LET target == IF IsBound(x) THEN {} ELSE {x}
       IN  /\ scope' = [scope EXCEPT ![x] = Launched(x)]
           /\ blocks' = Append(blocks, Block("kernel", scope, target))
           /\ lost' = lost \ target
    /\ \E rank \in 0 .. 4, threads \in 0 .. 1 :
          /\ Verifier({y}, Refuses("kernel", KernelVerifies(rank, threads) /\ Mlir(scope[y].t) = "index"))
          /\ Obeys({y}, scope[y].t = "index" /\ rank \in 1 .. 3 /\ threads > 0, ~IsBound(x))
    /\ UNCHANGED tensors

(* The end of a body. What it defines has no uses after it.                 *)
Inner == blocks[Depth]
Ended(o) == IF o.at = Depth THEN [o EXCEPT !.at = -1] ELSE o
MutYielded(n) == Inner.before[n]        \* a bug: the initial value is yielded
Yielded(n) == scope[n]
Result(n) == [Value(Inner.before[n].t, scope[n].py, Yielded(n).hw) EXCEPT !.at = Depth - 1]
Leave(kind, carried) ==
    /\ blocks # <<>> /\ Inner.kind = kind /\ refused = {} /\ typed
    /\ scope' = [n \in Names |-> IF n \in carried THEN Result(n) ELSE Ended(scope[n])]
    /\ tensors' = [a \in Tensors |-> Ended(tensors[a])]
    /\ blocks' = SubSeq(blocks, 1, Depth - 1)
    /\ lost' = (lost \ carried) \cup {n \in Inner.bound \ carried : n \in Tensors \/ IsValue(scope[n])}
    /\ UNCHANGED left
ExitKernel == Leave("kernel", {}) /\ Verifier({}, {}) /\ Obeys({}, TRUE, TRUE)

(* A loop carries the names that had a result and have another value. Its   *)
(* own result has the type of the initial value, and what is yielded is not *)
(* coerced to it; it uses the initial and the final value.                  *)
Carried == {n \in Inner.bound \cap Names : Inner.before[n].k = "val" /\ scope[n].k \in {"val", "arg"}}
ExitFor ==
    /\ Leave("for", Carried)
    /\ Verifier(Carried, Refuses("carried", \A n \in Carried : Mlir(Yielded(n).t) = Mlir(Inner.before[n].t))
                            \cup Refuses("dominance", \A n \in Carried : Inner.before[n].at # -1))
    /\ Obeys(Carried, /\ \A n \in Carried : scope[n].t = Inner.before[n].t
                      /\ Carried \cap Inner.lost = {}, TRUE)

(* if x: pass, while x: pass.                                               *)
Test(x) ==
    /\ Statement("test", {x})
    /\ Verifier({x}, Refuses("condition", Mlir(scope[x].t) = "i1"))
    /\ Obeys({x}, scope[x].t = "bool", TRUE)
    /\ UNCHANGED <<scope, tensors, blocks, lost>>

(* not x, which visit_UnaryOp hands to boolop as the left operand, so that  *)
(* there is none; and assert x, whose operation the emitter has no case for. *)
Unsupported ==
    /\ \E s \in {"not", "assert"} : Statement(s, {})
    /\ Verifier({}, {"unsupported"})
    /\ Obeys({}, FALSE, TRUE)
    /\ UNCHANGED <<scope, tensors, blocks, lost>>

(* T.alloc_shared and T.alloc_fragment with the extent x. A dimension that  *)
(* is not an int is dynamic, and neither operation is given its size.       *)
Static(x) == IsNumber(scope[x]) /\ scope[x].t = "index" /\ scope[x].hw >= 0
Alloc(a, x) ==
    /\ Statement("alloc", {x})
    /\ \E t \in Elements, tile \in BOOLEAN :
          tensors' = [tensors EXCEPT ![a] = [at |-> Depth, t |-> t, tile |-> tile, py |-> 0, hw |-> Lost]]
    /\ blocks' = BoundIn({a})
    /\ lost' = lost \ {a}
    /\ Verifier({}, Refuses("shape", Static(x)))
    /\ Obeys({}, Static(x), TRUE)
    /\ UNCHANGED scope

Init ==
    /\ scope \in [Names -> Numbers \cup {Unbound}]
    /\ tensors \in [Tensors -> {[at |-> 0, t |-> t, tile |-> FALSE, py |-> 2, hw |-> 2] : t \in Elements}]
    /\ blocks = <<>> /\ lost = {}
    /\ refused = {} /\ typed = TRUE /\ careful = TRUE
    /\ left = MaxSteps

Expression(x) ==
    \/ Assign(x)
    \/ \E a \in Tensors, i \in Names : Load(x, a, i)
    \/ \E y, z \in Names : \/ \E op \in BinaryOps : Binary(x, op, y, z)
                           \/ Compare(x, y, z) \/ Equal(x, y, z) \/ Ceildiv(x, y, z)
                           \/ \E c \in Names : Select(x, c, y, z)
    \/ \E y \in Names : Negate(x, y) \/ EnterFor(x, y) \/ Launch(x, y)
Next ==
    \/ \E x \in Names : \/ Expression(x) \/ Test(x)
                        \/ \E a \in Tensors : Alloc(a, x) \/ \E i \in Names : Store(a, i, x)
    \/ ExitFor \/ ExitKernel \/ Unsupported

Spec == Init /\ [][Next]_vars
(***************************************************************************)
(* What is stated of a kernel.                                              *)
(***************************************************************************)
Objects == [k : {"none", "num", "hidden", "val", "arg", "target"}, at : Nat \cup {-1},
            t : Kinds, py : Int, hw : Int]
Arrays == [at : Nat \cup {-1}, t : Elements, tile : BOOLEAN, py : Int, hw : Int]
Blocks == [kind : {"for", "kernel"}, before : [Names -> Objects],
           lost : SUBSET (Names \cup Tensors), bound : SUBSET (Names \cup Tensors)]
Why == {"index", "tile", "coercion", "operation", "condition", "bound", "carried", "dominance", "kernel",
        "shape", "unsupported"}

(* The types of the state.                                                  *)
TypeOK ==
    /\ scope \in [Names -> Objects]
    /\ tensors \in [Tensors -> Arrays]
    /\ blocks \in Seq(Blocks)
    /\ lost \in SUBSET (Names \cup Tensors)
    /\ refused \in SUBSET Why
    /\ typed \in BOOLEAN /\ careful \in BOOLEAN
    /\ left \in 0 .. MaxSteps

(* The emitter coerces operands so that MLIR can consume them, but not all  *)
(* operands and not to all types, and nothing checks that a name is read    *)
(* where its value is defined. It is enough, and needed, that a kernel does *)
(* no arithmetic on int32 and converts none of it, divides floats with /,   *)
(* tests what is bool, negates floats, has indices, bounds and extents that *)
(* are index values, keeps the type of a carried name, allocates literal    *)
(* sizes, does without not and assert, and reads after a loop or a launch   *)
(* no tensor and no value of its body, and no number that a loop in the     *)
(* launch turned into a const, but what the loop carries: those kernels,    *)
(* and no others, are accepted.                                             *)
Accepted == refused = {} <=> typed

(* An accepted kernel computes what Python computes, if it converts only    *)
(* from index to float and f16 to f32, keeps bools to "and", takes % and    *)
(* ceildiv of what is not negative, orders no bools and launches with a     *)
(* target that is a new name: for those the tables of the emitter and the   *)
(* result types of the builder are right, through loops that carry a value, *)
(* through launches and through memory.                                     *)
Exact ==
    careful /\ refused = {} => /\ \A x \in Names : scope[x].hw = scope[x].py
                              /\ \A a \in Tensors : tensors[a].hw \in {tensors[a].py, Lost}
=============================================================================
