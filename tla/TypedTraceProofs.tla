-------------------------- MODULE TypedTraceProofs --------------------------
(***************************************************************************)
(* MLIR accepts exactly the kernels that keep the rules of types, and those *)
(* of them that keep the rules of numbers compute what Python computes,     *)
(* whatever the names, tensors and statements.                              *)
(***************************************************************************)
EXTENDS TypedTrace, TLAPS

(* Between two types other than int32 a coercion emits what MLIR accepts,   *)
(* and to or from int32 never.                                              *)
LEMMA CoercionsVerify ==
    ASSUME NEW k \in Kinds, NEW l \in Kinds
    PROVE  Verified(CoerceOps(k, l)) <=> (k = l \/ "int" \notin {k, l})
<1>1. CASE k = l
  BY <1>1 DEF Verified, CoerceOps
<1>. USE DEF Verified, CoerceOps, Floats, Unary, Op, Mlir, Bits, Verifies, Signless, Integral
<1>2. CASE k # l /\ k = "int"
  BY <1>2 DEF Kinds
<1>3. CASE k # l /\ l = "int"
  BY <1>3 DEF Kinds
<1>4. CASE k = "index" /\ l \in {"bool", "f16", "f32"}
  <2>1. CASE l = "bool"
    BY <1>4, <2>1
  <2>2. CASE l \in Floats
    BY <1>4, <2>2
  <2>. QED
    BY <1>4, <2>1, <2>2
<1>5. CASE k # l /\ k = "bool" /\ l # "int"
  BY <1>5 DEF Kinds
<1>6. CASE k # l /\ k = "f16" /\ l # "int"
  BY <1>6 DEF Kinds
<1>7. CASE k # l /\ k = "f32" /\ l # "int"
  BY <1>7 DEF Kinds
<1>. QED
  BY <1>1, <1>2, <1>3, <1>4, <1>5, <1>6, <1>7 DEF Kinds

(* The operation of a binary operator.                                      *)
LEMMA BinariesVerify ==
    ASSUME NEW k \in Kinds, NEW op \in BinaryOps
    PROVE  Verified(EmitBinary(op, k)) <=> (k # "int" /\ (k \in Floats => op \notin {"//", "and"}))
BY DEF Verified, EmitBinary, Name, IntegerName, FloatName, BinaryOps, Kinds, Floats, Op, Mlir, Verifies, Signless, Integral

(* A comparison.                                                            *)
LEMMA ComparesVerify ==
    ASSUME NEW k \in Kinds
    PROVE  Verified(EmitCompare(k)) <=> k # "int"
BY DEF Verified, EmitCompare, Kinds, Floats, Op, Mlir, Verifies, Signless, Integral

(* ceildiv.                                                                 *)
LEMMA CeildivVerifies ==
    ASSUME NEW k \in Kinds, NEW l \in Kinds
    PROVE  Verified(EmitCeildiv(k, l)) <=> (k = l /\ k \in {"bool", "index"})
BY DEF Verified, EmitCeildiv, Kinds, Floats, Op, Mlir, Verifies, Signless, Integral

(* A negation.                                                              *)
LEMMA NegVerifies ==
    ASSUME NEW k \in Kinds
    PROVE  Verified(EmitNeg(k)) <=> k \in Floats
BY DEF Verified, EmitNeg, Kinds, Floats, Op, Mlir, Verifies, Signless, Integral

(* Two frontend types have one MLIR type only when they are the same.       *)
LEMMA MlirIsInjective ==
    ASSUME NEW k \in Kinds, NEW l \in Kinds
    PROVE  /\ Mlir(k) = Mlir(l) <=> k = l
           /\ Mlir(k) = "i1" <=> k = "bool"
           /\ Mlir(k) = "index" <=> k = "index"
BY DEF Kinds, Floats, Mlir

(* Flooring division is an integer.                                         *)
LEMMA FloorDivIsInt ==
    ASSUME NEW a \in Int, NEW d \in Int, d # 0
    PROVE  FloorDiv(a, d) \in Int
BY DEF FloorDiv

(* And so are the others.                                                   *)
LEMMA DivsAreInt ==
    ASSUME NEW a \in Int, NEW d \in Int, d # 0
    PROVE  TruncDiv(a, d) \in Int /\ CeilDiv(a, d) \in Int
BY FloorDivIsInt, -a \in Int DEF TruncDiv, CeilDiv

(* What a coercion makes of a number is a number.                           *)
LEMMA CoercedIsInt ==
    ASSUME NEW k, NEW l, NEW v \in Int
    PROVE  Coerced(k, l, v) \in Int
BY DEF Coerced, Lost, Bit, Whole, Number

(* What Python computes is a number.                                        *)
LEMMA ComputesIsInt ==
    ASSUME NEW op \in BinaryOps, NEW a \in Int, NEW b \in Int, op \in {"/", "//", "%"} => b # 0
    PROVE  Computes(op, a, b) \in Int
BY FloorDivIsInt, 2 * a \in Int DEF Computes, BinaryOps, Number

(* Bitwise and of numbers is one.                                           *)
LEMMA AndBitsIsInt ==
    ASSUME NEW a \in Int, NEW b \in Int
    PROVE  AndBits(a, b) \in Int
BY DEF AndBits, Weight

(* What the kernel computes is a number.                                    *)
LEMMA RunsIsInt ==
    ASSUME NEW name, NEW k, NEW a \in Int, NEW b \in Int
    PROVE  Runs(name, k, a, b) \in Int
<1>1. Whole(a) \in Int /\ Whole(b) \in Int /\ 2 * a \in Int
  BY DEF Whole
<1>2. AndBits(Whole(a), Whole(b)) \in Int
  BY <1>1, AndBitsIsInt
<1>3. b # 0 => /\ FloorDiv(2 * a, b) \in Int /\ FloorDiv(a, b) \in Int
               /\ TruncDiv(a, b) \in Int
  BY <1>1, FloorDivIsInt, DivsAreInt
<1>4. Bit(Whole(a) + Whole(b)) \in Int
  BY <1>1 DEF Bit, Number
<1>5. (a * b) \div 2 \in Int /\ (b # 0 => a - TruncDiv(a, b) * b \in Int)
  BY <1>3
<1>6. /\ a + b \in Int /\ a - b \in Int /\ Number(AndBits(Whole(a), Whole(b))) \in Int
      /\ b # 0 => Number(TruncDiv(a, b)) \in Int /\ Number(FloorDiv(a, b)) \in Int
  BY <1>2, <1>3 DEF Number
<1>7. RunsBits(name, a, b) \in Int
  BY <1>4 DEF RunsBits, Lost
<1>8. CASE name \in Divisions /\ b # 0
  BY <1>7, <1>8, <1>3, <1>5, <1>6 DEF Runs, RunsNumbers, Divisions, Lost
<1>9. CASE name \in Divisions /\ b = 0
  BY <1>9 DEF Runs, Lost
<1>10. CASE name \notin Divisions
  BY <1>7, <1>10, <1>5, <1>6 DEF Runs, RunsNumbers, Divisions, Lost
<1>. QED
  BY <1>8, <1>9, <1>10

(***************************************************************************)
(* The steps. What MLIR thinks of a statement depends on the types of its   *)
(* operands and on the blocks they are defined in. The depths say what the  *)
(* rule on the bodies that have ended says: a name or a tensor is lost when *)
(* its block has ended, and what is defined in a body that has not is bound *)
(* in it. That makes TypeOK and Accepted inductive.                         *)
(***************************************************************************)
Symbols == Names \cup Tensors
DefinedAt(n) == n \in Names => IsValue(scope[n])

(* Only values have a depth, and one that has ended is lost.                *)
Depths ==
    /\ \A n \in Names : ~IsValue(scope[n]) => scope[n].at = 0
    /\ \A n \in Symbols : At(n) <= Depth /\ (n \in lost <=> At(n) = -1)

(* What a body defines is bound in it, and what is bound in it and usable   *)
(* is defined in it, however deep.                                          *)
BoundAt(n, d) ==
    /\ At(n) = d => n \in blocks[d].bound
    /\ n \in blocks[d].bound => At(n) = -1 \/ At(n) >= d
Inside == \A n \in Symbols : DefinedAt(n) => \A d \in 1 .. Depth : BoundAt(n, d)

(* What a loop binds is bound in every body around it.                      *)
Nested ==
    \A d, e \in 1 .. Depth :
        d <= e /\ blocks[e].kind = "for" => blocks[e].bound \subseteq blocks[d].bound

(* A body remembers what was lost before it.                                *)
Remembers == \A d \in 1 .. Depth : \A n \in Names : n \in blocks[d].lost <=> blocks[d].before[n].at = -1

Scoped == Depths /\ Inside /\ Nested /\ Remembers
IInv == TypeOK /\ Accepted /\ Scoped

(* An object made of a type and two numbers.                                *)
LEMMA ValueIsObject ==
    ASSUME TypeOK, NEW t \in Kinds, NEW py \in Int, NEW hw \in Int
    PROVE  /\ Value(t, py, hw) \in Objects /\ Value(t, py, hw).k = "val"
           /\ Value(t, py, hw).at = Depth
BY Depth \in Nat DEF Value, Objects, TypeOK, Depth

(* Python numbers are objects, and so is what an unbound name stands for.   *)
LEMMA NumbersAreObjects ==
    /\ Numbers \cup {Unbound} \subseteq Objects
    /\ \A n \in Numbers \cup {Unbound} : n.at = 0 /\ ~IsValue(n)
    /\ \A n \in Numbers : n.k = "num"
BY DEF Numbers, Unbound, Literal, Objects, Kinds, Floats, IsValue

(* What is in scope, and in memory.                                         *)
LEMMA ScopeTyped ==
    ASSUME TypeOK
    PROVE  /\ \A n \in Names : /\ scope[n] \in Objects /\ scope[n].t \in Kinds
                                /\ scope[n].py \in Int /\ scope[n].hw \in Int
                                /\ scope[n].at \in Nat \cup {-1}
           /\ \A a \in Tensors : /\ tensors[a] \in Arrays
                                 /\ tensors[a].t \in Elements /\ tensors[a].t \in Kinds
                                 /\ tensors[a].tile \in BOOLEAN
                                 /\ tensors[a].py \in Int /\ tensors[a].hw \in Int
                                 /\ tensors[a].at \in Nat \cup {-1}
           /\ \A n \in Symbols : At(n) \in Nat \cup {-1}
           /\ Depth \in Nat /\ DOMAIN blocks = 1 .. Depth
           /\ \A d \in 1 .. Depth : blocks[d] \in Blocks
<1>1. ASSUME NEW n \in Names
      PROVE  /\ scope[n] \in Objects /\ scope[n].t \in Kinds
             /\ scope[n].py \in Int /\ scope[n].hw \in Int
             /\ scope[n].at \in Nat \cup {-1}
  BY DEF TypeOK, Objects
<1>2. ASSUME NEW a \in Tensors
      PROVE  /\ tensors[a] \in Arrays /\ tensors[a].t \in Elements /\ tensors[a].t \in Kinds
             /\ tensors[a].tile \in BOOLEAN
             /\ tensors[a].py \in Int /\ tensors[a].hw \in Int
             /\ tensors[a].at \in Nat \cup {-1}
  BY ElementsAssumption DEF TypeOK, Arrays
<1>3. Depth \in Nat /\ DOMAIN blocks = 1 .. Depth /\ \A d \in 1 .. Depth : blocks[d] \in Blocks
  BY DEF TypeOK, Depth
<1>. QED
  BY <1>1, <1>2, <1>3 DEF Symbols, At

(* The bodies being traced get bound names.                                 *)
LEMMA BoundInTyped ==
    ASSUME TypeOK, NEW ns \in SUBSET Symbols
    PROVE  /\ BoundIn(ns) \in Seq(Blocks) /\ Len(BoundIn(ns)) = Depth
           /\ \A d \in 1 .. Depth : /\ BoundIn(ns)[d].kind = blocks[d].kind
                                     /\ BoundIn(ns)[d].before = blocks[d].before
                                     /\ BoundIn(ns)[d].lost = blocks[d].lost
                                     /\ BoundIn(ns)[d].bound = blocks[d].bound \cup ns
<1>1. ASSUME NEW f \in Blocks
      PROVE  /\ [f EXCEPT !.bound = @ \cup ns] \in Blocks
             /\ [f EXCEPT !.bound = @ \cup ns].kind = f.kind
             /\ [f EXCEPT !.bound = @ \cup ns].before = f.before
             /\ [f EXCEPT !.bound = @ \cup ns].lost = f.lost
             /\ [f EXCEPT !.bound = @ \cup ns].bound = f.bound \cup ns
  BY DEF Blocks, Symbols
<1>2. DOMAIN blocks = 1 .. Depth /\ Depth \in Nat /\ \A d \in 1 .. Depth : blocks[d] \in Blocks
  BY ScopeTyped
<1>3. BoundIn(ns) = [d \in 1 .. Depth |-> [blocks[d] EXCEPT !.bound = @ \cup ns]]
  BY <1>2 DEF BoundIn
<1>4. \A d \in 1 .. Depth : BoundIn(ns)[d] = [blocks[d] EXCEPT !.bound = @ \cup ns]
  BY <1>3
<1>5. BoundIn(ns) \in Seq(Blocks) /\ Len(BoundIn(ns)) = Depth
  BY <1>1, <1>2, <1>3
<1>. QED
  BY <1>1, <1>2, <1>4, <1>5

(* They nest as before and remember what they did.                          *)
LEMMA BoundInScoped ==
    ASSUME TypeOK, Scoped, NEW ns \in SUBSET Symbols, blocks' = BoundIn(ns)
    PROVE  blocks' \in Seq(Blocks) /\ Depth' = Depth /\ Nested' /\ Remembers'
<1>1. Depth' = Depth /\ blocks' \in Seq(Blocks)
  BY BoundInTyped DEF Depth
<1>. QED
  BY <1>1, BoundInTyped DEF Scoped, Nested, Remembers

(* A name is bound, to a number or to the result of an operation emitted    *)
(* here.                                                                    *)
LEMMA BindScoped ==
    ASSUME TypeOK, Scoped, NEW x \in Names, NEW o \in Objects, BindAs(x, o), tensors' = tensors,
           \/ o.k = "val" /\ o.at = Depth
           \/ o.k = "num" /\ o.at = 0
    PROVE  /\ scope' \in [Names -> Objects] /\ blocks' \in Seq(Blocks)
           /\ lost' \in SUBSET Symbols /\ Scoped'
<1>1. /\ scope' = [scope EXCEPT ![x] = o] /\ blocks' = BoundIn({x}) /\ lost' = lost \ {x}
      /\ {x} \in SUBSET Symbols
  BY DEF BindAs, Symbols
<1>2. blocks' \in Seq(Blocks) /\ Depth' = Depth /\ Nested' /\ Remembers'
  BY <1>1, BoundInScoped
<1>3. /\ scope' \in [Names -> Objects] /\ scope'[x] = o /\ lost' \in SUBSET Symbols
      /\ \A n \in Names \ {x} : scope'[n] = scope[n]
  BY <1>1 DEF TypeOK, Symbols
<1>4. /\ At(x)' = o.at /\ o.at # -1 /\ o.at <= Depth
      /\ \A n \in Symbols \ {x} : At(n)' = At(n)
  BY <1>3, ScopeTyped DEF At
<1>5. Depths'
  BY <1>1, <1>2, <1>3, <1>4 DEF Scoped, Depths, IsValue, Symbols
<1>6. ASSUME NEW n \in Symbols, DefinedAt(n)', NEW d \in 1 .. Depth'
      PROVE  BoundAt(n, d)'
  <2>1. blocks'[d].bound = blocks[d].bound \cup {x} /\ d \in 1 .. Depth
    BY <1>1, <1>2, BoundInTyped
  <2>2. CASE n = x
    BY <1>3, <1>4, <1>6, <2>1, <2>2, ScopeTyped DEF BoundAt, DefinedAt, IsValue
  <2>3. CASE n # x
    <3>1. DefinedAt(n)
      BY <1>3, <1>6, <2>3 DEF DefinedAt
    <3>2. BoundAt(n, d)
      BY <2>1, <3>1 DEF Scoped, Inside
    <3>. QED
      BY <1>4, <2>1, <2>3, <3>2 DEF BoundAt
  <2>. QED
    BY <2>2, <2>3
<1>. QED
  BY <1>2, <1>3, <1>5, <1>6 DEF Scoped, Inside

(* Nothing is bound, and no tensor changes place.                           *)
LEMMA SameScoped ==
    ASSUME Scoped, scope' = scope, blocks' = blocks, lost' = lost, \A a \in Tensors : tensors'[a].at = tensors[a].at
    PROVE  Scoped'
<1>1. Depth' = Depth /\ \A n \in Symbols : At(n)' = At(n)
  BY DEF Depth, At, Symbols
<1>2. Depths' /\ Nested' /\ Remembers'
  BY <1>1 DEF Scoped, Depths, Nested, Remembers
<1>3. Inside'
  BY <1>1 DEF Scoped, Inside, BoundAt, DefinedAt
<1>. QED
  BY <1>2, <1>3 DEF Scoped

(* A statement is one fewer left.                                           *)
LEMMA StatementTyped ==
    ASSUME TypeOK, NEW s, NEW read, Statement(s, read)
    PROVE  left' \in 0 .. MaxSteps
BY BoundsAssumption DEF TypeOK, Statement

(* What MLIR refuses are the statements that break a rule, if that is so of *)
(* all but the bodies the operands are defined in.                          *)
LEMMA RulesKept ==
    ASSUME TypeOK, Scoped, NEW operands \in SUBSET Symbols,
           NEW other \in SUBSET Why, NEW types \in BOOLEAN, other = {} <=> types,
           NEW numbers,
           Verifier(operands, other), Obeys(operands, types, numbers)
    PROVE  /\ refused' \in SUBSET Why /\ (refused' = {} <=> typed')
           /\ typed' \in BOOLEAN /\ careful' \in BOOLEAN
<1>1. (\A n \in operands : At(n) # -1) <=> operands \cap lost = {}
  BY DEF Scoped, Depths
<1>2. careful' = (careful /\ numbers) /\ typed' = (types /\ operands \cap lost = {})
  BY DEF Obeys
<1>3. refused' = other \cup Refuses("dominance", \A n \in operands : At(n) # -1)
  BY DEF Verifier
<1>4. refused' = {} <=> typed'
  BY <1>1, <1>2, <1>3 DEF Refuses
<1>5. typed' \in BOOLEAN /\ careful' \in BOOLEAN
  <2>1. typed' \in BOOLEAN
    BY <1>2
  <2>2. (careful /\ numbers) \in BOOLEAN
    BY Zenon
  <2>. QED
    BY <1>2, <2>1, <2>2
<1>6. refused' \in SUBSET Why
  BY <1>3 DEF Refuses, Why
<1>. QED
  BY <1>4, <1>5, <1>6

(* The initial states.                                                      *)
LEMMA InitOK == Init => IInv
<1>. SUFFICES ASSUME Init PROVE IInv
  OBVIOUS
<1>1. scope \in [Names -> Numbers \cup {Unbound}] /\ blocks = <<>> /\ lost = {}
  BY DEF Init
<1>2. scope \in [Names -> Objects] /\ \A n \in Names : scope[n].at = 0 /\ ~IsValue(scope[n])
  BY <1>1, NumbersAreObjects
<1>3. tensors \in [Tensors -> Arrays] /\ \A a \in Tensors : tensors[a].at = 0
  <2>. DEFINE S == {[at |-> 0, t |-> t, tile |-> FALSE, py |-> 2, hw |-> 2] : t \in Elements}
  <2>1. \A t \in Elements : [at |-> 0, t |-> t, tile |-> FALSE, py |-> 2, hw |-> 2] \in Arrays
    BY DEF Arrays
  <2>3. \A e \in S : e \in Arrays /\ e.at = 0
    BY <2>1
  <2>2. tensors \in [Tensors -> S]
    BY DEF Init
  <2>. HIDE DEF S
  <2>. QED
    BY <2>2, <2>3
<1>4. left \in 0 .. MaxSteps /\ refused = {} /\ typed = TRUE /\ careful = TRUE
  BY BoundsAssumption DEF Init
<1>5. TypeOK
  BY <1>1, <1>2, <1>3, <1>4 DEF TypeOK
<1>6. Scoped
  <2>1. Depth = 0 /\ \A n \in Symbols : At(n) = 0
    BY <1>1, <1>2, <1>3 DEF Depth, Symbols, At
  <2>. QED
    BY <1>1, <1>2, <2>1 DEF Scoped, Depths, Inside, Nested, Remembers
<1>. QED
  BY <1>4, <1>5, <1>6 DEF IInv, Accepted

(* An operation is emitted here and its result is bound.                    *)
LEMMA ResultOK ==
    ASSUME IInv, NEW s, NEW read, Statement(s, read),
           NEW x \in Names, NEW t \in Kinds, NEW py \in Int, NEW hw \in Int, BindAs(x, Value(t, py, hw)),
           tensors' = tensors,
           NEW operands \in SUBSET Symbols, NEW other \in SUBSET Why, NEW types \in BOOLEAN, other = {} <=> types,
           NEW numbers,
           Verifier(operands, other), Obeys(operands, types, numbers)
    PROVE  IInv'
<1>. USE DEF IInv
<1>1. Value(t, py, hw) \in Objects /\ Value(t, py, hw).k = "val" /\ Value(t, py, hw).at = Depth
  BY ValueIsObject
<1>2. scope' \in [Names -> Objects] /\ blocks' \in Seq(Blocks) /\ lost' \in SUBSET Symbols /\ Scoped'
  BY <1>1, BindScoped
<1>3. left' \in 0 .. MaxSteps
  BY StatementTyped
<1>4. refused' \in SUBSET Why /\ (refused' = {} <=> typed') /\ typed' \in BOOLEAN /\ careful' \in BOOLEAN
  BY RulesKept
<1>. QED
  BY <1>2, <1>3, <1>4 DEF TypeOK, Accepted, Symbols

(* A number is assigned.                                                    *)
LEMMA AssignOK ==
    ASSUME IInv, NEW x \in Names, Assign(x)
    PROVE  IInv'
<1>. USE DEF IInv
<1>1. PICK n \in Numbers : BindAs(x, n)
  BY DEF Assign
<1>2. n \in Objects /\ n.k = "num" /\ n.at = 0
  BY NumbersAreObjects
<1>3. refused' = {} /\ tensors' = tensors /\ Statement("number", {}) /\ Obeys({}, TRUE, TRUE)
  BY DEF Assign, Statement
<1>4. scope' \in [Names -> Objects] /\ blocks' \in Seq(Blocks) /\ lost' \in SUBSET Symbols /\ Scoped'
  BY <1>1, <1>2, <1>3, BindScoped
<1>5. left' \in 0 .. MaxSteps /\ careful' \in BOOLEAN /\ typed' = TRUE
  BY <1>3, StatementTyped DEF Obeys, TypeOK
<1>. QED
  BY <1>3, <1>4, <1>5 DEF TypeOK, Accepted, Symbols

(* Where an element may be read or written.                                 *)
LEMMA ElementRule ==
    ASSUME NEW a, NEW i
    PROVE  Element(a, i) \in SUBSET Why /\ (Element(a, i) = {} <=> scope[i].t = "index" /\ ~tensors[a].tile)
BY DEF Element, Refuses, Why

(* A tensor is read.                                                        *)
LEMMA LoadOK ==
    ASSUME IInv, NEW x \in Names, NEW a \in Tensors, NEW i \in Names, Load(x, a, i)
    PROVE  IInv'
<1>1. /\ tensors[a].t \in Kinds /\ tensors[a].py \in Int /\ tensors[a].hw \in Int
      /\ tensors[a].tile \in BOOLEAN
  BY ScopeTyped DEF IInv
<1>2. /\ Statement("load", {i}) /\ BindAs(x, Value(tensors[a].t, tensors[a].py, tensors[a].hw))
      /\ tensors' = tensors /\ Verifier({a, i}, Element(a, i))
      /\ Obeys({a, i}, scope[i].t = "index" /\ ~tensors[a].tile, tensors[a].hw # Lost)
  BY DEF Load
<1>3. {a, i} \in SUBSET Symbols
  BY DEF Symbols
<1>. QED
  BY <1>1, <1>2, <1>3, ElementRule, ResultOK

(* And written.                                                             *)
LEMMA StoreOK ==
    ASSUME IInv, NEW x \in Names, NEW a \in Tensors, NEW i \in Names, Store(a, i, x)
    PROVE  IInv'
<1>. USE DEF IInv
<1>. DEFINE v == scope[x]  t == tensors[a].t
            rule == v.t = t \/ "int" \notin {v.t, t}
            types == scope[i].t = "index" /\ ~tensors[a].tile /\ rule
            other == Element(a, i) \cup Refuses("coercion", Verified(CoerceOps(v.t, t)))
<1>1. Coerced(v.t, t, v.hw) \in Int /\ v.py \in Int
  BY ScopeTyped, CoercedIsInt
<1>2. /\ tensors' \in [Tensors -> Arrays]
      /\ \A c \in Tensors : tensors'[c].at = tensors[c].at
  <2>1. \A c \in Tensors : tensors'[c] = IF c = a THEN [tensors[c] EXCEPT !.py = v.py, !.hw = Coerced(v.t, t, v.hw)]
                                         ELSE tensors[c]
    BY DEF Store, TypeOK
  <2>2. DOMAIN tensors' = Tensors /\ tensors' = [c \in Tensors |-> tensors'[c]]
    BY DEF Store, TypeOK
  <2>3. \A c \in Tensors : tensors[c] \in Arrays
    BY DEF TypeOK
  <2>4. \A c \in Tensors : tensors'[c] \in Arrays /\ tensors'[c].at = tensors[c].at
    BY <1>1, <2>1, <2>3 DEF Arrays
  <2>. QED
    BY <2>2, <2>4
<1>3. Statement("store", {i, x}) /\ scope' = scope /\ blocks' = blocks /\ lost' = lost
  BY DEF Store
<1>4. Verified(CoerceOps(v.t, t)) <=> rule
  BY ScopeTyped, CoercionsVerify
<1>5. Verifier({a, i, x}, other) /\ Obeys({a, i, x}, types, Keeps(v.t, t))
  BY DEF Store
<1>6. Refuses("coercion", Verified(CoerceOps(v.t, t))) \in SUBSET Why
  BY DEF Refuses, Why
<1>7. other \in SUBSET Why /\ (other = {} <=> types) /\ types \in BOOLEAN /\ Keeps(v.t, t) \in BOOLEAN
  BY <1>4, <1>6, ElementRule, ScopeTyped DEF Refuses, Keeps
<1>8. {a, i, x} \in SUBSET Symbols
  BY DEF Symbols
<1>. HIDE DEF other, types, rule
<1>9. refused' \in SUBSET Why /\ (refused' = {} <=> typed') /\ typed' \in BOOLEAN /\ careful' \in BOOLEAN
  BY <1>5, <1>7, <1>8, RulesKept
<1>10. Scoped' /\ left' \in 0 .. MaxSteps
  BY <1>2, <1>3, SameScoped, StatementTyped
<1>. QED
  BY <1>2, <1>3, <1>9, <1>10 DEF TypeOK, Accepted

(* A binary operation.                                                      *)
LEMMA BinaryOK ==
    ASSUME IInv, NEW x \in Names, NEW op \in BinaryOps, NEW y \in Names, NEW z \in Names, Binary(x, op, y, z)
    PROVE  IInv'
<1>. DEFINE a == scope[y]  b == scope[z]
            hw == Runs(Name(op, a.t), a.t, a.hw, Coerced(b.t, a.t, b.hw))
            py == Computes(op, a.py, b.py)
            kept == IF Small(hw) THEN hw ELSE Lost
            types == BinaryRule(op, a.t, b.t)
            other == Refuses("coercion", Verified(CoerceOps(b.t, a.t)))
                       \cup Refuses("operation", Verified(EmitBinary(op, a.t)))
<1>1. /\ TypeOK /\ a.t \in Kinds /\ b.t \in Kinds /\ a.py \in Int /\ b.py \in Int
      /\ a.hw \in Int /\ b.hw \in Int
  BY ScopeTyped DEF IInv
<1>2. py \in Int
  BY <1>1, ComputesIsInt DEF Binary
<1>3. hw \in Int
  BY <1>1, CoercedIsInt, RunsIsInt
<1>4. kept \in Int
  BY <1>3 DEF Lost
<1>5. /\ Statement("binary", {y, z}) /\ BindAs(x, Value(a.t, py, kept)) /\ tensors' = tensors
      /\ Verifier({y, z}, other) /\ Obeys({y, z}, types, BinaryIsExact(op, a, b))
  BY DEF Binary
<1>6. types \in BOOLEAN /\ BinaryIsExact(op, a, b) \in BOOLEAN
  BY DEF BinaryRule, BinaryIsExact
<1>7. /\ Verified(CoerceOps(b.t, a.t)) <=> (b.t = a.t \/ "int" \notin {b.t, a.t})
      /\ Verified(EmitBinary(op, a.t)) <=> (a.t # "int" /\ (a.t \in Floats => op \notin {"//", "and"}))
  BY <1>1, CoercionsVerify, BinariesVerify
<1>8. other \in SUBSET Why /\ (other = {} <=> types)
  BY <1>7 DEF Refuses, Why, BinaryRule
<1>9. {y, z} \in SUBSET Symbols
  BY DEF Symbols
<1>. HIDE DEF py, kept, types, other
<1>. QED
  BY <1>1, <1>2, <1>4, <1>5, <1>6, <1>8, <1>9, ResultOK

(* A comparison.                                                            *)
LEMMA CompareOK ==
    ASSUME IInv, NEW x \in Names, NEW y \in Names, NEW z \in Names, Compare(x, y, z)
    PROVE  IInv'
<1>. DEFINE a == scope[y]  b == scope[z]
            l == IF IsValue(a) THEN a.t ELSE b.t
            r == IF IsValue(a) THEN b.t ELSE a.t
            py == Truth(a.py < b.py)
            hw == IsLess(l, Coerced(a.t, l, a.hw), Coerced(b.t, l, b.hw))
            types == "int" \notin {l, r}
            numbers == Keeps(r, l) /\ l # "bool"
            other == Refuses("coercion", Verified(CoerceOps(r, l))) \cup Refuses("operation", Verified(EmitCompare(l)))
<1>1. l \in Kinds /\ r \in Kinds
  BY ScopeTyped DEF IInv
<1>2. hw \in Int /\ py \in Int
  BY DEF IsLess, Truth, Lost
<1>3. /\ Statement("compare", {y, z}) /\ BindAs(x, Value("bool", py, hw)) /\ tensors' = tensors
      /\ Verifier({y, z}, other) /\ Obeys({y, z}, types, numbers)
  BY DEF Compare
<1>4. types \in BOOLEAN /\ numbers \in BOOLEAN /\ "bool" \in Kinds /\ {y, z} \in SUBSET Symbols
  BY DEF Keeps, Kinds, Symbols
<1>5. other \in SUBSET Why /\ (other = {} <=> types)
  BY <1>1, CoercionsVerify, ComparesVerify DEF Refuses, Why
<1>. HIDE DEF py, hw, types, other, numbers
<1>. QED
  BY <1>2, <1>3, <1>4, <1>5, ResultOK

(* An equality.                                                             *)
LEMMA EqualOK ==
    ASSUME IInv, NEW x \in Names, NEW y \in Names, NEW z \in Names, Equal(x, y, z)
    PROVE  IInv'
<1>. USE DEF IInv
<1>. DEFINE py == Truth(scope[y].py = scope[z].py)  hw == Truth(y = z)
            o == [Literal("bool", py) EXCEPT !.hw = hw]
<1>1. py \in Int /\ hw \in Int
  BY DEF Truth
<1>. HIDE DEF py, hw
<1>2. o \in Objects /\ o.k = "num" /\ o.at = 0
  BY <1>1 DEF Literal, Objects, Kinds
<1>. USE DEF py, hw
<1>3. /\ BindAs(x, o) /\ tensors' = tensors /\ refused' = {} /\ Statement("equal", {y, z})
      /\ Obeys({}, TRUE, FALSE)
  BY DEF Equal, Statement
<1>. HIDE DEF o
<1>4. scope' \in [Names -> Objects] /\ blocks' \in Seq(Blocks) /\ lost' \in SUBSET Symbols /\ Scoped'
  BY <1>2, <1>3, BindScoped
<1>5. left' \in 0 .. MaxSteps /\ careful' \in BOOLEAN /\ typed' = TRUE
  BY <1>3, StatementTyped DEF Obeys, TypeOK
<1>. QED
  BY <1>3, <1>4, <1>5 DEF TypeOK, Accepted, Symbols

(* A conditional expression.                                                *)
LEMMA SelectOK ==
    ASSUME IInv, NEW x \in Names, NEW c \in Names, NEW y \in Names, NEW z \in Names, Select(x, c, y, z)
    PROVE  IInv'
<1>. DEFINE a == scope[y]  b == scope[z]  cond == scope[c]
            bhw == Coerced(b.t, a.t, b.hw)
            py == IF cond.py # 0 THEN a.py ELSE b.py
            hw == CASE cond.hw = Lost -> Lost [] cond.hw = 0 -> bhw [] OTHER -> a.hw
            types == cond.t = "bool" /\ Unsigned(a.t, b.t)
            other == Refuses("condition", Mlir(cond.t) = "i1") \cup Refuses("coercion", Verified(CoerceOps(b.t, a.t)))
<1>1. /\ a.t \in Kinds /\ b.t \in Kinds /\ cond.t \in Kinds
      /\ py \in Int /\ bhw \in Int /\ a.hw \in Int
  BY ScopeTyped, CoercedIsInt DEF IInv
<1>2. hw \in Int
  BY <1>1 DEF Lost
<1>3. /\ Statement("select", {c, y, z}) /\ BindAs(x, Value(a.t, py, hw)) /\ tensors' = tensors
      /\ Verifier({c, y, z}, other) /\ Obeys({c, y, z}, types, Keeps(b.t, a.t))
  BY DEF Select
<1>4. types \in BOOLEAN /\ Keeps(b.t, a.t) \in BOOLEAN /\ {c, y, z} \in SUBSET Symbols
  BY DEF Keeps, Unsigned, Symbols
<1>5. Mlir(cond.t) = "i1" <=> cond.t = "bool"
  BY <1>1, MlirIsInjective
<1>6. Verified(CoerceOps(b.t, a.t)) <=> Unsigned(a.t, b.t)
  BY <1>1, CoercionsVerify DEF Unsigned
<1>7. other \in SUBSET Why /\ (other = {} <=> types)
  BY <1>5, <1>6 DEF Refuses, Why
<1>. HIDE DEF py, hw, types, other
<1>. QED
  BY <1>1, <1>2, <1>3, <1>4, <1>7, ResultOK

(* A negation.                                                              *)
LEMMA NegateOK ==
    ASSUME IInv, NEW x \in Names, NEW y \in Names, Negate(x, y)
    PROVE  IInv'
<1>. DEFINE t == scope[y].t  py == -scope[y].py
            hw == IF scope[y].hw = Lost THEN Lost ELSE -scope[y].hw
            types == \E f \in Floats : t = f
            other == Refuses("operation", Verified(EmitNeg(t)))
<1>1. py \in Int /\ hw \in Int /\ t \in Kinds
  BY ScopeTyped DEF Lost, IInv
<1>2. /\ Statement("negate", {y}) /\ BindAs(x, Value(t, py, hw)) /\ tensors' = tensors
      /\ Verifier({y}, other) /\ Obeys({y}, types, TRUE)
  BY DEF Negate
<1>3. types <=> t \in Floats
  OBVIOUS
<1>4. types \in BOOLEAN /\ {y} \in SUBSET Symbols
  BY DEF Symbols
<1>5. other \in SUBSET Why /\ (other = {} <=> types)
  BY <1>1, <1>3, NegVerifies DEF Refuses, Why
<1>. HIDE DEF t, py, hw, types, other
<1>. QED
  BY <1>1, <1>2, <1>4, <1>5, ResultOK

(* A ceildiv.                                                               *)
LEMMA CeildivOK ==
    ASSUME IInv, NEW x \in Names, NEW y \in Names, NEW z \in Names, Ceildiv(x, y, z)
    PROVE  IInv'
<1>. DEFINE a == scope[y]  b == scope[z]
            py == Number(CeilDiv(a.py, b.py))
            hw == UnsignedCeilDiv(a.hw, b.hw)
            types == a.t = b.t /\ a.t \in {"bool", "index"}
            numbers == a.py >= 0 /\ b.py > 0
            other == Refuses("operation", Verified(EmitCeildiv(a.t, b.t)))
<1>0. /\ TypeOK /\ a.t \in Kinds /\ b.t \in Kinds /\ a.py \in Int /\ b.py \in Int
      /\ a.hw \in Int /\ b.hw \in Int
  BY ScopeTyped DEF IInv
<1>1. b.py # 0
  BY DEF Ceildiv
<1>2. py \in Int
  <2>1. CeilDiv(a.py, b.py) \in Int
    BY <1>0, <1>1, DivsAreInt
  <2>. QED
    BY <2>1 DEF Number
<1>3. hw \in Int
  <2>1. CASE Lost \in {a.hw, b.hw} \/ a.hw < 0 \/ b.hw <= 0
    BY <2>1 DEF UnsignedCeilDiv, Lost
  <2>2. CASE ~(Lost \in {a.hw, b.hw} \/ a.hw < 0 \/ b.hw <= 0)
    <3>1. b.hw \in Int /\ b.hw # 0 /\ a.hw \in Int
      BY <1>0, <2>2
    <3>2. CeilDiv(a.hw, b.hw) \in Int
      BY <3>1, DivsAreInt
    <3>. QED
      BY <2>2, <3>2 DEF UnsignedCeilDiv, Number
  <2>. QED
    BY <2>1, <2>2
<1>4. /\ Statement("ceildiv", {y, z}) /\ BindAs(x, Value(a.t, py, hw)) /\ tensors' = tensors
      /\ Verifier({y, z}, other) /\ Obeys({y, z}, types, numbers)
  BY DEF Ceildiv
<1>5. other \in SUBSET Why /\ (other = {} <=> types)
  BY <1>0, CeildivVerifies DEF Refuses, Why
<1>6. types \in BOOLEAN /\ numbers \in BOOLEAN /\ {y, z} \in SUBSET Symbols
  BY DEF Symbols
<1>. HIDE DEF py, hw, types, other, numbers
<1>. QED
  BY <1>0, <1>2, <1>3, <1>4, <1>5, <1>6, ResultOK

(* A tensor is allocated here.                                              *)
LEMMA AllocOK ==
    ASSUME IInv, NEW a \in Tensors, NEW x \in Names, Alloc(a, x)
    PROVE  IInv'
<1>. USE DEF IInv
<1>1. PICK t \in Elements, tile \in BOOLEAN :
        tensors' = [tensors EXCEPT ![a] = [at |-> Depth, t |-> t, tile |-> tile, py |-> 0, hw |-> Lost]]
  BY DEF Alloc
<1>2. [at |-> Depth, t |-> t, tile |-> tile, py |-> 0, hw |-> Lost] \in Arrays /\ Depth \in Nat
  BY ScopeTyped DEF Arrays, Lost
<1>3. /\ Statement("alloc", {x}) /\ blocks' = BoundIn({a}) /\ lost' = lost \ {a} /\ scope' = scope
      /\ Verifier({}, Refuses("shape", Static(x))) /\ Obeys({}, Static(x), TRUE)
  BY DEF Alloc
<1>4. {a} \in SUBSET Symbols /\ Static(x) \in BOOLEAN /\ a \notin Names
  BY NamesAssumption DEF Symbols, Static
<1>5. /\ tensors' \in [Tensors -> Arrays] /\ tensors'[a].at = Depth
      /\ \A c \in Tensors \ {a} : tensors'[c] = tensors[c]
  BY <1>1, <1>2 DEF TypeOK
<1>6. blocks' \in Seq(Blocks) /\ Depth' = Depth /\ Nested' /\ Remembers'
  BY <1>3, <1>4, BoundInScoped
<1>7. At(a)' = Depth /\ \A n \in Symbols \ {a} : At(n)' = At(n)
  BY <1>3, <1>4, <1>5 DEF At, Symbols
<1>8. Depths'
  BY <1>2, <1>3, <1>4, <1>6, <1>7 DEF Scoped, Depths
<1>9. ASSUME NEW n \in Symbols, DefinedAt(n)', NEW d \in 1 .. Depth'
      PROVE  BoundAt(n, d)'
  <2>1. blocks'[d].bound = blocks[d].bound \cup {a} /\ d \in 1 .. Depth
    BY <1>3, <1>4, <1>6, BoundInTyped
  <2>2. CASE n = a
    BY <1>2, <1>7, <2>1, <2>2 DEF BoundAt
  <2>3. CASE n # a
    <3>1. BoundAt(n, d)
      BY <1>3, <1>9, <2>1 DEF Scoped, Inside, DefinedAt
    <3>. QED
      BY <1>7, <2>1, <2>3, <3>1 DEF BoundAt
  <2>. QED
    BY <2>2, <2>3
<1>10. Scoped'
  BY <1>6, <1>8, <1>9 DEF Scoped, Inside
<1>11. Refuses("shape", Static(x)) \in SUBSET Why /\ (Refuses("shape", Static(x)) = {} <=> Static(x))
  BY DEF Refuses, Why
<1>12. refused' \in SUBSET Why /\ (refused' = {} <=> typed') /\ typed' \in BOOLEAN /\ careful' \in BOOLEAN
  BY <1>3, <1>4, <1>11, RulesKept
<1>13. left' \in 0 .. MaxSteps /\ lost' \in SUBSET Symbols
  BY <1>3, StatementTyped DEF TypeOK, Symbols
<1>. QED
  BY <1>3, <1>5, <1>6, <1>10, <1>12, <1>13 DEF TypeOK, Accepted, Symbols

(* Materialised numbers are objects of this block, and arguments objects of *)
(* a block in it.                                                           *)
LEMMA MaterialisedTyped ==
    ASSUME TypeOK
    PROVE  /\ Materialised \in [Names -> Objects]
           /\ \A n \in Names : /\ IsNumber(scope[n]) => /\ Materialised[n].at = Depth
                                                        /\ IsValue(Materialised[n])
                               /\ ~IsNumber(scope[n]) => Materialised[n] = scope[n]
                               /\ Materialised[n].t = scope[n].t
                               /\ Materialised[n].py = scope[n].py /\ Materialised[n].hw = scope[n].hw
           /\ \A k \in {"arg", "target"} : /\ BlockArg(k) \in Objects /\ BlockArg(k).at = Depth + 1
                                           /\ BlockArg(k).k = k /\ IsValue(BlockArg(k))
<1>1. Depth \in Nat /\ \A n \in Names : scope[n] \in Objects
  BY ScopeTyped
<1>2. ASSUME NEW o \in Objects
      PROVE  LET v == [o EXCEPT !.k = "val", !.at = Depth]
             IN  v \in Objects /\ v.at = Depth /\ IsValue(v) /\ v.t = o.t /\ v.py = o.py /\ v.hw = o.hw
  BY <1>1 DEF Objects, IsValue
<1>3. \A k \in {"arg", "target"} : /\ BlockArg(k) \in Objects /\ BlockArg(k).at = Depth + 1
                                   /\ BlockArg(k).k = k /\ IsValue(BlockArg(k))
  BY <1>1 DEF BlockArg, Argument, Objects, Kinds, IsValue
<1>. QED
  BY <1>1, <1>2, <1>3 DEF Materialised

(* A loop is entered: its target is an argument of the body, and the        *)
(* numbers around it are results of this block.                             *)
LEMMA EnterForOK ==
    ASSUME IInv, NEW x \in Names, NEW y \in Names, EnterFor(x, y)
    PROVE  IInv'
<1>. USE DEF IInv
<1>. DEFINE ns == NumberNames \cup {x}
            f == Block("for", Materialised, {x})
<1>1. /\ Statement("for", {y}) /\ tensors' = tensors
      /\ scope' = [Materialised EXCEPT ![x] = BlockArg("arg")]
      /\ blocks' = Append(BoundIn(ns), f) /\ lost' = lost \ {x}
      /\ Verifier({y}, Refuses("bound", scope[y].t = "index")) /\ Obeys({y}, scope[y].t = "index", TRUE)
  BY DEF EnterFor
<1>2. ns \in SUBSET Symbols /\ {y} \in SUBSET Symbols /\ Depth \in Nat
  BY ScopeTyped DEF NumberNames, Symbols
<1>3. /\ f.kind = "for" /\ f.before = Materialised /\ f.lost = lost /\ f.bound = {x} /\ f \in Blocks
  BY MaterialisedTyped DEF Block, Blocks, TypeOK
<1>4. /\ scope' \in [Names -> Objects] /\ scope'[x] = BlockArg("arg") /\ scope'[x].at = Depth + 1
      /\ \A n \in Names \ {x} : scope'[n] = Materialised[n]
  BY <1>1, MaterialisedTyped
<1>. HIDE DEF ns, f
<1>5. /\ blocks' \in Seq(Blocks) /\ Depth' = Depth + 1 /\ blocks'[Depth + 1] = f
      /\ \A d \in 1 .. Depth : /\ blocks'[d].kind = blocks[d].kind
                               /\ blocks'[d].before = blocks[d].before
                               /\ blocks'[d].lost = blocks[d].lost
                               /\ blocks'[d].bound = blocks[d].bound \cup ns
  <2>1. BoundIn(ns) \in Seq(Blocks) /\ Len(BoundIn(ns)) = Depth
    BY <1>2, BoundInTyped
  <2>2. /\ blocks' \in Seq(Blocks) /\ Len(blocks') = Depth + 1 /\ blocks'[Depth + 1] = f
        /\ \A d \in 1 .. Depth : blocks'[d] = BoundIn(ns)[d]
    BY <1>1, <1>3, <2>1
  <2>. QED
    BY <1>2, <2>2, BoundInTyped DEF Depth
<1>6. /\ At(x)' = Depth + 1
      /\ \A n \in Names \ {x} : IsNumber(scope[n]) => At(n)' = Depth
      /\ \A n \in Symbols \ {x} : ~(n \in Names /\ IsNumber(scope[n])) => At(n)' = At(n)
  BY <1>1, <1>4, MaterialisedTyped DEF At, Symbols
<1>7. \A n \in Names : IsNumber(scope[n]) => ~IsValue(scope[n]) /\ scope[n].at = 0 /\ n \notin lost
  <2>1. \A n \in Names : IsNumber(scope[n]) => ~IsValue(scope[n])
    BY DEF IsNumber, IsValue
  <2>. QED
    BY <2>1 DEF Scoped, Depths, At, Symbols
<1>8. Depths'
  <2>1. ASSUME NEW n \in Names, ~IsValue(scope'[n]) PROVE scope'[n].at = 0
    BY <1>4, <2>1, MaterialisedTyped DEF Scoped, Depths
  <2>2. ASSUME NEW n \in Symbols PROVE At(n)' <= Depth + 1 /\ (n \in lost' <=> At(n)' = -1)
    <3>1. CASE n = x
      BY <1>1, <1>2, <1>6, <3>1
    <3>2. CASE n # x /\ n \in Names /\ IsNumber(scope[n])
      BY <1>1, <1>2, <1>6, <1>7, <3>2
    <3>3. CASE n # x /\ ~(n \in Names /\ IsNumber(scope[n]))
      <4>1. At(n) <= Depth /\ (n \in lost <=> At(n) = -1) /\ At(n) \in Nat \cup {-1}
        BY ScopeTyped DEF Scoped, Depths
      <4>. QED
        BY <1>1, <1>2, <1>6, <3>3, <4>1
    <3>. QED
      BY <3>1, <3>2, <3>3
  <2>. QED
    BY <1>5, <2>1, <2>2 DEF Depths
<1>9. ASSUME NEW n \in Symbols, DefinedAt(n)', NEW d \in 1 .. Depth'
      PROVE  BoundAt(n, d)'
  <2>1. d \in 1 .. Depth \/ d = Depth + 1
    BY <1>2, <1>5
  <2>2. CASE n = x
    <3>1. n \in blocks'[d].bound
      BY <1>3, <1>5, <2>1, <2>2 DEF ns
    <3>. QED
      BY <1>2, <1>6, <2>1, <2>2, <3>1 DEF BoundAt
  <2>3. CASE n # x /\ n \in Names /\ IsNumber(scope[n])
    <3>1. d \in 1 .. Depth => n \in blocks'[d].bound
      BY <1>5, <2>3 DEF ns, NumberNames
    <3>2. d = Depth + 1 => n \notin blocks'[d].bound
      BY <1>3, <1>5, <2>3
    <3>. QED
      BY <1>2, <1>6, <2>1, <2>3, <3>1, <3>2 DEF BoundAt
  <2>4. CASE n # x /\ ~(n \in Names /\ IsNumber(scope[n]))
    <3>1. DefinedAt(n)
      BY <1>4, <1>9, <2>4, MaterialisedTyped DEF DefinedAt
    <3>2. At(n)' = At(n) /\ At(n) <= Depth /\ At(n) \in Nat \cup {-1}
      BY <1>6, <2>4, ScopeTyped DEF Scoped, Depths
    <3>3. CASE d \in 1 .. Depth
      <4>1. BoundAt(n, d)
        BY <3>1, <3>3 DEF Scoped, Inside
      <4>2. n \in blocks'[d].bound <=> n \in blocks[d].bound
        BY <1>5, <2>4, <3>3 DEF ns, NumberNames
      <4>. QED
        BY <3>2, <4>1, <4>2 DEF BoundAt
    <3>4. CASE d = Depth + 1
      <4>1. n \notin blocks'[d].bound
        BY <1>3, <1>5, <2>4, <3>4
      <4>. QED
        BY <1>2, <3>2, <3>4, <4>1 DEF BoundAt
    <3>. QED
      BY <2>1, <3>3, <3>4
  <2>. QED
    BY <2>2, <2>3, <2>4
<1>10. Nested'
  <2>. SUFFICES ASSUME NEW d \in 1 .. Depth + 1, NEW e \in 1 .. Depth + 1, d <= e, blocks'[e].kind = "for"
                PROVE  blocks'[e].bound \subseteq blocks'[d].bound
    BY <1>5 DEF Nested
  <2>1. CASE e = Depth + 1
    BY <1>2, <1>3, <1>5, <2>1 DEF ns
  <2>2. CASE e # Depth + 1
    <3>1. e \in 1 .. Depth /\ d \in 1 .. Depth
      BY <1>2, <2>2
    <3>2. blocks[e].bound \subseteq blocks[d].bound
      BY <1>5, <3>1 DEF Scoped, Nested
    <3>. QED
      BY <1>5, <3>1, <3>2
  <2>. QED
    BY <2>1, <2>2
<1>11. Remembers'
  <2>. SUFFICES ASSUME NEW d \in 1 .. Depth + 1, NEW n \in Names
                PROVE  n \in blocks'[d].lost <=> blocks'[d].before[n].at = -1
    BY <1>5 DEF Remembers
  <2>1. CASE d = Depth + 1
    <3>1. n \in lost <=> scope[n].at = -1
      BY DEF Scoped, Depths, At, Symbols
    <3>. QED
      BY <1>2, <1>3, <1>5, <1>7, <2>1, <3>1, MaterialisedTyped
  <2>2. CASE d # Depth + 1
    <3>1. d \in 1 .. Depth
      BY <1>2, <2>2
    <3>. QED
      BY <1>5, <3>1 DEF Scoped, Remembers
  <2>. QED
    BY <2>1, <2>2
<1>12. Scoped'
  BY <1>8, <1>9, <1>10, <1>11 DEF Scoped, Inside
<1>13. /\ Refuses("bound", scope[y].t = "index") \in SUBSET Why
       /\ Refuses("bound", scope[y].t = "index") = {} <=> scope[y].t = "index"
  BY DEF Refuses, Why
<1>14. refused' \in SUBSET Why /\ (refused' = {} <=> typed') /\ typed' \in BOOLEAN /\ careful' \in BOOLEAN
  BY <1>1, <1>2, <1>13, RulesKept
<1>15. left' \in 0 .. MaxSteps /\ lost' \in SUBSET Symbols
  BY <1>1, StatementTyped DEF TypeOK, Symbols
<1>. QED
  BY <1>1, <1>4, <1>5, <1>12, <1>14, <1>15 DEF TypeOK, Accepted, Symbols

(* A launch whose target is bound changes what Python has under the name    *)
(* and, for a number, whether Python still has one.                         *)
LEMMA TargetTyped ==
    ASSUME NEW o \in Objects, NEW l \in {"hidden", "val", "arg"}
    PROVE  Shadowed(o, l) \in Objects /\ Shadowed(o, l).k = l /\ Shadowed(o, l).at = o.at
<1>1. Shadowed(o, l) \in Objects
  <2>1. [o EXCEPT !.k = l] \in Objects
    BY DEF Objects
  <2>2. \A p \in Objects : [p EXCEPT !.py = 0] \in Objects
    BY DEF Objects
  <2>3. Shadowed(o, l) = [[o EXCEPT !.k = l] EXCEPT !.py = 0]
    BY DEF Shadowed
  <2>. QED
    BY <2>1, <2>2, <2>3
<1>2. Shadowed(o, l).k = l
  BY DEF Shadowed, Objects
<1>3. Shadowed(o, l).at = o.at
  BY DEF Shadowed, Objects
<1>. QED
  BY <1>1, <1>2, <1>3

(* A launch is entered. Its target is a name of the body only if nothing is *)
(* bound to it.                                                             *)
LEMMA LaunchOK ==
    ASSUME IInv, NEW x \in Names, NEW y \in Names, Launch(x, y)
    PROVE  IInv'
<1>. USE DEF IInv
<1>. DEFINE target == IF IsBound(x) THEN {} ELSE {x}
            f == Block("kernel", scope, target)
<1>1. /\ Statement("kernel", {y}) /\ tensors' = tensors
      /\ scope' = [scope EXCEPT ![x] = Launched(x)]
      /\ blocks' = Append(blocks, f) /\ lost' = lost \ target
  BY DEF Launch
<1>2. /\ Depth \in Nat /\ {y} \in SUBSET Symbols /\ target \in SUBSET Symbols
      /\ f.kind = "kernel" /\ f.before = scope /\ f.lost = lost /\ f.bound = target /\ f \in Blocks
  BY ScopeTyped DEF Block, Blocks, TypeOK, Symbols
<1>3. /\ Launched(x) \in Objects
      /\ IsBound(x) => /\ IsValue(Launched(x)) <=> IsValue(scope[x])
                       /\ Launched(x).at = scope[x].at
      /\ ~IsBound(x) => Launched(x).at = Depth + 1 /\ IsValue(Launched(x))
  <2>1. scope[x] \in Objects
    BY ScopeTyped
  <2>2. CASE IsBound(x)
    <3>. DEFINE k == IF IsNumber(scope[x]) THEN "hidden" ELSE scope[x].k
    <3>1. /\ k \in {"hidden", "val", "arg"} /\ (k = "hidden" <=> ~IsValue(scope[x]))
          /\ Launched(x) = Shadowed(scope[x], k)
      BY <2>2 DEF Launched, IsNumber, IsValue, IsBound
    <3>. HIDE DEF k
    <3>2. Launched(x) \in Objects /\ Launched(x).k = k /\ Launched(x).at = scope[x].at
      BY <2>1, <3>1, TargetTyped
    <3>3. IsValue(Launched(x)) <=> IsValue(scope[x])
      BY <3>1, <3>2 DEF IsValue
    <3>. QED
      BY <2>2, <3>2, <3>3
  <2>3. CASE ~IsBound(x)
    BY <2>3, MaterialisedTyped DEF Launched
  <2>. QED
    BY <2>2, <2>3
<1>4. /\ scope' \in [Names -> Objects] /\ scope'[x] = Launched(x)
      /\ \A n \in Names \ {x} : scope'[n] = scope[n]
  BY <1>1, <1>3 DEF TypeOK
<1>. HIDE DEF f
<1>5. /\ blocks' \in Seq(Blocks) /\ Depth' = Depth + 1 /\ blocks'[Depth + 1] = f
      /\ \A d \in 1 .. Depth : blocks'[d] = blocks[d]
  <2>1. blocks \in Seq(Blocks) /\ Len(blocks) = Depth
    BY DEF TypeOK, Depth
  <2>2. blocks' \in Seq(Blocks) /\ Len(blocks') = Depth + 1
    BY <1>1, <1>2, <2>1
  <2>3. blocks'[Depth + 1] = f /\ \A d \in 1 .. Depth : blocks'[d] = blocks[d]
    BY <1>1, <1>2, <2>1
  <2>. QED
    BY <2>2, <2>3 DEF Depth
<1>6. /\ IsBound(x) => At(x)' = At(x)
      /\ ~IsBound(x) => At(x)' = Depth + 1
      /\ \A n \in Symbols \ {x} : At(n)' = At(n)
  BY <1>1, <1>3, <1>4 DEF At, Symbols
<1>7. Depths'
  <2>1. ASSUME NEW n \in Names, ~IsValue(scope'[n]) PROVE scope'[n].at = 0
    BY <1>3, <1>4, <2>1 DEF Scoped, Depths
  <2>2. ASSUME NEW n \in Symbols PROVE At(n)' <= Depth + 1 /\ (n \in lost' <=> At(n)' = -1)
    <3>1. At(n) <= Depth /\ (n \in lost <=> At(n) = -1) /\ At(n) \in Nat \cup {-1}
      BY ScopeTyped DEF Scoped, Depths
    <3>. QED
      BY <1>1, <1>2, <1>6, <3>1
  <2>. QED
    BY <1>5, <2>1, <2>2 DEF Depths
<1>8. ASSUME NEW n \in Symbols, DefinedAt(n)', NEW d \in 1 .. Depth'
      PROVE  BoundAt(n, d)'
  <2>1. d \in 1 .. Depth \/ d = Depth + 1
    BY <1>2, <1>5
  <2>2. At(n) <= Depth /\ At(n) \in Nat \cup {-1}
    BY ScopeTyped DEF Scoped, Depths
  <2>3. CASE n = x /\ ~IsBound(x)
    <3>1. At(n)' = Depth + 1
      BY <1>6, <2>3
    <3>2. d = Depth + 1 => n \in blocks'[d].bound
      BY <1>2, <1>5, <2>3
    <3>. QED
      BY <1>2, <2>1, <3>1, <3>2 DEF BoundAt
  <2>4. CASE ~(n = x /\ ~IsBound(x))
    <3>1. DefinedAt(n) /\ At(n)' = At(n)
      BY <1>3, <1>4, <1>6, <1>8, <2>4 DEF DefinedAt
    <3>2. d = Depth + 1 => n \notin blocks'[d].bound
      BY <1>2, <1>5, <2>4
    <3>3. CASE d \in 1 .. Depth
      <4>1. BoundAt(n, d) /\ blocks'[d] = blocks[d]
        BY <1>5, <3>1, <3>3 DEF Scoped, Inside
      <4>. QED
        BY <3>1, <4>1 DEF BoundAt
    <3>4. CASE d = Depth + 1
      BY <1>2, <2>2, <3>1, <3>2, <3>4 DEF BoundAt
    <3>. QED
      BY <2>1, <3>3, <3>4
  <2>. QED
    BY <2>3, <2>4
<1>9. Nested'
  <2>. SUFFICES ASSUME NEW d \in 1 .. Depth + 1, NEW e \in 1 .. Depth + 1, d <= e, blocks'[e].kind = "for"
                PROVE  blocks'[e].bound \subseteq blocks'[d].bound
    BY <1>5 DEF Nested
  <2>1. e # Depth + 1
    BY <1>2, <1>5
  <2>2. e \in 1 .. Depth /\ d \in 1 .. Depth
    BY <1>2, <2>1
  <2>. QED
    BY <1>5, <2>2 DEF Scoped, Nested
<1>10. Remembers'
  <2>. SUFFICES ASSUME NEW d \in 1 .. Depth + 1, NEW n \in Names
                PROVE  n \in blocks'[d].lost <=> blocks'[d].before[n].at = -1
    BY <1>5 DEF Remembers
  <2>1. CASE d = Depth + 1
    BY <1>2, <1>5, <2>1 DEF Scoped, Depths, At, Symbols
  <2>2. CASE d # Depth + 1
    <3>1. d \in 1 .. Depth
      BY <1>2, <2>2
    <3>. QED
      BY <1>5, <3>1 DEF Scoped, Remembers
  <2>. QED
    BY <2>1, <2>2
<1>11. Scoped'
  BY <1>7, <1>8, <1>9, <1>10 DEF Scoped, Inside
<1>12. PICK rank \in 0 .. 4, threads \in 0 .. 1 :
          /\ Verifier({y}, Refuses("kernel", KernelVerifies(rank, threads) /\ Mlir(scope[y].t) = "index"))
          /\ Obeys({y}, scope[y].t = "index" /\ rank \in 1 .. 3 /\ threads > 0, ~IsBound(x))
  BY DEF Launch
<1>. DEFINE types == scope[y].t = "index" /\ rank \in 1 .. 3 /\ threads > 0
            other == Refuses("kernel", KernelVerifies(rank, threads) /\ Mlir(scope[y].t) = "index")
<1>13. other \in SUBSET Why /\ (other = {} <=> types) /\ types \in BOOLEAN
  <2>1. Mlir(scope[y].t) = "index" <=> scope[y].t = "index"
    BY ScopeTyped, MlirIsInjective
  <2>2. KernelVerifies(rank, threads) <=> rank \in 1 .. 3 /\ threads > 0
    BY DEF KernelVerifies
  <2>3. other = Refuses("kernel", types) /\ types \in BOOLEAN
    BY <2>1, <2>2
  <2>. QED
    BY <2>3 DEF Refuses, Why
<1>. HIDE DEF other, types
<1>14. refused' \in SUBSET Why /\ (refused' = {} <=> typed') /\ typed' \in BOOLEAN /\ careful' \in BOOLEAN
  <2>1. Verifier({y}, other) /\ Obeys({y}, types, ~IsBound(x))
    BY <1>12 DEF other, types
  <2>. QED
    BY <1>2, <1>13, <2>1, RulesKept
<1>15. left' \in 0 .. MaxSteps /\ lost' \in SUBSET Symbols
  BY <1>1, StatementTyped DEF TypeOK, Symbols
<1>. QED
  BY <1>1, <1>4, <1>5, <1>11, <1>14, <1>15 DEF TypeOK, Accepted, Symbols

(* The end of a body does one thing to an object: one defined in it is lost *)
LEMMA EndedTyped ==
    ASSUME TypeOK
    PROVE  /\ \A o \in Objects : /\ Ended(o) \in Objects /\ Ended(o).k = o.k
                                 /\ Ended(o).t = o.t /\ Ended(o).py = o.py /\ Ended(o).hw = o.hw
                                 /\ Ended(o).at = IF o.at = Depth THEN -1 ELSE o.at
           /\ \A o \in Arrays : /\ Ended(o) \in Arrays
                                /\ Ended(o).t = o.t /\ Ended(o).py = o.py /\ Ended(o).hw = o.hw
                                /\ Ended(o).at = IF o.at = Depth THEN -1 ELSE o.at
<1>1. \A o \in Objects : /\ Ended(o) \in Objects /\ Ended(o).k = o.k
                         /\ Ended(o).t = o.t /\ Ended(o).py = o.py /\ Ended(o).hw = o.hw
                         /\ Ended(o).at = IF o.at = Depth THEN -1 ELSE o.at
  BY DEF Ended, Objects
<1>2. \A o \in Arrays : /\ Ended(o) \in Arrays
                        /\ Ended(o).t = o.t /\ Ended(o).py = o.py /\ Ended(o).hw = o.hw
                        /\ Ended(o).at = IF o.at = Depth THEN -1 ELSE o.at
  BY DEF Ended, Arrays
<1>. QED
  BY <1>1, <1>2

(* unless it is carried: then a result of the loop replaces it. Only a loop *)
(* carries anything, and only what was bound in its body.                   *)
LEMMA LeaveScoped ==
    ASSUME TypeOK, Scoped, NEW kind, NEW carried, Leave(kind, carried),
           carried \subseteq Inner.bound \cap Names, kind = "for" \/ carried = {}
    PROVE  /\ scope' \in [Names -> Objects] /\ tensors' \in [Tensors -> Arrays]
           /\ blocks' \in Seq(Blocks) /\ lost' \in SUBSET Symbols /\ left' = left
           /\ \A n \in carried : /\ scope'[n].t = Inner.before[n].t
                                 /\ scope'[n].py = scope[n].py /\ scope'[n].hw = scope[n].hw
           /\ \A n \in Names \ carried : scope'[n] = Ended(scope[n])
           /\ \A a \in Tensors : tensors'[a] = Ended(tensors[a])
           /\ Scoped'
<1>1. /\ blocks # <<>> /\ Inner.kind = kind /\ left' = left
      /\ scope' = [n \in Names |-> IF n \in carried THEN Result(n) ELSE Ended(scope[n])]
      /\ tensors' = [a \in Tensors |-> Ended(tensors[a])]
      /\ blocks' = SubSeq(blocks, 1, Depth - 1)
      /\ lost' = (lost \ carried) \cup {n \in Inner.bound \ carried : n \in Tensors \/ IsValue(scope[n])}
  BY DEF Leave
<1>2. Depth \in Nat /\ Depth >= 1 /\ Inner \in Blocks /\ Inner = blocks[Depth]
  BY <1>1, ScopeTyped DEF Inner, Depth, TypeOK
<1>3. /\ blocks' \in Seq(Blocks) /\ Depth' = Depth - 1
      /\ \A d \in 1 .. Depth - 1 : blocks'[d] = blocks[d]
  <2>1. blocks \in Seq(Blocks) /\ Len(blocks) = Depth
    BY DEF TypeOK, Depth
  <2>2. blocks' \in Seq(Blocks) /\ Len(blocks') = Depth - 1 /\ \A d \in 1 .. Depth - 1 : blocks'[d] = blocks[d]
    BY <1>1, <1>2, <2>1
  <2>. QED
    BY <2>2 DEF Depth
<1>4. \A n \in Names : /\ Result(n) \in Objects /\ Result(n).at = Depth - 1 /\ Result(n).k = "val"
                       /\ Result(n).t = Inner.before[n].t /\ Result(n).py = scope[n].py
                       /\ Result(n).hw = scope[n].hw
  <2>. SUFFICES ASSUME NEW n \in Names
                PROVE  /\ Result(n) \in Objects /\ Result(n).at = Depth - 1 /\ Result(n).k = "val"
                       /\ Result(n).t = Inner.before[n].t /\ Result(n).py = scope[n].py
                       /\ Result(n).hw = scope[n].hw
    OBVIOUS
  <2>1. Inner.before[n].t \in Kinds /\ scope[n].py \in Int /\ scope[n].hw \in Int
    BY <1>2, ScopeTyped DEF Blocks, Objects
  <2>. QED
    BY <1>2, <2>1 DEF Result, Value, Yielded, Objects
<1>5. /\ scope' \in [Names -> Objects] /\ tensors' \in [Tensors -> Arrays]
      /\ \A n \in carried : scope'[n] = Result(n)
      /\ \A n \in Names \ carried : scope'[n] = Ended(scope[n])
      /\ \A a \in Tensors : tensors'[a] = Ended(tensors[a])
  BY <1>1, <1>4, ScopeTyped, EndedTyped
<1>6. lost' \in SUBSET Symbols /\ carried \subseteq Names
  BY <1>1, <1>2 DEF TypeOK, Blocks, Symbols
<1>7. /\ \A n \in carried : At(n)' = Depth - 1
      /\ \A n \in Symbols \ carried : At(n)' = IF At(n) = Depth THEN -1 ELSE At(n)
  <2>1. \A n \in carried : At(n)' = Depth - 1
    BY <1>4, <1>5, <1>6 DEF At
  <2>2. ASSUME NEW n \in Symbols \ carried PROVE At(n)' = IF At(n) = Depth THEN -1 ELSE At(n)
    <3>1. CASE n \in Names
      BY <1>5, <3>1, EndedTyped, ScopeTyped DEF At
    <3>2. CASE n \notin Names
      BY <1>5, <3>2, EndedTyped, ScopeTyped DEF At, Symbols
    <3>. QED
      BY <3>1, <3>2
  <2>. QED
    BY <2>1, <2>2
<1>8. \A n \in Symbols \ carried : DefinedAt(n)' <=> DefinedAt(n)
  BY <1>5, EndedTyped, ScopeTyped DEF DefinedAt, IsValue
<1>9. \A n \in Symbols : DefinedAt(n) => \A d \in 1 .. Depth : BoundAt(n, d)
  BY DEF Scoped, Inside
<1>10. Depths'
  <2>1. ASSUME NEW n \in Names, ~IsValue(scope'[n]) PROVE scope'[n].at = 0
    <3>1. n \notin carried
      BY <1>4, <1>5, <2>1 DEF IsValue
    <3>2. ~IsValue(scope[n]) /\ scope[n].at = 0
      BY <1>8, <2>1, <3>1 DEF DefinedAt, Symbols, Scoped, Depths
    <3>. QED
      BY <1>2, <1>5, <3>1, <3>2, EndedTyped, ScopeTyped
  <2>2. ASSUME NEW n \in Symbols PROVE At(n)' <= Depth - 1 /\ (n \in lost' <=> At(n)' = -1)
    <3>1. At(n) <= Depth /\ (n \in lost <=> At(n) = -1) /\ At(n) \in Nat \cup {-1}
      BY ScopeTyped DEF Scoped, Depths
    <3>2. CASE n \in carried
      BY <1>1, <1>2, <1>7, <3>2
    <3>3. CASE n \notin carried
      <4>1. n \in lost' <=> n \in lost \/ (n \in Inner.bound /\ DefinedAt(n))
        BY <1>1, <3>3, NamesAssumption DEF DefinedAt, Symbols
      <4>2. At(n) = Depth => DefinedAt(n)
        BY <1>2 DEF Scoped, Depths, DefinedAt, At
      <4>3. DefinedAt(n) => BoundAt(n, Depth)
        BY <1>2, <1>9
      <4>. QED
        BY <1>2, <1>7, <3>1, <3>3, <4>1, <4>2, <4>3 DEF BoundAt
    <3>. QED
      BY <3>2, <3>3
  <2>. QED
    BY <1>3, <2>1, <2>2 DEF Depths
<1>11. ASSUME NEW n \in Symbols, DefinedAt(n)', NEW d \in 1 .. Depth'
       PROVE  BoundAt(n, d)'
  <2>1. d \in 1 .. Depth - 1 /\ d \in 1 .. Depth /\ blocks'[d] = blocks[d] /\ Depth \in 1 .. Depth
    BY <1>2, <1>3
  <2>2. CASE n \in carried
    <3>1. Inner.bound \subseteq blocks[d].bound
      BY <1>1, <1>2, <2>1, <2>2 DEF Scoped, Nested
    <3>2. n \in blocks'[d].bound
      BY <2>1, <2>2, <3>1
    <3>. QED
      BY <1>2, <1>7, <2>1, <2>2, <3>2 DEF BoundAt
  <2>3. CASE n \notin carried
    <3>1. BoundAt(n, d)
      BY <1>8, <1>9, <1>11, <2>1, <2>3
    <3>. QED
      BY <1>7, <2>1, <2>3, <3>1 DEF BoundAt
  <2>. QED
    BY <2>2, <2>3
<1>12. Nested' /\ Remembers'
  BY <1>2, <1>3 DEF Scoped, Nested, Remembers
<1>13. Scoped'
  BY <1>10, <1>11, <1>12 DEF Scoped, Inside
<1>14. \A n \in carried : /\ scope'[n].t = Inner.before[n].t
                          /\ scope'[n].py = scope[n].py /\ scope'[n].hw = scope[n].hw
  BY <1>4, <1>5, <1>6
<1>. QED
  BY <1>1, <1>3, <1>5, <1>6, <1>13, <1>14

(* A launch ends.                                                           *)
LEMMA ExitKernelOK ==
    ASSUME IInv, ExitKernel
    PROVE  IInv'
<1>. USE DEF IInv
<1>1. Leave("kernel", {}) /\ Verifier({}, {}) /\ Obeys({}, TRUE, TRUE)
  BY DEF ExitKernel
<1>2. /\ scope' \in [Names -> Objects] /\ tensors' \in [Tensors -> Arrays]
      /\ blocks' \in Seq(Blocks) /\ lost' \in SUBSET Symbols /\ left' = left /\ Scoped'
  BY <1>1, LeaveScoped
<1>3. refused' \in SUBSET Why /\ (refused' = {} <=> typed') /\ typed' \in BOOLEAN /\ careful' \in BOOLEAN
  BY <1>1, RulesKept
<1>. QED
  BY <1>2, <1>3 DEF TypeOK, Accepted, Symbols

(* A loop ends. What is carried must keep its type, and neither its initial *)
(* nor its final value may be lost.                                         *)
LEMMA ExitForOK ==
    ASSUME IInv, ExitFor
    PROVE  IInv'
<1>. USE DEF IInv
<1>. DEFINE types == /\ \A n \in Carried : scope[n].t = Inner.before[n].t
                     /\ Carried \cap Inner.lost = {}
            other == Refuses("carried", \A n \in Carried : Mlir(Yielded(n).t) = Mlir(Inner.before[n].t))
                       \cup Refuses("dominance", \A n \in Carried : Inner.before[n].at # -1)
<1>1. Leave("for", Carried) /\ Verifier(Carried, other) /\ Obeys(Carried, types, TRUE)
  BY DEF ExitFor
<1>2. blocks # <<>> /\ Carried \subseteq Inner.bound \cap Names
  BY <1>1 DEF Leave, Carried
<1>3. /\ scope' \in [Names -> Objects] /\ tensors' \in [Tensors -> Arrays]
      /\ blocks' \in Seq(Blocks) /\ lost' \in SUBSET Symbols /\ left' = left /\ Scoped'
  BY <1>1, <1>2, LeaveScoped
<1>4. Depth \in 1 .. Depth /\ Inner = blocks[Depth] /\ Inner \in Blocks
  BY <1>2, ScopeTyped DEF Inner, Depth, TypeOK
<1>5. \A n \in Carried : Mlir(Yielded(n).t) = Mlir(Inner.before[n].t) <=> scope[n].t = Inner.before[n].t
  <2>1. \A n \in Carried : scope[n].t \in Kinds /\ Inner.before[n].t \in Kinds
    BY <1>2, <1>4, ScopeTyped DEF Blocks, Objects
  <2>. QED
    BY <2>1, MlirIsInjective DEF Yielded
<1>6. (\A n \in Carried : Inner.before[n].at # -1) <=> Carried \cap Inner.lost = {}
  BY <1>2, <1>4 DEF Scoped, Remembers
<1>7. other \in SUBSET Why /\ (other = {} <=> types) /\ types \in BOOLEAN
  BY <1>5, <1>6 DEF Refuses, Why
<1>8. Carried \in SUBSET Symbols
  BY <1>2 DEF Symbols
<1>. HIDE DEF other, types
<1>9. refused' \in SUBSET Why /\ (refused' = {} <=> typed') /\ typed' \in BOOLEAN /\ careful' \in BOOLEAN
  BY <1>1, <1>7, <1>8, RulesKept
<1>. QED
  BY <1>3, <1>9 DEF TypeOK, Accepted, Symbols

(* A condition is tested.                                                   *)
LEMMA TestOK ==
    ASSUME IInv, NEW x \in Names, Test(x)
    PROVE  IInv'
<1>. USE DEF IInv
<1>. DEFINE types == scope[x].t = "bool"
            other == Refuses("condition", Mlir(scope[x].t) = "i1")
<1>1. /\ Statement("test", {x}) /\ Verifier({x}, other) /\ Obeys({x}, types, TRUE)
      /\ scope' = scope /\ tensors' = tensors /\ blocks' = blocks /\ lost' = lost
  BY DEF Test
<1>2. other \in SUBSET Why /\ (other = {} <=> types) /\ types \in BOOLEAN /\ {x} \in SUBSET Symbols
  BY ScopeTyped, MlirIsInjective DEF Refuses, Why, Symbols
<1>. HIDE DEF other, types
<1>3. refused' \in SUBSET Why /\ (refused' = {} <=> typed') /\ typed' \in BOOLEAN /\ careful' \in BOOLEAN
  BY <1>1, <1>2, RulesKept
<1>4. Scoped' /\ left' \in 0 .. MaxSteps
  BY <1>1, SameScoped, StatementTyped
<1>. QED
  BY <1>1, <1>3, <1>4 DEF TypeOK, Accepted

(* What is not supported.                                                   *)
LEMMA UnsupportedOK ==
    ASSUME IInv, Unsupported
    PROVE  IInv'
<1>. USE DEF IInv
<1>1. PICK s \in {"not", "assert"} : Statement(s, {})
  BY DEF Unsupported
<1>2. /\ Verifier({}, {"unsupported"}) /\ Obeys({}, FALSE, TRUE)
      /\ scope' = scope /\ tensors' = tensors /\ blocks' = blocks /\ lost' = lost
  BY DEF Unsupported
<1>3. refused' \in SUBSET Why /\ (refused' = {} <=> typed') /\ typed' \in BOOLEAN /\ careful' \in BOOLEAN
  <2>1. {"unsupported"} \in SUBSET Why /\ ({"unsupported"} = {} <=> FALSE)
    BY DEF Why
  <2>. QED
    BY <1>2, <2>1, RulesKept
<1>4. Scoped' /\ left' \in 0 .. MaxSteps
  BY <1>1, <1>2, SameScoped, StatementTyped
<1>. QED
  BY <1>2, <1>3, <1>4 DEF TypeOK, Accepted

(* Every step keeps them.                                                   *)
LEMMA NextOK == IInv /\ [Next]_vars => IInv'
<1>. SUFFICES ASSUME IInv, [Next]_vars PROVE IInv'
  OBVIOUS
<1>1. CASE UNCHANGED vars
  <2>1. /\ scope' = scope /\ tensors' = tensors /\ blocks' = blocks /\ lost' = lost /\ refused' = refused
        /\ typed' = typed /\ careful' = careful /\ left' = left
    BY <1>1 DEF vars
  <2>2. Scoped'
    BY <2>1, SameScoped DEF IInv
  <2>. QED
    BY <2>1, <2>2 DEF IInv, TypeOK, Accepted
<1>2. CASE ExitFor \/ ExitKernel \/ Unsupported
  BY <1>2, ExitForOK, ExitKernelOK, UnsupportedOK
<1>3. ASSUME NEW x \in Names, Expression(x)
      PROVE  IInv'
  BY <1>3, AssignOK, LoadOK, BinaryOK, CompareOK, EqualOK, CeildivOK, SelectOK, NegateOK, EnterForOK, LaunchOK
     DEF Expression
<1>4. ASSUME NEW x \in Names, Test(x)
      PROVE  IInv'
  BY <1>4, TestOK
<1>5. ASSUME NEW x \in Names, NEW a \in Tensors, Alloc(a, x) \/ \E i \in Names : Store(a, i, x)
      PROVE  IInv'
  BY <1>5, AllocOK, StoreOK
<1>. QED
  BY <1>1, <1>2, <1>3, <1>4, <1>5 DEF Next

(* Every state of every kernel has its type.                                *)
THEOREM KernelsTypeCorrect == Spec => []TypeOK
<1>1. IInv => TypeOK
  BY DEF IInv
<1>. QED
  BY InitOK, NextOK, <1>1, PTL DEF Spec

(* MLIR accepts a kernel just when it keeps the rules of types, those about *)
(* what is read after a body has ended included: no other check of the      *)
(* emitter or of the verifiers gets in its way, and no kernel that breaks a *)
(* rule slips through.                                                      *)
THEOREM RulesOfTypes == Spec => []Accepted
<1>1. IInv => Accepted
  BY DEF IInv
<1>. QED
  BY InitOK, NextOK, <1>1, PTL DEF Spec

(***************************************************************************)
(* Numbers. Until a rule is broken, a name has the number that Python gives *)
(* it, and memory has it or has not been written yet. That is inductive     *)
(* only with two facts about its size: it is not mistaken for Lost, and     *)
(* what is not a float is a whole number, that is, counted in halves, even. *)
(***************************************************************************)
Even(v) == \E n \in Int : v = 2 * n
Fine(t, v) == -Lost < v /\ v < Lost /\ (t \in {"index", "bool"} => Even(v))
Right(o) == o.hw = o.py /\ Fine(o.t, o.py)
Stored(a) == a.hw \in {a.py, Lost} /\ Fine(a.t, a.py)
Computed == /\ \A x \in Names : Right(scope[x])
            /\ \A a \in Tensors : Stored(tensors[a])
NInv == IInv /\ (careful /\ typed => Computed)

(* Quotient and remainder.                                                  *)
LEMMA Euclid ==
    ASSUME NEW a \in Int, NEW d \in Int, d > 0
    PROVE  /\ a \div d \in Int /\ (a \div d) * d <= a /\ a < (a \div d) * d + d
OBVIOUS

(* Multiplication by a natural number is monotonic.                         *)
LEMMA MultMonotonic ==
    ASSUME NEW a \in Int, NEW b \in Int, NEW c \in Nat, a <= b
    PROVE  a * c <= b * c
OBVIOUS

(* Whole numbers are closed under the integer operations.                   *)
LEMMA EvenClosed ==
    ASSUME NEW a, Even(a), NEW b, Even(b), NEW q \in Int
    PROVE  /\ Even(a + b) /\ Even(a - b) /\ Even((a * b) \div 2) /\ Even(2 * q) /\ Even(a - q * b)
<1>1. PICK m \in Int, n \in Int : a = 2 * m /\ b = 2 * n
  BY DEF Even
<1>2. a + b = 2 * (m + n) /\ a - b = 2 * (m - n) /\ m + n \in Int /\ m - n \in Int
  BY <1>1
<1>3. (a * b) \div 2 = 2 * (m * n) /\ m * n \in Int
  BY <1>1
<1>4. a - q * b = 2 * (m - q * n) /\ m - q * n \in Int
  <2>1. q * n \in Int /\ q * b = 2 * (q * n)
    BY <1>1
  <2>. QED
    BY <1>1, <2>1
<1>. QED
  BY <1>2, <1>3, <1>4 DEF Even

(* How many blocks of b cover a, when both are whole numbers.               *)
LEMMA CeilDivSmall ==
    ASSUME NEW a \in Int, Even(a), a >= 0, NEW b \in Int, Even(b), b > 0
    PROVE  Number(CeilDiv(a, b)) \in 0 .. a /\ Even(Number(CeilDiv(a, b)))
<1>1. PICK m \in Int, n \in Int : a = 2 * m /\ b = 2 * n
  BY DEF Even
<1>. DEFINE q == (-a) \div b
<1>2. m >= 0 /\ n >= 1 /\ -a \in Int
  BY <1>1
<1>3. q \in Int /\ q * b <= -a /\ -a < q * b + b
  BY <1>2, Euclid
<1>4. CeilDiv(a, b) = -q
  BY DEF CeilDiv, FloorDiv
<1>. HIDE DEF q
<1>5. q <= 0
  <2>1. q >= 1 => 1 * b <= q * b
    BY <1>3, MultMonotonic
  <2>. QED
    BY <1>3, <2>1
<1>6. -q <= m
  <2>1. q * b = 2 * (q * n) /\ q * n \in Int
    BY <1>1, <1>3
  <2>2. -m < q * n + n
    BY <1>1, <1>2, <1>3, <2>1
  <2>3. ASSUME q + 1 <= -m PROVE FALSE
    <3>1. (q + 1) * n <= (-m) * n
      BY <1>2, <1>3, <2>3, MultMonotonic
    <3>2. (-m) * n <= (-m) * 1
      <4>1. 1 * m <= n * m
        BY <1>2, MultMonotonic
      <4>. QED
        BY <1>1, <1>2, <4>1
    <3>3. (q + 1) * n = q * n + n
      BY <1>2, <1>3
    <3>. QED
      BY <1>1, <1>2, <2>1, <2>2, <3>1, <3>2, <3>3
  <2>. QED
    BY <1>1, <1>3, <2>3
<1>7. Number(CeilDiv(a, b)) = 2 * (-q) /\ -q \in Int
  BY <1>3, <1>4 DEF Number
<1>8. Even(Number(CeilDiv(a, b)))
  BY <1>7 DEF Even
<1>9. 2 * (-q) \in 0 .. a
  BY <1>1, <1>3, <1>5, <1>6
<1>. QED
  BY <1>7, <1>8, <1>9


(* A coercion that a careful kernel makes changes neither a number nor what *)
(* is known of its size.                                                    *)
LEMMA KeptByCoercion ==
    ASSUME NEW k \in Kinds, NEW l \in Kinds, Keeps(k, l), NEW v, Fine(k, v)
    PROVE  Coerced(k, l, v) = v /\ Fine(l, v)
<1>1. Coerced(k, l, v) = v
  BY DEF Coerced, Keeps, Kinds, Floats
<1>2. l \in {"index", "bool"} => k = l
  BY DEF Keeps, Floats
<1>. QED
  BY <1>1, <1>2 DEF Fine

(* The operation that is emitted for a binary operator computes what Python *)
(* does, for the operands of a careful kernel.                              *)
LEMMA BinaryComputes ==
    ASSUME NEW op \in BinaryOps, NEW k \in Kinds, NEW a \in Int, NEW b \in Int, Fine(k, a), Fine(k, b),
           BinaryRule(op, k, k), k = "bool" <=> op = "and", k = "index" => op # "/",
           op = "%" => a >= 0 /\ b >= 0, op \in {"/", "//", "%"} => b # 0,
           Small(Computes(op, a, b))
    PROVE  Runs(Name(op, k), k, a, b) = Computes(op, a, b) /\ Fine(k, Computes(op, a, b))
<1>1. Lost \notin {a, b}
  BY DEF Fine
<1>2. Computes(op, a, b) \in Int /\ -Lost < Computes(op, a, b) /\ Computes(op, a, b) < Lost
  BY ComputesIsInt, BoundsAssumption DEF Small, Lost
<1>3. CASE k = "bool"
  <2>1. op = "and" /\ Name(op, k) = "andi"
    BY <1>3 DEF Name, IntegerName, Floats
  <2>2. Runs(Name(op, k), k, a, b) = IF a = 0 THEN a ELSE b
    BY <1>1, <1>3, <2>1 DEF Runs, RunsBits, Divisions
  <2>3. Computes(op, a, b) = IF a = 0 THEN a ELSE b
    BY <2>1 DEF Computes
  <2>. QED
    BY <1>3, <2>2, <2>3
<1>4. CASE k \in Floats
  <2>1. op \in {"+", "-", "*", "/", "%"}
    BY <1>4 DEF BinaryRule, BinaryOps
  <2>2. op = "%" => TruncDiv(a, b) = FloorDiv(a, b)
    BY DEF TruncDiv
  <2>3. k # "bool" /\ k # "index"
    BY <1>4 DEF Floats
  <2>4. Runs(Name(op, k), k, a, b) = Computes(op, a, b)
    BY <1>1, <1>4, <2>1, <2>2, <2>3 DEF Runs, RunsNumbers, Computes, Name, FloatName, Divisions
  <2>. QED
    BY <1>2, <2>3, <2>4 DEF Fine
<1>5. CASE k = "index"
  <2>1. op \in {"+", "-", "*", "//", "%"}
    BY <1>5 DEF BinaryOps
  <2>2. op = "%" => TruncDiv(a, b) = FloorDiv(a, b)
    BY DEF TruncDiv
  <2>3. k \notin Floats /\ k # "bool"
    BY <1>5 DEF Floats
  <2>4. Runs(Name(op, k), k, a, b) = Computes(op, a, b)
    BY <1>1, <2>1, <2>2, <2>3 DEF Runs, RunsNumbers, Computes, Name, IntegerName, Divisions
  <2>5. Even(a) /\ Even(b)
    BY <1>5 DEF Fine
  <2>6. op \in {"//", "%"} => FloorDiv(a, b) \in Int
    BY FloorDivIsInt
  <2>7. Even(Computes(op, a, b))
    BY <2>1, <2>5, <2>6, EvenClosed DEF Computes, Number
  <2>. QED
    BY <1>2, <2>4, <2>7 DEF Fine
<1>6. k # "int"
  BY DEF BinaryRule
<1>. QED
  BY <1>3, <1>4, <1>5, <1>6 DEF Kinds

(* The value of an object that has the number Python gives it.              *)
LEMMA RightValue ==
    ASSUME NEW t, NEW py, NEW hw, hw = py, Fine(t, py)
    PROVE  Right(Value(t, py, hw)) /\ Right(Literal(t, py))
BY DEF Right, Value, Literal

(* Truth values are whole.                                                  *)
LEMMA TruthFine ==
    ASSUME NEW b
    PROVE  Truth(b) \in {0, 2} /\ Fine("bool", Truth(b)) /\ Fine("index", 0) /\ Fine("bool", 0)
<1>1. 0 = 2 * 0 /\ 2 = 2 * 1 /\ 0 \in Int /\ 1 \in Int
  OBVIOUS
<1>2. Even(0) /\ Even(2)
  BY <1>1 DEF Even
<1>. QED
  BY <1>2 DEF Truth, Fine, Lost

(* The numbers a kernel may hold are right, what stands for nothing is, and *)
(* so is a block argument.                                                  *)
LEMMA NumbersRight == (\A n \in Numbers \cup {Unbound} : Right(n)) /\ \A k : Right(BlockArg(k))
<1>1. Even(0) /\ Even(2) /\ Even(-2) /\ Even(4)
  <2>1. 0 = 2 * 0 /\ 2 = 2 * 1 /\ -2 = 2 * (-1) /\ 4 = 2 * 2
    OBVIOUS
  <2>. QED
    BY <2>1 DEF Even
<1>2. Fine("bool", 0) /\ Fine("bool", 2) /\ Fine("index", -2) /\ Fine("index", 2) /\ Fine("index", 4)
      /\ Fine("f32", 1) /\ Fine("index", 0)
  BY <1>1 DEF Fine, Lost
<1>3. \A k : Right(BlockArg(k))
  BY <1>2 DEF BlockArg, Argument, Right
<1>4. Right(Unbound)
  BY <1>1 DEF Unbound, Literal, Right, Fine, Lost
<1>. QED
  BY <1>2, <1>3, <1>4, RightValue DEF Numbers

(* What is bound is right, and the rest stays.                              *)
LEMMA BindRight ==
    ASSUME NInv, NEW x \in Names, NEW o, BindAs(x, o), tensors' = tensors, Computed, Right(o)
    PROVE  Computed'
<1>1. scope' = [scope EXCEPT ![x] = o] /\ scope \in [Names -> Objects]
  BY DEF BindAs, NInv, IInv, TypeOK
<1>2. \A n \in Names : Right(scope'[n])
  BY <1>1 DEF Computed
<1>3. \A a \in Tensors : Stored(tensors'[a])
  BY DEF Computed
<1>. QED
  BY <1>2, <1>3 DEF Computed


(* What a careful kernel has before a statement.                            *)
LEMMA BeforeStatement ==
    ASSUME NInv, NEW s, NEW read, Statement(s, read), NEW used, NEW t, NEW n, Obeys(used, t, n), careful', typed'
    PROVE  /\ Computed /\ t /\ n /\ TypeOK
           /\ \A m \in Names : Right(scope[m]) /\ scope[m].t \in Kinds /\ scope[m].py \in Int
           /\ \A a \in Tensors : Stored(tensors[a]) /\ tensors[a].t \in Kinds
BY ScopeTyped DEF NInv, IInv, Statement, Obeys, Computed

(* The statements of a careful kernel that keep it right: a number,         *)
LEMMA AssignRight ==
    ASSUME NInv, NEW x \in Names, Assign(x), careful', typed'
    PROVE  Computed'
<1>1. PICK n \in Numbers : BindAs(x, n)
  BY DEF Assign
<1>2. Statement("number", {}) /\ Obeys({}, TRUE, TRUE) /\ tensors' = tensors
  BY DEF Assign
<1>3. Computed
  BY <1>2, BeforeStatement
<1>. QED
  BY <1>1, <1>2, <1>3, NumbersRight, BindRight

(* an element that was written,                                             *)
LEMMA LoadRight ==
    ASSUME NInv, NEW x \in Names, NEW a \in Tensors, NEW i \in Names, Load(x, a, i), careful', typed'
    PROVE  Computed'
<1>. DEFINE o == Value(tensors[a].t, tensors[a].py, tensors[a].hw)
            types == scope[i].t = "index" /\ ~tensors[a].tile
            numbers == tensors[a].hw # Lost
<1>1. Statement("load", {i}) /\ BindAs(x, o) /\ Obeys({a, i}, types, numbers) /\ tensors' = tensors
  BY DEF Load
<1>2. Computed /\ numbers /\ Stored(tensors[a])
  BY <1>1, BeforeStatement
<1>3. tensors[a].hw = tensors[a].py /\ Fine(tensors[a].t, tensors[a].py)
  BY <1>2 DEF Stored
<1>4. Right(o)
  BY <1>3, RightValue
<1>. QED
  BY <1>1, <1>2, <1>4, BindRight

(* a number in memory,                                                      *)
LEMMA StoreRight ==
    ASSUME NInv, NEW a \in Tensors, NEW i \in Names, NEW x \in Names, Store(a, i, x), careful', typed'
    PROVE  Computed'
<1>. DEFINE v == scope[x]
            t == tensors[a].t
            types == scope[i].t = "index" /\ ~tensors[a].tile /\ (v.t = t \/ "int" \notin {v.t, t})
            hw == Coerced(v.t, t, v.hw)
<1>1. /\ Statement("store", {i, x}) /\ Obeys({a, i, x}, types, Keeps(v.t, t)) /\ scope' = scope
      /\ tensors' = [tensors EXCEPT ![a] = [@ EXCEPT !.py = v.py, !.hw = hw]]
  BY DEF Store
<1>2. Computed /\ Keeps(v.t, t) /\ Right(v) /\ v.t \in Kinds /\ t \in Kinds /\ TypeOK
  BY <1>1, BeforeStatement
<1>3. v.hw = v.py /\ Fine(v.t, v.py)
  BY <1>2 DEF Right
<1>4. hw = v.py /\ Fine(t, v.py)
  BY <1>2, <1>3, KeptByCoercion
<1>. HIDE DEF v, hw
<1>5. tensors'[a] = [tensors[a] EXCEPT !.py = v.py, !.hw = hw] /\ \A c \in Tensors \ {a} : tensors'[c] = tensors[c]
  BY <1>1, <1>2 DEF TypeOK
<1>6. tensors'[a].py = v.py /\ tensors'[a].hw = hw /\ tensors'[a].t = t
  BY <1>2, <1>5 DEF TypeOK
<1>7. \A c \in Tensors : Stored(tensors'[c])
  BY <1>2, <1>4, <1>5, <1>6 DEF Computed, Stored
<1>. QED
  BY <1>1, <1>2, <1>7 DEF Computed

(* an operation,                                                            *)
LEMMA BinaryRight ==
    ASSUME NInv, NEW x \in Names, NEW op \in BinaryOps, NEW y \in Names, NEW z \in Names,
           Binary(x, op, y, z), careful', typed'
    PROVE  Computed'
<1>. DEFINE a == scope[y]
            b == scope[z]
            hw == Runs(Name(op, a.t), a.t, a.hw, Coerced(b.t, a.t, b.hw))
            py == Computes(op, a.py, b.py)
            o == Value(a.t, py, IF Small(hw) THEN hw ELSE Lost)
<1>1. /\ Statement("binary", {y, z}) /\ Obeys({y, z}, BinaryRule(op, a.t, b.t), BinaryIsExact(op, a, b))
      /\ BindAs(x, o) /\ tensors' = tensors /\ Small(py) /\ (op \in {"/", "//", "%"} => b.py # 0)
  BY DEF Binary
<1>2. /\ Computed /\ BinaryRule(op, a.t, b.t) /\ BinaryIsExact(op, a, b)
      /\ Right(a) /\ a.t \in Kinds /\ Right(b) /\ b.t \in Kinds /\ a.py \in Int /\ b.py \in Int
  BY <1>1, BeforeStatement
<1>3. a.hw = a.py /\ b.hw = b.py /\ Fine(a.t, a.py) /\ Fine(b.t, b.py)
  BY <1>2 DEF Right
<1>4. Coerced(b.t, a.t, b.hw) = b.py /\ Fine(a.t, b.py)
  BY <1>2, <1>3, KeptByCoercion DEF BinaryIsExact
<1>5. BinaryRule(op, a.t, a.t)
  BY <1>2 DEF BinaryRule
<1>6. hw = py /\ Fine(a.t, py)
  <2>1. Runs(Name(op, a.t), a.t, a.py, b.py) = py /\ Fine(a.t, py)
    BY <1>1, <1>2, <1>3, <1>4, <1>5, BinaryComputes DEF BinaryIsExact
  <2>. QED
    BY <1>3, <1>4, <2>1
<1>7. Right(o)
  BY <1>1, <1>6, RightValue
<1>. QED
  BY <1>1, <1>2, <1>7, BindRight

(* a comparison, whichever operand is the left one,                         *)
LEMMA CompareRight ==
    ASSUME NInv, NEW x \in Names, NEW y \in Names, NEW z \in Names, Compare(x, y, z), careful', typed'
    PROVE  Computed'
<1>. DEFINE a == scope[y]
            b == scope[z]
            l == IF IsValue(a) THEN a.t ELSE b.t
            r == IF IsValue(a) THEN b.t ELSE a.t
            hw == IsLess(l, Coerced(a.t, l, a.hw), Coerced(b.t, l, b.hw))
            o == Value("bool", Truth(a.py < b.py), hw)
<1>1. /\ Statement("compare", {y, z}) /\ Obeys({y, z}, "int" \notin {l, r}, Keeps(r, l) /\ l # "bool")
      /\ BindAs(x, o) /\ tensors' = tensors
  BY DEF Compare
<1>2. /\ Computed /\ Keeps(r, l) /\ l # "bool"
      /\ Right(a) /\ a.t \in Kinds /\ Right(b) /\ b.t \in Kinds /\ a.py \in Int /\ b.py \in Int
  BY <1>1, BeforeStatement
<1>3. a.hw = a.py /\ b.hw = b.py /\ Fine(a.t, a.py) /\ Fine(b.t, b.py)
  BY <1>2 DEF Right
<1>4. Keeps(a.t, l) /\ Keeps(b.t, l) /\ l \in Kinds
  <2>1. Keeps(a.t, a.t) /\ Keeps(b.t, b.t)
    BY DEF Keeps
  <2>. QED
    BY <1>2, <2>1
<1>5. Coerced(a.t, l, a.hw) = a.py /\ Coerced(b.t, l, b.hw) = b.py
  BY <1>2, <1>3, <1>4, KeptByCoercion
<1>6. hw = Truth(a.py < b.py)
  BY <1>2, <1>3, <1>5 DEF IsLess, Fine
<1>7. Right(o)
  BY <1>6, TruthFine, RightValue
<1>. QED
  BY <1>1, <1>2, <1>7, BindRight

(* a choice,                                                                *)
LEMMA SelectRight ==
    ASSUME NInv, NEW x \in Names, NEW c \in Names, NEW y \in Names, NEW z \in Names,
           Select(x, c, y, z), careful', typed'
    PROVE  Computed'
<1>. DEFINE a == scope[y]
            b == scope[z]
            cond == scope[c]
            bhw == Coerced(b.t, a.t, b.hw)
            py == IF cond.py # 0 THEN a.py ELSE b.py
            hw == CASE cond.hw = Lost -> Lost [] cond.hw = 0 -> bhw [] OTHER -> a.hw
            o == Value(a.t, py, hw)
<1>1. /\ Statement("select", {c, y, z}) /\ Obeys({c, y, z}, cond.t = "bool" /\ Unsigned(a.t, b.t), Keeps(b.t, a.t))
      /\ BindAs(x, o) /\ tensors' = tensors
  BY DEF Select
<1>2. /\ Computed /\ Keeps(b.t, a.t)
      /\ Right(a) /\ a.t \in Kinds /\ Right(b) /\ b.t \in Kinds /\ Right(cond) /\ cond.py \in Int
  BY <1>1, BeforeStatement
<1>3. /\ a.hw = a.py /\ b.hw = b.py /\ Fine(a.t, a.py) /\ Fine(b.t, b.py)
      /\ cond.hw = cond.py /\ cond.py # Lost
  <2>1. /\ a.hw = a.py /\ b.hw = b.py /\ Fine(a.t, a.py) /\ Fine(b.t, b.py)
        /\ cond.hw = cond.py /\ Fine(cond.t, cond.py)
    BY <1>2 DEF Right
  <2>2. cond.py # Lost
    BY <1>2, <2>1 DEF Fine, Lost
  <2>. QED
    BY <2>1, <2>2
<1>4. bhw = b.py /\ Fine(a.t, b.py)
  BY <1>2, <1>3, KeptByCoercion
<1>5. hw = py /\ Fine(a.t, py)
  BY <1>3, <1>4
<1>6. Right(o)
  BY <1>5, RightValue
<1>. QED
  BY <1>1, <1>2, <1>6, BindRight

(* a negation, of a float,                                                  *)
LEMMA NegateRight ==
    ASSUME NInv, NEW x \in Names, NEW y \in Names, Negate(x, y), careful', typed'
    PROVE  Computed'
<1>. DEFINE a == scope[y]
            o == Value(a.t, -a.py, IF a.hw = Lost THEN Lost ELSE -a.hw)
<1>1. Statement("negate", {y}) /\ Obeys({y}, \E f \in Floats : a.t = f, TRUE) /\ BindAs(x, o) /\ tensors' = tensors
  BY DEF Negate
<1>2. Computed /\ Right(a) /\ (\E f \in Floats : a.t = f) /\ a.py \in Int
  BY <1>1, BeforeStatement
<1>3. a.hw = a.py /\ a.hw # Lost /\ Fine(a.t, -a.py)
  BY <1>2 DEF Right, Fine, Floats, Lost
<1>4. Right(o)
  BY <1>3, RightValue
<1>. QED
  BY <1>1, <1>2, <1>4, BindRight

(* a number of blocks,                                                      *)
LEMMA CeildivRight ==
    ASSUME NInv, NEW x \in Names, NEW y \in Names, NEW z \in Names, Ceildiv(x, y, z), careful', typed'
    PROVE  Computed'
<1>. DEFINE a == scope[y]
            b == scope[z]
            py == Number(CeilDiv(a.py, b.py))
            o == Value(a.t, py, UnsignedCeilDiv(a.hw, b.hw))
<1>1. /\ Statement("ceildiv", {y, z}) /\ Obeys({y, z}, a.t = b.t /\ a.t \in {"bool", "index"}, a.py >= 0 /\ b.py > 0)
      /\ BindAs(x, o) /\ tensors' = tensors
  BY DEF Ceildiv
<1>2. /\ Computed /\ a.t = b.t /\ a.t \in {"bool", "index"} /\ a.py >= 0 /\ b.py > 0
      /\ Right(a) /\ Right(b) /\ a.py \in Int /\ b.py \in Int
  BY <1>1, BeforeStatement
<1>3. a.hw = a.py /\ b.hw = b.py /\ Fine(a.t, a.py) /\ Fine(b.t, b.py)
  BY <1>2 DEF Right
<1>4. py \in 0 .. a.py /\ Even(py)
  BY <1>2, <1>3, CeilDivSmall DEF Fine
<1>5. UnsignedCeilDiv(a.hw, b.hw) = py
  BY <1>2, <1>3 DEF UnsignedCeilDiv, Fine
<1>6. Fine(a.t, py)
  <2>. HIDE DEF py
  <2>. QED
    BY <1>2, <1>3, <1>4 DEF Fine, Lost
<1>7. Right(o)
  BY <1>5, <1>6, RightValue
<1>. QED
  BY <1>1, <1>2, <1>7, BindRight

(* the beginning of a loop, which gives numbers a type but no other number, *)
LEMMA EnterForRight ==
    ASSUME NInv, NEW x \in Names, NEW y \in Names, EnterFor(x, y), careful', typed'
    PROVE  Computed'
<1>1. /\ Statement("for", {y}) /\ Obeys({y}, scope[y].t = "index", TRUE)
      /\ scope' = [Materialised EXCEPT ![x] = BlockArg("arg")] /\ tensors' = tensors
  BY DEF EnterFor
<1>2. Computed /\ TypeOK
  BY <1>1, BeforeStatement
<1>3. \A n \in Names : Right(Materialised[n])
  BY <1>2, MaterialisedTyped DEF Computed, Right
<1>4. Materialised \in [Names -> Objects]
  BY <1>2, MaterialisedTyped
<1>5. \A n \in Names : Right(scope'[n])
  BY <1>1, <1>3, <1>4, NumbersRight
<1>. QED
  BY <1>1, <1>2, <1>5 DEF Computed

(* a launch with a new target,                                              *)
LEMMA LaunchRight ==
    ASSUME NInv, NEW x \in Names, NEW y \in Names, Launch(x, y), careful', typed'
    PROVE  Computed'
<1>1. /\ Statement("kernel", {y}) /\ scope' = [scope EXCEPT ![x] = Launched(x)] /\ tensors' = tensors
      /\ \E t : Obeys({y}, t, ~IsBound(x))
  BY DEF Launch
<1>2. Computed /\ ~IsBound(x) /\ TypeOK
  BY <1>1, BeforeStatement
<1>3. Launched(x) = BlockArg("target")
  BY <1>2 DEF Launched
<1>4. \A n \in Names : Right(scope'[n])
  BY <1>1, <1>2, <1>3, NumbersRight DEF TypeOK, Computed
<1>. QED
  BY <1>1, <1>2, <1>4 DEF Computed

(* the end of a body, if what it carries keeps its type,                    *)
LEMMA LeaveRight ==
    ASSUME NInv, careful, typed, NEW kind, NEW carried, Leave(kind, carried),
           carried \subseteq Inner.bound \cap Names, kind = "for" \/ carried = {},
           \A n \in carried : scope[n].t = Inner.before[n].t
    PROVE  Computed'
<1>1. Computed /\ TypeOK /\ Scoped
  BY DEF NInv, IInv
<1>2. /\ \A n \in carried : /\ scope'[n].t = scope[n].t
                            /\ scope'[n].py = scope[n].py /\ scope'[n].hw = scope[n].hw
      /\ \A n \in Names \ carried : scope'[n] = Ended(scope[n])
      /\ \A a \in Tensors : tensors'[a] = Ended(tensors[a])
  BY <1>1, LeaveScoped
<1>3. \A n \in Names : /\ scope'[n].t = scope[n].t
                       /\ scope'[n].py = scope[n].py /\ scope'[n].hw = scope[n].hw
  BY <1>1, <1>2, EndedTyped, ScopeTyped
<1>4. \A a \in Tensors : /\ tensors'[a].t = tensors[a].t
                         /\ tensors'[a].py = tensors[a].py /\ tensors'[a].hw = tensors[a].hw
  BY <1>1, <1>2, EndedTyped, ScopeTyped
<1>. QED
  BY <1>1, <1>3, <1>4 DEF Computed, Right, Stored

(* of a loop                                                                *)
LEMMA ExitForRight ==
    ASSUME NInv, ExitFor, careful', typed'
    PROVE  Computed'
<1>1. /\ Leave("for", Carried) /\ \A n \in Carried : scope[n].t = Inner.before[n].t
      /\ careful /\ typed
  BY DEF ExitFor, Obeys, Leave
<1>2. Carried \subseteq Inner.bound \cap Names
  BY DEF Carried
<1>. QED
  BY <1>1, <1>2, LeaveRight

(* or a launch,                                                             *)
LEMMA ExitKernelRight ==
    ASSUME NInv, ExitKernel, careful', typed'
    PROVE  Computed'
<1>1. Leave("kernel", {}) /\ careful /\ typed
  BY DEF ExitKernel, Obeys, Leave
<1>. QED
  BY <1>1, LeaveRight

(* and a tensor that has not been written.                                  *)
LEMMA AllocRight ==
    ASSUME NInv, NEW a \in Tensors, NEW x \in Names, Alloc(a, x), careful', typed'
    PROVE  Computed'
<1>1. PICK t \in Elements, tile \in BOOLEAN :
        tensors' = [tensors EXCEPT ![a] = [at |-> Depth, t |-> t, tile |-> tile, py |-> 0, hw |-> Lost]]
  BY DEF Alloc
<1>2. Statement("alloc", {x}) /\ Obeys({}, Static(x), TRUE) /\ scope' = scope
  BY DEF Alloc
<1>3. Computed /\ TypeOK
  BY <1>2, BeforeStatement
<1>4. Fine(t, 0)
  BY TruthFine DEF Fine
<1>5. \A c \in Tensors : Stored(tensors'[c])
  BY <1>1, <1>3, <1>4 DEF TypeOK, Computed, Stored
<1>. QED
  BY <1>2, <1>3, <1>5 DEF Computed

(* Every step keeps it.                                                     *)
LEMMA NextRight == NInv /\ [Next]_vars => NInv'
<1>. SUFFICES ASSUME NInv, [Next]_vars PROVE NInv'
  OBVIOUS
<1>1. IInv'
  BY NextOK DEF NInv
<1>. SUFFICES ASSUME careful', typed' PROVE Computed'
  BY <1>1 DEF NInv
<1>2. CASE UNCHANGED vars
  BY <1>2 DEF NInv, Computed, vars
<1>3. CASE ExitFor \/ ExitKernel
  BY <1>3, ExitForRight, ExitKernelRight
<1>4. CASE Unsupported
  BY <1>4 DEF Unsupported, Obeys
<1>5. ASSUME NEW x \in Names, Expression(x)
      PROVE  Computed'
  <2>1. ASSUME NEW y \in Names, NEW z \in Names, Equal(x, y, z) PROVE FALSE
    BY <2>1 DEF Equal, Obeys
  <2>. QED
    BY <1>5, <2>1, AssignRight, LoadRight, BinaryRight, CompareRight, CeildivRight, SelectRight, NegateRight,
       EnterForRight, LaunchRight DEF Expression
<1>6. ASSUME NEW x \in Names, Test(x)
      PROVE  Computed'
  <2>1. Statement("test", {x}) /\ Obeys({x}, scope[x].t = "bool", TRUE) /\ scope' = scope /\ tensors' = tensors
    BY <1>6 DEF Test
  <2>2. Computed
    BY <2>1, BeforeStatement
  <2>. QED
    BY <2>1, <2>2 DEF Computed
<1>7. ASSUME NEW x \in Names, NEW a \in Tensors, Alloc(a, x) \/ \E i \in Names : Store(a, i, x)
      PROVE  Computed'
  BY <1>7, AllocRight, StoreRight
<1>. QED
  BY <1>2, <1>3, <1>4, <1>5, <1>6, <1>7 DEF Next

(* The initial states.                                                      *)
LEMMA InitRight == Init => NInv
<1>. SUFFICES ASSUME Init PROVE NInv
  OBVIOUS
<1>1. Even(2)
  <2>1. 2 = 2 * 1
    OBVIOUS
  <2>. QED
    BY <2>1 DEF Even
<1>2. \A t : Fine(t, 2)
  BY <1>1 DEF Fine, Lost
<1>3. \A x \in Names : Right(scope[x])
  BY NumbersRight DEF Init
<1>4. ASSUME NEW a \in Tensors PROVE Stored(tensors[a])
  <2>1. PICK t \in Elements : tensors[a] = [at |-> 0, t |-> t, tile |-> FALSE, py |-> 2, hw |-> 2]
    BY DEF Init
  <2>. QED
    BY <1>2, <2>1 DEF Stored
<1>. QED
  BY <1>3, <1>4, InitOK DEF NInv, Computed

(* An accepted kernel that keeps the rules of numbers computes what Python  *)
(* computes: the emitter's tables, its coercions and the result types of    *)
(* the builder are right together, through loops that carry a value,        *)
(* through launches with a target that is a new name, and through memory.   *)
THEOREM CarefulKernelsAreExact == Spec => []Exact
<1>1. NInv => Exact
  BY DEF NInv, IInv, Accepted, Computed, Right, Stored, Exact
<1>. QED
  BY InitRight, NextRight, <1>1, PTL DEF Spec
=============================================================================
