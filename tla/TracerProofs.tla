---------------------------- MODULE TracerProofs ----------------------------
(***************************************************************************)
(* The types of the tracer (TypeOK) and the structure of the IR a trace     *)
(* leaves, for every menu of statements and every bound: each id names one  *)
(* thing (DefinedOnce), loops yield what they return (LoopsYield), and      *)
(* regions form a tree (RegionTree). First what the operators of TraceIR    *)
(* return, for every IR.                                                    *)
(***************************************************************************)
EXTENDS TracerProperties, TLAPS, FiniteSetTheorems, SequenceTheorems

(***************************************************************************)
(* Sequences given as functions, and the k-th element of a finite set.      *)
(***************************************************************************)
(* A function on 1..n is a sequence of length n.                            *)
LEMMA FunctionIsSeq ==
    ASSUME NEW S, NEW n \in Nat, NEW f \in [1..n -> S]
    PROVE  f \in Seq(S) /\ Len(f) = n /\ DOMAIN f = 1..n
BY SeqDef, LenProperties

(* The two parts of a concatenation.                                        *)
LEMMA ConcatParts ==
    ASSUME NEW S, NEW s \in Seq(S), NEW t \in Seq(S)
    PROVE  /\ s \o t \in Seq(S) /\ Len(s \o t) = Len(s) + Len(t)
           /\ Len(s) \in Nat /\ Len(t) \in Nat
           /\ DOMAIN s = 1..Len(s) /\ DOMAIN t = 1..Len(t)
           /\ DOMAIN (s \o t) = 1..(Len(s) + Len(t))
           /\ \A j \in 1..Len(s) : (s \o t)[j] = s[j]
           /\ \A j \in 1..Len(t) : (s \o t)[Len(s) + j] = t[j]
<1>1. /\ Len(s) \in Nat /\ Len(t) \in Nat
      /\ DOMAIN s = 1..Len(s) /\ DOMAIN t = 1..Len(t)
  BY LenProperties
<1>2. s \o t \in Seq(S) /\ Len(s \o t) = Len(s) + Len(t)
  BY ConcatProperties
<1>3. DOMAIN (s \o t) = 1..(Len(s) + Len(t))
  BY <1>2, LenProperties
<1>4. /\ \A j \in 1..Len(s) : (s \o t)[j] = s[j]
      /\ \A j \in 1..Len(t) : (s \o t)[Len(s) + j] = t[j]
  BY <1>1
<1> QED
  BY <1>1, <1>2, <1>3, <1>4

(* A sequence without its last element.                                     *)
LEMMA FrontType ==
    ASSUME NEW S, NEW s \in Seq(S), s # <<>>
    PROVE  /\ SubSeq(s, 1, Len(s) - 1) \in Seq(S)
           /\ Len(SubSeq(s, 1, Len(s) - 1)) = Len(s) - 1
           /\ \A j \in 1..(Len(s) - 1) : SubSeq(s, 1, Len(s) - 1)[j] = s[j]
<1>1. Len(s) \in Nat \ {0} /\ \A i \in 1..Len(s) : s[i] \in S
  BY EmptySeq, ElementOfSeq
<1>2. /\ SubSeq(s, 1, Len(s) - 1) \in Seq(S)
      /\ Len(SubSeq(s, 1, Len(s) - 1)) = Len(s) - 1
  BY <1>1, SubSeqProperties
<1>3. \A j \in 1..(Len(s) - 1) : SubSeq(s, 1, Len(s) - 1)[j] = s[j]
  BY <1>1
<1> QED
  BY <1>2, <1>3

(* The rank of an element of a finite set of integers is one of 1..|C|, and *)
(* two elements have different ranks.                                       *)
LEMMA RankType ==
    ASSUME NEW C \in SUBSET Int, IsFiniteSet(C), NEW j \in C
    PROVE  Rank(C, j) \in 1..Cardinality(C)
<1> DEFINE below == {i \in C : i <= j}
<1>1. IsFiniteSet(below) /\ Cardinality(below) <= Cardinality(C)
  BY FS_Subset
<1>2. below # {}
  BY j \in below
<1>3. Cardinality(below) \in Nat /\ Cardinality(C) \in Nat /\ Cardinality(below) # 0
  BY <1>1, <1>2, FS_CardinalityType, FS_EmptySet
<1> QED
  BY <1>1, <1>3 DEF Rank

(* Ranks tell the elements of a set apart.                                  *)
LEMMA RankGrows ==
    ASSUME NEW C \in SUBSET Int, IsFiniteSet(C), NEW i \in C, NEW j \in C, i < j
    PROVE  Rank(C, i) < Rank(C, j)
<1> DEFINE small == {l \in C : l <= i}
           large == {l \in C : l <= j}
<1>1. IsFiniteSet(large) /\ small \in SUBSET large /\ small # large
  <2>1. j \in large /\ j \notin small
    OBVIOUS
  <2>2. \A l \in small : l <= j
    OBVIOUS
  <2> QED
    BY <2>1, <2>2, FS_Subset
<1>2. /\ IsFiniteSet(small) /\ Cardinality(small) <= Cardinality(large)
      /\ Cardinality(small) # Cardinality(large)
  BY <1>1, FS_Subset
<1>3. Cardinality(small) \in Nat /\ Cardinality(large) \in Nat
  BY <1>1, <1>2, FS_CardinalityType
<1> QED
  BY <1>2, <1>3 DEF Rank

(* So every k in 1..|C| is the rank of an element: otherwise the ranks      *)
(* would send C one-to-one into a smaller set.                              *)
LEMMA NthType ==
    ASSUME NEW C \in SUBSET Int, IsFiniteSet(C), NEW k \in 1..Cardinality(C)
    PROVE  Nth(C, k) \in C /\ Rank(C, Nth(C, k)) = k
<1>1. SUFFICES ASSUME \A j \in C : Rank(C, j) # k PROVE FALSE
  BY DEF Nth
<1> DEFINE n == Cardinality(C)
           T == (1..n) \ {k}
           f == [j \in C |-> Rank(C, j)]
<1>2. n \in Nat
  BY FS_CardinalityType
<1>3. IsFiniteSet(1..n) /\ Cardinality(1..n) = n
  BY <1>2, FS_Interval
<1>4. IsFiniteSet(T) /\ Cardinality(T) < Cardinality(C)
  <2>1. IsFiniteSet(T) /\ Cardinality(T) = Cardinality(1..n) - 1
    BY <1>3, FS_RemoveElement, Zenon
  <2> QED
    BY <1>2, <1>3, <2>1
<1>5. f \in [C -> T]
  BY <1>1, RankType
<1>6. \E x, y \in C : x # y /\ f[x] = f[y]
  <2> HIDE DEF f, T, n
  <2> QED
    BY <1>4, <1>5, FS_PigeonHole
<1>7. PICK x \in C, y \in C : x # y /\ Rank(C, x) = Rank(C, y)
  BY <1>6
<1>8. x < y \/ y < x
  BY <1>7
<1>9. Rank(C, x) \in Int /\ Rank(C, y) \in Int
  BY RankType
<1> QED
  BY <1>7, <1>8, <1>9, RankGrows

(* A sequence filtered by position keeps the type of its elements.          *)
LEMMA PickType ==
    ASSUME NEW S, NEW s \in Seq(S), NEW C \in SUBSET DOMAIN s
    PROVE  /\ Pick(s, C) \in Seq(S)
           /\ Len(Pick(s, C)) = Cardinality(C)
           /\ DOMAIN Pick(s, C) = 1..Cardinality(C)
           /\ Cardinality(C) \in Nat
           /\ \A k \in 1..Cardinality(C) : Nth(C, k) \in C /\ Pick(s, C)[k] = s[Nth(C, k)]
<1>1. DOMAIN s = 1..Len(s) /\ Len(s) \in Nat /\ \A j \in 1..Len(s) : s[j] \in S
  BY LenProperties, ElementOfSeq
<1>2. IsFiniteSet(C) /\ C \in SUBSET Int
  <2>1. IsFiniteSet(1..Len(s)) /\ C \in SUBSET (1..Len(s))
    BY <1>1, FS_Interval
  <2> QED
    BY <2>1, FS_Subset
<1>3. Cardinality(C) \in Nat
  BY <1>2, FS_CardinalityType
<1>4. \A k \in 1..Cardinality(C) : Nth(C, k) \in C
  BY <1>2, NthType
<1>5. Pick(s, C) \in [1..Cardinality(C) -> S]
  BY <1>1, <1>4 DEF Pick
<1> QED
  BY <1>3, <1>4, <1>5, FunctionIsSeq DEF Pick

(***************************************************************************)
(* The types of what the operators return. An emitting operator leaves the  *)
(* region stack and the block arguments alone.                              *)
(***************************************************************************)
Emitted(r) == {e \in IRs : e.stack = r.stack /\ e.args = r.args}

(* What is not a Python number has a value id.                              *)
LEMMA ObjsType ==
    ASSUME NEW o \in Objs
    PROVE  /\ o.n \in Int
           /\ ~IsNum(o) => o.n \in Ids
BY DEF Objs, Ids, IsNum, Unbound

(* A Value is an object.                                                    *)
LEMMA ValType ==
    ASSUME NEW v \in Ids
    PROVE  Val(v) \in Objs /\ Val(v).n = v /\ IsVal(Val(v))
BY DEF Val, Objs, IsVal

(* IRBuilder.current_block: the region on top of the stack.                 *)
LEMMA BlockType ==
    ASSUME NEW r \in IRs, r.stack # <<>>
    PROVE  Block(r) \in Blocks
<1>1. r.stack \in Seq(Blocks)
  BY DEF IRs
<1>2. Len(r.stack) \in Nat \ {0}
  BY <1>1, EmptySeq
<1> QED
  BY <1>1, <1>2, ElementOfSeq DEF Block

(* A raise only records its reason.                                         *)
LEMMA RaiseType ==
    ASSUME NEW r \in IRs, NEW why \in {"afterTerminator", "parallelCarry"}
    PROVE  Raise(r, why) \in Emitted(r) /\ Raise(r, why).err # "none"
BY DEF Raise, IRs, Emitted

(* So does a refusal, which has taken values.                               *)
LEMMA RefuseType ==
    ASSUME NEW r \in IRs, NEW n \in Nat
    PROVE  /\ Refuse(r, n) \in Emitted(r) /\ Refuse(r, n).err # "none"
           /\ Refuse(r, n).ops = r.ops /\ Refuse(r, n).next = r.next + n
<1>1. r.next + n \in Ids \ {0}
  BY DEF IRs, Ids
<1> QED
  BY <1>1 DEF Refuse, Raise, IRs, Emitted

(* A new region adds a block, and the stack is as it was.                   *)
LEMMA NewRegionType ==
    ASSUME NEW r \in IRs
    PROVE  /\ NewRegion(r) \in IRs
           /\ NewRegion(r).stack = r.stack
           /\ NewRegion(r).err = r.err
           /\ Len(NewRegion(r).args) = Len(r.args) + 1
           /\ LastRegion(NewRegion(r)) \in Blocks
<1> DEFINE args == Append(r.args, <<>>)
<1>1. r.args \in Seq(Seq(Ids)) /\ <<>> \in Seq(Ids)
  BY EmptySeq DEF IRs
<1>2. args \in Seq(Seq(Ids)) /\ Len(args) = Len(r.args) + 1 /\ Len(r.args) \in Nat
  BY <1>1, AppendProperties, LenProperties
<1>3. NewRegion(r) = [r EXCEPT !.args = args]
  BY DEF NewRegion
<1> HIDE DEF args
<1>4. NewRegion(r) \in IRs
  BY <1>2, <1>3 DEF IRs
<1>5. NewRegion(r).args = args /\ NewRegion(r).stack = r.stack /\ NewRegion(r).err = r.err
  BY <1>3 DEF IRs
<1> QED
  BY <1>2, <1>4, <1>5 DEF LastRegion, Blocks

(* IRBuilder.region pushes one region ...                                   *)
LEMMA PushRegionType ==
    ASSUME NEW r \in IRs, NEW b \in Blocks
    PROVE  /\ PushRegion(r, b) \in IRs
           /\ PushRegion(r, b).args = r.args
           /\ PushRegion(r, b).err = r.err
           /\ Len(PushRegion(r, b).stack) = Len(r.stack) + 1
           /\ PushRegion(r, b).stack # <<>>
<1> DEFINE stack == Append(r.stack, b)
<1>1. r.stack \in Seq(Blocks)
  BY DEF IRs
<1>2. stack \in Seq(Blocks) /\ Len(stack) = Len(r.stack) + 1 /\ stack # <<>>
  BY <1>1, AppendProperties
<1>3. PushRegion(r, b) = [r EXCEPT !.stack = stack]
  BY DEF PushRegion
<1> HIDE DEF stack
<1> QED
  BY <1>2, <1>3 DEF IRs

(* ... and pops one.                                                        *)
LEMMA PopRegionType ==
    ASSUME NEW r \in IRs, r.stack # <<>>
    PROVE  /\ PopRegion(r) \in IRs
           /\ PopRegion(r).args = r.args
           /\ PopRegion(r).err = r.err
           /\ PopRegion(r).ops = r.ops
           /\ PopRegion(r).next = r.next
           /\ Len(PopRegion(r).stack) = Len(r.stack) - 1
<1>1. r.stack \in Seq(Blocks)
  BY DEF IRs
<1>2. /\ SubSeq(r.stack, 1, Len(r.stack) - 1) \in Seq(Blocks)
      /\ Len(SubSeq(r.stack, 1, Len(r.stack) - 1)) = Len(r.stack) - 1
  BY <1>1, FrontType
<1> QED
  BY <1>2 DEF PopRegion, IRs

(* New ids are ids.                                                         *)
LEMMA FreshType ==
    ASSUME NEW r \in IRs, NEW n \in Nat
    PROVE  /\ Fresh(r, n) \in Seq(Ids) /\ Len(Fresh(r, n)) = n /\ DOMAIN Fresh(r, n) = 1..n
           /\ \A j \in 1..n : Fresh(r, n)[j] = r.next + j - 1
<1>1. Fresh(r, n) \in [1..n -> Ids]
  BY DEF Fresh, IRs, Ids
<1>2. \A j \in 1..n : Fresh(r, n)[j] = r.next + j - 1
  BY DEF Fresh
<1> QED
  BY <1>1, <1>2, FunctionIsSeq

(* New block arguments add no block and no operation.                       *)
LEMMA NewArgsType ==
    ASSUME NEW r \in IRs, NEW b, NEW n \in Nat
    PROVE  /\ NewArgs(r, b, n) \in IRs
           /\ NewArgs(r, b, n).stack = r.stack
           /\ NewArgs(r, b, n).err = r.err
           /\ NewArgs(r, b, n).ops = r.ops
           /\ NewArgs(r, b, n).next = r.next + n
           /\ Len(NewArgs(r, b, n).args) = Len(r.args)
<1> DEFINE args == [r.args EXCEPT ![b] = @ \o Fresh(r, n)]
<1>1. r.args \in Seq(Seq(Ids)) /\ DOMAIN r.args = 1..Len(r.args) /\ Len(r.args) \in Nat
  BY LenProperties DEF IRs
<1>2. \A c \in 1..Len(r.args) : r.args[c] \in Seq(Ids)
  BY <1>1, ElementOfSeq
<1>3. \A c \in 1..Len(r.args) : r.args[c] \o Fresh(r, n) \in Seq(Ids)
  BY <1>2, FreshType, ConcatProperties
<1>4. args \in [1..Len(r.args) -> Seq(Ids)]
  BY <1>1, <1>2, <1>3
<1>5. args \in Seq(Seq(Ids)) /\ Len(args) = Len(r.args)
  BY <1>1, <1>4, FunctionIsSeq
<1>6. r.next + n \in Ids \ {0}
  BY DEF IRs, Ids
<1> QED
  BY <1>5, <1>6 DEF NewArgs, IRs

(* append_op takes the ids of the results.                                  *)
LEMMA AppendOpType ==
    ASSUME NEW r \in IRs, NEW b \in Blocks, NEW name \in OpNames, NEW operands \in Seq(Ids),
           NEW nres \in Nat, NEW regions \in Seq(Blocks), NEW attr \in Int
    PROVE  LET e == AppendOp(r, b, name, operands, nres, regions, attr)
           IN  /\ e \in Emitted(r)
               /\ e.err = "none" => r.err = "none" /\ e.next = r.next + nres
<1> DEFINE op == [name |-> name, blk |-> b, operands |-> operands, results |-> Fresh(r, nres),
                  regions |-> regions, attr |-> attr]
           ops == Append(r.ops, op)
           e == AppendOp(r, b, name, operands, nres, regions, attr)
<1>1. op \in Operations
  BY FreshType DEF Operations
<1>2. ops \in Seq(Operations)
  <2>1. r.ops \in Seq(Operations)
    BY DEF IRs
  <2> HIDE DEF op
  <2> QED
    BY <1>1, <2>1, AppendProperties
<1>3. r.next + nres \in Ids \ {0}
  BY DEF IRs, Ids
<1>4. CASE r.err # "none"
  BY <1>4 DEF AppendOp, Emitted
<1>5. CASE r.err = "none" /\ Terminated(r, b)
  BY <1>5, RefuseType DEF AppendOp
<1>6. CASE r.err = "none" /\ ~Terminated(r, b)
  <2>1. e = [r EXCEPT !.ops = ops, !.next = r.next + nres]
    BY <1>6 DEF AppendOp
  <2> HIDE DEF ops, e
  <2>2. e \in IRs /\ e.stack = r.stack /\ e.args = r.args /\ e.next = r.next + nres
    BY <1>2, <1>3, <2>1 DEF IRs
  <2> QED
    BY <1>6, <2>2 DEF Emitted, e
<1> QED
  BY <1>4, <1>5, <1>6

(* The numbers among a list of operands.                                    *)
LEMMA NumsType ==
    ASSUME NEW objs \in Seq(Objs)
    PROVE  /\ DOMAIN objs = 1..Len(objs) /\ Len(objs) \in Nat
           /\ \A j \in DOMAIN objs : objs[j] \in Objs
           /\ Nums(objs) \in SUBSET DOMAIN objs
           /\ Nums(objs) \in SUBSET Int /\ IsFiniteSet(Nums(objs))
           /\ Cardinality(Nums(objs)) \in Nat
<1>1. DOMAIN objs = 1..Len(objs) /\ Len(objs) \in Nat /\ \A j \in 1..Len(objs) : objs[j] \in Objs
  BY LenProperties, ElementOfSeq
<1>2. IsFiniteSet(1..Len(objs)) /\ Nums(objs) \in SUBSET (1..Len(objs))
  BY <1>1, FS_Interval DEF Nums
<1>3. IsFiniteSet(Nums(objs)) /\ Nums(objs) \in SUBSET Int
  BY <1>2, FS_Subset
<1> QED
  BY <1>1, <1>2, <1>3, FS_CardinalityType

(* ensure_value gives one id for each operand.                              *)
LEMMA EnsureIdsType ==
    ASSUME NEW r \in IRs, NEW objs \in Seq(Objs)
    PROVE  EnsureIds(r, objs) \in Seq(Ids) /\ Len(EnsureIds(r, objs)) = Len(objs)
<1>1. \A j \in Nums(objs) : Rank(Nums(objs), j) \in Nat
  BY NumsType, RankType
<1>2. r.next \in Nat \ {0}
  BY DEF IRs, Ids
<1>3. \A j \in DOMAIN objs : EnsureIds(r, objs)[j] \in Ids
  <2> TAKE j \in DOMAIN objs
  <2>1. CASE IsNum(objs[j])
    BY <1>1, <1>2, <2>1 DEF EnsureIds, Nums, Ids
  <2>2. CASE ~IsNum(objs[j])
    BY <2>2, NumsType, ObjsType DEF EnsureIds
  <2> QED
    BY <2>1, <2>2
<1>4. EnsureIds(r, objs) \in [1..Len(objs) -> Ids]
  BY <1>3, NumsType DEF EnsureIds
<1> QED
  BY <1>4, NumsType, FunctionIsSeq

(* It appends one const for each number.                                    *)
LEMMA ConstsType ==
    ASSUME NEW r \in IRs, r.stack # <<>>, NEW objs \in Seq(Objs)
    PROVE  Consts(r, objs) \in Seq(Operations) /\ Len(Consts(r, objs)) = Cardinality(Nums(objs))
<1> DEFINE n == Cardinality(Nums(objs))
<1>1. r.next \in Nat \ {0} /\ Block(r) \in Blocks /\ n \in Nat
  BY BlockType, NumsType DEF IRs, Ids
<1>2. ASSUME NEW c \in 1..n PROVE Consts(r, objs)[c] \in Operations
  <2>1. objs[Nth(Nums(objs), c)].n \in Int
    BY NumsType, NthType, ObjsType
  <2>2. <<r.next + c - 1>> \in Seq(Ids) /\ <<>> \in Seq(Ids) /\ <<>> \in Seq(Blocks)
    BY <1>1 DEF Ids
  <2> QED
    BY <1>1, <2>1, <2>2 DEF Consts, Operations, OpNames
<1>3. Consts(r, objs) \in [1..n -> Operations]
  BY <1>2 DEF Consts
<1> QED
  BY <1>1, <1>3, FunctionIsSeq

(* ensure_value on a list of operands.                                      *)
LEMMA EnsureType ==
    ASSUME NEW r \in IRs, r.stack # <<>>, NEW objs \in Seq(Objs)
    PROVE  Ensure(r, objs) \in Emitted(r)
<1> DEFINE ops == r.ops \o Consts(r, objs)
           next == r.next + Cardinality(Nums(objs))
<1>1. ops \in Seq(Operations)
  BY ConstsType, ConcatProperties DEF IRs
<1>2. next \in Ids \ {0}
  BY NumsType DEF IRs, Ids
<1>3. CASE r.err # "none" \/ Nums(objs) = {}
  BY <1>3 DEF Ensure, Emitted
<1>4. CASE ~(r.err # "none" \/ Nums(objs) = {}) /\ Terminated(r, Block(r))
  BY <1>4, RefuseType DEF Ensure
<1>5. CASE ~(r.err # "none" \/ Nums(objs) = {}) /\ ~Terminated(r, Block(r))
  <2>1. Ensure(r, objs) = [r EXCEPT !.ops = ops, !.next = next]
    BY <1>5 DEF Ensure
  <2> HIDE DEF ops, next
  <2> QED
    BY <1>1, <1>2, <2>1 DEF IRs, Emitted
<1> QED
  BY <1>3, <1>4, <1>5

(* ensure_value gives no value back, whether it raises or not.              *)
LEMMA EnsureNext ==
    ASSUME NEW r \in IRs, NEW objs \in Seq(Objs)
    PROVE  Ensure(r, objs).next \in Nat /\ r.next <= Ensure(r, objs).next
<1>1. Ensure(r, objs).next \in {r.next, r.next + 1, r.next + Cardinality(Nums(objs))}
  BY DEF Ensure, Refuse, Raise, IRs
<1>2. Cardinality(Nums(objs)) \in Nat /\ r.next \in Nat
  BY NumsType DEF IRs, Ids
<1> QED
  BY <1>1, <1>2

(* Every emitting method of IRBuilder.                                      *)
LEMMA EmitType ==
    ASSUME NEW r \in IRs, r.stack # <<>>, NEW name \in OpNames, NEW objs \in Seq(Objs),
           NEW nres \in Nat, NEW regions \in Seq(Blocks), NEW attr \in Int
    PROVE  Emit(r, name, objs, nres, regions, attr) \in Emitted(r)
<1>1. Ensure(r, objs) \in Emitted(r) /\ Ensure(r, objs) \in IRs
  BY EnsureType DEF Emitted
<1>2. Emit(r, name, objs, nres, regions, attr) \in Emitted(Ensure(r, objs))
  BY <1>1, BlockType, EnsureIdsType, AppendOpType DEF Emit
<1> QED
  BY <1>1, <1>2 DEF Emitted

(* An emitted value: the IR after it, and the Python object for it.         *)
Emissions(r) == [ir : Emitted(r), o : Objs]

(* IRBuilder.emit_value.                                                    *)
LEMMA EmitValueType ==
    ASSUME NEW r \in IRs, r.stack # <<>>, NEW name \in OpNames, NEW objs \in Seq(Objs)
    PROVE  EmitValue(r, name, objs) \in Emissions(r)
<1> DEFINE e == Emit(r, name, objs, 1, <<>>, 0)
<1>1. e \in Emitted(r)
  <2>1. <<>> \in Seq(Blocks) /\ 1 \in Nat /\ 0 \in Int
    BY EmptySeq
  <2> QED
    BY <2>1, EmitType, Zenon
<1>2. LastValue(e) \in Ids
  BY <1>1 DEF Emitted, IRs, Ids, LastValue
<1> QED
  BY <1>1, <1>2, ValType DEF EmitValue, Emissions

(* _replace_region_uses turns an id into an id,                             *)
LEMMA RedirectType ==
    ASSUME NEW olds \in Seq(Ids), NEW news \in Seq(Ids), Len(news) = Len(olds), NEW v \in Ids
    PROVE  /\ Redirect(v, olds, news) \in Ids
           /\ Redirect(v, olds, news) = v \/ \E j \in 1..Len(news) : Redirect(v, olds, news) = news[j]
<1> DEFINE at == {i \in DOMAIN olds : olds[i] = v}
<1>1. DOMAIN olds = 1..Len(olds) /\ Len(olds) \in Nat
  BY LenProperties
<1>2. IsFiniteSet(at) /\ at \in SUBSET Int
  <2>1. IsFiniteSet(1..Len(olds)) /\ at \in SUBSET (1..Len(olds))
    BY <1>1, FS_Interval
  <2> QED
    BY <2>1, FS_Subset
<1>3. ASSUME at # {} PROVE Nth(at, 1) \in at
  <2> HIDE DEF at
  <2>1. Cardinality(at) \in Nat \ {0}
    BY <1>2, <1>3, FS_EmptySet, FS_CardinalityType
  <2>2. 1 \in 1..Cardinality(at)
    BY <2>1
  <2> QED
    BY <1>2, <2>2, NthType
<1>4. ASSUME at # {} PROVE news[Nth(at, 1)] \in Ids /\ Nth(at, 1) \in 1..Len(news)
  BY <1>1, <1>3, <1>4, ElementOfSeq
<1> QED
  BY <1>4 DEF Redirect

(* an operation into one that differs in operands only,                     *)
LEMMA RewiredType ==
    ASSUME NEW op \in Operations, NEW olds \in Seq(Ids), NEW news \in Seq(Ids),
           Len(news) = Len(olds)
    PROVE  /\ Rewired(op, olds, news) \in Operations
           /\ Rewired(op, olds, news).results = op.results
           /\ DOMAIN Rewired(op, olds, news).operands = DOMAIN op.operands
           /\ \A j \in DOMAIN op.operands :
                Rewired(op, olds, news).operands[j] = Redirect(op.operands[j], olds, news)
<1> DEFINE rewired == [j \in DOMAIN op.operands |-> Redirect(op.operands[j], olds, news)]
<1>1. op.operands \in Seq(Ids)
  BY DEF Operations
<1>2. /\ DOMAIN op.operands = 1..Len(op.operands) /\ Len(op.operands) \in Nat
      /\ \A j \in 1..Len(op.operands) : op.operands[j] \in Ids
  BY <1>1, LenProperties, ElementOfSeq
<1>3. rewired \in [1..Len(op.operands) -> Ids]
  BY <1>2, RedirectType
<1>4. rewired \in Seq(Ids)
  BY <1>2, <1>3, FunctionIsSeq
<1>5. /\ DOMAIN rewired = DOMAIN op.operands
      /\ \A j \in DOMAIN op.operands : rewired[j] = Redirect(op.operands[j], olds, news)
  OBVIOUS
<1>6. Rewired(op, olds, news) = [op EXCEPT !.operands = rewired]
  BY DEF Rewired
<1> HIDE DEF rewired
<1> QED
  BY <1>4, <1>5, <1>6 DEF Operations

(* and leaves the number of operations alone.                               *)
LEMMA ReplaceRegionUsesType ==
    ASSUME NEW r \in IRs, NEW b, NEW olds \in Seq(Ids), NEW news \in Seq(Ids),
           Len(news) = Len(olds)
    PROVE  LET e == ReplaceRegionUses(r, b, olds, news)
           IN  e \in Emitted(r) /\ e.err = r.err /\ e.next = r.next /\ Len(e.ops) = Len(r.ops)
<1> DEFINE new(k) == IF r.ops[k].blk \in Subtree(r, b)
                     THEN Rewired(r.ops[k], olds, news) ELSE r.ops[k]
           ops == [k \in DOMAIN r.ops |-> new(k)]
<1>1. /\ DOMAIN r.ops = 1..Len(r.ops) /\ Len(r.ops) \in Nat
      /\ \A k \in 1..Len(r.ops) : r.ops[k] \in Operations
  BY LenProperties, ElementOfSeq DEF IRs
<1>2. \A k \in 1..Len(r.ops) : new(k) \in Operations
  BY <1>1, RewiredType
<1>3. ops \in Seq(Operations) /\ Len(ops) = Len(r.ops)
  <2>1. ops \in [1..Len(r.ops) -> Operations]
    BY <1>1, <1>2
  <2> QED
    BY <1>1, <2>1, FunctionIsSeq
<1>4. ReplaceRegionUses(r, b, olds, news) = [r EXCEPT !.ops = ops]
  BY DEF ReplaceRegionUses
<1> HIDE DEF ops
<1> QED
  BY <1>3, <1>4 DEF IRs, Emitted

(***************************************************************************)
(* Expressions.                                                             *)
(***************************************************************************)
LEMMA StatementType ==
    ASSUME NEW st \in Menu
    PROVE  /\ WellFormed(st)
           /\ st.dst \in Seq(Names) /\ st.arg \in Seq(Names) /\ st.n \in Int
BY MenuAssumption DEF WellFormed, Statements

(* Builder.rval, on one name and on several.                                *)
LEMMA RvalType ==
    ASSUME scope \in Scopes, locals \in [Names -> Objs], NEW x \in Names
    PROVE  Rval(x) \in Objs
BY DEF Rval, Scopes

(* The same for a sequence of names.                                        *)
LEMMA RvalsType ==
    ASSUME scope \in Scopes, locals \in [Names -> Objs], NEW xs \in Seq(Names)
    PROVE  /\ Rvals(xs) \in Seq(Objs) /\ Len(Rvals(xs)) = Len(xs)
           /\ \A j \in 1..Len(xs) : Rvals(xs)[j] \in Objs
<1>1. DOMAIN xs = 1..Len(xs) /\ Len(xs) \in Nat /\ \A j \in 1..Len(xs) : xs[j] \in Names
  BY LenProperties, ElementOfSeq
<1>2. Rvals(xs) \in [1..Len(xs) -> Objs]
  BY <1>1, RvalType DEF Rvals
<1> QED
  BY <1>1, <1>2, FunctionIsSeq

(* Two and three objects as operands.                                       *)
LEMMA OperandsType ==
    ASSUME NEW a \in Objs, NEW b \in Objs
    PROVE  /\ <<a>> \in Seq(Objs) /\ <<a, b>> \in Seq(Objs)
           /\ \A c \in Objs : <<a, b, c>> \in Seq(Objs)
OBVIOUS

(* The buffer of the prologue is an object.                                 *)
LEMMA BufferType == Buffer \in Objs
BY ValType DEF Buffer, Ids

(* An emission after an emission is an emission of the first IR.            *)
LEMMA EmissionsChain ==
    ASSUME NEW r \in IRs, NEW e \in Emitted(r)
    PROVE  Emissions(e) \subseteq Emissions(r) /\ Emitted(e) \subseteq Emitted(r)
BY DEF Emissions, Emitted

(* What an emission yields can be emitted to again.                         *)
LEMMA EmissionsType ==
    ASSUME NEW r \in IRs, r.stack # <<>>, NEW e \in Emissions(r)
    PROVE  /\ e.ir \in Emitted(r) /\ e.ir \in IRs /\ e.ir.stack = r.stack /\ e.ir.stack # <<>>
           /\ e.o \in Objs
           /\ Emissions(e.ir) \subseteq Emissions(r)
           /\ Emitted(e.ir) \subseteq Emitted(r)
BY EmissionsChain DEF Emissions, Emitted

(* x + y folds two numbers, or appends an add.                              *)
LEMMA AddType ==
    ASSUME NEW r \in IRs, r.stack # <<>>, NEW a \in Objs, NEW b \in Objs
    PROVE  Add(r, a, b) \in Emissions(r)
<1>1. CASE IsNum(a) /\ IsNum(b)
  <2>1. r \in Emitted(r) /\ Num(a.n + b.n) \in Objs
    BY ObjsType DEF Emitted, Objs, Num
  <2> QED
    BY <1>1, <2>1 DEF Add, Pure, Emissions
<1>2. CASE ~(IsNum(a) /\ IsNum(b))
  <2>1. "add" \in OpNames /\ <<a, b>> \in Seq(Objs)
    BY OperandsType DEF OpNames
  <2> QED
    BY <1>2, <2>1, EmitValueType DEF Add
<1> QED
  BY <1>1, <1>2

(* x < y decides two numbers, or appends a comparison.                      *)
LEMMA LessType ==
    ASSUME NEW r \in IRs, r.stack # <<>>, NEW a \in Objs, NEW b \in Objs
    PROVE  Less(r, a, b) \in Emissions(r)
<1>1. CASE IsNum(a) /\ IsNum(b)
  <2>1. r \in Emitted(r) /\ Num(IF a.n < b.n THEN 1 ELSE 0) \in Objs
    BY DEF Emitted, Objs, Num
  <2> QED
    BY <1>1, <2>1 DEF Less, Pure, Emissions
<1>2. CASE ~(IsNum(a) /\ IsNum(b))
  <2>1. /\ "gt" \in OpNames /\ "lt" \in OpNames
        /\ <<a, b>> \in Seq(Objs) /\ <<b, a>> \in Seq(Objs)
    BY OperandsType DEF OpNames
  <2>2. /\ EmitValue(r, "gt", <<b, a>>) \in Emissions(r)
        /\ EmitValue(r, "lt", <<a, b>>) \in Emissions(r)
    BY <2>1, EmitValueType
  <2> QED
    BY <1>2, <2>2 DEF Less
<1> QED
  BY <1>1, <1>2

(* B[x] appends a load.                                                     *)
LEMMA LoadType ==
    ASSUME NEW r \in IRs, r.stack # <<>>, NEW a \in Objs
    PROVE  Load(r, a) \in Emissions(r)
<1>1. "load" \in OpNames /\ <<Buffer, a>> \in Seq(Objs)
  BY OperandsType, BufferType DEF OpNames
<1> QED
  BY <1>1, EmitValueType DEF Load

(* Conditions append comparisons, loads and an and.                         *)
LEMMA ConditionType ==
    ASSUME NEW r \in IRs, r.stack # <<>>, NEW a \in Objs, NEW b \in Objs, NEW c \in Conditions
    PROVE  Condition(r, c, a, b) \in Emissions(r)
<1> DEFINE lt == Less(r, a, b)
           ld == Load(IF c = "and" THEN lt.ir ELSE r, a)
           right == Less(ld.ir, ld.o, b)
           both == EmitValue(right.ir, "and", <<lt.o, right.o>>)
<1>1. lt \in Emissions(r)
  BY LessType
<1> HIDE DEF lt
<1>2. ld \in Emissions(r)
  <2>1. CASE c = "and"
    BY <1>1, <2>1, EmissionsType, LoadType
  <2>2. CASE c # "and"
    BY <2>2, LoadType
  <2> QED
    BY <2>1, <2>2
<1> HIDE DEF ld
<1>3. right \in Emissions(r)
  BY <1>2, EmissionsType, LessType
<1> HIDE DEF right
<1>4. both \in Emissions(r)
  <2>1. "and" \in OpNames /\ <<lt.o, right.o>> \in Seq(Objs)
    BY <1>1, <1>3, EmissionsType, OperandsType DEF OpNames
  <2>2. both \in Emissions(right.ir)
    <3>1. right.ir \in IRs /\ right.ir.stack # <<>>
      BY <1>3, EmissionsType
    <3> QED
      BY <2>1, <3>1, EmitValueType, Zenon
  <2> QED
    BY <1>3, <2>2, EmissionsType
<1> QED
  BY <1>1, <1>3, <1>4 DEF Condition, Conditions, lt, ld, right

(* A conditional expression appends a select.                               *)
LEMMA IfExpType ==
    ASSUME NEW r \in IRs, r.stack # <<>>, NEW a \in Objs, NEW b \in Objs
    PROVE  IfExp(r, a, b) \in Emissions(r)
<1> DEFINE lt == Less(r, a, b)
           ld == Load(lt.ir, a)
<1>1. lt \in Emissions(r)
  BY LessType
<1> HIDE DEF lt
<1>2. ld \in Emissions(r)
  BY <1>1, EmissionsType, LoadType
<1> HIDE DEF ld
<1>3. EmitValue(ld.ir, "select", <<lt.o, ld.o, b>>) \in Emissions(r)
  <2>1. "select" \in OpNames /\ <<lt.o, ld.o, b>> \in Seq(Objs)
    BY <1>1, <1>2, EmissionsType, OperandsType DEF OpNames
  <2>2. EmitValue(ld.ir, "select", <<lt.o, ld.o, b>>) \in Emissions(ld.ir)
    <3>1. ld.ir \in IRs /\ ld.ir.stack # <<>>
      BY <1>2, EmissionsType
    <3> QED
      BY <2>1, <3>1, EmitValueType, Zenon
  <2> QED
    BY <1>2, <2>2, EmissionsType
<1> QED
  BY <1>3 DEF IfExp, lt, ld

(* The right-hand side of an assignment to a name.                          *)
LEMMA ValueType ==
    ASSUME TypeOK, ir.stack # <<>>, NEW st \in Menu,
           st.s \in {"num", "name", "add", "load", "ifexp"}
    PROVE  Value(st) \in Emissions(ir)
<1> DEFINE o == Rvals(st.arg)
<1>1. /\ o \in Seq(Objs) /\ Len(o) = Len(st.arg) /\ \A j \in 1..Len(st.arg) : o[j] \in Objs
      /\ st.n \in Int /\ ir \in IRs
  BY StatementType, RvalsType DEF TypeOK
<1>2. CASE st.s = "num"
  <2>1. Num(st.n) \in Objs /\ ir \in Emitted(ir)
    BY <1>1 DEF Num, Objs, Emitted
  <2> QED
    BY <1>2, <2>1 DEF Value, Pure, Emissions
<1>3. CASE st.s = "name"
  <2>1. Len(st.arg) = 1
    BY <1>3, StatementType DEF WellFormed, Shape
  <2>2. o[1] \in Objs /\ ir \in Emitted(ir)
    BY <1>1, <2>1 DEF Emitted
  <2> QED
    BY <1>3, <2>2 DEF Value, Pure, Emissions
<1>4. CASE st.s = "add"
  <2>1. Len(st.arg) = 2
    BY <1>4, StatementType DEF WellFormed, Shape
  <2>2. o[1] \in Objs /\ o[2] \in Objs
    BY <1>1, <2>1
  <2> QED
    BY <1>1, <1>4, <2>2, AddType DEF Value
<1>5. CASE st.s = "load"
  <2>1. Len(st.arg) = 1
    BY <1>5, StatementType DEF WellFormed, Shape
  <2>2. o[1] \in Objs
    BY <1>1, <2>1
  <2> QED
    BY <1>1, <1>5, <2>2, LoadType DEF Value
<1>6. CASE st.s = "ifexp"
  <2>1. Len(st.arg) = 2
    BY <1>6, StatementType DEF WellFormed, Shape
  <2>2. o[1] \in Objs /\ o[2] \in Objs
    BY <1>1, <2>1
  <2> QED
    BY <1>1, <1>6, <2>2, IfExpType DEF Value
<1> QED
  BY <1>2, <1>3, <1>4, <1>5, <1>6

(***************************************************************************)
(* Scopes, frames and the source.                                           *)
(***************************************************************************)
LEMMA BindType ==
    ASSUME NEW sc \in Scopes, NEW x \in Names, NEW o \in Objs
    PROVE  Bind(sc, x, o) \in Scopes
<1>1. sc.order \in Seq(Names) /\ sc.at \in [Names -> Objs]
  BY DEF Scopes
<1>2. Append(sc.order, x) \in Seq(Names)
  BY <1>1, AppendProperties
<1>3. [sc.at EXCEPT ![x] = o] \in [Names -> Objs]
  BY <1>1
<1> QED
  BY <1>1, <1>2, <1>3 DEF Bind, Scopes

(* Several bindings at once.                                                *)
LEMMA BindAllType ==
    ASSUME NEW sc \in Scopes, NEW xs \in Seq(Names), NEW objs,
           \A j \in DOMAIN xs : objs[j] \in Objs
    PROVE  BindAll(sc, xs, objs) \in Scopes
<1> DEFINE C == {j \in DOMAIN xs : sc.at[xs[j]] = Unbound}
           at == [x \in Names |-> IF \E j \in DOMAIN xs : xs[j] = x
                                  THEN objs[CHOOSE j \in DOMAIN xs : xs[j] = x]
                                  ELSE sc.at[x]]
<1>1. sc.order \in Seq(Names) /\ sc.at \in [Names -> Objs]
  BY DEF Scopes
<1>2. sc.order \o Pick(xs, C) \in Seq(Names)
  <2>1. Pick(xs, C) \in Seq(Names)
    BY PickType
  <2> QED
    BY <1>1, <2>1, ConcatProperties
<1>3. at \in [Names -> Objs]
  <2>1. ASSUME NEW x \in Names PROVE at[x] \in Objs
    <3>1. CASE \E j \in DOMAIN xs : xs[j] = x
      <4>1. (CHOOSE j \in DOMAIN xs : xs[j] = x) \in DOMAIN xs
        BY <3>1
      <4> QED
        BY <3>1, <4>1
    <3>2. CASE ~\E j \in DOMAIN xs : xs[j] = x
      BY <1>1, <3>2
    <3> QED
      BY <3>1, <3>2
  <2> QED
    BY <2>1
<1> QED
  BY <1>2, <1>3 DEF BindAll, Scopes

(* The objects a scope binds.                                               *)
LEMMA ObjectsType ==
    ASSUME NEW sc \in Scopes
    PROVE  Objects(sc) \in Seq(Objs) /\ Len(Objects(sc)) = Len(sc.order)
<1>1. sc.order \in Seq(Names) /\ sc.at \in [Names -> Objs]
  BY DEF Scopes
<1>2. /\ DOMAIN sc.order = 1..Len(sc.order) /\ Len(sc.order) \in Nat
      /\ \A j \in 1..Len(sc.order) : sc.order[j] \in Names
  BY <1>1, LenProperties, ElementOfSeq
<1>3. Objects(sc) \in [1..Len(sc.order) -> Objs]
  BY <1>1, <1>2 DEF Objects
<1> QED
  BY <1>2, <1>3, FunctionIsSeq

(* A scope whose numbers became consts.                                     *)
LEMMA MaterialisedType ==
    ASSUME NEW sc \in Scopes, NEW r \in IRs
    PROVE  Materialised(sc, r) \in Scopes
<1> DEFINE ids == EnsureIds(r, Objects(sc))
           vals == [j \in DOMAIN sc.order |-> Val(ids[j])]
<1>1. ids \in Seq(Ids) /\ Len(ids) = Len(sc.order)
  BY ObjectsType, EnsureIdsType
<1>2. sc.order \in Seq(Names) /\ DOMAIN sc.order = 1..Len(sc.order)
  BY LenProperties DEF Scopes
<1>3. \A j \in DOMAIN sc.order : ids[j] \in Ids
  BY <1>1, <1>2, ElementOfSeq
<1>4. \A j \in DOMAIN sc.order : vals[j] \in Objs
  BY <1>3, ValType
<1> HIDE DEF vals
<1>5. BindAll(sc, sc.order, vals) \in Scopes
  BY <1>2, <1>4, BindAllType
<1> QED
  BY <1>5 DEF Materialised, vals

(* The frame of a suspended ctx_* generator.                                *)
LEMMA FrameType ==
    ASSUME NEW st \in Menu, NEW body \in Blocks, NEW other \in Nat, NEW objs \in Seq(Objs),
           NEW before \in Scopes, st.s \in {"if", "while"} => other # 0
    PROVE  Frame(st, body, other, objs, before) \in Frames
BY DEF Frame, Frames

(* The innermost frame, and the frames around it.                           *)
LEMMA TopType ==
    ASSUME TypeOK, frames # <<>>
    PROVE  /\ Len(frames) \in Nat \ {0} /\ Top \in Frames
           /\ Up \in Seq(Frames) /\ Len(Up) = Len(frames) - 1
<1>1. frames \in Seq(Frames)
  BY DEF TypeOK
<1>2. Len(frames) \in Nat \ {0} /\ \A i \in 1..Len(frames) : frames[i] \in Frames
  BY <1>1, EmptySeq, ElementOfSeq
<1>3. Up \in Seq(Frames) /\ Len(Up) = Len(frames) - 1
  BY <1>1, FrontType DEF Up
<1> QED
  BY <1>2, <1>3 DEF Top

(* Writing a statement down adds no block.                                  *)
LEMMA WroteType ==
    ASSUME TypeOK, NEW st \in Menu, NEW body \in Nat, NEW other \in Nat
    PROVE  Wrote(st, body, other) \in Sources /\ Len(Wrote(st, body, other)) = Len(src)
<1> DEFINE Entry == [st : Menu, body : Nat, other : Nat]
           entry == [st |-> st, body |-> body, other |-> other]
<1>1. src \in Seq(Seq(Entry)) /\ entry \in Entry
  BY DEF TypeOK, Sources
<1> HIDE DEF Entry, entry
<1>2. /\ DOMAIN src = 1..Len(src) /\ Len(src) \in Nat
      /\ \A b \in 1..Len(src) : src[b] \in Seq(Entry) /\ Append(src[b], entry) \in Seq(Entry)
  BY <1>1, LenProperties, ElementOfSeq, AppendProperties
<1>3. [src EXCEPT ![Block(ir)] = Append(@, entry)] \in [1..Len(src) -> Seq(Entry)]
  BY <1>2
<1>4. Wrote(st, body, other) = [src EXCEPT ![Block(ir)] = Append(@, entry)]
  BY DEF Wrote, entry
<1>5. Wrote(st, body, other) \in Seq(Seq(Entry)) /\ Len(Wrote(st, body, other)) = Len(src)
  BY <1>2, <1>3, <1>4, FunctionIsSeq
<1> QED
  BY <1>5 DEF Sources, Entry

(* The empty blocks that entering a compound statement adds.                *)
LEMMA NewBlocksType ==
    ASSUME NEW s \in Sources
    PROVE  /\ Append(s, <<>>) \in Sources /\ Len(Append(s, <<>>)) = Len(s) + 1
           /\ s \o <<<<>>, <<>>>> \in Sources /\ Len(s \o <<<<>>, <<>>>>) = Len(s) + 2
<1> DEFINE Entry == [st : Menu, body : Nat, other : Nat]
<1>1. s \in Seq(Seq(Entry)) /\ <<>> \in Seq(Entry)
  BY EmptySeq DEF Sources
<1> HIDE DEF Entry
<1>2. <<<<>>, <<>>>> \in Seq(Seq(Entry)) /\ Len(<<<<>>, <<>>>>) = 2
  BY <1>1
<1> QED
  BY <1>1, <1>2, AppendProperties, ConcatProperties DEF Sources, Entry

(* The bounds of a loop are objects.                                        *)
LEMMA DimsType ==
    ASSUME TypeOK, NEW st \in Menu, st.s \in LoopKinds
    PROVE  Dims(st) \in Seq(Objs)
<1> DEFINE o == Rvals(st.arg)
           n == Len(o)
           zeros == [j \in 1..n |-> Num(0)]
           ones == [j \in 1..n |-> Num(1)]
<1>1. /\ o \in Seq(Objs) /\ n = Len(st.arg) /\ n \in Nat
      /\ \A j \in 1..n : o[j] \in Objs
  BY StatementType, RvalsType, LenProperties DEF TypeOK
<1>2. Num(0) \in Objs /\ Num(1) \in Objs
  BY DEF Num, Objs
<1>3. CASE st.s = "parallel"
  <2>1. zeros \in Seq(Objs) /\ ones \in Seq(Objs)
    <3>1. zeros \in [1..n -> Objs] /\ ones \in [1..n -> Objs]
      BY <1>2
    <3> QED
      BY <1>1, <3>1, FunctionIsSeq
  <2>2. zeros \o o \in Seq(Objs)
    BY <1>1, <2>1, ConcatProperties
  <2>3. zeros \o o \o ones \in Seq(Objs)
    BY <2>1, <2>2, ConcatProperties
  <2> QED
    BY <1>3, <2>3 DEF Dims
<1>4. CASE st.s # "parallel"
  <2>1. n \in 1..3
    BY <1>1, <1>4, StatementType DEF WellFormed, LoopKinds, Shape
  <2>2. /\ n = 1 => <<Num(0), o[1], Num(1)>> \in Seq(Objs)
        /\ n = 2 => <<o[1], o[2], Num(1)>> \in Seq(Objs)
    BY <1>1, <1>2
  <2> QED
    BY <1>1, <1>4, <2>1, <2>2 DEF Dims
<1> QED
  BY <1>3, <1>4

(***************************************************************************)
(* The actions.                                                             *)
(***************************************************************************)
LEMMA Running ==
    ASSUME TypeOK, ir.err = "none"
    PROVE  /\ ir \in IRs /\ ir.stack \in Seq(Blocks) /\ ir.stack # <<>>
           /\ Len(frames) \in Nat /\ Len(ir.stack) = Len(frames) + 1
<1>1. ir \in IRs /\ frames \in Seq(Frames) /\ Len(ir.stack) = Len(frames) + 1
  BY DEF TypeOK
<1>2. ir.stack \in Seq(Blocks) /\ Len(frames) \in Nat
  BY <1>1, LenProperties DEF IRs
<1> QED
  BY <1>1, <1>2, EmptySeq

(* A statement that is one call: no region is entered or left.              *)
LEMMA StepInPlace ==
    ASSUME TypeOK, ir.err = "none", ir' \in Emitted(ir), scope' \in Scopes,
           locals' \in [Names -> Objs], frames' = frames,
           src' \in Sources, Len(src') = Len(src)
    PROVE  TypeOK'
BY DEF TypeOK, Emitted, Scopes, Sources, Frames

(* name = __tb.bind('name', value)                                          *)
LEMMA BindAsType ==
    ASSUME TypeOK, NEW x \in Names, NEW r \in Emissions(ir), BindAs(x, r)
    PROVE  ir' \in Emitted(ir) /\ scope' \in Scopes /\ locals' \in [Names -> Objs]
<1>1. r.ir \in Emitted(ir) /\ r.o \in Objs
  BY DEF Emissions
<1>2. Bind(scope, x, r.o) \in Scopes /\ [locals EXCEPT ![x] = r.o] \in [Names -> Objs]
  BY <1>1, BindType DEF TypeOK
<1> QED
  BY <1>1, <1>2 DEF BindAs, Scopes

(* The targets and operands of a statement that binds one name.             *)
LEMMA TargetType ==
    ASSUME NEW st \in Menu, Len(st.dst) = 1
    PROVE  st.dst[1] \in Names
BY StatementType, ElementOfSeq

(* The operands of a statement are objects.                                 *)
LEMMA OperandType ==
    ASSUME TypeOK, NEW st \in Menu, NEW j \in 1..Len(st.arg)
    PROVE  Rval(st.arg[j]) \in Objs /\ Rvals(st.arg)[j] \in Objs
<1>1. st.arg[j] \in Names
  BY StatementType, ElementOfSeq
<1> QED
  BY <1>1, StatementType, RvalType, RvalsType DEF TypeOK

(* Assignments to a name keep the types.                                    *)
LEMMA AssignStep ==
    ASSUME TypeOK, NEW st \in Menu, Assign(st)
    PROVE  TypeOK'
<1>1. /\ ir.err = "none" /\ BindAs(st.dst[1], Value(st))
      /\ src' = Wrote(st, 0, 0) /\ frames' = frames
      /\ st.s \in {"num", "name", "add", "load", "ifexp"}
  BY DEF Assign, Stmt, Reached
<1>2. st.dst[1] \in Names
  <2>1. Len(st.dst) = 1
    BY <1>1, StatementType DEF WellFormed, Shape
  <2> QED
    BY <2>1, TargetType
<1>3. Value(st) \in Emissions(ir)
  BY <1>1, Running, ValueType
<1>4. ir' \in Emitted(ir) /\ scope' \in Scopes /\ locals' \in [Names -> Objs]
  BY <1>1, <1>2, <1>3, BindAsType
<1>5. src' \in Sources /\ Len(src') = Len(src)
  BY <1>1, WroteType
<1> QED
  BY <1>1, <1>4, <1>5, StepInPlace

(* So does a tuple assignment.                                              *)
LEMMA TupleAssignStep ==
    ASSUME TypeOK, NEW st \in Menu, TupleAssign(st)
    PROVE  TypeOK'
<1> DEFINE o == Rvals(st.arg)
<1>1. /\ ir.err = "none" /\ ir' = ir /\ frames' = frames /\ src' = Wrote(st, 0, 0)
      /\ scope' = Bind(Bind(scope, st.dst[1], o[1]), st.dst[2], o[2])
      /\ locals' = [locals EXCEPT ![st.dst[1]] = o[1], ![st.dst[2]] = o[2]]
      /\ st.s = "tuple"
  BY DEF TupleAssign, Stmt, Reached
<1>2. Len(st.dst) = 2 /\ Len(st.arg) = 2
  BY <1>1, StatementType DEF WellFormed, Shape
<1>3. st.dst[1] \in Names /\ st.dst[2] \in Names
  BY <1>2, StatementType, ElementOfSeq
<1>4. o[1] \in Objs /\ o[2] \in Objs
  BY <1>2, OperandType
<1>5. scope' \in Scopes /\ locals' \in [Names -> Objs]
  BY <1>1, <1>3, <1>4, BindType DEF TypeOK
<1>6. src' \in Sources /\ Len(src') = Len(src)
  BY <1>1, WroteType
<1>7. ir' \in Emitted(ir)
  BY <1>1 DEF TypeOK, Emitted
<1> QED
  BY <1>1, <1>5, <1>6, <1>7, StepInPlace

(* So does += on a name.                                                    *)
LEMMA AugAssignStep ==
    ASSUME TypeOK, NEW st \in Menu, AugAssign(st)
    PROVE  TypeOK'
<1> DEFINE sum == EmitValue(ir, "add", <<AugOperand(st.dst[1]), Rval(st.arg[1])>>)
<1>1. /\ ir.err = "none" /\ BindAs(st.dst[1], sum)
      /\ src' = Wrote(st, 0, 0) /\ frames' = frames /\ st.s = "aug"
  BY DEF AugAssign, Stmt, Reached
<1>2. Len(st.dst) = 1 /\ Len(st.arg) = 1
  BY <1>1, StatementType DEF WellFormed, Shape
<1>3. st.dst[1] \in Names /\ Rval(st.arg[1]) \in Objs
  BY <1>2, TargetType, OperandType
<1>4. sum \in Emissions(ir)
  <2>1. AugOperand(st.dst[1]) \in Objs
    BY <1>3 DEF AugOperand, TypeOK
  <2>2. <<AugOperand(st.dst[1]), Rval(st.arg[1])>> \in Seq(Objs) /\ "add" \in OpNames
    BY <1>3, <2>1, OperandsType DEF OpNames
  <2> QED
    BY <1>1, <2>2, Running, EmitValueType
<1>5. ir' \in Emitted(ir) /\ scope' \in Scopes /\ locals' \in [Names -> Objs]
  BY <1>1, <1>3, <1>4, BindAsType
<1>6. src' \in Sources /\ Len(src') = Len(src)
  BY <1>1, WroteType
<1> QED
  BY <1>1, <1>5, <1>6, StepInPlace

(* A store to the buffer.                                                   *)
LEMMA StoreType ==
    ASSUME NEW r \in IRs, r.stack # <<>>, NEW v \in Objs, NEW i \in Objs
    PROVE  Store(r, v, i) \in Emitted(r)
<1>1. "store" \in OpNames /\ <<v, Buffer, i>> \in Seq(Objs) /\ <<>> \in Seq(Blocks)
  BY OperandsType, BufferType, EmptySeq DEF OpNames
<1>2. 0 \in Nat /\ 0 \in Int
  OBVIOUS
<1> QED
  BY <1>1, <1>2, EmitType, Zenon DEF Store

(* An assignment to an element keeps the types.                             *)
LEMMA AssignSliceStep ==
    ASSUME TypeOK, NEW st \in Menu, AssignSlice(st)
    PROVE  TypeOK'
<1> DEFINE o == Rvals(st.arg)
<1>1. /\ ir.err = "none" /\ ir' = Store(ir, o[2], o[1])
      /\ src' = Wrote(st, 0, 0) /\ UNCHANGED <<scope, locals, frames>> /\ st.s = "store"
  BY DEF AssignSlice, Stmt, Reached
<1>2. o[1] \in Objs /\ o[2] \in Objs
  <2>1. Len(st.arg) = 2
    BY <1>1, StatementType DEF WellFormed, Shape
  <2> QED
    BY <2>1, OperandType
<1>3. ir' \in Emitted(ir)
  BY <1>1, <1>2, Running, StoreType
<1>4. src' \in Sources /\ Len(src') = Len(src)
  BY <1>1, WroteType
<1>5. scope' \in Scopes /\ locals' \in [Names -> Objs]
  BY <1>1 DEF TypeOK, Scopes
<1> QED
  BY <1>1, <1>3, <1>4, <1>5, StepInPlace

(* So does += on an element.                                                *)
LEMMA AugAssignSliceStep ==
    ASSUME TypeOK, NEW st \in Menu, AugAssignSlice(st)
    PROVE  TypeOK'
<1> DEFINE o == Rvals(st.arg)
           current == Load(ir, o[1])
           sum == EmitValue(current.ir, "add", <<current.o, o[2]>>)
<1>1. /\ ir.err = "none" /\ ir' = Store(sum.ir, sum.o, o[1])
      /\ src' = Wrote(st, 0, 0) /\ UNCHANGED <<scope, locals, frames>> /\ st.s = "augstore"
  BY DEF AugAssignSlice, Stmt, Reached
<1>2. o[1] \in Objs /\ o[2] \in Objs
  <2>1. Len(st.arg) = 2
    BY <1>1, StatementType DEF WellFormed, Shape
  <2> QED
    BY <2>1, OperandType
<1>3. current \in Emissions(ir)
  BY <1>1, <1>2, Running, LoadType
<1> HIDE DEF o, current
<1>4. sum \in Emissions(ir)
  <2>1. /\ current.ir \in IRs /\ current.ir.stack # <<>>
        /\ <<current.o, o[2]>> \in Seq(Objs) /\ "add" \in OpNames
    BY <1>1, <1>2, <1>3, Running, EmissionsType, OperandsType DEF OpNames
  <2>2. sum \in Emissions(current.ir)
    BY <2>1, EmitValueType, Zenon
  <2> QED
    BY <1>1, <1>3, <2>2, Running, EmissionsType
<1> HIDE DEF sum
<1>5. ir' \in Emitted(ir)
  <2>1. sum.ir \in IRs /\ sum.ir.stack # <<>> /\ sum.o \in Objs
    BY <1>1, <1>4, Running, EmissionsType
  <2>2. ir' \in Emitted(sum.ir)
    BY <1>1, <1>2, <2>1, StoreType
  <2> QED
    BY <1>1, <1>4, <2>2, Running, EmissionsType
<1>6. src' \in Sources /\ Len(src') = Len(src)
  BY <1>1, WroteType
<1>7. scope' \in Scopes /\ locals' \in [Names -> Objs]
  BY <1>1 DEF TypeOK, Scopes
<1> QED
  BY <1>1, <1>5, <1>6, <1>7, StepInPlace

(* So does a return.                                                        *)
LEMMA ReturnStep ==
    ASSUME TypeOK, NEW st \in Menu, Return(st)
    PROVE  TypeOK'
<1>1. /\ ir.err = "none" /\ ir' = Emit(ir, "return", Rvals(st.arg), 0, <<>>, 0)
      /\ src' = Wrote(st, 0, 0) /\ UNCHANGED <<scope, locals, frames>>
  BY DEF Return, Stmt, Reached
<1>2. /\ "return" \in OpNames /\ Rvals(st.arg) \in Seq(Objs) /\ <<>> \in Seq(Blocks)
      /\ 0 \in Nat /\ 0 \in Int
  BY StatementType, RvalsType, EmptySeq DEF OpNames, Terminators, TypeOK
<1>3. ir' \in Emitted(ir)
  <2>1. ir \in IRs /\ ir.stack # <<>>
    BY <1>1, Running
  <2> QED
    BY <1>1, <1>2, <2>1, EmitType, Zenon
<1>4. src' \in Sources /\ Len(src') = Len(src)
  BY <1>1, WroteType
<1>5. scope' \in Scopes /\ locals' \in [Names -> Objs]
  BY <1>1 DEF TypeOK, Scopes
<1> QED
  BY <1>1, <1>3, <1>4, <1>5, StepInPlace

(* Entering a compound statement suspends one generator and pushes one      *)
(* region; leaving it, either way, takes both back.                         *)
LEMMA EnterStep ==
    ASSUME TypeOK, ir.err = "none", NEW f \in Frames, frames' = Append(frames, f),
           ir' \in IRs, Len(ir'.stack) = Len(ir.stack) + 1,
           scope' \in Scopes, locals' \in [Names -> Objs],
           src' \in Sources, Len(src') = Len(ir'.args)
    PROVE  TypeOK'
<1>1. frames \in Seq(Frames)
  BY DEF TypeOK
<1>2. frames' \in Seq(Frames) /\ Len(frames') = Len(frames) + 1
  BY <1>1, AppendProperties
<1>3. Len(ir'.stack) = Len(frames') + 1
  BY <1>2, Running
<1> QED
  BY <1>2, <1>3 DEF TypeOK, Scopes, Sources, Frames

(* Leaving one, closed or abandoned.                                         *)
LEMMA LeaveStep ==
    ASSUME TypeOK, ir.err = "none", frames # <<>>, frames' = Up,
           ir' \in IRs, Len(ir'.args) = Len(ir.args),
           ir'.err = "none" => Len(ir'.stack) = Len(ir.stack) - 1,
           scope' \in Scopes, locals' = locals, src' \in Sources, Len(src') = Len(src)
    PROVE  TypeOK'
<1>1. Up \in Seq(Frames) /\ Len(Up) = Len(frames) - 1 /\ Len(frames) \in Nat
  BY TopType
<1>2. ir'.err = "none" => Len(ir'.stack) = Len(frames') + 1
  BY <1>1, Running
<1>3. locals' \in [Names -> Objs] /\ Len(src') = Len(ir'.args)
  BY DEF TypeOK
<1> QED
  BY <1>1, <1>2, <1>3 DEF TypeOK, Scopes, Sources, Frames

(* ctx_for up to its yield keeps the types.                                 *)
LEMMA EnterForStep ==
    ASSUME TypeOK, NEW st \in Menu, EnterFor(st)
    PROVE  TypeOK'
<1> DEFINE consts == Ensure(ir, Objects(scope))
           entry == NewRegion(consts)
           body == LastRegion(entry)
           n == Len(st.dst)
           ivs == [j \in DOMAIN st.dst |-> Val(Fresh(entry, n)[j])]
           before == Materialised(scope, ir)
           f == Frame(st, body, 0, Dims(st), before)
<1>1. /\ ir.err = "none" /\ st.s \in LoopKinds
      /\ ir' = PushRegion(NewArgs(entry, body, n), body)
      /\ scope' = BindAll(before, st.dst, ivs)
      /\ locals' = [x \in Names |-> IF \E j \in DOMAIN st.dst : st.dst[j] = x
                                    THEN scope'.at[x] ELSE locals[x]]
      /\ frames' = Append(frames, f)
      /\ src' = Append(Wrote(st, body, 0), <<>>)
  BY DEF EnterFor, Compound, Stmt, Reached
<1>2. consts \in Emitted(ir) /\ consts \in IRs /\ before \in Scopes
  BY <1>1, Running, ObjectsType, EnsureType, MaterialisedType DEF Emitted, TypeOK
<1>3. /\ entry \in IRs /\ body \in Blocks /\ entry.stack = ir.stack
      /\ Len(entry.args) = Len(ir.args) + 1
  BY <1>2, NewRegionType DEF Emitted
<1>4. st.dst \in Seq(Names) /\ n \in Nat /\ DOMAIN st.dst = 1..n
  BY StatementType, LenProperties
<1> HIDE DEF consts, entry, body, n, before
<1>5. \A j \in DOMAIN st.dst : ivs[j] \in Objs
  <2>1. \A j \in 1..n : Fresh(entry, n)[j] \in Ids
    BY <1>3, <1>4, FreshType, ElementOfSeq
  <2> QED
    BY <1>4, <2>1, ValType
<1> HIDE DEF ivs
<1>6. scope' \in Scopes
  BY <1>1, <1>2, <1>4, <1>5, BindAllType
<1>7. locals' \in [Names -> Objs]
  <2>1. scope'.at \in [Names -> Objs] /\ locals \in [Names -> Objs]
    BY <1>6 DEF Scopes, TypeOK
  <2> QED
    BY <1>1, <2>1
<1>8. /\ ir' \in IRs /\ Len(ir'.args) = Len(ir.args) + 1
      /\ Len(ir'.stack) = Len(ir.stack) + 1
  <2> DEFINE q == NewArgs(entry, body, n)
  <2>1. q \in IRs /\ q.stack = ir.stack /\ Len(q.args) = Len(ir.args) + 1
    BY <1>3, <1>4, NewArgsType
  <2> HIDE DEF q
  <2>2. PushRegion(q, body) \in IRs /\ PushRegion(q, body).args = q.args
    BY <1>3, <2>1, PushRegionType
  <2>3. Len(PushRegion(q, body).stack) = Len(q.stack) + 1
    BY <1>3, <2>1, PushRegionType
  <2> QED
    BY <1>1, <2>1, <2>2, <2>3 DEF q
<1>9. f \in Frames
  <2>1. Dims(st) \in Seq(Objs) /\ st.s \notin {"if", "while"} /\ 0 \in Nat
    BY <1>1, DimsType DEF LoopKinds
  <2> QED
    BY <1>2, <1>3, <2>1, FrameType
<1>10. src' \in Sources /\ Len(src') = Len(ir'.args)
  <2>1. body \in Nat /\ 0 \in Nat
    BY <1>3 DEF Blocks
  <2>2. Wrote(st, body, 0) \in Sources /\ Len(Wrote(st, body, 0)) = Len(src)
    BY <2>1, WroteType
  <2> QED
    BY <1>1, <1>8, <2>2, NewBlocksType DEF TypeOK
<1> QED
  BY <1>1, <1>6, <1>7, <1>8, <1>9, <1>10, EnterStep

(* The names a loop carries: their initial and final ids.                   *)
LEMMA CarriedType ==
    ASSUME NEW r \in IRs, NEW before \in Scopes, NEW now \in Scopes
    PROVE  LET names == Pick(before.order, Carried(r, before, now))
           IN  /\ names \in Seq(Names) /\ Len(names) \in Nat /\ DOMAIN names = 1..Len(names)
               /\ \A j \in 1..Len(names) : /\ names[j] \in Names
                                            /\ before.at[names[j]].n \in Ids
                                            /\ now.at[names[j]].n \in Ids
<1> DEFINE C == Carried(r, before, now)
           names == Pick(before.order, C)
<1>1. before.order \in Seq(Names) /\ before.at \in [Names -> Objs] /\ now.at \in [Names -> Objs]
  BY DEF Scopes
<1>2. C \in SUBSET DOMAIN before.order
  BY DEF Carried
<1>3. \A j \in C : /\ IsVal(before.at[before.order[j]])
                   /\ IsVal(now.at[before.order[j]])
  BY DEF Carried
<1> HIDE DEF C
<1>4. /\ names \in Seq(Names) /\ Len(names) \in Nat /\ DOMAIN names = 1..Len(names)
      /\ \A j \in 1..Len(names) : Nth(C, j) \in C /\ names[j] = before.order[Nth(C, j)]
  BY <1>1, <1>2, PickType
<1> HIDE DEF names
<1>5. ASSUME NEW j \in 1..Len(names)
      PROVE  names[j] \in Names /\ before.at[names[j]].n \in Ids /\ now.at[names[j]].n \in Ids
  <2>1. names[j] \in Names
    BY <1>4, ElementOfSeq
  <2>2. IsVal(before.at[names[j]]) /\ IsVal(now.at[names[j]])
    BY <1>3, <1>4
  <2>3. \A o \in Objs : IsVal(o) => o.n \in Ids
    BY DEF Objs, IsVal, Unbound
  <2> QED
    BY <1>1, <2>1, <2>2, <2>3
<1> QED
  BY <1>4, <1>5 DEF names, C

(* The operation of each kind of loop.                                      *)
LEMMA LoopOpType ==
    ASSUME NEW kind \in LoopKinds
    PROVE  LoopOp(kind) \in OpNames
BY DEF LoopKinds, LoopOp, OpNames

(* A yield appended at the end of a body.                                   *)
LEMMA YieldFinalsType ==
    ASSUME NEW r \in IRs, NEW b \in Blocks, NEW finals \in Seq(Ids)
    PROVE  YieldFinals(r, b, finals) \in Emitted(r)
<1>1. /\ "yield" \in OpNames /\ 0 \in Nat /\ 0 \in Int /\ <<>> \in Seq(Blocks)
      /\ r \in Emitted(r)
  BY EmptySeq DEF OpNames, Terminators, Emitted
<1>2. AppendOp(r, b, "yield", finals, 0, <<>>, 0) \in Emitted(r)
  BY <1>1, AppendOpType, Zenon
<1> QED
  BY <1>1, <1>2 DEF YieldFinals

(* A loop that closes without an error got as many results as it carries.   *)
LEMMA CloseLoopType ==
    ASSUME NEW r \in IRs, Len(r.stack) > 1, NEW f \in Frames, f.s.s \in LoopKinds,
           NEW now \in Scopes
    PROVE  LET names == Pick(f.before.order, Carried(r, f.before, now))
               e == CloseLoop(r, f, names, now)
           IN  /\ e \in IRs /\ Len(e.args) = Len(r.args) /\ Len(e.stack) = Len(r.stack) - 1
               /\ e.err = "none" => e.next > Len(names)
<1> DEFINE names == Pick(f.before.order, Carried(r, f.before, now))
           n == Len(names)
           outer == PopRegion(r)
           bounds == Ensure(outer, f.objs)
           initials == [j \in 1..n |-> f.before.at[names[j]].n]
           finals == [j \in 1..n |-> now.at[names[j]].n]
           opened == NewArgs(bounds, f.body, n)
           rewired == ReplaceRegionUses(opened, f.body, initials, Fresh(bounds, n))
           yielded == YieldFinals(rewired, f.body, finals)
           ids == EnsureIds(outer, f.objs)
           closed == AppendOp(yielded, Block(outer), LoopOp(f.s.s), ids \o initials,
                              n, <<f.body>>, Len(f.s.dst))
<1>1. /\ f.s \in Menu /\ f.body \in Blocks /\ f.objs \in Seq(Objs) /\ f.before \in Scopes
  BY DEF Frames
<1>2. /\ n \in Nat
      /\ \A j \in 1..n : f.before.at[names[j]].n \in Ids /\ now.at[names[j]].n \in Ids
  BY <1>1, CarriedType
<1> HIDE DEF names, n
<1>3. initials \in Seq(Ids) /\ finals \in Seq(Ids) /\ Len(initials) = n
  <2>1. initials \in [1..n -> Ids] /\ finals \in [1..n -> Ids]
    BY <1>2
  <2> QED
    BY <1>2, <2>1, FunctionIsSeq
<1>4. /\ outer \in IRs /\ outer.args = r.args /\ Len(outer.stack) = Len(r.stack) - 1
      /\ outer.stack # <<>>
  <2>1. r.stack # <<>>
    BY DEF IRs
  <2>2. outer \in IRs /\ outer.args = r.args /\ Len(outer.stack) = Len(r.stack) - 1
    BY <2>1, PopRegionType
  <2>3. r.stack \in Seq(Blocks) /\ Len(r.stack) \in Nat
    BY LenProperties DEF IRs
  <2> QED
    BY <2>2, <2>3
<1> HIDE DEF outer, initials, finals
<1>5. /\ bounds \in IRs /\ bounds.args = r.args /\ bounds.stack = outer.stack
      /\ Block(outer) \in Blocks /\ ids \in Seq(Ids)
  BY <1>1, <1>4, EnsureType, BlockType, EnsureIdsType DEF Emitted
<1> HIDE DEF bounds, ids
<1>6. /\ opened \in IRs /\ Len(opened.args) = Len(r.args) /\ opened.stack = outer.stack
      /\ Fresh(bounds, n) \in Seq(Ids) /\ Len(Fresh(bounds, n)) = n
  <2>1. /\ opened \in IRs /\ opened.stack = bounds.stack
        /\ Len(opened.args) = Len(bounds.args)
    BY <1>2, <1>5, NewArgsType, Zenon
  <2>2. Fresh(bounds, n) \in Seq(Ids) /\ Len(Fresh(bounds, n)) = n
    BY <1>2, <1>5, FreshType, Zenon
  <2> QED
    BY <1>5, <2>1, <2>2
<1> HIDE DEF opened
<1>7. rewired \in Emitted(opened) /\ rewired \in IRs
  BY <1>3, <1>6, ReplaceRegionUsesType DEF Emitted
<1> HIDE DEF rewired
<1>8. yielded \in Emitted(opened) /\ yielded \in IRs
  BY <1>1, <1>3, <1>7, YieldFinalsType DEF Emitted
<1> HIDE DEF yielded
<1>9. /\ closed \in Emitted(yielded)
      /\ closed.err = "none" => closed.next = yielded.next + n
  <2>1. ids \o initials \in Seq(Ids)
    BY <1>3, <1>5, ConcatProperties
  <2>2. <<f.body>> \in Seq(Blocks) /\ Len(f.s.dst) \in Int
    BY <1>1, StatementType, LenProperties
  <2>3. LoopOp(f.s.s) \in OpNames
    BY LoopOpType
  <2> QED
    BY <1>2, <1>5, <1>8, <2>1, <2>2, <2>3, AppendOpType, Zenon
<1> HIDE DEF closed
<1>10. /\ closed \in IRs /\ Len(closed.args) = Len(r.args) /\ closed.stack = outer.stack
       /\ closed.err = "none" => closed.next > n
  <2>1. yielded.next \in Nat \ {0}
    BY <1>8 DEF IRs, Ids
  <2> QED
    BY <1>2, <1>6, <1>8, <1>9, <2>1 DEF Emitted
<1>11. LET e == Raise(bounds, "parallelCarry")
       IN  e \in Emitted(bounds) /\ e.err # "none"
  BY <1>5, RaiseType
<1>12. CloseLoop(r, f, names, now) = IF bounds.err = "none" /\ Refused(f, n)
                                     THEN Raise(bounds, "parallelCarry") ELSE closed
  BY DEF CloseLoop, n, outer, bounds, initials, finals, opened, rewired, yielded, ids, closed
<1> QED
  BY <1>4, <1>5, <1>10, <1>11, <1>12 DEF Emitted, names, n

(* The end of ctx_for keeps the types.                                      *)
LEMMA ExitForStep ==
    ASSUME TypeOK, ExitFor
    PROVE  TypeOK'
<1> DEFINE names == Pick(Top.before.order, Carried(ir, Top.before, scope))
           n == Len(names)
           vals == [j \in DOMAIN names |-> Val(ir'.next - n + j - 1)]
<1>1. /\ ir.err = "none" /\ frames # <<>> /\ Top.s.s \in LoopKinds
      /\ ir' = CloseLoop(ir, Top, names, scope)
      /\ scope' = IF ir'.err = "none" THEN Rebound(scope, names, ir') ELSE scope
      /\ frames' = Up /\ UNCHANGED <<locals, src>>
  BY DEF ExitFor
<1>2. /\ ir \in IRs /\ Top \in Frames /\ Top.before \in Scopes /\ scope \in Scopes
      /\ Len(ir.stack) > 1
  BY <1>1, Running, TopType DEF TypeOK, Frames
<1>3. /\ ir' \in IRs /\ Len(ir'.args) = Len(ir.args) /\ Len(ir'.stack) = Len(ir.stack) - 1
      /\ ir'.err = "none" => ir'.next > n
  BY <1>1, <1>2, CloseLoopType
<1>4. names \in Seq(Names) /\ n \in Nat /\ DOMAIN names = 1..n
  BY <1>2, CarriedType
<1> HIDE DEF names, n
<1>5. scope' \in Scopes
  <2>1. CASE ir'.err = "none"
    <3>1. \A j \in DOMAIN names : vals[j] \in Objs
      <4>1. ir'.next \in Nat /\ ir'.next > n
        BY <1>3, <2>1 DEF IRs, Ids
      <4>2. \A j \in 1..n : ir'.next - n + j - 1 \in Ids
        BY <1>4, <4>1 DEF Ids
      <4> QED
        BY <1>4, <4>2, ValType
    <3> HIDE DEF vals
    <3>2. BindAll(scope, names, vals) \in Scopes
      BY <1>2, <1>4, <3>1, BindAllType
    <3> QED
      BY <1>1, <2>1, <3>2 DEF Rebound, vals, n
  <2>2. CASE ir'.err # "none"
    BY <1>1, <1>2, <2>2
  <2> QED
    BY <2>1, <2>2
<1>6. src' \in Sources /\ Len(src') = Len(src)
  BY <1>1 DEF TypeOK, Sources
<1> QED
  BY <1>1, <1>3, <1>5, <1>6, LeaveStep

(* ctx_if and ctx_then up to the yield keep the types.                      *)
LEMMA EnterIfStep ==
    ASSUME TypeOK, NEW st \in Menu, EnterIf(st)
    PROVE  TypeOK'
<1> DEFINE o == Rvals(st.arg)
           cond == Condition(ir, st.c, o[1], o[2])
           tested == Ensure(cond.ir, <<cond.o>>)
           entry == NewRegion(NewRegion(tested))
           body == LastRegion(entry) - 1
           id == EnsureIds(cond.ir, <<cond.o>>)[1]
           f == Frame(st, body, body + 1, <<Val(id)>>, scope)
<1>1. /\ ir.err = "none" /\ st.s = "if"
      /\ ir' = PushRegion(entry, body)
      /\ frames' = Append(frames, f)
      /\ src' = Wrote(st, body, body + 1) \o <<<<>>, <<>>>>
      /\ UNCHANGED <<scope, locals>>
  BY DEF EnterIf, Compound, Stmt, Reached
<1>2. st.c \in Conditions /\ Len(st.arg) = 2
  BY <1>1, StatementType DEF WellFormed, Shape
<1>3. ir \in IRs /\ ir.stack # <<>> /\ o[1] \in Objs /\ o[2] \in Objs
  <2>1. o[1] \in Objs /\ o[2] \in Objs
    BY <1>2, OperandType
  <2> QED
    BY <1>1, <2>1, Running
<1> HIDE DEF o
<1>4. cond \in Emissions(ir)
  BY <1>2, <1>3, ConditionType
<1> HIDE DEF cond
<1>5. cond.ir \in IRs /\ cond.ir \in Emitted(ir) /\ cond.ir.stack # <<>> /\ <<cond.o>> \in Seq(Objs)
  BY <1>3, <1>4, EmissionsType, OperandsType
<1>6. tested \in IRs /\ tested.stack = ir.stack /\ tested.args = ir.args
  <2>1. tested \in Emitted(cond.ir)
    BY <1>5, EnsureType
  <2> QED
    BY <1>5, <2>1 DEF Emitted
<1>7. id \in Ids
  <2>1. /\ EnsureIds(cond.ir, <<cond.o>>) \in Seq(Ids)
        /\ Len(EnsureIds(cond.ir, <<cond.o>>)) = Len(<<cond.o>>)
    BY <1>5, EnsureIdsType, Zenon
  <2>2. Len(<<cond.o>>) = 1
    OBVIOUS
  <2> QED
    BY <2>1, <2>2, ElementOfSeq
<1> HIDE DEF tested, id
<1>8. /\ entry \in IRs /\ entry.stack = ir.stack /\ Len(entry.args) = Len(ir.args) + 2
      /\ body \in Blocks
  <2>1. Len(ir.args) \in Nat
    BY <1>3, LenProperties DEF IRs
  <2>2. /\ NewRegion(tested) \in IRs /\ NewRegion(tested).stack = ir.stack
        /\ Len(NewRegion(tested).args) = Len(ir.args) + 1
    BY <1>6, NewRegionType
  <2>3. /\ entry \in IRs /\ entry.stack = ir.stack
        /\ Len(entry.args) = Len(NewRegion(tested).args) + 1
    BY <2>2, NewRegionType
  <2> QED
    BY <2>1, <2>2, <2>3 DEF LastRegion, Blocks
<1> HIDE DEF entry, body
<1>9. ir' \in IRs /\ ir'.args = entry.args /\ Len(ir'.stack) = Len(ir.stack) + 1
  BY <1>1, <1>8, PushRegionType
<1>10. body \in Nat /\ body + 1 \in Nat /\ body + 1 # 0
  BY <1>8 DEF Blocks
<1>11. f \in Frames
  <2>1. <<Val(id)>> \in Seq(Objs) /\ scope \in Scopes
    BY <1>7, ValType, OperandsType DEF TypeOK
  <2> QED
    BY <1>8, <1>10, <2>1, FrameType
<1>12. src' \in Sources /\ Len(src') = Len(ir'.args)
  <2>1. Wrote(st, body, body + 1) \in Sources /\ Len(Wrote(st, body, body + 1)) = Len(src)
    BY <1>10, WroteType
  <2> QED
    BY <1>1, <1>8, <1>9, <2>1, NewBlocksType DEF TypeOK
<1>13. scope' \in Scopes /\ locals' \in [Names -> Objs]
  BY <1>1 DEF TypeOK, Scopes
<1> QED
  BY <1>1, <1>9, <1>11, <1>12, <1>13, EnterStep

(* Two changes of the innermost frame.                                      *)
LEMMA TopChangeType ==
    ASSUME TypeOK, frames # <<>>
    PROVE  LET else == [frames EXCEPT ![Len(frames)].branch = "else",
                                      ![Len(frames)].skip = FALSE]
               skip == [frames EXCEPT ![Len(frames)].skip = TRUE]
           IN  /\ else \in Seq(Frames) /\ Len(else) = Len(frames)
               /\ skip \in Seq(Frames) /\ Len(skip) = Len(frames)
<1> DEFINE n == Len(frames)
           else == [frames[n] EXCEPT !.branch = "else", !.skip = FALSE]
           skip == [frames[n] EXCEPT !.skip = TRUE]
<1>1. frames \in Seq(Frames) /\ frames[n] \in Frames /\ n \in Nat \ {0}
  BY TopType DEF TypeOK, Top
<1>2. DOMAIN frames = 1..n /\ frames \in [1..n -> Frames]
  BY <1>1, LenProperties
<1>3. else \in Frames /\ skip \in Frames
  BY <1>1 DEF Frames
<1>4. /\ [frames EXCEPT ![n].branch = "else", ![n].skip = FALSE] = [frames EXCEPT ![n] = else]
      /\ [frames EXCEPT ![n].skip = TRUE] = [frames EXCEPT ![n] = skip]
  BY <1>1, <1>2
<1> HIDE DEF else, skip
<1>5. /\ [frames EXCEPT ![n] = else] \in [1..n -> Frames]
      /\ [frames EXCEPT ![n] = skip] \in [1..n -> Frames]
  BY <1>2, <1>3
<1>6. /\ [frames EXCEPT ![n] = else] \in Seq(Frames) /\ Len([frames EXCEPT ![n] = else]) = n
      /\ [frames EXCEPT ![n] = skip] \in Seq(Frames) /\ Len([frames EXCEPT ![n] = skip]) = n
  BY <1>1, <1>5, FunctionIsSeq
<1> QED
  BY <1>4, <1>6

(* So does going from ctx_then to ctx_else.                                 *)
LEMMA EnterElseStep ==
    ASSUME TypeOK, EnterElse
    PROVE  TypeOK'
<1> DEFINE else == [frames EXCEPT ![Len(frames)].branch = "else",
                                  ![Len(frames)].skip = FALSE]
<1>1. /\ ir.err = "none" /\ frames # <<>> /\ Top.s.s = "if"
      /\ ir' = PushRegion(PopRegion(ir), Top.other)
      /\ frames' = else /\ UNCHANGED <<scope, locals, src>>
  BY DEF EnterElse
<1>2. else \in Seq(Frames) /\ Len(else) = Len(frames)
  BY <1>1, TopChangeType
<1> HIDE DEF else
<1>3. Top.other \in Blocks
  BY <1>1, TopType DEF Frames, Blocks
<1>4. /\ PopRegion(ir) \in IRs /\ PopRegion(ir).args = ir.args
      /\ Len(PopRegion(ir).stack) = Len(ir.stack) - 1
  BY <1>1, Running, PopRegionType
<1>5. /\ ir' \in IRs /\ ir'.args = ir.args
      /\ Len(ir'.stack) = Len(PopRegion(ir).stack) + 1
  BY <1>1, <1>3, <1>4, PushRegionType
<1>6. Len(ir'.stack) = Len(frames') + 1
  BY <1>1, <1>2, <1>4, <1>5, Running
<1> QED
  BY <1>1, <1>2, <1>5, <1>6 DEF TypeOK, Scopes, Sources, Frames

(* The operation of an if, a while or a kernel is appended to the block the *)
(* statement is in, once its region is popped.                              *)
LEMMA CloseRegionType ==
    ASSUME NEW r \in IRs, Len(r.stack) > 1, NEW name \in OpNames, NEW objs \in Seq(Objs),
           NEW regions \in Seq(Blocks), NEW attr \in Int
    PROVE  LET e == Emit(PopRegion(r), name, objs, 0, regions, attr)
           IN  e \in IRs /\ e.args = r.args /\ Len(e.stack) = Len(r.stack) - 1
<1> DEFINE outer == PopRegion(r)
<1>1. r.stack # <<>> /\ Len(r.stack) \in Nat
  BY LenProperties DEF IRs
<1>2. outer \in IRs /\ outer.args = r.args /\ Len(outer.stack) = Len(r.stack) - 1
  BY <1>1, PopRegionType
<1> HIDE DEF outer
<1>3. outer.stack # <<>> /\ 0 \in Nat
  BY <1>1, <1>2
<1>4. Emit(outer, name, objs, 0, regions, attr) \in Emitted(outer)
  BY <1>2, <1>3, EmitType, Zenon
<1> QED
  BY <1>2, <1>4 DEF Emitted, outer

(* So does the end of ctx_if.                                               *)
LEMMA ExitIfStep ==
    ASSUME TypeOK, ExitIf
    PROVE  TypeOK'
<1>1. /\ ir.err = "none" /\ frames # <<>> /\ Top.s.s = "if"
      /\ ir' = Emit(PopRegion(ir), "if", Top.objs, 0, IfRegions(Top), 0)
      /\ frames' = Up /\ UNCHANGED <<scope, locals, src>>
  BY DEF ExitIf
<1>2. ir \in IRs /\ Len(ir.stack) > 1
  BY <1>1, Running, TopType
<1>3. "if" \in OpNames /\ Top.objs \in Seq(Objs) /\ IfRegions(Top) \in Seq(Blocks) /\ 0 \in Int
  <2>1. Top.objs \in Seq(Objs) /\ Top.body \in Blocks /\ Top.other \in Blocks
    BY <1>1, TopType DEF Frames, Blocks
  <2>2. <<Top.body>> \in Seq(Blocks) /\ <<Top.body, Top.other>> \in Seq(Blocks)
    BY <2>1
  <2>3. IfRegions(Top) \in Seq(Blocks)
    BY <2>2 DEF IfRegions
  <2> QED
    BY <2>1, <2>3 DEF OpNames
<1>4. ir' \in IRs /\ ir'.args = ir.args /\ Len(ir'.stack) = Len(ir.stack) - 1
  BY <1>1, <1>2, <1>3, CloseRegionType, Zenon
<1>5. scope' \in Scopes /\ src' \in Sources /\ Len(src') = Len(src)
  BY <1>1 DEF TypeOK, Scopes, Sources
<1> QED
  BY <1>1, <1>4, <1>5, LeaveStep

(* ctx_while up to its yield keeps the types.                               *)
LEMMA EnterWhileStep ==
    ASSUME TypeOK, NEW st \in Menu, EnterWhile(st)
    PROVE  TypeOK'
<1> DEFINE entry == NewRegion(ir)
           test == LastRegion(entry)
           o == Rvals(st.arg)
           pushed == PushRegion(entry, test)
           cond == Condition(pushed, st.c, o[1], o[2])
           yielded == Emit(cond.ir, "yield", <<cond.o>>, 0, <<>>, 0)
           done == NewRegion(PopRegion(yielded))
           f == Frame(st, test + 1, test, <<>>, scope)
<1>1. /\ ir.err = "none" /\ st.s = "while"
      /\ ir' = PushRegion(done, test + 1)
      /\ frames' = Append(frames, f)
      /\ src' = Wrote(st, test + 1, test) \o <<<<>>, <<>>>>
      /\ UNCHANGED <<scope, locals>>
  BY DEF EnterWhile, Compound, Stmt, Reached
<1>2. st.c \in Conditions /\ Len(st.arg) = 2
  BY <1>1, StatementType DEF WellFormed, Shape
<1>3. o[1] \in Objs /\ o[2] \in Objs
  BY <1>2, OperandType
<1>4. ir \in IRs /\ ir.stack # <<>> /\ Len(ir.stack) \in Nat /\ Len(ir.args) \in Nat
  BY <1>1, Running, LenProperties DEF IRs
<1>5. /\ entry \in IRs /\ entry.stack = ir.stack /\ Len(entry.args) = Len(ir.args) + 1
      /\ test \in Blocks
  BY <1>4, NewRegionType
<1> HIDE DEF o, entry, test
<1>6. /\ pushed \in IRs /\ pushed.args = entry.args /\ pushed.stack # <<>>
      /\ Len(pushed.stack) = Len(ir.stack) + 1
  BY <1>5, PushRegionType
<1> HIDE DEF pushed
<1>7. cond \in Emissions(pushed)
  BY <1>2, <1>3, <1>6, ConditionType
<1> HIDE DEF cond
<1>8. /\ cond.ir \in IRs /\ cond.ir \in Emitted(pushed) /\ cond.ir.stack # <<>>
      /\ <<cond.o>> \in Seq(Objs)
  BY <1>6, <1>7, EmissionsType, OperandsType
<1>9. yielded \in IRs /\ yielded.args = entry.args /\ yielded.stack = pushed.stack
  <2>1. "yield" \in OpNames /\ <<>> \in Seq(Blocks) /\ 0 \in Nat /\ 0 \in Int
    BY EmptySeq DEF OpNames, Terminators
  <2>2. yielded \in Emitted(cond.ir)
    BY <1>8, <2>1, EmitType, Zenon
  <2> QED
    BY <1>6, <1>8, <2>2 DEF Emitted
<1> HIDE DEF yielded
<1>10. /\ PopRegion(yielded) \in IRs /\ PopRegion(yielded).args = entry.args
       /\ Len(PopRegion(yielded).stack) = Len(yielded.stack) - 1
  BY <1>6, <1>9, PopRegionType
<1>11. /\ done \in IRs /\ Len(done.stack) = Len(ir.stack)
       /\ Len(done.args) = Len(ir.args) + 2
  <2>1. /\ done \in IRs /\ done.stack = PopRegion(yielded).stack
        /\ Len(done.args) = Len(PopRegion(yielded).args) + 1
    BY <1>10, NewRegionType
  <2> QED
    BY <1>4, <1>5, <1>6, <1>9, <1>10, <2>1
<1> HIDE DEF done
<1>12. test \in Nat /\ test # 0 /\ test + 1 \in Nat /\ test + 1 \in Blocks
  BY <1>5 DEF Blocks
<1>13. ir' \in IRs /\ ir'.args = done.args /\ Len(ir'.stack) = Len(ir.stack) + 1
  BY <1>1, <1>11, <1>12, PushRegionType
<1>14. f \in Frames
  <2>1. <<>> \in Seq(Objs) /\ scope \in Scopes
    BY EmptySeq DEF TypeOK
  <2> QED
    BY <1>12, <2>1, FrameType
<1>15. src' \in Sources /\ Len(src') = Len(ir'.args)
  <2>1. Wrote(st, test + 1, test) \in Sources /\ Len(Wrote(st, test + 1, test)) = Len(src)
    BY <1>12, WroteType
  <2> QED
    BY <1>1, <1>11, <1>13, <2>1, NewBlocksType DEF TypeOK
<1>16. scope' \in Scopes /\ locals' \in [Names -> Objs]
  BY <1>1 DEF TypeOK, Scopes
<1> QED
  BY <1>1, <1>13, <1>14, <1>15, <1>16, EnterStep

(* So does its end.                                                         *)
LEMMA ExitWhileStep ==
    ASSUME TypeOK, ExitWhile
    PROVE  TypeOK'
<1>1. /\ ir.err = "none" /\ frames # <<>> /\ Top.s.s = "while"
      /\ ir' = Emit(PopRegion(ir), "while", <<>>, 0, <<Top.other, Top.body>>, 0)
      /\ frames' = Up /\ UNCHANGED <<scope, locals, src>>
  BY DEF ExitWhile
<1>2. ir \in IRs /\ Len(ir.stack) > 1
  BY <1>1, Running, TopType
<1>3. /\ "while" \in OpNames /\ <<>> \in Seq(Objs)
      /\ <<Top.other, Top.body>> \in Seq(Blocks) /\ 0 \in Int
  BY <1>1, TopType, EmptySeq DEF OpNames, Frames, Blocks
<1>4. ir' \in IRs /\ ir'.args = ir.args /\ Len(ir'.stack) = Len(ir.stack) - 1
  BY <1>1, <1>2, <1>3, CloseRegionType, Zenon
<1>5. scope' \in Scopes /\ src' \in Sources /\ Len(src') = Len(src)
  BY <1>1 DEF TypeOK, Scopes, Sources
<1> QED
  BY <1>1, <1>4, <1>5, LeaveStep

(* ctx_kernel up to its yield keeps the types.                              *)
LEMMA EnterKernelStep ==
    ASSUME TypeOK, NEW st \in Menu, EnterKernel(st)
    PROVE  TypeOK'
<1> DEFINE entry == NewRegion(ir)
           body == LastRegion(entry)
           opened == NewArgs(entry, body, 1)
           f == Frame(st, body, 0, Rvals(st.arg), scope)
<1>1. /\ ir.err = "none" /\ st.s = "kernel"
      /\ ir' = PushRegion(opened, body)
      /\ locals' = [locals EXCEPT ![st.dst[1]] = Val(entry.next)]
      /\ frames' = Append(frames, f)
      /\ src' = Append(Wrote(st, body, 0), <<>>)
      /\ UNCHANGED scope
  BY DEF EnterKernel, Compound, Stmt, Reached
<1>2. /\ entry \in IRs /\ entry.stack = ir.stack /\ Len(entry.args) = Len(ir.args) + 1
      /\ body \in Blocks
  BY <1>1, Running, NewRegionType
<1> HIDE DEF entry, body
<1>3. opened \in IRs /\ opened.stack = ir.stack /\ Len(opened.args) = Len(ir.args) + 1
  BY <1>2, NewArgsType
<1> HIDE DEF opened
<1>4. ir' \in IRs /\ ir'.args = opened.args /\ Len(ir'.stack) = Len(ir.stack) + 1
  BY <1>1, <1>2, <1>3, PushRegionType
<1>5. locals' \in [Names -> Objs]
  <2>1. Val(entry.next) \in Objs
    BY <1>2, ValType DEF IRs, Ids
  <2> QED
    BY <1>1, <2>1 DEF TypeOK
<1>6. f \in Frames
  <2>1. Rvals(st.arg) \in Seq(Objs) /\ scope \in Scopes /\ 0 \in Nat /\ st.s \notin {"if", "while"}
    BY <1>1, StatementType, RvalsType DEF TypeOK
  <2> QED
    BY <1>2, <2>1, FrameType
<1>7. src' \in Sources /\ Len(src') = Len(ir'.args)
  <2>1. body \in Nat /\ 0 \in Nat
    BY <1>2 DEF Blocks
  <2>2. Wrote(st, body, 0) \in Sources /\ Len(Wrote(st, body, 0)) = Len(src)
    BY <2>1, WroteType
  <2> QED
    BY <1>1, <1>3, <1>4, <2>2, NewBlocksType DEF TypeOK
<1>8. scope' \in Scopes
  BY <1>1 DEF TypeOK, Scopes
<1> QED
  BY <1>1, <1>4, <1>5, <1>6, <1>7, <1>8, EnterStep

(* So does its end.                                                         *)
LEMMA ExitKernelStep ==
    ASSUME TypeOK, ExitKernel
    PROVE  TypeOK'
<1>1. /\ ir.err = "none" /\ frames # <<>> /\ Top.s.s = "kernel"
      /\ ir' = Emit(PopRegion(ir), "kernel", Top.objs, 0, <<Top.body>>, 1)
      /\ frames' = Up /\ UNCHANGED <<scope, locals, src>>
  BY DEF ExitKernel
<1>2. ir \in IRs /\ Len(ir.stack) > 1
  BY <1>1, Running, TopType
<1>3. "kernel" \in OpNames /\ Top.objs \in Seq(Objs) /\ <<Top.body>> \in Seq(Blocks) /\ 1 \in Int
  BY <1>1, TopType DEF OpNames, Frames
<1>4. ir' \in IRs /\ ir'.args = ir.args /\ Len(ir'.stack) = Len(ir.stack) - 1
  BY <1>1, <1>2, <1>3, CloseRegionType, Zenon
<1>5. scope' \in Scopes /\ src' \in Sources /\ Len(src') = Len(src)
  BY <1>1 DEF TypeOK, Scopes, Sources
<1> QED
  BY <1>1, <1>4, <1>5, LeaveStep

(* break or continue in a branch, continue in a loop, keep the types.       *)
LEMMA SkipRestStep ==
    ASSUME TypeOK, NEW st \in Menu, SkipRest(st)
    PROVE  TypeOK'
<1> DEFINE skip == [frames EXCEPT ![Len(frames)].skip = TRUE]
<1>1. /\ ir.err = "none" /\ InLoop /\ frames' = skip
      /\ src' = Wrote(st, 0, 0) /\ UNCHANGED <<ir, scope, locals>>
  BY DEF SkipRest, Stmt, Reached
<1>2. frames # <<>>
  BY <1>1, EmptySeq DEF InLoop
<1>3. skip \in Seq(Frames) /\ Len(skip) = Len(frames)
  BY <1>2, TopChangeType
<1> HIDE DEF skip
<1>4. src' \in Sources /\ Len(src') = Len(src)
  BY <1>1, WroteType
<1> QED
  BY <1>1, <1>3, <1>4 DEF TypeOK, Scopes, Frames, Sources

(* A break in a loop body keeps the types.                                  *)
LEMMA AbandonLoopStep ==
    ASSUME TypeOK, NEW st \in Menu, AbandonLoop(st)
    PROVE  TypeOK'
<1>1. /\ ir.err = "none" /\ frames # <<>> /\ ir' = PopRegion(ir) /\ frames' = Up
      /\ src' = Wrote(st, 0, 0) /\ UNCHANGED <<scope, locals>>
  BY DEF AbandonLoop, Stmt, Reached
<1>2. ir' \in IRs /\ ir'.args = ir.args /\ Len(ir'.stack) = Len(ir.stack) - 1
  BY <1>1, Running, PopRegionType
<1>3. src' \in Sources /\ Len(src') = Len(src) /\ scope' \in Scopes
  BY <1>1, WroteType DEF TypeOK, Scopes
<1> QED
  BY <1>1, <1>2, <1>3, LeaveStep

(***************************************************************************)
(* The theorem.                                                             *)
(***************************************************************************)
LEMMA InitialScopeType == InitialScope \in Scopes
<1> DEFINE order == [j \in DOMAIN Params |-> Params[j].x]
           value(x) == Num(Params[CHOOSE j \in DOMAIN Params : Params[j].x = x].n)
           at == [x \in Names |-> IF \E j \in DOMAIN Params : Params[j].x = x
                                  THEN value(x) ELSE Unbound]
<1>1. /\ DOMAIN Params = 1..Len(Params) /\ Len(Params) \in Nat
      /\ \A j \in 1..Len(Params) : Params[j] \in [x : Names, n : Int]
  BY ParamsAssumption, LenProperties, ElementOfSeq
<1>2. order \in Seq(Names)
  <2>1. order \in [1..Len(Params) -> Names]
    BY <1>1
  <2> QED
    BY <1>1, <2>1, FunctionIsSeq
<1>3. ASSUME NEW x \in Names, \E j \in DOMAIN Params : Params[j].x = x
      PROVE  value(x) \in Objs
  <2>1. (CHOOSE j \in DOMAIN Params : Params[j].x = x) \in DOMAIN Params
    BY <1>3
  <2>2. Params[CHOOSE j \in DOMAIN Params : Params[j].x = x].n \in Int
    BY <1>1, <2>1
  <2> QED
    BY <2>2 DEF Num, Objs
<1> HIDE DEF value
<1>4. at \in [Names -> Objs]
  BY <1>3 DEF Objs
<1> QED
  BY <1>2, <1>4 DEF InitialScope, Scopes, value

(* The state after the prologue has the types.                              *)
LEMMA InitType == Init => TypeOK
<1> SUFFICES ASSUME Init PROVE TypeOK
  OBVIOUS
<1>1. /\ ir = [next |-> 1, ops |-> <<>>, args |-> <<<<0>>>>, stack |-> <<1>>, err |-> "none"]
      /\ scope = InitialScope /\ locals = InitialScope.at /\ frames = <<>> /\ src = <<<<>>>>
  BY DEF Init
<1>2. /\ <<>> \in Seq(Operations) /\ <<>> \in Seq(Frames)
      /\ <<>> \in Seq([st : Menu, body : Nat, other : Nat])
  BY EmptySeq
<1>3. ir \in IRs /\ Len(ir.args) = 1 /\ Len(ir.stack) = 1
  <2> HIDE DEF Operations
  <2>1. <<<<0>>>> \in Seq(Seq(Ids)) /\ <<1>> \in Seq(Blocks) /\ 1 \in Ids \ {0}
    BY DEF Ids, Blocks
  <2> QED
    BY <1>1, <1>2, <2>1 DEF IRs
<1>4. scope \in Scopes /\ locals \in [Names -> Objs]
  BY <1>1, InitialScopeType DEF Scopes
<1>5. src \in Sources /\ Len(src) = 1
  BY <1>1, <1>2 DEF Sources
<1>6. frames \in Seq(Frames) /\ Len(frames) = 0
  BY <1>1, <1>2, EmptySeq
<1> QED
  BY <1>3, <1>4, <1>5, <1>6 DEF TypeOK

(* Every step keeps them.                                                   *)
LEMMA NextType == TypeOK /\ [Next]_vars => TypeOK'
<1> SUFFICES ASSUME TypeOK, [Next]_vars PROVE TypeOK'
  OBVIOUS
<1>1. ASSUME UNCHANGED vars PROVE TypeOK'
  BY <1>1 DEF vars, TypeOK, Scopes, Frames, Sources
<1>2. ASSUME NEW st \in Menu,
             \/ Assign(st) \/ TupleAssign(st) \/ AugAssign(st)
             \/ AssignSlice(st) \/ AugAssignSlice(st) \/ Return(st)
             \/ EnterFor(st) \/ EnterIf(st) \/ EnterWhile(st) \/ EnterKernel(st)
             \/ SkipRest(st) \/ AbandonLoop(st)
      PROVE  TypeOK'
  <2>1. CASE \/ Assign(st) \/ TupleAssign(st) \/ AugAssign(st)
             \/ AssignSlice(st) \/ AugAssignSlice(st) \/ Return(st)
    BY <2>1, AssignStep, TupleAssignStep, AugAssignStep, AssignSliceStep, AugAssignSliceStep,
       ReturnStep
  <2>2. CASE EnterFor(st) \/ EnterIf(st) \/ EnterWhile(st) \/ EnterKernel(st)
    BY <2>2, EnterForStep, EnterIfStep, EnterWhileStep, EnterKernelStep
  <2>3. CASE SkipRest(st) \/ AbandonLoop(st)
    BY <2>3, SkipRestStep, AbandonLoopStep
  <2> QED
    BY <1>2, <2>1, <2>2, <2>3
<1>3. ASSUME ExitFor \/ EnterElse \/ ExitIf \/ ExitWhile \/ ExitKernel PROVE TypeOK'
  BY <1>3, ExitForStep, EnterElseStep, ExitIfStep, ExitWhileStep, ExitKernelStep
<1> QED
  BY <1>1, <1>2, <1>3 DEF Next, Stop

(* Whatever the source, the state keeps its types, and until the trace      *)
(* raises the region stack holds the kernel body and one region for every   *)
(* suspended ctx_* generator: no statement leaves a region pushed, or pops  *)
(* one that another statement pushed.                                       *)
THEOREM TypeCorrect == Spec => []TypeOK
<1>1. Init => TypeOK
  BY InitType
<1>2. TypeOK /\ [Next]_vars => TypeOK'
  BY NextType
<1> QED
  BY <1>1, <1>2, PTL DEF Spec

(***************************************************************************)
(* The structure of the IR a trace leaves.                                  *)
(*                                                                          *)
(* Almost everything a trace does builds upon the IR there is: it appends   *)
(* operations without regions that are no loops, changes operands, and adds *)
(* blocks and block arguments (Upon). What is left is the end of a compound *)
(* statement, which appends one operation with regions (Closed). These are  *)
(* regions that a suspended generator made: the invariant Nested says that  *)
(* they belong to no operation yet and are younger than the block the       *)
(* generator was started in.                                                *)
(***************************************************************************)
(* What defines an id: the place j of the arguments of block i, or of the   *)
(* results of operation i.                                                  *)
Places == [k : {"arg", "op"}, i : Nat, j : Nat, v : Ids]
IsArg(r, d) == d.k = "arg" /\ d.i \in DOMAIN r.args /\ d.j \in DOMAIN r.args[d.i] /\ r.args[d.i][d.j] = d.v
IsResult(r, d) == d.k = "op" /\ d.i \in DOMAIN r.ops /\ d.j \in DOMAIN r.ops[d.i].results
                    /\ r.ops[d.i].results[d.j] = d.v
Defs(r) == {d \in Places : IsArg(r, d) \/ IsResult(r, d)}

(* No id but 0 .. m - 1 is defined, and none in two places; each is. What a *)
(* raise left without a place is not.                                       *)
Numbered(D, m) ==
    /\ \A d \in D : d.v \in 0 .. m - 1
    /\ \A d, c \in D : d.v = c.v => d = c
Complete(D, m) == \A v \in 0 .. m - 1 : \E d \in D : d.v = v
Once(r) == Numbered(Defs(r), r.next) /\ (r.err = "none" => Complete(Defs(r), r.next))

LoopNames == {"serial_for", "pipelined_for"}

(* An operation before and after its uses were rewired.                     *)
Shaped(op, new) ==
    /\ new.name = op.name /\ new.blk = op.blk
    /\ new.results = op.results /\ new.regions = op.regions
    /\ Len(new.operands) = Len(op.operands)

(* The IRs that are built upon r.                                           *)
Upon(r) == {e \in IRs :
    /\ Len(r.ops) <= Len(e.ops)
    /\ \A k \in 1 .. Len(r.ops) : Shaped(r.ops[k], e.ops[k])
    /\ \A k \in Len(r.ops) + 1 .. Len(e.ops) : e.ops[k].regions = <<>> /\ e.ops[k].name \notin LoopNames
    /\ Len(r.args) <= Len(e.args)
    /\ Once(r) => Once(e)}

(***************************************************************************)
(* Numbering.                                                               *)
(***************************************************************************)
(* n more places for the next n ids.                                        *)
LEMMA NumberedMore ==
    ASSUME NEW D, NEW E, NEW m \in Nat, NEW n \in Nat, NEW f, Numbered(D, m),
           \A d : d \in E <=> d \in D \/ \E i \in 1 .. n : d = f[i],
           \A i \in 1 .. n : f[i].v = m + i - 1
    PROVE  Numbered(E, m + n) /\ (Complete(D, m) => Complete(E, m + n))
<1>1. \A d \in E : d.v \in 0 .. (m + n) - 1
  BY DEF Numbered
<1>2. ASSUME NEW d \in E, NEW c \in E, d.v = c.v PROVE d = c
  <2>1. CASE d \in D /\ c \in D
    BY <1>2, <2>1 DEF Numbered
  <2>2. CASE d \in D /\ c \notin D
    <3>1. d.v \in 0 .. m - 1 /\ \E i \in 1 .. n : c.v = m + i - 1
      BY <2>2 DEF Numbered
    <3> QED
      BY <1>2, <3>1
  <2>3. CASE d \notin D /\ c \in D
    <3>1. c.v \in 0 .. m - 1 /\ \E i \in 1 .. n : d.v = m + i - 1
      BY <2>3 DEF Numbered
    <3> QED
      BY <1>2, <3>1
  <2>4. CASE d \notin D /\ c \notin D
    <3>1. PICK i \in 1 .. n : d = f[i]
      BY <2>4
    <3>2. PICK j \in 1 .. n : c = f[j]
      BY <2>4
    <3>3. m + i - 1 = m + j - 1
      BY <1>2, <3>1, <3>2
    <3> QED
      BY <3>1, <3>2, <3>3
  <2> QED
    BY <2>1, <2>2, <2>3, <2>4
<1>3. ASSUME Complete(D, m), NEW v \in 0 .. (m + n) - 1 PROVE \E d \in E : d.v = v
  <2>1. CASE v < m
    BY <1>3, <2>1 DEF Complete
  <2>2. CASE v >= m
    <3>1. (v - m) + 1 \in 1 .. n /\ m + ((v - m) + 1) - 1 = v
      BY <2>2
    <3>2. f[(v - m) + 1] \in E /\ f[(v - m) + 1].v = v
      BY <3>1
    <3> QED
      BY <3>2
  <2> QED
    BY <2>1, <2>2
<1> QED
  BY <1>1, <1>2, <1>3 DEF Numbered, Complete

(* The same places and no new id.                                           *)
LEMMA OnceSame ==
    ASSUME NEW r, NEW e, Defs(e) = Defs(r), e.next = r.next, e.err = "none" => r.err = "none"
    PROVE  Once(r) => Once(e)
BY DEF Once

(* The parts of an IR.                                                      *)
LEMMA PartsType ==
    ASSUME NEW r \in IRs
    PROVE  /\ r.ops \in Seq(Operations) /\ Len(r.ops) \in Nat /\ DOMAIN r.ops = 1 .. Len(r.ops)
           /\ \A k \in 1 .. Len(r.ops) : r.ops[k] \in Operations
           /\ r.args \in Seq(Seq(Ids)) /\ Len(r.args) \in Nat /\ DOMAIN r.args = 1 .. Len(r.args)
           /\ \A b \in 1 .. Len(r.args) : r.args[b] \in Seq(Ids)
           /\ r.stack \in Seq(Blocks) /\ Len(r.stack) \in Nat
           /\ r.next \in Nat \ {0}
BY LenProperties, ElementOfSeq DEF IRs, Ids

(***************************************************************************)
(* Building.                                                                *)
(***************************************************************************)
(* Building may be nothing.                                                 *)
LEMMA UponSelf ==
    ASSUME NEW r \in IRs
    PROVE  r \in Upon(r)
BY PartsType DEF Upon, Shaped

(* What was built upon can be built upon again.                             *)
LEMMA UponTwice ==
    ASSUME NEW r \in IRs, NEW e \in Upon(r)
    PROVE  e \in IRs /\ Upon(e) \subseteq Upon(r)
<1> SUFFICES ASSUME NEW q \in Upon(e) PROVE q \in Upon(r)
  BY DEF Upon
<1>1. r \in IRs /\ e \in IRs /\ q \in IRs
  BY DEF Upon
<1>2. /\ Len(r.ops) \in Nat /\ Len(e.ops) \in Nat /\ Len(q.ops) \in Nat
      /\ Len(r.args) \in Nat /\ Len(e.args) \in Nat /\ Len(q.args) \in Nat
  BY <1>1, PartsType
<1>3. /\ Len(r.ops) <= Len(q.ops) /\ Len(r.args) <= Len(q.args) /\ (Once(r) => Once(q))
  BY <1>2 DEF Upon
<1>4. ASSUME NEW k \in 1 .. Len(r.ops) PROVE Shaped(r.ops[k], q.ops[k])
  <2>1. k \in 1 .. Len(e.ops)
    BY <1>2 DEF Upon
  <2>2. Shaped(r.ops[k], e.ops[k]) /\ Shaped(e.ops[k], q.ops[k])
    BY <2>1 DEF Upon
  <2> QED
    BY <2>2 DEF Shaped
<1>5. ASSUME NEW k \in Len(r.ops) + 1 .. Len(q.ops)
      PROVE  q.ops[k].regions = <<>> /\ q.ops[k].name \notin LoopNames
  <2>1. CASE k <= Len(e.ops)
    <3>1. k \in 1 .. Len(e.ops) /\ k \in Len(r.ops) + 1 .. Len(e.ops)
      BY <1>2, <2>1
    <3>2. Shaped(e.ops[k], q.ops[k]) /\ e.ops[k].regions = <<>> /\ e.ops[k].name \notin LoopNames
      BY <3>1 DEF Upon
    <3> QED
      BY <3>2 DEF Shaped
  <2>2. CASE k > Len(e.ops)
    BY <1>2, <2>2 DEF Upon
  <2> QED
    BY <1>2, <2>1, <2>2
<1> QED
  BY <1>1, <1>3, <1>4, <1>5 DEF Upon

(* A change of the stack, the error or empty blocks only.                   *)
LEMMA UponSameOps ==
    ASSUME NEW r \in IRs, NEW e \in IRs, e.ops = r.ops, Len(r.args) <= Len(e.args),
           Once(r) => Once(e)
    PROVE  e \in Upon(r)
BY PartsType DEF Upon, Shaped

(* A raise keeps what is there.                                             *)
LEMMA RaiseUpon ==
    ASSUME NEW r \in IRs, NEW why \in {"afterTerminator", "parallelCarry"}
    PROVE  Raise(r, why) \in Upon(r)
<1>1. Raise(r, why) \in IRs
  BY RaiseType DEF Emitted
<1>2. /\ Raise(r, why).ops = r.ops /\ Raise(r, why).args = r.args
      /\ Raise(r, why).next = r.next /\ Raise(r, why).err # "none"
  BY DEF Raise, IRs
<1>3. Defs(Raise(r, why)) = Defs(r)
  BY <1>2 DEF Defs, IsArg, IsResult
<1>4. Len(r.args) \in Nat
  BY PartsType
<1> QED
  BY <1>1, <1>2, <1>3, <1>4, OnceSame, UponSameOps

(* A refusal has taken values, which nothing defines.                       *)
LEMMA RefuseUpon ==
    ASSUME NEW r \in IRs, NEW n \in Nat
    PROVE  Refuse(r, n) \in Upon(r)
<1> DEFINE e == Refuse(r, n)
           m == r.next
<1>1. /\ e \in IRs /\ e.err # "none" /\ e.ops = r.ops /\ e.args = r.args /\ e.next = m + n
  BY RefuseType DEF Emitted
<1>2. m \in Nat /\ Len(r.args) \in Nat
  BY PartsType
<1> HIDE DEF e, m
<1>3. Defs(e) = Defs(r)
  BY <1>1 DEF Defs, IsArg, IsResult
<1>4. Numbered(Defs(r), m) => Numbered(Defs(r), m + n)
  BY <1>2 DEF Numbered
<1>5. Once(r) => Once(e)
  BY <1>1, <1>3, <1>4 DEF Once, m
<1>6. e \in Upon(r)
  BY <1>1, <1>2, <1>5, UponSameOps
<1> QED
  BY <1>6 DEF e

(* Pushing and popping change the stack only.                               *)
LEMMA PushRegionUpon ==
    ASSUME NEW r \in IRs, NEW b \in Blocks
    PROVE  /\ PushRegion(r, b) \in Upon(r)
           /\ PushRegion(r, b).stack = Append(r.stack, b) /\ PushRegion(r, b).ops = r.ops
<1>1. PushRegion(r, b) \in IRs
  BY PushRegionType
<1>2. /\ PushRegion(r, b).ops = r.ops /\ PushRegion(r, b).args = r.args
      /\ PushRegion(r, b).next = r.next /\ PushRegion(r, b).stack = Append(r.stack, b)
      /\ PushRegion(r, b).err = r.err
  BY DEF PushRegion, IRs
<1>3. Defs(PushRegion(r, b)) = Defs(r)
  BY <1>2 DEF Defs, IsArg, IsResult
<1>4. Len(r.args) \in Nat
  BY PartsType
<1> QED
  BY <1>1, <1>2, <1>3, <1>4, OnceSame, UponSameOps

(* So does popping.                                                         *)
LEMMA PopRegionUpon ==
    ASSUME NEW r \in IRs, r.stack # <<>>
    PROVE  /\ PopRegion(r) \in Upon(r)
           /\ PopRegion(r).stack = SubSeq(r.stack, 1, Len(r.stack) - 1)
<1>1. /\ PopRegion(r) \in IRs /\ PopRegion(r).ops = r.ops /\ PopRegion(r).args = r.args
      /\ PopRegion(r).next = r.next
  BY PopRegionType
<1>2. PopRegion(r).stack = SubSeq(r.stack, 1, Len(r.stack) - 1) /\ PopRegion(r).err = r.err
  BY DEF PopRegion, IRs
<1>3. Defs(PopRegion(r)) = Defs(r)
  BY <1>1 DEF Defs, IsArg, IsResult
<1>4. Len(r.args) \in Nat
  BY PartsType
<1> QED
  BY <1>1, <1>2, <1>3, <1>4, OnceSame, UponSameOps

(* A new region has a block without arguments.                              *)
LEMMA NewRegionUpon ==
    ASSUME NEW r \in IRs
    PROVE  /\ NewRegion(r) \in Upon(r) /\ NewRegion(r).ops = r.ops
           /\ LastRegion(NewRegion(r)) = Len(r.args) + 1
<1> DEFINE e == NewRegion(r)
           n == Len(r.args)
<1>1. e \in IRs /\ Len(e.args) = n + 1 /\ n \in Nat
  BY NewRegionType, PartsType
<1>2. e.ops = r.ops /\ e.args = Append(r.args, <<>>) /\ e.next = r.next /\ e.err = r.err
  BY DEF NewRegion, IRs
<1>3. /\ DOMAIN r.args = 1 .. n /\ DOMAIN e.args = 1 .. (n + 1)
      /\ \A b \in 1 .. n : e.args[b] = r.args[b]
      /\ e.args[n + 1] = <<>>
  <2>1. r.args \in Seq(Seq(Ids)) /\ <<>> \in Seq(Ids)
    BY PartsType, EmptySeq
  <2> QED
    BY <1>1, <1>2, <2>1, PartsType, AppendProperties, LenProperties
<1> HIDE DEF e, n
<1>4. \A d : IsArg(e, d) <=> IsArg(r, d)
  BY <1>1, <1>3 DEF IsArg
<1>5. Defs(e) = Defs(r)
  BY <1>2, <1>4 DEF Defs, IsResult
<1>6. e \in Upon(r)
  BY <1>1, <1>2, <1>5, OnceSame, UponSameOps DEF n
<1> QED
  BY <1>1, <1>2, <1>6 DEF LastRegion, e, n

(* New arguments of a block that exists take the next ids.                  *)
LEMMA NewArgsUpon ==
    ASSUME NEW r \in IRs, NEW b \in 1 .. Len(r.args), NEW n \in Nat
    PROVE  NewArgs(r, b, n) \in Upon(r)
<1> DEFINE e == NewArgs(r, b, n)
           fresh == Fresh(r, n)
           s == r.args[b]
           f == [i \in 1 .. n |-> [k |-> "arg", i |-> b, j |-> Len(s) + i, v |-> r.next + i - 1]]
<1>1. /\ e \in IRs /\ e.ops = r.ops /\ e.next = r.next + n /\ Len(e.args) = Len(r.args)
  BY NewArgsType
<1>2. /\ fresh \in Seq(Ids) /\ Len(fresh) = n
      /\ \A j \in 1 .. n : fresh[j] = r.next + j - 1
  BY FreshType, Zenon
<1>3. /\ s \in Seq(Ids) /\ Len(s) \in Nat /\ DOMAIN s = 1 .. Len(s)
      /\ DOMAIN r.args = 1 .. Len(r.args) /\ b \in DOMAIN r.args
      /\ r.next \in Nat \ {0} /\ Len(r.args) \in Nat
  BY PartsType, LenProperties
<1>4. e.args = [r.args EXCEPT ![b] = @ \o fresh] /\ e.err = r.err
  BY DEF NewArgs, IRs
<1>5. /\ DOMAIN e.args = DOMAIN r.args
      /\ \A c \in DOMAIN r.args : c # b => e.args[c] = r.args[c]
      /\ e.args[b] = s \o fresh
  BY <1>3, <1>4
<1> HIDE DEF e, fresh, s
<1>6. /\ DOMAIN e.args[b] = 1 .. (Len(s) + n)
      /\ \A j \in 1 .. Len(s) : e.args[b][j] = s[j]
      /\ \A j \in 1 .. n : e.args[b][Len(s) + j] = fresh[j]
  <2>1. s \in Seq(Ids) /\ fresh \in Seq(Ids)
    BY <1>2, <1>3
  <2>2. /\ DOMAIN (s \o fresh) = 1 .. (Len(s) + Len(fresh))
        /\ \A j \in 1 .. Len(s) : (s \o fresh)[j] = s[j]
        /\ \A j \in 1 .. Len(fresh) : (s \o fresh)[Len(s) + j] = fresh[j]
    BY <2>1, ConcatParts
  <2> QED
    BY <1>2, <1>5, <2>2
<1>7. \A i \in 1 .. n : f[i].v = r.next + i - 1
  OBVIOUS
<1>8. \A d : d \in Defs(e) <=> d \in Defs(r) \/ \E i \in 1 .. n : d = f[i]
  <2>1. ASSUME NEW i \in 1 .. n PROVE f[i] \in Defs(e)
    <3>1. f[i] \in Places
      BY <1>3 DEF Places, Ids
    <3>2. IsArg(e, f[i])
      BY <1>2, <1>3, <1>5, <1>6 DEF IsArg
    <3> QED
      BY <3>1, <3>2 DEF Defs
  <2>2. ASSUME NEW d \in Places
        PROVE  IsArg(e, d) <=> IsArg(r, d) \/ \E i \in 1 .. n : d = f[i]
    <3>1. CASE d.k # "arg" \/ d.i # b
      BY <1>3, <1>5, <3>1 DEF IsArg
    <3>2. CASE d.k = "arg" /\ d.i = b /\ d.j \in 1 .. Len(s)
      <4>1. \A i \in 1 .. n : d.j # Len(s) + i
        BY <1>3, <3>2
      <4>2. \A i \in 1 .. n : d # f[i]
        BY <4>1
      <4>3. d.j \in 1 .. (Len(s) + n) /\ e.args[b][d.j] = r.args[b][d.j]
        BY <1>3, <1>6, <3>2 DEF s
      <4> QED
        BY <1>3, <1>5, <1>6, <3>2, <4>2, <4>3 DEF IsArg, s
    <3>3. CASE d.k = "arg" /\ d.i = b /\ d.j \notin 1 .. Len(s)
      <4>1. ~IsArg(r, d)
        BY <1>3, <3>3 DEF IsArg, s
      <4>2. CASE d.j - Len(s) \in 1 .. n
        <5> DEFINE i == d.j - Len(s)
        <5>1. d.j = Len(s) + i /\ i \in 1 .. n
          BY <1>3, <4>2 DEF Places
        <5>2. e.args[b][d.j] = r.next + i - 1 /\ d.j \in DOMAIN e.args[b]
          BY <1>2, <1>3, <1>6, <5>1
        <5>3. IsArg(e, d) <=> d.v = r.next + i - 1
          BY <1>3, <1>5, <3>3, <5>2 DEF IsArg
        <5>4. f[i] = [k |-> "arg", i |-> b, j |-> d.j, v |-> r.next + i - 1]
          BY <5>1
        <5>5. d.v = r.next + i - 1 => d = f[i]
          BY <3>3, <5>4 DEF Places
        <5> QED
          BY <2>1, <5>1, <5>3, <5>5, <4>1 DEF IsArg
      <4>3. CASE d.j - Len(s) \notin 1 .. n
        <5>1. d.j \notin 1 .. (Len(s) + n)
          BY <1>3, <3>3, <4>3 DEF Places
        <5>2. \A i \in 1 .. n : d.j # Len(s) + i
          BY <1>3, <4>3 DEF Places
        <5>3. \A i \in 1 .. n : d # f[i]
          BY <5>2
        <5> QED
          BY <1>6, <3>3, <4>1, <5>1, <5>3 DEF IsArg
      <4> QED
        BY <4>2, <4>3
    <3> QED
      BY <3>1, <3>2, <3>3
  <2>3. \A d : IsResult(e, d) <=> IsResult(r, d)
    BY <1>1 DEF IsResult
  <2> QED
    BY <2>1, <2>2, <2>3 DEF Defs
<1> HIDE DEF f
<1>9. Once(r) => Once(e)
  <2> DEFINE D == Defs(r)
             E == Defs(e)
             m == r.next
  <2>1. /\ m \in Nat /\ \A i \in 1 .. n : f[i].v = m + i - 1
        /\ \A d : d \in E <=> d \in D \/ \E i \in 1 .. n : d = f[i]
    BY <1>3, <1>7, <1>8
  <2> HIDE DEF D, E, m
  <2>2. Numbered(D, m) => Numbered(E, m + n) /\ (Complete(D, m) => Complete(E, m + n))
    BY <2>1, NumberedMore
  <2> QED
    BY <1>1, <1>4, <2>2 DEF Once, D, E, m
<1>10. Len(r.args) <= Len(e.args)
  BY <1>1, <1>3
<1>11. e \in Upon(r)
  BY <1>1, <1>9, <1>10, UponSameOps
<1> QED
  BY <1>11 DEF e

(* One more operation, whose results are the next ids.                      *)
LEMMA OnceOp ==
    ASSUME NEW r \in IRs, NEW e \in IRs, NEW op \in Operations, NEW n \in Nat,
           e.args = r.args, e.next = r.next + n,
           Len(e.ops) = Len(r.ops) + 1, e.ops[Len(r.ops) + 1] = op,
           \A k \in 1 .. Len(r.ops) : e.ops[k] = r.ops[k],
           DOMAIN op.results = 1 .. n, \A j \in 1 .. n : op.results[j] = r.next + j - 1,
           e.err = "none" => r.err = "none"
    PROVE  Once(r) => Once(e)
<1> DEFINE m == Len(r.ops) + 1
           f == [j \in 1 .. n |-> [k |-> "op", i |-> m, j |-> j, v |-> r.next + j - 1]]
<1>1. /\ Len(r.ops) \in Nat /\ r.next \in Nat \ {0}
      /\ DOMAIN r.ops = 1 .. Len(r.ops) /\ DOMAIN e.ops = 1 .. m /\ m \in Nat
  BY PartsType
<1>2. \A i \in 1 .. n : f[i].v = r.next + i - 1
  OBVIOUS
<1>3. \A d : IsArg(e, d) <=> IsArg(r, d)
  BY DEF IsArg
<1>4. ASSUME NEW d \in Places
      PROVE  IsResult(e, d) <=> IsResult(r, d) \/ \E j \in 1 .. n : d = f[j]
  <2>1. CASE d.k # "op"
    <3>1. \A j \in 1 .. n : d # f[j]
      BY <2>1
    <3> QED
      BY <2>1, <3>1 DEF IsResult
  <2>2. CASE d.k = "op" /\ d.i # m
    <3>1. \A j \in 1 .. n : d # f[j]
      BY <2>2
    <3>2. d.i \in DOMAIN e.ops <=> d.i \in DOMAIN r.ops
      BY <1>1, <2>2
    <3> QED
      BY <1>1, <2>2, <3>1, <3>2 DEF IsResult
  <2>3. CASE d.k = "op" /\ d.i = m
    <3>1. ~IsResult(r, d)
      BY <1>1, <2>3 DEF IsResult
    <3>2. IsResult(e, d) <=> d.j \in 1 .. n /\ d.v = r.next + d.j - 1
      <4>1. d.i \in DOMAIN e.ops /\ e.ops[d.i] = op
        BY <1>1, <2>3
      <4>2. \A j \in 1 .. n : op.results[j] = d.v <=> d.v = r.next + j - 1
        OBVIOUS
      <4> QED
        BY <2>3, <4>1, <4>2 DEF IsResult
    <3>3. ASSUME NEW j \in 1 .. n, d = f[j] PROVE d.j \in 1 .. n /\ d.v = r.next + d.j - 1
      BY <3>3
    <3>4. ASSUME d.j \in 1 .. n, d.v = r.next + d.j - 1 PROVE d = f[d.j]
      <4>1. f[d.j] = [k |-> "op", i |-> m, j |-> d.j, v |-> r.next + d.j - 1]
        BY <3>4
      <4> QED
        BY <2>3, <3>4, <4>1 DEF Places
    <3> QED
      BY <3>1, <3>2, <3>3, <3>4
  <2> QED
    BY <2>1, <2>2, <2>3
<1>5. \A j \in 1 .. n : f[j] \in Places
  BY <1>1 DEF Places, Ids
<1>6. \A d : d \in Defs(e) <=> d \in Defs(r) \/ \E i \in 1 .. n : d = f[i]
  BY <1>3, <1>4, <1>5 DEF Defs
<1> HIDE DEF f
<1> DEFINE D == Defs(r)
           E == Defs(e)
           v == r.next
<1>7. /\ v \in Nat /\ \A i \in 1 .. n : f[i].v = v + i - 1
      /\ \A d : d \in E <=> d \in D \/ \E i \in 1 .. n : d = f[i]
  BY <1>1, <1>2, <1>6
<1> HIDE DEF D, E, v
<1>8. Numbered(D, v) => Numbered(E, v + n) /\ (Complete(D, v) => Complete(E, v + n))
  BY <1>7, NumberedMore
<1> QED
  BY <1>8 DEF Once, D, E, v

(* What append_op leaves: a raise, or one more operation.                   *)
LEMMA AppendOpParts ==
    ASSUME NEW r \in IRs, NEW b \in Blocks, NEW name \in OpNames, NEW operands \in Seq(Ids),
           NEW nres \in Nat, NEW regions \in Seq(Blocks), NEW attr \in Int
    PROVE  LET e == AppendOp(r, b, name, operands, nres, regions, attr)
               op == e.ops[Len(r.ops) + 1]
           IN  /\ e \in IRs /\ e.stack = r.stack /\ e.args = r.args /\ (Once(r) => Once(e))
               /\ \/ e.ops = r.ops /\ e.err # "none"
                  \/ /\ e.err = "none" /\ Len(e.ops) = Len(r.ops) + 1
                     /\ \A k \in 1 .. Len(r.ops) : e.ops[k] = r.ops[k]
                     /\ op.name = name /\ op.blk = b /\ op.operands = operands
                     /\ op.regions = regions /\ Len(op.results) = nres
<1> DEFINE op == [name |-> name, blk |-> b, operands |-> operands, results |-> Fresh(r, nres),
                  regions |-> regions, attr |-> attr]
           e == AppendOp(r, b, name, operands, nres, regions, attr)
<1>1. e \in IRs /\ e.stack = r.stack /\ e.args = r.args
  BY AppendOpType DEF Emitted
<1>2. CASE r.err # "none"
  <2>1. e = r
    BY <1>2 DEF AppendOp
  <2> QED
    BY <1>1, <1>2, <2>1
<1>3. CASE r.err = "none" /\ Terminated(r, b)
  <2>1. e = Refuse(r, nres)
    BY <1>3 DEF AppendOp
  <2>2. e.ops = r.ops /\ e.err # "none" /\ (Once(r) => Once(e))
    BY <2>1, RefuseType, RefuseUpon DEF Upon
  <2> QED
    BY <1>1, <2>2
<1>4. CASE r.err = "none" /\ ~Terminated(r, b)
  <2>1. /\ Fresh(r, nres) \in Seq(Ids) /\ DOMAIN Fresh(r, nres) = 1 .. nres
        /\ Len(Fresh(r, nres)) = nres
        /\ \A j \in 1 .. nres : Fresh(r, nres)[j] = r.next + j - 1
    BY FreshType, Zenon
  <2>2. /\ op \in Operations /\ op.results = Fresh(r, nres) /\ op.name = name /\ op.blk = b
        /\ op.operands = operands /\ op.regions = regions
    BY <2>1 DEF Operations
  <2>3. e = [r EXCEPT !.ops = Append(r.ops, op), !.next = r.next + nres]
    BY <1>4 DEF AppendOp
  <2> HIDE DEF op, e
  <2>4. e.ops = Append(r.ops, op) /\ e.err = "none" /\ e.next = r.next + nres
    BY <1>4, <2>3 DEF IRs
  <2>5. /\ Len(e.ops) = Len(r.ops) + 1 /\ e.ops[Len(r.ops) + 1] = op
        /\ \A k \in 1 .. Len(r.ops) : e.ops[k] = r.ops[k]
    <3>1. r.ops \in Seq(Operations)
      BY PartsType
    <3> QED
      BY <2>2, <2>4, <3>1, LenProperties, AppendProperties
  <2>6. Once(r) => Once(e)
    <3>1. DOMAIN op.results = 1 .. nres /\ \A j \in 1 .. nres : op.results[j] = r.next + j - 1
      BY <2>1, <2>2
    <3>2. op \in Operations
      BY <2>2
    <3> QED
      BY <1>1, <1>4, <2>4, <2>5, <3>1, <3>2, OnceOp
  <2> QED
    BY <1>1, <2>1, <2>2, <2>4, <2>5, <2>6 DEF e
<1> QED
  BY <1>2, <1>3, <1>4

(* An operation without regions that is no loop.                            *)
LEMMA AppendOpUpon ==
    ASSUME NEW r \in IRs, NEW b \in Blocks, NEW name \in OpNames \ LoopNames,
           NEW operands \in Seq(Ids), NEW nres \in Nat, NEW attr \in Int
    PROVE  AppendOp(r, b, name, operands, nres, <<>>, attr) \in Upon(r)
<1> DEFINE none == <<>>
           e == AppendOp(r, b, name, operands, nres, none, attr)
           op == e.ops[Len(r.ops) + 1]
<1>1. none \in Seq(Blocks) /\ name \in OpNames
  BY EmptySeq
<1> HIDE DEF none
<1>2. /\ e \in IRs /\ e.stack = r.stack /\ e.args = r.args /\ (Once(r) => Once(e))
      /\ \/ e.ops = r.ops /\ e.err # "none"
         \/ /\ e.err = "none" /\ Len(e.ops) = Len(r.ops) + 1
            /\ \A k \in 1 .. Len(r.ops) : e.ops[k] = r.ops[k]
            /\ op.name = name /\ op.blk = b /\ op.operands = operands
            /\ op.regions = none /\ Len(op.results) = nres
  BY <1>1, AppendOpParts
<1> HIDE DEF e
<1>3. Len(r.args) \in Nat /\ Len(r.ops) \in Nat
  BY PartsType
<1>4. ASSUME e.ops = r.ops PROVE e \in Upon(r)
  BY <1>2, <1>3, <1>4, UponSameOps
<1>5. ASSUME e.ops # r.ops PROVE e \in Upon(r)
  <2>1. \A k \in Len(r.ops) + 1 .. Len(e.ops) : k = Len(r.ops) + 1
    BY <1>2, <1>3, <1>5
  <2> QED
    BY <1>2, <1>3, <1>5, <2>1 DEF Upon, Shaped, none
<1> QED
  BY <1>4, <1>5 DEF e, none

(* One const for each number.                                               *)
LEMMA OnceConsts ==
    ASSUME NEW r \in IRs, NEW e \in IRs, NEW n \in Nat, e.args = r.args, e.next = r.next + n,
           Len(e.ops) = Len(r.ops) + n,
           \A k \in 1 .. Len(r.ops) : e.ops[k] = r.ops[k],
           \A c \in 1 .. n : e.ops[Len(r.ops) + c].results = <<r.next + c - 1>>,
           e.err = "none" => r.err = "none"
    PROVE  Once(r) => Once(e)
<1> DEFINE m == Len(r.ops)
           f == [c \in 1 .. n |-> [k |-> "op", i |-> m + c, j |-> 1, v |-> r.next + c - 1]]
<1>1. /\ m \in Nat /\ r.next \in Nat \ {0}
      /\ DOMAIN r.ops = 1 .. m /\ DOMAIN e.ops = 1 .. (m + n)
  BY PartsType
<1>2. \A i \in 1 .. n : f[i].v = r.next + i - 1
  OBVIOUS
<1>3. \A d : IsArg(e, d) <=> IsArg(r, d)
  BY DEF IsArg
<1>4. ASSUME NEW d \in Places
      PROVE  IsResult(e, d) <=> IsResult(r, d) \/ \E j \in 1 .. n : d = f[j]
  <2>1. CASE d.k # "op"
    <3>1. \A j \in 1 .. n : d # f[j]
      BY <2>1
    <3> QED
      BY <2>1, <3>1 DEF IsResult
  <2>2. CASE d.k = "op" /\ d.i \notin m + 1 .. m + n
    <3>1. \A j \in 1 .. n : d.i # m + j
      BY <1>1, <2>2
    <3>2. \A j \in 1 .. n : d # f[j]
      <4>1. \A j \in 1 .. n : f[j].i = m + j
        OBVIOUS
      <4> QED
        BY <3>1, <4>1
    <3>3. d.i \in DOMAIN e.ops <=> d.i \in DOMAIN r.ops
      BY <1>1, <2>2
    <3> QED
      BY <1>1, <2>2, <3>2, <3>3 DEF IsResult
  <2>3. CASE d.k = "op" /\ d.i \in m + 1 .. m + n
    <3> DEFINE c == d.i - m
    <3>1. ~IsResult(r, d)
      BY <1>1, <2>3 DEF IsResult
    <3>2. c \in 1 .. n /\ d.i = m + c /\ d.i \in DOMAIN e.ops
      BY <1>1, <2>3
    <3>3. f[c] = [k |-> "op", i |-> d.i, j |-> 1, v |-> r.next + c - 1]
      BY <3>2
    <3> HIDE DEF c
    <3>4. e.ops[d.i].results = <<r.next + c - 1>>
      BY <3>2
    <3>5. IsResult(e, d) <=> d.j = 1 /\ d.v = r.next + c - 1
      <4>1. DOMAIN e.ops[d.i].results = {1} /\ e.ops[d.i].results[1] = r.next + c - 1
        BY <3>4
      <4> QED
        BY <2>3, <3>2, <4>1 DEF IsResult
    <3>6. d.j = 1 /\ d.v = r.next + c - 1 => d = f[c]
      BY <2>3, <3>3 DEF Places
    <3>7. ASSUME NEW j \in 1 .. n, d = f[j] PROVE d.j = 1 /\ d.v = r.next + c - 1
      <4>1. d.i = m + j /\ d.j = 1 /\ d.v = r.next + j - 1
        BY <3>7
      <4>2. j = c
        BY <1>1, <3>2, <4>1
      <4> QED
        BY <4>1, <4>2
    <3> QED
      BY <3>1, <3>2, <3>5, <3>6, <3>7
  <2> QED
    BY <2>1, <2>2, <2>3
<1>5. \A j \in 1 .. n : f[j] \in Places
  BY <1>1 DEF Places, Ids
<1>6. \A d : d \in Defs(e) <=> d \in Defs(r) \/ \E i \in 1 .. n : d = f[i]
  BY <1>3, <1>4, <1>5 DEF Defs
<1> HIDE DEF f
<1> DEFINE D == Defs(r)
           E == Defs(e)
           v == r.next
<1>7. /\ v \in Nat /\ \A i \in 1 .. n : f[i].v = v + i - 1
      /\ \A d : d \in E <=> d \in D \/ \E i \in 1 .. n : d = f[i]
  BY <1>1, <1>2, <1>6
<1> HIDE DEF D, E, v
<1>8. Numbered(D, v) => Numbered(E, v + n) /\ (Complete(D, v) => Complete(E, v + n))
  BY <1>7, NumberedMore
<1> QED
  BY <1>8 DEF Once, D, E, v

(* ensure_value appends consts.                                             *)
LEMMA EnsureUpon ==
    ASSUME NEW r \in IRs, r.stack # <<>>, NEW objs \in Seq(Objs)
    PROVE  Ensure(r, objs) \in Upon(r)
<1> DEFINE e == Ensure(r, objs)
           C == Nums(objs)
           n == Cardinality(C)
           consts == Consts(r, objs)
<1>1. e \in IRs /\ e.args = r.args
  BY EnsureType DEF Emitted
<1>2. n \in Nat /\ Len(r.ops) \in Nat /\ Len(r.args) \in Nat
  BY NumsType, PartsType
<1>3. CASE r.err # "none" \/ C = {}
  <2>1. e = r
    BY <1>3 DEF Ensure
  <2> QED
    BY <2>1, UponSelf
<1>4. CASE r.err = "none" /\ C # {} /\ Terminated(r, Block(r))
  <2>1. e = Refuse(r, 1)
    BY <1>4 DEF Ensure
  <2> QED
    BY <2>1, RefuseUpon
<1>5. CASE r.err = "none" /\ C # {} /\ ~Terminated(r, Block(r))
  <2>1. e = [r EXCEPT !.ops = r.ops \o consts, !.next = r.next + n]
    BY <1>5 DEF Ensure
  <2>2. /\ DOMAIN consts = 1 .. n
        /\ \A c \in 1 .. n : /\ consts[c].name = "const" /\ consts[c].regions = <<>>
                             /\ consts[c].results = <<r.next + c - 1>>
    BY DEF Consts
  <2>3. consts \in Seq(Operations) /\ Len(consts) = n
    BY ConstsType
  <2> HIDE DEF e, C, n, consts
  <2>4. e.ops = r.ops \o consts /\ e.next = r.next + n
    BY <2>1 DEF IRs
  <2>5. r.ops \in Seq(Operations)
    BY PartsType
  <2>6. /\ DOMAIN e.ops = 1 .. (Len(r.ops) + n)
        /\ \A k \in 1 .. Len(r.ops) : e.ops[k] = r.ops[k]
        /\ \A c \in 1 .. n : e.ops[Len(r.ops) + c] = consts[c]
    BY <2>3, <2>4, <2>5, ConcatParts
  <2>7. Len(e.ops) = Len(r.ops) + n
    BY <2>3, <2>4, <2>5, ConcatProperties
  <2>8. \A c \in 1 .. n : e.ops[Len(r.ops) + c].results = <<r.next + c - 1>>
    BY <2>2, <2>6
  <2>9. Once(r) => Once(e)
    BY <1>1, <1>2, <1>5, <2>4, <2>6, <2>7, <2>8, OnceConsts
  <2>10. ASSUME NEW k \in Len(r.ops) + 1 .. Len(e.ops)
         PROVE  e.ops[k].regions = <<>> /\ e.ops[k].name \notin LoopNames
    <3>1. k - Len(r.ops) \in 1 .. n /\ Len(r.ops) + (k - Len(r.ops)) = k
      BY <1>2, <2>7
    <3>2. e.ops[k] = consts[k - Len(r.ops)]
      BY <2>6, <3>1
    <3> QED
      BY <2>2, <3>1, <3>2 DEF LoopNames
  <2>11. e \in Upon(r)
    BY <1>1, <1>2, <2>6, <2>7, <2>9, <2>10 DEF Upon, Shaped
  <2> QED
    BY <2>11 DEF e
<1> QED
  BY <1>3, <1>4, <1>5

(* An emitting method without regions.                                      *)
LEMMA EmitUpon ==
    ASSUME NEW r \in IRs, r.stack # <<>>, NEW name \in OpNames \ LoopNames,
           NEW objs \in Seq(Objs), NEW nres \in Nat, NEW attr \in Int
    PROVE  /\ Emit(r, name, objs, nres, <<>>, attr) \in Upon(r)
           /\ Emit(r, name, objs, nres, <<>>, attr).stack = r.stack
<1> DEFINE q == Ensure(r, objs)
           ids == EnsureIds(r, objs)
           e == AppendOp(q, Block(r), name, ids, nres, <<>>, attr)
<1>1. /\ q \in Upon(r) /\ q \in IRs /\ q.stack = r.stack
      /\ ids \in Seq(Ids) /\ Block(r) \in Blocks
  BY EnsureUpon, EnsureType, EnsureIdsType, BlockType DEF Emitted
<1> HIDE DEF q, ids
<1>2. e \in Upon(q)
  BY <1>1, AppendOpUpon
<1>3. e.stack = q.stack
  <2>1. <<>> \in Seq(Blocks) /\ name \in OpNames
    BY EmptySeq
  <2>2. e \in Emitted(q)
    BY <1>1, <2>1, AppendOpType, Zenon
  <2> QED
    BY <2>2 DEF Emitted
<1>4. e \in Upon(r)
  BY <1>1, <1>2, UponTwice
<1> QED
  BY <1>1, <1>3, <1>4 DEF Emit, q, ids

(***************************************************************************)
(* Expressions: what they append builds upon the IR there is.               *)
(***************************************************************************)
Builds(r) == {e \in Emissions(r) : e.ir \in Upon(r)}

(* What an expression built can be built upon by the next.                  *)
LEMMA BuildsType ==
    ASSUME NEW r \in IRs, r.stack # <<>>, NEW e \in Builds(r)
    PROVE  /\ e.ir \in IRs /\ e.ir \in Upon(r) /\ e.ir.stack = r.stack /\ e.ir.stack # <<>>
           /\ e.o \in Objs
           /\ Builds(e.ir) \subseteq Builds(r) /\ Upon(e.ir) \subseteq Upon(r)
<1>1. e \in Emissions(r) /\ e.ir \in Upon(r)
  BY DEF Builds
<1>2. /\ e.ir \in IRs /\ e.ir.stack = r.stack /\ e.ir.stack # <<>> /\ e.o \in Objs
      /\ Emissions(e.ir) \subseteq Emissions(r)
  BY <1>1, EmissionsType
<1>3. Upon(e.ir) \subseteq Upon(r)
  BY <1>1, UponTwice
<1>4. Builds(e.ir) \subseteq Builds(r)
  BY <1>2, <1>3 DEF Builds
<1> QED
  BY <1>1, <1>2, <1>3, <1>4

(* emit_value.                                                              *)
LEMMA EmitValueUpon ==
    ASSUME NEW r \in IRs, r.stack # <<>>, NEW name \in OpNames \ LoopNames,
           NEW objs \in Seq(Objs)
    PROVE  EmitValue(r, name, objs) \in Builds(r)
<1>1. EmitValue(r, name, objs) \in Emissions(r)
  BY EmitValueType
<1>2. 1 \in Nat /\ 0 \in Int
  OBVIOUS
<1>3. Emit(r, name, objs, 1, <<>>, 0) \in Upon(r)
  BY <1>2, EmitUpon, Zenon
<1>4. EmitValue(r, name, objs).ir = Emit(r, name, objs, 1, <<>>, 0)
  BY DEF EmitValue
<1> QED
  BY <1>1, <1>3, <1>4 DEF Builds

(* Python arithmetic that appends nothing.                                  *)
LEMMA PureUpon ==
    ASSUME NEW r \in IRs, NEW o \in Objs
    PROVE  Pure(r, o) \in Builds(r)
<1>1. r \in Upon(r) /\ r \in Emitted(r)
  BY UponSelf DEF Emitted
<1> QED
  BY <1>1 DEF Pure, Builds, Emissions

(* x + y.                                                                   *)
LEMMA AddUpon ==
    ASSUME NEW r \in IRs, r.stack # <<>>, NEW a \in Objs, NEW b \in Objs
    PROVE  Add(r, a, b) \in Builds(r)
<1>1. Num(a.n + b.n) \in Objs
  BY ObjsType DEF Objs, Num
<1>2. "add" \in OpNames \ LoopNames /\ <<a, b>> \in Seq(Objs)
  BY OperandsType DEF OpNames, LoopNames
<1>3. Pure(r, Num(a.n + b.n)) \in Builds(r) /\ EmitValue(r, "add", <<a, b>>) \in Builds(r)
  BY <1>1, <1>2, PureUpon, EmitValueUpon
<1> QED
  BY <1>3 DEF Add

(* x < y.                                                                   *)
LEMMA LessUpon ==
    ASSUME NEW r \in IRs, r.stack # <<>>, NEW a \in Objs, NEW b \in Objs
    PROVE  Less(r, a, b) \in Builds(r)
<1>1. Num(IF a.n < b.n THEN 1 ELSE 0) \in Objs
  BY DEF Objs, Num
<1>2. /\ "gt" \in OpNames \ LoopNames /\ "lt" \in OpNames \ LoopNames
      /\ <<a, b>> \in Seq(Objs) /\ <<b, a>> \in Seq(Objs)
  BY OperandsType DEF OpNames, LoopNames
<1>3. /\ Pure(r, Num(IF a.n < b.n THEN 1 ELSE 0)) \in Builds(r)
      /\ EmitValue(r, "gt", <<b, a>>) \in Builds(r)
      /\ EmitValue(r, "lt", <<a, b>>) \in Builds(r)
  BY <1>1, <1>2, PureUpon, EmitValueUpon
<1> QED
  BY <1>3 DEF Less

(* B[x].                                                                    *)
LEMMA LoadUpon ==
    ASSUME NEW r \in IRs, r.stack # <<>>, NEW a \in Objs
    PROVE  Load(r, a) \in Builds(r)
<1>1. "load" \in OpNames \ LoopNames /\ <<Buffer, a>> \in Seq(Objs)
  BY OperandsType, BufferType DEF OpNames, LoopNames
<1> QED
  BY <1>1, EmitValueUpon DEF Load

(* Conditions.                                                              *)
LEMMA ConditionUpon ==
    ASSUME NEW r \in IRs, r.stack # <<>>, NEW a \in Objs, NEW b \in Objs, NEW c \in Conditions
    PROVE  Condition(r, c, a, b) \in Builds(r)
<1> DEFINE lt == Less(r, a, b)
           ld == Load(IF c = "and" THEN lt.ir ELSE r, a)
           right == Less(ld.ir, ld.o, b)
           both == EmitValue(right.ir, "and", <<lt.o, right.o>>)
<1>1. lt \in Builds(r)
  BY LessUpon
<1> HIDE DEF lt
<1>2. ld \in Builds(r)
  <2>1. CASE c = "and"
    BY <1>1, <2>1, BuildsType, LoadUpon
  <2>2. CASE c # "and"
    BY <2>2, LoadUpon
  <2> QED
    BY <2>1, <2>2
<1> HIDE DEF ld
<1>3. right \in Builds(r)
  BY <1>2, BuildsType, LessUpon
<1> HIDE DEF right
<1>4. both \in Builds(r)
  <2>1. "and" \in OpNames \ LoopNames /\ <<lt.o, right.o>> \in Seq(Objs)
    BY <1>1, <1>3, BuildsType, OperandsType DEF OpNames, LoopNames
  <2>2. right.ir \in IRs /\ right.ir.stack # <<>> /\ Builds(right.ir) \subseteq Builds(r)
    BY <1>3, BuildsType
  <2>3. both \in Builds(right.ir)
    BY <2>1, <2>2, EmitValueUpon, Zenon
  <2> QED
    BY <2>2, <2>3
<1> QED
  BY <1>1, <1>3, <1>4 DEF Condition, Conditions, lt, ld, right

(* A conditional expression.                                                *)
LEMMA IfExpUpon ==
    ASSUME NEW r \in IRs, r.stack # <<>>, NEW a \in Objs, NEW b \in Objs
    PROVE  IfExp(r, a, b) \in Builds(r)
<1> DEFINE lt == Less(r, a, b)
           ld == Load(lt.ir, a)
           sel == EmitValue(ld.ir, "select", <<lt.o, ld.o, b>>)
<1>1. lt \in Builds(r)
  BY LessUpon
<1> HIDE DEF lt
<1>2. ld \in Builds(r)
  BY <1>1, BuildsType, LoadUpon
<1> HIDE DEF ld
<1>3. sel \in Builds(r)
  <2>1. "select" \in OpNames \ LoopNames /\ <<lt.o, ld.o, b>> \in Seq(Objs)
    BY <1>1, <1>2, BuildsType, OperandsType DEF OpNames, LoopNames
  <2>2. ld.ir \in IRs /\ ld.ir.stack # <<>> /\ Builds(ld.ir) \subseteq Builds(r)
    BY <1>2, BuildsType
  <2>3. sel \in Builds(ld.ir)
    BY <2>1, <2>2, EmitValueUpon, Zenon
  <2> QED
    BY <2>2, <2>3
<1> QED
  BY <1>3 DEF IfExp, lt, ld

(* The right-hand side of an assignment to a name.                          *)
LEMMA ValueUpon ==
    ASSUME TypeOK, ir.stack # <<>>, NEW st \in Menu,
           st.s \in {"num", "name", "add", "load", "ifexp"}
    PROVE  Value(st) \in Builds(ir)
<1> DEFINE o == Rvals(st.arg)
<1>1. \A j \in 1 .. Len(st.arg) : o[j] \in Objs
  BY StatementType, RvalsType DEF TypeOK
<1>2. st.n \in Int /\ ir \in IRs
  BY StatementType DEF TypeOK
<1>3. CASE st.s = "num"
  <2>1. Num(st.n) \in Objs
    BY <1>2 DEF Num, Objs
  <2> QED
    BY <1>2, <1>3, <2>1, PureUpon DEF Value
<1>4. CASE st.s \in {"name", "load"}
  <2>1. Len(st.arg) = 1
    BY <1>4, StatementType DEF WellFormed, Shape
  <2>2. o[1] \in Objs
    BY <1>1, <2>1
  <2> QED
    BY <1>2, <1>4, <2>2, PureUpon, LoadUpon DEF Value
<1>5. CASE st.s \in {"add", "ifexp"}
  <2>1. Len(st.arg) = 2
    BY <1>5, StatementType DEF WellFormed, Shape
  <2>2. o[1] \in Objs /\ o[2] \in Objs
    BY <1>1, <2>1
  <2>3. Add(ir, o[1], o[2]) \in Builds(ir) /\ IfExp(ir, o[1], o[2]) \in Builds(ir)
    BY <1>2, <2>2, AddUpon, IfExpUpon
  <2> QED
    BY <1>5, <2>3 DEF Value
<1> QED
  BY <1>3, <1>4, <1>5

(* A store to the buffer.                                                   *)
LEMMA StoreUpon ==
    ASSUME NEW r \in IRs, r.stack # <<>>, NEW v \in Objs, NEW i \in Objs
    PROVE  Store(r, v, i) \in Upon(r) /\ Store(r, v, i).stack = r.stack
<1>1. "store" \in OpNames \ LoopNames /\ <<v, Buffer, i>> \in Seq(Objs) /\ 0 \in Nat /\ 0 \in Int
  BY OperandsType, BufferType DEF OpNames, LoopNames
<1> QED
  BY <1>1, EmitUpon, Zenon DEF Store

(***************************************************************************)
(* The end of a loop builds upon the IR, up to the append of the loop.      *)
(***************************************************************************)
(* Rewiring changes operands only.                                          *)
LEMMA ReplaceRegionUsesUpon ==
    ASSUME NEW r \in IRs, NEW b, NEW olds \in Seq(Ids), NEW news \in Seq(Ids),
           Len(news) = Len(olds)
    PROVE  ReplaceRegionUses(r, b, olds, news) \in Upon(r)
<1> DEFINE e == ReplaceRegionUses(r, b, olds, news)
<1>1. /\ e \in IRs /\ e.args = r.args /\ e.next = r.next /\ Len(e.ops) = Len(r.ops)
  BY ReplaceRegionUsesType DEF Emitted
<1>2. /\ DOMAIN r.ops = 1 .. Len(r.ops) /\ DOMAIN e.ops = 1 .. Len(r.ops)
      /\ Len(r.ops) \in Nat /\ Len(r.args) \in Nat
      /\ \A k \in 1 .. Len(r.ops) : r.ops[k] \in Operations
  BY <1>1, PartsType
<1>3. \A k \in 1 .. Len(r.ops) : e.ops[k] = Rewired(r.ops[k], olds, news) \/ e.ops[k] = r.ops[k]
  BY <1>2 DEF ReplaceRegionUses, IRs
<1> HIDE DEF e
<1>4. ASSUME NEW op \in Operations PROVE Shaped(op, Rewired(op, olds, news))
  <2> DEFINE rewired == [j \in DOMAIN op.operands |-> Redirect(op.operands[j], olds, news)]
             n == Len(op.operands)
  <2>1. op.operands \in Seq(Ids)
    BY DEF Operations
  <2>2. DOMAIN op.operands = 1 .. n /\ n \in Nat /\ \A j \in 1 .. n : op.operands[j] \in Ids
    BY <2>1, LenProperties, ElementOfSeq
  <2>3. rewired \in [1 .. n -> Ids]
    BY <2>2, RedirectType
  <2>4. Len(rewired) = n
    BY <2>2, <2>3, FunctionIsSeq
  <2>5. Rewired(op, olds, news) = [op EXCEPT !.operands = rewired]
    BY DEF Rewired
  <2> HIDE DEF rewired
  <2> QED
    BY <2>4, <2>5 DEF Operations, Shaped
<1>5. \A k \in 1 .. Len(r.ops) : Shaped(r.ops[k], e.ops[k])
  BY <1>2, <1>3, <1>4 DEF Shaped
<1>6. \A d : IsResult(e, d) <=> IsResult(r, d)
  BY <1>2, <1>5 DEF IsResult, Shaped
<1>7. Defs(e) = Defs(r)
  BY <1>1, <1>6 DEF Defs, IsArg
<1>8. Once(r) => Once(e)
  <2>1. e.err = r.err
    BY DEF e, ReplaceRegionUses, IRs
  <2> QED
    BY <1>1, <1>7, <2>1, OnceSame
<1>9. e \in Upon(r)
  BY <1>1, <1>2, <1>5, <1>8 DEF Upon
<1> QED
  BY <1>9 DEF e

(* The yield of the final values is no loop.                                *)
LEMMA YieldFinalsUpon ==
    ASSUME NEW r \in IRs, NEW b \in Blocks, NEW finals \in Seq(Ids)
    PROVE  YieldFinals(r, b, finals) \in Upon(r)
<1>1. "yield" \in OpNames \ LoopNames /\ 0 \in Nat /\ 0 \in Int
  BY DEF OpNames, Terminators, LoopNames
<1>2. AppendOp(r, b, "yield", finals, 0, <<>>, 0) \in Upon(r)
  BY <1>1, AppendOpUpon, Zenon
<1> QED
  BY <1>2, UponSelf DEF YieldFinals

(***************************************************************************)
(* The tree of regions, and the yields of loops.                            *)
(***************************************************************************)
(* Each region belongs to one place, of an operation in an older block.     *)
Tree(r) ==
    /\ \A k \in 1 .. Len(r.ops) : \A i \in DOMAIN r.ops[k].regions :
         r.ops[k].regions[i] \in 2 .. Len(r.args) /\ r.ops[k].blk < r.ops[k].regions[i]
    /\ \A k, l \in 1 .. Len(r.ops) :
         \A i \in DOMAIN r.ops[k].regions : \A j \in DOMAIN r.ops[l].regions :
           r.ops[k].regions[i] = r.ops[l].regions[j] => k = l /\ i = j

(* Region b belongs to no operation.                                        *)
Free(r, b) == \A k \in 1 .. Len(r.ops) : \A i \in DOMAIN r.ops[k].regions : r.ops[k].regions[i] # b

(* Operation y is the yield of a loop, in its first region.                 *)
YieldsTo(r, y, loop) ==
    /\ r.ops[y].blk = loop.regions[1]
    /\ r.ops[y].name = "yield" /\ Len(r.ops[y].operands) = Len(loop.results)
Yields(r) ==
    \A k \in 1 .. Len(r.ops) :
        r.ops[k].name \in LoopNames /\ r.ops[k].results # <<>>
          => \E y \in 1 .. Len(r.ops) : YieldsTo(r, y, r.ops[k])

(* Building adds no region to an operation,                                 *)
LEMMA TreeUpon ==
    ASSUME NEW r \in IRs, NEW e \in Upon(r), Tree(r)
    PROVE  /\ Tree(e)
           /\ \A b : Free(r, b) => Free(e, b)
           /\ \A b : b \notin 1 .. Len(r.args) => Free(e, b)
<1>1. Len(r.ops) \in Nat /\ Len(e.ops) \in Nat /\ Len(r.args) \in Nat /\ Len(e.args) \in Nat
  BY PartsType DEF Upon
<1>2. ASSUME NEW k \in 1 .. Len(e.ops), NEW i \in DOMAIN e.ops[k].regions
      PROVE  /\ k \in 1 .. Len(r.ops)
             /\ e.ops[k].regions = r.ops[k].regions /\ e.ops[k].blk = r.ops[k].blk
  <2>1. CASE k \in 1 .. Len(r.ops)
    BY <2>1 DEF Upon, Shaped
  <2>2. CASE k \notin 1 .. Len(r.ops)
    <3>1. k \in Len(r.ops) + 1 .. Len(e.ops)
      BY <1>1, <2>2
    <3>2. e.ops[k].regions = <<>>
      BY <3>1 DEF Upon
    <3> QED
      BY <1>2, <3>2
  <2> QED
    BY <2>1, <2>2
<1>3. Tree(e)
  <2>1. ASSUME NEW k \in 1 .. Len(e.ops), NEW i \in DOMAIN e.ops[k].regions
        PROVE  e.ops[k].regions[i] \in 2 .. Len(e.args) /\ e.ops[k].blk < e.ops[k].regions[i]
    <3>1. /\ k \in 1 .. Len(r.ops) /\ i \in DOMAIN r.ops[k].regions
          /\ e.ops[k].regions[i] = r.ops[k].regions[i] /\ e.ops[k].blk = r.ops[k].blk
      BY <1>2
    <3>2. r.ops[k].regions[i] \in 2 .. Len(r.args) /\ r.ops[k].blk < r.ops[k].regions[i]
      BY <3>1 DEF Tree
    <3>3. Len(r.args) <= Len(e.args)
      BY DEF Upon
    <3> QED
      BY <1>1, <3>1, <3>2, <3>3
  <2>2. ASSUME NEW k \in 1 .. Len(e.ops), NEW l \in 1 .. Len(e.ops),
               NEW i \in DOMAIN e.ops[k].regions, NEW j \in DOMAIN e.ops[l].regions,
               e.ops[k].regions[i] = e.ops[l].regions[j]
        PROVE  k = l /\ i = j
    <3>1. k \in 1 .. Len(r.ops) /\ e.ops[k].regions = r.ops[k].regions
      BY <1>2
    <3>2. l \in 1 .. Len(r.ops) /\ e.ops[l].regions = r.ops[l].regions
      BY <1>2
    <3>3. r.ops[k].regions[i] = r.ops[l].regions[j]
      BY <2>2, <3>1, <3>2
    <3> QED
      BY <3>1, <3>2, <3>3 DEF Tree
  <2> QED
    BY <2>1, <2>2 DEF Tree
<1>4. \A b : Free(r, b) => Free(e, b)
  BY <1>2 DEF Free
<1>5. \A b : b \notin 1 .. Len(r.args) => Free(r, b)
  BY <1>1 DEF Free, Tree
<1> QED
  BY <1>3, <1>4, <1>5

(* appends no loop, and leaves every yield as long as it was.               *)
LEMMA YieldsUpon ==
    ASSUME NEW r \in IRs, NEW e \in Upon(r), Yields(r)
    PROVE  Yields(e)
<1>1. Len(r.ops) \in Nat /\ Len(e.ops) \in Nat /\ Len(r.ops) <= Len(e.ops)
  BY PartsType DEF Upon
<1> SUFFICES ASSUME NEW k \in 1 .. Len(e.ops), e.ops[k].name \in LoopNames,
                    e.ops[k].results # <<>>
             PROVE  \E y \in 1 .. Len(e.ops) : YieldsTo(e, y, e.ops[k])
  BY DEF Yields
<1>2. k \in 1 .. Len(r.ops)
  <2>1. k \notin Len(r.ops) + 1 .. Len(e.ops)
    BY DEF Upon
  <2> QED
    BY <1>1, <2>1
<1>3. \A y \in 1 .. Len(r.ops) : Shaped(r.ops[y], e.ops[y])
  BY DEF Upon
<1>4. PICK y \in 1 .. Len(r.ops) : YieldsTo(r, y, r.ops[k])
  BY <1>2, <1>3 DEF Yields, Shaped
<1>5. YieldsTo(e, y, e.ops[k]) /\ y \in 1 .. Len(e.ops)
  BY <1>1, <1>2, <1>3, <1>4 DEF YieldsTo, Shaped
<1> QED
  BY <1>5

(* An operation with regions, in an older block than all of them, none of   *)
(* which belongs to an operation yet.                                       *)
LEMMA TreeOp ==
    ASSUME NEW r \in IRs, Tree(r), NEW e \in IRs, e.args = r.args,
           Len(e.ops) = Len(r.ops) + 1, \A k \in 1 .. Len(r.ops) : e.ops[k] = r.ops[k],
           NEW b, NEW regions, e.ops[Len(r.ops) + 1].blk = b,
           e.ops[Len(r.ops) + 1].regions = regions,
           \A i \in DOMAIN regions : /\ regions[i] \in 2 .. Len(r.args) /\ b < regions[i]
                                     /\ Free(r, regions[i]),
           \A i, j \in DOMAIN regions : regions[i] = regions[j] => i = j
    PROVE  /\ Tree(e)
           /\ \A c : Free(r, c) /\ (\A i \in DOMAIN regions : regions[i] # c) => Free(e, c)
<1> DEFINE m == Len(r.ops) + 1
<1>1. Len(r.ops) \in Nat
  BY PartsType
<1>2. \A k \in 1 .. Len(e.ops) : k \in 1 .. Len(r.ops) \/ k = m
  BY <1>1
<1>3. ASSUME NEW k \in 1 .. Len(e.ops), NEW i \in DOMAIN e.ops[k].regions
      PROVE  e.ops[k].regions[i] \in 2 .. Len(e.args) /\ e.ops[k].blk < e.ops[k].regions[i]
  <2>1. CASE k \in 1 .. Len(r.ops)
    BY <1>3, <2>1 DEF Tree
  <2>2. CASE k = m
    BY <1>3, <2>2
  <2> QED
    BY <1>2, <2>1, <2>2
<1>4. ASSUME NEW k \in 1 .. Len(e.ops), NEW l \in 1 .. Len(e.ops),
             NEW i \in DOMAIN e.ops[k].regions, NEW j \in DOMAIN e.ops[l].regions,
             e.ops[k].regions[i] = e.ops[l].regions[j]
      PROVE  k = l /\ i = j
  <2>1. CASE k \in 1 .. Len(r.ops) /\ l \in 1 .. Len(r.ops)
    BY <1>4, <2>1 DEF Tree
  <2>2. CASE k = m /\ l = m
    BY <1>4, <2>2
  <2>3. CASE k \in 1 .. Len(r.ops) /\ l = m
    BY <1>4, <2>3 DEF Free
  <2>4. CASE k = m /\ l \in 1 .. Len(r.ops)
    BY <1>4, <2>4 DEF Free
  <2> QED
    BY <1>2, <2>1, <2>2, <2>3, <2>4
<1>5. Tree(e)
  BY <1>3, <1>4 DEF Tree
<1>6. ASSUME NEW c, Free(r, c), \A i \in DOMAIN regions : regions[i] # c
      PROVE  Free(e, c)
  BY <1>2, <1>6 DEF Free
<1> QED
  BY <1>5, <1>6

(* An operation that is no loop needs no yield, a loop needs its own.       *)
LEMMA YieldsOp ==
    ASSUME NEW r \in IRs, Yields(r), NEW e \in IRs,
           Len(e.ops) = Len(r.ops) + 1, \A k \in 1 .. Len(r.ops) : e.ops[k] = r.ops[k],
           NEW op, e.ops[Len(r.ops) + 1] = op,
           op.name \in LoopNames /\ op.results # <<>>
             => \E y \in 1 .. Len(r.ops) : YieldsTo(r, y, op)
    PROVE  Yields(e)
<1>1. Len(r.ops) \in Nat
  BY PartsType
<1>2. ASSUME NEW k \in 1 .. Len(e.ops), e.ops[k].name \in LoopNames, e.ops[k].results # <<>>
      PROVE  \E y \in 1 .. Len(r.ops) : YieldsTo(r, y, e.ops[k])
  <2>1. CASE k \in 1 .. Len(r.ops)
    BY <1>2, <2>1 DEF Yields
  <2>2. CASE k = Len(r.ops) + 1
    BY <1>2, <2>2
  <2> QED
    BY <1>1, <2>1, <2>2
<1>3. \A k \in 1 .. Len(e.ops) : \A y \in 1 .. Len(r.ops) :
        YieldsTo(r, y, e.ops[k]) => YieldsTo(e, y, e.ops[k]) /\ y \in 1 .. Len(e.ops)
  BY <1>1 DEF YieldsTo
<1> QED
  BY <1>2, <1>3 DEF Yields

(***************************************************************************)
(* The suspended generators.                                                *)
(***************************************************************************)
(* The regions that a generator will hand to its operation.                 *)
Held(f) == {f.body} \cup ({f.other} \ {0})

(* The stack is the kernel body and one region of each generator; none of   *)
(* their regions belongs to an operation yet; an inner generator's regions  *)
(* are younger than an outer one's.                                         *)
Nested(r, fs) ==
    /\ Len(r.stack) = Len(fs) + 1 /\ r.stack[1] = 1 /\ Len(r.args) >= 1
    /\ \A k \in 1 .. Len(fs) : r.stack[k + 1] \in Held(fs[k]) /\ fs[k].body # fs[k].other
    /\ \A k \in 1 .. Len(fs) : \A b \in Held(fs[k]) : b \in 2 .. Len(r.args) /\ Free(r, b)
    /\ \A k, l \in 1 .. Len(fs) : k < l =>
         \A b \in Held(fs[k]), c \in Held(fs[l]) : b < c

Sound(r) == Once(r) /\ Tree(r) /\ Yields(r)
Inv == TypeOK /\ Sound(ir) /\ Nested(ir, frames)

(* Building keeps all of it: in place,                                      *)
LEMMA SoundUpon ==
    ASSUME NEW r \in IRs, NEW e \in Upon(r), Sound(r)
    PROVE  Sound(e)
BY TreeUpon, YieldsUpon DEF Sound, Upon

(* and the held regions stay free.                                          *)
LEMMA HeldUpon ==
    ASSUME NEW r \in IRs, NEW e \in Upon(r), Tree(r)
    PROVE  /\ Len(r.args) \in Nat /\ Len(e.args) \in Nat /\ Len(r.args) <= Len(e.args)
           /\ \A b \in 2 .. Len(r.args) : Free(r, b) => b \in 2 .. Len(e.args) /\ Free(e, b)
<1>1. Len(r.args) \in Nat /\ Len(e.args) \in Nat /\ Len(r.args) <= Len(e.args)
  BY PartsType DEF Upon
<1> QED
  BY <1>1, TreeUpon

(* Building in place.                                                       *)
LEMMA InPlace ==
    ASSUME NEW r \in IRs, NEW e \in Upon(r), Tree(r), e.stack = r.stack,
           NEW fs, Nested(r, fs)
    PROVE  Nested(e, fs)
<1>1. \A k \in 1 .. Len(fs) : \A b \in Held(fs[k]) : b \in 2 .. Len(e.args) /\ Free(e, b)
  BY HeldUpon DEF Nested
<1>2. Len(e.args) >= 1
  BY HeldUpon DEF Nested
<1> QED
  BY <1>1, <1>2 DEF Nested

(* A generator starts: it makes its regions and pushes one of them.         *)
LEMMA Started ==
    ASSUME NEW r \in IRs, NEW e \in Upon(r), Tree(r),
           NEW F, NEW fs \in Seq(F), NEW f \in F, Nested(r, fs),
           NEW b \in Held(f), e.stack = Append(r.stack, b), f.body # f.other,
           \A c \in Held(f) : c \in Len(r.args) + 1 .. Len(e.args)
    PROVE  Nested(e, Append(fs, f))
<1> DEFINE n == Len(fs)
           gs == Append(fs, f)
<1>1. /\ n \in Nat /\ Len(gs) = n + 1 /\ gs[n + 1] = f /\ \A k \in 1 .. n : gs[k] = fs[k]
  BY AppendProperties, LenProperties
<1>2. /\ Len(r.args) \in Nat /\ Len(e.args) \in Nat /\ Len(r.args) >= 1 /\ Len(e.args) >= 1
      /\ \A c \in 2 .. Len(r.args) : Free(r, c) => c \in 2 .. Len(e.args) /\ Free(e, c)
  BY HeldUpon DEF Nested
<1>3. /\ Len(e.stack) = n + 2 /\ e.stack[n + 2] = b /\ \A k \in 1 .. n + 1 : e.stack[k] = r.stack[k]
  <2> DEFINE s == r.stack
  <2>1. r.stack \in Seq(Blocks) /\ Len(r.stack) = n + 1
    BY PartsType DEF Nested
  <2>2. b \in Blocks
    BY <1>2 DEF Blocks
  <2> QED
    BY <1>1, <2>1, <2>2, AppendProperties
<1> HIDE DEF gs
<1>4. ASSUME NEW k \in 1 .. n + 1
      PROVE  /\ e.stack[k + 1] \in Held(gs[k]) /\ gs[k].body # gs[k].other
             /\ \A c \in Held(gs[k]) : c \in 2 .. Len(e.args) /\ Free(e, c)
  <2>1. CASE k \in 1 .. n
    <3>1. gs[k] = fs[k] /\ e.stack[k + 1] = r.stack[k + 1]
      BY <1>1, <1>3, <2>1
    <3> QED
      BY <1>2, <2>1, <3>1 DEF Nested
  <2>2. CASE k = n + 1
    <3>1. \A c \in Held(f) : c \in 2 .. Len(e.args) /\ c \notin 1 .. Len(r.args)
      BY <1>2
    <3>2. \A c \in Held(f) : Free(e, c)
      BY <3>1, TreeUpon
    <3>3. gs[k] = f /\ k + 1 = n + 2
      BY <1>1, <2>2
    <3>4. e.stack[k + 1] \in Held(gs[k])
      BY <1>3, <3>3
    <3> QED
      BY <3>1, <3>2, <3>3, <3>4
  <2>3. k \in 1 .. n \/ k = n + 1
    BY <1>1
  <2> QED
    BY <2>1, <2>2, <2>3, Zenon
<1>5. ASSUME NEW k \in 1 .. n + 1, NEW l \in 1 .. n + 1, k < l,
             NEW c \in Held(gs[k]), NEW d \in Held(gs[l])
      PROVE  c < d
  <2>1. k \in 1 .. n /\ gs[k] = fs[k]
    BY <1>1, <1>5
  <2>2. CASE l \in 1 .. n
    BY <1>1, <1>5, <2>1, <2>2 DEF Nested
  <2>3. CASE l = n + 1
    <3>1. c \in 2 .. Len(r.args) /\ d \in Len(r.args) + 1 .. Len(e.args)
      BY <1>1, <1>5, <2>1, <2>3 DEF Nested
    <3> QED
      BY <1>2, <3>1
  <2> QED
    BY <1>1, <2>2, <2>3
<1>6. e.stack[1] = 1
  BY <1>1, <1>3 DEF Nested
<1>7. Nested(e, gs)
  BY <1>1, <1>2, <1>3, <1>4, <1>5, <1>6 DEF Nested
<1> QED
  BY <1>7 DEF gs

(* A generator ends: its region is popped, and the block below is current   *)
(* again. Its own regions are free, younger than that block, and nobody     *)
(* else's.                                                                  *)
LEMMA Ended ==
    ASSUME NEW r \in IRs, NEW e \in Upon(r), Tree(r),
           NEW F, NEW fs \in Seq(F), fs # <<>>, Nested(r, fs),
           e.stack = SubSeq(r.stack, 1, Len(r.stack) - 1)
    PROVE  /\ Nested(e, SubSeq(fs, 1, Len(fs) - 1))
           /\ \A b \in Held(fs[Len(fs)]) :
                /\ b \in 2 .. Len(e.args) /\ Free(e, b) /\ Block(e) < b
                /\ \A k \in 1 .. Len(fs) - 1 : b \notin Held(fs[k])
<1> DEFINE n == Len(fs)
           gs == SubSeq(fs, 1, n - 1)
<1>1. /\ n \in Nat \ {0} /\ Len(gs) = n - 1 /\ \A k \in 1 .. n - 1 : gs[k] = fs[k]
  BY FrontType, LenProperties, EmptySeq
<1>2. /\ Len(r.args) \in Nat /\ Len(e.args) \in Nat /\ Len(r.args) >= 1 /\ Len(e.args) >= 1
      /\ \A c \in 2 .. Len(r.args) : Free(r, c) => c \in 2 .. Len(e.args) /\ Free(e, c)
  BY HeldUpon DEF Nested
<1>3. Len(e.stack) = n /\ \A k \in 1 .. n : e.stack[k] = r.stack[k]
  <2>1. r.stack \in Seq(Blocks) /\ Len(r.stack) = n + 1
    BY PartsType DEF Nested
  <2>2. r.stack # <<>>
    BY <1>1, <2>1
  <2> QED
    BY <1>1, <2>1, <2>2, FrontType
<1>4. \A k \in 1 .. n : \A c \in Held(fs[k]) : c \in 2 .. Len(e.args) /\ Free(e, c)
  BY <1>2 DEF Nested
<1> HIDE DEF gs
<1>5. Nested(e, gs)
  <2>1. \A k \in 1 .. n - 1 : k \in 1 .. n /\ k + 1 \in 1 .. n /\ gs[k] = fs[k]
    BY <1>1
  <2>2. \A k \in 1 .. n - 1 : /\ e.stack[k + 1] \in Held(gs[k]) /\ gs[k].body # gs[k].other
                              /\ \A b \in Held(gs[k]) : b \in 2 .. Len(e.args) /\ Free(e, b)
    BY <1>3, <1>4, <2>1 DEF Nested
  <2>3. \A k, l \in 1 .. n - 1 : k < l => \A b \in Held(gs[k]), c \in Held(gs[l]) : b < c
    BY <2>1 DEF Nested
  <2>4. e.stack[1] = 1
    BY <1>1, <1>3 DEF Nested
  <2> QED
    BY <1>1, <1>2, <1>3, <2>2, <2>3, <2>4 DEF Nested
<1>6. ASSUME NEW b \in Held(fs[n]) PROVE Block(e) < b
  <2>1. Block(e) = r.stack[n] /\ b \in 2 .. Len(e.args)
    BY <1>1, <1>3, <1>4 DEF Block
  <2>2. CASE n = 1
    BY <2>1, <2>2 DEF Nested
  <2>3. CASE n # 1
    <3>1. n - 1 \in 1 .. n /\ n - 1 < n /\ (n - 1) + 1 = n
      BY <1>1, <2>3
    <3>2. r.stack[n] \in Held(fs[n - 1])
      BY <3>1 DEF Nested
    <3>3. n \in 1 .. n
      BY <1>1
    <3>4. \A c \in Held(fs[n - 1]) : c < b
      BY <3>1, <3>3 DEF Nested
    <3> QED
      BY <2>1, <3>2, <3>4
  <2> QED
    BY <2>2, <2>3
<1>7. ASSUME NEW b \in Held(fs[n]), NEW k \in 1 .. n - 1 PROVE b \notin Held(fs[k])
  <2>1. k \in 1 .. n /\ k < n /\ n \in 1 .. n
    BY <1>1
  <2>2. \A c \in Held(fs[k]) : c < b
    BY <2>1 DEF Nested
  <2>3. b \in Int
    BY <1>1, <1>2, <1>4
  <2> QED
    BY <2>2, <2>3
<1> QED
  BY <1>1, <1>4, <1>5, <1>6, <1>7 DEF gs

(* Its regions go to the operation that is appended to that block.          *)
LEMMA Closed ==
    ASSUME NEW r \in IRs, Sound(r), NEW fs, Nested(r, fs), Block(r) \in Blocks,
           NEW name \in OpNames, NEW operands \in Seq(Ids), NEW nres \in Nat,
           NEW regions \in Seq(Blocks), NEW attr \in Int,
           \A i \in DOMAIN regions :
             /\ regions[i] \in 2 .. Len(r.args) /\ Free(r, regions[i]) /\ Block(r) < regions[i]
             /\ \A k \in 1 .. Len(fs) : regions[i] \notin Held(fs[k]),
           \A i, j \in DOMAIN regions : regions[i] = regions[j] => i = j,
           name \in LoopNames /\ nres # 0 /\ r.err = "none" =>
             \E y \in 1 .. Len(r.ops) : /\ r.ops[y].blk = regions[1]
                                        /\ r.ops[y].name = "yield"
                                        /\ Len(r.ops[y].operands) = nres
    PROVE  LET e == AppendOp(r, Block(r), name, operands, nres, regions, attr)
           IN  Sound(e) /\ Nested(e, fs)
<1> DEFINE e == AppendOp(r, Block(r), name, operands, nres, regions, attr)
           op == e.ops[Len(r.ops) + 1]
<1>1. /\ e \in IRs /\ e.stack = r.stack /\ e.args = r.args /\ (Once(r) => Once(e))
      /\ \/ e.ops = r.ops /\ e.err # "none"
         \/ /\ e.err = "none" /\ Len(e.ops) = Len(r.ops) + 1
            /\ \A k \in 1 .. Len(r.ops) : e.ops[k] = r.ops[k]
            /\ op.name = name /\ op.blk = Block(r) /\ op.operands = operands
            /\ op.regions = regions /\ Len(op.results) = nres
  BY AppendOpParts
<1>2. e.err = "none" => r.err = "none"
  BY AppendOpType
<1> HIDE DEF e
<1>3. Len(r.args) \in Nat
  BY PartsType
<1>4. ASSUME e.ops = r.ops PROVE Sound(e) /\ Nested(e, fs)
  <2>1. e \in Upon(r)
    BY <1>1, <1>3, <1>4, UponSameOps
  <2> QED
    BY <1>1, <2>1, SoundUpon, InPlace DEF Sound
<1>5. ASSUME e.ops # r.ops PROVE Sound(e) /\ Nested(e, fs)
  <2>1. /\ Tree(e)
        /\ \A c : Free(r, c) /\ (\A i \in DOMAIN regions : regions[i] # c) => Free(e, c)
    BY <1>1, <1>5, TreeOp DEF Sound
  <2>2. Yields(e)
    <3>1. ASSUME op.name \in LoopNames, op.results # <<>>
          PROVE  \E y \in 1 .. Len(r.ops) : YieldsTo(r, y, op)
      <4>1. nres # 0
        <5>1. op \in Operations
          BY <1>1, <1>5, PartsType
        <5>2. op.results \in Seq(Ids)
          BY <5>1 DEF Operations
        <5> QED
          BY <1>1, <1>5, <3>1, <5>2, EmptySeq
      <4> QED
        BY <1>1, <1>2, <1>5, <3>1, <4>1 DEF YieldsTo
    <3> QED
      BY <1>1, <1>5, <3>1, YieldsOp DEF Sound
  <2>3. ASSUME NEW k \in 1 .. Len(fs), NEW b \in Held(fs[k]) PROVE Free(e, b)
    <3>1. Free(r, b)
      BY DEF Nested
    <3>2. \A i \in DOMAIN regions : regions[i] # b
      OBVIOUS
    <3> QED
      BY <2>1, <3>1, <3>2
  <2>4. Nested(e, fs)
    BY <1>1, <2>3 DEF Nested
  <2> QED
    BY <1>1, <2>1, <2>2, <2>4 DEF Sound
<1> QED
  BY <1>4, <1>5 DEF e

(***************************************************************************)
(* The actions: first those that are one call.                              *)
(***************************************************************************)
LEMMA QuietInv ==
    ASSUME Inv, TypeOK', ir' \in Upon(ir), ir'.stack = ir.stack, frames' = frames
    PROVE  Inv'
<1>1. ir \in IRs /\ Sound(ir) /\ Tree(ir) /\ Nested(ir, frames)
  BY DEF Inv, TypeOK, Sound
<1>2. Sound(ir') /\ Nested(ir', frames)
  BY <1>1, SoundUpon, InPlace
<1> QED
  BY <1>2 DEF Inv

(* Assignments to a name.                                                   *)
LEMMA AssignInv ==
    ASSUME Inv, NEW st \in Menu, Assign(st)
    PROVE  Inv'
<1>1. /\ ir.err = "none" /\ ir' = Value(st).ir /\ frames' = frames
      /\ st.s \in {"num", "name", "add", "load", "ifexp"}
  BY DEF Assign, Stmt, Reached, BindAs
<1>2. TypeOK /\ TypeOK' /\ ir \in IRs /\ ir.stack # <<>>
  BY <1>1, AssignStep, Running DEF Inv
<1>3. Value(st) \in Builds(ir)
  BY <1>1, <1>2, ValueUpon
<1>4. ir' \in Upon(ir) /\ ir'.stack = ir.stack
  BY <1>1, <1>2, <1>3, BuildsType
<1> QED
  BY <1>1, <1>2, <1>4, QuietInv

(* A tuple assignment appends nothing.                                      *)
LEMMA TupleAssignInv ==
    ASSUME Inv, NEW st \in Menu, TupleAssign(st)
    PROVE  Inv'
<1>1. ir' = ir /\ frames' = frames
  BY DEF TupleAssign
<1>2. TypeOK' /\ ir \in IRs
  BY TupleAssignStep DEF Inv, TypeOK
<1>3. ir' \in Upon(ir)
  BY <1>1, <1>2, UponSelf
<1> QED
  BY <1>1, <1>2, <1>3, QuietInv

(* += on a name appends an add.                                             *)
LEMMA AugAssignInv ==
    ASSUME Inv, NEW st \in Menu, AugAssign(st)
    PROVE  Inv'
<1> DEFINE sum == EmitValue(ir, "add", <<AugOperand(st.dst[1]), Rval(st.arg[1])>>)
<1>1. /\ ir.err = "none" /\ ir' = sum.ir /\ frames' = frames /\ st.s = "aug"
  BY DEF AugAssign, Stmt, Reached, BindAs
<1>2. TypeOK /\ TypeOK' /\ ir \in IRs /\ ir.stack # <<>>
  BY <1>1, AugAssignStep, Running DEF Inv
<1>3. Len(st.dst) = 1 /\ Len(st.arg) = 1
  BY <1>1, StatementType DEF WellFormed, Shape
<1>4. st.dst[1] \in Names /\ Rval(st.arg[1]) \in Objs
  BY <1>2, <1>3, TargetType, OperandType
<1>5. sum \in Builds(ir)
  <2>1. AugOperand(st.dst[1]) \in Objs
    BY <1>2, <1>4 DEF AugOperand, TypeOK
  <2>2. /\ <<AugOperand(st.dst[1]), Rval(st.arg[1])>> \in Seq(Objs)
        /\ "add" \in OpNames \ LoopNames
    BY <1>4, <2>1, OperandsType DEF OpNames, LoopNames
  <2> QED
    BY <1>2, <2>2, EmitValueUpon
<1> HIDE DEF sum
<1>6. ir' \in Upon(ir) /\ ir'.stack = ir.stack
  BY <1>1, <1>2, <1>5, BuildsType
<1> QED
  BY <1>1, <1>2, <1>6, QuietInv

(* The operands of a store.                                                 *)
LEMMA StoreOperands ==
    ASSUME TypeOK, NEW st \in Menu, st.s \in {"store", "augstore"}
    PROVE  Rvals(st.arg)[1] \in Objs /\ Rvals(st.arg)[2] \in Objs
<1>1. Len(st.arg) = 2
  BY StatementType DEF WellFormed, Shape
<1> QED
  BY <1>1, OperandType

(* An assignment to an element.                                             *)
LEMMA AssignSliceInv ==
    ASSUME Inv, NEW st \in Menu, AssignSlice(st)
    PROVE  Inv'
<1> DEFINE o == Rvals(st.arg)
<1>1. ir.err = "none" /\ ir' = Store(ir, o[2], o[1]) /\ frames' = frames /\ st.s = "store"
  BY DEF AssignSlice, Stmt, Reached
<1>2. TypeOK /\ TypeOK' /\ ir \in IRs /\ ir.stack # <<>>
  BY <1>1, AssignSliceStep, Running DEF Inv
<1>3. o[1] \in Objs /\ o[2] \in Objs
  BY <1>1, <1>2, StoreOperands
<1> HIDE DEF o
<1>4. ir' \in Upon(ir) /\ ir'.stack = ir.stack
  BY <1>1, <1>2, <1>3, StoreUpon
<1> QED
  BY <1>1, <1>2, <1>4, QuietInv

(* += on an element.                                                        *)
LEMMA AugAssignSliceInv ==
    ASSUME Inv, NEW st \in Menu, AugAssignSlice(st)
    PROVE  Inv'
<1> DEFINE o == Rvals(st.arg)
           current == Load(ir, o[1])
           sum == EmitValue(current.ir, "add", <<current.o, o[2]>>)
<1>1. /\ ir.err = "none" /\ ir' = Store(sum.ir, sum.o, o[1]) /\ frames' = frames
      /\ st.s = "augstore"
  BY DEF AugAssignSlice, Stmt, Reached
<1>2. TypeOK /\ TypeOK' /\ ir \in IRs /\ ir.stack # <<>>
  BY <1>1, AugAssignSliceStep, Running DEF Inv
<1>3. o[1] \in Objs /\ o[2] \in Objs
  BY <1>1, <1>2, StoreOperands
<1>4. current \in Builds(ir)
  BY <1>2, <1>3, LoadUpon
<1> HIDE DEF o, current
<1>5. /\ current.ir \in IRs /\ current.ir.stack # <<>> /\ current.o \in Objs
      /\ Builds(current.ir) \subseteq Builds(ir)
  BY <1>2, <1>4, BuildsType
<1>6. sum \in Builds(ir)
  <2>1. <<current.o, o[2]>> \in Seq(Objs) /\ "add" \in OpNames \ LoopNames
    BY <1>3, <1>5, OperandsType DEF OpNames, LoopNames
  <2>2. sum \in Builds(current.ir)
    BY <1>5, <2>1, EmitValueUpon, Zenon
  <2> QED
    BY <1>5, <2>2
<1> HIDE DEF sum
<1>7. /\ sum.ir \in IRs /\ sum.ir.stack # <<>> /\ sum.ir.stack = ir.stack /\ sum.o \in Objs
      /\ Upon(sum.ir) \subseteq Upon(ir)
  BY <1>2, <1>6, BuildsType
<1>8. ir' \in Upon(ir) /\ ir'.stack = ir.stack
  <2>1. Store(sum.ir, sum.o, o[1]) \in Upon(sum.ir) /\ Store(sum.ir, sum.o, o[1]).stack = sum.ir.stack
    BY <1>3, <1>7, StoreUpon
  <2> QED
    BY <1>1, <1>7, <2>1
<1> QED
  BY <1>1, <1>2, <1>8, QuietInv

(* A return appends a terminator.                                           *)
LEMMA ReturnInv ==
    ASSUME Inv, NEW st \in Menu, Return(st)
    PROVE  Inv'
<1>1. /\ ir.err = "none" /\ ir' = Emit(ir, "return", Rvals(st.arg), 0, <<>>, 0)
      /\ frames' = frames
  BY DEF Return, Stmt, Reached
<1>2. TypeOK /\ TypeOK' /\ ir \in IRs /\ ir.stack # <<>>
  BY <1>1, ReturnStep, Running DEF Inv
<1>3. /\ "return" \in OpNames \ LoopNames /\ Rvals(st.arg) \in Seq(Objs)
      /\ 0 \in Nat /\ 0 \in Int
  BY <1>2, StatementType, RvalsType DEF OpNames, Terminators, LoopNames, TypeOK
<1>4. ir' \in Upon(ir) /\ ir'.stack = ir.stack
  BY <1>1, <1>2, <1>3, EmitUpon, Zenon
<1> QED
  BY <1>1, <1>2, <1>4, QuietInv

(***************************************************************************)
(* Frames that only change their branch.                                    *)
(***************************************************************************)
(* What is held depends on the regions of the frames.                       *)
LEMMA SameHeld ==
    ASSUME NEW r, NEW fs, NEW gs, Len(gs) = Len(fs), Nested(r, fs),
           \A k \in 1 .. Len(fs) : gs[k].body = fs[k].body /\ gs[k].other = fs[k].other
    PROVE  Nested(r, gs)
<1>1. \A k \in 1 .. Len(fs) : Held(gs[k]) = Held(fs[k])
  BY DEF Held
<1> QED
  BY <1>1 DEF Nested

(* A change of branch or skip.                                              *)
LEMMA TopChangeHeld ==
    ASSUME TypeOK, frames # <<>>
    PROVE  LET else == [frames EXCEPT ![Len(frames)].branch = "else",
                                      ![Len(frames)].skip = FALSE]
               skip == [frames EXCEPT ![Len(frames)].skip = TRUE]
           IN  /\ Len(else) = Len(frames) /\ Len(skip) = Len(frames)
               /\ \A k \in 1 .. Len(frames) :
                    /\ else[k].body = frames[k].body /\ else[k].other = frames[k].other
                    /\ skip[k].body = frames[k].body /\ skip[k].other = frames[k].other
<1> DEFINE n == Len(frames)
           else == [frames EXCEPT ![n].branch = "else", ![n].skip = FALSE]
           skip == [frames EXCEPT ![n].skip = TRUE]
<1>1. Len(else) = n /\ Len(skip) = n
  BY TopChangeType
<1>2. frames \in Seq(Frames) /\ n \in Nat /\ DOMAIN frames = 1 .. n
      /\ \A k \in 1 .. n : frames[k] \in Frames
  BY LenProperties, ElementOfSeq DEF TypeOK
<1>3. ASSUME NEW k \in 1 .. n
      PROVE  /\ else[k].body = frames[k].body /\ else[k].other = frames[k].other
             /\ skip[k].body = frames[k].body /\ skip[k].other = frames[k].other
  <2>1. frames[k] \in Frames
    BY <1>2
  <2> QED
    BY <1>2, <2>1 DEF Frames
<1> QED
  BY <1>1, <1>3

(* break or continue in a branch, continue in a loop.                       *)
LEMMA SkipRestInv ==
    ASSUME Inv, NEW st \in Menu, SkipRest(st)
    PROVE  Inv'
<1> DEFINE skip == [frames EXCEPT ![Len(frames)].skip = TRUE]
<1>1. InLoop /\ frames' = skip /\ ir' = ir
  BY DEF SkipRest
<1>2. frames # <<>> /\ TypeOK /\ TypeOK'
  BY <1>1, SkipRestStep, EmptySeq DEF InLoop, Inv
<1>3. /\ Len(skip) = Len(frames)
      /\ \A k \in 1 .. Len(frames) :
           skip[k].body = frames[k].body /\ skip[k].other = frames[k].other
  BY <1>2, TopChangeHeld
<1> HIDE DEF skip
<1>4. Nested(ir, skip)
  BY <1>3, SameHeld DEF Inv
<1> QED
  BY <1>1, <1>2, <1>4 DEF Inv

(* From ctx_then to ctx_else: the other region of the same generator.       *)
LEMMA EnterElseInv ==
    ASSUME Inv, EnterElse
    PROVE  Inv'
<1> DEFINE n == Len(frames)
           else == [frames EXCEPT ![n].branch = "else", ![n].skip = FALSE]
           popped == PopRegion(ir)
<1>1. /\ ir.err = "none" /\ frames # <<>> /\ Top.s.s = "if"
      /\ ir' = PushRegion(popped, Top.other) /\ frames' = else
  BY DEF EnterElse
<1>2. TypeOK /\ TypeOK' /\ Sound(ir) /\ Nested(ir, frames)
  BY EnterElseStep DEF Inv
<1>3. /\ ir \in IRs /\ ir.stack \in Seq(Blocks) /\ ir.stack # <<>> /\ n \in Nat \ {0}
      /\ Len(ir.stack) = n + 1 /\ Top.other \in Blocks /\ Top = frames[n]
  BY <1>1, <1>2, Running, TopType DEF Frames, Blocks, Top
<1>4. /\ popped \in Upon(ir) /\ popped \in IRs
      /\ popped.stack = SubSeq(ir.stack, 1, Len(ir.stack) - 1)
  BY <1>3, PopRegionUpon, PopRegionType
<1>5. /\ Len(popped.stack) = n /\ popped.stack \in Seq(Blocks)
      /\ \A k \in 1 .. n : popped.stack[k] = ir.stack[k]
  BY <1>3, <1>4, FrontType
<1> HIDE DEF popped
<1>6. /\ ir' \in Upon(ir) /\ ir'.stack = Append(popped.stack, Top.other)
  <2>1. ir' \in Upon(popped) /\ ir'.stack = Append(popped.stack, Top.other)
    BY <1>1, <1>3, <1>4, PushRegionUpon
  <2> QED
    BY <1>3, <1>4, <2>1, UponTwice
<1>7. /\ Len(ir'.stack) = n + 1 /\ ir'.stack[n + 1] = Top.other
      /\ \A k \in 1 .. n : ir'.stack[k] = ir.stack[k]
  BY <1>3, <1>5, <1>6, AppendProperties
<1>8. Nested(ir', frames)
  <2>1. \A k \in 1 .. n : \A b \in Held(frames[k]) : b \in 2 .. Len(ir'.args) /\ Free(ir', b)
    BY <1>2, <1>3, <1>6, HeldUpon DEF Nested, Sound
  <2>2. Len(ir'.args) >= 1
    BY <1>2, <1>3, <1>6, HeldUpon DEF Nested, Sound
  <2>3. ASSUME NEW k \in 1 .. n PROVE ir'.stack[k + 1] \in Held(frames[k])
    <3>1. CASE k = n
      BY <1>3, <1>7, <3>1 DEF Held, Blocks
    <3>2. CASE k # n
      <4>1. k + 1 \in 1 .. n
        BY <1>3, <3>2
      <4> QED
        BY <1>2, <1>7, <4>1 DEF Nested
    <3> QED
      BY <3>1, <3>2
  <2>4. ir'.stack[1] = 1
    BY <1>2, <1>3, <1>7 DEF Nested
  <2> QED
    BY <1>2, <1>7, <2>1, <2>2, <2>3, <2>4 DEF Nested
<1>9. /\ Len(else) = n
      /\ \A k \in 1 .. n : else[k].body = frames[k].body /\ else[k].other = frames[k].other
  BY <1>1, <1>2, TopChangeHeld
<1> HIDE DEF else
<1>10. Nested(ir', else)
  BY <1>8, <1>9, SameHeld
<1>11. Sound(ir')
  BY <1>2, <1>3, <1>6, SoundUpon
<1> QED
  BY <1>1, <1>2, <1>10, <1>11 DEF Inv

(* A break in a loop body drops the loop's regions.                         *)
LEMMA AbandonLoopInv ==
    ASSUME Inv, NEW st \in Menu, AbandonLoop(st)
    PROVE  Inv'
<1>1. /\ ir.err = "none" /\ frames # <<>> /\ ir' = PopRegion(ir) /\ frames' = Up
  BY DEF AbandonLoop, Stmt, Reached
<1>2. /\ TypeOK /\ TypeOK' /\ Sound(ir) /\ Tree(ir) /\ Nested(ir, frames) /\ ir \in IRs
      /\ frames \in Seq(Frames) /\ ir.stack # <<>>
  BY <1>1, AbandonLoopStep, Running DEF Inv, Sound, TypeOK
<1>3. ir' \in Upon(ir) /\ ir'.stack = SubSeq(ir.stack, 1, Len(ir.stack) - 1)
  BY <1>1, <1>2, PopRegionUpon
<1>4. Nested(ir', Up)
  BY <1>1, <1>2, <1>3, Ended DEF Up
<1>5. Sound(ir')
  BY <1>2, <1>3, SoundUpon
<1> QED
  BY <1>1, <1>2, <1>4, <1>5 DEF Inv

(***************************************************************************)
(* The beginning of a compound statement.                                   *)
(***************************************************************************)
LEMMA EnterInv ==
    ASSUME Inv, TypeOK', NEW f \in Frames, frames' = Append(frames, f), ir' \in Upon(ir),
           NEW b \in Held(f), ir'.stack = Append(ir.stack, b), f.body # f.other,
           \A c \in Held(f) : c \in Len(ir.args) + 1 .. Len(ir'.args)
    PROVE  Inv'
<1>1. /\ Sound(ir) /\ Tree(ir) /\ Nested(ir, frames) /\ ir \in IRs /\ frames \in Seq(Frames)
  BY DEF Inv, Sound, TypeOK
<1>2. Nested(ir', Append(frames, f))
  BY <1>1, Started
<1>3. Sound(ir')
  BY <1>1, SoundUpon
<1> QED
  BY <1>2, <1>3 DEF Inv

(* A kernel's body is a new region with the thread id as its argument.      *)
LEMMA EnterKernelInv ==
    ASSUME Inv, NEW st \in Menu, EnterKernel(st)
    PROVE  Inv'
<1> DEFINE entry == NewRegion(ir)
           body == LastRegion(entry)
           opened == NewArgs(entry, body, 1)
           f == Frame(st, body, 0, Rvals(st.arg), scope)
<1>1. /\ ir.err = "none" /\ ir' = PushRegion(opened, body) /\ frames' = Append(frames, f)
      /\ st.s = "kernel"
  BY DEF EnterKernel, Compound, Stmt, Reached
<1>2. TypeOK /\ TypeOK' /\ ir \in IRs /\ Len(ir.args) \in Nat
  BY <1>1, EnterKernelStep, PartsType DEF Inv, TypeOK
<1>3. /\ entry \in IRs /\ entry \in Upon(ir) /\ entry.stack = ir.stack
      /\ Len(entry.args) = Len(ir.args) + 1 /\ body \in Blocks /\ body = Len(ir.args) + 1
  BY <1>2, NewRegionType, NewRegionUpon
<1>4. f \in Frames /\ f.body = body /\ f.other = 0
  <2>1. /\ Rvals(st.arg) \in Seq(Objs) /\ scope \in Scopes /\ 0 \in Nat
        /\ st.s \notin {"if", "while"}
    BY <1>1, <1>2, StatementType, RvalsType DEF TypeOK
  <2> QED
    BY <1>3, <2>1, FrameType DEF Frame
<1> HIDE DEF entry, body, f
<1>5. /\ opened \in IRs /\ opened \in Upon(entry) /\ opened.stack = ir.stack
      /\ Len(opened.args) = Len(entry.args)
  BY <1>2, <1>3, NewArgsType, NewArgsUpon
<1> HIDE DEF opened
<1>6. /\ ir' \in Upon(opened) /\ ir'.stack = Append(ir.stack, body)
      /\ Len(ir'.args) = Len(ir.args) + 1
  <2> DEFINE q == PushRegion(opened, body)
  <2>1. q \in Upon(opened) /\ q.stack = Append(ir.stack, body)
    BY <1>3, <1>5, PushRegionUpon
  <2>2. q.args = opened.args
    BY <1>3, <1>5, PushRegionType
  <2>3. Len(q.args) = Len(ir.args) + 1
    BY <1>3, <1>5, <2>2
  <2> QED
    BY <1>1, <2>1, <2>3
<1>7. ir' \in Upon(ir)
  BY <1>2, <1>3, <1>5, <1>6, UponTwice
<1>8. body \in Held(f) /\ \A c \in Held(f) : c = body
  BY <1>3, <1>4 DEF Held
<1>9. \A c \in Held(f) : c \in Len(ir.args) + 1 .. Len(ir'.args)
  BY <1>2, <1>3, <1>6, <1>8
<1>10. f.body # f.other
  BY <1>3, <1>4 DEF Blocks
<1> QED
  BY <1>1, <1>2, <1>4, <1>6, <1>7, <1>8, <1>9, <1>10, EnterInv

(* A loop's body is a new region with an argument per dimension.            *)
LEMMA EnterForInv ==
    ASSUME Inv, NEW st \in Menu, EnterFor(st)
    PROVE  Inv'
<1> DEFINE consts == Ensure(ir, Objects(scope))
           entry == NewRegion(consts)
           body == LastRegion(entry)
           n == Len(st.dst)
           opened == NewArgs(entry, body, n)
           before == Materialised(scope, ir)
           f == Frame(st, body, 0, Dims(st), before)
<1>1. /\ ir.err = "none" /\ ir' = PushRegion(opened, body) /\ frames' = Append(frames, f)
      /\ st.s \in LoopKinds
  BY DEF EnterFor, Compound, Stmt, Reached
<1>2. /\ TypeOK /\ TypeOK' /\ ir \in IRs /\ ir.stack # <<>> /\ Len(ir.args) \in Nat
      /\ scope \in Scopes
  BY <1>1, EnterForStep, Running, PartsType DEF Inv, TypeOK
<1>3. /\ consts \in Upon(ir) /\ consts \in IRs /\ consts.args = ir.args /\ consts.stack = ir.stack
      /\ before \in Scopes
  BY <1>2, ObjectsType, EnsureType, EnsureUpon, MaterialisedType DEF Emitted
<1> HIDE DEF consts, before
<1>4. /\ entry \in IRs /\ entry \in Upon(consts) /\ entry.stack = ir.stack
      /\ Len(entry.args) = Len(ir.args) + 1 /\ body \in Blocks /\ body = Len(ir.args) + 1
  BY <1>2, <1>3, NewRegionType, NewRegionUpon
<1>5. f \in Frames /\ f.body = body /\ f.other = 0
  <2>1. Dims(st) \in Seq(Objs) /\ 0 \in Nat /\ st.s \notin {"if", "while"}
    BY <1>1, <1>2, DimsType DEF LoopKinds
  <2> QED
    BY <1>3, <1>4, <2>1, FrameType DEF Frame
<1>6. n \in Nat
  BY StatementType, LenProperties
<1> HIDE DEF entry, body, f, n
<1>7. /\ opened \in IRs /\ opened \in Upon(entry) /\ opened.stack = ir.stack
      /\ Len(opened.args) = Len(entry.args)
  BY <1>2, <1>4, <1>6, NewArgsType, NewArgsUpon
<1> HIDE DEF opened
<1>8. /\ ir' \in Upon(opened) /\ ir'.stack = Append(ir.stack, body)
      /\ Len(ir'.args) = Len(ir.args) + 1
  <2> DEFINE q == PushRegion(opened, body)
  <2>1. q \in Upon(opened) /\ q.stack = Append(ir.stack, body)
    BY <1>4, <1>7, PushRegionUpon
  <2>2. q.args = opened.args
    BY <1>4, <1>7, PushRegionType
  <2>3. Len(q.args) = Len(ir.args) + 1
    BY <1>4, <1>7, <2>2
  <2> QED
    BY <1>1, <2>1, <2>3
<1>9. ir' \in Upon(ir)
  BY <1>2, <1>3, <1>4, <1>7, <1>8, UponTwice
<1>10. body \in Held(f) /\ \A c \in Held(f) : c = body
  BY <1>4, <1>5 DEF Held
<1>11. \A c \in Held(f) : c \in Len(ir.args) + 1 .. Len(ir'.args)
  BY <1>2, <1>4, <1>8, <1>10
<1>12. f.body # f.other
  BY <1>4, <1>5 DEF Blocks
<1> QED
  BY <1>1, <1>2, <1>5, <1>8, <1>9, <1>10, <1>11, <1>12, EnterInv

(* Both branches of an if are new regions, then first.                      *)
LEMMA EnterIfInv ==
    ASSUME Inv, NEW st \in Menu, EnterIf(st)
    PROVE  Inv'
<1> DEFINE o == Rvals(st.arg)
           cond == Condition(ir, st.c, o[1], o[2])
           tested == Ensure(cond.ir, <<cond.o>>)
           once == NewRegion(tested)
           entry == NewRegion(once)
           body == LastRegion(entry) - 1
           id == EnsureIds(cond.ir, <<cond.o>>)[1]
           f == Frame(st, body, body + 1, <<Val(id)>>, scope)
<1>1. /\ ir.err = "none" /\ st.s = "if"
      /\ ir' = PushRegion(entry, body) /\ frames' = Append(frames, f)
  BY DEF EnterIf, Compound, Stmt, Reached
<1>2. st.c \in Conditions /\ Len(st.arg) = 2
  BY <1>1, StatementType DEF WellFormed, Shape
<1>3. /\ TypeOK /\ TypeOK' /\ ir \in IRs /\ ir.stack # <<>> /\ Len(ir.args) \in Nat
      /\ o[1] \in Objs /\ o[2] \in Objs
  <2>1. TypeOK /\ TypeOK' /\ ir \in IRs
    BY EnterIfStep DEF Inv, TypeOK
  <2>2. o[1] \in Objs /\ o[2] \in Objs
    BY <1>2, <2>1, OperandType
  <2> QED
    BY <1>1, <2>1, <2>2, Running, PartsType
<1> HIDE DEF o
<1>4. cond \in Builds(ir) /\ cond \in Emissions(ir)
  BY <1>2, <1>3, ConditionUpon, ConditionType
<1> HIDE DEF cond
<1>5. /\ cond.ir \in IRs /\ cond.ir \in Upon(ir) /\ cond.ir.stack = ir.stack
      /\ cond.ir.stack # <<>> /\ cond.ir.args = ir.args /\ <<cond.o>> \in Seq(Objs)
  <2>1. /\ cond.ir \in IRs /\ cond.ir \in Upon(ir) /\ cond.ir.stack = ir.stack
        /\ cond.ir.stack # <<>> /\ <<cond.o>> \in Seq(Objs)
    BY <1>3, <1>4, BuildsType, OperandsType
  <2>2. cond.ir.args = ir.args
    BY <1>3, <1>4, EmissionsType DEF Emitted
  <2> QED
    BY <2>1, <2>2
<1>6. tested \in IRs /\ tested \in Upon(cond.ir) /\ tested.stack = ir.stack /\ tested.args = ir.args
  <2>1. tested \in Emitted(cond.ir) /\ tested \in Upon(cond.ir)
    BY <1>5, EnsureType, EnsureUpon
  <2> QED
    BY <1>5, <2>1 DEF Emitted
<1>7. id \in Ids
  <2>1. /\ EnsureIds(cond.ir, <<cond.o>>) \in Seq(Ids)
        /\ Len(EnsureIds(cond.ir, <<cond.o>>)) = Len(<<cond.o>>)
    BY <1>5, EnsureIdsType, Zenon
  <2>2. Len(<<cond.o>>) = 1
    OBVIOUS
  <2> QED
    BY <2>1, <2>2, ElementOfSeq
<1> HIDE DEF tested, id
<1>8. /\ once \in IRs /\ once \in Upon(tested) /\ once.stack = ir.stack
      /\ Len(once.args) = Len(ir.args) + 1
  BY <1>6, NewRegionType, NewRegionUpon
<1> HIDE DEF once
<1>9. /\ entry \in IRs /\ entry \in Upon(once) /\ entry.stack = ir.stack
      /\ Len(entry.args) = Len(ir.args) + 2
      /\ body = Len(ir.args) + 1 /\ body \in Blocks /\ body + 1 \in Nat /\ body + 1 # 0
  <2>1. /\ entry \in IRs /\ entry \in Upon(once) /\ entry.stack = ir.stack
        /\ Len(entry.args) = Len(once.args) + 1
    BY <1>8, NewRegionType, NewRegionUpon
  <2>2. Len(entry.args) = Len(ir.args) + 2
    BY <1>3, <1>8, <2>1
  <2> QED
    BY <1>3, <2>1, <2>2 DEF LastRegion, Blocks
<1> HIDE DEF entry, body
<1>10. f \in Frames /\ f.body = body /\ f.other = body + 1
  <2>1. <<Val(id)>> \in Seq(Objs) /\ scope \in Scopes
    BY <1>3, <1>7, ValType, OperandsType DEF TypeOK
  <2> QED
    BY <1>9, <2>1, FrameType DEF Frame
<1> HIDE DEF f
<1>11. /\ ir' \in Upon(entry) /\ ir'.stack = Append(ir.stack, body)
       /\ Len(ir'.args) = Len(ir.args) + 2
  <2> DEFINE q == PushRegion(entry, body)
  <2>1. q \in Upon(entry) /\ q.stack = Append(ir.stack, body)
    BY <1>9, PushRegionUpon
  <2>2. q.args = entry.args
    BY <1>9, PushRegionType
  <2>3. Len(q.args) = Len(ir.args) + 2
    BY <1>9, <2>2
  <2> QED
    BY <1>1, <2>1, <2>3
<1>12. ir' \in Upon(ir)
  <2>1. ir' \in Upon(tested)
    BY <1>6, <1>8, <1>9, <1>11, UponTwice
  <2> QED
    BY <1>3, <1>5, <1>6, <2>1, UponTwice
<1>13. body \in Held(f) /\ \A c \in Held(f) : c = body \/ c = body + 1
  BY <1>10 DEF Held
<1>14. \A c \in Held(f) : c \in Len(ir.args) + 1 .. Len(ir'.args)
  BY <1>3, <1>9, <1>11, <1>13
<1>15. f.body # f.other
  BY <1>9, <1>10 DEF Blocks
<1> QED
  BY <1>1, <1>3, <1>10, <1>11, <1>12, <1>13, <1>14, <1>15, EnterInv

(* What was pushed is what is popped.                                       *)
LEMMA FrontOfAppend ==
    ASSUME NEW S, NEW s \in Seq(S), NEW b \in S
    PROVE  SubSeq(Append(s, b), 1, Len(Append(s, b)) - 1) = s
<1> DEFINE t == Append(s, b)
           u == SubSeq(t, 1, Len(t) - 1)
<1>1. /\ t \in Seq(S) /\ t # <<>> /\ Len(t) = Len(s) + 1 /\ Len(s) \in Nat
      /\ \A k \in 1 .. Len(s) : t[k] = s[k]
  BY AppendProperties, LenProperties
<1> HIDE DEF t
<1>2. u \in Seq(S) /\ Len(u) = Len(t) - 1 /\ \A k \in 1 .. (Len(t) - 1) : u[k] = t[k]
  BY <1>1, FrontType
<1> HIDE DEF u
<1>3. Len(u) = Len(s) /\ \A k \in 1 .. Len(s) : u[k] = s[k]
  BY <1>1, <1>2
<1>4. u = s
  BY <1>2, <1>3, SeqEqual
<1> QED
  BY <1>4 DEF t, u

(* A while's condition is traced in one new region, its body in another.    *)
LEMMA EnterWhileInv ==
    ASSUME Inv, NEW st \in Menu, EnterWhile(st)
    PROVE  Inv'
<1> DEFINE entry == NewRegion(ir)
           test == LastRegion(entry)
           o == Rvals(st.arg)
           pushed == PushRegion(entry, test)
           cond == Condition(pushed, st.c, o[1], o[2])
           yielded == Emit(cond.ir, "yield", <<cond.o>>, 0, <<>>, 0)
           popped == PopRegion(yielded)
           done == NewRegion(popped)
           f == Frame(st, test + 1, test, <<>>, scope)
<1>1. /\ ir.err = "none" /\ st.s = "while"
      /\ ir' = PushRegion(done, test + 1) /\ frames' = Append(frames, f)
  BY DEF EnterWhile, Compound, Stmt, Reached
<1>2. st.c \in Conditions /\ Len(st.arg) = 2
  BY <1>1, StatementType DEF WellFormed, Shape
<1>3. /\ TypeOK /\ TypeOK' /\ ir \in IRs /\ ir.stack \in Seq(Blocks) /\ Len(ir.args) \in Nat
      /\ ir.stack # <<>> /\ o[1] \in Objs /\ o[2] \in Objs /\ scope \in Scopes
  <2>1. TypeOK /\ TypeOK' /\ ir \in IRs /\ scope \in Scopes
    BY EnterWhileStep DEF Inv, TypeOK
  <2>2. o[1] \in Objs /\ o[2] \in Objs
    BY <1>2, <2>1, OperandType
  <2> QED
    BY <1>1, <2>1, <2>2, Running, PartsType
<1> HIDE DEF o
<1>4. /\ entry \in IRs /\ entry \in Upon(ir) /\ entry.stack = ir.stack
      /\ Len(entry.args) = Len(ir.args) + 1 /\ test \in Blocks /\ test = Len(ir.args) + 1
      /\ test + 1 \in Blocks
  BY <1>3, NewRegionType, NewRegionUpon DEF Blocks
<1> HIDE DEF entry, test
<1>5. /\ pushed \in IRs /\ pushed \in Upon(entry) /\ pushed.stack = Append(ir.stack, test)
      /\ pushed.args = entry.args /\ pushed.stack # <<>>
  <2>1. pushed \in Upon(entry) /\ pushed.stack = Append(ir.stack, test)
    BY <1>4, PushRegionUpon
  <2>2. pushed \in IRs /\ pushed.args = entry.args /\ pushed.stack # <<>>
    BY <1>4, PushRegionType
  <2> QED
    BY <2>1, <2>2
<1> HIDE DEF pushed
<1>6. cond \in Builds(pushed) /\ cond \in Emissions(pushed)
  BY <1>2, <1>3, <1>5, ConditionUpon, ConditionType
<1> HIDE DEF cond
<1>7. /\ cond.ir \in IRs /\ cond.ir \in Upon(pushed) /\ cond.ir.stack = pushed.stack
      /\ cond.ir.stack # <<>> /\ cond.ir.args = entry.args /\ <<cond.o>> \in Seq(Objs)
  <2>1. /\ cond.ir \in IRs /\ cond.ir \in Upon(pushed) /\ cond.ir.stack = pushed.stack
        /\ cond.ir.stack # <<>> /\ <<cond.o>> \in Seq(Objs)
    BY <1>5, <1>6, BuildsType, OperandsType
  <2>2. cond.ir.args = pushed.args
    BY <1>5, <1>6, EmissionsType DEF Emitted
  <2> QED
    BY <1>5, <2>1, <2>2
<1>8. /\ yielded \in IRs /\ yielded \in Upon(cond.ir) /\ yielded.stack = pushed.stack
      /\ yielded.args = entry.args
  <2>1. /\ "yield" \in OpNames /\ "yield" \in OpNames \ LoopNames /\ <<>> \in Seq(Blocks)
        /\ 0 \in Nat /\ 0 \in Int
    BY EmptySeq DEF OpNames, Terminators, LoopNames
  <2>2. yielded \in Emitted(cond.ir)
    BY <1>7, <2>1, EmitType, Zenon
  <2>3. yielded \in Upon(cond.ir)
    BY <1>7, <2>1, EmitUpon, Zenon
  <2> QED
    BY <1>7, <2>2, <2>3 DEF Emitted
<1> HIDE DEF yielded
<1>9. popped \in IRs /\ popped \in Upon(yielded) /\ popped.args = entry.args /\ popped.stack = ir.stack
  <2>1. yielded.stack # <<>>
    BY <1>5, <1>8
  <2>2. /\ popped \in IRs /\ popped \in Upon(yielded) /\ popped.args = entry.args
        /\ popped.stack = SubSeq(yielded.stack, 1, Len(yielded.stack) - 1)
    BY <1>8, <2>1, PopRegionType, PopRegionUpon
  <2>3. SubSeq(Append(ir.stack, test), 1, Len(Append(ir.stack, test)) - 1) = ir.stack
    BY <1>3, <1>4, FrontOfAppend
  <2> QED
    BY <1>5, <1>8, <2>2, <2>3
<1> HIDE DEF popped
<1>10. /\ done \in IRs /\ done \in Upon(popped) /\ done.stack = ir.stack
       /\ Len(done.args) = Len(ir.args) + 2
  <2>1. /\ done \in IRs /\ done \in Upon(popped) /\ done.stack = ir.stack
        /\ Len(done.args) = Len(popped.args) + 1
    BY <1>9, NewRegionType, NewRegionUpon
  <2> QED
    BY <1>3, <1>4, <1>9, <2>1
<1> HIDE DEF done
<1>11. f \in Frames /\ f.body = test + 1 /\ f.other = test
  <2>1. <<>> \in Seq(Objs) /\ test \in Nat /\ test # 0
    BY <1>4, EmptySeq DEF Blocks
  <2> QED
    BY <1>3, <1>4, <2>1, FrameType DEF Frame
<1> HIDE DEF f
<1>12. /\ ir' \in Upon(done) /\ ir'.stack = Append(ir.stack, test + 1)
       /\ Len(ir'.args) = Len(ir.args) + 2
  <2> DEFINE q == PushRegion(done, test + 1)
  <2>1. q \in Upon(done) /\ q.stack = Append(ir.stack, test + 1)
    BY <1>4, <1>10, PushRegionUpon
  <2>2. q.args = done.args
    BY <1>4, <1>10, PushRegionType
  <2>3. Len(q.args) = Len(ir.args) + 2
    BY <1>10, <2>2
  <2> QED
    BY <1>1, <2>1, <2>3
<1>13. ir' \in Upon(ir)
  <2>1. ir' \in Upon(yielded)
    BY <1>8, <1>9, <1>10, <1>12, UponTwice
  <2>2. ir' \in Upon(pushed)
    BY <1>5, <1>7, <1>8, <2>1, UponTwice
  <2> QED
    BY <1>3, <1>4, <1>5, <2>2, UponTwice
<1>14. test + 1 \in Held(f) /\ \A c \in Held(f) : c = test \/ c = test + 1
  BY <1>11 DEF Held
<1>15. \A c \in Held(f) : c \in Len(ir.args) + 1 .. Len(ir'.args)
  BY <1>3, <1>4, <1>12, <1>14
<1>16. f.body # f.other
  BY <1>4, <1>11 DEF Blocks
<1> QED
  BY <1>1, <1>3, <1>11, <1>12, <1>13, <1>14, <1>15, <1>16, EnterInv

(***************************************************************************)
(* The end of a compound statement.                                         *)
(***************************************************************************)
(* A generator resumes: the current block is the one it was started in, and *)
(* its operation takes regions that it holds.                               *)
LEMMA EmitClosed ==
    ASSUME TypeOK, ir.err = "none", Sound(ir), Nested(ir, frames), frames # <<>>,
           NEW name \in OpNames \ LoopNames, NEW objs \in Seq(Objs), NEW attr \in Int,
           NEW regions \in Seq(Blocks),
           \A i \in DOMAIN regions : regions[i] \in Held(Top),
           \A i, j \in DOMAIN regions : regions[i] = regions[j] => i = j
    PROVE  LET e == Emit(PopRegion(ir), name, objs, 0, regions, attr)
           IN  Sound(e) /\ Nested(e, Up)
<1> DEFINE popped == PopRegion(ir)
           q == Ensure(popped, objs)
           ids == EnsureIds(popped, objs)
<1>1. /\ ir \in IRs /\ ir.stack # <<>> /\ Len(ir.stack) > 1 /\ Tree(ir)
      /\ frames \in Seq(Frames) /\ Up \in Seq(Frames) /\ Len(Up) = Len(frames) - 1
  BY Running, TopType DEF Sound, TypeOK
<1>2. /\ popped \in IRs /\ popped \in Upon(ir) /\ popped.stack # <<>>
      /\ popped.stack = SubSeq(ir.stack, 1, Len(ir.stack) - 1)
  <2>1. popped \in IRs /\ Len(popped.stack) = Len(ir.stack) - 1
    BY <1>1, PopRegionType
  <2>2. popped.stack # <<>>
    BY <1>1, <2>1
  <2> QED
    BY <1>1, <2>1, <2>2, PopRegionUpon
<1> HIDE DEF popped
<1>3. /\ q \in IRs /\ q \in Upon(popped) /\ q.stack = popped.stack /\ ids \in Seq(Ids)
      /\ Block(q) = Block(popped) /\ Block(q) \in Blocks
  <2>1. q \in IRs /\ q \in Upon(popped) /\ q.stack = popped.stack /\ ids \in Seq(Ids)
    BY <1>2, EnsureType, EnsureUpon, EnsureIdsType DEF Emitted
  <2>2. Block(popped) \in Blocks
    BY <1>2, BlockType
  <2> QED
    BY <2>1, <2>2 DEF Block
<1> HIDE DEF q, ids
<1>4. q \in Upon(ir) /\ Sound(q)
  BY <1>1, <1>2, <1>3, UponTwice, SoundUpon
<1>5. /\ Nested(q, Up)
      /\ \A b \in Held(Top) : /\ b \in 2 .. Len(q.args) /\ Free(q, b) /\ Block(q) < b
                              /\ \A k \in 1 .. Len(Up) : b \notin Held(Up[k])
  <2>1. /\ Nested(q, Up)
        /\ \A b \in Held(Top) : /\ b \in 2 .. Len(q.args) /\ Free(q, b) /\ Block(q) < b
                                /\ \A k \in 1 .. Len(frames) - 1 : b \notin Held(frames[k])
    BY <1>1, <1>2, <1>3, <1>4, Ended DEF Up, Top
  <2>2. \A k \in 1 .. Len(Up) : k \in 1 .. Len(frames) - 1 /\ Up[k] = frames[k]
    BY <1>1, FrontType DEF Up
  <2> QED
    BY <2>1, <2>2
<1> DEFINE e == AppendOp(q, Block(q), name, ids, 0, regions, attr)
<1>6. /\ \A i \in DOMAIN regions :
           /\ regions[i] \in 2 .. Len(q.args) /\ Free(q, regions[i]) /\ Block(q) < regions[i]
           /\ \A k \in 1 .. Len(Up) : regions[i] \notin Held(Up[k])
      /\ ~(name \in LoopNames) /\ name \in OpNames /\ 0 \in Nat
  BY <1>5
<1>7. Sound(e) /\ Nested(e, Up)
  BY <1>3, <1>4, <1>5, <1>6, Closed, Zenon
<1> QED
  BY <1>3, <1>7 DEF Emit, e, q, ids, popped

(* The end of an if.                                                        *)
LEMMA ExitIfInv ==
    ASSUME Inv, ExitIf
    PROVE  Inv'
<1>1. /\ ir.err = "none" /\ frames # <<>> /\ Top.s.s = "if"
      /\ ir' = Emit(PopRegion(ir), "if", Top.objs, 0, IfRegions(Top), 0) /\ frames' = Up
  BY DEF ExitIf
<1>2. TypeOK /\ TypeOK' /\ Sound(ir) /\ Nested(ir, frames)
  BY ExitIfStep DEF Inv
<1>3. /\ Top.objs \in Seq(Objs) /\ Top.body \in Blocks /\ Top.other \in Blocks
      /\ Top.body # Top.other
  <2>1. Top.objs \in Seq(Objs) /\ Top.body \in Blocks /\ Top.other \in Blocks
    BY <1>1, <1>2, TopType DEF Frames, Blocks
  <2>2. Len(frames) \in 1 .. Len(frames)
    BY <1>1, <1>2, TopType
  <2> QED
    BY <1>2, <2>1, <2>2 DEF Nested, Top
<1> DEFINE regions == IfRegions(Top)
<1>4. /\ regions \in Seq(Blocks)
      /\ \A i \in DOMAIN regions : regions[i] \in Held(Top)
      /\ \A i, j \in DOMAIN regions : regions[i] = regions[j] => i = j
  <2>1. Top.body \in Held(Top) /\ Top.other \in Held(Top)
    BY <1>3 DEF Held, Blocks
  <2>2. CASE Top.branch = "else"
    BY <1>3, <2>1, <2>2 DEF IfRegions
  <2>3. CASE Top.branch # "else"
    BY <1>3, <2>1, <2>3 DEF IfRegions
  <2> QED
    BY <2>2, <2>3
<1>5. "if" \in OpNames \ LoopNames /\ 0 \in Int
  BY DEF OpNames, LoopNames
<1> HIDE DEF regions
<1> DEFINE e == Emit(PopRegion(ir), "if", Top.objs, 0, regions, 0)
<1>6. Sound(e) /\ Nested(e, Up)
  BY <1>1, <1>2, <1>3, <1>4, <1>5, EmitClosed, Zenon
<1> QED
  BY <1>1, <1>2, <1>6 DEF Inv, regions

(* The end of a while.                                                      *)
LEMMA ExitWhileInv ==
    ASSUME Inv, ExitWhile
    PROVE  Inv'
<1> DEFINE regions == <<Top.other, Top.body>>
           none == <<>>
           e == Emit(PopRegion(ir), "while", none, 0, regions, 0)
<1>1. ir.err = "none" /\ frames # <<>> /\ Top.s.s = "while" /\ ir' = e /\ frames' = Up
  BY DEF ExitWhile
<1>2. TypeOK /\ TypeOK' /\ Sound(ir) /\ Nested(ir, frames)
  BY ExitWhileStep DEF Inv
<1>3. Top.body \in Blocks /\ Top.other \in Blocks /\ Top.body # Top.other
  <2>1. Top.body \in Blocks /\ Top.other \in Blocks
    BY <1>1, <1>2, TopType DEF Frames, Blocks
  <2>2. Len(frames) \in 1 .. Len(frames)
    BY <1>1, <1>2, TopType
  <2> QED
    BY <1>2, <2>1, <2>2 DEF Nested, Top
<1>4. /\ regions \in Seq(Blocks) /\ none \in Seq(Objs)
      /\ \A i \in DOMAIN regions : regions[i] \in Held(Top)
      /\ \A i, j \in DOMAIN regions : regions[i] = regions[j] => i = j
  <2>1. Top.body \in Held(Top) /\ Top.other \in Held(Top)
    BY <1>3 DEF Held, Blocks
  <2> QED
    BY <1>3, <2>1, EmptySeq
<1>5. "while" \in OpNames \ LoopNames /\ 0 \in Int
  BY DEF OpNames, LoopNames
<1> HIDE DEF regions, none
<1>6. Sound(e) /\ Nested(e, Up)
  BY <1>1, <1>2, <1>4, <1>5, EmitClosed, Zenon
<1> QED
  BY <1>1, <1>2, <1>6 DEF Inv

(* The end of a kernel region.                                              *)
LEMMA ExitKernelInv ==
    ASSUME Inv, ExitKernel
    PROVE  Inv'
<1> DEFINE regions == <<Top.body>>
           e == Emit(PopRegion(ir), "kernel", Top.objs, 0, regions, 1)
<1>1. ir.err = "none" /\ frames # <<>> /\ ir' = e /\ frames' = Up
  BY DEF ExitKernel
<1>2. TypeOK /\ TypeOK' /\ Sound(ir) /\ Nested(ir, frames)
  BY ExitKernelStep DEF Inv
<1>3. Top.objs \in Seq(Objs) /\ Top.body \in Blocks
  BY <1>1, <1>2, TopType DEF Frames
<1>4. /\ regions \in Seq(Blocks)
      /\ \A i \in DOMAIN regions : regions[i] \in Held(Top)
      /\ \A i, j \in DOMAIN regions : regions[i] = regions[j] => i = j
  BY <1>3 DEF Held
<1>5. "kernel" \in OpNames \ LoopNames /\ 1 \in Int
  BY DEF OpNames, LoopNames
<1> HIDE DEF regions
<1>6. Sound(e) /\ Nested(e, Up)
  BY <1>1, <1>2, <1>3, <1>4, <1>5, EmitClosed, Zenon
<1> QED
  BY <1>1, <1>2, <1>6 DEF Inv

(* A loop's body ends in a yield of the values that it carries.             *)
LEMMA YieldFinalsLast ==
    ASSUME NEW r \in IRs, NEW b \in Blocks, NEW finals \in Seq(Ids), Len(finals) # 0,
           YieldFinals(r, b, finals).err = "none"
    PROVE  LET e == YieldFinals(r, b, finals)
           IN  \E y \in 1 .. Len(e.ops) : /\ e.ops[y].blk = b /\ e.ops[y].name = "yield"
                                          /\ Len(e.ops[y].operands) = Len(finals)
<1> DEFINE none == <<>>
           zero == 0
           kind == "yield"
           e == AppendOp(r, b, kind, finals, zero, none, zero)
           op == e.ops[Len(r.ops) + 1]
<1>1. /\ kind \in OpNames /\ none \in Seq(Blocks) /\ zero \in Nat /\ zero \in Int
      /\ Len(r.ops) \in Nat
  BY PartsType, EmptySeq DEF OpNames, Terminators
<1>2. YieldFinals(r, b, finals) = e
  BY EmptySeq DEF YieldFinals
<1> HIDE DEF none, zero, kind
<1>3. \/ e.err # "none"
      \/ Len(e.ops) = Len(r.ops) + 1 /\ op.name = kind /\ op.blk = b /\ op.operands = finals
  <2>1. /\ e \in IRs /\ e.stack = r.stack /\ e.args = r.args /\ (Once(r) => Once(e))
        /\ \/ e.ops = r.ops /\ e.err # "none"
           \/ /\ e.err = "none" /\ Len(e.ops) = Len(r.ops) + 1
              /\ \A k \in 1 .. Len(r.ops) : e.ops[k] = r.ops[k]
              /\ op.name = kind /\ op.blk = b /\ op.operands = finals
              /\ op.regions = none /\ Len(op.results) = zero
    BY <1>1, AppendOpParts
  <2> QED
    BY <2>1
<1> HIDE DEF e
<1>4. Len(r.ops) + 1 \in 1 .. Len(e.ops)
  BY <1>1, <1>2, <1>3
<1> QED
  BY <1>2, <1>3, <1>4 DEF kind

(* The end of ctx_for closes the loop, with its body as the one region.     *)
LEMMA CloseLoopSound ==
    ASSUME TypeOK, ir.err = "none", Sound(ir), Nested(ir, frames), frames # <<>>,
           Top.s.s \in LoopKinds
    PROVE  LET names == Pick(Top.before.order, Carried(ir, Top.before, scope))
               e == CloseLoop(ir, Top, names, scope)
           IN  Sound(e) /\ Nested(e, Up)
<1> DEFINE f == Top
           names == Pick(f.before.order, Carried(ir, f.before, scope))
           n == Len(names)
           outer == PopRegion(ir)
           bounds == Ensure(outer, f.objs)
           initials == [j \in 1..n |-> f.before.at[names[j]].n]
           finals == [j \in 1..n |-> scope.at[names[j]].n]
           opened == NewArgs(bounds, f.body, n)
           rewired == ReplaceRegionUses(opened, f.body, initials, Fresh(bounds, n))
           yielded == YieldFinals(rewired, f.body, finals)
           ids == EnsureIds(outer, f.objs)
           closed == AppendOp(yielded, Block(outer), LoopOp(f.s.s), ids \o initials,
                              n, <<f.body>>, Len(f.s.dst))
<1>1. /\ ir \in IRs /\ ir.stack # <<>> /\ Len(ir.stack) > 1 /\ Tree(ir) /\ scope \in Scopes
      /\ frames \in Seq(Frames) /\ Up \in Seq(Frames) /\ Len(Up) = Len(frames) - 1
      /\ f \in Frames /\ Len(frames) \in 1 .. Len(frames) /\ f = frames[Len(frames)]
  BY Running, TopType DEF Sound, TypeOK, Top
<1>2. f.s \in Menu /\ f.body \in Blocks /\ f.objs \in Seq(Objs) /\ f.before \in Scopes
  BY <1>1 DEF Frames
<1>3. /\ n \in Nat
      /\ \A j \in 1..n : f.before.at[names[j]].n \in Ids /\ scope.at[names[j]].n \in Ids
  BY <1>1, <1>2, CarriedType
<1> HIDE DEF names, n
<1>4. initials \in Seq(Ids) /\ finals \in Seq(Ids) /\ Len(initials) = n /\ Len(finals) = n
  <2>1. initials \in [1..n -> Ids] /\ finals \in [1..n -> Ids]
    BY <1>3
  <2> QED
    BY <1>3, <2>1, FunctionIsSeq
<1>5. f.body \in Held(f) /\ f.body \in 1 .. Len(ir.args)
  <2>1. f.body \in Held(f)
    BY DEF Held
  <2>2. f.body \in 2 .. Len(ir.args)
    BY <1>1, <2>1 DEF Nested
  <2> QED
    BY <2>1, <2>2
<1> HIDE DEF f, initials, finals
<1>6. /\ outer \in IRs /\ outer.args = ir.args /\ outer \in Upon(ir) /\ outer.stack # <<>>
      /\ outer.stack = SubSeq(ir.stack, 1, Len(ir.stack) - 1)
  <2>1. outer \in IRs /\ outer.args = ir.args /\ Len(outer.stack) = Len(ir.stack) - 1
    BY <1>1, PopRegionType
  <2>2. outer.stack # <<>>
    BY <1>1, <2>1
  <2> QED
    BY <1>1, <2>1, <2>2, PopRegionUpon
<1> HIDE DEF outer
<1>7. /\ bounds \in IRs /\ bounds \in Upon(outer) /\ bounds.args = ir.args
      /\ bounds.stack = outer.stack /\ Block(outer) \in Blocks /\ ids \in Seq(Ids)
  BY <1>2, <1>6, EnsureType, EnsureUpon, BlockType, EnsureIdsType DEF Emitted
<1> HIDE DEF bounds, ids
<1>8. /\ opened \in IRs /\ opened \in Upon(bounds) /\ opened.stack = outer.stack
      /\ Fresh(bounds, n) \in Seq(Ids) /\ Len(Fresh(bounds, n)) = n
  <2>1. opened \in IRs /\ opened.stack = bounds.stack
    BY <1>3, <1>7, NewArgsType, Zenon
  <2>2. f.body \in 1 .. Len(bounds.args)
    BY <1>5, <1>7
  <2>3. opened \in Upon(bounds)
    BY <1>3, <1>7, <2>2, NewArgsUpon, Zenon
  <2>4. Fresh(bounds, n) \in Seq(Ids) /\ Len(Fresh(bounds, n)) = n
    BY <1>3, <1>7, FreshType, Zenon
  <2> QED
    BY <1>7, <2>1, <2>3, <2>4
<1> HIDE DEF opened
<1>9. rewired \in IRs /\ rewired \in Upon(opened) /\ rewired.stack = outer.stack
  <2>1. rewired \in Emitted(opened)
    BY <1>4, <1>8, ReplaceRegionUsesType
  <2>2. rewired \in Upon(opened)
    BY <1>4, <1>8, ReplaceRegionUsesUpon
  <2> QED
    BY <1>8, <2>1, <2>2 DEF Emitted
<1> HIDE DEF rewired
<1>10. yielded \in IRs /\ yielded \in Upon(rewired) /\ yielded.stack = outer.stack
  <2>1. yielded \in Emitted(rewired) /\ yielded \in Upon(rewired)
    BY <1>2, <1>4, <1>9, YieldFinalsType, YieldFinalsUpon
  <2> QED
    BY <1>9, <2>1 DEF Emitted
<1>11. n # 0 /\ yielded.err = "none" =>
         \E y \in 1 .. Len(yielded.ops) : /\ yielded.ops[y].blk = f.body
                                          /\ yielded.ops[y].name = "yield"
                                          /\ Len(yielded.ops[y].operands) = n
  BY <1>2, <1>4, <1>9, YieldFinalsLast
<1> HIDE DEF yielded
<1>12. yielded \in Upon(ir) /\ Sound(yielded)
  <2>1. yielded \in Upon(bounds)
    BY <1>7, <1>8, <1>9, <1>10, UponTwice
  <2>2. yielded \in Upon(ir)
    BY <1>1, <1>6, <1>7, <2>1, UponTwice
  <2> QED
    BY <1>1, <2>2, SoundUpon
<1>13. /\ Nested(yielded, Up)
       /\ f.body \in 2 .. Len(yielded.args) /\ Free(yielded, f.body)
       /\ Block(yielded) < f.body /\ Block(yielded) = Block(outer)
       /\ \A k \in 1 .. Len(Up) : f.body \notin Held(Up[k])
  <2>1. /\ Nested(yielded, Up)
        /\ \A b \in Held(f) : /\ b \in 2 .. Len(yielded.args) /\ Free(yielded, b)
                              /\ Block(yielded) < b
                              /\ \A k \in 1 .. Len(frames) - 1 : b \notin Held(frames[k])
    BY <1>1, <1>6, <1>10, <1>12, Ended DEF Up
  <2>2. \A k \in 1 .. Len(Up) : k \in 1 .. Len(frames) - 1 /\ Up[k] = frames[k]
    BY <1>1, FrontType DEF Up
  <2>3. Block(yielded) = Block(outer)
    BY <1>10 DEF Block
  <2> QED
    BY <1>5, <2>1, <2>2, <2>3
<1> DEFINE regions == <<f.body>>
<1>14. /\ regions \in Seq(Blocks) /\ regions[1] = f.body
       /\ \A i \in DOMAIN regions : regions[i] = f.body
       /\ \A i, j \in DOMAIN regions : regions[i] = regions[j] => i = j
  BY <1>2
<1>15. /\ ids \o initials \in Seq(Ids) /\ Len(f.s.dst) \in Int /\ LoopOp(f.s.s) \in OpNames
  <2>1. ids \o initials \in Seq(Ids)
    BY <1>4, <1>7, ConcatProperties
  <2>2. Len(f.s.dst) \in Int
    BY <1>2, StatementType, LenProperties
  <2>3. LoopOp(f.s.s) \in OpNames
    BY LoopOpType DEF f
  <2> QED
    BY <2>1, <2>2, <2>3
<1> HIDE DEF regions
<1> DEFINE last == AppendOp(yielded, Block(yielded), LoopOp(f.s.s), ids \o initials,
                            n, regions, Len(f.s.dst))
<1>16. Sound(last) /\ Nested(last, Up)
  <2>1. \A i \in DOMAIN regions :
          /\ regions[i] \in 2 .. Len(yielded.args) /\ Free(yielded, regions[i])
          /\ Block(yielded) < regions[i]
          /\ \A k \in 1 .. Len(Up) : regions[i] \notin Held(Up[k])
    BY <1>13, <1>14
  <2>2. LoopOp(f.s.s) \in LoopNames /\ n # 0 /\ yielded.err = "none" =>
          \E y \in 1 .. Len(yielded.ops) : /\ yielded.ops[y].blk = regions[1]
                                           /\ yielded.ops[y].name = "yield"
                                           /\ Len(yielded.ops[y].operands) = n
    BY <1>11, <1>14
  <2>3. Block(yielded) \in Blocks
    BY <1>7, <1>13
  <2> QED
    BY <1>3, <1>10, <1>12, <1>13, <1>14, <1>15, <2>1, <2>2, <2>3, Closed, Zenon
<1>17. last = closed
  BY <1>13 DEF regions
<1> HIDE DEF last, closed
<1> DEFINE raised == Raise(bounds, "parallelCarry")
<1>18. Sound(raised) /\ Nested(raised, Up)
  <2>1. raised \in Upon(bounds) /\ raised.stack = bounds.stack
    BY <1>7, RaiseUpon, RaiseType DEF Emitted
  <2>2. raised \in Upon(ir) /\ raised \in IRs
    BY <1>1, <1>6, <1>7, <2>1, UponTwice
  <2>3. Sound(raised)
    BY <1>1, <2>2, SoundUpon
  <2>4. Nested(raised, Up)
    BY <1>1, <1>6, <1>7, <2>1, <2>2, Ended DEF Up
  <2> QED
    BY <2>3, <2>4
<1> HIDE DEF raised
<1>19. CloseLoop(ir, f, names, scope) = IF bounds.err = "none" /\ Refused(f, n)
                                        THEN raised ELSE closed
  BY DEF CloseLoop, n, outer, bounds, initials, finals, opened, rewired, yielded, ids, closed,
         raised
<1> QED
  BY <1>16, <1>17, <1>18, <1>19 DEF names, f

(* The end of a loop.                                                       *)
LEMMA ExitForInv ==
    ASSUME Inv, ExitFor
    PROVE  Inv'
<1>1. /\ ir.err = "none" /\ frames # <<>> /\ Top.s.s \in LoopKinds /\ frames' = Up
      /\ ir' = CloseLoop(ir, Top, Pick(Top.before.order, Carried(ir, Top.before, scope)), scope)
  BY DEF ExitFor
<1>2. TypeOK /\ TypeOK' /\ Sound(ir) /\ Nested(ir, frames)
  BY ExitForStep DEF Inv
<1>3. Sound(ir') /\ Nested(ir', Up)
  BY <1>1, <1>2, CloseLoopSound
<1> QED
  BY <1>1, <1>2, <1>3 DEF Inv

(***************************************************************************)
(* The invariant.                                                           *)
(***************************************************************************)
(* The prologue leaves the buffer, value 0, and an empty kernel body.       *)
LEMMA InitInv == Init => Inv
<1> SUFFICES ASSUME Init PROVE Inv
  OBVIOUS
<1> DEFINE none == <<>>
           line == <<0>>
           args == <<line>>
<1>1. ir.next = 1 /\ ir.ops = none /\ ir.args = args /\ ir.stack = <<1>> /\ frames = none
  BY DEF Init
<1>2. /\ DOMAIN none = {} /\ Len(none) = 0 /\ DOMAIN args = {1} /\ Len(args) = 1
      /\ args[1] = line /\ DOMAIN line = {1} /\ line[1] = 0
  BY EmptySeq
<1> HIDE DEF none, line, args
<1>3. Once(ir)
  <2> DEFINE d == [k |-> "arg", i |-> 1, j |-> 1, v |-> 0]
  <2>1. d \in Places /\ d.v = 0
    BY DEF Places, Ids
  <2>2. IsArg(ir, d)
    BY <1>1, <1>2 DEF IsArg
  <2>3. ASSUME NEW c \in Defs(ir) PROVE c = d
    <3>1. c \in Places /\ IsArg(ir, c)
      BY <1>1, <1>2, <2>3 DEF Defs, IsResult
    <3>2. c.k = "arg" /\ c.i = 1 /\ c.j = 1 /\ c.v = 0
      BY <1>1, <1>2, <3>1 DEF IsArg
    <3> QED
      BY <3>1, <3>2 DEF Places
  <2>4. d \in Defs(ir)
    BY <2>1, <2>2 DEF Defs
  <2>5. \A v \in 0 .. 1 - 1 : v = 0
    OBVIOUS
  <2>6. 0 \in 0 .. 1 - 1
    OBVIOUS
  <2> HIDE DEF d
  <2>7. Numbered(Defs(ir), 1)
    <3>1. \A c \in Defs(ir) : c.v \in 0 .. 1 - 1
      BY <2>1, <2>3, <2>6
    <3>2. \A c, g \in Defs(ir) : c.v = g.v => c = g
      BY <2>3
    <3> QED
      BY <3>1, <3>2 DEF Numbered
  <2>8. Complete(Defs(ir), 1)
    BY <2>1, <2>4, <2>5 DEF Complete
  <2> QED
    BY <1>1, <2>7, <2>8 DEF Once
<1>4. Tree(ir) /\ Yields(ir)
  BY <1>1, <1>2 DEF Tree, Yields
<1>5. Nested(ir, frames)
  <2>1. Len(ir.stack) = 1 /\ ir.stack[1] = 1 /\ Len(ir.args) = 1 /\ Len(frames) = 0
    BY <1>1, <1>2
  <2> QED
    BY <2>1 DEF Nested
<1> QED
  BY <1>3, <1>4, <1>5, InitType DEF Inv, Sound

(* Every step keeps it.                                                     *)
LEMMA NextInv == Inv /\ [Next]_vars => Inv'
<1> SUFFICES ASSUME Inv, [Next]_vars PROVE Inv'
  OBVIOUS
<1>1. ASSUME UNCHANGED vars PROVE Inv'
  <2>1. ir' = ir /\ frames' = frames
    BY <1>1 DEF vars
  <2>2. TypeOK'
    BY NextType DEF Inv
  <2> QED
    BY <2>1, <2>2 DEF Inv
<1>2. ASSUME NEW st \in Menu,
             \/ Assign(st) \/ TupleAssign(st) \/ AugAssign(st)
             \/ AssignSlice(st) \/ AugAssignSlice(st) \/ Return(st)
             \/ EnterFor(st) \/ EnterIf(st) \/ EnterWhile(st) \/ EnterKernel(st)
             \/ SkipRest(st) \/ AbandonLoop(st)
      PROVE  Inv'
  <2>1. CASE \/ Assign(st) \/ TupleAssign(st) \/ AugAssign(st)
             \/ AssignSlice(st) \/ AugAssignSlice(st) \/ Return(st)
    BY <2>1, AssignInv, TupleAssignInv, AugAssignInv, AssignSliceInv, AugAssignSliceInv,
       ReturnInv
  <2>2. CASE EnterFor(st) \/ EnterIf(st) \/ EnterWhile(st) \/ EnterKernel(st)
    BY <2>2, EnterForInv, EnterIfInv, EnterWhileInv, EnterKernelInv
  <2>3. CASE SkipRest(st) \/ AbandonLoop(st)
    BY <2>3, SkipRestInv, AbandonLoopInv
  <2> QED
    BY <1>2, <2>1, <2>2, <2>3
<1>3. ASSUME ExitFor \/ EnterElse \/ ExitIf \/ ExitWhile \/ ExitKernel PROVE Inv'
  BY <1>3, ExitForInv, EnterElseInv, ExitIfInv, ExitWhileInv, ExitKernelInv
<1> QED
  BY <1>1, <1>2, <1>3 DEF Next, Stop

(***************************************************************************)
(* What it says.                                                            *)
(***************************************************************************)
(* The sites of an id are its definitions.                                  *)
LEMMA SitesAreDefs ==
    ASSUME ir \in IRs, NEW v \in Ids
    PROVE  /\ \A p : p \in ArgSites(v) <=>
                  \E b, j : p = <<b, j>> /\ [k |-> "arg", i |-> b, j |-> j, v |-> v] \in Defs(ir)
           /\ \A p : p \in OpSites(v) <=>
                  \E m, j : p = <<m, j>> /\ [k |-> "op", i |-> m, j |-> j, v |-> v] \in Defs(ir)
<1>1. /\ DOMAIN ir.args = 1 .. Len(ir.args) /\ DOMAIN ir.ops = 1 .. Len(ir.ops)
      /\ Len(ir.args) \in Nat /\ Len(ir.ops) \in Nat
  BY PartsType
<1>2. \A b \in DOMAIN ir.args : DOMAIN ir.args[b] \subseteq Nat
  <2>1. \A b \in DOMAIN ir.args : ir.args[b] \in Seq(Ids)
    BY <1>1, PartsType
  <2> QED
    BY <2>1, LenProperties
<1>3. \A m \in DOMAIN ir.ops : DOMAIN ir.ops[m].results \subseteq Nat
  <2>1. \A m \in DOMAIN ir.ops : ir.ops[m] \in Operations
    BY <1>1, PartsType
  <2>2. \A m \in DOMAIN ir.ops : ir.ops[m].results \in Seq(Ids)
    BY <2>1 DEF Operations
  <2> QED
    BY <2>2, LenProperties
<1>4. ASSUME NEW b, NEW j
      PROVE  [k |-> "arg", i |-> b, j |-> j, v |-> v] \in Defs(ir)
               <=> b \in DOMAIN ir.args /\ j \in DOMAIN ir.args[b] /\ ir.args[b][j] = v
  BY <1>1, <1>2 DEF Defs, Places, IsArg, IsResult
<1>5. ASSUME NEW m, NEW j
      PROVE  [k |-> "op", i |-> m, j |-> j, v |-> v] \in Defs(ir)
               <=> m \in DOMAIN ir.ops /\ j \in DOMAIN ir.ops[m].results
                     /\ ir.ops[m].results[j] = v
  BY <1>1, <1>3 DEF Defs, Places, IsArg, IsResult
<1>6. ASSUME NEW p
      PROVE  p \in ArgSites(v) <=>
               \E b, j : p = <<b, j>> /\ [k |-> "arg", i |-> b, j |-> j, v |-> v] \in Defs(ir)
  <2>1. p \in ArgSites(v) <=>
          \E b, j : p = <<b, j>> /\ b \in DOMAIN ir.args /\ j \in DOMAIN ir.args[b]
                     /\ ir.args[b][j] = v
    BY DEF ArgSites
  <2> QED
    BY <1>4, <2>1
<1>7. ASSUME NEW p
      PROVE  p \in OpSites(v) <=>
               \E m, j : p = <<m, j>> /\ [k |-> "op", i |-> m, j |-> j, v |-> v] \in Defs(ir)
  <2>1. p \in OpSites(v) <=>
          \E m, j : p = <<m, j>> /\ m \in DOMAIN ir.ops /\ j \in DOMAIN ir.ops[m].results
                     /\ ir.ops[m].results[j] = v
    BY DEF OpSites
  <2> QED
    BY <1>5, <2>1
<1> QED
  BY <1>6, <1>7

(* An id that is defined has one site.                                      *)
LEMMA OneSite ==
    ASSUME ir \in IRs, Once(ir), NEW v \in Ids, NEW d \in Defs(ir), d.v = v
    PROVE  Cardinality(ArgSites(v)) + Cardinality(OpSites(v)) = 1
<1>1. v \in Ids
  OBVIOUS
<1>2. d.v = v
  OBVIOUS
<1>3. \A c \in Defs(ir) : c.v = v => c = d
  BY <1>2 DEF Once, Numbered
<1>4. d \in Places
  BY DEF Defs
<1>5. ASSUME NEW p \in ArgSites(v)
      PROVE  \E b, j : p = <<b, j>> /\ [k |-> "arg", i |-> b, j |-> j, v |-> v] = d
  <2>1. PICK b, j : p = <<b, j>> /\ [k |-> "arg", i |-> b, j |-> j, v |-> v] \in Defs(ir)
    BY <1>1, SitesAreDefs
  <2>2. [k |-> "arg", i |-> b, j |-> j, v |-> v] = d
    BY <1>3, <2>1
  <2> QED
    BY <2>1, <2>2
<1>6. \A p : p \in OpSites(v) =>
        \E m, j : p = <<m, j>> /\ [k |-> "op", i |-> m, j |-> j, v |-> v] = d
  <2> SUFFICES ASSUME NEW p \in OpSites(v)
               PROVE  \E m, j : p = <<m, j>> /\ [k |-> "op", i |-> m, j |-> j, v |-> v] = d
    OBVIOUS
  <2>1. PICK m, j : p = <<m, j>> /\ [k |-> "op", i |-> m, j |-> j, v |-> v] \in Defs(ir)
    BY <1>1, SitesAreDefs
  <2>2. [k |-> "op", i |-> m, j |-> j, v |-> v] = d
    BY <1>3, <2>1
  <2> QED
    BY <2>1, <2>2
<1>7. CASE d.k = "arg"
  <2>1. d = [k |-> "arg", i |-> d.i, j |-> d.j, v |-> v]
    BY <1>2, <1>4, <1>7 DEF Places
  <2>2. <<d.i, d.j>> \in ArgSites(v)
    <3>1. [k |-> "arg", i |-> d.i, j |-> d.j, v |-> v] \in Defs(ir)
      BY <2>1
    <3> QED
      BY <1>1, <3>1, SitesAreDefs
  <2>3. \A p \in ArgSites(v) : p = <<d.i, d.j>>
    BY <1>5
  <2>4. ArgSites(v) = {<<d.i, d.j>>}
    BY <2>2, <2>3
  <2>5. OpSites(v) = {}
    BY <1>6, <1>7
  <2>6. Cardinality(ArgSites(v)) = 1 /\ Cardinality(OpSites(v)) = 0
    BY <2>4, <2>5, FS_Singleton, FS_EmptySet
  <2> QED
    BY <2>6
<1>8. CASE d.k = "op"
  <2>1. d = [k |-> "op", i |-> d.i, j |-> d.j, v |-> v]
    BY <1>2, <1>4, <1>8 DEF Places
  <2>2. <<d.i, d.j>> \in OpSites(v)
    <3>1. [k |-> "op", i |-> d.i, j |-> d.j, v |-> v] \in Defs(ir)
      BY <2>1
    <3> QED
      BY <1>1, <3>1, SitesAreDefs
  <2>3. \A p \in OpSites(v) : p = <<d.i, d.j>>
    BY <1>6
  <2>4. OpSites(v) = {<<d.i, d.j>>}
    BY <2>2, <2>3
  <2>5. ArgSites(v) = {}
    BY <1>5, <1>8
  <2>6. Cardinality(ArgSites(v)) = 0 /\ Cardinality(OpSites(v)) = 1
    BY <2>4, <2>5, FS_Singleton, FS_EmptySet
  <2> QED
    BY <2>6
<1> QED
  BY <1>4, <1>7, <1>8 DEF Places

(* A region that belongs to an operation has one site, in an older block.   *)
LEMMA OneRegionSite ==
    ASSUME ir \in IRs, Tree(ir), NEW b
    PROVE  /\ Cardinality(RegionSites(b)) <= 1
           /\ \A site \in RegionSites(b) : b \in 2 .. Len(ir.args) /\ ir.ops[site[1]].blk < b
           /\ Free(ir, b) => RegionSites(b) = {}
<1>1. DOMAIN ir.ops = 1 .. Len(ir.ops)
  BY PartsType
<1>2. \A p : p \in RegionSites(b) <=>
        \E k, j : p = <<k, j>> /\ k \in 1 .. Len(ir.ops) /\ j \in DOMAIN ir.ops[k].regions
                   /\ ir.ops[k].regions[j] = b
  BY <1>1 DEF RegionSites
<1>3. \A p, q \in RegionSites(b) : p = q
  BY <1>2 DEF Tree
<1>4. Cardinality(RegionSites(b)) <= 1
  <2>1. CASE RegionSites(b) = {}
    BY <2>1, FS_EmptySet
  <2>2. CASE RegionSites(b) # {}
    <3>1. PICK p : RegionSites(b) = {p}
      BY <1>3, <2>2
    <3> QED
      BY <3>1, FS_Singleton
  <2> QED
    BY <2>1, <2>2
<1>5. \A site \in RegionSites(b) : b \in 2 .. Len(ir.args) /\ ir.ops[site[1]].blk < b
  BY <1>2 DEF Tree
<1>6. Free(ir, b) => RegionSites(b) = {}
  BY <1>2 DEF Free
<1> QED
  BY <1>4, <1>5, <1>6

(* The stack holds the kernel body and held regions: all are free.          *)
LEMMA InvIsTree == Inv => RegionTree
<1> SUFFICES ASSUME Inv PROVE RegionTree
  OBVIOUS
<1>1. /\ ir \in IRs /\ Tree(ir) /\ Nested(ir, frames) /\ Len(frames) \in Nat
      /\ ir.stack \in Seq(Blocks)
  BY LenProperties, PartsType DEF Inv, Sound, TypeOK
<1>2. RegionSites(1) = {}
  <2>1. 1 \notin 2 .. Len(ir.args)
    BY <1>1, PartsType
  <2> QED
    BY <1>1, <2>1, OneRegionSite, Zenon
<1>3. ASSUME NEW j \in DOMAIN ir.stack PROVE RegionSites(ir.stack[j]) = {}
  <2>1. j \in 1 .. Len(frames) + 1
    BY <1>1, <1>3, LenProperties DEF Nested
  <2>2. CASE j = 1
    BY <1>1, <1>2, <2>2 DEF Nested
  <2>3. CASE j # 1
    <3>1. j - 1 \in 1 .. Len(frames) /\ (j - 1) + 1 = j
      BY <1>1, <2>1, <2>3
    <3>2. ir.stack[j] \in Held(frames[j - 1])
      BY <1>1, <3>1 DEF Nested
    <3>3. Free(ir, ir.stack[j])
      BY <1>1, <3>1, <3>2 DEF Nested
    <3> QED
      BY <1>1, <3>3, OneRegionSite
  <2> QED
    BY <2>2, <2>3
<1> QED
  BY <1>1, <1>2, <1>3, OneRegionSite DEF RegionTree

(* A loop's yield is in its body.                                           *)
LEMMA InvYields == Inv => LoopsYield
<1> SUFFICES ASSUME Inv PROVE LoopsYield
  OBVIOUS
<1>1. Yields(ir) /\ DOMAIN ir.ops = 1 .. Len(ir.ops)
  BY PartsType DEF Inv, Sound, TypeOK
<1> QED
  BY <1>1 DEF LoopsYield, Yields, YieldsTo, LoopNames, OpsOf

(* Every id is numbered, and those that are not defined are a raise's.      *)
LEMMA InvDefines == Inv => DefinedOnce
<1> SUFFICES ASSUME Inv, NEW v \in 0 .. LastValue(ir)
             PROVE  LET sites == Cardinality(ArgSites(v)) + Cardinality(OpSites(v))
                    IN  sites <= 1 /\ (ir.err = "none" => sites = 1)
  BY DEF DefinedOnce
<1>1. ir \in IRs /\ Once(ir)
  BY DEF Inv, Sound, TypeOK
<1>2. v \in Ids /\ v \in 0 .. ir.next - 1
  BY <1>1, PartsType DEF LastValue, Ids
<1>3. CASE \E d \in Defs(ir) : d.v = v
  BY <1>1, <1>2, <1>3, OneSite
<1>4. CASE ~\E d \in Defs(ir) : d.v = v
  <2>1. ir.err # "none"
    BY <1>1, <1>2, <1>4 DEF Once, Complete
  <2>2. ArgSites(v) = {} /\ OpSites(v) = {}
    <3>1. \A k \in {"arg", "op"} : \A i, j : [k |-> k, i |-> i, j |-> j, v |-> v].v = v
      OBVIOUS
    <3>2. \A i, j : /\ [k |-> "arg", i |-> i, j |-> j, v |-> v] \notin Defs(ir)
                    /\ [k |-> "op", i |-> i, j |-> j, v |-> v] \notin Defs(ir)
      BY <1>4, <3>1
    <3> QED
      BY <1>1, <1>2, <3>2, SitesAreDefs
  <2>3. Cardinality(ArgSites(v)) = 0 /\ Cardinality(OpSites(v)) = 0
    BY <2>2, FS_EmptySet
  <2> QED
    BY <2>1, <2>3
<1> QED
  BY <1>3, <1>4

(***************************************************************************)
(* The theorems.                                                            *)
(***************************************************************************)
(* Whatever the source, and however its compound statements are left, every *)
(* id that new_value handed out names one thing, one argument of one block  *)
(* or one result of one operation, as long as the trace has not raised, and *)
(* then too no id is handed out twice.                                      *)
THEOREM IdsNameOneThing == Spec => []DefinedOnce
<1>1. Init => Inv
  BY InitInv
<1>2. Inv /\ [Next]_vars => Inv'
  BY NextInv
<1>3. Inv => DefinedOnce
  BY InvDefines
<1> QED
  BY <1>1, <1>2, <1>3, PTL DEF Spec

(* Whatever the source, each region belongs to at most one place of one     *)
(* operation, in an older block than its own, and the regions on the stack  *)
(* belong to none: a loop that a break abandons, or that is refused, leaves *)
(* its region to nobody, and no operation takes another one's.              *)
THEOREM RegionsFormATree == Spec => []RegionTree
<1>1. Init => Inv
  BY InitInv
<1>2. Inv /\ [Next]_vars => Inv'
  BY NextInv
<1>3. Inv => RegionTree
  BY InvIsTree
<1> QED
  BY <1>1, <1>2, <1>3, PTL DEF Spec

(* Whatever the source, a serial or pipelined loop with results has a yield *)
(* of as many values in its body: it never closes over a body that ended in *)
(* a return, or that the rewiring left without a yield.                     *)
THEOREM LoopsAlwaysYield == Spec => []LoopsYield
<1>1. Init => Inv
  BY InitInv
<1>2. Inv /\ [Next]_vars => Inv'
  BY NextInv
<1>3. Inv => LoopsYield
  BY InvYields
<1> QED
  BY <1>1, <1>2, <1>3, PTL DEF Spec
=============================================================================
