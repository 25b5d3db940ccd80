------------------------------ MODULE TraceIR ------------------------------
(***************************************************************************)
(* The structured IR that a trace builds (tileflow/language/ir.py), as pure *)
(* operators on a record                                                    *)
(*                                                                          *)
(*   next   IRBuilder._next_value                                           *)
(*   ops    every operation appended so far, in the order of the appends    *)
(*   args   block id -> Block.args; block 1 is the entry of the kernel body *)
(*   stack  IRBuilder._region_stack, as ids of the regions' entry blocks    *)
(*   err    "none", or why the builder raised                               *)
(*                                                                          *)
(* A Region has one Block, so a block id names both. Block.ops and          *)
(* Block.terminator are the operations of `ops' whose blk is that block: an *)
(* operation is in ops in the order of the appends, and a terminator is     *)
(* the last one because append refuses any other after it. A raise unwinds  *)
(* the whole trace, so it only records its reason. Types are left out.      *)
(***************************************************************************)
EXTENDS Integers, Sequences, FiniteSets

(* What a Python name may stand for: a Python number, an IR Value, nothing. *)
Num(n) == [k |-> "num", n |-> n]
Val(v) == [k |-> "val", n |-> v]
Unbound == [k |-> "none", n |-> 0]
IsNum(o) == o.k = "num"
IsVal(o) == o.k = "val"

Terminators == {"yield", "break", "continue", "return"}
OpNames == Terminators \cup {"const", "add", "lt", "gt", "and", "select", "load", "store",
                             "if", "while", "kernel", "serial_for", "pipelined_for", "parallel"}

(* The types of all this. Value 0 exists before anything is traced.         *)
Ids == Nat
Blocks == Nat \ {0}
Objs == [k : {"num"}, n : Int] \cup [k : {"val"}, n : Ids] \cup {Unbound}
Operations == [name : OpNames, blk : Blocks, operands : Seq(Ids), results : Seq(Ids),
               regions : Seq(Blocks), attr : Int]
IRs == [next : Ids \ {0}, ops : Seq(Operations), args : Seq(Seq(Ids)), stack : Seq(Blocks),
        err : {"none", "afterTerminator", "parallelCarry"}]

(* The k-th smallest element of a finite set C of integers, and the         *)
(* subsequence of s at the positions C: a filtered Python list.             *)
Rank(C, j) == Cardinality({i \in C : i <= j})
Nth(C, k) == CHOOSE j \in C : Rank(C, j) = k
Pick(s, C) == [k \in 1..Cardinality(C) |-> s[Nth(C, k)]]

Block(ir) == ir.stack[Len(ir.stack)]
OpsOf(ir, b) == {k \in DOMAIN ir.ops : ir.ops[k].blk = b}
Terminated(ir, b) == \E k \in OpsOf(ir, b) : ir.ops[k].name \in Terminators
Children(ir, b) == UNION {{ir.ops[k].regions[j] : j \in DOMAIN ir.ops[k].regions}
                             : k \in OpsOf(ir, b)}
BlockArgs(ir) == UNION {{ir.args[b][j] : j \in DOMAIN ir.args[b]} : b \in DOMAIN ir.args}
Results(op) == {op.results[j] : j \in DOMAIN op.results}
Operands(op) == {op.operands[j] : j \in DOMAIN op.operands}
LastValue(ir) == ir.next - 1

Raise(ir, why) == [ir EXCEPT !.err = why]

(* Region(): a fresh region, not attached to any operation yet.             *)
NewRegion(ir) == [ir EXCEPT !.args = Append(@, <<>>)]
LastRegion(ir) == Len(ir.args)

(* with ir_builder.region(r): the push and the pop.                         *)
MutPopRegion(ir) == ir      \* a bug: the region stays on the stack
PushRegion(ir, b) == [ir EXCEPT !.stack = Append(@, b)]
PopRegion(ir) == [ir EXCEPT !.stack = SubSeq(@, 1, Len(@) - 1)]

(* n fresh values, and their addition to the arguments of block b.          *)
Fresh(ir, n) == [j \in 1..n |-> ir.next + j - 1]
MutNewArgs(ir, b, n) ==     \* a bug: the ids are handed out again
    [ir EXCEPT !.args[b] = @ \o Fresh(ir, n)]
NewArgs(ir, b, n) == [ir EXCEPT !.args[b] = @ \o Fresh(ir, n), !.next = @ + n]

(* Block.append refuses an operation after the terminator. Its n results    *)
(* had their values by then.                                                *)
Refuse(ir, n) == Raise([ir EXCEPT !.next = @ + n], "afterTerminator")

(* IRBuilder.append_op with Block.append, into block b.                     *)
AppendOp(ir, b, name, operands, nres, regions, attr) ==
    IF ir.err # "none" THEN ir
    ELSE IF Terminated(ir, b) THEN Refuse(ir, nres)
    ELSE [ir EXCEPT !.ops = Append(@, [name |-> name, blk |-> b, operands |-> operands,
                                       results |-> Fresh(ir, nres),
                                       regions |-> regions, attr |-> attr]),
                    !.next = @ + nres]

(* ensure_value on each of a list of operands: a Value is itself, a Python  *)
(* number becomes a fresh const in the current block.                       *)
Nums(objs) == {j \in DOMAIN objs : IsNum(objs[j])}
MutEnsureIds(ir, objs) ==   \* a bug: off by one
    [j \in DOMAIN objs |-> IF IsNum(objs[j]) THEN ir.next + Rank(Nums(objs), j)
                                             ELSE objs[j].n]
EnsureIds(ir, objs) ==
    [j \in DOMAIN objs |-> IF IsNum(objs[j]) THEN ir.next + Rank(Nums(objs), j) - 1
                                             ELSE objs[j].n]
Consts(ir, objs) ==
    [c \in 1..Cardinality(Nums(objs)) |->
        [name |-> "const", blk |-> Block(ir), operands |-> <<>>,
         results |-> <<ir.next + c - 1>>, regions |-> <<>>,
         attr |-> objs[Nth(Nums(objs), c)].n]]
Ensure(ir, objs) ==
    IF ir.err # "none" \/ Nums(objs) = {} THEN ir
    ELSE IF Terminated(ir, Block(ir)) THEN Refuse(ir, 1)
    ELSE [ir EXCEPT !.ops = @ \o Consts(ir, objs),
                    !.next = @ + Cardinality(Nums(objs))]

(* The shape of every emitting method of IRBuilder: ensure_value on the     *)
(* operands, then append_op in the current block.                           *)
Emit(ir, name, objs, nres, regions, attr) ==
    AppendOp(Ensure(ir, objs), Block(ir), name, EnsureIds(ir, objs), nres, regions, attr)

(* emit_value: the new state, and the one result as a Python object.        *)
EmitValue(ir, name, objs) ==
    LET e == Emit(ir, name, objs, 1, <<>>, 0) IN [ir |-> e, o |-> Val(LastValue(e))]

(* The blocks of region b and of every region nested in it. A nested region *)
(* is created after the one that holds it, so its id is larger.             *)
MutWholeTrace(ir, b) == DOMAIN ir.args   \* a bug: rewires outside the loop too
MutBodyOnly(ir, b) == {b}                \* a bug: forgets the nested regions
Subtree(ir, b) ==
    LET sub[c \in b..Len(ir.args)] ==
          {c} \cup UNION {sub[d] : d \in {e \in Children(ir, c) : e > c}}
    IN  sub[b]

(* Builder._replace_region_uses for each carried value in turn: within      *)
(* region b, a use of olds[i] becomes news[i]. The news are fresh, so the   *)
(* first i whose old matches decides.                                       *)
Redirect(v, olds, news) ==
    LET at == {i \in DOMAIN olds : olds[i] = v} IN IF at = {} THEN v ELSE news[Nth(at, 1)]
Rewired(op, olds, news) ==
    [op EXCEPT !.operands = [j \in DOMAIN op.operands |-> Redirect(op.operands[j], olds, news)]]
ReplaceRegionUses(ir, b, olds, news) ==
    [ir EXCEPT !.ops = [k \in DOMAIN ir.ops |-> IF ir.ops[k].blk \in Subtree(ir, b)
                                                THEN Rewired(ir.ops[k], olds, news)
                                                ELSE ir.ops[k]]]
=============================================================================
