-------------------------- MODULE TracerProperties --------------------------
(***************************************************************************)
(* What is stated of a trace. First, what holds whatever the source.        *)
(***************************************************************************)
EXTENDS Tracer, Emitter

Scopes == [order : Seq(Names), at : [Names -> Objs]]
Frames == {f \in [s : Menu, body : Blocks, other : Nat, objs : Seq(Objs), before : Scopes,
                  branch : {"then", "else"}, skip : BOOLEAN] :
              f.s.s \in {"if", "while"} => f.other # 0}
Sources == Seq(Seq([st : Menu, body : Nat, other : Nat]))

(* The types of the state, and the region stack is the kernel body under    *)
(* one region per suspended generator.                                      *)
TypeOK ==
    /\ ir \in IRs
    /\ scope \in Scopes
    /\ locals \in [Names -> Objs]
    /\ frames \in Seq(Frames)
    /\ src \in Sources
    /\ Len(src) = Len(ir.args)
    /\ ir.err = "none" => Len(ir.stack) = Len(frames) + 1

(* SSA: every id that was handed out names exactly one thing, an argument   *)
(* of one block or a result of one operation (IRBuilder.new_value and its   *)
(* callers). What a raise leaves without a place names nothing else.        *)
ArgSites(v) == UNION {{<<b, j>> : j \in {l \in DOMAIN ir.args[b] : ir.args[b][l] = v}}
                        : b \in DOMAIN ir.args}
OpSites(v) == UNION {{<<k, j>> : j \in {l \in DOMAIN ir.ops[k].results : ir.ops[k].results[l] = v}}
                       : k \in DOMAIN ir.ops}
DefinedOnce ==
    \A v \in 0..LastValue(ir) :
        LET sites == Cardinality(ArgSites(v)) + Cardinality(OpSites(v))
        IN  sites <= 1 /\ (ir.err = "none" => sites = 1)

(* An operand is a block argument or a result of an operation appended      *)
(* earlier, also after _replace_region_uses has rewired it: nothing the     *)
(* trace appends uses a value before it exists.                             *)
DefinedBeforeUse ==
    \A k \in DOMAIN ir.ops : \A v \in Operands(ir.ops[k]) :
        v \in BlockArgs(ir) \/ \E m \in 1..(k - 1) : v \in Results(ir.ops[m])

(* Regions form a tree: each belongs to one place of one operation, which   *)
(* is in an older block, and no open region belongs to any yet.             *)
RegionSites(b) == UNION {{<<k, j>> : j \in {l \in DOMAIN ir.ops[k].regions : ir.ops[k].regions[l] = b}}
                           : k \in DOMAIN ir.ops}
RegionTree ==
    /\ RegionSites(1) = {}
    /\ \A b \in 2..Len(ir.args) :
         /\ Cardinality(RegionSites(b)) <= 1
         /\ \A site \in RegionSites(b) : ir.ops[site[1]].blk < b
    /\ \A j \in DOMAIN ir.stack : RegionSites(ir.stack[j]) = {}

(* The emitter's structural errors are out of reach of a trace: each        *)
(* operation it appends, with the regions it has by then, passes the checks *)
(* of its handler, and so does the kernel body.                             *)
EmitterAccepts ==
    ir.err = "none" => /\ \A k \in DOMAIN ir.ops : Emits(ir, ir.ops[k])
                       /\ RegionEmits(ir, 1)

(* A loop yields one value per iter_arg: when it has any, its body ends in  *)
(* a yield of as many values (never in a return of the kernel's).           *)
LoopsYield ==
    \A k \in DOMAIN ir.ops :
        LET op == ir.ops[k]
        IN  op.name \in {"serial_for", "pipelined_for"} /\ op.results # <<>> =>
              \E y \in OpsOf(ir, op.regions[1]) :
                /\ ir.ops[y].name = "yield"
                /\ Len(ir.ops[y].operands) = Len(op.results)

(* How far the Python local of a name, which is what += reads, may be from  *)
(* its binding: they differ only once a loop has rebound the name, to the   *)
(* const of its number or to the loop's result, or when the local is the    *)
(* target of a with, which is never bound.                                  *)
Definers(v) == {ir.ops[k].name : k \in {m \in DOMAIN ir.ops : v \in Results(ir.ops[m])}}
KernelBodies == {ir.ops[k].regions[1] : k \in {m \in DOMAIN ir.ops : ir.ops[m].name = "kernel"}}
                  \cup {frames[k].body : k \in {m \in DOMAIN frames : frames[m].s.s = "kernel"}}
StaleLocals ==
    ir.err = "none" =>
      \A x \in Names : locals[x] # scope.at[x] =>
        \/ /\ IsVal(scope.at[x])
           /\ Definers(scope.at[x].n) \subseteq {"const", "serial_for", "pipelined_for"}
        \/ /\ IsVal(locals[x])
           /\ \E b \in KernelBodies : ir.args[b] = <<locals[x].n>>

(* The block and the blocks it is nested in. The regions of a suspended     *)
(* generator hang from the block that was current when it started.          *)
Above(b) ==
    LET attached(c) == {ir.ops[k].blk : k \in {m \in DOMAIN ir.ops :
                          \E j \in DOMAIN ir.ops[m].regions : ir.ops[m].regions[j] = c}}
        open(c) == {ir.stack[k] : k \in {m \in DOMAIN frames :
                      c \in {frames[m].body, frames[m].other}}}
        up[c \in 1..Len(ir.args)] ==
          {c} \cup UNION {up[d] : d \in {e \in attached(c) \cup open(c) : e < c}}
    IN  up[b]

(* What a step may never do to the IR that is there: it removes nothing,    *)
(* and changes an operation only when a loop that carries values closes     *)
(* over it, and then only operands, from what a name of the loop stood for  *)
(* before it to a new argument of its body.                                 *)
OnlyRewires ==
    [][ /\ Len(ir'.ops) >= Len(ir.ops)
        /\ \A k \in DOMAIN ir.ops : ir'.ops[k] # ir.ops[k] =>
             /\ Top.s.s \in LoopKinds /\ frames' = Up
             /\ Top.body \in Above(ir.ops[k].blk)
             /\ ir'.ops[k] = [ir.ops[k] EXCEPT !.operands = ir'.ops[k].operands]
             /\ \A j \in DOMAIN ir.ops[k].operands :
                  LET old == ir.ops[k].operands[j]
                      new == ir'.ops[k].operands[j]
                  IN  new # old =>
                        /\ \E l \in DOMAIN ir'.args[Top.body] :
                             ir'.args[Top.body][l] = new /\ new >= ir.next
                        /\ \E x \in Names : Top.before.at[x] = Val(old) ]_vars

(***************************************************************************)
(* What holds of the traces of sources that keep the rules of Discipline.   *)
(***************************************************************************)
(* SSA dominance: an operand is an argument of an enclosing block, or the   *)
(* result of an earlier operation of an enclosing block. The tracer has no  *)
(* check of this: name bindings outlive the region they were made in.       *)
Dominance ==
    ir.err = "none" => \A k \in DOMAIN ir.ops : \A v \in Operands(ir.ops[k]) :
        \E b \in Above(ir.ops[k].blk) :
            \/ \E j \in DOMAIN ir.args[b] : ir.args[b][j] = v
            \/ \E m \in OpsOf(ir, b) : m < k /\ v \in Results(ir.ops[m])

(* A loop that carries a value reads it through its iter_arg: in its body,  *)
(* the yield included, the value from before the loop is not used any more, *)
(* so no iteration but the first can see it.                                *)
InitialsRetired ==
    \A k, m \in DOMAIN ir.ops :
        LET loop == ir.ops[k]
        IN  /\ loop.name \in {"serial_for", "pipelined_for"}
            /\ loop.regions[1] \in Above(ir.ops[m].blk)
            => \A j \in 4..Len(loop.operands) : loop.operands[j] \notin Operands(ir.ops[m])
=============================================================================
