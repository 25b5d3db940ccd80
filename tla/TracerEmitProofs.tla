-------------------------- MODULE TracerEmitProofs --------------------------
(***************************************************************************)
(* For every menu of statements and every bound: a trace that does not      *)
(* raise passes the emitter's structural checks (EmitterAccepts), and the   *)
(* only thing that ever happens to an operation is that the end of a loop   *)
(* that carries values redirects its operands (OnlyRewires).                *)
(*                                                                          *)
(* The checks of an operation are about its regions, which are filled while *)
(* the generator that will append it is suspended. So the invariant says of *)
(* each suspended generator that its regions would pass them now            *)
(* (FrameReady), and it survives a step because a step writes only to the   *)
(* current block (Adds): what it appends is no terminator but return, with  *)
(* two exceptions, the yield of a while's condition and the yield that      *)
(* closes a loop's body, each in a region of its own generator.             *)
(*                                                                          *)
(* That a loop rewires its own body only is about two recursive sets: what  *)
(* _replace_region_uses walks down to (Subtree) and what a block is nested  *)
(* in (Above). One step up is HangsFrom, and from any block of the first    *)
(* these steps lead to the body (SubtreeAbove), by induction on its id.     *)
(***************************************************************************)
EXTENDS TracerProofs

(* What is appended in the course of a statement.                           *)
Plain == {"const", "add", "lt", "gt", "and", "select", "load", "store", "return"}
Adding(op, b) == /\ op.regions = <<>>
                 /\ op.name \in Plain \/ (op.name = "yield" /\ op.blk = b)

(* The IRs that add operations, blocks, arguments of block b, and yields in *)
(* block b to r, and those that may change operands on top of that.         *)
Grows(r, b, e) ==
    /\ Len(r.ops) <= Len(e.ops) /\ Len(r.args) <= Len(e.args)
    /\ \A k \in Len(r.ops) + 1 .. Len(e.ops) : Adding(e.ops[k], b) /\ e.ops[k].blk \in 1 .. Len(e.args)
    /\ \A c \in 1 .. Len(r.args) : c # b => e.args[c] = r.args[c]
Adds(r, b) == {e \in IRs : Grows(r, b, e) /\ \A k \in 1 .. Len(r.ops) : e.ops[k] = r.ops[k]}
Edits(r, b) == {e \in IRs : /\ Grows(r, b, e)
                            /\ \A k \in 1 .. Len(r.ops) :
                                 Shaped(r.ops[k], e.ops[k]) /\ e.ops[k].attr = r.ops[k].attr}

(* The IRs whose current block is one of theirs.                            *)
Standing == {r \in IRs : r.stack # <<>> /\ Block(r) \in 1 .. Len(r.args)}

(***************************************************************************)
(* Adding.                                                                  *)
(***************************************************************************)
(* Adding in no block in particular is adding in any.                       *)
LEMMA AddsAny ==
    ASSUME NEW r \in IRs, NEW b
    PROVE  Adds(r, 0) \subseteq Adds(r, b)
<1> SUFFICES ASSUME NEW e \in Adds(r, 0) PROVE e \in Adds(r, b)
  OBVIOUS
<1>1. ASSUME NEW k \in Len(r.ops) + 1 .. Len(e.ops) PROVE Adding(e.ops[k], b)
  <2>1. Adding(e.ops[k], 0) /\ e.ops[k].blk \in 1 .. Len(e.args) /\ Len(e.args) \in Nat
    BY PartsType DEF Adds, Grows
  <2>2. e.ops[k].blk # 0
    BY <2>1
  <2> QED
    BY <2>1, <2>2 DEF Adding
<1>2. \A c \in 1 .. Len(r.args) : c # 0
  BY PartsType
<1>3. \A c \in 1 .. Len(r.args) : e.args[c] = r.args[c]
  BY <1>2 DEF Adds, Grows
<1> QED
  BY <1>1, <1>3 DEF Adds, Grows

(* It may be nothing.                                                       *)
LEMMA AddsSelf ==
    ASSUME NEW r \in IRs, NEW e \in IRs, e.ops = r.ops, e.args = r.args, NEW b
    PROVE  e \in Adds(r, b)
<1>1. Len(r.ops) \in Nat /\ Len(r.args) \in Nat
  BY PartsType
<1> QED
  BY <1>1 DEF Adds, Grows

(* It is a way to edit.                                                     *)
LEMMA AddsIsEdits ==
    ASSUME NEW r \in IRs, NEW b
    PROVE  Adds(r, b) \subseteq Edits(r, b)
BY DEF Adds, Edits, Shaped

(* What was edited can be edited again.                                     *)
LEMMA GrowsTwice ==
    ASSUME NEW r \in IRs, NEW b, NEW e \in IRs, Grows(r, b, e), NEW q \in IRs, Grows(e, b, q),
           \A k \in 1 .. Len(e.ops) : Shaped(e.ops[k], q.ops[k])
    PROVE  Grows(r, b, q)
<1>1. /\ Len(r.ops) \in Nat /\ Len(e.ops) \in Nat /\ Len(q.ops) \in Nat
      /\ Len(r.args) \in Nat /\ Len(e.args) \in Nat /\ Len(q.args) \in Nat
  BY PartsType
<1>2. Len(r.ops) <= Len(q.ops) /\ Len(r.args) <= Len(q.args)
  BY <1>1 DEF Grows
<1>3. ASSUME NEW k \in Len(r.ops) + 1 .. Len(q.ops)
      PROVE  Adding(q.ops[k], b) /\ q.ops[k].blk \in 1 .. Len(q.args)
  <2>1. CASE k <= Len(e.ops)
    <3>1. k \in 1 .. Len(e.ops) /\ k \in Len(r.ops) + 1 .. Len(e.ops)
      BY <1>1, <2>1
    <3>2. Shaped(e.ops[k], q.ops[k]) /\ Adding(e.ops[k], b) /\ e.ops[k].blk \in 1 .. Len(e.args)
      BY <3>1 DEF Grows
    <3>3. Len(e.args) <= Len(q.args)
      BY DEF Grows
    <3>4. q.ops[k].blk \in 1 .. Len(q.args)
      BY <1>1, <3>2, <3>3 DEF Shaped
    <3> QED
      BY <3>2, <3>4 DEF Shaped, Adding
  <2>2. CASE k > Len(e.ops)
    <3>1. k \in Len(e.ops) + 1 .. Len(q.ops)
      BY <1>1, <2>2
    <3> QED
      BY <3>1 DEF Grows
  <2> QED
    BY <1>1, <2>1, <2>2
<1>4. ASSUME NEW c \in 1 .. Len(r.args), c # b PROVE q.args[c] = r.args[c]
  <2>1. c \in 1 .. Len(e.args)
    BY <1>1 DEF Grows
  <2> QED
    BY <1>4, <2>1 DEF Grows
<1> QED
  BY <1>2, <1>3, <1>4 DEF Grows

(* Two edits are one edit.                                                 *)
LEMMA EditsTwice ==
    ASSUME NEW r \in IRs, NEW b, NEW e \in Edits(r, b)
    PROVE  e \in IRs /\ Edits(e, b) \subseteq Edits(r, b)
<1> SUFFICES ASSUME NEW q \in Edits(e, b) PROVE q \in Edits(r, b)
  BY DEF Edits
<1>1. e \in IRs /\ q \in IRs /\ Grows(r, b, e) /\ Grows(e, b, q)
  BY DEF Edits
<1>2. \A k \in 1 .. Len(e.ops) : Shaped(e.ops[k], q.ops[k]) /\ q.ops[k].attr = e.ops[k].attr
  BY DEF Edits
<1>3. Grows(r, b, q)
  BY <1>1, <1>2, GrowsTwice
<1>4. ASSUME NEW k \in 1 .. Len(r.ops)
      PROVE  Shaped(r.ops[k], q.ops[k]) /\ q.ops[k].attr = r.ops[k].attr
  <2>1. k \in 1 .. Len(e.ops)
    BY <1>1, PartsType DEF Grows
  <2>2. Shaped(r.ops[k], e.ops[k]) /\ e.ops[k].attr = r.ops[k].attr
    BY DEF Edits
  <2> QED
    BY <1>2, <2>1, <2>2 DEF Shaped
<1> QED
  BY <1>1, <1>3, <1>4 DEF Edits

(* What was added to can be added to again.                                 *)
LEMMA AddsTwice ==
    ASSUME NEW r \in IRs, NEW b, NEW e \in Adds(r, b)
    PROVE  e \in IRs /\ Adds(e, b) \subseteq Adds(r, b)
<1> SUFFICES ASSUME NEW q \in Adds(e, b) PROVE q \in Adds(r, b)
  BY DEF Adds
<1>1. e \in IRs /\ q \in IRs /\ Grows(r, b, e) /\ Grows(e, b, q)
  BY DEF Adds
<1>2. \A k \in 1 .. Len(e.ops) : q.ops[k] = e.ops[k]
  BY DEF Adds
<1>3. Grows(r, b, q)
  BY <1>1, <1>2, GrowsTwice DEF Shaped
<1>4. ASSUME NEW k \in 1 .. Len(r.ops) PROVE q.ops[k] = r.ops[k]
  <2>1. k \in 1 .. Len(e.ops)
    BY <1>1, PartsType DEF Grows
  <2> QED
    BY <1>2, <2>1 DEF Adds
<1> QED
  BY <1>1, <1>3, <1>4 DEF Adds

(* The same blocks and the same stack.                                      *)
LEMMA StandingEmitted ==
    ASSUME NEW r \in Standing, NEW e \in Emitted(r)
    PROVE  e \in Standing /\ e \in IRs /\ Block(e) = Block(r)
BY DEF Standing, Emitted, Block

(* Regions and their arguments.                                             *)
LEMMA NewRegionAdds ==
    ASSUME NEW r \in IRs, NEW b
    PROVE  /\ NewRegion(r) \in Adds(r, b)
           /\ NewRegion(r).args[Len(r.args) + 1] = <<>>
           /\ \A c \in 1 .. Len(r.args) : NewRegion(r).args[c] = r.args[c]
<1> DEFINE e == NewRegion(r)
           n == Len(r.args)
<1>1. e \in IRs /\ Len(e.args) = n + 1 /\ n \in Nat /\ e.ops = r.ops /\ Len(r.ops) \in Nat
  BY NewRegionType, NewRegionUpon, PartsType
<1>2. e.args = Append(r.args, <<>>)
  BY DEF NewRegion, IRs
<1>3. e.args[n + 1] = <<>> /\ \A c \in 1 .. n : e.args[c] = r.args[c]
  <2>1. r.args \in Seq(Seq(Ids)) /\ <<>> \in Seq(Ids)
    BY PartsType, EmptySeq
  <2> QED
    BY <1>2, <2>1, AppendProperties
<1> HIDE DEF e, n
<1>4. e \in Adds(r, b)
  BY <1>1, <1>3 DEF Adds, Grows, n
<1> QED
  BY <1>3, <1>4 DEF e, n

(* New arguments of a block come after those it has.                        *)
LEMMA NewArgsAdds ==
    ASSUME NEW r \in IRs, NEW b \in 1 .. Len(r.args), NEW n \in Nat
    PROVE  /\ NewArgs(r, b, n) \in Adds(r, b)
           /\ NewArgs(r, b, n).args[b] = r.args[b] \o Fresh(r, n)
           /\ Len(NewArgs(r, b, n).args[b]) = Len(r.args[b]) + n
<1> DEFINE e == NewArgs(r, b, n)
           fresh == Fresh(r, n)
<1>1. e \in IRs /\ e.ops = r.ops /\ Len(e.args) = Len(r.args)
  BY NewArgsType
<1>2. Len(r.args) \in Nat /\ Len(r.ops) \in Nat /\ r.args[b] \in Seq(Ids) /\ b \in DOMAIN r.args
  BY PartsType
<1>3. e.args = [r.args EXCEPT ![b] = @ \o fresh]
  BY DEF NewArgs, IRs
<1>4. e.args[b] = r.args[b] \o fresh /\ \A c \in 1 .. Len(r.args) : c # b => e.args[c] = r.args[c]
  BY <1>2, <1>3, PartsType
<1>5. fresh \in Seq(Ids) /\ Len(fresh) = n
  BY FreshType, Zenon
<1> HIDE DEF e, fresh
<1>6. Len(e.args[b]) = Len(r.args[b]) + n
  <2>1. Len(r.args[b] \o fresh) = Len(r.args[b]) + Len(fresh)
    BY <1>2, <1>5, ConcatProperties
  <2> QED
    BY <1>4, <1>5, <2>1
<1>7. e \in Adds(r, b)
  BY <1>1, <1>2, <1>4 DEF Adds, Grows
<1> QED
  BY <1>4, <1>6, <1>7 DEF e, fresh

(* append_op adds its operation, unless it raises.                          *)
LEMMA AppendOpLast ==
    ASSUME NEW r \in IRs, NEW b \in Blocks, NEW name \in OpNames, NEW operands \in Seq(Ids),
           NEW nres \in Nat, NEW regions \in Seq(Blocks), NEW attr \in Int
    PROVE  LET e == AppendOp(r, b, name, operands, nres, regions, attr)
               op == e.ops[Len(r.ops) + 1]
           IN  /\ e \in IRs /\ e.args = r.args
               /\ \/ e.ops = r.ops /\ e.err # "none"
                  \/ /\ e.err = "none" /\ r.err = "none" /\ Len(e.ops) = Len(r.ops) + 1
                     /\ \A k \in 1 .. Len(r.ops) : e.ops[k] = r.ops[k]
                     /\ op.name = name /\ op.blk = b /\ op.operands = operands
                     /\ op.regions = regions /\ Len(op.results) = nres /\ op.attr = attr
<1> DEFINE new == [name |-> name, blk |-> b, operands |-> operands, results |-> Fresh(r, nres),
                   regions |-> regions, attr |-> attr]
           e == AppendOp(r, b, name, operands, nres, regions, attr)
           op == e.ops[Len(r.ops) + 1]
<1>1. /\ e \in IRs /\ e.stack = r.stack /\ e.args = r.args /\ (Once(r) => Once(e))
      /\ \/ e.ops = r.ops /\ e.err # "none"
         \/ /\ e.err = "none" /\ Len(e.ops) = Len(r.ops) + 1
            /\ \A k \in 1 .. Len(r.ops) : e.ops[k] = r.ops[k]
            /\ op.name = name /\ op.blk = b /\ op.operands = operands
            /\ op.regions = regions /\ Len(op.results) = nres
  BY AppendOpParts
<1>2. ASSUME e.err = "none" PROVE r.err = "none" /\ op.attr = attr
  <2>1. r.err = "none"
    BY <1>2, AppendOpType
  <2>2. ~Terminated(r, b)
    <3>1. Refuse(r, nres).err # "none"
      BY RefuseType
    <3> QED
      BY <1>2, <2>1, <3>1 DEF AppendOp
  <2>3. Fresh(r, nres) \in Seq(Ids)
    BY FreshType, Zenon
  <2>4. new \in Operations /\ new.attr = attr
    BY <2>3 DEF Operations
  <2>5. e = [r EXCEPT !.ops = Append(r.ops, new), !.next = r.next + nres]
    BY <2>1, <2>2 DEF AppendOp
  <2> HIDE DEF new, e
  <2>6. e.ops = Append(r.ops, new) /\ r.ops \in Seq(Operations)
    BY <2>5, PartsType DEF IRs
  <2>7. e.ops[Len(r.ops) + 1] = new
    BY <2>4, <2>6, AppendProperties
  <2> QED
    BY <2>1, <2>4, <2>7
<1> HIDE DEF e
<1> QED
  BY <1>1, <1>2 DEF e

(* A plain operation, or a yield in the block that may get one, adds.       *)
LEMMA AppendOpAdds ==
    ASSUME NEW r \in IRs, NEW b \in 1 .. Len(r.args), NEW name \in OpNames,
           NEW c, name \in Plain \/ (name = "yield" /\ b = c),
           NEW operands \in Seq(Ids), NEW nres \in Nat, NEW attr \in Int
    PROVE  AppendOp(r, b, name, operands, nres, <<>>, attr) \in Adds(r, c)
<1> DEFINE none == <<>>
           e == AppendOp(r, b, name, operands, nres, none, attr)
           op == e.ops[Len(r.ops) + 1]
<1>1. none \in Seq(Blocks) /\ b \in Blocks /\ Len(r.args) \in Nat /\ Len(r.ops) \in Nat
  BY PartsType, EmptySeq DEF Blocks
<1> HIDE DEF none
<1>2. /\ e \in IRs /\ e.args = r.args
      /\ \/ e.ops = r.ops /\ e.err # "none"
         \/ /\ e.err = "none" /\ r.err = "none" /\ Len(e.ops) = Len(r.ops) + 1
            /\ \A k \in 1 .. Len(r.ops) : e.ops[k] = r.ops[k]
            /\ op.name = name /\ op.blk = b /\ op.operands = operands
            /\ op.regions = none /\ Len(op.results) = nres /\ op.attr = attr
  BY <1>1, AppendOpLast
<1> HIDE DEF e
<1>3. ASSUME e.ops = r.ops PROVE e \in Adds(r, c)
  BY <1>2, <1>3, AddsSelf
<1>4. ASSUME e.ops # r.ops PROVE e \in Adds(r, c)
  <2>1. \A k \in Len(r.ops) + 1 .. Len(e.ops) : k = Len(r.ops) + 1
    BY <1>1, <1>2, <1>4
  <2>2. Adding(op, c) /\ op.blk \in 1 .. Len(e.args)
    BY <1>2, <1>4 DEF Adding, none
  <2>3. Grows(r, c, e)
    BY <1>1, <1>2, <1>4, <2>1, <2>2 DEF Grows
  <2> QED
    BY <1>2, <1>4, <2>3 DEF Adds
<1> QED
  BY <1>3, <1>4 DEF e, none

(* ensure_value adds consts to the current block.                           *)
LEMMA EnsureAdds ==
    ASSUME NEW r \in Standing, NEW objs \in Seq(Objs)
    PROVE  Ensure(r, objs) \in Adds(r, 0)
<1> DEFINE e == Ensure(r, objs)
           C == Nums(objs)
           n == Cardinality(C)
           consts == Consts(r, objs)
<1>1. /\ r \in IRs /\ r.stack # <<>> /\ Block(r) \in 1 .. Len(r.args)
      /\ e \in IRs /\ e.args = r.args
  BY EnsureType DEF Emitted, Standing
<1>2. n \in Nat /\ Len(r.ops) \in Nat /\ Len(r.args) \in Nat
  BY <1>1, NumsType, PartsType
<1>3. CASE r.err # "none" \/ C = {}
  <2>1. e = r
    BY <1>3 DEF Ensure
  <2> QED
    BY <1>1, <2>1, AddsSelf
<1>4. CASE r.err = "none" /\ C # {} /\ Terminated(r, Block(r))
  <2>1. e = Refuse(r, 1)
    BY <1>4 DEF Ensure
  <2>2. e.ops = r.ops
    BY <1>1, <2>1, RefuseType
  <2> QED
    BY <1>1, <2>2, AddsSelf
<1>5. CASE r.err = "none" /\ C # {} /\ ~Terminated(r, Block(r))
  <2>1. e = [r EXCEPT !.ops = r.ops \o consts, !.next = r.next + n]
    BY <1>5 DEF Ensure
  <2>2. /\ DOMAIN consts = 1 .. n
        /\ \A c \in 1 .. n : /\ consts[c].name = "const" /\ consts[c].regions = <<>>
                             /\ consts[c].blk = Block(r)
    BY DEF Consts
  <2>3. consts \in Seq(Operations) /\ Len(consts) = n
    BY <1>1, ConstsType
  <2> HIDE DEF e, C, n, consts
  <2>4. e.ops = r.ops \o consts
    BY <1>1, <2>1 DEF IRs
  <2>5. r.ops \in Seq(Operations)
    BY <1>1, PartsType
  <2>6. /\ \A k \in 1 .. Len(r.ops) : e.ops[k] = r.ops[k]
        /\ \A c \in 1 .. n : e.ops[Len(r.ops) + c] = consts[c]
    BY <2>3, <2>4, <2>5, ConcatParts
  <2>7. Len(e.ops) = Len(r.ops) + n
    BY <2>3, <2>4, <2>5, ConcatProperties
  <2>8. ASSUME NEW k \in Len(r.ops) + 1 .. Len(e.ops)
        PROVE  Adding(e.ops[k], 0) /\ e.ops[k].blk \in 1 .. Len(e.args)
    <3>1. k - Len(r.ops) \in 1 .. n /\ Len(r.ops) + (k - Len(r.ops)) = k
      BY <1>2, <2>7
    <3>2. e.ops[k] = consts[k - Len(r.ops)]
      BY <2>6, <3>1
    <3> QED
      BY <1>1, <2>2, <3>1, <3>2 DEF Adding, Plain
  <2>9. e \in Adds(r, 0)
    BY <1>1, <1>2, <2>6, <2>7, <2>8 DEF Adds, Grows
  <2> QED
    BY <2>9 DEF e
<1> QED
  BY <1>3, <1>4, <1>5

(* An emitting method without regions.                                      *)
LEMMA EmitAdds ==
    ASSUME NEW r \in Standing, NEW c, NEW name \in OpNames,
           name \in Plain \/ (name = "yield" /\ Block(r) = c),
           NEW objs \in Seq(Objs), NEW nres \in Nat, NEW attr \in Int
    PROVE  Emit(r, name, objs, nres, <<>>, attr) \in Adds(r, c)
<1> DEFINE q == Ensure(r, objs)
           ids == EnsureIds(r, objs)
           e == AppendOp(q, Block(r), name, ids, nres, <<>>, attr)
<1>1. /\ r \in IRs /\ r.stack # <<>> /\ q \in Adds(r, 0)
      /\ q \in IRs /\ q.args = r.args /\ ids \in Seq(Ids)
  BY EnsureAdds, EnsureType, EnsureIdsType DEF Emitted, Standing
<1>2. q \in Adds(r, c) /\ Block(r) \in 1 .. Len(q.args)
  BY <1>1, AddsAny DEF Standing
<1> HIDE DEF q, ids
<1>3. e \in Adds(q, c)
  BY <1>1, <1>2, AppendOpAdds
<1>4. e \in Adds(r, c)
  BY <1>1, <1>2, <1>3, AddsTwice
<1> QED
  BY <1>4 DEF Emit, q, ids

(***************************************************************************)
(* Expressions add to the current block, in no order that matters here.     *)
(***************************************************************************)
Additions(r) == {e \in Emissions(r) : e.ir \in Adds(r, 0)}

(* What an expression added can be added to by the next.                    *)
LEMMA AdditionsType ==
    ASSUME NEW r \in Standing, NEW e \in Additions(r)
    PROVE  /\ e.ir \in Standing /\ e.ir \in IRs /\ e.ir \in Adds(r, 0)
           /\ Block(e.ir) = Block(r) /\ e.ir.stack = r.stack /\ e.ir.args = r.args /\ e.o \in Objs
           /\ Additions(e.ir) \subseteq Additions(r) /\ Adds(e.ir, 0) \subseteq Adds(r, 0)
<1>1. r \in IRs /\ r.stack # <<>> /\ e \in Emissions(r) /\ e.ir \in Adds(r, 0)
  BY DEF Additions, Standing
<1>2. /\ e.ir \in Emitted(r) /\ e.ir \in IRs /\ e.ir.stack = r.stack /\ e.o \in Objs
      /\ Emissions(e.ir) \subseteq Emissions(r)
  BY <1>1, EmissionsType
<1>3. Adds(e.ir, 0) \subseteq Adds(r, 0)
  BY <1>1, AddsTwice
<1>4. Additions(e.ir) \subseteq Additions(r)
  BY <1>2, <1>3 DEF Additions
<1>5. e.ir \in Standing /\ Block(e.ir) = Block(r) /\ e.ir.args = r.args
  BY <1>2, StandingEmitted DEF Emitted
<1> QED
  BY <1>1, <1>2, <1>3, <1>4, <1>5

(* emit_value.                                                              *)
LEMMA EmitValueGrows ==
    ASSUME NEW r \in Standing, NEW name \in Plain, NEW objs \in Seq(Objs)
    PROVE  EmitValue(r, name, objs) \in Additions(r)
<1>1. name \in OpNames /\ r \in IRs /\ r.stack # <<>> /\ 1 \in Nat /\ 0 \in Int
  BY DEF Plain, OpNames, Terminators, Standing
<1>2. EmitValue(r, name, objs) \in Emissions(r)
  BY <1>1, EmitValueType
<1>3. Emit(r, name, objs, 1, <<>>, 0) \in Adds(r, 0)
  BY <1>1, EmitAdds, Zenon
<1>4. EmitValue(r, name, objs).ir = Emit(r, name, objs, 1, <<>>, 0)
  BY DEF EmitValue
<1> QED
  BY <1>2, <1>3, <1>4 DEF Additions

(* Python arithmetic that appends nothing.                                  *)
LEMMA PureGrows ==
    ASSUME NEW r \in Standing, NEW o \in Objs
    PROVE  Pure(r, o) \in Additions(r)
<1>1. r \in Adds(r, 0) /\ r \in Emitted(r)
  BY AddsSelf DEF Emitted, Standing
<1> QED
  BY <1>1 DEF Pure, Additions, Emissions

(* x + y.                                                                   *)
LEMMA AddGrows ==
    ASSUME NEW r \in Standing, NEW a \in Objs, NEW b \in Objs
    PROVE  Add(r, a, b) \in Additions(r)
<1>1. Num(a.n + b.n) \in Objs
  BY ObjsType DEF Objs, Num
<1>2. "add" \in Plain /\ <<a, b>> \in Seq(Objs)
  BY OperandsType DEF Plain
<1>3. Pure(r, Num(a.n + b.n)) \in Additions(r) /\ EmitValue(r, "add", <<a, b>>) \in Additions(r)
  BY <1>1, <1>2, PureGrows, EmitValueGrows
<1> QED
  BY <1>3 DEF Add

(* x < y.                                                                   *)
LEMMA LessGrows ==
    ASSUME NEW r \in Standing, NEW a \in Objs, NEW b \in Objs
    PROVE  Less(r, a, b) \in Additions(r)
<1>1. Num(IF a.n < b.n THEN 1 ELSE 0) \in Objs
  BY DEF Objs, Num
<1>2. "gt" \in Plain /\ "lt" \in Plain /\ <<a, b>> \in Seq(Objs) /\ <<b, a>> \in Seq(Objs)
  BY OperandsType DEF Plain
<1>3. /\ Pure(r, Num(IF a.n < b.n THEN 1 ELSE 0)) \in Additions(r)
      /\ EmitValue(r, "gt", <<b, a>>) \in Additions(r)
      /\ EmitValue(r, "lt", <<a, b>>) \in Additions(r)
  BY <1>1, <1>2, PureGrows, EmitValueGrows
<1> QED
  BY <1>3 DEF Less

(* B[x].                                                                    *)
LEMMA LoadGrows ==
    ASSUME NEW r \in Standing, NEW a \in Objs
    PROVE  Load(r, a) \in Additions(r)
<1>1. "load" \in Plain /\ <<Buffer, a>> \in Seq(Objs)
  BY OperandsType, BufferType DEF Plain
<1> QED
  BY <1>1, EmitValueGrows DEF Load

(* Conditions.                                                              *)
LEMMA ConditionGrows ==
    ASSUME NEW r \in Standing, NEW a \in Objs, NEW b \in Objs, NEW c \in Conditions
    PROVE  Condition(r, c, a, b) \in Additions(r)
<1> DEFINE lt == Less(r, a, b)
           ld == Load(IF c = "and" THEN lt.ir ELSE r, a)
           right == Less(ld.ir, ld.o, b)
           both == EmitValue(right.ir, "and", <<lt.o, right.o>>)
<1>1. lt \in Additions(r)
  BY LessGrows
<1> HIDE DEF lt
<1>2. ld \in Additions(r)
  <2>1. CASE c = "and"
    BY <1>1, <2>1, AdditionsType, LoadGrows
  <2>2. CASE c # "and"
    BY <2>2, LoadGrows
  <2> QED
    BY <2>1, <2>2
<1> HIDE DEF ld
<1>3. right \in Additions(r)
  BY <1>2, AdditionsType, LessGrows
<1> HIDE DEF right
<1>4. both \in Additions(r)
  <2>1. "and" \in Plain /\ <<lt.o, right.o>> \in Seq(Objs)
    BY <1>1, <1>3, AdditionsType, OperandsType DEF Plain
  <2>2. right.ir \in Standing /\ Additions(right.ir) \subseteq Additions(r)
    BY <1>3, AdditionsType
  <2>3. both \in Additions(right.ir)
    BY <2>1, <2>2, EmitValueGrows, Zenon
  <2> QED
    BY <2>2, <2>3
<1> QED
  BY <1>1, <1>3, <1>4 DEF Condition, Conditions, lt, ld, right

(* A conditional expression.                                                *)
LEMMA IfExpGrows ==
    ASSUME NEW r \in Standing, NEW a \in Objs, NEW b \in Objs
    PROVE  IfExp(r, a, b) \in Additions(r)
<1> DEFINE lt == Less(r, a, b)
           ld == Load(lt.ir, a)
           sel == EmitValue(ld.ir, "select", <<lt.o, ld.o, b>>)
<1>1. lt \in Additions(r)
  BY LessGrows
<1> HIDE DEF lt
<1>2. ld \in Additions(r)
  BY <1>1, AdditionsType, LoadGrows
<1> HIDE DEF ld
<1>3. sel \in Additions(r)
  <2>1. "select" \in Plain /\ <<lt.o, ld.o, b>> \in Seq(Objs)
    BY <1>1, <1>2, AdditionsType, OperandsType DEF Plain
  <2>2. ld.ir \in Standing /\ Additions(ld.ir) \subseteq Additions(r)
    BY <1>2, AdditionsType
  <2>3. sel \in Additions(ld.ir)
    BY <2>1, <2>2, EmitValueGrows, Zenon
  <2> QED
    BY <2>2, <2>3
<1> QED
  BY <1>3 DEF IfExp, lt, ld

(* The right-hand side of an assignment to a name.                          *)
LEMMA ValueGrows ==
    ASSUME TypeOK, ir \in Standing, NEW st \in Menu,
           st.s \in {"num", "name", "add", "load", "ifexp"}
    PROVE  Value(st) \in Additions(ir)
<1> DEFINE o == Rvals(st.arg)
<1>1. \A j \in 1 .. Len(st.arg) : o[j] \in Objs
  BY StatementType, RvalsType DEF TypeOK
<1>2. st.n \in Int
  BY StatementType
<1>3. CASE st.s = "num"
  <2>1. Num(st.n) \in Objs
    BY <1>2 DEF Num, Objs
  <2> QED
    BY <1>3, <2>1, PureGrows DEF Value
<1>4. CASE st.s \in {"name", "load"}
  <2>1. Len(st.arg) = 1
    BY <1>4, StatementType DEF WellFormed, Shape
  <2>2. o[1] \in Objs
    BY <1>1, <2>1
  <2> QED
    BY <1>4, <2>2, PureGrows, LoadGrows DEF Value
<1>5. CASE st.s \in {"add", "ifexp"}
  <2>1. Len(st.arg) = 2
    BY <1>5, StatementType DEF WellFormed, Shape
  <2>2. o[1] \in Objs /\ o[2] \in Objs
    BY <1>1, <2>1
  <2>3. Add(ir, o[1], o[2]) \in Additions(ir) /\ IfExp(ir, o[1], o[2]) \in Additions(ir)
    BY <2>2, AddGrows, IfExpGrows
  <2> QED
    BY <1>5, <2>3 DEF Value
<1> QED
  BY <1>3, <1>4, <1>5

(* A store to the buffer.                                                   *)
LEMMA StoreAdds ==
    ASSUME NEW r \in Standing, NEW v \in Objs, NEW i \in Objs
    PROVE  Store(r, v, i) \in Adds(r, 0)
<1>1. "store" \in OpNames /\ "store" \in Plain /\ <<v, Buffer, i>> \in Seq(Objs) /\ 0 \in Nat /\ 0 \in Int
  BY OperandsType, BufferType DEF OpNames, Plain
<1> QED
  BY <1>1, EmitAdds, Zenon DEF Store

(* Rewiring edits operands.                                                 *)
LEMMA ReplaceRegionUsesEdits ==
    ASSUME NEW r \in IRs, NEW b, NEW olds \in Seq(Ids), NEW news \in Seq(Ids),
           Len(news) = Len(olds)
    PROVE  LET e == ReplaceRegionUses(r, b, olds, news)
           IN  /\ e \in Edits(r, b) /\ e.args = r.args /\ Len(e.ops) = Len(r.ops)
               /\ \A k \in 1 .. Len(r.ops) : Shaped(r.ops[k], e.ops[k])
<1> DEFINE e == ReplaceRegionUses(r, b, olds, news)
<1>1. /\ e \in IRs /\ e.args = r.args /\ Len(e.ops) = Len(r.ops)
  BY ReplaceRegionUsesType DEF Emitted
<1>2. /\ DOMAIN r.ops = 1 .. Len(r.ops) /\ Len(r.ops) \in Nat /\ Len(r.args) \in Nat
      /\ \A k \in 1 .. Len(r.ops) : r.ops[k] \in Operations
  BY PartsType
<1>3. \A k \in 1 .. Len(r.ops) : e.ops[k] = Rewired(r.ops[k], olds, news) \/ e.ops[k] = r.ops[k]
  BY <1>2 DEF ReplaceRegionUses, IRs
<1>4. \A k \in 1 .. Len(r.ops) : Shaped(r.ops[k], e.ops[k])
  BY ReplaceRegionUsesUpon DEF Upon
<1> HIDE DEF e
<1>5. \A op \in Operations : Rewired(op, olds, news).attr = op.attr
  BY DEF Rewired, Operations
<1>6. e \in Edits(r, b)
  BY <1>1, <1>2, <1>3, <1>4, <1>5 DEF Edits, Grows
<1> QED
  BY <1>1, <1>4, <1>6 DEF e

(* The yield of the final values is the one terminator but return that a    *)
(* statement leaves in the block of a generator.                            *)
LEMMA YieldFinalsAdds ==
    ASSUME NEW r \in IRs, NEW b \in 1 .. Len(r.args), NEW finals \in Seq(Ids)
    PROVE  YieldFinals(r, b, finals) \in Adds(r, b) /\ YieldFinals(r, b, finals).args = r.args
<1> DEFINE kind == "yield"
           zero == 0
           e == AppendOp(r, b, kind, finals, zero, <<>>, zero)
<1>1. /\ kind \in OpNames /\ (kind \in Plain \/ (kind = "yield" /\ b = b))
      /\ zero \in Nat /\ zero \in Int /\ b \in Blocks
  BY PartsType DEF OpNames, Terminators, Blocks
<1>2. YieldFinals(r, b, finals) = r \/ YieldFinals(r, b, finals) = e
  BY DEF YieldFinals
<1>3. YieldFinals(r, b, finals).args = r.args
  BY <1>1, YieldFinalsType DEF Emitted
<1> HIDE DEF kind, zero
<1>4. e \in Adds(r, b)
  BY <1>1, AppendOpAdds
<1> QED
  BY <1>2, <1>3, <1>4, AddsSelf

(***************************************************************************)
(* The invariant.                                                           *)
(***************************************************************************)
(* The operations that are there pass the checks, and so does the kernel    *)
(* body; each is in a block there is, and has a body where it must.         *)
Bodied == {"kernel", "parallel", "serial_for", "pipelined_for"}
Accepted(r, op) == /\ Emits(r, op) /\ op.blk \in 1 .. Len(r.args)
                   /\ op.name \in Bodied => Len(op.regions) = 1
Accepts(r) == RegionEmits(r, 1) /\ \A k \in 1 .. Len(r.ops) : Accepted(r, r.ops[k])

(* The operands that a loop will have before its initial values.            *)
Extents(f) == IF f.s.s = "parallel" THEN 3 * Len(f.s.dst) ELSE 3

(* The operation of a suspended generator would pass them.                  *)
HasTest(r, b) == \E k \in 1 .. Len(r.ops) :
                    r.ops[k].blk = b /\ r.ops[k].name = "yield" /\ Len(r.ops[k].operands) = 1
FrameReady(r, f) ==
    /\ RegionEmits(r, f.body)
    /\ f.s.s \in LoopKinds => Len(r.args[f.body]) = Len(f.s.dst) /\ Len(f.objs) = Extents(f)
    /\ f.s.s = "kernel" => Len(r.args[f.body]) = 1 /\ Len(f.objs) = 1
    /\ f.s.s = "if" => RegionEmits(r, f.other)
    /\ f.s.s = "while" => HasTest(r, f.other)
Ready(r, fs) == \A k \in 1 .. Len(fs) : FrameReady(r, fs[k])

EInv == Inv /\ (ir.err = "none" => Accepts(ir) /\ Ready(ir, frames))

(***************************************************************************)
(* What an edit leaves as it was.                                           *)
(***************************************************************************)
(* A region whose block gets no yield.                                      *)
LEMMA RegionKept ==
    ASSUME NEW r \in IRs, NEW b, NEW e \in Edits(r, b), NEW c, c # b, RegionEmits(r, c)
    PROVE  RegionEmits(e, c)
<1>1. /\ Len(r.ops) \in Nat /\ Len(e.ops) \in Nat
      /\ DOMAIN r.ops = 1 .. Len(r.ops) /\ DOMAIN e.ops = 1 .. Len(e.ops)
  BY PartsType DEF Edits
<1> SUFFICES ASSUME NEW k \in 1 .. Len(e.ops), e.ops[k].blk = c, e.ops[k].name \in Terminators
             PROVE  e.ops[k].name = "return"
  BY <1>1 DEF RegionEmits, OpsOf
<1>2. CASE k \in 1 .. Len(r.ops)
  <2>1. Shaped(r.ops[k], e.ops[k])
    BY <1>2 DEF Edits
  <2> QED
    BY <1>1, <1>2, <2>1 DEF RegionEmits, OpsOf, Shaped
<1>3. CASE k \in Len(r.ops) + 1 .. Len(e.ops)
  <2>1. Adding(e.ops[k], b)
    BY <1>3 DEF Edits, Grows
  <2> QED
    BY <2>1 DEF Adding, Plain, Terminators
<1> QED
  BY <1>1, <1>2, <1>3

(* A region that is new.                                                    *)
LEMMA RegionNew ==
    ASSUME NEW r \in IRs, Accepts(r), NEW b, NEW e \in Edits(r, b), NEW c, c # b,
           c \notin 1 .. Len(r.args)
    PROVE  RegionEmits(e, c)
<1>1. DOMAIN r.ops = 1 .. Len(r.ops)
  BY PartsType
<1>2. RegionEmits(r, c)
  BY <1>1 DEF RegionEmits, OpsOf, Accepts, Accepted
<1> QED
  BY <1>2, RegionKept

(* A region is judged by its operations.                                    *)
LEMMA RegionSame ==
    ASSUME NEW r \in IRs, NEW e \in IRs, Len(e.ops) = Len(r.ops),
           \A k \in 1 .. Len(r.ops) : Shaped(r.ops[k], e.ops[k]), NEW c, RegionEmits(r, c)
    PROVE  RegionEmits(e, c)
BY PartsType DEF RegionEmits, OpsOf, Shaped

(* The yield of a condition.                                                *)
LEMMA TestKept ==
    ASSUME NEW r \in IRs, NEW b, NEW e \in Edits(r, b), NEW c, HasTest(r, c)
    PROVE  HasTest(e, c)
<1>1. PICK k \in 1 .. Len(r.ops) :
        r.ops[k].blk = c /\ r.ops[k].name = "yield" /\ Len(r.ops[k].operands) = 1
  BY DEF HasTest
<1>2. Shaped(r.ops[k], e.ops[k]) /\ k \in 1 .. Len(e.ops)
  BY PartsType DEF Edits, Grows
<1> QED
  BY <1>1, <1>2 DEF HasTest, Shaped

(* The checks of an operation, by its name.                                 *)
LEMMA EmitsByName ==
    ASSUME NEW r \in IRs, NEW op
    PROVE  /\ op.name = "kernel" =>
                (Emits(r, op) <=> op.attr = Len(op.operands) /\ StructuredBody(r, op))
           /\ op.name = "parallel" =>
                (Emits(r, op) <=> EmitsParallel(r, op))
           /\ op.name \in LoopNames => (Emits(r, op) <=> EmitsFor(r, op))
           /\ op.name = "if" => (Emits(r, op) <=> EmitsIf(r, op))
           /\ op.name = "while" =>
                (Emits(r, op) <=> /\ Len(op.regions) = 2 /\ HasTest(r, op.regions[1])
                                  /\ RegionEmits(r, op.regions[2]))
           /\ op.name \in Plain \cup Terminators => Emits(r, op)
<1>1. DOMAIN r.ops = 1 .. Len(r.ops)
  BY PartsType
<1>2. EmitsWhile(r, op) <=> /\ Len(op.regions) = 2 /\ HasTest(r, op.regions[1])
                            /\ RegionEmits(r, op.regions[2])
  BY <1>1 DEF EmitsWhile, HasTest, OpsOf
<1>3. CASE op.name = "kernel"
  BY <1>3 DEF Emits, EmitsKernel, LoopNames, Plain, Terminators
<1>4. CASE op.name = "parallel"
  BY <1>4 DEF Emits, LoopNames, Plain, Terminators
<1>5. CASE op.name \in LoopNames
  BY <1>5 DEF Emits, LoopNames, Plain, Terminators
<1>6. CASE op.name = "if"
  BY <1>6 DEF Emits, LoopNames, Plain, Terminators
<1>7. CASE op.name = "while"
  BY <1>2, <1>7 DEF Emits, LoopNames, Plain, Terminators
<1>8. CASE op.name \notin LoopNames \cup {"kernel", "parallel", "if", "while"}
  BY <1>8 DEF Emits, Handled, LoopNames, Plain, Terminators
<1> QED
  BY <1>3, <1>4, <1>5, <1>6, <1>7, <1>8

(* The names, by their checks.                                              *)
LEMMA NamesSplit ==
    OpNames = {"kernel", "parallel", "if", "while"} \cup LoopNames \cup Plain \cup Terminators
BY DEF OpNames, LoopNames, Plain, Terminators

(* The body of an operation whose regions are not b.                        *)
LEMMA BodyKept ==
    ASSUME NEW r \in IRs, Tree(r), NEW b, Free(r, b), NEW e \in Edits(r, b),
           NEW k \in 1 .. Len(r.ops), NEW i \in DOMAIN r.ops[k].regions
    PROVE  LET c == r.ops[k].regions[i]
           IN  /\ e.args[c] = r.args[c]
               /\ RegionEmits(r, c) => RegionEmits(e, c)
<1> DEFINE c == r.ops[k].regions[i]
<1>1. c # b /\ c \in 2 .. Len(r.args)
  BY DEF Tree, Free
<1>2. c \in 1 .. Len(r.args)
  BY <1>1, PartsType
<1> HIDE DEF c
<1>3. e.args[c] = r.args[c]
  BY <1>1, <1>2 DEF Edits, Grows
<1>4. RegionEmits(r, c) => RegionEmits(e, c)
  BY <1>1, RegionKept
<1> QED
  BY <1>3, <1>4 DEF c

(* An operation that is there and has its regions elsewhere.                *)
LEMMA EmitsKept ==
    ASSUME NEW r \in IRs, Tree(r), NEW b, Free(r, b), NEW e \in Edits(r, b),
           NEW k \in 1 .. Len(r.ops), Accepted(r, r.ops[k])
    PROVE  Accepted(e, e.ops[k])
<1> DEFINE op == r.ops[k]
           new == e.ops[k]
<1>1. /\ new.name = op.name /\ new.blk = op.blk /\ new.results = op.results
      /\ new.regions = op.regions /\ Len(new.operands) = Len(op.operands) /\ new.attr = op.attr
      /\ Len(r.args) <= Len(e.args) /\ e \in IRs
  BY DEF Edits, Grows, Shaped
<1>2. /\ op \in Operations /\ op.regions \in Seq(Blocks) /\ op.name \in OpNames
      /\ DOMAIN op.regions = 1 .. Len(op.regions) /\ Len(r.args) \in Nat /\ Len(e.args) \in Nat
  <2>1. op \in Operations /\ Len(r.args) \in Nat /\ Len(e.args) \in Nat
    BY <1>1, PartsType
  <2> QED
    BY <2>1, LenProperties DEF Operations
<1>3. \A i \in DOMAIN op.regions :
         /\ e.args[op.regions[i]] = r.args[op.regions[i]]
         /\ RegionEmits(r, op.regions[i]) => RegionEmits(e, op.regions[i])
  BY BodyKept
<1>4. Emits(r, op)
  BY DEF Accepted
<1>5. op.name \in Bodied => 1 \in DOMAIN op.regions
  <2> SUFFICES ASSUME op.name \in Bodied PROVE 1 \in DOMAIN op.regions
    OBVIOUS
  <2>1. Len(op.regions) = 1
    BY DEF Accepted
  <2>2. 1 \in 1 .. Len(op.regions)
    BY <2>1
  <2> QED
    BY <1>2, <2>2, Zenon
<1>6. \A c : HasTest(r, c) => HasTest(e, c)
  BY TestKept
<1>7. new.blk \in 1 .. Len(e.args) /\ (new.name \in Bodied => Len(new.regions) = 1)
  BY <1>1, <1>2 DEF Accepted
<1> HIDE DEF op, new
<1>8. CASE op.name = "kernel"
  <2>1. op.attr = Len(op.operands) /\ StructuredBody(r, op)
    BY <1>4, <1>8, EmitsByName
  <2>2. StructuredBody(e, new)
    BY <1>1, <1>3, <1>5, <1>8, <2>1 DEF StructuredBody, Bodied
  <2> QED
    BY <1>1, <1>7, <1>8, <2>1, <2>2, EmitsByName DEF Accepted, new
<1>9. CASE op.name = "parallel"
  <2>1. EmitsParallel(r, op)
    BY <1>4, <1>9, EmitsByName
  <2>2. EmitsParallel(e, new)
    BY <1>1, <1>3, <1>5, <1>9, <2>1 DEF EmitsParallel, StructuredBody, Bodied
  <2> QED
    BY <1>1, <1>7, <1>9, <2>2, EmitsByName DEF Accepted, new
<1>10. CASE op.name \in LoopNames
  <2>1. EmitsFor(r, op)
    BY <1>4, <1>10, EmitsByName
  <2>2. 1 \in DOMAIN op.regions
    BY <1>5, <1>10 DEF Bodied, LoopNames
  <2>3. EmitsFor(e, new)
    BY <1>1, <1>3, <2>1, <2>2 DEF EmitsFor
  <2> QED
    BY <1>1, <1>7, <1>10, <2>3, EmitsByName DEF Accepted, new
<1>11. CASE op.name = "if"
  <2>1. EmitsIf(r, op)
    BY <1>4, <1>11, EmitsByName
  <2>2. EmitsIf(e, new)
    BY <1>1, <1>3, <2>1 DEF EmitsIf
  <2> QED
    BY <1>1, <1>7, <1>11, <2>2, EmitsByName DEF Accepted, new
<1>12. CASE op.name = "while"
  <2>1. Len(op.regions) = 2 /\ HasTest(r, op.regions[1]) /\ RegionEmits(r, op.regions[2])
    BY <1>4, <1>12, EmitsByName
  <2>2. 2 \in DOMAIN op.regions
    BY <1>2, <2>1
  <2>3. Len(new.regions) = 2 /\ HasTest(e, new.regions[1]) /\ RegionEmits(e, new.regions[2])
    BY <1>1, <1>3, <1>6, <2>1, <2>2
  <2> QED
    BY <1>1, <1>7, <1>12, <2>3, EmitsByName DEF Accepted, new
<1>13. CASE op.name \in Plain \cup Terminators
  BY <1>1, <1>7, <1>13, EmitsByName DEF Accepted, new
<1>14. \/ op.name = "kernel" \/ op.name = "parallel" \/ op.name \in LoopNames
       \/ op.name = "if" \/ op.name = "while" \/ op.name \in Plain \cup Terminators
  BY <1>2, NamesSplit
<1> QED
  BY <1>8, <1>9, <1>10, <1>11, <1>12, <1>13, <1>14

(* All of them, when b is no region of theirs and not the kernel body.      *)
LEMMA AcceptsKept ==
    ASSUME NEW r \in IRs, Tree(r), Accepts(r), NEW b, b # 1, Free(r, b), NEW e \in Edits(r, b)
    PROVE  Accepts(e)
<1>1. RegionEmits(e, 1)
  BY RegionKept DEF Accepts
<1>2. ASSUME NEW k \in 1 .. Len(e.ops) PROVE Accepted(e, e.ops[k])
  <2>1. CASE k \in 1 .. Len(r.ops)
    BY <2>1, EmitsKept DEF Accepts
  <2>2. CASE k \in Len(r.ops) + 1 .. Len(e.ops)
    <3>1. Adding(e.ops[k], b) /\ e.ops[k].blk \in 1 .. Len(e.args) /\ e \in IRs
      BY <2>2 DEF Edits, Grows
    <3>2. e.ops[k].name \in Plain \cup Terminators
      BY <3>1 DEF Adding, Terminators
    <3>3. e.ops[k].name \notin Bodied
      BY <3>2 DEF Plain, Terminators, Bodied
    <3> QED
      BY <3>1, <3>2, <3>3, EmitsByName DEF Accepted
  <2> QED
    BY <2>1, <2>2, PartsType DEF Edits
<1> QED
  BY <1>1, <1>2 DEF Accepts

(* The suspended generators that do not hold b.                             *)
LEMMA ReadyKept ==
    ASSUME NEW r \in IRs, NEW fs \in Seq(Frames), Nested(r, fs), Ready(r, fs),
           NEW b, NEW e \in Edits(r, b), NEW gs \in Seq(Frames), Len(gs) <= Len(fs),
           \A k \in 1 .. Len(gs) : gs[k] = fs[k] /\ b \notin Held(gs[k])
    PROVE  Ready(e, gs)
<1> SUFFICES ASSUME NEW k \in 1 .. Len(gs) PROVE FrameReady(e, gs[k])
  BY DEF Ready
<1> DEFINE f == gs[k]
<1>1. f \in Frames /\ f.body \in Blocks /\ k \in 1 .. Len(fs) /\ f = fs[k]
  BY ElementOfSeq, LenProperties DEF Frames
<1>2. FrameReady(r, f)
  BY <1>1 DEF Ready
<1>3. f.body # b /\ f.body \in Held(f) /\ (f.other # 0 => f.other # b)
  BY DEF Held
<1>4. f.body \in 1 .. Len(r.args)
  <2>1. f.body \in 2 .. Len(r.args)
    BY <1>1, <1>3 DEF Nested
  <2> QED
    BY <2>1, PartsType
<1>5. f.s.s \in {"if", "while"} => f.other # b
  BY <1>1, <1>3 DEF Frames
<1> HIDE DEF f
<1>6. e.args[f.body] = r.args[f.body]
  BY <1>3, <1>4 DEF Edits, Grows
<1>7. RegionEmits(e, f.body)
  BY <1>2, <1>3, RegionKept DEF FrameReady
<1>8. f.s.s = "if" => RegionEmits(e, f.other)
  BY <1>2, <1>5, RegionKept DEF FrameReady
<1>9. f.s.s = "while" => HasTest(e, f.other)
  BY <1>2, TestKept DEF FrameReady
<1>10. FrameReady(e, f)
  BY <1>2, <1>6, <1>7, <1>8, <1>9 DEF FrameReady
<1> QED
  BY <1>10 DEF f

(***************************************************************************)
(* The operation that a generator appends at its end.                       *)
(***************************************************************************)
(* It is no terminator, so every region is as it was.                       *)
LEMMA AcceptsOp ==
    ASSUME NEW r \in IRs, Accepts(r), NEW fs, Ready(r, fs), NEW e \in IRs, e.args = r.args,
           Len(e.ops) = Len(r.ops) + 1, \A k \in 1 .. Len(r.ops) : e.ops[k] = r.ops[k],
           e.ops[Len(r.ops) + 1].name \notin Terminators, Accepted(r, e.ops[Len(r.ops) + 1])
    PROVE  Accepts(e) /\ Ready(e, fs)
<1> DEFINE m == Len(r.ops) + 1
<1>1. /\ m \in Nat /\ Len(r.ops) \in Nat
      /\ DOMAIN r.ops = 1 .. Len(r.ops) /\ DOMAIN e.ops = 1 .. m
      /\ \A k \in 1 .. m : k \in 1 .. Len(r.ops) \/ k = m
      /\ \A k \in 1 .. Len(r.ops) : k \in 1 .. m
  BY PartsType
<1>2. \A c : RegionEmits(r, c) => RegionEmits(e, c)
  BY <1>1 DEF RegionEmits, OpsOf
<1>3. \A c : HasTest(r, c) => HasTest(e, c)
  BY <1>1 DEF HasTest
<1>4. ASSUME NEW op, op.name \in OpNames, Accepted(r, op) PROVE Accepted(e, op)
  <2>1. Emits(r, op)
    BY <1>4 DEF Accepted
  <2>2. Emits(e, op)
    <3>1. CASE op.name = "kernel"
      BY <1>2, <2>1, <3>1, EmitsByName DEF StructuredBody
    <3>2. CASE op.name = "parallel"
      BY <1>2, <2>1, <3>2, EmitsByName DEF EmitsParallel, StructuredBody
    <3>3. CASE op.name \in LoopNames
      BY <2>1, <3>3, EmitsByName DEF EmitsFor
    <3>4. CASE op.name = "if"
      BY <1>2, <2>1, <3>4, EmitsByName DEF EmitsIf
    <3>5. CASE op.name = "while"
      BY <1>2, <1>3, <2>1, <3>5, EmitsByName
    <3>6. CASE op.name \in Plain \cup Terminators
      BY <3>6, EmitsByName
    <3> QED
      BY <1>4, <3>1, <3>2, <3>3, <3>4, <3>5, <3>6, NamesSplit
  <2> QED
    BY <1>4, <2>2 DEF Accepted
<1>5. ASSUME NEW k \in 1 .. Len(e.ops) PROVE Accepted(e, e.ops[k])
  <2>1. e.ops[k] \in Operations
    BY PartsType
  <2>2. e.ops[k].name \in OpNames
    BY <2>1 DEF Operations
  <2>3. Accepted(r, e.ops[k])
    BY <1>1 DEF Accepts
  <2> QED
    BY <1>4, <2>2, <2>3
<1>6. Accepts(e)
  BY <1>2, <1>5 DEF Accepts
<1>7. Ready(e, fs)
  BY <1>2, <1>3 DEF Ready, FrameReady
<1> QED
  BY <1>6, <1>7

(* append_op of an operation that passes.                                   *)
LEMMA AppendOpAccepts ==
    ASSUME NEW r \in IRs, Accepts(r), NEW fs, Ready(r, fs),
           NEW b \in 1 .. Len(r.args), NEW name \in OpNames \ Terminators, NEW operands \in Seq(Ids),
           NEW nres \in Nat, NEW regions \in Seq(Blocks), NEW attr \in Int,
           name \in Bodied => Len(regions) = 1,
           AppendOp(r, b, name, operands, nres, regions, attr).err = "none",
           \A op \in Operations :
             /\ op.name = name /\ op.operands = operands /\ op.regions = regions
             /\ Len(op.results) = nres /\ op.attr = attr
             => Emits(r, op)
    PROVE  LET e == AppendOp(r, b, name, operands, nres, regions, attr)
           IN  Accepts(e) /\ Ready(e, fs)
<1> DEFINE e == AppendOp(r, b, name, operands, nres, regions, attr)
           op == e.ops[Len(r.ops) + 1]
<1>1. b \in Blocks /\ name \in OpNames /\ Len(r.ops) \in Nat
  BY PartsType DEF Blocks
<1>2. /\ e \in IRs /\ e.args = r.args
      /\ \/ e.ops = r.ops /\ e.err # "none"
         \/ /\ e.err = "none" /\ r.err = "none" /\ Len(e.ops) = Len(r.ops) + 1
            /\ \A k \in 1 .. Len(r.ops) : e.ops[k] = r.ops[k]
            /\ op.name = name /\ op.blk = b /\ op.operands = operands
            /\ op.regions = regions /\ Len(op.results) = nres /\ op.attr = attr
  BY <1>1, AppendOpLast
<1>3. e.err = "none"
  OBVIOUS
<1> HIDE DEF e
<1>4. op \in Operations
  BY <1>1, <1>2, <1>3, PartsType
<1>5. Accepted(r, op)
  BY <1>2, <1>3, <1>4 DEF Accepted
<1>6. Accepts(e) /\ Ready(e, fs)
  BY <1>2, <1>3, <1>5, AcceptsOp
<1> QED
  BY <1>6 DEF e

(***************************************************************************)
(* The actions: first those that are one call.                              *)
(***************************************************************************)
(* The current block is the kernel body's or one that a generator holds.    *)
LEMMA NestedStands ==
    ASSUME NEW r \in IRs, NEW F, NEW fs \in Seq(F), Nested(r, fs)
    PROVE  r \in Standing /\ Block(r) \in Blocks
<1>1. Len(fs) \in Nat /\ Len(r.stack) = Len(fs) + 1 /\ Len(r.args) \in Nat /\ Len(r.args) >= 1
  BY LenProperties, PartsType DEF Nested
<1>2. r.stack # <<>>
  BY <1>1
<1>3. Block(r) \in 1 .. Len(r.args)
  <2>1. CASE Len(fs) = 0
    BY <1>1, <2>1 DEF Block, Nested
  <2>2. CASE Len(fs) # 0
    <3>1. Len(fs) \in 1 .. Len(fs)
      BY <1>1, <2>2
    <3>2. Block(r) \in Held(fs[Len(fs)])
      BY <1>1, <3>1 DEF Block, Nested
    <3>3. Block(r) \in 2 .. Len(r.args)
      BY <3>1, <3>2 DEF Nested
    <3> QED
      BY <1>1, <3>3
  <2> QED
    BY <2>1, <2>2
<1> QED
  BY <1>1, <1>2, <1>3 DEF Standing, Blocks

(* The parts of the invariant while the trace runs.                         *)
LEMMA EmitRunning ==
    ASSUME EInv, ir.err = "none"
    PROVE  /\ TypeOK /\ ir \in IRs /\ ir \in Standing /\ ir.stack # <<>> /\ Tree(ir)
           /\ frames \in Seq(Frames) /\ Len(frames) \in Nat /\ Nested(ir, frames)
           /\ Accepts(ir) /\ Ready(ir, frames) /\ Len(ir.args) \in Nat
           /\ scope \in Scopes /\ locals \in [Names -> Objs] /\ Inv
BY NestedStands, PartsType, LenProperties DEF EInv, Inv, Sound, TypeOK, Standing

(* No region is 0.                                                          *)
LEMMA NobodysRegion ==
    ASSUME NEW r \in IRs, Tree(r), NEW b, b \notin 2 .. Len(r.args)
    PROVE  Free(r, b)
BY DEF Tree, Free

(* Most steps leave the operations and the arguments of the blocks that are *)
(* there as they are, and end no loop that could have carried values.       *)
Kept == /\ Len(ir.ops) <= Len(ir'.ops) /\ Len(ir.args) <= Len(ir'.args)
        /\ \A k \in 1 .. Len(ir.ops) : ir'.ops[k] = ir.ops[k]
        /\ \A c \in 1 .. Len(ir.args) : ir'.args[c] = ir.args[c]
        /\ \A k \in Len(ir.ops) + 1 .. Len(ir'.ops) : ir'.ops[k].name \notin LoopNames

(* No loop is added,                                                        *)
LEMMA AddingNoLoop ==
    ASSUME NEW r, NEW b, NEW e, Grows(r, b, e)
    PROVE  \A k \in Len(r.ops) + 1 .. Len(e.ops) : e.ops[k].name \notin LoopNames
<1>1. \A k \in Len(r.ops) + 1 .. Len(e.ops) : e.ops[k].name \in Plain \cup {"yield"}
  BY DEF Grows, Adding
<1>2. (Plain \cup {"yield"}) \cap LoopNames = {}
  BY DEF Plain, LoopNames
<1> QED
  BY <1>1, <1>2

(* so what only adds is such a step.                                        *)
LEMMA AddsKeeps ==
    ASSUME NEW b, b \notin 1 .. Len(ir.args), ir' \in Adds(ir, b)
    PROVE  Kept
<1>1. Grows(ir, b, ir') /\ \A k \in 1 .. Len(ir.ops) : ir'.ops[k] = ir.ops[k]
  BY DEF Adds
<1>2. \A k \in Len(ir.ops) + 1 .. Len(ir'.ops) : ir'.ops[k].name \notin LoopNames
  BY <1>1, AddingNoLoop
<1> QED
  BY <1>1, <1>2 DEF Kept, Grows

(* A step that adds in place.                                               *)
LEMMA QuietEmit ==
    ASSUME EInv, Inv', ir.err = "none", ir' \in Adds(ir, 0), frames' = frames
    PROVE  EInv' /\ Kept
<1>1. ir' \in Edits(ir, 0) /\ Free(ir, 0) /\ 0 # 1 /\ ir \in IRs
  BY EmitRunning, AddsIsEdits, NobodysRegion
<1>2. Accepts(ir')
  BY <1>1, EmitRunning, AcceptsKept
<1>3. Ready(ir', frames)
  <2>1. \A k \in 1 .. Len(frames) : 0 \notin Held(frames[k])
    BY EmitRunning, ElementOfSeq DEF Held, Frames, Blocks
  <2> QED
    BY <1>1, <2>1, EmitRunning, ReadyKept
<1> QED
  BY <1>2, <1>3, AddsKeeps DEF EInv

(* Assignments to a name.                                                   *)
LEMMA AssignEmit ==
    ASSUME EInv, NEW st \in Menu, Assign(st)
    PROVE  EInv' /\ Kept
<1>1. /\ ir.err = "none" /\ ir' = Value(st).ir /\ frames' = frames
      /\ st.s \in {"num", "name", "add", "load", "ifexp"}
  BY DEF Assign, Stmt, Reached, BindAs
<1>2. Inv'
  BY AssignInv DEF EInv
<1>3. Value(st) \in Additions(ir)
  BY <1>1, EmitRunning, ValueGrows
<1>4. ir' \in Adds(ir, 0)
  BY <1>1, <1>3 DEF Additions
<1> QED
  BY <1>1, <1>2, <1>4, QuietEmit

(* A tuple assignment appends nothing.                                      *)
LEMMA TupleAssignEmit ==
    ASSUME EInv, NEW st \in Menu, TupleAssign(st)
    PROVE  EInv' /\ Kept
<1>1. ir.err = "none" /\ ir' = ir /\ frames' = frames
  BY DEF TupleAssign, Stmt, Reached
<1>2. Inv'
  BY TupleAssignInv DEF EInv
<1>3. ir' \in Adds(ir, 0)
  BY <1>1, EmitRunning, AddsSelf
<1> QED
  BY <1>1, <1>2, <1>3, QuietEmit

(* += on a name appends an add.                                             *)
LEMMA AugAssignEmit ==
    ASSUME EInv, NEW st \in Menu, AugAssign(st)
    PROVE  EInv' /\ Kept
<1> DEFINE sum == EmitValue(ir, "add", <<AugOperand(st.dst[1]), Rval(st.arg[1])>>)
<1>1. /\ ir.err = "none" /\ ir' = sum.ir /\ frames' = frames /\ st.s = "aug"
  BY DEF AugAssign, Stmt, Reached, BindAs
<1>2. TypeOK /\ Inv' /\ ir \in Standing
  BY <1>1, AugAssignInv, EmitRunning DEF EInv
<1>3. Len(st.dst) = 1 /\ Len(st.arg) = 1
  BY <1>1, StatementType DEF WellFormed, Shape
<1>4. st.dst[1] \in Names /\ Rval(st.arg[1]) \in Objs
  BY <1>2, <1>3, TargetType, OperandType
<1>5. sum \in Additions(ir)
  <2>1. AugOperand(st.dst[1]) \in Objs
    BY <1>2, <1>4 DEF AugOperand, TypeOK
  <2>2. <<AugOperand(st.dst[1]), Rval(st.arg[1])>> \in Seq(Objs) /\ "add" \in Plain
    BY <1>4, <2>1, OperandsType DEF Plain
  <2> QED
    BY <1>2, <2>2, EmitValueGrows
<1> HIDE DEF sum
<1>6. ir' \in Adds(ir, 0)
  BY <1>1, <1>5 DEF Additions
<1> QED
  BY <1>1, <1>2, <1>6, QuietEmit

(* An assignment to an element.                                             *)
LEMMA AssignSliceEmit ==
    ASSUME EInv, NEW st \in Menu, AssignSlice(st)
    PROVE  EInv' /\ Kept
<1> DEFINE o == Rvals(st.arg)
<1>1. ir.err = "none" /\ ir' = Store(ir, o[2], o[1]) /\ frames' = frames /\ st.s = "store"
  BY DEF AssignSlice, Stmt, Reached
<1>2. Inv' /\ ir \in Standing /\ o[1] \in Objs /\ o[2] \in Objs
  BY <1>1, AssignSliceInv, EmitRunning, StoreOperands DEF EInv
<1> HIDE DEF o
<1>3. ir' \in Adds(ir, 0)
  BY <1>1, <1>2, StoreAdds
<1> QED
  BY <1>1, <1>2, <1>3, QuietEmit

(* += on an element.                                                        *)
LEMMA AugAssignSliceEmit ==
    ASSUME EInv, NEW st \in Menu, AugAssignSlice(st)
    PROVE  EInv' /\ Kept
<1> DEFINE o == Rvals(st.arg)
           current == Load(ir, o[1])
           sum == EmitValue(current.ir, "add", <<current.o, o[2]>>)
<1>1. /\ ir.err = "none" /\ ir' = Store(sum.ir, sum.o, o[1]) /\ frames' = frames
      /\ st.s = "augstore"
  BY DEF AugAssignSlice, Stmt, Reached
<1>2. Inv' /\ ir \in Standing /\ o[1] \in Objs /\ o[2] \in Objs
  BY <1>1, AugAssignSliceInv, EmitRunning, StoreOperands DEF EInv
<1>3. current \in Additions(ir)
  BY <1>2, LoadGrows
<1> HIDE DEF o, current
<1>4. current.ir \in Standing /\ current.o \in Objs /\ Additions(current.ir) \subseteq Additions(ir)
  BY <1>2, <1>3, AdditionsType
<1>5. sum \in Additions(ir)
  <2>1. <<current.o, o[2]>> \in Seq(Objs) /\ "add" \in Plain
    BY <1>2, <1>4, OperandsType DEF Plain
  <2>2. sum \in Additions(current.ir)
    BY <1>4, <2>1, EmitValueGrows, Zenon
  <2> QED
    BY <1>4, <2>2
<1> HIDE DEF sum
<1>6. sum.ir \in Standing /\ sum.o \in Objs /\ Adds(sum.ir, 0) \subseteq Adds(ir, 0)
  BY <1>2, <1>5, AdditionsType
<1>7. ir' \in Adds(ir, 0)
  <2>1. Store(sum.ir, sum.o, o[1]) \in Adds(sum.ir, 0)
    BY <1>2, <1>6, StoreAdds
  <2> QED
    BY <1>1, <1>6, <2>1
<1> QED
  BY <1>1, <1>2, <1>7, QuietEmit

(* A return appends a terminator, the one that the emitter skips.           *)
LEMMA ReturnEmit ==
    ASSUME EInv, NEW st \in Menu, Return(st)
    PROVE  EInv' /\ Kept
<1>1. /\ ir.err = "none" /\ ir' = Emit(ir, "return", Rvals(st.arg), 0, <<>>, 0)
      /\ frames' = frames
  BY DEF Return, Stmt, Reached
<1>2. Inv' /\ ir \in Standing /\ scope \in Scopes /\ locals \in [Names -> Objs]
  BY <1>1, ReturnInv, EmitRunning DEF EInv
<1>3. /\ "return" \in OpNames /\ "return" \in Plain /\ Rvals(st.arg) \in Seq(Objs)
      /\ 0 \in Nat /\ 0 \in Int
  BY <1>2, StatementType, RvalsType DEF OpNames, Terminators, Plain
<1>4. ir' \in Adds(ir, 0)
  BY <1>1, <1>2, <1>3, EmitAdds, Zenon
<1> QED
  BY <1>1, <1>2, <1>4, QuietEmit

(***************************************************************************)
(* Frames that change their branch or are dropped.                          *)
(***************************************************************************)
(* What a frame needs depends on its statement, regions and operands.       *)
LEMMA SameReady ==
    ASSUME NEW r, NEW fs, NEW gs, Len(gs) = Len(fs), Ready(r, fs),
           \A k \in 1 .. Len(fs) : /\ gs[k].body = fs[k].body /\ gs[k].other = fs[k].other
                                   /\ gs[k].s = fs[k].s /\ gs[k].objs = fs[k].objs
    PROVE  Ready(r, gs)
BY DEF Ready, FrameReady, Extents

(* A change of branch or skip keeps them.                                   *)
LEMMA TopChangeReady ==
    ASSUME TypeOK, frames # <<>>
    PROVE  LET else == [frames EXCEPT ![Len(frames)].branch = "else",
                                      ![Len(frames)].skip = FALSE]
               skip == [frames EXCEPT ![Len(frames)].skip = TRUE]
           IN  /\ Len(else) = Len(frames) /\ Len(skip) = Len(frames)
               /\ \A k \in 1 .. Len(frames) :
                    /\ else[k].body = frames[k].body /\ else[k].other = frames[k].other
                    /\ else[k].s = frames[k].s /\ else[k].objs = frames[k].objs
                    /\ skip[k].body = frames[k].body /\ skip[k].other = frames[k].other
                    /\ skip[k].s = frames[k].s /\ skip[k].objs = frames[k].objs
<1> DEFINE n == Len(frames)
           else == [frames EXCEPT ![n].branch = "else", ![n].skip = FALSE]
           skip == [frames EXCEPT ![n].skip = TRUE]
<1>1. Len(else) = n /\ Len(skip) = n
  BY TopChangeType
<1>2. frames \in Seq(Frames) /\ n \in Nat /\ DOMAIN frames = 1 .. n
      /\ \A k \in 1 .. n : frames[k] \in Frames
  BY LenProperties, ElementOfSeq DEF TypeOK
<1>3. ASSUME NEW k \in 1 .. n
      PROVE  /\ else[k].body = frames[k].body /\ else[k].other = frames[k].other
             /\ else[k].s = frames[k].s /\ else[k].objs = frames[k].objs
             /\ skip[k].body = frames[k].body /\ skip[k].other = frames[k].other
             /\ skip[k].s = frames[k].s /\ skip[k].objs = frames[k].objs
  <2>1. frames[k] \in Frames
    BY <1>2
  <2> QED
    BY <1>2, <2>1 DEF Frames
<1> QED
  BY <1>1, <1>3

(* break or continue in a branch, continue in a loop.                       *)
LEMMA SkipRestEmit ==
    ASSUME EInv, NEW st \in Menu, SkipRest(st)
    PROVE  EInv' /\ Kept
<1> DEFINE skip == [frames EXCEPT ![Len(frames)].skip = TRUE]
<1>1. ir.err = "none" /\ InLoop /\ frames' = skip /\ ir' = ir
  BY DEF SkipRest, Stmt, Reached
<1>2. frames # <<>> /\ TypeOK /\ Inv' /\ Accepts(ir) /\ Ready(ir, frames)
  BY <1>1, SkipRestInv, EmitRunning, EmptySeq DEF InLoop, EInv
<1>3. /\ Len(skip) = Len(frames)
      /\ \A k \in 1 .. Len(frames) :
           /\ skip[k].body = frames[k].body /\ skip[k].other = frames[k].other
           /\ skip[k].s = frames[k].s /\ skip[k].objs = frames[k].objs
  BY <1>2, TopChangeReady
<1> HIDE DEF skip
<1>4. Ready(ir, skip)
  BY <1>2, <1>3, SameReady
<1>5. Kept
  <2>1. Len(ir.ops) \in Nat /\ Len(ir.args) \in Nat
    BY <1>2, PartsType DEF TypeOK
  <2>2. \A k \in Len(ir.ops) + 1 .. Len(ir.ops) : FALSE
    BY <2>1
  <2> QED
    BY <1>1, <2>1, <2>2 DEF Kept
<1> QED
  BY <1>1, <1>2, <1>4, <1>5 DEF EInv

(* Popping and pushing add nothing.                                         *)
LEMMA PopAdds ==
    ASSUME NEW r \in IRs, r.stack # <<>>
    PROVE  PopRegion(r) \in Adds(r, 0)
BY PopRegionType, AddsSelf

(* Pushing.                                                                 *)
LEMMA PushAdds ==
    ASSUME NEW r \in IRs, NEW b \in Blocks, NEW c
    PROVE  PushRegion(r, b) \in Adds(r, c) /\ PushRegion(r, b).ops = r.ops
<1>1. PushRegion(r, b) \in IRs /\ PushRegion(r, b).args = r.args /\ PushRegion(r, b).ops = r.ops
  BY PushRegionType, PushRegionUpon
<1> QED
  BY <1>1, AddsSelf

(* From ctx_then to ctx_else.                                               *)
LEMMA EnterElseEmit ==
    ASSUME EInv, EnterElse
    PROVE  EInv' /\ Kept
<1> DEFINE else == [frames EXCEPT ![Len(frames)].branch = "else", ![Len(frames)].skip = FALSE]
           popped == PopRegion(ir)
<1>1. /\ ir.err = "none" /\ frames # <<>> /\ Top.s.s = "if"
      /\ ir' = PushRegion(popped, Top.other) /\ frames' = else
  BY DEF EnterElse
<1>2. /\ TypeOK /\ Inv' /\ Accepts(ir) /\ Ready(ir, frames) /\ ir \in IRs /\ ir.stack # <<>>
      /\ frames \in Seq(Frames) /\ Nested(ir, frames) /\ Tree(ir)
  BY <1>1, EnterElseInv, EmitRunning DEF EInv
<1>3. Top.other \in Blocks
  BY <1>1, <1>2, TopType DEF Frames, Blocks
<1>4. /\ Len(else) = Len(frames)
      /\ \A k \in 1 .. Len(frames) :
           /\ else[k].body = frames[k].body /\ else[k].other = frames[k].other
           /\ else[k].s = frames[k].s /\ else[k].objs = frames[k].objs
  BY <1>1, <1>2, TopChangeReady
<1> HIDE DEF else
<1>5. popped \in IRs /\ popped \in Adds(ir, 0)
  BY <1>2, PopAdds, PopRegionType
<1> HIDE DEF popped
<1>6. ir' \in Adds(ir, 0)
  BY <1>1, <1>2, <1>3, <1>5, PushAdds, AddsTwice
<1>7. ir' \in Edits(ir, 0) /\ Free(ir, 0)
  BY <1>2, <1>6, AddsIsEdits, NobodysRegion
<1>8. Accepts(ir')
  BY <1>2, <1>7, AcceptsKept
<1>9. Ready(ir', frames)
  <2>1. \A k \in 1 .. Len(frames) : 0 \notin Held(frames[k])
    BY <1>2, ElementOfSeq DEF Held, Frames, Blocks
  <2> QED
    BY <1>2, <1>7, <2>1, ReadyKept, LenProperties
<1>10. Ready(ir', else)
  BY <1>4, <1>9, SameReady
<1> QED
  BY <1>1, <1>2, <1>6, <1>8, <1>10, AddsKeeps DEF EInv

(* The frames but the last are frames.                                      *)
LEMMA UpReady ==
    ASSUME TypeOK, frames # <<>>, NEW r, Ready(r, frames)
    PROVE  /\ Ready(r, Up) /\ FrameReady(r, Top)
           /\ Up \in Seq(Frames) /\ Len(Up) <= Len(frames)
           /\ \A k \in 1 .. Len(Up) : Up[k] = frames[k] /\ k \in 1 .. Len(frames) - 1
<1>1. /\ frames \in Seq(Frames) /\ Len(frames) \in Nat \ {0} /\ Up \in Seq(Frames)
      /\ Len(Up) = Len(frames) - 1
  BY TopType DEF TypeOK
<1>2. \A k \in 1 .. Len(Up) : Up[k] = frames[k]
  BY <1>1, FrontType DEF Up
<1>3. Len(frames) \in 1 .. Len(frames) /\ \A k \in 1 .. Len(Up) : k \in 1 .. Len(frames) - 1 /\ k \in 1 .. Len(frames)
  BY <1>1
<1> QED
  BY <1>1, <1>2, <1>3 DEF Ready, Top

(* A break in a loop body drops the loop's regions.                         *)
LEMMA AbandonLoopEmit ==
    ASSUME EInv, NEW st \in Menu, AbandonLoop(st)
    PROVE  EInv' /\ Kept
<1>1. /\ ir.err = "none" /\ frames # <<>> /\ ir' = PopRegion(ir) /\ frames' = Up
  BY DEF AbandonLoop, Stmt, Reached
<1>2. /\ TypeOK /\ Inv' /\ Accepts(ir) /\ Ready(ir, frames) /\ ir \in IRs /\ ir.stack # <<>>
      /\ frames \in Seq(Frames) /\ Nested(ir, frames) /\ Tree(ir)
  BY <1>1, AbandonLoopInv, EmitRunning DEF EInv
<1>3. ir' \in Adds(ir, 0) /\ ir' \in Edits(ir, 0) /\ Free(ir, 0)
  BY <1>1, <1>2, PopAdds, AddsIsEdits, NobodysRegion
<1>4. Accepts(ir')
  BY <1>2, <1>3, AcceptsKept
<1>5. Ready(ir', frames)
  <2>1. \A k \in 1 .. Len(frames) : 0 \notin Held(frames[k])
    BY <1>2, ElementOfSeq DEF Held, Frames, Blocks
  <2> QED
    BY <1>2, <1>3, <2>1, ReadyKept, LenProperties
<1>6. Ready(ir', Up)
  BY <1>1, <1>2, <1>5, UpReady
<1> QED
  BY <1>1, <1>2, <1>3, <1>4, <1>6, AddsKeeps DEF EInv

(***************************************************************************)
(* The beginning of a compound statement.                                   *)
(***************************************************************************)
(* Its block b is new, so no operation and no other generator has it.       *)
LEMMA EnterEmit ==
    ASSUME EInv, Inv', ir.err = "none", NEW f \in Frames, frames' = Append(frames, f),
           NEW b, b \notin 1 .. Len(ir.args), ir' \in Adds(ir, b), FrameReady(ir', f)
    PROVE  EInv' /\ Kept
<1>1. /\ Accepts(ir) /\ Ready(ir, frames) /\ ir \in IRs /\ frames \in Seq(Frames)
      /\ Nested(ir, frames) /\ Tree(ir) /\ Len(frames) \in Nat /\ Len(ir.args) \in Nat
  BY EmitRunning
<1>2. b \notin 2 .. Len(ir.args) /\ b # 1
  BY <1>1 DEF Nested
<1>3. Accepts(ir')
  BY <1>1, <1>2, NobodysRegion, AddsIsEdits, AcceptsKept
<1>4. Ready(ir', frames)
  <2>1. \A k \in 1 .. Len(frames) : b \notin Held(frames[k])
    BY <1>1, <1>2 DEF Nested
  <2> QED
    BY <1>1, <2>1, AddsIsEdits, ReadyKept
<1>5. Ready(ir', Append(frames, f))
  <2> DEFINE n == Len(frames)
             gs == Append(frames, f)
  <2>1. Len(gs) = n + 1 /\ gs[n + 1] = f /\ \A k \in 1 .. n : gs[k] = frames[k]
    BY <1>1, AppendProperties
  <2> HIDE DEF gs
  <2>2. \A k \in 1 .. n + 1 : k \in 1 .. n \/ k = n + 1
    BY <1>1
  <2>3. Ready(ir', gs)
    BY <1>4, <2>1, <2>2 DEF Ready
  <2> QED
    BY <2>3 DEF gs
<1> QED
  BY <1>3, <1>5, AddsKeeps DEF EInv

(* A new region with n arguments, pushed: what a loop and a kernel start.   *)
LEMMA OpenedRegion ==
    ASSUME NEW r \in IRs, NEW n \in Nat
    PROVE  LET entry == NewRegion(r)
               body == LastRegion(entry)
               e == PushRegion(NewArgs(entry, body, n), body)
           IN  /\ e \in Adds(r, body) /\ e.ops = r.ops /\ e \in IRs
               /\ body = Len(r.args) + 1 /\ body \in Blocks /\ Len(e.args[body]) = n
<1> DEFINE entry == NewRegion(r)
           body == LastRegion(entry)
           opened == NewArgs(entry, body, n)
           e == PushRegion(opened, body)
<1>1. /\ entry \in IRs /\ entry.ops = r.ops /\ Len(entry.args) = Len(r.args) + 1
      /\ body = Len(r.args) + 1 /\ body \in Blocks /\ Len(r.args) \in Nat
  BY NewRegionType, NewRegionUpon, PartsType
<1>2. entry \in Adds(r, body) /\ entry.args[body] = <<>>
  BY <1>1, NewRegionAdds
<1> HIDE DEF entry, body
<1>3. body \in 1 .. Len(entry.args)
  BY <1>1
<1>4. opened \in IRs /\ opened.ops = entry.ops
  BY <1>1, <1>3, NewArgsType
<1>5. opened \in Adds(entry, body) /\ Len(opened.args[body]) = Len(entry.args[body]) + n
  BY <1>1, <1>3, NewArgsAdds
<1>6. Len(opened.args[body]) = n
  BY <1>2, <1>5, EmptySeq
<1> HIDE DEF opened
<1>7. e \in Adds(opened, body) /\ e.ops = opened.ops
  BY <1>1, <1>4, PushAdds
<1>8. e.args = opened.args /\ e \in IRs
  BY <1>1, <1>4, PushRegionType
<1> HIDE DEF e
<1>9. e \in Adds(entry, body)
  BY <1>1, <1>5, <1>7, AddsTwice
<1>10. e \in Adds(r, body)
  BY <1>2, <1>9, AddsTwice
<1> QED
  BY <1>1, <1>4, <1>6, <1>7, <1>8, <1>10 DEF e, opened, body, entry

(* A kernel's body takes the thread id, of the one extent.                  *)
LEMMA EnterKernelEmit ==
    ASSUME EInv, NEW st \in Menu, EnterKernel(st)
    PROVE  EInv' /\ Kept
<1> DEFINE entry == NewRegion(ir)
           body == LastRegion(entry)
           e == PushRegion(NewArgs(entry, body, 1), body)
           f == Frame(st, body, 0, Rvals(st.arg), scope)
<1>1. ir.err = "none" /\ ir' = e /\ frames' = Append(frames, f) /\ st.s = "kernel"
  BY DEF EnterKernel, Compound, Stmt, Reached
<1>2. /\ Inv' /\ ir \in IRs /\ Accepts(ir) /\ scope \in Scopes /\ locals \in [Names -> Objs]
      /\ Len(ir.args) \in Nat
  BY <1>1, EnterKernelInv, EmitRunning DEF EInv
<1>3. /\ e \in Adds(ir, body) /\ e.ops = ir.ops /\ e \in IRs
      /\ body = Len(ir.args) + 1 /\ body \in Blocks /\ Len(e.args[body]) = 1
  <2>1. 1 \in Nat
    OBVIOUS
  <2> QED
    BY <1>2, <2>1, OpenedRegion, Zenon
<1>4. Rvals(st.arg) \in Seq(Objs) /\ Len(Rvals(st.arg)) = 1
  BY <1>1, <1>2, StatementType, RvalsType DEF WellFormed, Shape
<1> HIDE DEF e, body
<1>5. f \in Frames /\ f.body = body /\ f.s = st /\ f.objs = Rvals(st.arg)
  <2>1. 0 \in Nat /\ st.s \notin {"if", "while"}
    BY <1>1
  <2> QED
    BY <1>2, <1>3, <1>4, <2>1, FrameType DEF Frame
<1>6. RegionEmits(e, body)
  <2>1. RegionEmits(ir, body)
    <3>1. ir \in Edits(ir, 0)
      BY <1>2, AddsSelf, AddsIsEdits
    <3>2. body # 0 /\ body \notin 1 .. Len(ir.args)
      BY <1>2, <1>3
    <3> QED
      BY <1>2, <3>1, <3>2, RegionNew
  <2> QED
    BY <1>2, <1>3, <2>1, RegionSame DEF Shaped
<1>7. FrameReady(e, f)
  BY <1>1, <1>3, <1>4, <1>5, <1>6 DEF FrameReady, LoopKinds
<1>8. e \in Adds(ir, body) /\ body \notin 1 .. Len(ir.args)
  BY <1>2, <1>3
<1> QED
  BY <1>1, <1>2, <1>5, <1>7, <1>8, EnterEmit

(* Three sequences one after the other.                                     *)
LEMMA ThreeParts ==
    ASSUME NEW S, NEW a \in Seq(S), NEW b \in Seq(S), NEW c \in Seq(S)
    PROVE  a \o b \o c \in Seq(S) /\ Len(a \o b \o c) = Len(a) + Len(b) + Len(c)
<1> DEFINE ab == a \o b
<1>1. ab \in Seq(S) /\ Len(ab) = Len(a) + Len(b)
  BY ConcatParts
<1> HIDE DEF ab
<1>2. ab \o c \in Seq(S) /\ Len(ab \o c) = Len(ab) + Len(c)
  BY <1>1, ConcatParts
<1>3. Len(ab \o c) = Len(a) + Len(b) + Len(c)
  BY <1>1, <1>2
<1> QED
  BY <1>2, <1>3 DEF ab

(* The bounds of a loop: three for each name that it binds.                 *)
LEMMA DimsLength ==
    ASSUME TypeOK, NEW st \in Menu, st.s \in LoopKinds
    PROVE  Len(Dims(st)) = IF st.s = "parallel" THEN 3 * Len(st.dst) ELSE 3
<1> DEFINE o == Rvals(st.arg)
           n == Len(o)
           lo == [j \in 1 .. n |-> Num(0)]
           step == [j \in 1 .. n |-> Num(1)]
<1>1. o \in Seq(Objs) /\ n = Len(st.arg) /\ n \in Nat
  BY StatementType, RvalsType, LenProperties DEF TypeOK
<1>2. CASE st.s = "parallel"
  <2>1. Len(st.arg) = Len(st.dst)
    BY <1>2, StatementType DEF WellFormed, Shape
  <2>2. lo \in Seq(Objs) /\ Len(lo) = n /\ step \in Seq(Objs) /\ Len(step) = n
    <3>1. Num(0) \in Objs /\ Num(1) \in Objs
      BY DEF Objs, Num
    <3>2. lo \in [1 .. n -> Objs] /\ step \in [1 .. n -> Objs]
      BY <3>1
    <3> QED
      BY <1>1, <3>2, FunctionIsSeq
  <2>3. Dims(st) = lo \o o \o step
    BY <1>2 DEF Dims
  <2>4. Len(o) = n
    OBVIOUS
  <2> HIDE DEF lo, step, o, n
  <2>5. Len(lo \o o \o step) = Len(lo) + Len(o) + Len(step)
    BY <1>1, <2>2, ThreeParts
  <2>6. Len(lo \o o \o step) = n + n + n
    BY <2>2, <2>4, <2>5
  <2>7. n + n + n = 3 * n
    BY <1>1
  <2> QED
    BY <1>1, <1>2, <2>1, <2>3, <2>6, <2>7
<1>3. CASE st.s \in {"serial", "pipelined"}
  <2>1. n \in 1 .. 3
    BY <1>1, <1>3, StatementType DEF WellFormed, Shape
  <2>2. CASE n = 1
    <3>1. Dims(st) = <<Num(0), o[1], Num(1)>>
      BY <1>3, <2>2 DEF Dims
    <3> HIDE DEF o
    <3> QED
      BY <1>3, <3>1
  <2>3. CASE n = 2
    <3>1. Dims(st) = <<o[1], o[2], Num(1)>>
      BY <1>3, <2>3 DEF Dims
    <3> HIDE DEF o
    <3> QED
      BY <1>3, <3>1
  <2>4. CASE n = 3
    <3>1. Dims(st) = o
      BY <1>3, <2>4 DEF Dims
    <3> QED
      BY <1>3, <2>4, <3>1
  <2> QED
    BY <2>1, <2>2, <2>3, <2>4
<1> QED
  BY <1>2, <1>3 DEF LoopKinds

(* A loop's body takes one argument for each name that it binds.            *)
LEMMA EnterForEmit ==
    ASSUME EInv, NEW st \in Menu, EnterFor(st)
    PROVE  EInv' /\ Kept
<1> DEFINE consts == Ensure(ir, Objects(scope))
           entry == NewRegion(consts)
           body == LastRegion(entry)
           n == Len(st.dst)
           e == PushRegion(NewArgs(entry, body, n), body)
           before == Materialised(scope, ir)
           f == Frame(st, body, 0, Dims(st), before)
<1>1. /\ ir.err = "none" /\ ir' = e /\ frames' = Append(frames, f) /\ st.s \in LoopKinds
  BY DEF EnterFor, Compound, Stmt, Reached
<1>2. /\ Inv' /\ TypeOK /\ ir \in IRs /\ ir \in Standing /\ Accepts(ir) /\ scope \in Scopes
      /\ Len(ir.args) \in Nat /\ ir.stack # <<>>
  BY <1>1, EnterForInv, EmitRunning DEF EInv
<1>3. /\ consts \in Adds(ir, 0) /\ consts \in IRs /\ consts.args = ir.args /\ before \in Scopes
  BY <1>2, ObjectsType, EnsureType, EnsureAdds, MaterialisedType DEF Emitted
<1>4. n \in Nat
  BY StatementType, LenProperties
<1> HIDE DEF consts, before
<1>5. /\ e \in Adds(consts, body) /\ e.ops = consts.ops /\ e \in IRs
      /\ body = Len(consts.args) + 1 /\ body \in Blocks /\ Len(e.args[body]) = n
  BY <1>3, <1>4, OpenedRegion
<1> HIDE DEF e, body, n
<1>6. Dims(st) \in Seq(Objs) /\ Len(Dims(st)) = IF st.s = "parallel" THEN 3 * Len(st.dst) ELSE 3
  BY <1>1, <1>2, DimsType, DimsLength
<1>7. f \in Frames /\ f.body = body /\ f.s = st /\ f.objs = Dims(st)
  <2>1. 0 \in Nat /\ st.s \notin {"if", "while"}
    BY <1>1 DEF LoopKinds
  <2> QED
    BY <1>3, <1>5, <1>6, <2>1, FrameType DEF Frame
<1>8. body \notin 1 .. Len(ir.args) /\ body # 0
  BY <1>2, <1>3, <1>5
<1>9. RegionEmits(e, body)
  <2>1. RegionEmits(consts, body)
    BY <1>2, <1>3, <1>8, AddsIsEdits, RegionNew
  <2> QED
    BY <1>3, <1>5, <2>1, RegionSame DEF Shaped
<1>10. FrameReady(e, f)
  BY <1>1, <1>5, <1>6, <1>7, <1>9 DEF FrameReady, LoopKinds, Extents, n
<1>11. e \in Adds(ir, body)
  BY <1>2, <1>3, <1>5, AddsAny, AddsTwice
<1> QED
  BY <1>1, <1>2, <1>7, <1>8, <1>10, <1>11, EnterEmit

(* Both branches of an if are new regions.                                  *)
LEMMA EnterIfEmit ==
    ASSUME EInv, NEW st \in Menu, EnterIf(st)
    PROVE  EInv' /\ Kept
<1> DEFINE o == Rvals(st.arg)
           cond == Condition(ir, st.c, o[1], o[2])
           tested == Ensure(cond.ir, <<cond.o>>)
           once == NewRegion(tested)
           entry == NewRegion(once)
           body == LastRegion(entry) - 1
           id == EnsureIds(cond.ir, <<cond.o>>)[1]
           f == Frame(st, body, body + 1, <<Val(id)>>, scope)
<1>1. /\ ir.err = "none" /\ st.s = "if"
      /\ ir' = PushRegion(entry, body) /\ frames' = Append(frames, f)
  BY DEF EnterIf, Compound, Stmt, Reached
<1>2. st.c \in Conditions /\ Len(st.arg) = 2
  BY <1>1, StatementType DEF WellFormed, Shape
<1>3. /\ TypeOK /\ Inv' /\ ir \in IRs /\ ir \in Standing /\ Accepts(ir) /\ Len(ir.args) \in Nat
      /\ o[1] \in Objs /\ o[2] \in Objs /\ scope \in Scopes
  <2>1. TypeOK /\ ir \in IRs /\ ir \in Standing /\ Accepts(ir) /\ Len(ir.args) \in Nat /\ scope \in Scopes
    BY <1>1, EmitRunning
  <2>2. o[1] \in Objs /\ o[2] \in Objs
    BY <1>2, <2>1, OperandType
  <2>3. Inv'
    BY EnterIfInv DEF EInv
  <2> QED
    BY <2>1, <2>2, <2>3
<1> HIDE DEF o
<1>4. cond \in Additions(ir)
  BY <1>2, <1>3, ConditionGrows
<1> HIDE DEF cond
<1>5. /\ cond.ir \in IRs /\ cond.ir \in Standing /\ cond.ir \in Adds(ir, 0) /\ cond.ir.args = ir.args
      /\ <<cond.o>> \in Seq(Objs) /\ cond.ir.stack # <<>>
  BY <1>3, <1>4, AdditionsType, OperandsType DEF Standing
<1>6. tested \in IRs /\ tested \in Adds(cond.ir, 0) /\ tested.args = ir.args
  BY <1>5, EnsureAdds, EnsureType DEF Emitted
<1>7. id \in Ids
  <2>1. /\ EnsureIds(cond.ir, <<cond.o>>) \in Seq(Ids)
        /\ Len(EnsureIds(cond.ir, <<cond.o>>)) = Len(<<cond.o>>)
    BY <1>5, EnsureIdsType, Zenon
  <2>2. Len(<<cond.o>>) = 1
    OBVIOUS
  <2> QED
    BY <2>1, <2>2, ElementOfSeq
<1> HIDE DEF tested, id
<1>8. once \in IRs /\ once \in Adds(tested, 0) /\ Len(once.args) = Len(ir.args) + 1
  BY <1>6, NewRegionType, NewRegionAdds
<1> HIDE DEF once
<1>9. /\ entry \in IRs /\ entry \in Adds(once, 0) /\ Len(entry.args) = Len(ir.args) + 2
      /\ body = Len(ir.args) + 1 /\ body \in Blocks /\ body + 1 \in Nat /\ body + 1 # 0
  <2>1. entry \in IRs /\ entry \in Adds(once, 0) /\ Len(entry.args) = Len(once.args) + 1
    BY <1>8, NewRegionType, NewRegionAdds
  <2>2. Len(entry.args) = Len(ir.args) + 2
    BY <1>3, <1>8, <2>1
  <2> QED
    BY <1>3, <2>1, <2>2 DEF LastRegion, Blocks
<1> HIDE DEF entry, body
<1>10. f \in Frames /\ f.body = body /\ f.other = body + 1 /\ f.s = st
  <2>1. <<Val(id)>> \in Seq(Objs)
    BY <1>7, ValType, OperandsType
  <2> QED
    BY <1>3, <1>9, <2>1, FrameType DEF Frame
<1> HIDE DEF f
<1>11. ir' \in Adds(ir, 0)
  <2>1. ir' \in Adds(entry, 0)
    BY <1>1, <1>9, PushAdds
  <2>2. ir' \in Adds(tested, 0)
    BY <1>6, <1>8, <1>9, <2>1, AddsTwice
  <2> QED
    BY <1>3, <1>5, <1>6, <2>2, AddsTwice
<1>12. ir' \in Edits(ir, 0)
  BY <1>3, <1>11, AddsIsEdits
<1>13. RegionEmits(ir', body) /\ RegionEmits(ir', body + 1)
  <2>1. body # 0 /\ body \notin 1 .. Len(ir.args) /\ body + 1 # 0 /\ body + 1 \notin 1 .. Len(ir.args)
    BY <1>3, <1>9
  <2>2. \A c : c # 0 /\ c \notin 1 .. Len(ir.args) => RegionEmits(ir', c)
    BY <1>3, <1>12, RegionNew
  <2> QED
    BY <2>1, <2>2
<1>14. FrameReady(ir', f)
  BY <1>1, <1>10, <1>13 DEF FrameReady, LoopKinds
<1>15. 0 \notin 1 .. Len(ir.args)
  BY <1>3
<1> QED
  BY <1>1, <1>3, <1>10, <1>11, <1>14, <1>15, EnterEmit

(* A while's condition ends in a yield of its one value.                    *)
LEMMA EmitLast ==
    ASSUME NEW r \in IRs, r.stack # <<>>, NEW name \in OpNames, NEW objs \in Seq(Objs),
           NEW nres \in Nat, NEW regions \in Seq(Blocks), NEW attr \in Int,
           Emit(r, name, objs, nres, regions, attr).err = "none"
    PROVE  LET e == Emit(r, name, objs, nres, regions, attr)
           IN  \E k \in 1 .. Len(e.ops) : /\ e.ops[k].blk = Block(r) /\ e.ops[k].name = name
                                          /\ Len(e.ops[k].operands) = Len(objs)
<1> DEFINE q == Ensure(r, objs)
           b == Block(r)
           ids == EnsureIds(r, objs)
           e == AppendOp(q, b, name, ids, nres, regions, attr)
           op == e.ops[Len(q.ops) + 1]
<1>1. /\ q \in IRs /\ b \in Blocks /\ ids \in Seq(Ids) /\ Len(ids) = Len(objs)
  BY EnsureType, BlockType, EnsureIdsType DEF Emitted
<1>2. Len(q.ops) \in Nat
  BY <1>1, PartsType
<1>3. e = Emit(r, name, objs, nres, regions, attr)
  BY DEF Emit
<1> HIDE DEF q, b, ids
<1>4. /\ e \in IRs /\ e.args = q.args
      /\ \/ e.ops = q.ops /\ e.err # "none"
         \/ /\ e.err = "none" /\ q.err = "none" /\ Len(e.ops) = Len(q.ops) + 1
            /\ \A k \in 1 .. Len(q.ops) : e.ops[k] = q.ops[k]
            /\ op.name = name /\ op.blk = b /\ op.operands = ids
            /\ op.regions = regions /\ Len(op.results) = nres /\ op.attr = attr
  BY <1>1, AppendOpLast
<1> HIDE DEF e
<1>5. Len(q.ops) + 1 \in 1 .. Len(e.ops) /\ op.name = name /\ op.blk = b /\ op.operands = ids
  BY <1>2, <1>3, <1>4
<1> QED
  BY <1>1, <1>3, <1>5 DEF b

(* A while's condition is a new region with that yield, its body another.   *)
LEMMA EnterWhileEmit ==
    ASSUME EInv, NEW st \in Menu, EnterWhile(st)
    PROVE  EInv' /\ Kept
<1> DEFINE entry == NewRegion(ir)
           test == LastRegion(entry)
           o == Rvals(st.arg)
           pushed == PushRegion(entry, test)
           cond == Condition(pushed, st.c, o[1], o[2])
           yielded == Emit(cond.ir, "yield", <<cond.o>>, 0, <<>>, 0)
           popped == PopRegion(yielded)
           done == NewRegion(popped)
           f == Frame(st, test + 1, test, <<>>, scope)
<1>1. /\ ir.err = "none" /\ st.s = "while"
      /\ ir' = PushRegion(done, test + 1) /\ frames' = Append(frames, f)
  BY DEF EnterWhile, Compound, Stmt, Reached
<1>2. st.c \in Conditions /\ Len(st.arg) = 2
  BY <1>1, StatementType DEF WellFormed, Shape
<1>3. /\ TypeOK /\ Inv' /\ ir \in IRs /\ Accepts(ir) /\ ir.stack \in Seq(Blocks)
      /\ Len(ir.args) \in Nat /\ o[1] \in Objs /\ o[2] \in Objs /\ scope \in Scopes
  <2>1. TypeOK /\ ir \in IRs /\ Accepts(ir) /\ Len(ir.args) \in Nat /\ scope \in Scopes
    BY <1>1, EmitRunning
  <2>2. o[1] \in Objs /\ o[2] \in Objs
    BY <1>2, <2>1, OperandType
  <2>3. Inv'
    BY EnterWhileInv DEF EInv
  <2> QED
    BY <2>1, <2>2, <2>3, PartsType
<1> HIDE DEF o
<1>4. /\ entry \in IRs /\ entry \in Adds(ir, 0) /\ entry.stack = ir.stack
      /\ Len(entry.args) = Len(ir.args) + 1 /\ test \in Blocks /\ test = Len(ir.args) + 1
      /\ test + 1 \in Blocks
  BY <1>3, NewRegionType, NewRegionUpon, NewRegionAdds DEF Blocks
<1> HIDE DEF entry, test
<1>5. pushed \in IRs /\ pushed \in Adds(entry, 0) /\ pushed \in Standing /\ Block(pushed) = test
  <2>1. /\ pushed \in IRs /\ pushed.args = entry.args /\ pushed.stack # <<>>
        /\ pushed.stack = Append(ir.stack, test) /\ pushed \in Adds(entry, 0)
    <3>1. pushed \in IRs /\ pushed.args = entry.args /\ pushed.stack # <<>>
      BY <1>4, PushRegionType
    <3>2. pushed.stack = Append(entry.stack, test)
      BY <1>4 DEF PushRegion, IRs
    <3>3. pushed \in Adds(entry, 0)
      BY <1>4, PushAdds
    <3> QED
      BY <1>4, <3>1, <3>2, <3>3
  <2>2. Block(pushed) = test
    BY <1>3, <1>4, <2>1, AppendProperties DEF Block
  <2>3. test \in 1 .. Len(pushed.args)
    BY <1>3, <1>4, <2>1
  <2> QED
    BY <2>1, <2>2, <2>3 DEF Standing
<1> HIDE DEF pushed
<1>6. cond \in Additions(pushed)
  BY <1>2, <1>3, <1>5, ConditionGrows
<1> HIDE DEF cond
<1>7. /\ cond.ir \in IRs /\ cond.ir \in Standing /\ cond.ir \in Adds(pushed, 0)
      /\ Block(cond.ir) = test /\ <<cond.o>> \in Seq(Objs) /\ cond.ir.stack # <<>>
  BY <1>5, <1>6, AdditionsType, OperandsType DEF Standing
<1> DEFINE kind == "yield"
           zero == 0
           none == <<>>
<1>8. /\ kind \in OpNames /\ (kind \in Plain \/ (kind = "yield" /\ Block(cond.ir) = test))
      /\ zero \in Nat /\ zero \in Int /\ none \in Seq(Blocks)
  BY <1>7, EmptySeq DEF OpNames, Terminators
<1>9. yielded = Emit(cond.ir, kind, <<cond.o>>, zero, <<>>, zero)
  OBVIOUS
<1>10. yielded = Emit(cond.ir, kind, <<cond.o>>, zero, none, zero)
  OBVIOUS
<1> HIDE DEF kind, zero, none
<1>11. yielded \in Adds(cond.ir, test)
  <2>1. Emit(cond.ir, kind, <<cond.o>>, zero, <<>>, zero) \in Adds(cond.ir, test)
    BY <1>7, <1>8, EmitAdds
  <2> QED
    BY <1>9, <2>1
<1>12. yielded \in IRs /\ yielded.stack # <<>>
  <2>1. Emit(cond.ir, kind, <<cond.o>>, zero, none, zero) \in Emitted(cond.ir)
    BY <1>7, <1>8, EmitType
  <2> QED
    BY <1>7, <1>10, <2>1 DEF Emitted
<1>13. yielded.err = "none" => HasTest(yielded, test)
  <2> SUFFICES ASSUME yielded.err = "none" PROVE HasTest(yielded, test)
    OBVIOUS
  <2>1. Len(<<cond.o>>) = 1
    OBVIOUS
  <2> DEFINE objs == <<cond.o>>
             y == Emit(cond.ir, kind, objs, zero, none, zero)
  <2>2. \E k \in 1 .. Len(yielded.ops) : /\ yielded.ops[k].blk = Block(cond.ir)
                                         /\ yielded.ops[k].name = kind
                                         /\ Len(yielded.ops[k].operands) = Len(objs)
    <3>1. y = yielded /\ objs \in Seq(Objs) /\ y.err = "none"
      BY <1>7, <1>10
    <3> HIDE DEF objs
    <3>2. \E k \in 1 .. Len(y.ops) : /\ y.ops[k].blk = Block(cond.ir) /\ y.ops[k].name = kind
                                     /\ Len(y.ops[k].operands) = Len(objs)
      BY <1>7, <1>8, <3>1, EmitLast
    <3> QED
      BY <3>1, <3>2
  <2> QED
    BY <1>7, <2>1, <2>2 DEF HasTest, kind
<1> HIDE DEF yielded
<1>14. popped \in IRs /\ popped \in Adds(yielded, 0) /\ popped.err = yielded.err
  BY <1>12, PopAdds, PopRegionType
<1> HIDE DEF popped
<1>15. done \in IRs /\ done \in Adds(popped, 0) /\ done.err = popped.err
  BY <1>14, NewRegionType, NewRegionAdds
<1> HIDE DEF done
<1>16. ir' \in Adds(done, 0) /\ ir'.err = done.err
  BY <1>1, <1>4, <1>15, PushAdds, PushRegionType
<1>17. f \in Frames /\ f.body = test + 1 /\ f.other = test /\ f.s = st
  <2>1. <<>> \in Seq(Objs) /\ test \in Nat /\ test # 0
    BY <1>4, EmptySeq DEF Blocks
  <2> QED
    BY <1>3, <1>4, <2>1, FrameType DEF Frame
<1> HIDE DEF f
<1>18. ir' \in Adds(ir, test) /\ ir' \in Edits(ir, test) /\ ir' \in Adds(yielded, 0)
  <2>1. ir' \in Adds(yielded, 0)
    BY <1>12, <1>14, <1>15, <1>16, AddsTwice
  <2>2. cond.ir \in Adds(ir, 0)
    BY <1>3, <1>4, <1>5, <1>7, AddsTwice
  <2>3. cond.ir \in Adds(ir, test) /\ ir' \in Adds(yielded, test)
    BY <1>3, <1>12, <2>1, <2>2, AddsAny
  <2>4. ir' \in Adds(cond.ir, test)
    BY <1>7, <1>11, <2>3, AddsTwice
  <2>5. ir' \in Adds(ir, test)
    BY <1>3, <2>3, <2>4, AddsTwice
  <2> QED
    BY <1>3, <2>1, <2>5, AddsIsEdits
<1>19. ir'.err = "none" => HasTest(ir', test)
  <2>1. ir'.err = "none" => HasTest(yielded, test)
    BY <1>13, <1>14, <1>15, <1>16
  <2>2. ir' \in Edits(yielded, 0)
    BY <1>12, <1>18, AddsIsEdits
  <2> QED
    BY <1>12, <2>1, <2>2, TestKept
<1>20. test \notin 1 .. Len(ir.args)
  BY <1>3, <1>4
<1>21. RegionEmits(ir', test + 1)
  <2>1. test + 1 # test /\ test + 1 \notin 1 .. Len(ir.args)
    BY <1>3, <1>4
  <2> QED
    BY <1>3, <1>18, <2>1, RegionNew
<1>22. CASE ir'.err = "none"
  <2>1. FrameReady(ir', f)
    BY <1>1, <1>17, <1>19, <1>21, <1>22 DEF FrameReady, LoopKinds
  <2> QED
    BY <1>1, <1>3, <1>17, <1>18, <1>20, <2>1, EnterEmit
<1>23. CASE ir'.err # "none"
  <2>1. test \notin 1 .. Len(ir.args)
    BY <1>3, <1>4
  <2>2. Kept
    BY <1>18, <2>1, AddsKeeps
  <2> QED
    BY <1>3, <1>23, <2>2 DEF EInv
<1> QED
  BY <1>22, <1>23

(***************************************************************************)
(* The end of a compound statement.                                         *)
(***************************************************************************)
(* Its region is popped, and the generators around it are as they were.     *)
LEMMA PoppedStands ==
    ASSUME EInv, ir.err = "none", frames # <<>>
    PROVE  /\ PopRegion(ir) \in Standing /\ PopRegion(ir) \in IRs /\ PopRegion(ir) \in Adds(ir, 0)
           /\ PopRegion(ir).args = ir.args /\ PopRegion(ir).stack # <<>>
<1> DEFINE popped == PopRegion(ir)
<1>1. /\ TypeOK /\ ir \in IRs /\ ir.stack # <<>> /\ Tree(ir)
      /\ frames \in Seq(Frames) /\ Nested(ir, frames)
  BY EmitRunning
<1>2. /\ popped \in IRs /\ popped \in Upon(ir) /\ popped.args = ir.args
      /\ popped.stack = SubSeq(ir.stack, 1, Len(ir.stack) - 1) /\ popped \in Adds(ir, 0)
  BY <1>1, PopRegionType, PopRegionUpon, PopAdds
<1> HIDE DEF popped
<1>3. Nested(popped, Up)
  BY <1>1, <1>2, Ended DEF Up
<1>4. popped \in Standing
  BY <1>1, <1>2, <1>3, TopType, NestedStands
<1> QED
  BY <1>2, <1>4 DEF popped, Standing

(* What passes the checks and has its frames ready still does, and has.     *)
LEMMA AddsAccepts ==
    ASSUME EInv, ir.err = "none", frames # <<>>, NEW e \in Adds(ir, 0)
    PROVE  Accepts(e) /\ Ready(e, Up) /\ FrameReady(e, Top)
<1>1. /\ TypeOK /\ Accepts(ir) /\ Ready(ir, frames) /\ ir \in IRs /\ Tree(ir)
      /\ frames \in Seq(Frames) /\ Nested(ir, frames)
  BY EmitRunning
<1>2. e \in Edits(ir, 0) /\ Free(ir, 0)
  BY <1>1, AddsIsEdits, NobodysRegion
<1>3. Accepts(e)
  BY <1>1, <1>2, AcceptsKept
<1>4. Ready(e, frames)
  <2>1. \A k \in 1 .. Len(frames) : 0 \notin Held(frames[k])
    BY <1>1, ElementOfSeq DEF Held, Frames, Blocks
  <2> QED
    BY <1>1, <1>2, <2>1, ReadyKept, LenProperties
<1> QED
  BY <1>1, <1>3, <1>4, UpReady

(* An operation over the regions of the innermost generator, if its frame   *)
(* was all that the checks need.                                            *)
LEMMA EmitCloses ==
    ASSUME EInv, Inv', ir.err = "none", frames # <<>>, frames' = Up,
           NEW name \in OpNames \ Terminators, NEW objs \in Seq(Objs), NEW nres \in Nat,
           NEW attr \in Int, NEW regions \in Seq(Blocks), name \in Bodied => Len(regions) = 1,
           name \notin LoopNames, ir' = Emit(PopRegion(ir), name, objs, nres, regions, attr),
           \A q \in IRs : \A op \in Operations :
             /\ FrameReady(q, Top) /\ op.name = name /\ Len(op.operands) = Len(objs)
             /\ op.regions = regions /\ op.attr = attr
             => Emits(q, op)
    PROVE  EInv' /\ Kept
<1> DEFINE popped == PopRegion(ir)
           q == Ensure(popped, objs)
           ids == EnsureIds(popped, objs)
           b == Block(popped)
<1>1. /\ popped \in Standing /\ popped \in IRs /\ popped \in Adds(ir, 0)
      /\ popped.args = ir.args /\ popped.stack # <<>> /\ ir \in IRs
  BY PoppedStands, EmitRunning
<1> HIDE DEF popped
<1>2. /\ q \in IRs /\ q.args = popped.args /\ ids \in Seq(Ids) /\ Len(ids) = Len(objs)
      /\ b \in 1 .. Len(q.args)
  BY <1>1, EnsureType, EnsureIdsType DEF Emitted, Standing
<1>3. q \in Adds(ir, 0)
  BY <1>1, EnsureAdds, AddsTwice
<1>4. ir' = AppendOp(q, b, name, ids, nres, regions, attr)
  BY DEF Emit, popped
<1> HIDE DEF q, ids, b
<1>5. Accepts(q) /\ Ready(q, Up) /\ FrameReady(q, Top)
  BY <1>3, AddsAccepts
<1> DEFINE e == AppendOp(q, b, name, ids, nres, regions, attr)
<1>6. ASSUME ir'.err = "none" PROVE Accepts(ir') /\ Ready(ir', Up)
  <2>1. e.err = "none"
    BY <1>4, <1>6
  <2>2. \A op \in Operations :
             /\ op.name = name /\ op.operands = ids /\ op.regions = regions
             /\ Len(op.results) = nres /\ op.attr = attr
             => Emits(q, op)
    BY <1>2, <1>5
  <2>3. Accepts(e) /\ Ready(e, Up)
    BY <1>2, <1>5, <2>1, <2>2, AppendOpAccepts
  <2> QED
    BY <1>4, <2>3
<1>7. Kept
  <2>1. /\ b \in Blocks /\ name \in OpNames
        /\ Len(ir.ops) \in Nat /\ Len(q.ops) \in Nat /\ Len(e.ops) \in Nat
    BY <1>1, <1>2, <1>4, PartsType DEF Blocks, EInv, Inv, TypeOK
  <2>2. Len(q.ops) <= Len(e.ops) /\ \A k \in 1 .. Len(q.ops) : e.ops[k] = q.ops[k]
    <3>1. q \in IRs /\ b \in Blocks /\ name \in OpNames /\ ids \in Seq(Ids)
      BY <1>2, <2>1
    <3>2. \/ e.ops = q.ops
          \/ Len(e.ops) = Len(q.ops) + 1 /\ \A k \in 1 .. Len(q.ops) : e.ops[k] = q.ops[k]
      BY <3>1, AppendOpLast
    <3> QED
      BY <2>1, <3>2
  <2>3. Len(ir.ops) <= Len(q.ops) /\ \A k \in 1 .. Len(ir.ops) : q.ops[k] = ir.ops[k]
    BY <1>3 DEF Adds, Grows
  <2>4. Len(ir.args) <= Len(q.args) /\ \A c \in 1 .. Len(ir.args) : q.args[c] = ir.args[c]
    BY <1>1, <1>2, PartsType
  <2>5. e.args = q.args
    BY <1>2, <2>1, AppendOpLast
  <2>6. \A k \in Len(ir.ops) + 1 .. Len(e.ops) : e.ops[k].name \notin LoopNames
    <3>1. \A k \in Len(ir.ops) + 1 .. Len(q.ops) : q.ops[k].name \notin LoopNames
      BY <1>3, AddingNoLoop DEF Adds
    <3>2. q \in IRs /\ b \in Blocks /\ name \in OpNames /\ ids \in Seq(Ids)
      BY <1>2, <2>1
    <3>3. \/ e.ops = q.ops
          \/ /\ Len(e.ops) = Len(q.ops) + 1 /\ e.ops[Len(q.ops) + 1].name = name
             /\ \A k \in 1 .. Len(q.ops) : e.ops[k] = q.ops[k]
      BY <3>2, AppendOpLast
    <3> HIDE DEF e
    <3>4. CASE e.ops = q.ops
      BY <3>1, <3>4
    <3>5. CASE e.ops # q.ops
      <4> TAKE k \in Len(ir.ops) + 1 .. Len(e.ops)
      <4>1. k \in Len(ir.ops) + 1 .. Len(q.ops) \/ k = Len(q.ops) + 1
        BY <2>1, <2>3, <3>3, <3>5
      <4>2. k \in Len(ir.ops) + 1 .. Len(q.ops) => k \in 1 .. Len(q.ops)
        BY <2>1
      <4> QED
        BY <3>1, <3>3, <3>5, <4>1, <4>2
    <3> QED
      BY <3>4, <3>5
  <2> QED
    BY <1>4, <2>1, <2>2, <2>3, <2>4, <2>5, <2>6 DEF Kept
<1> QED
  BY <1>6, <1>7 DEF EInv

(* A kernel has one extent and one thread id.                               *)
LEMMA ExitKernelEmit ==
    ASSUME EInv, ExitKernel
    PROVE  EInv' /\ Kept
<1> DEFINE regions == <<Top.body>>
           objs == Top.objs
           kind == "kernel"
           zero == 0
           one == 1
<1>1. /\ ir.err = "none" /\ frames # <<>> /\ frames' = Up /\ Top.s.s = "kernel"
      /\ ir' = Emit(PopRegion(ir), kind, objs, zero, regions, one)
  BY DEF ExitKernel
<1>2. Inv' /\ Top.body \in Blocks /\ objs \in Seq(Objs)
  BY <1>1, ExitKernelInv, EmitRunning, TopType DEF EInv, Frames
<1>3. /\ kind \in OpNames \ Terminators /\ regions \in Seq(Blocks) /\ Len(regions) = 1
      /\ regions[1] = Top.body /\ zero \in Nat /\ one \in Int /\ kind \notin LoopNames
  BY <1>2 DEF OpNames, Terminators, LoopNames
<1>4. ASSUME NEW q \in IRs, NEW op \in Operations, FrameReady(q, Top), op.name = kind,
             Len(op.operands) = Len(objs), op.regions = regions, op.attr = one
      PROVE  Emits(q, op)
  <2>1. op.attr = Len(op.operands) /\ StructuredBody(q, op)
    BY <1>1, <1>3, <1>4 DEF FrameReady, StructuredBody
  <2> QED
    BY <1>4, <2>1, EmitsByName
<1> HIDE DEF regions, objs, kind, zero, one
<1>5. kind \in Bodied => Len(regions) = 1
  BY <1>3
<1>6. \A q \in IRs : \A op \in Operations :
         /\ FrameReady(q, Top) /\ op.name = kind /\ Len(op.operands) = Len(objs)
         /\ op.regions = regions /\ op.attr = one
         => Emits(q, op)
  BY <1>4
<1> QED
  BY <1>1, <1>2, <1>3, <1>5, <1>6, EmitCloses

(* An if has the regions that its generator held.                           *)
LEMMA ExitIfEmit ==
    ASSUME EInv, ExitIf
    PROVE  EInv' /\ Kept
<1> DEFINE regions == IfRegions(Top)
           objs == Top.objs
           kind == "if"
           zero == 0
<1>1. /\ ir.err = "none" /\ frames # <<>> /\ frames' = Up /\ Top.s.s = "if"
      /\ ir' = Emit(PopRegion(ir), kind, objs, zero, regions, zero)
  BY DEF ExitIf
<1>2. Inv' /\ Top.body \in Blocks /\ Top.other \in Blocks /\ objs \in Seq(Objs)
  BY <1>1, ExitIfInv, EmitRunning, TopType DEF EInv, Frames, Blocks
<1>3. /\ kind \in OpNames \ Terminators /\ kind \notin Bodied /\ zero \in Nat /\ zero \in Int
      /\ kind \notin LoopNames
  BY DEF OpNames, Terminators, Bodied, LoopNames
<1>4. /\ regions \in Seq(Blocks)
      /\ \A j \in DOMAIN regions : regions[j] \in {Top.body, Top.other}
  <2>1. CASE Top.branch = "else"
    BY <1>2, <2>1 DEF IfRegions
  <2>2. CASE Top.branch # "else"
    BY <1>2, <2>2 DEF IfRegions
  <2> QED
    BY <2>1, <2>2
<1> HIDE DEF regions
<1>5. ASSUME NEW q \in IRs, NEW op \in Operations, FrameReady(q, Top), op.name = kind,
             Len(op.operands) = Len(objs), op.regions = regions, op.attr = zero
      PROVE  Emits(q, op)
  <2>1. RegionEmits(q, Top.body) /\ RegionEmits(q, Top.other)
    BY <1>1, <1>5 DEF FrameReady
  <2>2. EmitsIf(q, op)
    BY <1>4, <1>5, <2>1 DEF EmitsIf
  <2> QED
    BY <1>5, <2>2, EmitsByName
<1> HIDE DEF objs, kind, zero
<1> QED
  BY <1>1, <1>2, <1>3, <1>4, <1>5, EmitCloses

(* A while has the test, which yields its one value, and the body.          *)
LEMMA ExitWhileEmit ==
    ASSUME EInv, ExitWhile
    PROVE  EInv' /\ Kept
<1> DEFINE regions == <<Top.other, Top.body>>
           none == <<>>
           kind == "while"
           zero == 0
<1>1. /\ ir.err = "none" /\ frames # <<>> /\ frames' = Up /\ Top.s.s = "while"
      /\ ir' = Emit(PopRegion(ir), kind, none, zero, regions, zero)
  BY DEF ExitWhile
<1>2. Inv' /\ Top.body \in Blocks /\ Top.other \in Blocks
  BY <1>1, ExitWhileInv, EmitRunning, TopType DEF EInv, Frames, Blocks
<1>3. /\ kind \in OpNames \ Terminators /\ kind \notin Bodied /\ zero \in Nat /\ zero \in Int
      /\ none \in Seq(Objs) /\ kind \notin LoopNames
  BY EmptySeq DEF OpNames, Terminators, Bodied, LoopNames
<1>4. /\ regions \in Seq(Blocks) /\ Len(regions) = 2
      /\ regions[1] = Top.other /\ regions[2] = Top.body
  BY <1>2
<1> HIDE DEF regions
<1>5. ASSUME NEW q \in IRs, NEW op \in Operations, FrameReady(q, Top), op.name = kind,
             Len(op.operands) = Len(none), op.regions = regions, op.attr = zero
      PROVE  Emits(q, op)
  <2>1. Len(op.regions) = 2 /\ HasTest(q, op.regions[1]) /\ RegionEmits(q, op.regions[2])
    BY <1>1, <1>4, <1>5 DEF FrameReady
  <2> QED
    BY <1>5, <2>1, EmitsByName
<1> HIDE DEF none, kind, zero
<1> QED
  BY <1>1, <1>2, <1>3, <1>4, <1>5, EmitCloses

(* A builder that raised stays so.                                          *)
LEMMA RaisedStays ==
    ASSUME NEW r \in IRs, r.err # "none", NEW b, NEW name, NEW operands, NEW nres, NEW regions, NEW attr
    PROVE  AppendOp(r, b, name, operands, nres, regions, attr) = r
BY DEF AppendOp

(* A loop's body has the arguments for its dims and for the values that it  *)
(* carries, of which a parallel loop has none, so that it has no yield.     *)
LEMMA ExitForEmit ==
    ASSUME EInv, ExitFor
    PROVE  EInv'
<1> DEFINE f == Top
           names == Pick(f.before.order, Carried(ir, f.before, scope))
           n == Len(names)
           d == Len(f.s.dst)
           kind == LoopOp(f.s.s)
           outer == PopRegion(ir)
           bounds == Ensure(outer, f.objs)
           initials == [j \in 1..n |-> f.before.at[names[j]].n]
           finals == [j \in 1..n |-> scope.at[names[j]].n]
           opened == NewArgs(bounds, f.body, n)
           rewired == ReplaceRegionUses(opened, f.body, initials, Fresh(bounds, n))
           yielded == YieldFinals(rewired, f.body, finals)
           ids == EnsureIds(outer, f.objs)
           regions == <<f.body>>
           closed == AppendOp(yielded, Block(outer), kind, ids \o initials, n, regions, d)
           raised == Raise(bounds, "parallelCarry")
<1>1. /\ ir.err = "none" /\ frames # <<>> /\ f.s.s \in LoopKinds /\ frames' = Up
      /\ ir' = CloseLoop(ir, f, names, scope)
  BY DEF ExitFor
<1>2. /\ TypeOK /\ Inv' /\ ir \in IRs /\ Tree(ir) /\ scope \in Scopes /\ Accepts(ir)
      /\ frames \in Seq(Frames) /\ Nested(ir, frames) /\ Ready(ir, frames)
      /\ f \in Frames /\ Len(frames) \in 1 .. Len(frames) /\ f = frames[Len(frames)]
  <2>1. Inv'
    BY ExitForInv DEF EInv
  <2> QED
    BY <1>1, <2>1, EmitRunning, TopType DEF Top
<1>3. f.s \in Menu /\ f.body \in Blocks /\ f.objs \in Seq(Objs) /\ f.before \in Scopes
  BY <1>2 DEF Frames
<1>4. /\ n \in Nat
      /\ \A j \in 1..n : f.before.at[names[j]].n \in Ids /\ scope.at[names[j]].n \in Ids
  BY <1>2, <1>3, CarriedType
<1>5. ir' = IF bounds.err = "none" /\ Refused(f, n) THEN raised ELSE closed
  BY <1>1 DEF CloseLoop
<1> HIDE DEF names, n
<1>6. initials \in Seq(Ids) /\ finals \in Seq(Ids) /\ Len(initials) = n /\ Len(finals) = n
  <2>1. initials \in [1..n -> Ids] /\ finals \in [1..n -> Ids]
    BY <1>4
  <2> QED
    BY <1>4, <2>1, FunctionIsSeq
<1>7. d \in Nat /\ d \in Int /\ (f.s.s \in {"serial", "pipelined"} => d = 1)
  <2>1. f.s.s \in {"serial", "pipelined"} => d = 1
    BY <1>3, StatementType DEF WellFormed, Shape
  <2> QED
    BY <1>3, <2>1, StatementType, LenProperties
<1>8. f.s.s = "parallel" => d >= 1
  <2> SUFFICES ASSUME f.s.s = "parallel" PROVE d >= 1
    OBVIOUS
  <2>1. f.s.dst # <<>> /\ f.s.dst \in Seq(Names)
    BY <1>3, StatementType DEF WellFormed, Shape
  <2> QED
    BY <1>7, <2>1, EmptySeq
<1>9. /\ kind \in OpNames \ Terminators
      /\ (f.s.s = "parallel" /\ kind = "parallel") \/ (f.s.s \in {"serial", "pipelined"} /\ kind \in LoopNames)
  BY <1>1 DEF LoopOp, LoopKinds, LoopNames, OpNames, Terminators
<1>10. /\ regions \in Seq(Blocks) /\ Len(regions) = 1 /\ regions[1] = f.body
  BY <1>3
<1>11. /\ f.body \in 1 .. Len(ir.args) /\ f.body # 1 /\ Free(ir, f.body) /\ f.body \in Held(f)
       /\ \A k \in 1 .. Len(Up) : Up[k] = frames[k] /\ f.body \notin Held(Up[k])
       /\ Up \in Seq(Frames) /\ Len(Up) <= Len(frames) /\ Len(ir.args) \in Nat
  <2>1. f.body \in Held(f) /\ Len(ir.args) \in Nat
    BY <1>2, PartsType DEF Held
  <2>2. f.body \in 2 .. Len(ir.args) /\ Free(ir, f.body)
    BY <1>2, <2>1 DEF Nested
  <2>3. /\ Up \in Seq(Frames) /\ Len(Up) <= Len(frames)
        /\ \A k \in 1 .. Len(Up) : Up[k] = frames[k] /\ k \in 1 .. Len(frames) - 1
    BY <1>1, <1>2, UpReady
  <2>4. ASSUME NEW k \in 1 .. Len(Up) PROVE f.body \notin Held(Up[k])
    <3>1. k \in 1 .. Len(frames) /\ k < Len(frames) /\ Up[k] = frames[k]
      BY <1>2, <2>3
    <3>2. \A b \in Held(frames[k]) : b < f.body
      BY <1>2, <2>1, <3>1 DEF Nested
    <3> QED
      BY <1>3, <3>1, <3>2 DEF Blocks
  <2> QED
    BY <2>1, <2>2, <2>3, <2>4
<1> HIDE DEF f, initials, finals, d, kind, regions
<1>12. /\ outer \in Standing /\ outer \in IRs /\ outer \in Adds(ir, 0)
       /\ outer.args = ir.args /\ outer.stack # <<>> /\ Block(outer) \in 1 .. Len(ir.args)
  BY <1>1, PoppedStands DEF Standing
<1> HIDE DEF outer
<1>13. /\ bounds \in IRs /\ bounds \in Adds(ir, 0) /\ bounds.args = ir.args
       /\ ids \in Seq(Ids) /\ Len(ids) = Len(f.objs)
  <2>1. bounds \in Adds(ir, 0)
    BY <1>2, <1>3, <1>12, EnsureAdds, AddsTwice
  <2> QED
    BY <1>3, <1>12, <2>1, EnsureType, EnsureIdsType DEF Emitted
<1>14. /\ RegionEmits(bounds, f.body) /\ Len(bounds.args[f.body]) = d
       /\ Len(f.objs) = IF f.s.s = "parallel" THEN 3 * d ELSE 3
  <2>1. FrameReady(bounds, f)
    BY <1>1, <1>13, AddsAccepts DEF f
  <2> QED
    BY <1>1, <2>1 DEF FrameReady, Extents, d
<1> HIDE DEF bounds, ids
<1>15. /\ opened \in IRs /\ opened \in Adds(bounds, f.body) /\ opened.ops = bounds.ops
       /\ opened.err = bounds.err
       /\ Len(opened.args[f.body]) = d + n
       /\ Fresh(bounds, n) \in Seq(Ids) /\ Len(Fresh(bounds, n)) = n
  <2>1. f.body \in 1 .. Len(bounds.args)
    BY <1>11, <1>13
  <2>2. opened \in IRs /\ opened.ops = bounds.ops /\ opened.err = bounds.err
    BY <1>4, <1>13, NewArgsType, Zenon
  <2>3. opened \in Adds(bounds, f.body) /\ Len(opened.args[f.body]) = Len(bounds.args[f.body]) + n
    BY <1>4, <1>13, <2>1, NewArgsAdds, Zenon
  <2>4. Fresh(bounds, n) \in Seq(Ids) /\ Len(Fresh(bounds, n)) = n
    BY <1>4, <1>13, FreshType, Zenon
  <2> QED
    BY <1>14, <2>2, <2>3, <2>4
<1> HIDE DEF opened
<1>16. /\ rewired \in IRs /\ rewired \in Edits(opened, f.body) /\ rewired.args = opened.args
       /\ Len(rewired.ops) = Len(opened.ops) /\ rewired.err = opened.err
       /\ \A k \in 1 .. Len(opened.ops) : Shaped(opened.ops[k], rewired.ops[k])
  <2>1. /\ rewired \in Edits(opened, f.body) /\ rewired.args = opened.args
        /\ Len(rewired.ops) = Len(opened.ops)
        /\ \A k \in 1 .. Len(opened.ops) : Shaped(opened.ops[k], rewired.ops[k])
    BY <1>6, <1>15, ReplaceRegionUsesEdits
  <2>2. rewired \in Emitted(opened) /\ rewired.err = opened.err
    BY <1>6, <1>15, ReplaceRegionUsesType
  <2> QED
    BY <2>1, <2>2 DEF Emitted
<1> HIDE DEF rewired
<1>17. /\ yielded \in IRs /\ yielded \in Adds(rewired, f.body) /\ yielded.args = rewired.args
       /\ n = 0 => yielded = rewired
       /\ rewired.err # "none" => yielded = rewired
  <2>1. f.body \in 1 .. Len(rewired.args)
    BY <1>11, <1>13, <1>15, <1>16 DEF Adds, Grows
  <2>2. yielded \in Adds(rewired, f.body) /\ yielded.args = rewired.args
    BY <1>6, <1>16, <2>1, YieldFinalsAdds
  <2>3. n = 0 => yielded = rewired
    BY <1>6, EmptySeq DEF YieldFinals
  <2>4. rewired.err # "none" => yielded = rewired
    BY <1>16, RaisedStays DEF YieldFinals
  <2> QED
    BY <2>2, <2>3, <2>4 DEF Adds
<1>18. n = 0 => RegionEmits(yielded, f.body)
  <2> SUFFICES ASSUME n = 0 PROVE RegionEmits(yielded, f.body)
    OBVIOUS
  <2>1. RegionEmits(opened, f.body)
    BY <1>13, <1>14, <1>15, RegionSame DEF Shaped
  <2>2. RegionEmits(rewired, f.body)
    BY <1>15, <1>16, <2>1, RegionSame
  <2> QED
    BY <1>17, <2>2
<1> HIDE DEF yielded
<1>19. yielded \in Edits(ir, f.body)
  <2>1. bounds \in Edits(ir, f.body)
    BY <1>2, <1>13, AddsAny, AddsIsEdits
  <2>2. opened \in Edits(ir, f.body)
    BY <1>2, <1>13, <1>15, <2>1, AddsIsEdits, EditsTwice
  <2>3. rewired \in Edits(ir, f.body)
    BY <1>2, <1>16, <2>2, EditsTwice
  <2> QED
    BY <1>2, <1>16, <1>17, <2>3, AddsIsEdits, EditsTwice
<1>20. Accepts(yielded) /\ Ready(yielded, Up)
  BY <1>2, <1>11, <1>19, AcceptsKept, ReadyKept
<1>21. Block(outer) \in 1 .. Len(yielded.args)
  <2>1. Len(ir.args) <= Len(yielded.args) /\ Len(yielded.args) \in Nat
    BY <1>17, <1>19, PartsType DEF Edits, Grows
  <2> QED
    BY <1>11, <1>12, <2>1
<1>22. ids \o initials \in Seq(Ids) /\ Len(ids \o initials) = Len(f.objs) + n
  BY <1>6, <1>13, ConcatProperties
<1>23. bounds.err # "none" => closed.err # "none"
  BY <1>15, <1>16, <1>17, RaisedStays
<1>24. ASSUME NEW op \in Operations, op.name = kind, op.operands = ids \o initials,
              op.regions = regions, Len(op.results) = n, op.attr = d, ~Refused(f, n)
       PROVE  Emits(yielded, op)
  <2>1. Len(yielded.args[op.regions[1]]) = d + n
    BY <1>10, <1>15, <1>16, <1>17, <1>24
  <2>2. CASE f.s.s = "parallel"
    <3>1. n = 0
      BY <1>4, <1>24, <2>2 DEF Refused
    <3>2. Len(op.operands) = 3 * d
      BY <1>7, <1>14, <1>22, <1>24, <2>2, <3>1
    <3>3. StructuredBody(yielded, op)
      BY <1>7, <1>10, <1>18, <1>24, <2>1, <3>1 DEF StructuredBody
    <3>4. EmitsParallel(yielded, op)
      BY <1>8, <1>24, <2>2, <3>2, <3>3 DEF EmitsParallel
    <3> QED
      BY <1>9, <1>17, <1>24, <2>2, <3>4, EmitsByName
  <2>3. CASE f.s.s \in {"serial", "pipelined"}
    <3>1. d = 1 /\ Len(op.operands) = 3 + n
      BY <1>7, <1>14, <1>22, <1>24, <2>3
    <3>2. EmitsFor(yielded, op)
      BY <1>4, <1>24, <2>1, <3>1 DEF EmitsFor
    <3> QED
      BY <1>9, <1>17, <1>24, <2>3, <3>2, EmitsByName
  <2> QED
    BY <1>9, <2>2, <2>3
<1>25. ASSUME ir'.err = "none" PROVE Accepts(ir') /\ Ready(ir', Up)
  <2>1. raised.err # "none"
    BY <1>13, RaiseType
  <2>2. ir' = closed /\ ~Refused(f, n)
    BY <1>5, <1>23, <1>25, <2>1
  <2>3. closed.err = "none"
    BY <1>25, <2>2
  <2> HIDE DEF raised
  <2> DEFINE b == Block(outer)
             operands == ids \o initials
  <2>4. /\ b \in 1 .. Len(yielded.args) /\ operands \in Seq(Ids)
        /\ AppendOp(yielded, b, kind, operands, n, regions, d).err = "none"
        /\ kind \in Bodied => Len(regions) = 1
    BY <1>10, <1>21, <1>22, <2>3
  <2>5. \A op \in Operations :
          /\ op.name = kind /\ op.operands = operands /\ op.regions = regions
          /\ Len(op.results) = n /\ op.attr = d
          => Emits(yielded, op)
    BY <1>24, <2>2
  <2>6. closed = AppendOp(yielded, b, kind, operands, n, regions, d)
    OBVIOUS
  <2> HIDE DEF b, operands, closed
  <2>7. Accepts(closed) /\ Ready(closed, Up)
    BY <1>4, <1>7, <1>9, <1>10, <1>17, <1>20, <2>4, <2>5, <2>6, AppendOpAccepts
  <2> QED
    BY <2>2, <2>7
<1> QED
  BY <1>1, <1>2, <1>25 DEF EInv

(***************************************************************************)
(* The invariant, and what it says.                                         *)
(***************************************************************************)
(* Nothing is traced yet.                                                   *)
LEMMA InitEmit == Init => EInv
<1> SUFFICES ASSUME Init PROVE EInv
  OBVIOUS
<1> DEFINE none == <<>>
<1>1. ir.ops = none /\ frames = none /\ Len(none) = 0 /\ DOMAIN none = {}
  BY EmptySeq DEF Init
<1> HIDE DEF none
<1>2. Accepts(ir)
  BY <1>1 DEF Accepts, RegionEmits, OpsOf
<1>3. Ready(ir, frames)
  BY <1>1 DEF Ready
<1> QED
  BY <1>2, <1>3, InitInv DEF EInv

(* Every step keeps it.                                                     *)
LEMMA NextEmit == EInv /\ [Next]_vars => EInv'
<1> SUFFICES ASSUME EInv, [Next]_vars PROVE EInv'
  OBVIOUS
<1>1. ASSUME UNCHANGED vars PROVE EInv'
  <2>1. ir' = ir /\ frames' = frames
    BY <1>1 DEF vars
  <2>2. Inv'
    BY NextInv DEF EInv
  <2> QED
    BY <2>1, <2>2 DEF EInv
<1>2. ASSUME NEW st \in Menu,
             \/ Assign(st) \/ TupleAssign(st) \/ AugAssign(st)
             \/ AssignSlice(st) \/ AugAssignSlice(st) \/ Return(st)
             \/ EnterFor(st) \/ EnterIf(st) \/ EnterWhile(st) \/ EnterKernel(st)
             \/ SkipRest(st) \/ AbandonLoop(st)
      PROVE  EInv'
  <2>1. CASE \/ Assign(st) \/ TupleAssign(st) \/ AugAssign(st)
             \/ AssignSlice(st) \/ AugAssignSlice(st) \/ Return(st)
    BY <2>1, AssignEmit, TupleAssignEmit, AugAssignEmit, AssignSliceEmit, AugAssignSliceEmit,
       ReturnEmit
  <2>2. CASE EnterFor(st) \/ EnterIf(st) \/ EnterWhile(st) \/ EnterKernel(st)
    BY <2>2, EnterForEmit, EnterIfEmit, EnterWhileEmit, EnterKernelEmit
  <2>3. CASE SkipRest(st) \/ AbandonLoop(st)
    BY <2>3, SkipRestEmit, AbandonLoopEmit
  <2> QED
    BY <1>2, <2>1, <2>2, <2>3
<1>3. ASSUME ExitFor \/ EnterElse \/ ExitIf \/ ExitWhile \/ ExitKernel PROVE EInv'
  BY <1>3, ExitForEmit, EnterElseEmit, ExitIfEmit, ExitWhileEmit, ExitKernelEmit
<1> QED
  BY <1>1, <1>2, <1>3 DEF Next, Stop

(* Every operation of the trace passes, and so does the kernel body.        *)
LEMMA InvAccepts == EInv => EmitterAccepts
<1> SUFFICES ASSUME EInv, ir.err = "none" PROVE EmitterAccepts
  BY DEF EmitterAccepts
<1>1. Accepts(ir) /\ DOMAIN ir.ops = 1 .. Len(ir.ops)
  BY EmitRunning, PartsType
<1> QED
  BY <1>1 DEF Accepts, Accepted, EmitterAccepts

(* The emitter's structural errors are out of reach of a trace: whatever    *)
(* the kernel's source, as long as the Builder did not raise, MLIREmitter   *)
(* finds every operation with the rank, the operands, the block arguments   *)
(* and the regions that its handler checks, and no region but a loop's and  *)
(* a while's test ends in a terminator that it does not handle.             *)
THEOREM TracesAreAccepted == Spec => []EmitterAccepts
<1>1. Init => EInv
  BY InitEmit
<1>2. EInv /\ [Next]_vars => EInv'
  BY NextEmit
<1>3. EInv => EmitterAccepts
  BY InvAccepts
<1> QED
  BY <1>1, <1>2, <1>3, PTL DEF Spec

(***************************************************************************)
(* What a step may never do to the operations that are there. The blocks    *)
(* that _replace_region_uses visits are found by a recursion from the loop  *)
(* down, the blocks a block is nested in by one from the block up; that the *)
(* loop is among the latter is shown by induction along the first.          *)
(***************************************************************************)
(* A set of naturals that are bounded has a least one.                      *)
LEMMA LeastOf ==
    ASSUME NEW M \in Nat, NEW B \in SUBSET (0 .. M), B # {}
    PROVE  \E n \in B : \A m \in B : n <= m
<1>1. B \in SUBSET Int /\ IsFiniteSet(B)
  <2>1. IsFiniteSet(0 .. M) /\ 0 .. M \subseteq Int
    BY FS_Interval
  <2>2. B \subseteq 0 .. M
    OBVIOUS
  <2>3. IsFiniteSet(B)
    BY <2>1, <2>2, FS_Subset
  <2> QED
    BY <2>1, <2>2, <2>3
<1>2. 1 \in 1 .. Cardinality(B)
  <2>1. Cardinality(B) \in Nat /\ Cardinality(B) # 0
    BY <1>1, FS_CardinalityType, FS_EmptySet
  <2> QED
    BY <2>1
<1> DEFINE j == Nth(B, 1)
           below == {i \in B : i <= j}
<1>3. j \in B /\ Cardinality(below) = 1
  BY <1>1, <1>2, NthType DEF Rank
<1> HIDE DEF j
<1>4. IsFiniteSet(below) /\ j \in below
  BY <1>1, <1>3, FS_Subset
<1>5. \A m \in below : m = j
  <2>1. IsFiniteSet({j}) /\ Cardinality({j}) = 1 /\ {j} \subseteq below
    BY <1>4, FS_Singleton
  <2>2. {j} = below
    BY <1>3, <1>4, <2>1, FS_Subset
  <2> QED
    BY <2>2
<1>6. \A m \in B : j <= m
  BY <1>1, <1>3, <1>5
<1> QED
  BY <1>3, <1>6

(* So a set that holds a natural whenever it holds those below it holds all *)
(* of them, up to any bound.                                                *)
LEMMA Ascent ==
    ASSUME NEW M \in Nat, NEW G,
           \A m \in 0 .. M : (\A k \in 0 .. M : k < m => k \in G) => m \in G
    PROVE  \A m \in 0 .. M : m \in G
<1> DEFINE B == {m \in 0 .. M : m \notin G}
<1> SUFFICES ASSUME B # {} PROVE FALSE
  OBVIOUS
<1>1. PICK n \in B : \A m \in B : n <= m
  BY LeastOf
<1>2. \A k \in 0 .. M : k < n => k \in G
  BY <1>1
<1> QED
  BY <1>1, <1>2

(* g is the set of all that is reached through P, to smaller ranks only.    *)
Reaches(S, rk, P, g) ==
    g = [c \in S |-> {c} \cup UNION {g[d] : d \in {e \in P[c] : rk[e] < rk[c]}}]

(* A recursive definition over elements of smaller and smaller rank defines *)
(* a function.                                                              *)
LEMMA ReachesExists ==
    ASSUME NEW S, NEW M \in Nat, NEW rk \in [S -> 0 .. M], NEW P \in [S -> SUBSET S]
    PROVE  \E g : Reaches(S, rk, P, g)
<1> DEFINE U(m) == {c \in S : rk[c] <= m}
           G == {m \in 0 .. M : \E g : Reaches(U(m), rk, P, g)}
<1>1. ASSUME NEW m \in 0 .. M, \A k \in 0 .. M : k < m => k \in G
      PROVE  m \in G
  <2> DEFINE V == {c \in S : rk[c] < m}
             f(g, c) == {c} \cup UNION {g[d] : d \in {e \in P[c] : rk[e] < rk[c]}}
  <2>1. PICK g : g = [c \in V |-> f(g, c)]
    <3>1. CASE m = 0
      <4>1. V = {}
        BY <3>1
      <4> DEFINE h == [c \in V |-> {c}]
      <4>2. h = [c \in V |-> f(h, c)]
        BY <4>1
      <4> QED
        BY <4>2
    <3>2. CASE m # 0
      <4>1. m - 1 \in 0 .. M /\ m - 1 < m
        BY <3>2
      <4>2. m - 1 \in G
        BY <1>1, <4>1
      <4>3. PICK h : h = [c \in U(m - 1) |-> f(h, c)]
        BY <4>2 DEF Reaches
      <4>4. U(m - 1) = V
        BY <4>1
      <4> QED
        BY <4>3, <4>4
    <3> QED
      BY <3>1, <3>2
  <2> DEFINE h == [c \in U(m) |-> f(g, c)]
  <2>2. \A d \in V : h[d] = g[d]
    <3>1. \A d \in V : d \in U(m) /\ g[d] = f(g, d)
      BY <2>1
    <3> QED
      BY <3>1
  <2>3. \A c \in U(m) : \A e \in P[c] : rk[e] < rk[c] => e \in V
    OBVIOUS
  <2>4. \A c \in U(m) : f(h, c) = f(g, c)
    <3> TAKE c \in U(m)
    <3>1. \A d \in {e \in P[c] : rk[e] < rk[c]} : h[d] = g[d]
      BY <2>2, <2>3
    <3> HIDE DEF h
    <3> QED
      BY <3>1
  <2>5. h = [c \in U(m) |-> f(h, c)]
    <3> HIDE DEF f, U
    <3> QED
      BY <2>4
  <2> QED
    BY <2>5 DEF Reaches
<1>2. M \in G
  <2>1. M \in 0 .. M
    OBVIOUS
  <2> HIDE DEF G
  <2> QED
    BY <1>1, <2>1, Ascent
<1>3. U(M) = S
  OBVIOUS
<1> QED
  BY <1>2, <1>3

(* The blocks that block c hangs from: of the operation that has it as a    *)
(* region, or the one in which the generator that holds it was started.     *)
HangsFrom(c) == {ir.ops[k].blk : k \in {m \in DOMAIN ir.ops :
                    \E j \in DOMAIN ir.ops[m].regions : ir.ops[m].regions[j] = c}}
                  \cup {ir.stack[k] : k \in {m \in DOMAIN frames :
                           c \in {frames[m].body, frames[m].other}}}

(* They are blocks.                                                         *)
LEMMA HangsFromBlocks ==
    ASSUME TypeOK, Len(ir.stack) = Len(frames) + 1, NEW c, NEW e \in HangsFrom(c)
    PROVE  e \in Blocks
<1>1. /\ ir \in IRs /\ ir.stack \in Seq(Blocks) /\ frames \in Seq(Frames)
      /\ Len(ir.stack) = Len(frames) + 1
      /\ \A k \in DOMAIN ir.ops : ir.ops[k].blk \in Blocks
  BY PartsType DEF TypeOK, IRs, Operations
<1>2. \A m \in DOMAIN frames : m \in 1 .. Len(ir.stack)
  BY <1>1, LenProperties
<1>3. \A m \in 1 .. Len(ir.stack) : ir.stack[m] \in Blocks
  BY <1>1, ElementOfSeq
<1> QED
  BY <1>1, <1>2, <1>3 DEF HangsFrom

(* A block is above itself, and what is above those it hangs from is too.   *)
LEMMA AboveIs ==
    ASSUME TypeOK, Len(ir.stack) = Len(frames) + 1
    PROVE  \A c \in 1 .. Len(ir.args) :
             Above(c) = {c} \cup UNION {Above(d) : d \in {e \in HangsFrom(c) : e < c}}
<1> DEFINE L == Len(ir.args)
           S == 1 .. L
           Up1(up) == up = [c \in S |-> {c} \cup UNION {up[d] : d \in {e \in HangsFrom(c) : e < c}}]
<1>1. ir \in IRs /\ L \in Nat
  BY PartsType DEF TypeOK
<1>2. \A c \in S : \A e \in HangsFrom(c) : e \in Blocks
  BY HangsFromBlocks
<1>3. \E up : Up1(up)
  <2> DEFINE rk == [c \in S |-> c]
             P == [c \in S |-> {e \in HangsFrom(c) : e < c}]
  <2>1. rk \in [S -> 0 .. L] /\ P \in [S -> SUBSET S]
    BY <1>1, <1>2 DEF Blocks
  <2>2. PICK g : Reaches(S, rk, P, g)
    BY <1>1, <2>1, ReachesExists
  <2>3. \A c \in S : {e \in P[c] : rk[e] < rk[c]} = {e \in HangsFrom(c) : e < c}
    BY <2>1
  <2>4. g = [c \in S |-> {c} \cup UNION {g[d] : d \in {e \in P[c] : rk[e] < rk[c]}}]
    BY <2>2 DEF Reaches
  <2> HIDE DEF rk, P, S
  <2>5. g = [c \in S |-> {c} \cup UNION {g[d] : d \in {e \in HangsFrom(c) : e < c}}]
    BY <2>3, <2>4
  <2> QED
    BY <2>5
<1>4. PICK up : Up1(up) /\ \A b : Above(b) = up[b]
  BY <1>3 DEF Above, HangsFrom
<1>5. \A c \in S : \A d \in {e \in HangsFrom(c) : e < c} : d \in S
  BY <1>1, <1>2 DEF Blocks
<1> HIDE DEF S
<1>6. \A c \in S : up[c] = {c} \cup UNION {up[d] : d \in {e \in HangsFrom(c) : e < c}}
  BY <1>4
<1>7. \A b : Above(b) = up[b]
  BY <1>4
<1> HIDE DEF Up1
<1>8. ASSUME NEW c \in S
      PROVE  Above(c) = {c} \cup UNION {Above(d) : d \in {e \in HangsFrom(c) : e < c}}
  <2>1. {Above(d) : d \in {e \in HangsFrom(c) : e < c}} = {up[d] : d \in {e \in HangsFrom(c) : e < c}}
    BY <1>7
  <2> QED
    BY <1>6, <1>7, <1>8, <2>1
<1> QED
  BY <1>8 DEF S

(* What is above a block that is above another is above that too.           *)
LEMMA AboveTwice ==
    ASSUME TypeOK, ir.err = "none"
    PROVE  \A e \in 1 .. Len(ir.args) : \A d \in 1 .. Len(ir.args) :
             d \in Above(e) => Above(d) \subseteq Above(e)
<1> DEFINE L == Len(ir.args)
           G == {e \in 0 .. L : e # 0 => \A d \in 1 .. L : d \in Above(e) => Above(d) \subseteq Above(e)}
<1>1. L \in Nat /\ ir \in IRs
  BY PartsType DEF TypeOK
<1>2. \A c \in 1 .. L : Above(c) = {c} \cup UNION {Above(d) : d \in {e \in HangsFrom(c) : e < c}}
  BY Running, AboveIs
<1>3. ASSUME NEW c \in 1 .. L, NEW e \in HangsFrom(c), e < c
      PROVE  e \in 1 .. L
  BY <1>1, <1>3, Running, HangsFromBlocks DEF Blocks
<1> HIDE DEF L
<1>4. ASSUME NEW e \in 0 .. L, \A k \in 0 .. L : k < e => k \in G
      PROVE  e \in G
  <2> SUFFICES ASSUME e # 0, NEW d \in 1 .. L, d \in Above(e) PROVE Above(d) \subseteq Above(e)
    OBVIOUS
  <2>1. CASE d = e
    BY <2>1
  <2>2. CASE d # e
    <3>1. e \in 1 .. L
      BY <1>1
    <3>2. PICK u \in HangsFrom(e) : u < e /\ d \in Above(u)
      BY <1>2, <2>2, <3>1
    <3>3. u \in 1 .. L /\ u \in 0 .. L /\ u # 0
      BY <1>1, <1>3, <3>1, <3>2
    <3>4. Above(d) \subseteq Above(u)
      BY <1>4, <3>2, <3>3
    <3>5. Above(u) \subseteq Above(e)
      BY <1>2, <3>1, <3>2
    <3> QED
      BY <3>4, <3>5
  <2> QED
    BY <2>1, <2>2
<1>5. \A e \in 0 .. L : e \in G
  <2> HIDE DEF G
  <2> QED
    BY <1>1, <1>4, Ascent
<1> QED
  BY <1>1, <1>5 DEF L

(* The region of a loop is above every block that _replace_region_uses      *)
(* visits from it.                                                          *)
LEMMA SubtreeAbove ==
    ASSUME TypeOK, ir.err = "none", Tree(ir), NEW r, Len(r.args) = Len(ir.args),
           \A c : Children(r, c) = Children(ir, c),
           NEW b \in 1 .. Len(ir.args), NEW v \in Subtree(r, b)
    PROVE  b \in Above(v)
<1> DEFINE L == Len(ir.args)
           S == b .. L
           Down(sub) == sub = [c \in S |-> {c} \cup UNION {sub[d] : d \in {e \in Children(ir, c) : e > c}}]
<1>1. ir \in IRs /\ L \in Nat /\ b \in Nat /\ S \subseteq 1 .. L /\ b \in S /\ S \subseteq Nat
  BY PartsType DEF TypeOK
<1>2. \A c : \A e \in Children(ir, c) : e \in 2 .. L /\ c \in HangsFrom(e)
  <2> TAKE c
  <2> TAKE e \in Children(ir, c)
  <2>1. PICK k \in DOMAIN ir.ops : /\ ir.ops[k].blk = c
                                  /\ \E j \in DOMAIN ir.ops[k].regions : ir.ops[k].regions[j] = e
    BY DEF Children, OpsOf
  <2>2. k \in 1 .. Len(ir.ops)
    BY <1>1, PartsType
  <2>3. e \in 2 .. L
    BY <2>1, <2>2 DEF Tree
  <2>4. c \in HangsFrom(e)
    BY <2>1 DEF HangsFrom
  <2> QED
    BY <2>3, <2>4
<1>3. \A c \in S : \A d \in {e \in Children(ir, c) : e > c} : d \in S
  BY <1>1, <1>2
<1>4. \E sub : Down(sub)
  <2> DEFINE rk == [c \in S |-> L - c]
             P == [c \in S |-> {e \in Children(ir, c) : e > c}]
  <2>1. rk \in [S -> 0 .. L] /\ P \in [S -> SUBSET S]
    BY <1>1, <1>3
  <2>2. PICK g : Reaches(S, rk, P, g)
    BY <1>1, <2>1, ReachesExists
  <2>3. \A c \in S : {e \in P[c] : rk[e] < rk[c]} = {e \in Children(ir, c) : e > c}
    BY <1>1, <1>3
  <2>4. g = [c \in S |-> {c} \cup UNION {g[d] : d \in {e \in P[c] : rk[e] < rk[c]}}]
    BY <2>2 DEF Reaches
  <2> HIDE DEF rk, P, S
  <2>5. g = [c \in S |-> {c} \cup UNION {g[d] : d \in {e \in Children(ir, c) : e > c}}]
    BY <2>3, <2>4
  <2> QED
    BY <2>5
<1> DEFINE Down0(sub) == sub = [c \in b .. Len(r.args) |->
                                {c} \cup UNION {sub[d] : d \in {e \in Children(r, c) : e > c}}]
<1>5. PICK sub : Down(sub) /\ Subtree(r, b) = sub[b]
  <2>1. ASSUME NEW sub PROVE Down(sub) <=> Down0(sub)
    <3> DEFINE f(c) == {c} \cup UNION {sub[d] : d \in {e \in Children(ir, c) : e > c}}
               g(c) == {c} \cup UNION {sub[d] : d \in {e \in Children(r, c) : e > c}}
    <3>1. \A c \in S : f(c) = g(c)
      OBVIOUS
    <3> HIDE DEF f, g
    <3>2. [c \in S |-> f(c)] = [c \in b .. Len(r.args) |-> g(c)]
      BY <3>1
    <3> QED
      BY <3>2 DEF f, g
  <2>2. \E sub : Down0(sub)
    BY <1>4, <2>1
  <2>3. \E sub : Down0(sub) /\ Subtree(r, b) = sub[b]
    BY <2>2 DEF Subtree
  <2> QED
    BY <2>1, <2>3
<1> HIDE DEF S
<1>6. \A c \in S : sub[c] = {c} \cup UNION {sub[d] : d \in {e \in Children(ir, c) : e > c}}
  BY <1>5
<1>7. Subtree(r, b) = sub[b]
  BY <1>5
<1>8. \A c \in 1 .. L : Above(c) = {c} \cup UNION {Above(d) : d \in {e \in HangsFrom(c) : e < c}}
  BY Running, AboveIs
<1>9. \A e \in 1 .. L : \A d \in 1 .. L : d \in Above(e) => Above(d) \subseteq Above(e)
  BY AboveTwice
<1> HIDE DEF Down, L
<1> DEFINE G == {m \in 0 .. L : \A c \in S : c = L - m =>
                    \A e \in sub[c] : e \in 1 .. L /\ c \in Above(e)}
<1>10. ASSUME NEW m \in 0 .. L, \A k \in 0 .. L : k < m => k \in G
       PROVE  m \in G
  <2> SUFFICES ASSUME NEW c \in S, c = L - m, NEW e \in sub[c] PROVE e \in 1 .. L /\ c \in Above(e)
    OBVIOUS
  <2>1. c \in 1 .. L
    BY <1>1
  <2>2. CASE e = c
    BY <1>8, <2>1, <2>2
  <2>3. CASE e # c
    <3>1. PICK d \in Children(ir, c) : d > c /\ e \in sub[d]
      BY <1>6, <2>3
    <3>2. d \in S /\ d \in 1 .. L /\ c \in HangsFrom(d)
      BY <1>1, <1>2, <1>3, <3>1
    <3>3. e \in 1 .. L /\ d \in Above(e)
      <4>1. L - d \in 0 .. L /\ L - d < m /\ d = L - (L - d)
        BY <1>1, <2>1, <3>1, <3>2
      <4>2. L - d \in G
        BY <1>10, <4>1
      <4> QED
        BY <3>1, <3>2, <4>1, <4>2
    <3>4. c \in Above(c) /\ c \in Above(d)
      BY <1>1, <1>8, <2>1, <3>1, <3>2
    <3>5. c \in Above(e)
      BY <1>9, <3>2, <3>3, <3>4
    <3> QED
      BY <3>3, <3>5
  <2> QED
    BY <2>2, <2>3
<1>11. \A m \in 0 .. L : m \in G
  <2> HIDE DEF G
  <2> QED
    BY <1>1, <1>10, Ascent
<1>12. L - b \in 0 .. L /\ b = L - (L - b)
  BY <1>1
<1> QED
  BY <1>1, <1>7, <1>11, <1>12

(* What a rewired use was, and what it is now.                              *)
LEMMA RedirectsTo ==
    ASSUME NEW olds \in Seq(Ids), NEW news \in Seq(Ids), Len(news) = Len(olds), NEW v \in Ids,
           Redirect(v, olds, news) # v
    PROVE  \E i \in 1 .. Len(olds) : olds[i] = v /\ Redirect(v, olds, news) = news[i]
<1> DEFINE at == {i \in DOMAIN olds : olds[i] = v}
<1>1. DOMAIN olds = 1 .. Len(olds) /\ Len(olds) \in Nat
  BY LenProperties
<1>2. IsFiniteSet(at) /\ at \in SUBSET Int
  <2>1. IsFiniteSet(1 .. Len(olds)) /\ at \in SUBSET (1 .. Len(olds))
    BY <1>1, FS_Interval
  <2> QED
    BY <2>1, FS_Subset
<1>3. at # {} /\ Redirect(v, olds, news) = news[Nth(at, 1)]
  BY DEF Redirect
<1>4. Nth(at, 1) \in at
  <2> HIDE DEF at
  <2>1. Cardinality(at) \in Nat \ {0}
    BY <1>2, <1>3, FS_EmptySet, FS_CardinalityType
  <2>2. 1 \in 1 .. Cardinality(at)
    BY <2>1
  <2> QED
    BY <1>2, <2>2, NthType
<1> QED
  BY <1>1, <1>3, <1>4

(* A rewired operation differs in its operands only.                        *)
LEMMA RewiredOnly ==
    ASSUME NEW op \in Operations, NEW olds \in Seq(Ids), NEW news \in Seq(Ids),
           Len(news) = Len(olds)
    PROVE  LET new == Rewired(op, olds, news)
           IN  /\ new = [op EXCEPT !.operands = new.operands]
               /\ \A j \in DOMAIN op.operands : new.operands[j] # op.operands[j] =>
                    \E i \in 1 .. Len(olds) : /\ olds[i] = op.operands[j]
                                              /\ new.operands[j] = news[i]
<1> DEFINE rewired == [j \in DOMAIN op.operands |-> Redirect(op.operands[j], olds, news)]
           new == Rewired(op, olds, news)
<1>1. new = [op EXCEPT !.operands = rewired]
  BY DEF Rewired
<1> HIDE DEF rewired
<1>2. new = [op EXCEPT !.operands = new.operands]
  BY <1>1 DEF Operations
<1>3. ASSUME NEW j \in DOMAIN op.operands, new.operands[j] # op.operands[j]
      PROVE  \E i \in 1 .. Len(olds) : olds[i] = op.operands[j] /\ new.operands[j] = news[i]
  <2>1. op.operands[j] \in Ids
    <3>1. op.operands \in Seq(Ids)
      BY DEF Operations
    <3> QED
      BY <3>1, LenProperties, ElementOfSeq
  <2>2. new.operands[j] = Redirect(op.operands[j], olds, news)
    BY RewiredType
  <2> QED
    BY <1>3, <2>1, <2>2, RedirectsTo
<1> QED
  BY <1>2, <1>3

(* The initial value of a name that a loop carries is a Value.              *)
LEMMA CarriedInitial ==
    ASSUME NEW r \in IRs, NEW before \in Scopes, NEW now \in Scopes
    PROVE  LET names == Pick(before.order, Carried(r, before, now))
           IN  \A j \in 1 .. Len(names) :
                 /\ names[j] \in Names
                 /\ before.at[names[j]] = Val(before.at[names[j]].n)
<1> DEFINE C == Carried(r, before, now)
           names == Pick(before.order, C)
<1>1. before.order \in Seq(Names) /\ before.at \in [Names -> Objs]
  BY DEF Scopes
<1>2. C \in SUBSET DOMAIN before.order /\ \A j \in C : IsVal(before.at[before.order[j]])
  BY DEF Carried
<1> HIDE DEF C
<1>3. \A j \in 1 .. Len(names) : Nth(C, j) \in C /\ names[j] = before.order[Nth(C, j)]
  BY <1>1, <1>2, PickType
<1>4. \A j \in 1 .. Len(names) : names[j] \in Names
  BY <1>1, <1>2, <1>3, LenProperties, ElementOfSeq
<1> HIDE DEF names
<1>5. \A o \in Objs : IsVal(o) => o = Val(o.n)
  BY DEF Objs, IsVal, Val, Unbound
<1> QED
  BY <1>1, <1>2, <1>3, <1>4, <1>5 DEF names, C

(* Which blocks are below a block depends on the operations only.           *)
LEMMA ChildrenSame ==
    ASSUME NEW r, NEW e, e.ops = r.ops, NEW c
    PROVE  Children(e, c) = Children(r, c)
<1>1. OpsOf(e, c) = OpsOf(r, c)
  BY DEF OpsOf
<1> DEFINE ops == r.ops
           from == OpsOf(r, c)
<1>2. /\ Children(e, c) = UNION {{ops[k].regions[j] : j \in DOMAIN ops[k].regions} : k \in from}
      /\ Children(r, c) = UNION {{ops[k].regions[j] : j \in DOMAIN ops[k].regions} : k \in from}
  BY <1>1 DEF Children
<1> QED
  BY <1>2

(* The regions of the operations in a block, when some were added.          *)
LEMMA ChildrenKept ==
    ASSUME NEW r \in IRs, NEW e \in Adds(r, 0), NEW c
    PROVE  Children(e, c) = Children(r, c)
<1>1. /\ DOMAIN r.ops = 1 .. Len(r.ops) /\ DOMAIN e.ops = 1 .. Len(e.ops)
      /\ Len(r.ops) \in Nat /\ Len(e.ops) \in Nat
  BY PartsType DEF Adds
<1>2. /\ Len(r.ops) <= Len(e.ops)
      /\ \A k \in 1 .. Len(r.ops) : e.ops[k] = r.ops[k]
      /\ \A k \in Len(r.ops) + 1 .. Len(e.ops) : e.ops[k].regions = <<>>
  BY DEF Adds, Grows, Adding
<1>3. ASSUME NEW d \in Children(e, c) PROVE d \in Children(r, c)
  <2>1. PICK k \in OpsOf(e, c) : \E j \in DOMAIN e.ops[k].regions : d = e.ops[k].regions[j]
    BY DEF Children
  <2>2. k \in 1 .. Len(e.ops) /\ e.ops[k].blk = c
    BY <1>1 DEF OpsOf
  <2>3. k \in 1 .. Len(r.ops)
    <3> SUFFICES ASSUME k \in Len(r.ops) + 1 .. Len(e.ops) PROVE FALSE
      BY <1>1, <2>2
    <3>1. e.ops[k].regions = <<>>
      BY <1>2
    <3> QED
      BY <2>1, <3>1, EmptySeq
  <2> QED
    BY <1>1, <1>2, <2>1, <2>2, <2>3 DEF Children, OpsOf
<1>4. ASSUME NEW d \in Children(r, c) PROVE d \in Children(e, c)
  <2>1. PICK k \in OpsOf(r, c) : \E j \in DOMAIN r.ops[k].regions : d = r.ops[k].regions[j]
    BY DEF Children
  <2>2. k \in 1 .. Len(r.ops) /\ r.ops[k].blk = c /\ k \in 1 .. Len(e.ops) /\ e.ops[k] = r.ops[k]
    BY <1>1, <1>2, <2>1 DEF OpsOf
  <2> QED
    BY <1>1, <2>1, <2>2 DEF Children, OpsOf
<1> QED
  BY <1>3, <1>4

(* What the end of a loop that carries values may do to operation k.        *)
Rewires(k) ==
    /\ Top.s.s \in LoopKinds /\ frames' = Up
    /\ Top.body \in Above(ir.ops[k].blk)
    /\ ir'.ops[k] = [ir.ops[k] EXCEPT !.operands = ir'.ops[k].operands]
    /\ \A j \in DOMAIN ir.ops[k].operands :
         ir'.ops[k].operands[j] # ir.ops[k].operands[j] =>
           /\ \E l \in DOMAIN ir'.args[Top.body] :
                /\ ir'.args[Top.body][l] = ir'.ops[k].operands[j]
                /\ ir'.ops[k].operands[j] >= ir.next
           /\ \E x \in Names : Top.before.at[x] = Val(ir.ops[k].operands[j])

(* It rewires within the loop's body, from an initial value to an argument. *)
LEMMA ExitForRewires ==
    ASSUME EInv, ExitFor
    PROVE  /\ Len(ir.ops) <= Len(ir'.ops)
           /\ \A k \in 1 .. Len(ir.ops) : ir'.ops[k] # ir.ops[k] => Rewires(k)
<1> DEFINE f == Top
           names == Pick(f.before.order, Carried(ir, f.before, scope))
           n == Len(names)
           outer == PopRegion(ir)
           bounds == Ensure(outer, f.objs)
           initials == [j \in 1..n |-> f.before.at[names[j]].n]
           finals == [j \in 1..n |-> scope.at[names[j]].n]
           fresh == Fresh(bounds, n)
           opened == NewArgs(bounds, f.body, n)
           rewired == ReplaceRegionUses(opened, f.body, initials, fresh)
           yielded == YieldFinals(rewired, f.body, finals)
           ids == EnsureIds(outer, f.objs)
           operands == ids \o initials
           regions == <<f.body>>
           kind == LoopOp(f.s.s)
           d == Len(f.s.dst)
           b == Block(outer)
           closed == AppendOp(yielded, b, kind, operands, n, regions, d)
           raised == Raise(bounds, "parallelCarry")
<1>1. /\ ir.err = "none" /\ frames # <<>> /\ f.s.s \in LoopKinds /\ frames' = Up
      /\ ir' = CloseLoop(ir, f, names, scope)
  BY DEF ExitFor
<1>2. /\ TypeOK /\ ir \in IRs /\ Tree(ir) /\ scope \in Scopes /\ ir.stack # <<>>
      /\ frames \in Seq(Frames) /\ Nested(ir, frames) /\ ir.next \in Nat
      /\ f \in Frames /\ Len(frames) \in 1 .. Len(frames) /\ f = frames[Len(frames)]
      /\ Len(ir.ops) \in Nat /\ Len(ir.args) \in Nat
      /\ \A k \in 1 .. Len(ir.ops) : ir.ops[k] \in Operations
  BY <1>1, EmitRunning, TopType, PartsType DEF Top
<1>3. f.s \in Menu /\ f.body \in Blocks /\ f.objs \in Seq(Objs) /\ f.before \in Scopes
  BY <1>2 DEF Frames
<1>4. /\ n \in Nat
      /\ \A j \in 1..n : f.before.at[names[j]].n \in Ids /\ scope.at[names[j]].n \in Ids
  BY <1>2, <1>3, CarriedType
<1>5. \A j \in 1..n : names[j] \in Names /\ f.before.at[names[j]] = Val(f.before.at[names[j]].n)
  BY <1>2, <1>3, CarriedInitial
<1>6. ir' = raised \/ ir' = closed
  BY <1>1 DEF CloseLoop
<1> HIDE DEF names, n
<1>7. initials \in Seq(Ids) /\ finals \in Seq(Ids) /\ Len(initials) = n /\ Len(finals) = n
  <2>1. initials \in [1..n -> Ids] /\ finals \in [1..n -> Ids]
    BY <1>4
  <2> QED
    BY <1>4, <2>1, FunctionIsSeq
<1>8. \A i \in 1 .. n : \E x \in Names : f.before.at[x] = Val(initials[i])
  BY <1>5
<1>9. /\ kind \in OpNames /\ regions \in Seq(Blocks) /\ d \in Int
  BY <1>1, <1>3, LoopOpType, StatementType, LenProperties
<1>10. f.body \in 1 .. Len(ir.args)
  <2>1. f.body \in Held(f)
    BY DEF Held
  <2>2. f.body \in 2 .. Len(ir.args)
    BY <1>2, <2>1 DEF Nested
  <2> QED
    BY <2>2
<1> HIDE DEF f, initials, finals, regions, kind, d
<1>11. /\ outer \in Standing /\ outer \in IRs /\ outer \in Adds(ir, 0) /\ outer.stack # <<>>
       /\ outer.args = ir.args /\ outer.next = ir.next /\ b \in Blocks
  <2>1. /\ outer \in Standing /\ outer \in IRs /\ outer \in Adds(ir, 0) /\ outer.stack # <<>>
        /\ outer.args = ir.args
    BY <1>1, PoppedStands
  <2>2. outer.next = ir.next
    BY <1>2, PopRegionType
  <2> QED
    BY <2>1, <2>2, BlockType
<1> HIDE DEF outer, b
<1>12. /\ bounds \in IRs /\ bounds \in Adds(ir, 0) /\ bounds.args = ir.args
       /\ bounds.next \in Nat /\ ir.next <= bounds.next /\ operands \in Seq(Ids)
  <2>1. bounds \in Adds(ir, 0)
    BY <1>2, <1>3, <1>11, EnsureAdds, AddsTwice
  <2>2. bounds \in IRs /\ bounds.args = ir.args /\ ids \in Seq(Ids)
    BY <1>3, <1>11, EnsureType, EnsureIdsType DEF Emitted
  <2>3. operands \in Seq(Ids)
    BY <1>7, <2>2, ConcatProperties
  <2>4. bounds.next \in Nat /\ outer.next <= bounds.next
    BY <1>3, <1>11, EnsureNext
  <2> QED
    BY <1>2, <1>11, <2>1, <2>2, <2>3, <2>4
<1> HIDE DEF bounds, operands
<1>13. /\ fresh \in Seq(Ids) /\ Len(fresh) = n
       /\ \A i \in 1 .. n : fresh[i] = bounds.next + i - 1
  BY <1>4, <1>12, FreshType
<1>14. /\ opened \in IRs /\ opened.ops = bounds.ops /\ Len(opened.args) = Len(ir.args)
       /\ opened.args[f.body] = bounds.args[f.body] \o fresh
  <2>1. f.body \in 1 .. Len(bounds.args) /\ bounds \in IRs /\ n \in Nat
    BY <1>4, <1>10, <1>12
  <2>2. opened.args[f.body] = bounds.args[f.body] \o fresh
    BY <2>1, NewArgsAdds, Zenon
  <2>3. opened \in IRs /\ opened.ops = bounds.ops /\ Len(opened.args) = Len(bounds.args)
    BY <2>1, NewArgsType, Zenon
  <2> QED
    BY <1>12, <2>2, <2>3, Zenon
<1> HIDE DEF fresh
<1> HIDE DEF opened
<1>15. \A c : Children(opened, c) = Children(ir, c)
  <2>1. \A c : Children(bounds, c) = Children(ir, c)
    BY <1>2, <1>12, ChildrenKept, Zenon
  <2>2. \A c : Children(opened, c) = Children(bounds, c)
    BY <1>14, ChildrenSame
  <2> QED
    BY <2>1, <2>2
<1>16. /\ Len(ir.ops) <= Len(opened.ops) /\ DOMAIN opened.ops = 1 .. Len(opened.ops)
       /\ Len(opened.ops) \in Nat /\ \A k \in 1 .. Len(ir.ops) : opened.ops[k] = ir.ops[k]
  BY <1>12, <1>14, PartsType DEF Adds, Grows
<1>17. /\ rewired \in IRs /\ rewired.args = opened.args /\ Len(rewired.ops) = Len(opened.ops)
       /\ \A k \in 1 .. Len(opened.ops) :
            \/ rewired.ops[k] = opened.ops[k]
            \/ /\ opened.ops[k].blk \in Subtree(opened, f.body)
               /\ rewired.ops[k] = Rewired(opened.ops[k], initials, fresh)
  <2>1. rewired \in Emitted(opened) /\ Len(rewired.ops) = Len(opened.ops)
    BY <1>7, <1>13, <1>14, ReplaceRegionUsesType
  <2>2. \A k \in 1 .. Len(opened.ops) :
            \/ rewired.ops[k] = opened.ops[k]
            \/ /\ opened.ops[k].blk \in Subtree(opened, f.body)
               /\ rewired.ops[k] = Rewired(opened.ops[k], initials, fresh)
    BY <1>14, <1>16 DEF ReplaceRegionUses, IRs
  <2> QED
    BY <2>1, <2>2 DEF Emitted
<1> HIDE DEF rewired
<1>18. /\ yielded \in IRs /\ yielded.args = rewired.args /\ Len(rewired.ops) <= Len(yielded.ops)
       /\ \A k \in 1 .. Len(rewired.ops) : yielded.ops[k] = rewired.ops[k]
  <2>1. f.body \in 1 .. Len(rewired.args)
    BY <1>10, <1>14, <1>17
  <2> QED
    BY <1>7, <1>17, <2>1, YieldFinalsAdds DEF Adds, Grows
<1> HIDE DEF yielded
<1>19. /\ closed.args = yielded.args /\ Len(yielded.ops) <= Len(closed.ops)
       /\ \A k \in 1 .. Len(yielded.ops) : closed.ops[k] = yielded.ops[k]
  <2>1. Len(yielded.ops) \in Nat
    BY <1>18, PartsType
  <2>2. /\ closed \in IRs /\ closed.args = yielded.args
        /\ \/ closed.ops = yielded.ops
           \/ /\ Len(closed.ops) = Len(yielded.ops) + 1
              /\ \A k \in 1 .. Len(yielded.ops) : closed.ops[k] = yielded.ops[k]
    BY <1>4, <1>9, <1>11, <1>12, <1>18, AppendOpLast
  <2> QED
    BY <2>1, <2>2
<1>20. raised.ops = bounds.ops
  BY <1>12 DEF Raise, IRs
<1> HIDE DEF closed, raised
<1>21. CASE ir' = raised
  BY <1>14, <1>16, <1>20, <1>21
<1>22. CASE ir' = closed
  <2>1. Len(ir.ops) <= Len(ir'.ops)
    <3>1. Len(yielded.ops) \in Nat /\ Len(rewired.ops) \in Nat
      BY <1>17, <1>18, PartsType
    <3>2. Len(closed.ops) \in Nat
      BY <1>2, <1>22, PartsType, ExitForInv DEF EInv, Inv, TypeOK
    <3> QED
      BY <1>2, <1>16, <1>17, <1>18, <1>19, <1>22, <3>1, <3>2
  <2>2. ASSUME NEW k \in 1 .. Len(ir.ops), ir'.ops[k] # ir.ops[k]
        PROVE  Rewires(k)
    <3> DEFINE op == ir.ops[k]
               new == ir'.ops[k]
    <3>1. new = rewired.ops[k] /\ opened.ops[k] = op /\ k \in 1 .. Len(opened.ops)
      <4>1. Len(yielded.ops) \in Nat /\ Len(rewired.ops) \in Nat
        BY <1>17, <1>18, PartsType
      <4>2. k \in 1 .. Len(opened.ops) /\ k \in 1 .. Len(rewired.ops) /\ k \in 1 .. Len(yielded.ops)
        BY <1>2, <1>16, <1>17, <1>18, <4>1
      <4> QED
        BY <1>16, <1>18, <1>19, <1>22, <4>2
    <3>2. op.blk \in Subtree(opened, f.body) /\ new = Rewired(op, initials, fresh)
      BY <1>17, <2>2, <3>1
    <3>3. f.body \in Above(op.blk)
      BY <1>1, <1>2, <1>10, <1>14, <1>15, <3>2, SubtreeAbove
    <3>4. op \in Operations
      BY <1>2
    <3> HIDE DEF op, new
    <3>5. new = [op EXCEPT !.operands = new.operands]
      BY <1>7, <1>13, <3>2, <3>4, RewiredOnly
    <3>6. ASSUME NEW j \in DOMAIN op.operands, new.operands[j] # op.operands[j]
          PROVE  /\ \E l \in DOMAIN ir'.args[f.body] :
                      ir'.args[f.body][l] = new.operands[j] /\ new.operands[j] >= ir.next
                 /\ \E x \in Names : f.before.at[x] = Val(op.operands[j])
      <4>1. PICK i \in 1 .. n : initials[i] = op.operands[j] /\ new.operands[j] = fresh[i]
        <5>1. /\ op \in Operations /\ initials \in Seq(Ids) /\ fresh \in Seq(Ids)
              /\ Len(fresh) = Len(initials)
          BY <1>7, <1>13, <3>4
        <5> DEFINE rew == Rewired(op, initials, fresh)
        <5>2. \A m \in DOMAIN op.operands : rew.operands[m] # op.operands[m] =>
                \E i \in 1 .. Len(initials) : /\ initials[i] = op.operands[m]
                                              /\ rew.operands[m] = fresh[i]
          BY <5>1, RewiredOnly, Zenon
        <5> HIDE DEF rew
        <5>3. new = rew
          BY <3>2 DEF rew
        <5> QED
          BY <1>7, <3>6, <5>2, <5>3
      <4>2. \E x \in Names : f.before.at[x] = Val(op.operands[j])
        BY <1>8, <4>1
      <4>3. fresh[i] >= ir.next
        BY <1>2, <1>4, <1>12, <1>13
      <4>4. ir'.args[f.body] = bounds.args[f.body] \o fresh
        BY <1>14, <1>17, <1>18, <1>19, <1>22
      <4>5. bounds.args[f.body] \in Seq(Ids)
        BY <1>10, <1>12, PartsType
      <4>6. \E l \in DOMAIN (bounds.args[f.body] \o fresh) : (bounds.args[f.body] \o fresh)[l] = fresh[i]
        <5> DEFINE old == bounds.args[f.body]
        <5>1. i \in 1 .. Len(fresh) /\ i \in Nat
          BY <1>4, <1>13
        <5> HIDE DEF old
        <5>2. (old \o fresh)[Len(old) + i] = fresh[i] /\ Len(old) + i \in DOMAIN (old \o fresh)
          <6>1. old \in Seq(Ids)
            BY <4>5 DEF old
          <6>2. /\ Len(old) \in Nat /\ Len(fresh) \in Nat
                /\ DOMAIN (old \o fresh) = 1 .. (Len(old) + Len(fresh))
                /\ (old \o fresh)[Len(old) + i] = fresh[i]
            <7>1. fresh \in Seq(Ids)
              BY <1>13
            <7>2. Len(old) \in Nat /\ Len(fresh) \in Nat
              BY <6>1, <7>1, LenProperties
            <7>3. DOMAIN (old \o fresh) = 1 .. (Len(old) + Len(fresh))
              BY <6>1, <7>1, ConcatParts
            <7>4. (old \o fresh)[Len(old) + i] = fresh[i]
              BY <5>1, <6>1, <7>1, ConcatParts
            <7> QED
              BY <7>2, <7>3, <7>4
          <6>3. Len(old) + i \in 1 .. (Len(old) + Len(fresh))
            BY <5>1, <6>2
          <6> QED
            BY <6>2, <6>3
        <5> QED
          BY <5>2 DEF old
      <4> QED
        BY <4>1, <4>2, <4>3, <4>4, <4>6
    <3> QED
      BY <1>1, <3>3, <3>5, <3>6 DEF Rewires, op, new, f
  <2> QED
    BY <2>1, <2>2
<1> QED
  BY <1>6, <1>21, <1>22

(* Nothing that a step does to the IR takes anything away, and it changes   *)
(* what is there only as _replace_region_uses does, on behalf of a loop     *)
(* that ends and carries values: only operations of the loop's body, at any *)
(* depth, only their operands, and each of these only from what a name was  *)
(* bound to before the loop to an argument that its body has just got.      *)
THEOREM TracesOnlyRewire == Spec => OnlyRewires
<1>1. EInv /\ [Next]_vars =>
        [ /\ Len(ir'.ops) >= Len(ir.ops)
          /\ \A k \in DOMAIN ir.ops : ir'.ops[k] # ir.ops[k] =>
               /\ Top.s.s \in LoopKinds /\ frames' = Up
               /\ Top.body \in Above(ir.ops[k].blk)
               /\ ir'.ops[k] = [ir.ops[k] EXCEPT !.operands = ir'.ops[k].operands]
               /\ \A j \in DOMAIN ir.ops[k].operands :
                    LET old == ir.ops[k].operands[j]
                        new == ir'.ops[k].operands[j]
                    IN  new # old =>
                          /\ \E l \in DOMAIN ir'.args[Top.body] :
                               ir'.args[Top.body][l] = new /\ new >= ir.next
                          /\ \E x \in Names : Top.before.at[x] = Val(old) ]_vars
  <2> SUFFICES ASSUME EInv, Next
               PROVE  /\ Len(ir'.ops) >= Len(ir.ops)
                      /\ \A k \in DOMAIN ir.ops : ir'.ops[k] # ir.ops[k] => Rewires(k)
    BY DEF Rewires
  <2>1. DOMAIN ir.ops = 1 .. Len(ir.ops) /\ Len(ir.ops) \in Nat
    BY PartsType DEF EInv, Inv, TypeOK
  <2>2. Len(ir'.ops) \in Nat
    BY NextType, PartsType DEF EInv, Inv, TypeOK
  <2>3. CASE Kept
    BY <2>1, <2>2, <2>3 DEF Kept
  <2>4. CASE ExitFor
    BY <2>1, <2>2, <2>4, ExitForRewires
  <2>5. CASE Stop
    BY <2>1, <2>5 DEF Stop, vars
  <2>6. Kept \/ ExitFor \/ Stop
    <3>1. ASSUME NEW st \in Menu,
                 \/ Assign(st) \/ TupleAssign(st) \/ AugAssign(st)
                 \/ AssignSlice(st) \/ AugAssignSlice(st) \/ Return(st)
                 \/ EnterFor(st) \/ EnterIf(st) \/ EnterWhile(st) \/ EnterKernel(st)
                 \/ SkipRest(st) \/ AbandonLoop(st)
          PROVE  Kept
      BY <3>1, AssignEmit, TupleAssignEmit, AugAssignEmit, AssignSliceEmit, AugAssignSliceEmit,
         ReturnEmit, EnterForEmit, EnterIfEmit, EnterWhileEmit, EnterKernelEmit, SkipRestEmit,
         AbandonLoopEmit
    <3>2. ASSUME EnterElse \/ ExitIf \/ ExitWhile \/ ExitKernel PROVE Kept
      BY <3>2, EnterElseEmit, ExitIfEmit, ExitWhileEmit, ExitKernelEmit
    <3> QED
      BY <3>1, <3>2 DEF Next
  <2> QED
    BY <2>3, <2>4, <2>5, <2>6
<1>2. Init => EInv
  BY InitEmit
<1>3. EInv /\ [Next]_vars => EInv'
  BY NextEmit
<1> QED
  BY <1>1, <1>2, <1>3, PTL DEF Spec, OnlyRewires
=============================================================================
