-------------------------- MODULE TracerUseProofs --------------------------
(***************************************************************************)
(* What the objects are that a trace handles, for every menu of statements  *)
(* and every bound: nothing that it appends uses a value before it exists   *)
(* (DefinedBeforeUse), and the Python local of a name differs from the      *)
(* binding of that name only where this is known (StaleLocals).             *)
(*                                                                          *)
(* DefinedBeforeUse is about the operations that are there. That the next   *)
(* one keeps it depends on where its operands come from: the scope, the     *)
(* locals, and what the suspended generators hold. The inductive invariant  *)
(* UseInv says that all of these know defined values only, until the trace  *)
(* raises.                                                                  *)
(*                                                                          *)
(* The excuses of StaleLocals are about operations and blocks, which later  *)
(* steps add to. Once makes the operation that defines an id its only       *)
(* maker for good (MadeOnce, MakersStay); Nested and Accepts keep the body  *)
(* of a kernel the same block while its generator becomes an operation      *)
(* (KernelBlocks), and no loop's, so that it gets no second argument        *)
(* (LoopIsNoKernel). UseInv says that the bindings that an excuse is about  *)
(* are there, and Binds that a loop turns no unbound name into a const.     *)
(***************************************************************************)
EXTENDS TracerEmitProofs

OpResults(r) == UNION {Results(r.ops[k]) : k \in DOMAIN r.ops}
Defined(r) == BlockArgs(r) \cup OpResults(r)

UsesDefined(r) ==
    \A k \in DOMAIN r.ops : \A v \in Operands(r.ops[k]) :
        v \in BlockArgs(r) \/ \E m \in 1..(k - 1) : v \in Results(r.ops[m])

(* The IRs that keep it, and those that r may grow into. Value 0 is what    *)
(* the buffer, and a name that is bound to nothing, count as.               *)
Good == {r \in IRs : UsesDefined(r) /\ 0 \in Defined(r)}
Grown(r) == {e \in IRs : /\ UsesDefined(e)
                         /\ Defined(r) \subseteq Defined(e)
                         /\ Len(r.args) <= Len(e.args)
                         /\ e.err = "none" => r.err = "none"}

(* The ids and the objects that may become operands of an operation of r.   *)
KnownIds(r) == {v \in Ids : r.err = "none" => v \in Defined(r)}
Known(r) == {o \in Objs : ~IsNum(o) => o.n \in KnownIds(r)}
KnownFrames(r) == {f \in Frames : /\ f.body <= Len(r.args)
                                  /\ f.objs \in Seq(Known(r))
                                  /\ f.before.at \in [Names -> Known(r)]}

UseInv ==
    /\ TypeOK
    /\ ir \in Good
    /\ scope.at \in [Names -> Known(ir)]
    /\ locals \in [Names -> Known(ir)]
    /\ frames \in Seq(KnownFrames(ir))

(***************************************************************************)
(* Growing.                                                                 *)
(***************************************************************************)
(* Growing may be nothing.                                                  *)
LEMMA GrownSelf ==
    ASSUME NEW r \in Good
    PROVE  r \in Grown(r)
<1>1. Len(r.args) \in Nat
  BY LenProperties DEF Good, IRs
<1> QED
  BY <1>1 DEF Good, Grown

(* An IR that r grew into can go on growing.                                *)
LEMMA GrownTwice ==
    ASSUME NEW r \in Good, NEW e \in Grown(r)
    PROVE  e \in Good /\ Grown(e) \subseteq Grown(r)
<1>1. \A q \in IRs : Len(q.args) \in Nat
  BY LenProperties DEF IRs
<1> QED
  BY <1>1 DEF Good, Grown

(* Known ids and objects stay known.                                        *)
LEMMA GrownKnown ==
    ASSUME NEW r \in Good, NEW e \in Grown(r)
    PROVE  KnownIds(r) \subseteq KnownIds(e) /\ Known(r) \subseteq Known(e)
BY DEF Grown, KnownIds, Known

(* So do the frames that hold them.                                         *)
LEMMA GrownFrames ==
    ASSUME NEW r \in Good, NEW e \in Grown(r)
    PROVE  KnownFrames(r) \subseteq KnownFrames(e)
<1> SUFFICES ASSUME NEW f \in KnownFrames(r) PROVE f \in KnownFrames(e)
  OBVIOUS
<1>1. Known(r) \subseteq Known(e)
  BY GrownKnown
<1>2. f.objs \in Seq(Known(e))
  BY <1>1 DEF KnownFrames
<1>3. f.before.at \in [Names -> Known(e)]
  BY <1>1 DEF KnownFrames
<1>4. f \in Frames /\ f.body <= Len(e.args)
  <2>1. Len(r.args) \in Nat /\ Len(e.args) \in Nat /\ f.body \in Nat
    BY LenProperties DEF Good, Grown, IRs, KnownFrames, Frames, Blocks
  <2> QED
    BY <2>1 DEF KnownFrames, Grown
<1> QED
  BY <1>2, <1>3, <1>4 DEF KnownFrames

(* New blocks and new block arguments, with the operations as they were.    *)
LEMMA GrownArgs ==
    ASSUME NEW r \in Good, NEW e \in IRs, e.ops = r.ops,
           BlockArgs(r) \subseteq BlockArgs(e), Len(r.args) <= Len(e.args),
           e.err = "none" => r.err = "none"
    PROVE  e \in Grown(r)
<1>1. UsesDefined(e)
  BY DEF Good, UsesDefined
<1>2. Defined(r) \subseteq Defined(e)
  BY DEF Defined, OpResults
<1> QED
  BY <1>1, <1>2 DEF Grown

(* A change of the stack, the counter or the error only.                    *)
LEMMA GrownSame ==
    ASSUME NEW r \in Good, NEW e \in IRs, e.ops = r.ops, e.args = r.args,
           e.err = "none" => r.err = "none"
    PROVE  e \in Grown(r)
<1>1. BlockArgs(e) = BlockArgs(r)
  BY DEF BlockArgs
<1>2. Len(r.args) \in Nat
  BY LenProperties DEF Good, IRs
<1> QED
  BY <1>1, <1>2, GrownArgs

(***************************************************************************)
(* The operators of TraceIR.                                                *)
(***************************************************************************)
(* A raise keeps what is there.                                             *)
LEMMA RaiseUse ==
    ASSUME NEW r \in Good, NEW why \in {"afterTerminator", "parallelCarry"}
    PROVE  Raise(r, why) \in Grown(r)
<1>1. r \in IRs
  BY DEF Good
<1>2. Raise(r, why) \in IRs /\ Raise(r, why).err # "none"
  BY <1>1, RaiseType DEF Emitted
<1>3. Raise(r, why).ops = r.ops /\ Raise(r, why).args = r.args
  BY <1>1 DEF Raise, IRs
<1> QED
  BY <1>2, <1>3, GrownSame

(* So does a refusal.                                                       *)
LEMMA RefuseUse ==
    ASSUME NEW r \in Good, NEW n \in Nat
    PROVE  Refuse(r, n) \in Grown(r) /\ Refuse(r, n).err # "none"
<1>1. r \in IRs
  BY DEF Good
<1>2. /\ Refuse(r, n) \in IRs /\ Refuse(r, n).err # "none"
      /\ Refuse(r, n).ops = r.ops /\ Refuse(r, n).args = r.args
  BY <1>1, RefuseType DEF Emitted
<1> QED
  BY <1>2, GrownSame

(* A new region adds a block without arguments.                             *)
LEMMA NewRegionUse ==
    ASSUME NEW r \in Good
    PROVE  NewRegion(r) \in Grown(r)
<1> DEFINE e == NewRegion(r)
<1>1. r \in IRs /\ r.args \in Seq(Seq(Ids)) /\ <<>> \in Seq(Ids)
  BY EmptySeq DEF Good, IRs
<1>2. e \in IRs /\ e.err = r.err /\ Len(e.args) = Len(r.args) + 1
  BY <1>1, NewRegionType
<1>3. e.ops = r.ops /\ e.args = Append(r.args, <<>>)
  BY <1>1 DEF NewRegion, IRs
<1>4. \A b \in DOMAIN r.args : b \in DOMAIN e.args /\ e.args[b] = r.args[b]
  BY <1>1, <1>3, AppendProperties, LenProperties
<1> HIDE DEF e
<1>5. BlockArgs(r) \subseteq BlockArgs(e)
  BY <1>4 DEF BlockArgs
<1>6. Len(r.args) \in Nat
  BY <1>1, LenProperties
<1>7. e \in Grown(r)
  BY <1>2, <1>3, <1>5, <1>6, GrownArgs
<1> QED
  BY <1>7 DEF e

(* Pushing a region changes the stack only.                                 *)
LEMMA PushRegionUse ==
    ASSUME NEW r \in Good, NEW b \in Blocks
    PROVE  PushRegion(r, b) \in Grown(r)
<1>1. r \in IRs
  BY DEF Good
<1>2. /\ PushRegion(r, b) \in IRs /\ PushRegion(r, b).args = r.args
      /\ PushRegion(r, b).err = r.err
  BY <1>1, PushRegionType
<1>3. PushRegion(r, b).ops = r.ops
  BY <1>1 DEF PushRegion, IRs
<1> QED
  BY <1>2, <1>3, GrownSame

(* So does popping one.                                                     *)
LEMMA PopRegionUse ==
    ASSUME NEW r \in Good, r.stack # <<>>
    PROVE  PopRegion(r) \in Grown(r)
<1>1. r \in IRs
  BY DEF Good
<1>2. /\ PopRegion(r) \in IRs /\ PopRegion(r).args = r.args
      /\ PopRegion(r).err = r.err /\ PopRegion(r).ops = r.ops
  BY <1>1, PopRegionType
<1> QED
  BY <1>2, GrownSame

(* New arguments of a block that exists are defined.                        *)
LEMMA NewArgsUse ==
    ASSUME NEW r \in Good, NEW b \in 1..Len(r.args), NEW n \in Nat
    PROVE  /\ NewArgs(r, b, n) \in Grown(r)
           /\ \A j \in 1..n : Fresh(r, n)[j] \in BlockArgs(NewArgs(r, b, n))
<1> DEFINE e == NewArgs(r, b, n)
           fresh == Fresh(r, n)
<1>1. r \in IRs /\ r.args \in Seq(Seq(Ids)) /\ DOMAIN r.args = 1..Len(r.args) /\ Len(r.args) \in Nat
  BY LenProperties DEF Good, IRs
<1>2. fresh \in Seq(Ids) /\ Len(fresh) = n /\ DOMAIN fresh = 1..n
  BY <1>1, FreshType, Zenon
<1>3. e \in IRs /\ e.err = r.err /\ e.ops = r.ops /\ Len(e.args) = Len(r.args)
  BY <1>1, NewArgsType
<1>4. e.args = [r.args EXCEPT ![b] = @ \o fresh]
  BY <1>1 DEF NewArgs, IRs
<1>5. /\ DOMAIN e.args = DOMAIN r.args
      /\ \A c \in DOMAIN r.args : c # b => e.args[c] = r.args[c]
      /\ e.args[b] = r.args[b] \o fresh
  BY <1>1, <1>4
<1> HIDE DEF e, fresh
<1>6. /\ r.args[b] \in Seq(Ids) /\ Len(r.args[b]) \in Nat
      /\ DOMAIN r.args[b] = 1..Len(r.args[b])
  BY <1>1, ElementOfSeq, LenProperties
<1>7. /\ DOMAIN e.args[b] = 1..(Len(r.args[b]) + n)
      /\ \A j \in 1..Len(r.args[b]) : e.args[b][j] = r.args[b][j]
      /\ \A j \in 1..n : e.args[b][Len(r.args[b]) + j] = fresh[j]
  <2> DEFINE s == r.args[b]
  <2>1. s \in Seq(Ids) /\ e.args[b] = s \o fresh
    BY <1>5, <1>6
  <2> HIDE DEF s
  <2>2. /\ DOMAIN (s \o fresh) = 1..(Len(s) + Len(fresh))
        /\ \A j \in 1..Len(s) : (s \o fresh)[j] = s[j]
        /\ \A j \in 1..Len(fresh) : (s \o fresh)[Len(s) + j] = fresh[j]
    BY <1>2, <2>1, ConcatParts
  <2>3. /\ DOMAIN e.args[b] = 1..(Len(s) + n)
        /\ \A j \in 1..Len(s) : e.args[b][j] = s[j]
        /\ \A j \in 1..n : e.args[b][Len(s) + j] = fresh[j]
    BY <1>2, <2>1, <2>2
  <2> QED
    BY <2>3 DEF s
<1>8. ASSUME NEW j \in 1..n PROVE fresh[j] \in BlockArgs(e)
  <2>1. b \in DOMAIN e.args /\ Len(r.args[b]) + j \in DOMAIN e.args[b]
    BY <1>1, <1>5, <1>6, <1>7
  <2> QED
    BY <1>7, <2>1 DEF BlockArgs
<1>9. BlockArgs(r) \subseteq BlockArgs(e)
  <2> SUFFICES ASSUME NEW c \in DOMAIN r.args, NEW j \in DOMAIN r.args[c]
               PROVE  r.args[c][j] \in BlockArgs(e)
    BY DEF BlockArgs
  <2>1. c \in DOMAIN e.args /\ j \in DOMAIN e.args[c] /\ e.args[c][j] = r.args[c][j]
    <3>1. CASE c # b
      BY <1>5, <3>1
    <3>2. CASE c = b
      <4>1. j \in 1..Len(r.args[b]) /\ j \in 1..(Len(r.args[b]) + n)
        BY <1>6, <3>2
      <4> QED
        BY <1>5, <1>7, <3>2, <4>1
    <3> QED
      BY <3>1, <3>2
  <2> QED
    BY <2>1 DEF BlockArgs
<1>10. e \in Grown(r)
  <2>1. Len(r.args) <= Len(e.args)
    BY <1>1, <1>3
  <2> QED
    BY <1>3, <1>9, <2>1, GrownArgs
<1> QED
  BY <1>8, <1>10 DEF e, fresh

(* New operations over defined values: their results are defined.           *)
LEMMA GrownOps ==
    ASSUME NEW r \in Good, NEW e \in IRs, NEW new \in Seq(Operations), e.ops = r.ops \o new,
           e.args = r.args, e.err = "none" => r.err = "none",
           \A k \in DOMAIN new : Operands(new[k]) \subseteq Defined(r)
    PROVE  /\ e \in Grown(r)
           /\ \A k \in DOMAIN new : Results(new[k]) \subseteq Defined(e)
<1>1. r.ops \in Seq(Operations) /\ UsesDefined(r) /\ Len(r.args) \in Nat
  BY LenProperties DEF Good, IRs
<1>2. /\ Len(r.ops) \in Nat /\ Len(new) \in Nat
      /\ DOMAIN r.ops = 1..Len(r.ops) /\ DOMAIN new = 1..Len(new)
      /\ DOMAIN e.ops = 1..(Len(r.ops) + Len(new))
      /\ \A k \in 1..Len(r.ops) : e.ops[k] = r.ops[k]
      /\ \A k \in 1..Len(new) : e.ops[Len(r.ops) + k] = new[k]
  BY <1>1, ConcatParts
<1>3. BlockArgs(e) = BlockArgs(r)
  BY DEF BlockArgs
<1>4. Defined(r) \subseteq Defined(e)
  BY <1>2, <1>3 DEF Defined, OpResults
<1>5. \A k \in DOMAIN new : Results(new[k]) \subseteq Defined(e)
  <2> TAKE k \in DOMAIN new
  <2>1. Len(r.ops) + k \in DOMAIN e.ops /\ e.ops[Len(r.ops) + k] = new[k]
    BY <1>2
  <2> QED
    BY <2>1 DEF Defined, OpResults
<1>6. UsesDefined(e)
  <2> SUFFICES ASSUME NEW k \in DOMAIN e.ops, NEW v \in Operands(e.ops[k])
               PROVE  v \in BlockArgs(e) \/ \E m \in 1..(k - 1) : v \in Results(e.ops[m])
    BY DEF UsesDefined
  <2>1. CASE k \in 1..Len(r.ops)
    <3>1. v \in Operands(r.ops[k])
      BY <1>2, <2>1
    <3>2. v \in BlockArgs(r) \/ \E m \in 1..(k - 1) : v \in Results(r.ops[m])
      BY <1>1, <1>2, <2>1, <3>1 DEF UsesDefined
    <3>3. \A m \in 1..(k - 1) : e.ops[m] = r.ops[m]
      BY <1>2, <2>1
    <3> QED
      BY <1>3, <3>2, <3>3
  <2>2. CASE k \notin 1..Len(r.ops)
    <3>1. k - Len(r.ops) \in 1..Len(new) /\ Len(r.ops) + (k - Len(r.ops)) = k
      BY <1>2, <2>2
    <3>2. e.ops[k] = new[k - Len(r.ops)]
      BY <1>2, <3>1
    <3>3. v \in Defined(r)
      BY <1>2, <3>1, <3>2
    <3>4. ASSUME NEW m \in DOMAIN r.ops PROVE m \in 1..(k - 1) /\ e.ops[m] = r.ops[m]
      BY <1>2, <2>2
    <3>5. v \in BlockArgs(r) \/ \E m \in DOMAIN r.ops : v \in Results(r.ops[m])
      BY <3>3 DEF Defined, OpResults
    <3> QED
      BY <1>3, <3>4, <3>5
  <2> QED
    BY <2>1, <2>2
<1> QED
  BY <1>1, <1>4, <1>5, <1>6 DEF Grown

(* append_op: its operands are known, and so are its results after it.      *)
LEMMA AppendOpUse ==
    ASSUME NEW r \in Good, NEW b \in Blocks, NEW name \in OpNames,
           NEW operands \in Seq(KnownIds(r)), NEW nres \in Nat, NEW regions \in Seq(Blocks),
           NEW attr \in Int
    PROVE  LET e == AppendOp(r, b, name, operands, nres, regions, attr)
           IN  /\ e \in Grown(r)
               /\ e.err = "none" => \A j \in 1..nres : e.next - nres + j - 1 \in Defined(e)
<1> DEFINE op == [name |-> name, blk |-> b, operands |-> operands, results |-> Fresh(r, nres),
                  regions |-> regions, attr |-> attr]
           e == AppendOp(r, b, name, operands, nres, regions, attr)
<1>1. r \in IRs /\ operands \in Seq(Ids)
  BY DEF Good, KnownIds
<1>2. e \in Emitted(r) /\ (e.err = "none" => r.err = "none" /\ e.next = r.next + nres)
  BY <1>1, AppendOpType
<1>3. CASE r.err # "none"
  <2>1. e = r
    BY <1>3 DEF AppendOp
  <2> QED
    BY <1>3, <2>1, GrownSelf
<1>4. CASE r.err = "none" /\ Terminated(r, b)
  <2>1. e = Refuse(r, nres)
    BY <1>4 DEF AppendOp
  <2>2. e \in Grown(r) /\ e.err # "none"
    BY <2>1, RefuseUse
  <2> QED
    BY <2>2
<1>5. CASE r.err = "none" /\ ~Terminated(r, b)
  <2>1. /\ Fresh(r, nres) \in Seq(Ids) /\ DOMAIN Fresh(r, nres) = 1..nres
        /\ \A j \in 1..nres : Fresh(r, nres)[j] = r.next + j - 1
    BY <1>1, FreshType, Zenon
  <2>2. /\ op \in Operations /\ op.operands = operands /\ op.results = Fresh(r, nres)
    BY <1>1, <2>1 DEF Operations
  <2>3. e = [r EXCEPT !.ops = Append(r.ops, op), !.next = r.next + nres]
    BY <1>5 DEF AppendOp
  <2> HIDE DEF op, e
  <2>4. r.ops \in Seq(Operations)
    BY <1>1 DEF IRs
  <2>5. /\ e \in IRs /\ e.ops = Append(r.ops, op) /\ e.args = r.args /\ e.err = r.err
        /\ e.next = r.next + nres
    <3>1. e \in IRs
      BY <1>2 DEF Emitted, e
    <3> QED
      BY <1>1, <2>3, <3>1 DEF IRs
  <2>6. <<op>> \in Seq(Operations) /\ DOMAIN <<op>> = {1} /\ <<op>>[1] = op
    BY <2>2
  <2>7. e.ops = r.ops \o <<op>>
    BY <2>2, <2>4, <2>5, AppendIsConcat
  <2>8. Operands(op) \subseteq Defined(r)
    <3>1. \A j \in DOMAIN operands : operands[j] \in KnownIds(r)
      BY ElementOfSeq, LenProperties
    <3> QED
      BY <1>5, <2>2, <3>1 DEF Operands, KnownIds
  <2>9. e \in Grown(r) /\ Results(op) \subseteq Defined(e)
    <3> DEFINE new == <<op>>
    <3>1. new \in Seq(Operations) /\ e.ops = r.ops \o new /\ DOMAIN new = {1} /\ new[1] = op
      BY <2>6, <2>7
    <3> HIDE DEF new
    <3> QED
      BY <2>5, <2>8, <3>1, GrownOps
  <2>10. ASSUME NEW j \in 1..nres PROVE e.next - nres + j - 1 \in Defined(e)
    <3>1. e.next - nres + j - 1 = Fresh(r, nres)[j]
      BY <1>1, <2>1, <2>5 DEF IRs, Ids
    <3>2. Fresh(r, nres)[j] \in Results(op)
      BY <2>1, <2>2 DEF Results
    <3> QED
      BY <2>9, <3>1, <3>2
  <2> QED
    BY <2>9, <2>10 DEF e
<1> QED
  BY <1>3, <1>4, <1>5

(* ensure_value: what it returns for a known operand is known after it.     *)
LEMMA EnsureUse ==
    ASSUME NEW r \in Good, r.stack # <<>>, NEW objs \in Seq(Known(r))
    PROVE  /\ Ensure(r, objs) \in Grown(r)
           /\ EnsureIds(r, objs) \in Seq(KnownIds(Ensure(r, objs)))
<1> DEFINE e == Ensure(r, objs)
           ids == EnsureIds(r, objs)
           C == Nums(objs)
           n == Cardinality(C)
           consts == Consts(r, objs)
<1>1. r \in IRs /\ objs \in Seq(Objs) /\ r.next \in Nat
  BY DEF Good, Known, IRs, Ids
<1>2. /\ C \in SUBSET DOMAIN objs /\ C \in SUBSET Int /\ IsFiniteSet(C) /\ n \in Nat
      /\ DOMAIN objs = 1..Len(objs) /\ Len(objs) \in Nat
  BY <1>1, NumsType
<1>3. /\ ids \in Seq(Ids) /\ Len(ids) = Len(objs) /\ DOMAIN ids = 1..Len(objs)
      /\ \A j \in DOMAIN objs :
           /\ IsNum(objs[j]) => ids[j] = r.next + Rank(C, j) - 1
           /\ ~IsNum(objs[j]) => ids[j] = objs[j].n
  <2>1. ids \in Seq(Ids) /\ Len(ids) = Len(objs)
    BY <1>1, EnsureIdsType
  <2>2. DOMAIN ids = DOMAIN objs
    BY DEF EnsureIds
  <2> QED
    BY <1>2, <2>1, <2>2 DEF EnsureIds
<1>4. \A j \in DOMAIN objs : ~IsNum(objs[j]) => ids[j] \in KnownIds(r)
  BY <1>2, <1>3, ElementOfSeq DEF Known
<1>5. e \in IRs
  BY <1>1, EnsureType DEF Emitted
<1>6. /\ e \in Grown(r)
      /\ e.err = "none" => \A j \in C : ids[j] \in Defined(e)
  <2>1. CASE r.err # "none" \/ C = {}
    <3>1. e = r
      BY <2>1 DEF Ensure
    <3> QED
      BY <2>1, <3>1, GrownSelf
  <2>2. CASE r.err = "none" /\ C # {} /\ Terminated(r, Block(r))
    <3>1. e = Refuse(r, 1)
      BY <2>2 DEF Ensure
    <3> QED
      BY <3>1, RefuseUse
  <2>3. CASE r.err = "none" /\ C # {} /\ ~Terminated(r, Block(r))
    <3>1. e = [r EXCEPT !.ops = r.ops \o consts, !.next = r.next + n]
      BY <2>3 DEF Ensure
    <3>2. /\ DOMAIN consts = 1..n
          /\ \A c \in 1..n : consts[c].operands = <<>> /\ consts[c].results = <<r.next + c - 1>>
      BY DEF Consts
    <3>3. consts \in Seq(Operations)
      BY <1>1, ConstsType
    <3> HIDE DEF e, ids, C, n, consts
    <3>4. e.ops = r.ops \o consts /\ e.args = r.args /\ e.err = r.err
      BY <1>1, <3>1 DEF IRs
    <3>5. \A c \in DOMAIN consts : Operands(consts[c]) \subseteq Defined(r)
      BY <3>2 DEF Operands
    <3>6. e \in Grown(r) /\ \A c \in DOMAIN consts : Results(consts[c]) \subseteq Defined(e)
      BY <1>5, <3>3, <3>4, <3>5, GrownOps
    <3>7. ASSUME NEW j \in C PROVE ids[j] \in Defined(e)
      <4>1. Rank(C, j) \in 1..n
        BY <1>2, RankType DEF n
      <4>2. ids[j] = r.next + Rank(C, j) - 1
        BY <1>2, <1>3 DEF C, Nums
      <4>3. r.next + Rank(C, j) - 1 \in Results(consts[Rank(C, j)])
        BY <3>2, <4>1 DEF Results
      <4> QED
        BY <3>2, <3>6, <4>1, <4>2, <4>3
    <3> QED
      BY <3>6, <3>7
  <2> QED
    BY <2>1, <2>2, <2>3
<1>7. KnownIds(r) \subseteq KnownIds(e)
  BY <1>6, GrownKnown
<1>8. ASSUME NEW j \in DOMAIN objs PROVE ids[j] \in KnownIds(e)
  <2>1. CASE IsNum(objs[j])
    <3>1. j \in C /\ ids[j] \in Ids
      BY <1>2, <1>3, <2>1, ElementOfSeq DEF Nums
    <3> QED
      BY <1>6, <3>1 DEF KnownIds
  <2>2. CASE ~IsNum(objs[j])
    BY <1>4, <1>7, <2>2
  <2> QED
    BY <2>1, <2>2
<1> HIDE DEF e, ids
<1>9. ids \in Seq(KnownIds(e))
  <2>1. ids \in [1..Len(objs) -> KnownIds(e)]
    BY <1>2, <1>3, <1>8
  <2> QED
    BY <1>2, <2>1, FunctionIsSeq
<1> QED
  BY <1>6, <1>9 DEF e, ids

(* An emitting method grows the IR, and its result is known after it.       *)
LEMMA EmitUse ==
    ASSUME NEW r \in Good, r.stack # <<>>, NEW name \in OpNames, NEW objs \in Seq(Known(r)),
           NEW nres \in Nat, NEW regions \in Seq(Blocks), NEW attr \in Int
    PROVE  LET e == Emit(r, name, objs, nres, regions, attr)
           IN  /\ e \in Grown(r)
               /\ e.err = "none" => \A j \in 1..nres : e.next - nres + j - 1 \in Defined(e)
<1> DEFINE q == Ensure(r, objs)
           ids == EnsureIds(r, objs)
           e == AppendOp(q, Block(r), name, ids, nres, regions, attr)
<1>1. q \in Grown(r) /\ ids \in Seq(KnownIds(q)) /\ Block(r) \in Blocks
  BY EnsureUse, BlockType DEF Good
<1>2. q \in Good /\ Grown(q) \subseteq Grown(r)
  BY <1>1, GrownTwice
<1> HIDE DEF q, ids
<1>3. /\ e \in Grown(q)
      /\ e.err = "none" => \A j \in 1..nres : e.next - nres + j - 1 \in Defined(e)
  BY <1>1, <1>2, AppendOpUse
<1> QED
  BY <1>2, <1>3 DEF Emit, q, ids

(* The outcomes of an expression: an IR that has grown, and a known object. *)
Extensions(r) == {e \in Emissions(r) : e.ir \in Grown(r) /\ e.o \in Known(e.ir)}

(* emit_value returns a Value that is known after it.                       *)
LEMMA EmitValueUse ==
    ASSUME NEW r \in Good, r.stack # <<>>, NEW name \in OpNames, NEW objs \in Seq(Known(r))
    PROVE  EmitValue(r, name, objs) \in Extensions(r)
<1> DEFINE e == Emit(r, name, objs, 1, <<>>, 0)
<1>1. r \in IRs /\ objs \in Seq(Objs)
  BY DEF Good, Known
<1>2. EmitValue(r, name, objs) \in Emissions(r)
  BY <1>1, EmitValueType
<1>3. /\ e \in Grown(r)
      /\ e.err = "none" => \A j \in 1..1 : e.next - 1 + j - 1 \in Defined(e)
  <2>1. <<>> \in Seq(Blocks) /\ 1 \in Nat /\ 0 \in Int
    BY EmptySeq
  <2> QED
    BY <2>1, EmitUse, Zenon
<1> HIDE DEF e
<1>4. EmitValue(r, name, objs) = [ir |-> e, o |-> Val(LastValue(e))]
  BY DEF EmitValue, e
<1>5. e.next \in Nat \ {0}
  BY <1>3 DEF Grown, IRs, Ids
<1>6. LastValue(e) \in KnownIds(e)
  BY <1>3, <1>5 DEF LastValue, KnownIds, Ids
<1>7. Val(LastValue(e)) \in Known(e)
  BY <1>6, ValType DEF Known, KnownIds
<1> QED
  BY <1>2, <1>3, <1>4, <1>7 DEF Extensions

(* What an emission yields can be emitted to and used again.                *)
LEMMA ExtensionsUse ==
    ASSUME NEW r \in Good, r.stack # <<>>, NEW e \in Extensions(r)
    PROVE  /\ e.ir \in Good /\ e.ir \in Grown(r) /\ e.ir.stack = r.stack /\ e.ir.args = r.args
           /\ e.o \in Known(e.ir) /\ Known(r) \subseteq Known(e.ir)
           /\ Grown(e.ir) \subseteq Grown(r) /\ Extensions(e.ir) \subseteq Extensions(r)
<1>1. e.ir \in Grown(r) /\ e.o \in Known(e.ir) /\ e.ir \in Emitted(r)
  BY DEF Extensions, Emissions
<1>2. e.ir \in Good /\ Grown(e.ir) \subseteq Grown(r) /\ Known(r) \subseteq Known(e.ir)
  BY <1>1, GrownTwice, GrownKnown
<1>3. Emissions(e.ir) \subseteq Emissions(r)
  BY <1>1, EmissionsChain DEF Good
<1>4. Extensions(e.ir) \subseteq Extensions(r)
  BY <1>2, <1>3 DEF Extensions
<1> QED
  BY <1>1, <1>2, <1>4 DEF Emitted

(* One, two and three known objects as operands.                            *)
LEMMA OperandsUse ==
    ASSUME NEW r, NEW a \in Known(r), NEW b \in Known(r)
    PROVE  /\ <<a>> \in Seq(Known(r)) /\ <<a, b>> \in Seq(Known(r))
           /\ \A c \in Known(r) : <<a, b, c>> \in Seq(Known(r))
OBVIOUS

(* A Python number is no id, so it is always known.                         *)
LEMMA NumUse ==
    ASSUME NEW r, NEW n \in Int
    PROVE  Num(n) \in Known(r)
BY DEF Num, Known, Objs, IsNum

(* The buffer of the prologue is defined from the start.                    *)
LEMMA BufferUse ==
    ASSUME NEW r \in Good
    PROVE  Buffer \in Known(r)
BY BufferType DEF Good, Known, KnownIds, Buffer, Val, Ids

(* Python arithmetic that appends nothing.                                  *)
LEMMA PureUse ==
    ASSUME NEW r \in Good, NEW o \in Known(r)
    PROVE  Pure(r, o) \in Extensions(r)
<1>1. r \in Grown(r) /\ r \in Emitted(r) /\ o \in Objs
  BY GrownSelf DEF Good, Emitted, Known
<1> QED
  BY <1>1 DEF Pure, Extensions, Emissions

(***************************************************************************)
(* Expressions.                                                             *)
(***************************************************************************)
(* x + y of what is known.                                                  *)
LEMMA AddUse ==
    ASSUME NEW r \in Good, r.stack # <<>>, NEW a \in Known(r), NEW b \in Known(r)
    PROVE  Add(r, a, b) \in Extensions(r)
<1>1. CASE IsNum(a) /\ IsNum(b)
  <2>1. a.n + b.n \in Int
    BY ObjsType DEF Known
  <2>2. Pure(r, Num(a.n + b.n)) \in Extensions(r)
    BY <2>1, NumUse, PureUse
  <2> QED
    BY <1>1, <2>2 DEF Add
<1>2. CASE ~(IsNum(a) /\ IsNum(b))
  <2>1. "add" \in OpNames /\ <<a, b>> \in Seq(Known(r))
    BY OperandsUse DEF OpNames
  <2> QED
    BY <1>2, <2>1, EmitValueUse DEF Add
<1> QED
  BY <1>1, <1>2

(* x < y of what is known.                                                  *)
LEMMA LessUse ==
    ASSUME NEW r \in Good, r.stack # <<>>, NEW a \in Known(r), NEW b \in Known(r)
    PROVE  Less(r, a, b) \in Extensions(r)
<1>1. CASE IsNum(a) /\ IsNum(b)
  <2>1. Pure(r, Num(IF a.n < b.n THEN 1 ELSE 0)) \in Extensions(r)
    BY NumUse, PureUse
  <2> QED
    BY <1>1, <2>1 DEF Less
<1>2. CASE ~(IsNum(a) /\ IsNum(b))
  <2>1. /\ "gt" \in OpNames /\ "lt" \in OpNames
        /\ <<a, b>> \in Seq(Known(r)) /\ <<b, a>> \in Seq(Known(r))
    BY OperandsUse DEF OpNames
  <2>2. /\ EmitValue(r, "gt", <<b, a>>) \in Extensions(r)
        /\ EmitValue(r, "lt", <<a, b>>) \in Extensions(r)
    BY <2>1, EmitValueUse
  <2> QED
    BY <1>2, <2>2 DEF Less
<1> QED
  BY <1>1, <1>2

(* B[x], with x known.                                                      *)
LEMMA LoadUse ==
    ASSUME NEW r \in Good, r.stack # <<>>, NEW a \in Known(r)
    PROVE  Load(r, a) \in Extensions(r)
<1>1. "load" \in OpNames /\ <<Buffer, a>> \in Seq(Known(r))
  BY OperandsUse, BufferUse DEF OpNames
<1> QED
  BY <1>1, EmitValueUse DEF Load

(* Conditions: what each part emits is known to the next.                   *)
LEMMA ConditionUse ==
    ASSUME NEW r \in Good, r.stack # <<>>, NEW a \in Known(r), NEW b \in Known(r),
           NEW c \in Conditions
    PROVE  Condition(r, c, a, b) \in Extensions(r)
<1> DEFINE lt == Less(r, a, b)
           ld == Load(IF c = "and" THEN lt.ir ELSE r, a)
           right == Less(ld.ir, ld.o, b)
           both == EmitValue(right.ir, "and", <<lt.o, right.o>>)
<1>1. lt \in Extensions(r)
  BY LessUse
<1> HIDE DEF lt
<1>2. /\ lt.ir \in Good /\ lt.ir.stack # <<>> /\ lt.o \in Known(lt.ir) /\ a \in Known(lt.ir)
      /\ b \in Known(lt.ir) /\ Extensions(lt.ir) \subseteq Extensions(r)
  BY <1>1, ExtensionsUse
<1>3. /\ ld \in Extensions(r)
      /\ c = "and" => ld \in Extensions(lt.ir)
  <2>1. CASE c = "and"
    BY <1>2, <2>1, LoadUse
  <2>2. CASE c # "and"
    BY <2>2, LoadUse
  <2> QED
    BY <2>1, <2>2
<1> HIDE DEF ld
<1>4. /\ ld.ir \in Good /\ ld.ir.stack # <<>> /\ ld.o \in Known(ld.ir) /\ b \in Known(ld.ir)
      /\ Extensions(ld.ir) \subseteq Extensions(r)
  BY <1>3, ExtensionsUse
<1>5. c = "and" => lt.o \in Known(ld.ir)
  BY <1>2, <1>3, ExtensionsUse
<1>6. right \in Extensions(ld.ir)
  BY <1>4, LessUse
<1> HIDE DEF right
<1>7. c = "and" => both \in Extensions(r)
  <2> SUFFICES ASSUME c = "and" PROVE both \in Extensions(r)
    OBVIOUS
  <2>1. /\ right.ir \in Good /\ right.ir.stack # <<>> /\ right.o \in Known(right.ir)
        /\ lt.o \in Known(right.ir) /\ Extensions(right.ir) \subseteq Extensions(ld.ir)
    BY <1>4, <1>5, <1>6, ExtensionsUse
  <2>2. "and" \in OpNames /\ <<lt.o, right.o>> \in Seq(Known(right.ir))
    BY <2>1, OperandsUse DEF OpNames
  <2>3. both \in Extensions(right.ir)
    BY <2>1, <2>2, EmitValueUse, Zenon
  <2> QED
    BY <1>4, <2>1, <2>3
<1> QED
  BY <1>1, <1>4, <1>6, <1>7 DEF Condition, Conditions, lt, ld, right

(* The same for a conditional expression.                                   *)
LEMMA IfExpUse ==
    ASSUME NEW r \in Good, r.stack # <<>>, NEW a \in Known(r), NEW b \in Known(r)
    PROVE  IfExp(r, a, b) \in Extensions(r)
<1> DEFINE lt == Less(r, a, b)
           ld == Load(lt.ir, a)
           sel == EmitValue(ld.ir, "select", <<lt.o, ld.o, b>>)
<1>1. lt \in Extensions(r)
  BY LessUse
<1> HIDE DEF lt
<1>2. /\ lt.ir \in Good /\ lt.ir.stack # <<>> /\ lt.o \in Known(lt.ir) /\ a \in Known(lt.ir)
      /\ b \in Known(lt.ir) /\ Extensions(lt.ir) \subseteq Extensions(r)
  BY <1>1, ExtensionsUse
<1>3. ld \in Extensions(lt.ir)
  BY <1>2, LoadUse
<1> HIDE DEF ld
<1>4. /\ ld.ir \in Good /\ ld.ir.stack # <<>> /\ ld.o \in Known(ld.ir) /\ b \in Known(ld.ir)
      /\ lt.o \in Known(ld.ir) /\ Extensions(ld.ir) \subseteq Extensions(lt.ir)
  BY <1>2, <1>3, ExtensionsUse
<1>5. sel \in Extensions(ld.ir)
  <2>1. "select" \in OpNames /\ <<lt.o, ld.o, b>> \in Seq(Known(ld.ir))
    BY <1>4, OperandsUse DEF OpNames
  <2> QED
    BY <1>4, <2>1, EmitValueUse, Zenon
<1> QED
  BY <1>2, <1>4, <1>5 DEF IfExp, lt, ld

(***************************************************************************)
(* The end of a loop.                                                       *)
(***************************************************************************)
(* A use that is rewired is a use of a block argument.                      *)
LEMMA ReplaceRegionUsesUse ==
    ASSUME NEW r \in Good, NEW b, NEW olds \in Seq(Ids), NEW news \in Seq(Ids),
           Len(news) = Len(olds), \A j \in 1..Len(news) : news[j] \in BlockArgs(r)
    PROVE  ReplaceRegionUses(r, b, olds, news) \in Grown(r)
<1> DEFINE e == ReplaceRegionUses(r, b, olds, news)
<1>1. /\ r \in IRs /\ DOMAIN r.ops = 1..Len(r.ops) /\ Len(r.ops) \in Nat
      /\ \A k \in DOMAIN r.ops : r.ops[k] \in Operations
  BY LenProperties, ElementOfSeq DEF Good, IRs
<1>2. /\ e \in IRs /\ e.args = r.args /\ e.err = r.err
  BY <1>1, ReplaceRegionUsesType DEF Emitted
<1>3. /\ DOMAIN e.ops = DOMAIN r.ops
      /\ \A k \in DOMAIN r.ops : e.ops[k] = IF r.ops[k].blk \in Subtree(r, b)
                                            THEN Rewired(r.ops[k], olds, news) ELSE r.ops[k]
  BY <1>1 DEF ReplaceRegionUses, IRs
<1> HIDE DEF e
<1>4. \A k \in DOMAIN r.ops : e.ops[k].results = r.ops[k].results
  BY <1>1, <1>3, RewiredType
<1>5. \A k \in DOMAIN r.ops : Results(e.ops[k]) = Results(r.ops[k])
  BY <1>4 DEF Results
<1>6. BlockArgs(e) = BlockArgs(r) /\ Defined(e) = Defined(r)
  BY <1>2, <1>3, <1>5 DEF BlockArgs, Defined, OpResults
<1>7. ASSUME NEW k \in DOMAIN r.ops, NEW v \in Operands(e.ops[k])
      PROVE  v \in BlockArgs(r) \/ v \in Operands(r.ops[k])
  <2> DEFINE op == r.ops[k]
             old(j) == op.operands[j]
  <2>1. CASE e.ops[k] = op
    BY <2>1
  <2>2. CASE e.ops[k] = Rewired(op, olds, news)
    <3>1. /\ op \in Operations
          /\ DOMAIN Rewired(op, olds, news).operands = DOMAIN op.operands
          /\ \A j \in DOMAIN op.operands :
               Rewired(op, olds, news).operands[j] = Redirect(op.operands[j], olds, news)
      BY <1>1, RewiredType
    <3>2. PICK j \in DOMAIN op.operands : v = Redirect(op.operands[j], olds, news)
      BY <1>7, <2>2, <3>1 DEF Operands
    <3>3. op.operands[j] \in Ids
      BY <3>1, ElementOfSeq, LenProperties DEF Operations
    <3>4. v = op.operands[j] \/ \E l \in 1..Len(news) : v = news[l]
      BY <3>2, <3>3, RedirectType
    <3> QED
      BY <3>4 DEF Operands
  <2> QED
    BY <1>3, <2>1, <2>2
<1>8. UsesDefined(e)
  <2> SUFFICES ASSUME NEW k \in DOMAIN r.ops, NEW v \in Operands(e.ops[k])
               PROVE  v \in BlockArgs(r) \/ \E m \in 1..(k - 1) : v \in Results(e.ops[m])
    BY <1>3, <1>6 DEF UsesDefined
  <2>1. v \in BlockArgs(r) \/ \E m \in 1..(k - 1) : v \in Results(r.ops[m])
    BY <1>7 DEF Good, UsesDefined
  <2>2. \A m \in 1..(k - 1) : Results(e.ops[m]) = Results(r.ops[m])
    BY <1>1, <1>5
  <2> QED
    BY <2>1, <2>2
<1>9. Len(r.args) \in Nat
  BY <1>1, LenProperties DEF IRs
<1> QED
  BY <1>2, <1>6, <1>8, <1>9 DEF Grown, e

(* A yield of known ids at the end of a body.                               *)
LEMMA YieldFinalsUse ==
    ASSUME NEW r \in Good, NEW b \in Blocks, NEW finals \in Seq(KnownIds(r))
    PROVE  YieldFinals(r, b, finals) \in Grown(r)
<1>1. "yield" \in OpNames /\ 0 \in Nat /\ 0 \in Int /\ <<>> \in Seq(Blocks)
  BY EmptySeq DEF OpNames, Terminators
<1>2. AppendOp(r, b, "yield", finals, 0, <<>>, 0) \in Grown(r)
  BY <1>1, AppendOpUse, Zenon
<1> QED
  BY <1>2, GrownSelf DEF YieldFinals

(* The initials and the finals of a loop are ids of values that are known.  *)
LEMMA CarriedUse ==
    ASSUME NEW r \in IRs, NEW before \in Scopes, NEW now \in Scopes,
           before.at \in [Names -> Known(r)], now.at \in [Names -> Known(r)]
    PROVE  LET names == Pick(before.order, Carried(r, before, now))
           IN  \A j \in 1..Len(names) : /\ before.at[names[j]].n \in KnownIds(r)
                                        /\ now.at[names[j]].n \in KnownIds(r)
<1> DEFINE C == Carried(r, before, now)
           names == Pick(before.order, C)
<1>1. /\ names \in Seq(Names) /\ Len(names) \in Nat
      /\ \A j \in 1..Len(names) : names[j] \in Names
  BY CarriedType
<1>2. /\ before.order \in Seq(Names) /\ C \in SUBSET DOMAIN before.order
      /\ \A j \in C : IsVal(before.at[before.order[j]]) /\ IsVal(now.at[before.order[j]])
  BY DEF Carried, Scopes
<1> HIDE DEF C
<1>3. \A j \in 1..Len(names) : Nth(C, j) \in C /\ names[j] = before.order[Nth(C, j)]
  BY <1>2, PickType
<1> HIDE DEF names
<1>4. ASSUME NEW j \in 1..Len(names)
      PROVE  before.at[names[j]].n \in KnownIds(r) /\ now.at[names[j]].n \in KnownIds(r)
  <2>1. IsVal(before.at[names[j]]) /\ IsVal(now.at[names[j]])
    BY <1>2, <1>3
  <2>2. before.at[names[j]] \in Known(r) /\ now.at[names[j]] \in Known(r)
    BY <1>1
  <2> QED
    BY <2>1, <2>2 DEF Known, IsVal, IsNum
<1> QED
  BY <1>4 DEF names, C

(***************************************************************************)
(* Scopes.                                                                  *)
(***************************************************************************)
(* bind, one name and several.                                              *)
LEMMA BindUse ==
    ASSUME NEW r, NEW sc, sc.at \in [Names -> Known(r)], NEW x \in Names, NEW o \in Known(r)
    PROVE  Bind(sc, x, o).at \in [Names -> Known(r)]
BY DEF Bind

(* Several bindings at once.                                                *)
LEMMA BindAllUse ==
    ASSUME NEW r, NEW sc, sc.at \in [Names -> Known(r)], NEW xs, NEW objs,
           \A j \in DOMAIN xs : objs[j] \in Known(r)
    PROVE  BindAll(sc, xs, objs).at \in [Names -> Known(r)]
<1> DEFINE at == [x \in Names |-> IF \E j \in DOMAIN xs : xs[j] = x
                                  THEN objs[CHOOSE j \in DOMAIN xs : xs[j] = x]
                                  ELSE sc.at[x]]
<1>1. ASSUME NEW x \in Names PROVE at[x] \in Known(r)
  <2>1. CASE \E j \in DOMAIN xs : xs[j] = x
    <3>1. (CHOOSE j \in DOMAIN xs : xs[j] = x) \in DOMAIN xs
      BY <2>1
    <3> QED
      BY <2>1, <3>1
  <2>2. CASE ~\E j \in DOMAIN xs : xs[j] = x
    BY <2>2
  <2> QED
    BY <2>1, <2>2
<1>2. at \in [Names -> Known(r)]
  BY <1>1
<1> QED
  BY <1>2 DEF BindAll

(* The objects a scope binds are known.                                     *)
LEMMA ObjectsUse ==
    ASSUME NEW r, NEW sc \in Scopes, sc.at \in [Names -> Known(r)]
    PROVE  Objects(sc) \in Seq(Known(r)) /\ DOMAIN Objects(sc) = DOMAIN sc.order
<1>1. /\ sc.order \in Seq(Names) /\ DOMAIN sc.order = 1..Len(sc.order) /\ Len(sc.order) \in Nat
      /\ \A j \in 1..Len(sc.order) : sc.order[j] \in Names
  BY LenProperties, ElementOfSeq DEF Scopes
<1>2. Objects(sc) \in [1..Len(sc.order) -> Known(r)]
  BY <1>1 DEF Objects
<1> QED
  BY <1>1, <1>2, FunctionIsSeq

(* An id that is known is known as a Value.                                 *)
LEMMA ValUse ==
    ASSUME NEW r, NEW v \in KnownIds(r)
    PROVE  Val(v) \in Known(r)
BY ValType DEF Known, KnownIds

(* The consts that the numbers of a scope become are known.                 *)
LEMMA MaterialisedUse ==
    ASSUME NEW r \in Good, r.stack # <<>>, NEW sc \in Scopes, sc.at \in [Names -> Known(r)]
    PROVE  Materialised(sc, r).at \in [Names -> Known(Ensure(r, Objects(sc)))]
<1> DEFINE e == Ensure(r, Objects(sc))
           ids == EnsureIds(r, Objects(sc))
           vals == [j \in DOMAIN sc.order |-> Val(ids[j])]
<1>1. Objects(sc) \in Seq(Known(r)) /\ DOMAIN Objects(sc) = DOMAIN sc.order
  BY ObjectsUse
<1>2. e \in Grown(r) /\ ids \in Seq(KnownIds(e)) /\ DOMAIN ids = DOMAIN sc.order
  BY <1>1, EnsureUse DEF EnsureIds
<1> HIDE DEF e, ids
<1>3. sc.at \in [Names -> Known(e)]
  BY <1>2, GrownKnown
<1>4. \A j \in DOMAIN sc.order : vals[j] \in Known(e)
  <2>1. \A j \in DOMAIN sc.order : ids[j] \in KnownIds(e)
    BY <1>2, LenProperties, ElementOfSeq
  <2> QED
    BY <2>1, ValUse
<1> HIDE DEF vals
<1>5. BindAll(sc, sc.order, vals).at \in [Names -> Known(e)]
  BY <1>3, <1>4, BindAllUse
<1> QED
  BY <1>5 DEF Materialised, vals, e, ids

(* Builder.rval returns what is known.                                      *)
LEMMA RvalsUse ==
    ASSUME UseInv, NEW xs \in Seq(Names)
    PROVE  /\ Rvals(xs) \in Seq(Known(ir)) /\ Len(Rvals(xs)) = Len(xs)
           /\ \A j \in 1..Len(xs) : Rvals(xs)[j] \in Known(ir) /\ Rval(xs[j]) \in Known(ir)
<1>1. DOMAIN xs = 1..Len(xs) /\ Len(xs) \in Nat /\ \A j \in 1..Len(xs) : xs[j] \in Names
  BY LenProperties, ElementOfSeq
<1>2. \A x \in Names : Rval(x) \in Known(ir)
  BY DEF Rval, UseInv
<1>3. Rvals(xs) \in [1..Len(xs) -> Known(ir)]
  BY <1>1, <1>2 DEF Rvals
<1> QED
  BY <1>1, <1>2, <1>3, FunctionIsSeq

(* The bounds of a loop are known.                                          *)
LEMMA DimsUse ==
    ASSUME UseInv, NEW st \in Menu, st.s \in LoopKinds
    PROVE  Dims(st) \in Seq(Known(ir))
<1> DEFINE K == Known(ir)
           o == Rvals(st.arg)
           n == Len(o)
           zeros == [j \in 1..n |-> Num(0)]
           ones == [j \in 1..n |-> Num(1)]
<1>1. /\ o \in Seq(K) /\ n = Len(st.arg) /\ n \in Nat
      /\ \A j \in 1..n : o[j] \in K
  BY StatementType, RvalsUse, LenProperties
<1>2. Num(0) \in K /\ Num(1) \in K
  BY NumUse
<1> HIDE DEF K
<1>3. CASE st.s = "parallel"
  <2>1. zeros \in Seq(K) /\ ones \in Seq(K)
    <3>1. zeros \in [1..n -> K] /\ ones \in [1..n -> K]
      BY <1>2
    <3> QED
      BY <1>1, <3>1, FunctionIsSeq
  <2>2. zeros \o o \in Seq(K)
    BY <1>1, <2>1, ConcatProperties
  <2>3. zeros \o o \o ones \in Seq(K)
    BY <2>1, <2>2, ConcatProperties
  <2> QED
    BY <1>3, <2>3 DEF Dims, K
<1>4. CASE st.s # "parallel"
  <2>1. n \in 1..3
    BY <1>1, <1>4, StatementType DEF WellFormed, LoopKinds, Shape
  <2>2. /\ n = 1 => <<Num(0), o[1], Num(1)>> \in Seq(K)
        /\ n = 2 => <<o[1], o[2], Num(1)>> \in Seq(K)
    BY <1>1, <1>2
  <2> QED
    BY <1>1, <1>4, <2>1, <2>2 DEF Dims, K
<1> QED
  BY <1>3, <1>4

(* The right-hand side of an assignment to a name is known.                 *)
LEMMA ValueUse ==
    ASSUME UseInv, ir.stack # <<>>, NEW st \in Menu,
           st.s \in {"num", "name", "add", "load", "ifexp"}
    PROVE  Value(st) \in Extensions(ir)
<1> DEFINE o == Rvals(st.arg)
<1>1. /\ ir \in Good /\ Len(o) = Len(st.arg) /\ \A j \in 1..Len(st.arg) : o[j] \in Known(ir)
      /\ st.n \in Int
  BY StatementType, RvalsUse DEF UseInv
<1>2. CASE st.s = "num"
  BY <1>1, <1>2, NumUse, PureUse DEF Value
<1>3. CASE st.s = "name"
  <2>1. Len(st.arg) = 1
    BY <1>3, StatementType DEF WellFormed, Shape
  <2>2. o[1] \in Known(ir)
    BY <1>1, <2>1
  <2> QED
    BY <1>1, <1>3, <2>2, PureUse DEF Value
<1>4. CASE st.s = "load"
  <2>1. Len(st.arg) = 1
    BY <1>4, StatementType DEF WellFormed, Shape
  <2>2. o[1] \in Known(ir)
    BY <1>1, <2>1
  <2> QED
    BY <1>1, <1>4, <2>2, LoadUse DEF Value
<1>5. CASE st.s \in {"add", "ifexp"}
  <2>1. Len(st.arg) = 2
    BY <1>5, StatementType DEF WellFormed, Shape
  <2>2. o[1] \in Known(ir) /\ o[2] \in Known(ir)
    BY <1>1, <2>1
  <2>3. Add(ir, o[1], o[2]) \in Extensions(ir) /\ IfExp(ir, o[1], o[2]) \in Extensions(ir)
    BY <1>1, <2>2, AddUse, IfExpUse
  <2> QED
    BY <1>5, <2>3 DEF Value
<1> QED
  BY <1>2, <1>3, <1>4, <1>5

(* A loop that closes grows the IR, and its results are known.              *)
LEMMA CloseLoopUse ==
    ASSUME NEW r \in Good, Len(r.stack) > 1, NEW f \in KnownFrames(r), f.s.s \in LoopKinds,
           NEW now \in Scopes, now.at \in [Names -> Known(r)]
    PROVE  LET names == Pick(f.before.order, Carried(r, f.before, now))
               n == Len(names)
               e == CloseLoop(r, f, names, now)
           IN  /\ e \in Grown(r)
               /\ e.err = "none" => \A j \in 1..n : e.next - n + j - 1 \in Defined(e)
<1> DEFINE names == Pick(f.before.order, Carried(r, f.before, now))
           n == Len(names)
           outer == PopRegion(r)
           bounds == Ensure(outer, f.objs)
           initials == [j \in 1..n |-> f.before.at[names[j]].n]
           finals == [j \in 1..n |-> now.at[names[j]].n]
           opened == NewArgs(bounds, f.body, n)
           fresh == Fresh(bounds, n)
           rewired == ReplaceRegionUses(opened, f.body, initials, fresh)
           yielded == YieldFinals(rewired, f.body, finals)
           ids == EnsureIds(outer, f.objs)
           closed == AppendOp(yielded, Block(outer), LoopOp(f.s.s), ids \o initials,
                              n, <<f.body>>, Len(f.s.dst))
<1>1. /\ r \in IRs /\ f.s \in Menu /\ f.body \in Blocks /\ f.before \in Scopes
      /\ f.body <= Len(r.args) /\ f.objs \in Seq(Known(r))
      /\ f.before.at \in [Names -> Known(r)]
  BY DEF Good, KnownFrames, Frames
<1>2. /\ n \in Nat
      /\ \A j \in 1..n : /\ f.before.at[names[j]].n \in KnownIds(r)
                         /\ now.at[names[j]].n \in KnownIds(r)
  BY <1>1, CarriedType, CarriedUse
<1> HIDE DEF names, n
<1>3. /\ initials \in Seq(KnownIds(r)) /\ finals \in Seq(KnownIds(r)) /\ Len(initials) = n
  <2>1. initials \in [1..n -> KnownIds(r)] /\ finals \in [1..n -> KnownIds(r)]
    BY <1>2
  <2> QED
    BY <1>2, <2>1, FunctionIsSeq
<1>4. outer \in Good /\ outer \in Grown(r) /\ outer.stack # <<>>
  <2>1. r.stack \in Seq(Blocks) /\ Len(r.stack) \in Nat /\ r.stack # <<>>
    BY <1>1, LenProperties, EmptySeq DEF IRs
  <2>2. outer \in Grown(r) /\ Len(outer.stack) = Len(r.stack) - 1
    BY <1>1, <2>1, PopRegionType, PopRegionUse
  <2>3. outer.stack # <<>>
    BY <2>1, <2>2
  <2> QED
    BY <2>2, <2>3, GrownTwice
<1> HIDE DEF outer, initials, finals
<1>5. /\ bounds \in Grown(r) /\ bounds \in Good
      /\ Block(outer) \in Blocks /\ ids \in Seq(KnownIds(bounds))
  <2>1. f.objs \in Seq(Known(outer))
    BY <1>1, <1>4, GrownKnown
  <2>2. bounds \in Grown(outer) /\ ids \in Seq(KnownIds(bounds))
    BY <1>4, <2>1, EnsureUse
  <2> QED
    BY <1>4, <2>2, BlockType, GrownTwice DEF Good
<1> HIDE DEF bounds, ids
<1>6. /\ opened \in Grown(bounds) /\ opened \in Good
      /\ \A j \in 1..n : fresh[j] \in BlockArgs(opened)
  <2>1. f.body \in 1..Len(bounds.args)
    <3>1. Len(r.args) \in Nat /\ Len(bounds.args) \in Nat /\ Len(r.args) <= Len(bounds.args)
      BY <1>1, <1>5, LenProperties DEF Grown, IRs
    <3> QED
      BY <1>1, <3>1 DEF Blocks
  <2>2. opened \in Grown(bounds) /\ \A j \in 1..n : fresh[j] \in BlockArgs(opened)
    BY <1>2, <1>5, <2>1, NewArgsUse, Zenon
  <2> QED
    BY <1>5, <2>2, GrownTwice
<1>7. fresh \in Seq(Ids) /\ Len(fresh) = n
  <2>1. bounds \in IRs
    BY <1>5 DEF Good
  <2> QED
    BY <1>2, <2>1, FreshType, Zenon
<1> HIDE DEF opened, fresh
<1>8. rewired \in Grown(opened) /\ rewired \in Good
  <2>1. initials \in Seq(Ids)
    BY <1>3 DEF KnownIds
  <2>2. \A j \in 1..Len(fresh) : fresh[j] \in BlockArgs(opened)
    BY <1>6, <1>7
  <2>3. rewired \in Grown(opened)
    BY <1>3, <1>6, <1>7, <2>1, <2>2, ReplaceRegionUsesUse
  <2> QED
    BY <1>6, <2>3, GrownTwice
<1> HIDE DEF rewired
<1>9. rewired \in Grown(bounds) /\ rewired \in Grown(r)
  BY <1>4, <1>5, <1>6, <1>8, GrownTwice
<1>10. yielded \in Grown(rewired) /\ yielded \in Good
  <2>1. finals \in Seq(KnownIds(rewired))
    BY <1>3, <1>9, GrownKnown
  <2>2. yielded \in Grown(rewired)
    BY <1>1, <1>8, <2>1, YieldFinalsUse
  <2> QED
    BY <1>8, <2>2, GrownTwice
<1> HIDE DEF yielded
<1>11. yielded \in Grown(bounds) /\ yielded \in Grown(r)
  BY <1>5, <1>8, <1>9, <1>10, GrownTwice
<1>12. /\ closed \in Grown(yielded)
       /\ closed.err = "none" => \A j \in 1..n : closed.next - n + j - 1 \in Defined(closed)
  <2>1. ids \o initials \in Seq(KnownIds(yielded))
    <3>1. ids \in Seq(KnownIds(yielded)) /\ initials \in Seq(KnownIds(yielded))
      BY <1>3, <1>5, <1>11, GrownKnown
    <3> QED
      BY <3>1, ConcatProperties
  <2>2. <<f.body>> \in Seq(Blocks) /\ Len(f.s.dst) \in Int
    BY <1>1, StatementType, LenProperties
  <2>3. LoopOp(f.s.s) \in OpNames
    BY LoopOpType
  <2> QED
    BY <1>2, <1>5, <1>10, <2>1, <2>2, <2>3, AppendOpUse, Zenon
<1> HIDE DEF closed
<1>13. closed \in Grown(r)
  BY <1>10, <1>11, <1>12, GrownTwice
<1>14. Raise(bounds, "parallelCarry") \in Grown(r) /\ Raise(bounds, "parallelCarry").err # "none"
  <2>1. bounds \in IRs
    BY <1>5 DEF Good
  <2>2. /\ Raise(bounds, "parallelCarry") \in Grown(bounds)
        /\ Raise(bounds, "parallelCarry").err # "none"
    BY <1>5, <2>1, RaiseUse, RaiseType
  <2> QED
    BY <1>5, <2>2, GrownTwice
<1>15. CloseLoop(r, f, names, now) = IF bounds.err = "none" /\ Refused(f, n)
                                     THEN Raise(bounds, "parallelCarry") ELSE closed
  BY DEF CloseLoop, n, outer, bounds, initials, finals, opened, fresh, rewired, yielded, ids, closed
<1> QED
  BY <1>12, <1>13, <1>14, <1>15 DEF names, n

(***************************************************************************)
(* The actions.                                                             *)
(***************************************************************************)
(* What was known stays known when the IR grows.                            *)
LEMMA UseKept ==
    ASSUME UseInv, NEW e \in Grown(ir)
    PROVE  /\ scope.at \in [Names -> Known(e)] /\ locals \in [Names -> Known(e)]
           /\ frames \in Seq(KnownFrames(e))
           /\ frames # <<>> => Top \in KnownFrames(e) /\ Up \in Seq(KnownFrames(e))
<1>1. Known(ir) \subseteq Known(e) /\ KnownFrames(ir) \subseteq KnownFrames(e)
  BY GrownKnown, GrownFrames DEF UseInv
<1>2. scope.at \in [Names -> Known(e)] /\ locals \in [Names -> Known(e)]
  BY <1>1 DEF UseInv
<1>3. frames \in Seq(KnownFrames(e))
  BY <1>1 DEF UseInv
<1>4. ASSUME frames # <<>> PROVE Top \in KnownFrames(e) /\ Up \in Seq(KnownFrames(e))
  <2>1. Len(frames) \in 1..Len(frames)
    BY <1>3, <1>4, LenProperties, EmptySeq
  <2> QED
    BY <1>3, <1>4, <2>1, ElementOfSeq, FrontType DEF Top, Up
<1> QED
  BY <1>2, <1>3, <1>4

(* Until a raise there is a current region.                                 *)
LEMMA RunningUse ==
    ASSUME UseInv, ir.err = "none"
    PROVE  TypeOK /\ ir \in Good /\ ir.stack # <<>>
BY Running DEF UseInv

(* A step that binds nothing and keeps the frames.                          *)
LEMMA QuietUse ==
    ASSUME UseInv, TypeOK', ir' \in Grown(ir), UNCHANGED <<scope, locals, frames>>
    PROVE  UseInv'
<1>1. ir' \in Good
  BY GrownTwice DEF UseInv
<1> QED
  BY <1>1, UseKept DEF UseInv

(* name = __tb.bind('name', value)                                          *)
LEMMA BindAsUse ==
    ASSUME UseInv, TypeOK', ir.stack # <<>>, NEW x \in Names, NEW r \in Extensions(ir),
           BindAs(x, r), frames' = frames
    PROVE  UseInv'
<1>1. /\ ir' = r.ir /\ scope' = Bind(scope, x, r.o)
      /\ locals' = [locals EXCEPT ![x] = r.o]
  BY DEF BindAs
<1>2. ir' \in Good /\ ir' \in Grown(ir) /\ r.o \in Known(ir')
  BY <1>1, ExtensionsUse DEF UseInv
<1>3. /\ scope.at \in [Names -> Known(ir')] /\ locals \in [Names -> Known(ir')]
      /\ frames' \in Seq(KnownFrames(ir'))
  BY <1>2, UseKept
<1>4. scope'.at \in [Names -> Known(ir')] /\ locals' \in [Names -> Known(ir')]
  BY <1>1, <1>2, <1>3, BindUse
<1> QED
  BY <1>2, <1>3, <1>4 DEF UseInv

(* Assignments to a name keep UseInv.                                       *)
LEMMA AssignUse ==
    ASSUME UseInv, NEW st \in Menu, Assign(st)
    PROVE  UseInv'
<1>1. /\ ir.err = "none" /\ BindAs(st.dst[1], Value(st)) /\ frames' = frames
      /\ st.s \in {"num", "name", "add", "load", "ifexp"}
  BY DEF Assign, Stmt, Reached
<1>2. st.dst[1] \in Names
  <2>1. Len(st.dst) = 1
    BY <1>1, StatementType DEF WellFormed, Shape
  <2> QED
    BY <2>1, TargetType
<1>3. TypeOK' /\ ir.stack # <<>> /\ Value(st) \in Extensions(ir)
  BY <1>1, RunningUse, AssignStep, ValueUse
<1> QED
  BY <1>1, <1>2, <1>3, BindAsUse

(* So does a tuple assignment.                                              *)
LEMMA TupleAssignUse ==
    ASSUME UseInv, NEW st \in Menu, TupleAssign(st)
    PROVE  UseInv'
<1> DEFINE o == Rvals(st.arg)
           first == Bind(scope, st.dst[1], o[1])
<1>1. /\ ir' = ir /\ frames' = frames
      /\ scope' = Bind(first, st.dst[2], o[2])
      /\ locals' = [locals EXCEPT ![st.dst[1]] = o[1], ![st.dst[2]] = o[2]]
      /\ st.s = "tuple"
  BY DEF TupleAssign
<1>2. Len(st.dst) = 2 /\ Len(st.arg) = 2
  BY <1>1, StatementType DEF WellFormed, Shape
<1>3. st.dst[1] \in Names /\ st.dst[2] \in Names
  BY <1>2, StatementType, ElementOfSeq
<1>4. o[1] \in Known(ir) /\ o[2] \in Known(ir)
  BY <1>2, StatementType, RvalsUse
<1> HIDE DEF o
<1>5. first.at \in [Names -> Known(ir)]
  BY <1>3, <1>4, BindUse DEF UseInv
<1> HIDE DEF first
<1>6. scope'.at \in [Names -> Known(ir)] /\ locals' \in [Names -> Known(ir)]
  BY <1>1, <1>3, <1>4, <1>5, BindUse DEF UseInv
<1>7. TypeOK'
  BY TupleAssignStep DEF UseInv
<1> QED
  BY <1>1, <1>6, <1>7 DEF UseInv

(* So does += on a name, whose left operand is the Python local.            *)
LEMMA AugAssignUse ==
    ASSUME UseInv, NEW st \in Menu, AugAssign(st)
    PROVE  UseInv'
<1> DEFINE sum == EmitValue(ir, "add", <<AugOperand(st.dst[1]), Rval(st.arg[1])>>)
<1>1. /\ ir.err = "none" /\ BindAs(st.dst[1], sum) /\ frames' = frames /\ st.s = "aug"
  BY DEF AugAssign, Stmt, Reached
<1>2. Len(st.dst) = 1 /\ Len(st.arg) = 1
  BY <1>1, StatementType DEF WellFormed, Shape
<1>3. st.dst[1] \in Names /\ Rval(st.arg[1]) \in Known(ir)
  BY <1>2, StatementType, TargetType, RvalsUse
<1>4. sum \in Extensions(ir)
  <2>1. AugOperand(st.dst[1]) \in Known(ir)
    BY <1>3 DEF AugOperand, UseInv
  <2>2. <<AugOperand(st.dst[1]), Rval(st.arg[1])>> \in Seq(Known(ir)) /\ "add" \in OpNames
    BY <1>3, <2>1, OperandsUse DEF OpNames
  <2> QED
    BY <1>1, <2>2, RunningUse, EmitValueUse
<1>5. TypeOK' /\ ir.stack # <<>>
  BY <1>1, RunningUse, AugAssignStep
<1> HIDE DEF sum
<1> QED
  BY <1>1, <1>3, <1>4, <1>5, BindAsUse

(* A store to the buffer uses what is known.                                *)
LEMMA StoreUse ==
    ASSUME NEW r \in Good, r.stack # <<>>, NEW v \in Known(r), NEW i \in Known(r)
    PROVE  Store(r, v, i) \in Grown(r)
<1>1. "store" \in OpNames /\ <<v, Buffer, i>> \in Seq(Known(r)) /\ <<>> \in Seq(Blocks)
  BY OperandsUse, BufferUse, EmptySeq DEF OpNames
<1>2. 0 \in Nat /\ 0 \in Int
  OBVIOUS
<1> QED
  BY <1>1, <1>2, EmitUse, Zenon DEF Store

(* So does an assignment to an element.                                     *)
LEMMA AssignSliceUse ==
    ASSUME UseInv, NEW st \in Menu, AssignSlice(st)
    PROVE  UseInv'
<1> DEFINE o == Rvals(st.arg)
<1>1. /\ ir.err = "none" /\ ir' = Store(ir, o[2], o[1])
      /\ UNCHANGED <<scope, locals, frames>> /\ st.s = "store"
  BY DEF AssignSlice, Stmt, Reached
<1>2. Len(st.arg) = 2
  BY <1>1, StatementType DEF WellFormed, Shape
<1>3. o[1] \in Known(ir) /\ o[2] \in Known(ir)
  BY <1>2, StatementType, RvalsUse
<1>4. ir' \in Grown(ir) /\ TypeOK'
  BY <1>1, <1>3, RunningUse, StoreUse, AssignSliceStep
<1> QED
  BY <1>1, <1>4, QuietUse

(* So does += on an element.                                                *)
LEMMA AugAssignSliceUse ==
    ASSUME UseInv, NEW st \in Menu, AugAssignSlice(st)
    PROVE  UseInv'
<1> DEFINE o == Rvals(st.arg)
           current == Load(ir, o[1])
           sum == EmitValue(current.ir, "add", <<current.o, o[2]>>)
<1>1. /\ ir.err = "none" /\ ir' = Store(sum.ir, sum.o, o[1])
      /\ UNCHANGED <<scope, locals, frames>> /\ st.s = "augstore"
  BY DEF AugAssignSlice, Stmt, Reached
<1>2. Len(st.arg) = 2
  BY <1>1, StatementType DEF WellFormed, Shape
<1>3. /\ o[1] \in Known(ir) /\ o[2] \in Known(ir)
      /\ TypeOK' /\ ir \in Good /\ ir.stack # <<>>
  BY <1>1, <1>2, StatementType, RvalsUse, RunningUse, AugAssignSliceStep
<1> HIDE DEF o
<1>4. current \in Extensions(ir)
  BY <1>3, LoadUse
<1> HIDE DEF current
<1>5. /\ current.ir \in Good /\ current.ir.stack # <<>> /\ current.o \in Known(current.ir)
      /\ o[1] \in Known(current.ir) /\ o[2] \in Known(current.ir)
      /\ Grown(current.ir) \subseteq Grown(ir)
  BY <1>3, <1>4, ExtensionsUse
<1>6. sum \in Extensions(current.ir)
  <2>1. "add" \in OpNames /\ <<current.o, o[2]>> \in Seq(Known(current.ir))
    BY <1>5, OperandsUse DEF OpNames
  <2> QED
    BY <1>5, <2>1, EmitValueUse, Zenon
<1> HIDE DEF sum
<1>7. /\ sum.ir \in Good /\ sum.ir.stack # <<>> /\ sum.o \in Known(sum.ir)
      /\ o[1] \in Known(sum.ir) /\ Grown(sum.ir) \subseteq Grown(current.ir)
  BY <1>5, <1>6, ExtensionsUse
<1>8. ir' \in Grown(sum.ir)
  BY <1>1, <1>7, StoreUse
<1> QED
  BY <1>1, <1>3, <1>5, <1>7, <1>8, QuietUse

(* So does a return.                                                        *)
LEMMA ReturnUse ==
    ASSUME UseInv, NEW st \in Menu, Return(st)
    PROVE  UseInv'
<1>1. /\ ir.err = "none" /\ ir' = Emit(ir, "return", Rvals(st.arg), 0, <<>>, 0)
      /\ UNCHANGED <<scope, locals, frames>>
  BY DEF Return, Stmt, Reached
<1>2. /\ "return" \in OpNames /\ Rvals(st.arg) \in Seq(Known(ir)) /\ <<>> \in Seq(Blocks)
      /\ 0 \in Nat /\ 0 \in Int
  BY StatementType, RvalsUse, EmptySeq DEF OpNames, Terminators
<1>3. ir \in Good /\ ir.stack # <<>> /\ TypeOK'
  BY <1>1, RunningUse, ReturnStep
<1>4. ir' \in Grown(ir)
  BY <1>1, <1>2, <1>3, EmitUse, Zenon
<1> QED
  BY <1>1, <1>3, <1>4, QuietUse

(* A step that ends the innermost statement and binds nothing.              *)
LEMMA LeaveUse ==
    ASSUME UseInv, TypeOK', frames # <<>>, ir' \in Grown(ir), frames' = Up,
           UNCHANGED <<scope, locals>>
    PROVE  UseInv'
<1>1. ir' \in Good
  BY GrownTwice DEF UseInv
<1> QED
  BY <1>1, UseKept DEF UseInv

(* A break in a loop body: what the scope got in it stays known.            *)
LEMMA AbandonLoopUse ==
    ASSUME UseInv, NEW st \in Menu, AbandonLoop(st)
    PROVE  UseInv'
<1>1. /\ ir.err = "none" /\ frames # <<>> /\ ir' = PopRegion(ir) /\ frames' = Up
      /\ UNCHANGED <<scope, locals>>
  BY DEF AbandonLoop, Stmt, Reached
<1>2. TypeOK' /\ ir' \in Grown(ir)
  BY <1>1, RunningUse, AbandonLoopStep, PopRegionUse
<1> QED
  BY <1>1, <1>2, LeaveUse

(* The innermost frame stays what it was but for its branch and skip.       *)
LEMMA TopChangeUse ==
    ASSUME UseInv, frames # <<>>, NEW e \in Grown(ir),
           NEW branch \in {"then", "else"}, NEW skip \in BOOLEAN
    PROVE  LET f == [Top EXCEPT !.branch = branch, !.skip = skip]
           IN  [frames EXCEPT ![Len(frames)] = f] \in Seq(KnownFrames(e))
<1> DEFINE n == Len(frames)
           f == [Top EXCEPT !.branch = branch, !.skip = skip]
<1>1. frames \in Seq(KnownFrames(e)) /\ Top \in KnownFrames(e)
  BY UseKept
<1>2. n \in Nat /\ DOMAIN frames = 1..n /\ frames \in [1..n -> KnownFrames(e)]
  BY <1>1, LenProperties
<1>3. f \in Frames /\ f.body = Top.body /\ f.objs = Top.objs /\ f.before = Top.before
  BY <1>1 DEF KnownFrames, Frames
<1>4. f \in KnownFrames(e)
  BY <1>1, <1>3 DEF KnownFrames
<1> HIDE DEF f
<1>5. [frames EXCEPT ![n] = f] \in [1..n -> KnownFrames(e)]
  BY <1>2, <1>4
<1> QED
  BY <1>2, <1>5, FunctionIsSeq DEF f

(* break or continue in a branch, continue in a loop, keep UseInv.          *)
LEMMA SkipRestUse ==
    ASSUME UseInv, NEW st \in Menu, SkipRest(st)
    PROVE  UseInv'
<1> DEFINE f == [Top EXCEPT !.branch = Top.branch, !.skip = TRUE]
<1>1. /\ InLoop /\ frames' = [frames EXCEPT ![Len(frames)].skip = TRUE]
      /\ UNCHANGED <<ir, scope, locals>>
  BY DEF SkipRest
<1>2. frames # <<>> /\ TypeOK /\ TypeOK' /\ ir \in Grown(ir)
  BY <1>1, EmptySeq, SkipRestStep, GrownSelf DEF InLoop, UseInv
<1>3. Top \in Frames
  BY <1>2, TopType
<1>4. f = [Top EXCEPT !.skip = TRUE] /\ Top.branch \in {"then", "else"}
  BY <1>3 DEF Frames
<1>5. frames' = [frames EXCEPT ![Len(frames)] = f]
  BY <1>1, <1>4 DEF Top
<1>6. frames' \in Seq(KnownFrames(ir))
  BY <1>2, <1>4, <1>5, TopChangeUse
<1> QED
  BY <1>1, <1>2, <1>6 DEF UseInv

(* Going from ctx_then to ctx_else: so do the names bound in the branch.    *)
LEMMA EnterElseUse ==
    ASSUME UseInv, EnterElse
    PROVE  UseInv'
<1> DEFINE f == [Top EXCEPT !.branch = "else", !.skip = FALSE]
<1>1. /\ ir.err = "none" /\ frames # <<>> /\ Top.s.s = "if"
      /\ ir' = PushRegion(PopRegion(ir), Top.other)
      /\ frames' = [frames EXCEPT ![Len(frames)].branch = "else",
                                  ![Len(frames)].skip = FALSE]
      /\ UNCHANGED <<scope, locals>>
  BY DEF EnterElse
<1>2. TypeOK /\ TypeOK' /\ ir \in Good /\ ir.stack # <<>>
  BY <1>1, RunningUse, EnterElseStep
<1>3. Top \in Frames /\ Top.other \in Blocks /\ frames \in Seq(Frames) /\ Len(frames) \in Nat \ {0}
  BY <1>1, <1>2, TopType DEF Frames, Blocks, TypeOK
<1>4. ir' \in Grown(ir) /\ ir' \in Good
  <2>1. PopRegion(ir) \in Grown(ir) /\ PopRegion(ir) \in Good
    BY <1>2, PopRegionUse, GrownTwice
  <2>2. ir' \in Grown(PopRegion(ir))
    BY <1>1, <1>3, <2>1, PushRegionUse
  <2> QED
    BY <1>2, <2>1, <2>2, GrownTwice
<1>5. frames' = [frames EXCEPT ![Len(frames)] = f]
  <2>1. Len(frames) \in DOMAIN frames
    BY <1>3, LenProperties
  <2> QED
    BY <1>1, <1>3, <2>1 DEF Top
<1>6. frames' \in Seq(KnownFrames(ir'))
  BY <1>1, <1>4, <1>5, TopChangeUse
<1>7. scope'.at \in [Names -> Known(ir')] /\ locals' \in [Names -> Known(ir')]
  BY <1>1, <1>4, UseKept
<1> QED
  BY <1>2, <1>4, <1>6, <1>7 DEF UseInv

(* The operation of an if, a while or a kernel.                             *)
LEMMA CloseRegionUse ==
    ASSUME NEW r \in Good, Len(r.stack) > 1, NEW name \in OpNames, NEW objs \in Seq(Known(r)),
           NEW regions \in Seq(Blocks), NEW attr \in Int
    PROVE  Emit(PopRegion(r), name, objs, 0, regions, attr) \in Grown(r)
<1> DEFINE outer == PopRegion(r)
<1>1. r \in IRs /\ r.stack # <<>> /\ Len(r.stack) \in Nat
  BY LenProperties, EmptySeq DEF Good, IRs
<1>2. outer \in Grown(r) /\ outer \in Good /\ Len(outer.stack) = Len(r.stack) - 1
  BY <1>1, PopRegionUse, PopRegionType, GrownTwice
<1> HIDE DEF outer
<1>3. outer.stack # <<>> /\ 0 \in Nat
  BY <1>1, <1>2
<1>4. objs \in Seq(Known(outer))
  BY <1>2, GrownKnown
<1>5. Emit(outer, name, objs, 0, regions, attr) \in Grown(outer)
  BY <1>2, <1>3, <1>4, EmitUse, Zenon
<1> QED
  BY <1>2, <1>5, GrownTwice DEF outer

(* What the end of an if, a while or a kernel finds.                        *)
LEMMA ClosingUse ==
    ASSUME UseInv, ir.err = "none", frames # <<>>
    PROVE  /\ TypeOK /\ ir \in Good /\ Len(ir.stack) > 1 /\ Top \in Frames
           /\ Top.objs \in Seq(Known(ir))
<1>1. TypeOK /\ ir \in Good /\ ir \in Grown(ir)
  BY GrownSelf DEF UseInv
<1>2. Len(frames) \in Nat \ {0} /\ Len(ir.stack) = Len(frames) + 1
  BY <1>1, TopType, Running
<1>3. Top \in KnownFrames(ir)
  BY <1>1, UseKept
<1> QED
  BY <1>1, <1>2, <1>3 DEF KnownFrames

(* The end of ctx_if keeps UseInv.                                          *)
LEMMA ExitIfUse ==
    ASSUME UseInv, ExitIf
    PROVE  UseInv'
<1>1. /\ ir.err = "none" /\ frames # <<>> /\ Top.s.s = "if"
      /\ ir' = Emit(PopRegion(ir), "if", Top.objs, 0, IfRegions(Top), 0)
      /\ frames' = Up /\ UNCHANGED <<scope, locals>>
  BY DEF ExitIf
<1>2. /\ TypeOK' /\ ir \in Good /\ Len(ir.stack) > 1 /\ Top.objs \in Seq(Known(ir))
      /\ Top \in Frames
  BY <1>1, ClosingUse, ExitIfStep
<1>3. "if" \in OpNames /\ IfRegions(Top) \in Seq(Blocks) /\ 0 \in Int
  <2>1. Top.body \in Blocks /\ Top.other \in Blocks
    BY <1>1, <1>2 DEF Frames, Blocks
  <2>2. <<Top.body>> \in Seq(Blocks) /\ <<Top.body, Top.other>> \in Seq(Blocks)
    BY <2>1
  <2> QED
    BY <2>2 DEF IfRegions, OpNames
<1>4. ir' \in Grown(ir)
  BY <1>1, <1>2, <1>3, CloseRegionUse, Zenon
<1> QED
  BY <1>1, <1>2, <1>4, LeaveUse

(* So does the end of ctx_while.                                            *)
LEMMA ExitWhileUse ==
    ASSUME UseInv, ExitWhile
    PROVE  UseInv'
<1>1. /\ ir.err = "none" /\ frames # <<>> /\ Top.s.s = "while"
      /\ ir' = Emit(PopRegion(ir), "while", <<>>, 0, <<Top.other, Top.body>>, 0)
      /\ frames' = Up /\ UNCHANGED <<scope, locals>>
  BY DEF ExitWhile
<1>2. TypeOK' /\ ir \in Good /\ Len(ir.stack) > 1 /\ Top \in Frames
  BY <1>1, ClosingUse, ExitWhileStep
<1>3. /\ "while" \in OpNames /\ <<>> \in Seq(Known(ir))
      /\ <<Top.other, Top.body>> \in Seq(Blocks) /\ 0 \in Int
  BY <1>1, <1>2, EmptySeq DEF OpNames, Frames, Blocks
<1>4. ir' \in Grown(ir)
  BY <1>1, <1>2, <1>3, CloseRegionUse, Zenon
<1> QED
  BY <1>1, <1>2, <1>4, LeaveUse

(* So does the end of ctx_kernel.                                           *)
LEMMA ExitKernelUse ==
    ASSUME UseInv, ExitKernel
    PROVE  UseInv'
<1>1. /\ ir.err = "none" /\ frames # <<>>
      /\ ir' = Emit(PopRegion(ir), "kernel", Top.objs, 0, <<Top.body>>, 1)
      /\ frames' = Up /\ UNCHANGED <<scope, locals>>
  BY DEF ExitKernel
<1>2. /\ TypeOK' /\ ir \in Good /\ Len(ir.stack) > 1 /\ Top.objs \in Seq(Known(ir))
      /\ Top \in Frames
  BY <1>1, ClosingUse, ExitKernelStep
<1>3. "kernel" \in OpNames /\ <<Top.body>> \in Seq(Blocks) /\ 1 \in Int
  BY <1>2 DEF OpNames, Frames
<1>4. ir' \in Grown(ir)
  BY <1>1, <1>2, <1>3, CloseRegionUse, Zenon
<1> QED
  BY <1>1, <1>2, <1>4, LeaveUse

(* A step that suspends one more generator, which holds what is known.      *)
LEMMA EnterUse ==
    ASSUME UseInv, TypeOK', ir' \in Grown(ir), NEW f, frames' = Append(frames, f),
           f.body <= Len(ir'.args), f.objs \in Seq(Known(ir')),
           f.before.at \in [Names -> Known(ir')],
           scope'.at \in [Names -> Known(ir')], locals' \in [Names -> Known(ir')]
    PROVE  UseInv'
<1>1. ir' \in Good
  BY GrownTwice DEF UseInv
<1>2. frames \in Seq(KnownFrames(ir'))
  BY UseKept
<1>3. f \in Frames
  <2>1. Append(frames, f) \in Seq(Frames)
    BY DEF TypeOK, Frames
  <2>2. Len(frames) \in Nat /\ Append(frames, f)[Len(frames) + 1] = f
        /\ Len(Append(frames, f)) = Len(frames) + 1
    BY <1>2, LenProperties, AppendProperties
  <2> QED
    BY <2>1, <2>2, ElementOfSeq
<1>4. f \in KnownFrames(ir')
  BY <1>3 DEF KnownFrames
<1>5. frames' \in Seq(KnownFrames(ir'))
  BY <1>2, <1>4, AppendProperties
<1> QED
  BY <1>1, <1>5 DEF UseInv

(* A new block is the last, so it may be given arguments.                   *)
LEMMA NewBlockUse ==
    ASSUME NEW r \in Good
    PROVE  /\ NewRegion(r) \in Good /\ Grown(NewRegion(r)) \subseteq Grown(r)
           /\ NewRegion(r).stack = r.stack
           /\ LastRegion(NewRegion(r)) \in 1..Len(NewRegion(r).args)
           /\ LastRegion(NewRegion(r)) \in Blocks
<1>1. r \in IRs /\ NewRegion(r) \in Grown(r)
  BY NewRegionUse DEF Good
<1>2. NewRegion(r) \in Good /\ Grown(NewRegion(r)) \subseteq Grown(r)
  BY <1>1, GrownTwice
<1>3. NewRegion(r).stack = r.stack /\ LastRegion(NewRegion(r)) \in Blocks
  BY <1>1, NewRegionType
<1> QED
  BY <1>2, <1>3 DEF LastRegion, Blocks

(* ctx_kernel up to its yield: the local it binds is a block argument.      *)
LEMMA EnterKernelUse ==
    ASSUME UseInv, NEW st \in Menu, EnterKernel(st)
    PROVE  UseInv'
<1> DEFINE entry == NewRegion(ir)
           body == LastRegion(entry)
           opened == NewArgs(entry, body, 1)
           f == Frame(st, body, 0, Rvals(st.arg), scope)
<1>1. /\ ir.err = "none"
      /\ ir' = PushRegion(opened, body)
      /\ locals' = [locals EXCEPT ![st.dst[1]] = Val(entry.next)]
      /\ frames' = Append(frames, f)
      /\ UNCHANGED scope
  BY DEF EnterKernel, Compound, Stmt, Reached
<1>2. TypeOK /\ TypeOK' /\ ir \in Good /\ Rvals(st.arg) \in Seq(Known(ir))
  BY <1>1, RunningUse, EnterKernelStep, StatementType, RvalsUse
<1>3. /\ entry \in Good /\ Grown(entry) \subseteq Grown(ir)
      /\ body \in 1..Len(entry.args) /\ body \in Blocks
  BY <1>2, NewBlockUse
<1> HIDE DEF entry, body
<1>4. /\ opened \in Grown(entry) /\ opened \in Good /\ Len(opened.args) = Len(entry.args)
      /\ entry.next \in BlockArgs(opened)
  <2>1. 1 \in Nat /\ entry \in IRs
    BY <1>3 DEF Good
  <2>2. /\ opened \in Grown(entry) /\ \A j \in 1..1 : Fresh(entry, 1)[j] \in BlockArgs(opened)
        /\ \A j \in 1..1 : Fresh(entry, 1)[j] = entry.next + j - 1
        /\ Len(opened.args) = Len(entry.args)
    BY <1>3, <2>1, NewArgsUse, FreshType, NewArgsType, Zenon
  <2>3. entry.next \in Nat
    BY <2>1 DEF IRs, Ids
  <2> QED
    BY <1>3, <2>2, <2>3, GrownTwice
<1> HIDE DEF opened
<1>5. ir' \in Grown(opened) /\ ir'.args = opened.args
  BY <1>1, <1>3, <1>4, PushRegionUse, PushRegionType DEF Good
<1>6. ir' \in Grown(entry) /\ ir' \in Grown(ir)
  BY <1>3, <1>4, <1>5, GrownTwice
<1>7. /\ scope.at \in [Names -> Known(ir')] /\ locals \in [Names -> Known(ir')]
      /\ Rvals(st.arg) \in Seq(Known(ir'))
  BY <1>2, <1>6, UseKept, GrownKnown
<1>8. locals' \in [Names -> Known(ir')]
  <2>1. entry.next \in KnownIds(ir')
    <3>1. entry.next \in Defined(opened) /\ entry.next \in Ids
      BY <1>3, <1>4 DEF Defined, Good, IRs
    <3> QED
      BY <1>5, <3>1 DEF Grown, KnownIds
  <2>2. Val(entry.next) \in Known(ir')
    BY <2>1, ValUse
  <2> QED
    BY <1>1, <1>7, <2>2
<1>9. f.body = body /\ f.objs = Rvals(st.arg) /\ f.before = scope
  BY DEF Frame
<1>10. f.body <= Len(ir'.args)
  BY <1>3, <1>4, <1>5, <1>9
<1> HIDE DEF f
<1> QED
  BY <1>1, <1>2, <1>6, <1>7, <1>8, <1>9, <1>10, EnterUse

(* ctx_if up to its yield holds the id of the condition.                    *)
LEMMA EnterIfUse ==
    ASSUME UseInv, NEW st \in Menu, EnterIf(st)
    PROVE  UseInv'
<1> DEFINE o == Rvals(st.arg)
           cond == Condition(ir, st.c, o[1], o[2])
           tested == Ensure(cond.ir, <<cond.o>>)
           first == NewRegion(tested)
           entry == NewRegion(first)
           body == LastRegion(entry) - 1
           id == EnsureIds(cond.ir, <<cond.o>>)[1]
           f == Frame(st, body, body + 1, <<Val(id)>>, scope)
<1>1. /\ ir.err = "none" /\ st.s = "if"
      /\ ir' = PushRegion(entry, body)
      /\ frames' = Append(frames, f)
      /\ UNCHANGED <<scope, locals>>
  BY DEF EnterIf, Compound, Stmt, Reached
<1>2. st.c \in Conditions /\ Len(st.arg) = 2
  BY <1>1, StatementType DEF WellFormed, Shape
<1>3. /\ TypeOK /\ TypeOK' /\ ir \in Good /\ ir.stack # <<>>
      /\ o[1] \in Known(ir) /\ o[2] \in Known(ir)
  BY <1>1, <1>2, RunningUse, EnterIfStep, StatementType, RvalsUse
<1> HIDE DEF o
<1>4. cond \in Extensions(ir)
  BY <1>2, <1>3, ConditionUse
<1> HIDE DEF cond
<1>5. /\ cond.ir \in Good /\ cond.ir.stack # <<>> /\ <<cond.o>> \in Seq(Known(cond.ir))
      /\ Grown(cond.ir) \subseteq Grown(ir)
  BY <1>3, <1>4, ExtensionsUse, OperandsUse
<1>6. /\ tested \in Good /\ Grown(tested) \subseteq Grown(ir) /\ id \in KnownIds(tested)
  <2>1. /\ tested \in Grown(cond.ir)
        /\ EnsureIds(cond.ir, <<cond.o>>) \in Seq(KnownIds(tested))
    BY <1>5, EnsureUse, Zenon
  <2>2. DOMAIN EnsureIds(cond.ir, <<cond.o>>) = DOMAIN <<cond.o>>
    BY DEF EnsureIds
  <2>3. 1 \in DOMAIN EnsureIds(cond.ir, <<cond.o>>)
    BY <2>2
  <2>4. id \in KnownIds(tested)
    BY <2>1, <2>3, LenProperties, ElementOfSeq
  <2> QED
    BY <1>5, <2>1, <2>4, GrownTwice
<1> HIDE DEF tested, id
<1>7. first \in Good /\ Grown(first) \subseteq Grown(tested) /\ Len(first.args) \in Nat \ {0}
  <2>1. first \in Good /\ Grown(first) \subseteq Grown(tested) /\ LastRegion(first) \in Blocks
    BY <1>6, NewBlockUse
  <2> QED
    BY <2>1 DEF LastRegion, Blocks
<1> HIDE DEF first
<1>8. /\ entry \in Good /\ Grown(entry) \subseteq Grown(first)
      /\ body \in 1..Len(entry.args) /\ body \in Blocks
  <2>1. /\ entry \in Good /\ Grown(entry) \subseteq Grown(first)
        /\ Len(entry.args) = Len(first.args) + 1
    BY <1>7, NewBlockUse, NewRegionType DEF Good
  <2> QED
    BY <1>7, <2>1 DEF LastRegion, Blocks
<1> HIDE DEF entry, body
<1>9. ir' \in Grown(entry) /\ ir'.args = entry.args
  BY <1>1, <1>8, PushRegionUse, PushRegionType DEF Good
<1>10. ir' \in Grown(ir) /\ ir' \in Grown(tested)
  BY <1>6, <1>7, <1>8, <1>9
<1>11. scope.at \in [Names -> Known(ir')] /\ locals \in [Names -> Known(ir')]
  BY <1>10, UseKept
<1>12. <<Val(id)>> \in Seq(Known(ir'))
  <2>1. Val(id) \in Known(ir')
    BY <1>6, <1>10, GrownKnown, ValUse
  <2> QED
    BY <2>1
<1>13. f.body = body /\ f.objs = <<Val(id)>> /\ f.before = scope
  BY DEF Frame
<1>14. f.body <= Len(ir'.args)
  BY <1>8, <1>9, <1>13
<1> HIDE DEF f
<1> QED
  BY <1>1, <1>3, <1>10, <1>11, <1>12, <1>13, <1>14, EnterUse

(* ctx_while up to its yield holds no operand.                              *)
LEMMA EnterWhileUse ==
    ASSUME UseInv, NEW st \in Menu, EnterWhile(st)
    PROVE  UseInv'
<1> DEFINE entry == NewRegion(ir)
           test == LastRegion(entry)
           o == Rvals(st.arg)
           pushed == PushRegion(entry, test)
           cond == Condition(pushed, st.c, o[1], o[2])
           yielded == Emit(cond.ir, "yield", <<cond.o>>, 0, <<>>, 0)
           popped == PopRegion(yielded)
           done == NewRegion(popped)
           f == Frame(st, test + 1, test, <<>>, scope)
<1>1. /\ ir.err = "none" /\ st.s = "while"
      /\ ir' = PushRegion(done, test + 1)
      /\ frames' = Append(frames, f)
      /\ UNCHANGED <<scope, locals>>
  BY DEF EnterWhile, Compound, Stmt, Reached
<1>2. st.c \in Conditions /\ Len(st.arg) = 2
  BY <1>1, StatementType DEF WellFormed, Shape
<1>3. /\ TypeOK /\ TypeOK' /\ ir \in Good /\ o[1] \in Known(ir) /\ o[2] \in Known(ir)
  BY <1>1, <1>2, RunningUse, EnterWhileStep, StatementType, RvalsUse
<1> HIDE DEF o
<1>4. /\ entry \in Good /\ Grown(entry) \subseteq Grown(ir)
      /\ test \in Blocks /\ test = Len(entry.args)
  BY <1>3, NewBlockUse DEF LastRegion
<1> HIDE DEF entry, test
<1>5. /\ pushed \in Grown(entry) /\ pushed \in Good /\ pushed.stack # <<>>
      /\ pushed.args = entry.args
  BY <1>4, PushRegionUse, PushRegionType, GrownTwice DEF Good
<1> HIDE DEF pushed
<1>6. o[1] \in Known(pushed) /\ o[2] \in Known(pushed)
  BY <1>3, <1>4, <1>5, GrownKnown
<1>7. cond \in Extensions(pushed)
  BY <1>2, <1>5, <1>6, ConditionUse
<1> HIDE DEF cond
<1>8. /\ cond.ir \in Good /\ cond.ir.stack # <<>> /\ <<cond.o>> \in Seq(Known(cond.ir))
      /\ Grown(cond.ir) \subseteq Grown(pushed) /\ cond.ir.args = entry.args
  BY <1>5, <1>7, ExtensionsUse, OperandsUse
<1>9. /\ yielded \in Grown(cond.ir) /\ yielded \in Good /\ yielded.stack # <<>>
      /\ yielded.args = entry.args
  <2>1. "yield" \in OpNames /\ <<>> \in Seq(Blocks) /\ 0 \in Nat /\ 0 \in Int
    BY EmptySeq DEF OpNames, Terminators
  <2>2. yielded \in Grown(cond.ir)
    BY <1>8, <2>1, EmitUse, Zenon
  <2>3. cond.ir \in IRs /\ <<cond.o>> \in Seq(Objs)
    BY <1>8 DEF Good, Known
  <2>4. yielded \in Emitted(cond.ir)
    BY <1>8, <2>1, <2>3, EmitType, Zenon
  <2> QED
    BY <1>8, <2>2, <2>4, GrownTwice DEF Emitted
<1> HIDE DEF yielded
<1>10. /\ popped \in Grown(yielded) /\ popped \in Good /\ popped.args = entry.args
  BY <1>9, PopRegionUse, PopRegionType, GrownTwice DEF Good
<1> HIDE DEF popped
<1>11. /\ done \in Good /\ Grown(done) \subseteq Grown(popped)
       /\ Len(done.args) = test + 1 /\ test + 1 \in Blocks
  BY <1>4, <1>10, NewBlockUse, NewRegionType DEF Good, Blocks
<1> HIDE DEF done
<1>12. ir' \in Grown(done) /\ ir'.args = done.args
  BY <1>1, <1>11, PushRegionUse, PushRegionType DEF Good
<1>13. ir' \in Grown(ir)
  BY <1>3, <1>4, <1>5, <1>8, <1>9, <1>10, <1>11, <1>12, GrownTwice
<1>14. scope.at \in [Names -> Known(ir')] /\ locals \in [Names -> Known(ir')]
  BY <1>13, UseKept
<1>15. f.body = test + 1 /\ f.objs = <<>> /\ f.before = scope
  BY DEF Frame
<1>16. f.body <= Len(ir'.args) /\ <<>> \in Seq(Known(ir'))
  BY <1>11, <1>12, <1>15, EmptySeq DEF Blocks
<1> HIDE DEF f
<1> QED
  BY <1>1, <1>3, <1>13, <1>14, <1>15, <1>16, EnterUse

(* ctx_for up to its yield holds the bounds and the scope before it.        *)
LEMMA EnterForUse ==
    ASSUME UseInv, NEW st \in Menu, EnterFor(st)
    PROVE  UseInv'
<1> DEFINE consts == Ensure(ir, Objects(scope))
           entry == NewRegion(consts)
           body == LastRegion(entry)
           n == Len(st.dst)
           opened == NewArgs(entry, body, n)
           ivs == [j \in DOMAIN st.dst |-> Val(Fresh(entry, n)[j])]
           before == Materialised(scope, ir)
           f == Frame(st, body, 0, Dims(st), before)
<1>1. /\ ir.err = "none" /\ st.s \in LoopKinds
      /\ ir' = PushRegion(opened, body)
      /\ scope' = BindAll(before, st.dst, ivs)
      /\ locals' = [x \in Names |-> IF \E j \in DOMAIN st.dst : st.dst[j] = x
                                    THEN scope'.at[x] ELSE locals[x]]
      /\ frames' = Append(frames, f)
  BY DEF EnterFor, Compound, Stmt, Reached
<1>2. /\ TypeOK /\ TypeOK' /\ ir \in Good /\ ir.stack # <<>> /\ Dims(st) \in Seq(Known(ir))
      /\ scope \in Scopes /\ scope.at \in [Names -> Known(ir)]
  BY <1>1, RunningUse, EnterForStep, DimsUse DEF UseInv, TypeOK
<1>3. /\ consts \in Grown(ir) /\ consts \in Good
      /\ before.at \in [Names -> Known(consts)]
  BY <1>2, ObjectsUse, EnsureUse, MaterialisedUse, GrownTwice
<1> HIDE DEF consts, before
<1>4. /\ entry \in Good /\ Grown(entry) \subseteq Grown(consts)
      /\ body \in 1..Len(entry.args) /\ body \in Blocks
  BY <1>3, NewBlockUse
<1>5. st.dst \in Seq(Names) /\ n \in Nat /\ DOMAIN st.dst = 1..n
  BY StatementType, LenProperties
<1> HIDE DEF entry, body, n
<1>6. /\ opened \in Grown(entry) /\ opened \in Good /\ Len(opened.args) = Len(entry.args)
      /\ \A j \in 1..n : Fresh(entry, n)[j] \in BlockArgs(opened) /\ Fresh(entry, n)[j] \in Ids
  <2>1. entry \in IRs
    BY <1>4 DEF Good
  <2>2. /\ opened \in Grown(entry) /\ \A j \in 1..n : Fresh(entry, n)[j] \in BlockArgs(opened)
        /\ Fresh(entry, n) \in Seq(Ids) /\ DOMAIN Fresh(entry, n) = 1..n
        /\ Len(opened.args) = Len(entry.args)
    BY <1>4, <1>5, <2>1, NewArgsUse, FreshType, NewArgsType, Zenon
  <2>3. \A j \in 1..n : Fresh(entry, n)[j] \in Ids
    BY <2>2, LenProperties, ElementOfSeq
  <2> QED
    BY <1>4, <2>2, <2>3, GrownTwice
<1>7. ir' \in Grown(opened) /\ ir'.args = opened.args
  BY <1>1, <1>4, <1>6, PushRegionUse, PushRegionType DEF Good
<1>8. ir' \in Grown(consts) /\ ir' \in Grown(ir)
  BY <1>2, <1>3, <1>4, <1>6, <1>7, GrownTwice
<1>9. /\ before.at \in [Names -> Known(ir')] /\ locals \in [Names -> Known(ir')]
      /\ Dims(st) \in Seq(Known(ir'))
  BY <1>2, <1>3, <1>8, UseKept, GrownKnown
<1>10. \A j \in DOMAIN st.dst : ivs[j] \in Known(ir')
  <2>1. \A j \in 1..n : Fresh(entry, n)[j] \in KnownIds(ir')
    BY <1>6, <1>7 DEF Defined, Grown, KnownIds
  <2> QED
    BY <1>5, <2>1, ValUse
<1> HIDE DEF ivs, opened
<1>11. scope'.at \in [Names -> Known(ir')]
  BY <1>1, <1>9, <1>10, BindAllUse
<1>12. locals' \in [Names -> Known(ir')]
  BY <1>1, <1>9, <1>11
<1>13. f.body = body /\ f.objs = Dims(st) /\ f.before = before
  BY DEF Frame
<1>14. f.body <= Len(ir'.args)
  BY <1>4, <1>6, <1>7, <1>13
<1> HIDE DEF f
<1> QED
  BY <1>1, <1>2, <1>8, <1>9, <1>11, <1>12, <1>13, <1>14, EnterUse

(* The end of ctx_for binds the carried names to the results of the loop.   *)
LEMMA ExitForUse ==
    ASSUME UseInv, ExitFor
    PROVE  UseInv'
<1> DEFINE names == Pick(Top.before.order, Carried(ir, Top.before, scope))
           n == Len(names)
           vals == [j \in DOMAIN names |-> Val(ir'.next - n + j - 1)]
<1>1. /\ ir.err = "none" /\ frames # <<>> /\ Top.s.s \in LoopKinds
      /\ ir' = CloseLoop(ir, Top, names, scope)
      /\ scope' = IF ir'.err = "none" THEN Rebound(scope, names, ir') ELSE scope
      /\ frames' = Up /\ UNCHANGED locals
  BY DEF ExitFor
<1>2. /\ TypeOK /\ TypeOK' /\ ir \in Good /\ ir \in Grown(ir) /\ Len(ir.stack) > 1
      /\ scope \in Scopes /\ scope.at \in [Names -> Known(ir)]
  BY <1>1, ClosingUse, ExitForStep, GrownSelf DEF UseInv, TypeOK
<1>3. Top \in KnownFrames(ir) /\ Top.before \in Scopes
  BY <1>1, <1>2, UseKept DEF KnownFrames, Frames
<1>4. /\ ir' \in Grown(ir)
      /\ ir'.err = "none" => \A j \in 1..n : ir'.next - n + j - 1 \in Defined(ir')
  BY <1>1, <1>2, <1>3, CloseLoopUse
<1>5. ir'.err = "none" => ir'.next > n
  BY <1>1, <1>2, <1>3, CloseLoopType DEF KnownFrames, Good
<1>6. n \in Nat /\ DOMAIN names = 1..n
  BY <1>2, <1>3, CarriedType DEF Good
<1> HIDE DEF names, n
<1>7. /\ scope.at \in [Names -> Known(ir')] /\ locals' \in [Names -> Known(ir')]
      /\ frames' \in Seq(KnownFrames(ir')) /\ ir' \in Good
  BY <1>1, <1>2, <1>4, UseKept, GrownTwice
<1>8. scope'.at \in [Names -> Known(ir')]
  <2>1. CASE ir'.err = "none"
    <3>1. ir'.next \in Nat
      BY <1>7 DEF Good, IRs, Ids
    <3>2. \A j \in 1..n : ir'.next - n + j - 1 \in KnownIds(ir')
      BY <1>4, <1>5, <1>6, <2>1, <3>1 DEF KnownIds, Ids
    <3>3. \A j \in DOMAIN names : vals[j] \in Known(ir')
      BY <1>6, <3>2, ValUse
    <3> HIDE DEF vals
    <3>4. BindAll(scope, names, vals).at \in [Names -> Known(ir')]
      BY <1>7, <3>3, BindAllUse
    <3> QED
      BY <1>1, <2>1, <3>4 DEF Rebound, vals, n
  <2>2. CASE ir'.err # "none"
    BY <1>1, <1>7, <2>2
  <2> QED
    BY <2>1, <2>2
<1> QED
  BY <1>2, <1>7, <1>8 DEF UseInv

(***************************************************************************)
(* The theorem.                                                             *)
(***************************************************************************)
(* The prologue has defined the buffer, and bound numbers only.             *)
LEMMA InitUse == Init => UseInv
<1> SUFFICES ASSUME Init PROVE UseInv
  OBVIOUS
<1>1. /\ ir.ops = <<>> /\ ir.args = <<<<0>>>>
      /\ scope = InitialScope /\ locals = InitialScope.at /\ frames = <<>>
  BY DEF Init
<1>2. TypeOK
  BY InitType
<1>3. 0 \in Defined(ir)
  <2>1. 1 \in DOMAIN ir.args /\ 1 \in DOMAIN ir.args[1] /\ ir.args[1][1] = 0
    BY <1>1
  <2> QED
    BY <2>1 DEF Defined, BlockArgs
<1>4. ir \in Good
  BY <1>1, <1>2, <1>3 DEF Good, UsesDefined, TypeOK
<1>5. \A x \in Names : IsNum(InitialScope.at[x]) \/ InitialScope.at[x] = Unbound
  BY DEF InitialScope, Num, IsNum
<1>6. InitialScope.at \in [Names -> Known(ir)]
  <2>1. InitialScope.at \in [Names -> Objs] /\ Unbound.n = 0
    BY InitialScopeType DEF Scopes, Unbound
  <2> QED
    BY <1>3, <1>5, <2>1 DEF Known, KnownIds, Ids
<1>7. frames \in Seq(KnownFrames(ir))
  BY <1>1, EmptySeq
<1> QED
  BY <1>1, <1>2, <1>4, <1>6, <1>7 DEF UseInv

(* Every step keeps UseInv.                                                 *)
LEMMA NextUse == UseInv /\ [Next]_vars => UseInv'
<1> SUFFICES ASSUME UseInv, [Next]_vars PROVE UseInv'
  OBVIOUS
<1>1. ASSUME UNCHANGED vars PROVE UseInv'
  <2>1. TypeOK'
    BY NextType DEF UseInv
  <2>2. ir' \in Grown(ir)
    BY <1>1, GrownSelf DEF vars, UseInv
  <2> QED
    BY <1>1, <2>1, <2>2, QuietUse DEF vars
<1>2. ASSUME NEW st \in Menu,
             \/ Assign(st) \/ TupleAssign(st) \/ AugAssign(st)
             \/ AssignSlice(st) \/ AugAssignSlice(st) \/ Return(st)
             \/ EnterFor(st) \/ EnterIf(st) \/ EnterWhile(st) \/ EnterKernel(st)
             \/ SkipRest(st) \/ AbandonLoop(st)
      PROVE  UseInv'
  <2>1. CASE \/ Assign(st) \/ TupleAssign(st) \/ AugAssign(st)
             \/ AssignSlice(st) \/ AugAssignSlice(st) \/ Return(st)
    BY <2>1, AssignUse, TupleAssignUse, AugAssignUse, AssignSliceUse, AugAssignSliceUse,
       ReturnUse
  <2>2. CASE EnterFor(st) \/ EnterIf(st) \/ EnterWhile(st) \/ EnterKernel(st)
    BY <2>2, EnterForUse, EnterIfUse, EnterWhileUse, EnterKernelUse
  <2>3. CASE SkipRest(st) \/ AbandonLoop(st)
    BY <2>3, SkipRestUse, AbandonLoopUse
  <2> QED
    BY <1>2, <2>1, <2>2, <2>3
<1>3. ASSUME ExitFor \/ EnterElse \/ ExitIf \/ ExitWhile \/ ExitKernel PROVE UseInv'
  BY <1>3, ExitForUse, EnterElseUse, ExitIfUse, ExitWhileUse, ExitKernelUse
<1> QED
  BY <1>1, <1>2, <1>3 DEF Next, Stop

(* Whatever the source, an operand of an operation of the trace is a block  *)
(* argument or a result of an operation appended before it: neither a name  *)
(* that outlived its region, nor a local that is behind its binding, nor    *)
(* the rewiring of a loop that carries values brings in an id that nothing  *)
(* defines.                                                                 *)
THEOREM UsesAreDefined == Spec => []DefinedBeforeUse
<1>1. Init => UseInv
  BY InitUse
<1>2. UseInv /\ [Next]_vars => UseInv'
  BY NextUse
<1>3. UseInv => DefinedBeforeUse
  BY DEF UseInv, Good, UsesDefined, DefinedBeforeUse
<1> QED
  BY <1>1, <1>2, <1>3, PTL DEF Spec

(***************************************************************************)
(* How far a Python local may be from the binding of its name.              *)
(***************************************************************************)
(* Definers, KernelBodies and the excuses of StaleLocals, of any IR.        *)
Makers(r, v) == {r.ops[k].name : k \in {m \in DOMAIN r.ops : v \in Results(r.ops[m])}}
Rebinders == {"const", "serial_for", "pipelined_for"}
KernelOps(r) == {k \in DOMAIN r.ops : r.ops[k].name = "kernel"}
KernelFrames(fs) == {k \in DOMAIN fs : fs[k].s.s = "kernel"}
KernelBlocks(r, fs) == {r.ops[k].regions[1] : k \in KernelOps(r)}
                         \cup {fs[k].body : k \in KernelFrames(fs)}
Excused(r, fs, o, bound) ==
    \/ IsVal(bound) /\ Makers(r, bound.n) \subseteq Rebinders
    \/ IsVal(o) /\ \E b \in KernelBlocks(r, fs) : r.args[b] = <<o.n>>

(* The names that were bound are bound to something.                        *)
Binds(sc) == \A j \in DOMAIN sc.order : sc.at[sc.order[j]] # Unbound

NamesInv == EInv /\ UseInv /\ Binds(scope) /\ StaleLocals

(* What e may have more than r: operations, blocks, arguments.              *)
Extends(r, e) ==
    /\ Len(r.ops) <= Len(e.ops) /\ Len(r.args) <= Len(e.args)
    /\ \A k \in 1 .. Len(r.ops) : /\ e.ops[k].name = r.ops[k].name
                                  /\ e.ops[k].results = r.ops[k].results
                                  /\ e.ops[k].regions = r.ops[k].regions
    /\ \A c \in 1 .. Len(r.args) : \A j \in DOMAIN r.args[c] :
         j \in DOMAIN e.args[c] /\ e.args[c][j] = r.args[c][j]

(* StaleLocals in these terms.                                              *)
LEMMA StaleIs ==
    StaleLocals <=> (ir.err = "none" =>
      \A x \in Names : locals[x] # scope.at[x] => Excused(ir, frames, locals[x], scope.at[x]))
BY DEF StaleLocals, Excused, Definers, KernelBodies, Makers, KernelBlocks, KernelOps,
   KernelFrames, Rebinders

(* An id has one maker.                                                     *)
LEMMA MadeOnce ==
    ASSUME NEW e \in IRs, Once(e), NEW k \in 1 .. Len(e.ops), NEW v \in Results(e.ops[k])
    PROVE  Makers(e, v) = {e.ops[k].name}
<1>1. DOMAIN e.ops = 1 .. Len(e.ops) /\ Len(e.ops) \in Nat
  BY PartsType
<1>2. ASSUME NEW m \in 1 .. Len(e.ops), v \in Results(e.ops[m]) PROVE m = k
  <2>1. PICK i \in DOMAIN e.ops[k].results : e.ops[k].results[i] = v
    BY DEF Results
  <2>2. PICK j \in DOMAIN e.ops[m].results : e.ops[m].results[j] = v
    BY <1>2 DEF Results
  <2>3. /\ e.ops[k].results \in Seq(Ids) /\ e.ops[m].results \in Seq(Ids)
        /\ i \in Nat /\ j \in Nat /\ k \in Nat /\ m \in Nat
    <3>1. e.ops[k] \in Operations /\ e.ops[m] \in Operations
      BY PartsType
    <3>2. e.ops[k].results \in Seq(Ids) /\ e.ops[m].results \in Seq(Ids)
      BY <3>1 DEF Operations
    <3> QED
      BY <1>1, <2>1, <2>2, <3>2, LenProperties
  <2>4. v \in Ids
    BY <2>1, <2>3, ElementOfSeq
  <2> DEFINE c == [k |-> "op", i |-> k, j |-> i, v |-> v]
             d == [k |-> "op", i |-> m, j |-> j, v |-> v]
  <2>5. c \in Defs(e) /\ d \in Defs(e)
    BY <1>1, <2>1, <2>2, <2>3, <2>4 DEF Defs, Places, IsResult
  <2>6. c = d
    BY <2>5 DEF Once, Numbered
  <2> QED
    BY <2>6
<1> QED
  BY <1>1, <1>2 DEF Makers

(* What makes an id that is there is there.                                 *)
LEMMA MakersStay ==
    ASSUME NEW r \in IRs, NEW e \in IRs, Extends(r, e), Once(e), NEW v \in Defined(r)
    PROVE  Makers(e, v) \subseteq Makers(r, v)
<1>1. /\ DOMAIN e.ops = 1 .. Len(e.ops) /\ Len(e.ops) \in Nat
      /\ DOMAIN r.ops = 1 .. Len(r.ops) /\ Len(r.ops) \in Nat
      /\ DOMAIN e.args = 1 .. Len(e.args) /\ Len(e.args) \in Nat
      /\ DOMAIN r.args = 1 .. Len(r.args) /\ Len(r.args) \in Nat
  BY PartsType
<1>2. ASSUME NEW k \in 1 .. Len(r.ops), v \in Results(r.ops[k]) PROVE Makers(e, v) \subseteq Makers(r, v)
  <2>1. k \in 1 .. Len(e.ops) /\ v \in Results(e.ops[k]) /\ e.ops[k].name = r.ops[k].name
    BY <1>1, <1>2 DEF Extends, Results
  <2>2. Makers(e, v) = {r.ops[k].name}
    BY <2>1, MadeOnce
  <2>3. r.ops[k].name \in Makers(r, v)
    BY <1>1, <1>2 DEF Makers
  <2> QED
    BY <2>2, <2>3
<1>3. ASSUME NEW b \in 1 .. Len(r.args), NEW i \in DOMAIN r.args[b], r.args[b][i] = v,
             NEW m \in 1 .. Len(e.ops), v \in Results(e.ops[m])
      PROVE  FALSE
  <2>1. b \in 1 .. Len(e.args) /\ i \in DOMAIN e.args[b] /\ e.args[b][i] = v
    BY <1>1, <1>3 DEF Extends
  <2>2. PICK j \in DOMAIN e.ops[m].results : e.ops[m].results[j] = v
    BY <1>3 DEF Results
  <2>3. /\ e.ops[m].results \in Seq(Ids) /\ e.args[b] \in Seq(Ids)
        /\ i \in Nat /\ j \in Nat /\ b \in Nat /\ m \in Nat
    <3>1. e.ops[m] \in Operations /\ e.args[b] \in Seq(Ids)
      BY <2>1, PartsType
    <3>2. e.ops[m].results \in Seq(Ids)
      BY <3>1 DEF Operations
    <3> QED
      BY <1>1, <2>1, <2>2, <3>1, <3>2, LenProperties
  <2>4. v \in Ids
    BY <2>2, <2>3, ElementOfSeq
  <2> DEFINE c == [k |-> "arg", i |-> b, j |-> i, v |-> v]
             d == [k |-> "op", i |-> m, j |-> j, v |-> v]
  <2>5. c \in Defs(e)
    BY <1>1, <2>1, <2>3, <2>4 DEF Defs, Places, IsArg
  <2>6. d \in Defs(e)
    BY <1>1, <2>2, <2>3, <2>4 DEF Defs, Places, IsResult
  <2>7. c = d
    BY <2>5, <2>6 DEF Once, Numbered
  <2> QED
    BY <2>7
<1>4. CASE v \in OpResults(r)
  BY <1>1, <1>2, <1>4 DEF OpResults
<1>5. CASE v \in BlockArgs(r)
  BY <1>1, <1>3, <1>5 DEF BlockArgs, Makers
<1> QED
  BY <1>4, <1>5 DEF Defined

(***************************************************************************)
(* What an excuse rests on stays.                                           *)
(***************************************************************************)
(* The blocks of kernels are blocks.                                        *)
LEMMA KernelBlocksIn ==
    ASSUME EInv, ir.err = "none", NEW b \in KernelBlocks(ir, frames)
    PROVE  b \in 1 .. Len(ir.args)
<1>1. /\ ir \in IRs /\ Tree(ir) /\ Nested(ir, frames) /\ Accepts(ir) /\ frames \in Seq(Frames)
      /\ DOMAIN ir.ops = 1 .. Len(ir.ops) /\ DOMAIN frames = 1 .. Len(frames)
  BY EmitRunning, PartsType, LenProperties
<1>2. ASSUME NEW k \in KernelOps(ir), b = ir.ops[k].regions[1] PROVE b \in 1 .. Len(ir.args)
  <2>1. k \in 1 .. Len(ir.ops) /\ ir.ops[k].name = "kernel"
    BY <1>1 DEF KernelOps
  <2>2. Len(ir.ops[k].regions) = 1 /\ ir.ops[k].regions \in Seq(Blocks)
    BY <1>1, <2>1, PartsType DEF Accepts, Accepted, Bodied, Operations
  <2>3. 1 \in DOMAIN ir.ops[k].regions
    BY <2>2, LenProperties
  <2> QED
    BY <1>1, <1>2, <2>1, <2>3 DEF Tree
<1>3. ASSUME NEW k \in KernelFrames(frames), b = frames[k].body PROVE b \in 1 .. Len(ir.args)
  <2>1. k \in 1 .. Len(frames) /\ b \in Held(frames[k])
    BY <1>1, <1>3 DEF KernelFrames, Held
  <2> QED
    BY <1>1, <2>1 DEF Nested
<1> QED
  BY <1>2, <1>3 DEF KernelBlocks

(* So does an excuse.                                                       *)
LEMMA ExcusedStays ==
    ASSUME NEW r \in IRs, NEW e \in IRs, Extends(r, e), Once(e), NEW fs, NEW gs,
           KernelBlocks(r, fs) \subseteq KernelBlocks(e, gs),
           \A b \in KernelBlocks(r, fs) : e.args[b] = r.args[b],
           NEW o, NEW bound, IsVal(bound) => bound.n \in Defined(r), Excused(r, fs, o, bound)
    PROVE  Excused(e, gs, o, bound)
<1>1. CASE IsVal(bound) /\ Makers(r, bound.n) \subseteq Rebinders
  BY <1>1, MakersStay DEF Excused
<1>2. CASE IsVal(o) /\ \E b \in KernelBlocks(r, fs) : r.args[b] = <<o.n>>
  BY <1>2 DEF Excused
<1> QED
  BY <1>1, <1>2 DEF Excused

(* A step that lets each name be, or binds it as it sets the local, or has  *)
(* an excuse for it.                                                        *)
LEMMA StaleStep ==
    ASSUME EInv, UseInv, StaleLocals, ir.err = "none", EInv', Extends(ir, ir'),
           KernelBlocks(ir, frames) \subseteq KernelBlocks(ir', frames'),
           \A b \in KernelBlocks(ir, frames) : ir'.args[b] = ir.args[b],
           \A x \in Names : \/ locals'[x] = scope'.at[x]
                            \/ locals'[x] = locals[x] /\ scope'.at[x] = scope.at[x]
                            \/ ir'.err = "none" => Excused(ir', frames', locals'[x], scope'.at[x])
    PROVE  StaleLocals'
<1>1. ir \in IRs /\ ir' \in IRs /\ Once(ir') /\ scope \in Scopes
  BY DEF EInv, Inv, TypeOK, Sound
<1>2. ASSUME NEW x \in Names, IsVal(scope.at[x]) PROVE scope.at[x].n \in Defined(ir)
  <2>1. scope.at[x] \in Known(ir)
    BY DEF UseInv
  <2>2. ~IsNum(scope.at[x])
    BY <1>2 DEF IsVal, IsNum
  <2> QED
    BY <2>1, <2>2 DEF Known, KnownIds
<1>3. ASSUME ir'.err = "none", NEW x \in Names, locals'[x] # scope'.at[x]
      PROVE  Excused(ir', frames', locals'[x], scope'.at[x])
  <2>1. CASE locals'[x] = locals[x] /\ scope'.at[x] = scope.at[x]
    <3>1. Excused(ir, frames, locals[x], scope.at[x])
      BY <1>3, <2>1, StaleIs
    <3> QED
      BY <1>1, <1>2, <2>1, <3>1, ExcusedStays
  <2> QED
    BY <1>3, <2>1
<1> QED
  BY <1>3 DEF StaleLocals, Excused, Definers, KernelBodies, Makers, KernelBlocks, KernelOps,
     KernelFrames, Rebinders

(* Most steps.                                                              *)
LEMMA KeptExtends ==
    ASSUME TypeOK, Kept
    PROVE  /\ Extends(ir, ir')
           /\ \A k \in KernelOps(ir) : ir'.ops[k] = ir.ops[k]
BY PartsType DEF TypeOK, Kept, Extends, KernelOps

(* The blocks of kernels that are traced stay if each suspended kernel is   *)
(* still there, or is an operation now.                                     *)
LEMMA KernelsStay ==
    ASSUME NEW r \in IRs, NEW e \in IRs, Extends(r, e), NEW fs, NEW gs,
           \A k \in KernelFrames(fs) :
             \/ \E l \in KernelFrames(gs) : gs[l].body = fs[k].body
             \/ \E m \in KernelOps(e) : e.ops[m].regions[1] = fs[k].body
    PROVE  KernelBlocks(r, fs) \subseteq KernelBlocks(e, gs)
<1>1. ASSUME NEW k \in KernelOps(r) PROVE k \in KernelOps(e) /\ e.ops[k].regions[1] = r.ops[k].regions[1]
  <2>1. /\ DOMAIN r.ops = 1 .. Len(r.ops) /\ DOMAIN e.ops = 1 .. Len(e.ops)
        /\ Len(r.ops) \in Nat /\ Len(e.ops) \in Nat
    BY PartsType
  <2>2. k \in 1 .. Len(r.ops) /\ k \in 1 .. Len(e.ops) /\ r.ops[k].name = "kernel"
    BY <2>1 DEF KernelOps, Extends
  <2> QED
    BY <2>1, <2>2 DEF KernelOps, Extends
<1> QED
  BY <1>1 DEF KernelBlocks

(***************************************************************************)
(* Bindings.                                                                *)
(***************************************************************************)
(* A binding binds.                                                         *)
LEMMA BindBinds ==
    ASSUME NEW sc \in Scopes, Binds(sc), NEW x \in Names, NEW o \in Objs, o # Unbound
    PROVE  Binds(Bind(sc, x, o))
<1> DEFINE more == Append(sc.order, x)
           at == [sc.at EXCEPT ![x] = o]
<1>1. /\ sc.order \in Seq(Names) /\ Len(sc.order) \in Nat /\ DOMAIN sc.order = 1 .. Len(sc.order)
      /\ sc.at \in [Names -> Objs]
  BY LenProperties DEF Scopes
<1>2. /\ DOMAIN more = 1 .. Len(sc.order) + 1 /\ more[Len(sc.order) + 1] = x
      /\ \A j \in 1 .. Len(sc.order) : more[j] = sc.order[j]
  BY <1>1, AppendProperties, LenProperties
<1>3. \A j \in 1 .. Len(sc.order) : at[sc.order[j]] # Unbound
  BY <1>1 DEF Binds
<1>4. at[x] # Unbound
  BY <1>1
<1> HIDE DEF more, at
<1>5. \A j \in DOMAIN more : at[more[j]] # Unbound
  BY <1>1, <1>2, <1>3, <1>4
<1>6. \A j \in DOMAIN sc.order : at[sc.order[j]] # Unbound
  BY <1>1, <1>3
<1> QED
  BY <1>5, <1>6 DEF Binds, Bind, more, at

(* What a name is bound to by several bindings.                             *)
LEMMA BindAllAt ==
    ASSUME NEW sc, NEW xs, NEW objs, NEW x \in Names
    PROVE  /\ (\A j \in DOMAIN xs : xs[j] # x) => BindAll(sc, xs, objs).at[x] = sc.at[x]
           /\ (\E j \in DOMAIN xs : xs[j] = x) =>
                \E j \in DOMAIN xs : xs[j] = x /\ BindAll(sc, xs, objs).at[x] = objs[j]
<1> DEFINE c == CHOOSE j \in DOMAIN xs : xs[j] = x
<1>1. BindAll(sc, xs, objs).at[x] = IF \E j \in DOMAIN xs : xs[j] = x THEN objs[c] ELSE sc.at[x]
  BY DEF BindAll
<1>2. (\E j \in DOMAIN xs : xs[j] = x) => c \in DOMAIN xs /\ xs[c] = x
  OBVIOUS
<1> QED
  BY <1>1, <1>2

(* Several bindings bind.                                                   *)
LEMMA BindAllBinds ==
    ASSUME NEW sc \in Scopes, Binds(sc), NEW xs \in Seq(Names), NEW objs,
           \A j \in DOMAIN xs : objs[j] # Unbound
    PROVE  Binds(BindAll(sc, xs, objs))
<1> DEFINE C == {j \in DOMAIN xs : sc.at[xs[j]] = Unbound}
           more == Pick(xs, C)
           all == BindAll(sc, xs, objs)
<1>1. sc.order \in Seq(Names) /\ DOMAIN sc.order = 1 .. Len(sc.order) /\ Len(sc.order) \in Nat
  BY LenProperties DEF Scopes
<1>2. /\ more \in Seq(Names) /\ DOMAIN more = 1 .. Len(more) /\ Len(more) \in Nat
      /\ \A k \in 1 .. Len(more) : \E j \in DOMAIN xs : more[k] = xs[j]
  <2>1. C \in SUBSET DOMAIN xs
    OBVIOUS
  <2> HIDE DEF C
  <2>2. /\ more \in Seq(Names) /\ Len(more) = Cardinality(C) /\ Cardinality(C) \in Nat
        /\ DOMAIN more = 1 .. Cardinality(C)
        /\ \A k \in 1 .. Cardinality(C) : Nth(C, k) \in C /\ more[k] = xs[Nth(C, k)]
    BY <2>1, PickType
  <2> QED
    BY <2>1, <2>2
<1>3. all.order = sc.order \o more
  BY DEF BindAll
<1>4. ASSUME NEW x \in Names, (\E j \in DOMAIN xs : xs[j] = x) \/ sc.at[x] # Unbound
      PROVE  all.at[x] # Unbound
  BY <1>4, BindAllAt
<1> HIDE DEF more, all
<1>5. ASSUME NEW k \in DOMAIN all.order PROVE all.at[all.order[k]] # Unbound
  <2>1. /\ DOMAIN all.order = 1 .. (Len(sc.order) + Len(more))
        /\ \A j \in 1 .. Len(sc.order) : all.order[j] = sc.order[j]
        /\ \A j \in 1 .. Len(more) : all.order[Len(sc.order) + j] = more[j]
    BY <1>1, <1>2, <1>3, ConcatParts
  <2>2. CASE k \in 1 .. Len(sc.order)
    <3>1. all.order[k] = sc.order[k] /\ sc.order[k] \in Names /\ sc.at[sc.order[k]] # Unbound
      BY <1>1, <2>1, <2>2, ElementOfSeq DEF Binds
    <3> QED
      BY <1>4, <3>1
  <2>3. CASE k \notin 1 .. Len(sc.order)
    <3>1. k - Len(sc.order) \in 1 .. Len(more) /\ Len(sc.order) + (k - Len(sc.order)) = k
      BY <1>1, <1>2, <2>1, <2>3
    <3>2. all.order[k] = more[k - Len(sc.order)]
      BY <2>1, <3>1
    <3>3. PICK j \in DOMAIN xs : all.order[k] = xs[j]
      BY <1>2, <3>1, <3>2
    <3>4. xs[j] \in Names
      BY <3>3, ElementOfSeq, LenProperties
    <3> QED
      BY <1>4, <3>3, <3>4
  <2> QED
    BY <2>2, <2>3
<1> QED
  BY <1>5 DEF Binds, all

(* An expression gives a number or a Value.                                 *)
LEMMA ValueBound ==
    ASSUME NEW st \in Menu, Stmt(st), st.s \in {"num", "name", "add", "load", "ifexp"}
    PROVE  Value(st).o # Unbound
<1>1. \A n : Num(n) # Unbound /\ Val(n) # Unbound
  BY DEF Num, Val, Unbound
<1>2. \A r, name, objs : EmitValue(r, name, objs).o # Unbound
  BY <1>1 DEF EmitValue
<1>3. CASE st.s = "num"
  BY <1>1, <1>3 DEF Value, Pure
<1>4. CASE st.s = "name"
  <2>1. Len(st.arg) = 1
    BY <1>4, StatementType DEF WellFormed, Shape
  <2>2. 1 \in DOMAIN st.arg
    BY <2>1, StatementType, LenProperties
  <2>3. Rval(st.arg[1]) # Unbound
    BY <2>2 DEF Stmt, Readable
  <2> QED
    BY <1>4, <2>2, <2>3 DEF Value, Pure, Rvals
<1>5. CASE st.s = "add"
  BY <1>1, <1>2, <1>5 DEF Value, Add, Pure
<1>6. CASE st.s = "load"
  BY <1>2, <1>6 DEF Value, Load
<1>7. CASE st.s = "ifexp"
  BY <1>2, <1>7 DEF Value, IfExp
<1> QED
  BY <1>3, <1>4, <1>5, <1>6, <1>7

(***************************************************************************)
(* The steps that add, and bind a name as they set its local.               *)
(***************************************************************************)
(* Each kernel that is suspended still is, or is an operation now.          *)
KernelsGoOn == \A k \in KernelFrames(frames) :
    \/ \E l \in KernelFrames(frames') : frames'[l].body = frames[k].body
    \/ \E m \in KernelOps(ir') : ir'.ops[m].regions[1] = frames[k].body

(* The suspended generators are the same.                                   *)
LEMMA SameKernels == ASSUME frames' = frames PROVE KernelsGoOn
BY DEF KernelsGoOn

(* There is one more.                                                       *)
LEMMA MoreKernels ==
    ASSUME TypeOK, NEW f, f \in Frames, frames' = Append(frames, f)
    PROVE  KernelsGoOn
<1>1. frames \in Seq(Frames) /\ Len(frames) \in Nat /\ DOMAIN frames = 1 .. Len(frames)
  BY LenProperties DEF TypeOK
<1>2. /\ DOMAIN frames' = 1 .. Len(frames) + 1
      /\ \A k \in 1 .. Len(frames) : frames'[k] = frames[k]
  BY <1>1, AppendProperties, LenProperties
<1> QED
  BY <1>1, <1>2 DEF KernelsGoOn, KernelFrames

(* The last one is gone: it is no kernel's, or the kernel is an operation.  *)
LEMMA FewerKernels ==
    ASSUME TypeOK, frames # <<>>, frames' = Up,
           \/ Top.s.s # "kernel"
           \/ \E m \in KernelOps(ir') : ir'.ops[m].regions[1] = Top.body
    PROVE  KernelsGoOn
<1>1. /\ frames \in Seq(Frames) /\ Len(frames) \in Nat \ {0} /\ DOMAIN frames = 1 .. Len(frames)
      /\ DOMAIN Up = 1 .. Len(frames) - 1 /\ \A k \in 1 .. Len(frames) - 1 : Up[k] = frames[k]
  BY FrontType, TopType, LenProperties DEF TypeOK, Up
<1>2. ASSUME NEW k \in KernelFrames(frames), k # Len(frames)
      PROVE  k \in KernelFrames(frames') /\ frames'[k] = frames[k]
  BY <1>1, <1>2 DEF KernelFrames
<1>3. ASSUME Len(frames) \in KernelFrames(frames)
      PROVE  \E m \in KernelOps(ir') : ir'.ops[m].regions[1] = frames[Len(frames)].body
  BY <1>3 DEF KernelFrames, Top
<1> QED
  BY <1>2, <1>3 DEF KernelsGoOn

(* The last one has changed, but neither its statement nor its body.        *)
LEMMA TopKernels ==
    ASSUME TypeOK, frames # <<>>,
           \/ frames' = [frames EXCEPT ![Len(frames)].branch = "else", ![Len(frames)].skip = FALSE]
           \/ frames' = [frames EXCEPT ![Len(frames)].skip = TRUE]
    PROVE  KernelsGoOn
<1>1. /\ DOMAIN frames' = DOMAIN frames /\ DOMAIN frames = 1 .. Len(frames)
  BY LenProperties DEF TypeOK
<1>2. \A k \in 1 .. Len(frames) : frames'[k].body = frames[k].body /\ frames'[k].s = frames[k].s
  BY TopChangeReady
<1> QED
  BY <1>1, <1>2 DEF KernelsGoOn, KernelFrames

(* A step that keeps what there is.                                         *)
LEMMA KeptNames ==
    ASSUME NamesInv, ir.err = "none", EInv', UseInv', Binds(scope)', Kept,
           ir'.err = "none" => KernelsGoOn,
           \A x \in Names : \/ locals'[x] = scope'.at[x]
                            \/ locals'[x] = locals[x] /\ scope'.at[x] = scope.at[x]
                            \/ ir'.err = "none" => Excused(ir', frames', locals'[x], scope'.at[x])
    PROVE  NamesInv'
<1>1. TypeOK /\ ir \in IRs /\ ir' \in IRs /\ Extends(ir, ir')
  BY KeptExtends DEF NamesInv, EInv, Inv, TypeOK
<1>2. ir'.err = "none" => KernelBlocks(ir, frames) \subseteq KernelBlocks(ir', frames')
  BY <1>1, KernelsStay DEF KernelsGoOn
<1>3. \A b \in KernelBlocks(ir, frames) : ir'.args[b] = ir.args[b]
  BY KernelBlocksIn DEF NamesInv, Kept
<1>4. ASSUME ir'.err = "none" PROVE StaleLocals'
  BY <1>1, <1>2, <1>3, <1>4, StaleStep DEF NamesInv
<1>5. ASSUME ir'.err # "none" PROVE StaleLocals'
  BY <1>5 DEF StaleLocals
<1> QED
  BY <1>4, <1>5 DEF NamesInv

(* One that binds nothing.                                                  *)
LEMMA QuietNames ==
    ASSUME NamesInv, ir.err = "none", EInv', UseInv', Kept, ir'.err = "none" => KernelsGoOn,
           UNCHANGED <<scope, locals>>
    PROVE  NamesInv'
<1>1. Binds(scope)'
  BY DEF NamesInv, Binds
<1> QED
  BY <1>1, KeptNames

(* One that binds a name.                                                   *)
LEMMA BindAsNames ==
    ASSUME NamesInv, ir.err = "none", EInv', UseInv', Kept, frames' = frames,
           NEW x \in Names, NEW r, BindAs(x, r), r.o # Unbound
    PROVE  NamesInv'
<1>1. /\ scope' = Bind(scope, x, r.o) /\ locals' = [locals EXCEPT ![x] = r.o]
      /\ scope \in Scopes /\ locals \in [Names -> Objs] /\ Binds(scope) /\ r.o \in Objs
  <2>1. /\ scope' = Bind(scope, x, r.o) /\ locals' = [locals EXCEPT ![x] = r.o]
        /\ scope \in Scopes /\ locals \in [Names -> Objs] /\ Binds(scope)
        /\ locals' \in [Names -> Objs]
    BY DEF BindAs, NamesInv, EInv, Inv, TypeOK
  <2>2. r.o = locals'[x]
    BY <2>1
  <2> QED
    BY <2>1, <2>2
<1>2. Binds(scope')
  BY <1>1, BindBinds
<1>3. scope'.at = [scope.at EXCEPT ![x] = r.o] /\ scope.at \in [Names -> Objs]
  BY <1>1 DEF Bind, Scopes
<1>4. \A y \in Names : \/ locals'[y] = scope'.at[y]
                       \/ locals'[y] = locals[y] /\ scope'.at[y] = scope.at[y]
  BY <1>1, <1>3
<1>5. KernelsGoOn
  BY SameKernels
<1> QED
  BY <1>2, <1>4, <1>5, KeptNames DEF Binds

(* The parts of the invariant that a step starts from.                      *)
LEMMA NamesRunning ==
    ASSUME NamesInv
    PROVE  /\ EInv /\ UseInv /\ TypeOK /\ Binds(scope) /\ scope \in Scopes
           /\ locals \in [Names -> Objs] /\ frames \in Seq(Frames) /\ ir \in IRs
BY DEF NamesInv, EInv, Inv, TypeOK

(* Assignments to a name.                                                   *)
LEMMA AssignNames ==
    ASSUME NamesInv, NEW st \in Menu, Assign(st)
    PROVE  NamesInv'
<1>1. /\ ir.err = "none" /\ BindAs(st.dst[1], Value(st)) /\ frames' = frames /\ Stmt(st)
      /\ st.s \in {"num", "name", "add", "load", "ifexp"}
  BY DEF Assign, Stmt, Reached
<1>2. st.dst[1] \in Names
  <2>1. Len(st.dst) = 1
    BY <1>1, StatementType DEF WellFormed, Shape
  <2> QED
    BY <2>1, TargetType
<1>3. Value(st).o # Unbound
  BY <1>1, ValueBound
<1> QED
  BY <1>1, <1>2, <1>3, NamesRunning, AssignEmit, AssignUse, BindAsNames

(* += on a name.                                                            *)
LEMMA AugAssignNames ==
    ASSUME NamesInv, NEW st \in Menu, AugAssign(st)
    PROVE  NamesInv'
<1> DEFINE sum == EmitValue(ir, "add", <<AugOperand(st.dst[1]), Rval(st.arg[1])>>)
<1>1. ir.err = "none" /\ BindAs(st.dst[1], sum) /\ frames' = frames /\ st.s = "aug"
  BY DEF AugAssign, Stmt, Reached
<1>2. st.dst[1] \in Names
  <2>1. Len(st.dst) = 1
    BY <1>1, StatementType DEF WellFormed, Shape
  <2> QED
    BY <2>1, TargetType
<1>3. sum.o # Unbound
  BY DEF EmitValue, Val, Unbound
<1>4. EInv' /\ UseInv' /\ Kept
  BY NamesRunning, AugAssignEmit, AugAssignUse
<1> HIDE DEF sum
<1> QED
  BY <1>1, <1>2, <1>3, <1>4, BindAsNames

(* An assignment to two names.                                              *)
LEMMA TupleAssignNames ==
    ASSUME NamesInv, NEW st \in Menu, TupleAssign(st)
    PROVE  NamesInv'
<1> DEFINE o == Rvals(st.arg)
           x == st.dst[1]
           y == st.dst[2]
           first == Bind(scope, x, o[1])
<1>1. /\ ir.err = "none" /\ frames' = frames /\ scope' = Bind(first, y, o[2])
      /\ locals' = [locals EXCEPT ![x] = o[1], ![y] = o[2]] /\ Stmt(st) /\ st.s = "tuple"
  BY DEF TupleAssign, Stmt, Reached
<1>2. Len(st.dst) = 2 /\ Len(st.arg) = 2
  BY <1>1, StatementType DEF WellFormed, Shape
<1>3. x \in Names /\ y \in Names
  BY <1>2, StatementType, ElementOfSeq
<1>4. o[1] \in Objs /\ o[2] \in Objs
  <2>1. TypeOK /\ 1 \in 1 .. Len(st.arg) /\ 2 \in 1 .. Len(st.arg)
    BY <1>2, NamesRunning
  <2> QED
    BY <2>1, OperandType
<1>5. o[1] # Unbound /\ o[2] # Unbound
  <2>1. 1 \in DOMAIN st.arg /\ 2 \in DOMAIN st.arg
    BY <1>2, StatementType, LenProperties
  <2> QED
    BY <1>1, <2>1 DEF Stmt, Readable, Rvals
<1> HIDE DEF o, x, y
<1>6. first \in Scopes /\ Binds(first) /\ first.at = [scope.at EXCEPT ![x] = o[1]]
  <2>1. first \in Scopes /\ Binds(first)
    BY <1>3, <1>4, <1>5, NamesRunning, BindType, BindBinds
  <2> QED
    BY <2>1 DEF Bind
<1> HIDE DEF first
<1>7. Binds(scope') /\ scope'.at = [first.at EXCEPT ![y] = o[2]]
  <2>1. Binds(scope')
    BY <1>1, <1>3, <1>4, <1>5, <1>6, BindBinds
  <2> QED
    BY <1>1, <2>1 DEF Bind
<1>8. \A z \in Names : \/ locals'[z] = scope'.at[z]
                       \/ locals'[z] = locals[z] /\ scope'.at[z] = scope.at[z]
  <2>1. scope.at \in [Names -> Objs] /\ locals \in [Names -> Objs]
    BY NamesRunning DEF Scopes
  <2> QED
    BY <1>1, <1>3, <1>6, <1>7, <2>1
<1>9. EInv' /\ UseInv' /\ Kept /\ KernelsGoOn
  BY <1>1, NamesRunning, TupleAssignEmit, TupleAssignUse, SameKernels
<1> QED
  BY <1>1, <1>7, <1>8, <1>9, KeptNames DEF Binds

(* Statements that bind nothing.                                            *)
LEMMA PlainNames ==
    ASSUME NamesInv, NEW st \in Menu, AssignSlice(st) \/ AugAssignSlice(st) \/ Return(st)
    PROVE  NamesInv'
<1>1. ir.err = "none" /\ frames' = frames /\ UNCHANGED <<scope, locals>>
  BY DEF AssignSlice, AugAssignSlice, Return, Stmt, Reached
<1>2. EInv' /\ UseInv' /\ Kept
  BY NamesRunning, AssignSliceEmit, AugAssignSliceEmit, ReturnEmit,
     AssignSliceUse, AugAssignSliceUse, ReturnUse
<1> QED
  BY <1>1, <1>2, SameKernels, QuietNames

(***************************************************************************)
(* Compound statements that bind nothing.                                   *)
(***************************************************************************)
(* break and continue, and the else of an if.                               *)
LEMMA TurnNames ==
    ASSUME NamesInv, \/ \E st \in Menu : SkipRest(st)
                     \/ EnterElse
    PROVE  NamesInv'
<1>1. ir.err = "none" /\ UNCHANGED <<scope, locals>> /\ frames # <<>>
  <2>1. CASE \E st \in Menu : SkipRest(st)
    BY <2>1, NamesRunning, EmptySeq DEF SkipRest, Stmt, Reached, InLoop
  <2>2. CASE EnterElse
    BY <2>2 DEF EnterElse
  <2> QED
    BY <2>1, <2>2
<1>2. \/ frames' = [frames EXCEPT ![Len(frames)].branch = "else", ![Len(frames)].skip = FALSE]
      \/ frames' = [frames EXCEPT ![Len(frames)].skip = TRUE]
  BY DEF SkipRest, EnterElse
<1>3. KernelsGoOn
  BY <1>1, <1>2, NamesRunning, TopKernels
<1>4. EInv' /\ UseInv' /\ Kept
  BY NamesRunning, SkipRestEmit, SkipRestUse, EnterElseEmit, EnterElseUse
<1> QED
  BY <1>1, <1>3, <1>4, QuietNames

(* An if or a while begins.                                                 *)
LEMMA BranchNames ==
    ASSUME NamesInv, NEW st \in Menu, EnterIf(st) \/ EnterWhile(st)
    PROVE  NamesInv'
<1>1. ir.err = "none" /\ UNCHANGED <<scope, locals>> /\ \E f : frames' = Append(frames, f)
  BY DEF EnterIf, EnterWhile, Compound, Stmt, Reached
<1>2. EInv' /\ UseInv' /\ Kept
  BY NamesRunning, EnterIfEmit, EnterIfUse, EnterWhileEmit, EnterWhileUse
<1>3. KernelsGoOn
  BY <1>1, <1>2, NamesRunning, MoreKernels DEF EInv, Inv, TypeOK
<1> QED
  BY <1>1, <1>2, <1>3, QuietNames

(* An if, a while or an abandoned loop ends.                                *)
LEMMA LeaveNames ==
    ASSUME NamesInv, \/ \E st \in Menu : AbandonLoop(st)
                     \/ ExitIf \/ ExitWhile
    PROVE  NamesInv'
<1>1. ir.err = "none" /\ UNCHANGED <<scope, locals>> /\ frames # <<>> /\ frames' = Up
  BY DEF AbandonLoop, ExitIf, ExitWhile, Stmt, Reached
<1>2. Top.s.s # "kernel"
  BY DEF AbandonLoop, ExitIf, ExitWhile, LoopKinds
<1>3. EInv' /\ UseInv' /\ Kept
  BY NamesRunning, AbandonLoopEmit, AbandonLoopUse, ExitIfEmit, ExitIfUse, ExitWhileEmit, ExitWhileUse
<1>4. KernelsGoOn
  BY <1>1, <1>2, NamesRunning, FewerKernels
<1> QED
  BY <1>1, <1>3, <1>4, QuietNames

(* A kernel ends: its body is an operation's now.                           *)
LEMMA ExitKernelNames ==
    ASSUME NamesInv, ExitKernel
    PROVE  NamesInv'
<1> DEFINE popped == PopRegion(ir)
           objs == Top.objs
           q == Ensure(popped, objs)
           ids == EnsureIds(popped, objs)
           b == Block(popped)
           regions == <<Top.body>>
           kind == "kernel"
           zero == 0
           one == 1
           e == AppendOp(q, b, kind, ids, zero, regions, one)
<1>1. /\ ir.err = "none" /\ UNCHANGED <<scope, locals>> /\ frames # <<>> /\ frames' = Up
      /\ ir' = e
  BY DEF ExitKernel, Emit
<1>2. EInv' /\ UseInv' /\ Kept
  BY NamesRunning, ExitKernelEmit, ExitKernelUse
<1>3. ASSUME ir'.err = "none" PROVE \E m \in KernelOps(ir') : ir'.ops[m].regions[1] = Top.body
  <2>1. popped \in Standing /\ popped \in IRs /\ Top.body \in Blocks /\ objs \in Seq(Objs)
    BY <1>1, NamesRunning, PoppedStands, TopType DEF Frames
  <2>2. regions \in Seq(Blocks) /\ regions[1] = Top.body /\ kind \in OpNames /\ zero \in Nat /\ one \in Int
    BY <2>1 DEF OpNames
  <2>3. b \in Blocks
    BY <2>1, BlockType DEF Standing
  <2> HIDE DEF popped, b, regions, kind, zero, one
  <2>4. q \in IRs /\ ids \in Seq(Ids)
    BY <2>1, EnsureType, EnsureIdsType DEF Emitted, Standing
  <2> HIDE DEF q, ids
  <2> DEFINE m == Len(q.ops) + 1
  <2>5. e \in IRs /\ e.err = "none" /\ Len(q.ops) \in Nat
    BY <1>1, <1>3, <2>2, <2>3, <2>4, PartsType, AppendOpType DEF Emitted
  <2>6. Len(e.ops) = m /\ e.ops[m].name = kind /\ e.ops[m].regions = regions
    BY <2>2, <2>3, <2>4, <2>5, AppendOpLast
  <2> HIDE DEF e
  <2>7. m \in DOMAIN e.ops
    BY <2>5, <2>6, PartsType
  <2> QED
    BY <1>1, <2>2, <2>6, <2>7 DEF KernelOps, kind
<1> HIDE DEF e
<1>4. ir'.err = "none" => KernelsGoOn
  BY <1>1, <1>3, NamesRunning, FewerKernels
<1> QED
  BY <1>1, <1>2, <1>4, QuietNames

(* A kernel begins: the thread id is a local, and the only argument of the  *)
(* kernel's body.                                                           *)
LEMMA EnterKernelNames ==
    ASSUME NamesInv, NEW st \in Menu, EnterKernel(st)
    PROVE  NamesInv'
<1> DEFINE entry == NewRegion(ir)
           body == LastRegion(entry)
           opened == NewArgs(entry, body, 1)
           f == Frame(st, body, 0, Rvals(st.arg), scope)
           x == st.dst[1]
           v == entry.next
<1>1. /\ ir.err = "none" /\ ir' = PushRegion(opened, body) /\ st.s = "kernel"
      /\ locals' = [locals EXCEPT ![x] = Val(v)] /\ frames' = Append(frames, f) /\ scope' = scope
  BY DEF EnterKernel, Compound, Stmt, Reached
<1>2. EInv' /\ UseInv' /\ Kept
  BY NamesRunning, EnterKernelEmit, EnterKernelUse
<1>3. x \in Names
  <2>1. Len(st.dst) = 1
    BY <1>1, StatementType DEF WellFormed, Shape
  <2> QED
    BY <2>1, TargetType
<1>4. /\ entry \in IRs /\ body = Len(entry.args) /\ body \in 1 .. Len(entry.args)
      /\ entry.args[body] = <<>> /\ entry.next \in Nat
  <2>1. ir \in IRs /\ Len(ir.args) \in Nat
    BY NamesRunning, PartsType
  <2>2. entry \in IRs /\ body = Len(ir.args) + 1 /\ Len(entry.args) = Len(ir.args) + 1
    BY <2>1, NewRegionType, NewRegionUpon
  <2>3. entry.args[body] = <<>>
    BY <2>1, <2>2, NewRegionAdds
  <2> QED
    BY <2>1, <2>2, <2>3, PartsType
<1> HIDE DEF entry, body
<1>5. ir'.args[body] = <<v>>
  <2>1. 1 \in Nat
    OBVIOUS
  <2>2. opened.args[body] = entry.args[body] \o Fresh(entry, 1)
    BY <1>4, <2>1, NewArgsAdds, Zenon
  <2>3. Fresh(entry, 1) = <<v>>
    BY <1>4 DEF Fresh
  <2>4. opened \in IRs
    BY <1>4, <2>1, NewArgsType, Zenon
  <2>5. <<>> \o <<v>> = <<v>>
    OBVIOUS
  <2>6. body \in Blocks
    BY <1>4 DEF Blocks
  <2> HIDE DEF opened
  <2>7. PushRegion(opened, body).args = opened.args
    BY <2>4, <2>6, PushRegionType
  <2> QED
    BY <1>1, <1>4, <2>2, <2>3, <2>5, <2>7
<1>6. /\ frames \in Seq(Frames) /\ f \in Frames /\ frames' \in Seq(Frames)
      /\ Len(frames) + 1 \in DOMAIN frames' /\ frames'[Len(frames) + 1] = f
      /\ f.s = st /\ f.body = body
  <2>1. frames \in Seq(Frames) /\ frames' \in Seq(Frames) /\ Len(frames) \in Nat
    BY <1>2, NamesRunning, LenProperties DEF EInv, Inv, TypeOK
  <2>2. Len(frames') = Len(frames) + 1 /\ frames'[Len(frames) + 1] = f
    BY <1>1, <2>1, AppendProperties
  <2>3. Len(frames) + 1 \in 1 .. Len(frames')
    BY <2>1, <2>2
  <2>4. f \in Frames
    BY <2>1, <2>2, <2>3, ElementOfSeq
  <2> QED
    BY <2>1, <2>2, <2>3, <2>4, LenProperties DEF Frame
<1>7. Excused(ir', frames', Val(v), scope'.at[x])
  <2>1. Len(frames) + 1 \in KernelFrames(frames')
    BY <1>1, <1>6 DEF KernelFrames
  <2>2. body \in KernelBlocks(ir', frames')
    BY <1>6, <2>1 DEF KernelBlocks
  <2> QED
    BY <1>5, <2>2 DEF Excused, Val, IsVal
<1>8. \A y \in Names : \/ locals'[y] = locals[y] /\ scope'.at[y] = scope.at[y]
                       \/ Excused(ir', frames', locals'[y], scope'.at[y])
  BY <1>1, <1>3, <1>7, NamesRunning
<1>9. KernelsGoOn
  BY <1>1, <1>6, NamesRunning, MoreKernels
<1>10. Binds(scope)'
  BY <1>1, NamesRunning DEF Binds
<1> QED
  BY <1>1, <1>2, <1>8, <1>9, <1>10, KeptNames


(***************************************************************************)
(* A loop begins: the numbers in scope become consts.                       *)
(***************************************************************************)
(* ensure_value makes a const for each number.                              *)
LEMMA EnsureMakes ==
    ASSUME NEW r \in IRs, r.stack # <<>>, NEW objs \in Seq(Objs), Ensure(r, objs).err = "none",
           NEW j \in Nums(objs)
    PROVE  \E k \in 1 .. Len(Ensure(r, objs).ops) :
             /\ Ensure(r, objs).ops[k].name = "const"
             /\ EnsureIds(r, objs)[j] \in Results(Ensure(r, objs).ops[k])
<1> DEFINE e == Ensure(r, objs)
           C == Nums(objs)
           n == Cardinality(C)
           consts == Consts(r, objs)
           c == Rank(C, j)
<1>1. /\ C \in SUBSET DOMAIN objs /\ C \in SUBSET Int /\ IsFiniteSet(C) /\ n \in Nat
  BY NumsType
<1>2. c \in 1 .. n /\ c \in Nat
  <2>1. c \in 1 .. n
    BY <1>1, RankType DEF n
  <2> QED
    BY <1>1, <2>1
<1>3. EnsureIds(r, objs)[j] = r.next + c - 1
  BY <1>1 DEF EnsureIds, Nums
<1>4. /\ DOMAIN consts = 1 .. n /\ consts[c].name = "const"
      /\ consts[c].results = <<r.next + c - 1>>
  BY <1>2 DEF Consts
<1>5. consts \in Seq(Operations) /\ Len(consts) = n
  BY ConstsType
<1>6. e = [r EXCEPT !.ops = r.ops \o consts, !.next = r.next + n]
  <2>1. Refuse(r, 1).err # "none"
    BY RefuseType
  <2>2. r.err = "none"
    BY DEF Ensure
  <2>3. C # {}
    OBVIOUS
  <2> QED
    BY <2>1, <2>2, <2>3 DEF Ensure
<1> HIDE DEF e, C, n, consts, c
<1>7. e.ops = r.ops \o consts
  BY <1>6 DEF IRs
<1>8. r.ops \in Seq(Operations) /\ Len(r.ops) \in Nat
  BY PartsType
<1>9. Len(e.ops) = Len(r.ops) + n /\ e.ops[Len(r.ops) + c] = consts[c]
  <2>1. Len(e.ops) = Len(r.ops) + n
    BY <1>5, <1>7, <1>8, ConcatProperties
  <2>2. \A i \in 1 .. n : e.ops[Len(r.ops) + i] = consts[i]
    BY <1>5, <1>7, <1>8, ConcatParts
  <2> QED
    BY <1>2, <2>1, <2>2
<1>10. Len(r.ops) + c \in 1 .. Len(e.ops)
  BY <1>1, <1>2, <1>8, <1>9
<1>11. EnsureIds(r, objs)[j] \in Results(consts[c])
  BY <1>3, <1>4 DEF Results
<1> QED
  BY <1>4, <1>9, <1>10, <1>11 DEF e

(* A name keeps its Value, or its number becomes one.                       *)
LEMMA MaterialisedMakes ==
    ASSUME NEW r \in IRs, r.stack # <<>>, NEW sc \in Scopes, Binds(sc),
           Ensure(r, Objects(sc)).err = "none", NEW x \in Names
    PROVE  LET e == Ensure(r, Objects(sc))
               o == Materialised(sc, r).at[x]
           IN  o = sc.at[x] \/ (IsVal(o) /\ \E k \in 1 .. Len(e.ops) :
                                  e.ops[k].name = "const" /\ o.n \in Results(e.ops[k]))
<1> DEFINE e == Ensure(r, Objects(sc))
           objs == Objects(sc)
           ids == EnsureIds(r, objs)
           vals == [j \in DOMAIN sc.order |-> Val(ids[j])]
           o == BindAll(sc, sc.order, vals).at[x]
<1>1. o = Materialised(sc, r).at[x]
  BY DEF Materialised
<1>2. /\ (\A j \in DOMAIN sc.order : sc.order[j] # x) => o = sc.at[x]
      /\ (\E j \in DOMAIN sc.order : sc.order[j] = x) =>
           \E j \in DOMAIN sc.order : sc.order[j] = x /\ o = vals[j]
  BY BindAllAt
<1>3. objs \in Seq(Objs) /\ DOMAIN objs = DOMAIN sc.order
  BY ObjectsType DEF Objects
<1> HIDE DEF o
<1>4. CASE \E j \in DOMAIN sc.order : sc.order[j] = x
  <2>1. PICK j \in DOMAIN sc.order : sc.order[j] = x /\ o = Val(ids[j])
    BY <1>2, <1>4
  <2>2. objs[j] = sc.at[x] /\ sc.at[x] # Unbound /\ sc.at[x] \in Objs
    BY <2>1 DEF Objects, Binds, Scopes
  <2>3. CASE IsNum(objs[j])
    <3>1. j \in Nums(objs)
      BY <1>3, <2>3 DEF Nums
    <3>2. \E k \in 1 .. Len(e.ops) : e.ops[k].name = "const" /\ ids[j] \in Results(e.ops[k])
      BY <1>3, <3>1, EnsureMakes
    <3>3. IsVal(o) /\ o.n = ids[j]
      BY <2>1 DEF IsVal, Val
    <3> QED
      BY <1>1, <3>2, <3>3
  <2>4. CASE ~IsNum(objs[j])
    <3>1. ids[j] = sc.at[x].n
      BY <1>3, <2>2, <2>4 DEF EnsureIds
    <3>2. sc.at[x] = Val(sc.at[x].n)
      BY <2>2, <2>4 DEF Objs, IsNum, Val
    <3> QED
      BY <1>1, <2>1, <3>1, <3>2
  <2> QED
    BY <2>3, <2>4
<1>5. CASE \A j \in DOMAIN sc.order : sc.order[j] # x
  BY <1>1, <1>2, <1>5
<1> QED
  BY <1>4, <1>5

(* Values bind.                                                             *)
LEMMA ValuesBind ==
    ASSUME NEW sc \in Scopes, Binds(sc), NEW xs \in Seq(Names), NEW ids
    PROVE  Binds(BindAll(sc, xs, [j \in DOMAIN xs |-> Val(ids[j])]))
<1> DEFINE vals == [j \in DOMAIN xs |-> Val(ids[j])]
<1>1. \A j \in DOMAIN xs : vals[j] # Unbound
  BY DEF Val, Unbound
<1> HIDE DEF vals
<1>2. Binds(BindAll(sc, xs, vals))
  BY <1>1, BindAllBinds
<1> QED
  BY <1>2 DEF vals

(* What makes an id of a const, or of a loop that carries values, excuses.  *)
LEMMA MadeExcuses ==
    ASSUME NEW e \in IRs, Once(e), NEW fs, NEW o, NEW bound, IsVal(bound),
           \E k \in 1 .. Len(e.ops) : e.ops[k].name \in Rebinders /\ bound.n \in Results(e.ops[k])
    PROVE  Excused(e, fs, o, bound)
<1>1. PICK k \in 1 .. Len(e.ops) : e.ops[k].name \in Rebinders /\ bound.n \in Results(e.ops[k])
  OBVIOUS
<1>2. Makers(e, bound.n) = {e.ops[k].name}
  BY <1>1, MadeOnce
<1> QED
  BY <1>1, <1>2 DEF Excused

(* A loop begins: its targets are bound, and set, to the arguments of the   *)
(* body.                                                                    *)
LEMMA EnterForNames ==
    ASSUME NamesInv, NEW st \in Menu, EnterFor(st)
    PROVE  NamesInv'
<1> DEFINE objs == Objects(scope)
           consts == Ensure(ir, objs)
           entry == NewRegion(consts)
           body == LastRegion(entry)
           n == Len(st.dst)
           ids == Fresh(entry, n)
           ivs == [j \in DOMAIN st.dst |-> Val(ids[j])]
           before == Materialised(scope, ir)
           f == Frame(st, body, 0, Dims(st), before)
           e == PushRegion(NewArgs(entry, body, n), body)
<1>1. /\ ir.err = "none" /\ ir' = e /\ frames' = Append(frames, f) /\ st.s \in LoopKinds
      /\ scope' = BindAll(before, st.dst, ivs)
      /\ locals' = [x \in Names |-> IF \E j \in DOMAIN st.dst : st.dst[j] = x
                                    THEN scope'.at[x] ELSE locals[x]]
  BY DEF EnterFor, Compound, Stmt, Reached
<1>2. EInv' /\ UseInv' /\ Kept
  BY NamesRunning, EnterForEmit, EnterForUse
<1>3. /\ ir \in IRs /\ ir.stack # <<>> /\ scope \in Scopes /\ Binds(scope)
      /\ frames \in Seq(Frames) /\ locals \in [Names -> Objs]
  BY <1>1, NamesRunning, EmitRunning
<1>4. /\ objs \in Seq(Objs) /\ before \in Scopes /\ Binds(before)
      /\ st.dst \in Seq(Names) /\ n \in Nat
  <2>1. Binds(before)
    BY <1>3, ValuesBind DEF Materialised, Scopes
  <2> QED
    BY <1>3, <2>1, ObjectsType, MaterialisedType, StatementType, LenProperties
<1>5. consts \in IRs /\ (consts.err # "none" => e.err # "none") /\ e.ops = consts.ops
  <2>1. consts \in IRs
    BY <1>3, <1>4, EnsureType DEF Emitted
  <2> HIDE DEF consts, n
  <2>2. e.ops = consts.ops
    BY <1>4, <2>1, OpenedRegion
  <2>3. e.err = consts.err
    BY <2>1 DEF PushRegion, NewArgs, NewRegion, IRs
  <2> QED
    BY <2>1, <2>2, <2>3
<1>6. Binds(scope')
  BY <1>1, <1>4, ValuesBind
<1> HIDE DEF n, ids, body, entry, objs, e, before
<1>7. ASSUME NEW x \in Names
      PROVE  \/ locals'[x] = scope'.at[x]
             \/ locals'[x] = locals[x] /\ scope'.at[x] = scope.at[x]
             \/ ir'.err = "none" => Excused(ir', frames', locals'[x], scope'.at[x])
  <2>1. CASE \E j \in DOMAIN st.dst : st.dst[j] = x
    BY <1>1, <2>1
  <2>2. CASE ~\E j \in DOMAIN st.dst : st.dst[j] = x
    <3>1. scope'.at[x] = before.at[x] /\ locals'[x] = locals[x]
      BY <1>1, <2>2, BindAllAt
    <3>2. ASSUME ir'.err = "none", before.at[x] # scope.at[x]
          PROVE  Excused(ir', frames', locals'[x], scope'.at[x])
      <4>1. consts.err = "none" /\ ir'.ops = consts.ops
        BY <1>1, <1>5, <3>2
      <4>2. /\ IsVal(before.at[x])
            /\ \E k \in 1 .. Len(consts.ops) :
                 consts.ops[k].name = "const" /\ before.at[x].n \in Results(consts.ops[k])
        BY <1>3, <3>2, <4>1, MaterialisedMakes DEF before, objs
      <4> HIDE DEF consts
      <4>3. ir' \in IRs /\ Once(ir')
        BY <1>2 DEF EInv, Inv, TypeOK, Sound
      <4>4. "const" \in Rebinders
        BY DEF Rebinders
      <4> QED
        BY <3>1, <4>1, <4>2, <4>3, <4>4, MadeExcuses
    <3> QED
      BY <3>1, <3>2
  <2> QED
    BY <2>1, <2>2
<1>8. KernelsGoOn
  <2>1. f \in Frames
    <3>1. frames' \in Seq(Frames) /\ Len(frames) \in Nat
      BY <1>2, <1>3, LenProperties DEF EInv, Inv, TypeOK
    <3> HIDE DEF f
    <3>2. Len(frames') = Len(frames) + 1 /\ frames'[Len(frames) + 1] = f
      BY <1>1, <1>3, <3>1, AppendProperties
    <3>3. Len(frames) + 1 \in 1 .. Len(frames')
      BY <3>1, <3>2
    <3> QED
      BY <3>1, <3>2, <3>3, ElementOfSeq
  <2> QED
    BY <1>1, <2>1, NamesRunning, MoreKernels
<1> QED
  BY <1>1, <1>2, <1>6, <1>7, <1>8, KeptNames DEF Binds


(***************************************************************************)
(* A loop ends: its results are what the names that it carries are bound to *)
(* from here on, and their locals are not set.                              *)
(***************************************************************************)
(* The results of what append_op appends are fresh.                         *)
LEMMA AppendOpMakes ==
    ASSUME NEW r \in IRs, NEW b \in Blocks, NEW name \in OpNames, NEW operands \in Seq(Ids),
           NEW nres \in Nat, NEW regions \in Seq(Blocks), NEW attr \in Int,
           AppendOp(r, b, name, operands, nres, regions, attr).err = "none"
    PROVE  LET e == AppendOp(r, b, name, operands, nres, regions, attr)
           IN  /\ e.next = r.next + nres
               /\ e.ops[Len(r.ops) + 1].results = Fresh(r, nres)
<1> DEFINE fresh == Fresh(r, nres)
           new == [name |-> name, blk |-> b, operands |-> operands, results |-> fresh,
                   regions |-> regions, attr |-> attr]
           e == AppendOp(r, b, name, operands, nres, regions, attr)
<1>1. r.err = "none"
  BY AppendOpType
<1>2. ~Terminated(r, b)
  <2>1. Refuse(r, nres).err # "none"
    BY RefuseType
  <2> QED
    BY <1>1, <2>1 DEF AppendOp
<1>3. fresh \in Seq(Ids)
  BY FreshType, Zenon
<1>4. e = [r EXCEPT !.ops = Append(r.ops, new), !.next = r.next + nres]
  BY <1>1, <1>2 DEF AppendOp
<1> HIDE DEF fresh
<1>5. new \in Operations /\ new.results = fresh
  BY <1>3 DEF Operations
<1> HIDE DEF new, e
<1>6. e.ops = Append(r.ops, new) /\ r.ops \in Seq(Operations) /\ e.next = r.next + nres
  BY <1>4, PartsType DEF IRs
<1>7. e.ops[Len(r.ops) + 1] = new
  BY <1>5, <1>6, AppendProperties
<1> QED
  BY <1>5, <1>6, <1>7 DEF e, fresh

(* What the end of ctx_for makes.                                           *)
LEMMA ExitForMakes ==
    ASSUME EInv, ExitFor, ir'.err = "none"
    PROVE  LET n == Len(Pick(Top.before.order, Carried(ir, Top.before, scope)))
           IN  /\ Extends(ir, ir')
               /\ \A c \in 1 .. Len(ir.args) : c # Top.body => ir'.args[c] = ir.args[c]
               /\ \A j \in 1 .. n : \E k \in 1 .. Len(ir'.ops) :
                    ir'.ops[k].name \in Rebinders /\ ir'.next - n + j - 1 \in Results(ir'.ops[k])
<1> DEFINE f == Top
           names == Pick(f.before.order, Carried(ir, f.before, scope))
           n == Len(names)
           d == Len(f.s.dst)
           kind == LoopOp(f.s.s)
           outer == PopRegion(ir)
           bounds == Ensure(outer, f.objs)
           initials == [j \in 1..n |-> f.before.at[names[j]].n]
           finals == [j \in 1..n |-> scope.at[names[j]].n]
           fresh == Fresh(bounds, n)
           opened == NewArgs(bounds, f.body, n)
           rewired == ReplaceRegionUses(opened, f.body, initials, fresh)
           yielded == YieldFinals(rewired, f.body, finals)
           ids == EnsureIds(outer, f.objs)
           operands == ids \o initials
           regions == <<f.body>>
           b == Block(outer)
           closed == AppendOp(yielded, b, kind, operands, n, regions, d)
           raised == Raise(bounds, "parallelCarry")
<1>1. /\ ir.err = "none" /\ frames # <<>> /\ f.s.s \in LoopKinds
      /\ ir' = CloseLoop(ir, f, names, scope)
  BY DEF ExitFor
<1>2. /\ TypeOK /\ ir \in IRs /\ scope \in Scopes
      /\ frames \in Seq(Frames) /\ Nested(ir, frames)
      /\ f \in Frames /\ Len(frames) \in 1 .. Len(frames) /\ f = frames[Len(frames)]
      /\ Len(ir.ops) \in Nat /\ Len(ir.args) \in Nat
  BY <1>1, EmitRunning, TopType, PartsType DEF Top
<1>3. f.s \in Menu /\ f.body \in Blocks /\ f.objs \in Seq(Objs) /\ f.before \in Scopes
  BY <1>2 DEF Frames
<1>4. /\ n \in Nat
      /\ \A j \in 1..n : f.before.at[names[j]].n \in Ids /\ scope.at[names[j]].n \in Ids
  BY <1>2, <1>3, CarriedType
<1>5. ir' = IF bounds.err = "none" /\ Refused(f, n) THEN raised ELSE closed
  BY <1>1 DEF CloseLoop
<1> HIDE DEF names, n
<1>6. initials \in Seq(Ids) /\ finals \in Seq(Ids) /\ Len(initials) = n /\ Len(finals) = n
  <2>1. initials \in [1..n -> Ids] /\ finals \in [1..n -> Ids]
    BY <1>4
  <2> QED
    BY <1>4, <2>1, FunctionIsSeq
<1>7. /\ kind \in OpNames /\ regions \in Seq(Blocks) /\ d \in Int
      /\ f.s.s # "parallel" => kind \in Rebinders
  <2>1. kind \in OpNames /\ regions \in Seq(Blocks) /\ d \in Int
    BY <1>1, <1>3, LoopOpType, StatementType, LenProperties
  <2>2. f.s.s # "parallel" => kind \in Rebinders
    BY <1>1 DEF LoopOp, LoopKinds, Rebinders
  <2> QED
    BY <2>1, <2>2
<1>8. f.body \in 1 .. Len(ir.args)
  <2>1. f.body \in Held(f)
    BY DEF Held
  <2>2. f.body \in 2 .. Len(ir.args)
    BY <1>2, <2>1 DEF Nested
  <2> QED
    BY <2>2
<1> HIDE DEF f, initials, finals, regions, kind, d
<1>9. /\ outer \in Standing /\ outer \in IRs /\ outer \in Adds(ir, 0) /\ outer.stack # <<>>
      /\ outer.args = ir.args /\ b \in Blocks
  BY <1>1, PoppedStands, BlockType
<1> HIDE DEF outer, b
<1>10. /\ bounds \in IRs /\ bounds \in Adds(ir, 0) /\ bounds.args = ir.args
       /\ operands \in Seq(Ids)
  <2>1. bounds \in Adds(ir, 0)
    BY <1>2, <1>3, <1>9, EnsureAdds, AddsTwice
  <2>2. bounds \in IRs /\ bounds.args = ir.args /\ ids \in Seq(Ids)
    BY <1>3, <1>9, EnsureType, EnsureIdsType DEF Emitted
  <2>3. operands \in Seq(Ids)
    BY <1>6, <2>2, ConcatProperties
  <2> QED
    BY <2>1, <2>2, <2>3
<1>11. bounds.err # "none" => closed.err # "none"
  <2>1. closed.err = "none" => yielded.err = "none"
    BY DEF AppendOp, Raise
  <2>2. yielded.err = "none" => rewired.err = "none"
    BY DEF YieldFinals, AppendOp, Raise
  <2>3. rewired.err = opened.err /\ opened.err = bounds.err
    <3>1. opened \in IRs /\ opened.err = bounds.err
      BY <1>4, <1>8, <1>10, NewArgsType, Zenon
    <3> QED
      BY <3>1 DEF ReplaceRegionUses, IRs
  <2> QED
    BY <2>1, <2>2, <2>3
<1>12. raised.err # "none"
  BY <1>10, RaiseType
<1>13. ir' = closed /\ ~Refused(f, n)
  BY <1>5, <1>11, <1>12
<1> HIDE DEF bounds, operands, raised
<1>14. /\ opened \in IRs /\ opened \in Adds(bounds, f.body)
       /\ opened.args[f.body] = ir.args[f.body] \o fresh /\ fresh \in Seq(Ids) /\ Len(fresh) = n
  <2>1. f.body \in 1 .. Len(bounds.args)
    BY <1>8, <1>10
  <2>2. opened \in IRs /\ opened \in Adds(bounds, f.body)
    BY <1>4, <1>10, <2>1, NewArgsType, NewArgsAdds, Zenon
  <2>3. opened.args[f.body] = bounds.args[f.body] \o fresh
    BY <1>4, <1>10, <2>1, NewArgsAdds, Zenon
  <2>4. fresh \in Seq(Ids) /\ Len(fresh) = n
    BY <1>4, <1>10, FreshType, Zenon
  <2> QED
    BY <1>10, <2>2, <2>3, <2>4
<1> HIDE DEF opened, fresh
<1>15. rewired \in IRs /\ rewired \in Edits(opened, f.body) /\ rewired.args = opened.args
  <2>1. rewired \in Edits(opened, f.body) /\ rewired.args = opened.args
    BY <1>6, <1>14, ReplaceRegionUsesEdits
  <2> QED
    BY <2>1 DEF Edits
<1> HIDE DEF rewired
<1>16. yielded \in IRs /\ yielded \in Adds(rewired, f.body) /\ yielded.args = rewired.args
  <2>1. f.body \in 1 .. Len(rewired.args)
    BY <1>8, <1>10, <1>14, <1>15 DEF Adds, Grows
  <2> QED
    BY <1>6, <1>15, <2>1, YieldFinalsAdds DEF Adds
<1> HIDE DEF yielded
<1>17. yielded \in Edits(ir, f.body)
  <2>1. bounds \in Edits(ir, f.body)
    BY <1>2, <1>10, AddsAny, AddsIsEdits
  <2>2. opened \in Edits(ir, f.body)
    BY <1>2, <1>10, <1>14, <2>1, AddsIsEdits, EditsTwice
  <2>3. rewired \in Edits(ir, f.body)
    BY <1>2, <1>15, <2>2, EditsTwice
  <2> QED
    BY <1>2, <1>15, <1>16, <2>3, AddsIsEdits, EditsTwice
<1>18. closed.err = "none"
  BY <1>13
<1> DEFINE m == Len(yielded.ops) + 1
<1>19. /\ closed.args = yielded.args /\ Len(closed.ops) = m
       /\ \A k \in 1 .. Len(yielded.ops) : closed.ops[k] = yielded.ops[k]
       /\ closed.ops[m].name = kind
  <2> HIDE DEF closed
  <2>1. closed = AppendOp(yielded, b, kind, operands, n, regions, d)
    BY DEF closed
  <2> QED
    BY <1>4, <1>7, <1>9, <1>10, <1>16, <1>18, <2>1, AppendOpLast
<1>20. closed.next = yielded.next + n /\ closed.ops[m].results = Fresh(yielded, n)
  BY <1>4, <1>7, <1>9, <1>10, <1>16, <1>18, AppendOpMakes
<1> HIDE DEF closed
<1>21. Len(yielded.ops) \in Nat /\ yielded.next \in Nat
  BY <1>16, PartsType
<1>22. Extends(ir, closed)
  <2>1. Len(ir.ops) <= Len(closed.ops) /\ Len(ir.args) <= Len(closed.args)
    BY <1>2, <1>17, <1>19, <1>21 DEF Edits, Grows
  <2>2. ASSUME NEW k \in 1 .. Len(ir.ops)
        PROVE  /\ closed.ops[k].name = ir.ops[k].name
               /\ closed.ops[k].results = ir.ops[k].results
               /\ closed.ops[k].regions = ir.ops[k].regions
    <3>1. k \in 1 .. Len(yielded.ops)
      BY <1>2, <1>17, <1>21 DEF Edits, Grows
    <3> QED
      BY <1>17, <1>19, <3>1 DEF Edits, Shaped
  <2>3. ASSUME NEW c \in 1 .. Len(ir.args), NEW j \in DOMAIN ir.args[c]
        PROVE  j \in DOMAIN closed.args[c] /\ closed.args[c][j] = ir.args[c][j]
    <3>1. CASE c = f.body
      <4> DEFINE old == ir.args[f.body]
                 all == old \o fresh
      <4>1. closed.args[c] = all
        BY <1>14, <1>15, <1>16, <1>19, <3>1
      <4>2. old \in Seq(Ids) /\ j \in DOMAIN old
        BY <1>2, <1>8, <3>1, PartsType
      <4> HIDE DEF old
      <4>3. /\ DOMAIN all = 1 .. (Len(old) + Len(fresh)) /\ DOMAIN old = 1 .. Len(old)
            /\ Len(old) \in Nat /\ Len(fresh) \in Nat
        <5>1. all \in Seq(Ids) /\ Len(all) = Len(old) + Len(fresh)
          BY <1>14, <4>2, ConcatProperties
        <5> HIDE DEF all
        <5> QED
          BY <1>14, <4>2, <5>1, LenProperties
      <4>4. \A i \in 1 .. Len(old) : all[i] = old[i]
        BY <1>14, <4>2, ConcatParts, Zenon
      <4> HIDE DEF all
      <4>5. j \in DOMAIN all /\ all[j] = old[j]
        BY <4>2, <4>3, <4>4
      <4> QED
        BY <3>1, <4>1, <4>5 DEF old
    <3>2. CASE c # f.body
      BY <1>17, <1>19, <3>2 DEF Edits, Grows
    <3> QED
      BY <3>1, <3>2
  <2> QED
    BY <2>1, <2>2, <2>3 DEF Extends
<1>23. \A c \in 1 .. Len(ir.args) : c # f.body => closed.args[c] = ir.args[c]
  BY <1>17, <1>19 DEF Edits, Grows
<1>24. ASSUME NEW j \in 1 .. n
       PROVE  \E k \in 1 .. Len(closed.ops) :
                closed.ops[k].name \in Rebinders /\ closed.next - n + j - 1 \in Results(closed.ops[k])
  <2>1. n > 0 /\ f.s.s # "parallel"
    <3>1. n > 0
      BY <1>4
    <3> QED
      BY <1>13, <3>1 DEF Refused
  <2>2. m \in 1 .. Len(closed.ops)
    BY <1>19, <1>21
  <2>3. closed.next - n + j - 1 = yielded.next + j - 1
    BY <1>4, <1>20, <1>21
  <2>4. j \in DOMAIN Fresh(yielded, n) /\ Fresh(yielded, n)[j] = yielded.next + j - 1
    BY DEF Fresh
  <2>5. yielded.next + j - 1 \in Results(closed.ops[m])
    BY <1>20, <2>4 DEF Results
  <2> QED
    BY <1>7, <1>19, <2>1, <2>2, <2>3, <2>5
<1> QED
  BY <1>13, <1>22, <1>23, <1>24 DEF f, n, names

(* The body of a loop is no kernel's.                                       *)
LEMMA LoopIsNoKernel ==
    ASSUME EInv, ir.err = "none", frames # <<>>, Top.s.s # "kernel"
    PROVE  Top.body \notin KernelBlocks(ir, frames)
<1>1. /\ ir \in IRs /\ Tree(ir) /\ Nested(ir, frames) /\ Accepts(ir) /\ frames \in Seq(Frames)
      /\ DOMAIN ir.ops = 1 .. Len(ir.ops) /\ DOMAIN frames = 1 .. Len(frames)
      /\ Len(frames) \in 1 .. Len(frames) /\ Top = frames[Len(frames)] /\ TypeOK
  BY EmitRunning, PartsType, LenProperties, TopType DEF Top
<1>2. Top.body \in Held(Top) /\ Free(ir, Top.body) /\ Top.body \in Nat /\ Len(frames) \in Nat
  <2>1. Top.body \in Held(Top)
    BY DEF Held
  <2>2. Top.body \in 2 .. Len(ir.args) /\ Free(ir, Top.body)
    BY <1>1, <2>1 DEF Nested
  <2> QED
    BY <1>1, <2>1, <2>2, LenProperties
<1>3. ASSUME NEW k \in KernelOps(ir) PROVE ir.ops[k].regions[1] # Top.body
  <2>1. k \in 1 .. Len(ir.ops) /\ ir.ops[k].name = "kernel"
    BY <1>1 DEF KernelOps
  <2>2. Len(ir.ops[k].regions) = 1 /\ ir.ops[k].regions \in Seq(Blocks)
    BY <1>1, <2>1, PartsType DEF Accepts, Accepted, Bodied, Operations
  <2>3. 1 \in DOMAIN ir.ops[k].regions
    BY <2>2, LenProperties
  <2> QED
    BY <1>2, <2>1, <2>3 DEF Free
<1>4. ASSUME NEW k \in KernelFrames(frames) PROVE frames[k].body # Top.body
  <2>1. k \in 1 .. Len(frames) /\ k # Len(frames)
    BY <1>1 DEF KernelFrames
  <2>2. k < Len(frames) /\ frames[k].body \in Held(frames[k])
    BY <1>2, <2>1 DEF Held
  <2>3. frames[k].body < Top.body /\ frames[k].body \in 2 .. Len(ir.args)
    BY <1>1, <1>2, <2>1, <2>2 DEF Nested
  <2> QED
    BY <1>2, <2>3
<1> QED
  BY <1>3, <1>4 DEF KernelBlocks

(* The end of a loop.                                                       *)
LEMMA ExitForNames ==
    ASSUME NamesInv, ExitFor
    PROVE  NamesInv'
<1> DEFINE names == Pick(Top.before.order, Carried(ir, Top.before, scope))
           n == Len(names)
           vals == [j \in DOMAIN names |-> Val(ir'.next - n + j - 1)]
<1>1. /\ ir.err = "none" /\ frames # <<>> /\ Top.s.s \in LoopKinds /\ frames' = Up
      /\ scope' = (IF ir'.err = "none" THEN Rebound(scope, names, ir') ELSE scope)
      /\ locals' = locals
  BY DEF ExitFor
<1>2. EInv' /\ UseInv' /\ EInv /\ UseInv /\ TypeOK /\ ir \in IRs /\ scope \in Scopes /\ Binds(scope)
  BY NamesRunning, ExitForEmit, ExitForUse
<1>3. Top.s.s # "kernel" /\ Top.before \in Scopes
  <2>1. Top \in Frames
    BY <1>1, <1>2, TopType
  <2> QED
    BY <1>1, <2>1 DEF LoopKinds, Frames
<1>4. names \in Seq(Names) /\ n \in Nat /\ DOMAIN names = 1 .. n
  BY <1>2, <1>3, CarriedType
<1>5. ASSUME ir'.err = "none"
      PROVE  /\ Extends(ir, ir')
             /\ \A c \in 1 .. Len(ir.args) : c # Top.body => ir'.args[c] = ir.args[c]
             /\ \A j \in 1 .. n : \E k \in 1 .. Len(ir'.ops) :
                  ir'.ops[k].name \in Rebinders /\ ir'.next - n + j - 1 \in Results(ir'.ops[k])
  BY <1>2, <1>5, ExitForMakes
<1> HIDE DEF names, n
<1>6. Binds(scope)'
  <2>1. CASE ir'.err = "none"
    <3>1. \A j \in DOMAIN names : vals[j] # Unbound
      BY DEF Val, Unbound
    <3>2. scope' = BindAll(scope, names, vals)
      BY <1>1, <2>1 DEF Rebound, n
    <3> HIDE DEF vals
    <3> QED
      BY <1>2, <1>4, <3>1, <3>2, BindAllBinds DEF Binds
  <2>2. CASE ir'.err # "none"
    BY <1>1, <1>2, <2>2 DEF Binds
  <2> QED
    BY <2>1, <2>2
<1>7. CASE ir'.err # "none"
  BY <1>2, <1>6, <1>7 DEF NamesInv, StaleLocals
<1>8. CASE ir'.err = "none"
  <2>1. /\ ir' \in IRs /\ Once(ir') /\ scope' = BindAll(scope, names, vals)
        /\ KernelsGoOn
    BY <1>1, <1>2, <1>3, <1>8, FewerKernels DEF EInv, Inv, Sound, TypeOK, Rebound, n
  <2>2. KernelBlocks(ir, frames) \subseteq KernelBlocks(ir', frames')
    BY <1>2, <1>5, <1>8, <2>1, KernelsStay DEF KernelsGoOn
  <2>3. \A c \in KernelBlocks(ir, frames) : ir'.args[c] = ir.args[c]
    BY <1>1, <1>2, <1>3, <1>5, <1>8, LoopIsNoKernel, KernelBlocksIn
  <2>4. ASSUME NEW x \in Names
        PROVE  \/ locals'[x] = locals[x] /\ scope'.at[x] = scope.at[x]
               \/ Excused(ir', frames', locals'[x], scope'.at[x])
    <3>1. CASE \E j \in DOMAIN names : names[j] = x
      <4>1. PICK j \in DOMAIN names : names[j] = x /\ scope'.at[x] = vals[j]
        BY <2>1, <3>1, BindAllAt
      <4>2. IsVal(scope'.at[x]) /\ scope'.at[x].n = ir'.next - n + j - 1
        BY <4>1 DEF IsVal, Val
      <4>3. \E k \in 1 .. Len(ir'.ops) :
              ir'.ops[k].name \in Rebinders /\ scope'.at[x].n \in Results(ir'.ops[k])
        BY <1>4, <1>5, <1>8, <4>1, <4>2
      <4> HIDE DEF vals
      <4> QED
        BY <2>1, <4>2, <4>3, MadeExcuses
    <3>2. CASE ~\E j \in DOMAIN names : names[j] = x
      BY <1>1, <2>1, <3>2, BindAllAt
    <3> QED
      BY <3>1, <3>2
  <2>5. StaleLocals'
    BY <1>1, <1>2, <1>5, <1>8, <2>2, <2>3, <2>4, StaleStep DEF NamesInv
  <2> QED
    BY <1>2, <1>6, <2>5 DEF NamesInv
<1> QED
  BY <1>7, <1>8


(***************************************************************************)
(* The theorem.                                                             *)
(***************************************************************************)
(* Each parameter is bound and set to its value.                            *)
LEMMA InitNames == Init => NamesInv
<1> SUFFICES ASSUME Init PROVE NamesInv
  OBVIOUS
<1>1. EInv /\ UseInv
  BY InitEmit, InitUse
<1>2. scope = InitialScope /\ locals = scope.at
  BY DEF Init
<1>3. \A n : Num(n) # Unbound
  BY DEF Num, Unbound
<1>4. ASSUME NEW j \in DOMAIN scope.order PROVE scope.at[scope.order[j]] # Unbound
  <2>1. j \in DOMAIN Params /\ scope.order[j] = Params[j].x
    BY <1>2 DEF InitialScope
  <2>2. Params[j].x \in Names
    <3>1. DOMAIN Params = 1 .. Len(Params) /\ \A i \in 1 .. Len(Params) : Params[i] \in [x : Names, n : Int]
      BY ParamsAssumption, LenProperties, ElementOfSeq
    <3> QED
      BY <2>1, <3>1
  <2> QED
    BY <1>2, <1>3, <2>1, <2>2 DEF InitialScope
<1> QED
  BY <1>1, <1>2, <1>4 DEF NamesInv, Binds, StaleLocals

(* Every step keeps NamesInv.                                               *)
LEMMA NextNames == NamesInv /\ [Next]_vars => NamesInv'
<1> SUFFICES ASSUME NamesInv, [Next]_vars PROVE NamesInv'
  OBVIOUS
<1>1. ASSUME UNCHANGED vars PROVE NamesInv'
  <2>1. EInv' /\ UseInv'
    BY NextEmit, NextUse DEF NamesInv
  <2>2. Binds(scope)' /\ StaleLocals'
    BY <1>1 DEF vars, NamesInv, Binds, StaleLocals, Definers, KernelBodies
  <2> QED
    BY <2>1, <2>2 DEF NamesInv
<1>2. ASSUME NEW st \in Menu,
             \/ Assign(st) \/ TupleAssign(st) \/ AugAssign(st)
             \/ AssignSlice(st) \/ AugAssignSlice(st) \/ Return(st)
             \/ EnterFor(st) \/ EnterIf(st) \/ EnterWhile(st) \/ EnterKernel(st)
             \/ SkipRest(st) \/ AbandonLoop(st)
      PROVE  NamesInv'
  <2>1. CASE \/ Assign(st) \/ TupleAssign(st) \/ AugAssign(st)
             \/ AssignSlice(st) \/ AugAssignSlice(st) \/ Return(st)
    BY <2>1, AssignNames, TupleAssignNames, AugAssignNames, PlainNames
  <2>2. CASE EnterFor(st) \/ EnterIf(st) \/ EnterWhile(st) \/ EnterKernel(st)
    BY <2>2, EnterForNames, BranchNames, EnterKernelNames
  <2>3. CASE SkipRest(st) \/ AbandonLoop(st)
    BY <2>3, TurnNames, LeaveNames
  <2> QED
    BY <1>2, <2>1, <2>2, <2>3
<1>3. ASSUME ExitFor \/ EnterElse \/ ExitIf \/ ExitWhile \/ ExitKernel PROVE NamesInv'
  BY <1>3, ExitForNames, TurnNames, LeaveNames, ExitKernelNames
<1> QED
  BY <1>1, <1>2, <1>3 DEF Next, Stop

(* Whatever the source, a Python local of the rewritten kernel differs from *)
(* the binding of its name only where the Builder rebinds a name behind     *)
(* Python's back (a number that became a const at the beginning of a loop,  *)
(* a value that a loop carried, at its end), or where Python sets a name    *)
(* that the Builder does not bind (the thread id of a kernel).              *)
THEOREM LocalsFollowBindings == Spec => []StaleLocals
<1>1. Init => NamesInv
  BY InitNames
<1>2. NamesInv /\ [Next]_vars => NamesInv'
  BY NextNames
<1>3. NamesInv => StaleLocals
  BY DEF NamesInv
<1> QED
  BY <1>1, <1>2, <1>3, PTL DEF Spec
=============================================================================
