-------------------------- MODULE DisciplineProofs --------------------------
(***************************************************************************)
(* Every operand of a trace dominates its use when the kernel keeps the     *)
(* rules of Discipline, for every menu of statements and every bound:       *)
(* DSpec => []Dominance. An operand comes from a scope, a Python local or a *)
(* suspended statement, so the inductive invariant says of each of them,    *)
(* level by level of the open blocks, that what a live name or a statement  *)
(* there stands for is defined in a block that is open at that level, and   *)
(* of every operation that what it uses is defined above it and before it.  *)
(* Nor does the body of a loop ever use what the loop carries by the value  *)
(* from before it: DSpec => []InitialsRetired. Only blocks that are open or *)
(* held by a suspended statement get operations, and no region of a loop    *)
(* that has ended is above one of those.                                    *)
(***************************************************************************)
EXTENDS Discipline, TracerUseProofs

(* Block b defines v, and it does so before operation k.                    *)
Takes(r, b, v) == b \in 1 .. Len(r.args) /\ \E j \in DOMAIN r.args[b] : r.args[b][j] = v
Defines(r, b, v) == Takes(r, b, v) \/ \E m \in 1 .. Len(r.ops) : r.ops[m].blk = b /\ v \in Results(r.ops[m])
Reaching(r, b, v, k) ==
    Takes(r, b, v) \/ \E m \in 1 .. Len(r.ops) : r.ops[m].blk = b /\ m < k /\ v \in Results(r.ops[m])

(* Operation k is in block h and uses what the blocks S define before it.   *)
Fed(r, h, S, k) == /\ r.ops[k].blk = h
                   /\ \A v \in Operands(r.ops[k]) : \E b \in S : Reaching(r, b, v, k)

(* The IRs that r flows into while operations over S are appended to h.     *)
Gains(r, e) == Extends(r, e) /\ \A k \in 1 .. Len(r.ops) : e.ops[k].blk = r.ops[k].blk
Flows(r, h, S) ==
    {e \in IRs : /\ Gains(r, e)
                 /\ \A k \in 1 .. Len(r.ops) : e.ops[k] = r.ops[k]
                 /\ \A k \in Len(r.ops) + 1 .. Len(e.ops) : Fed(e, h, S, k)
                 /\ e.err = "none" => r.err = "none"}

(* The ids and the objects that may be operands in them.                    *)
Offers(r, S) == {v \in Ids : r.err = "none" => \E b \in S : Defines(r, b, v)}
Offered(r, S) == {o \in Objs : ~IsNum(o) => o.n \in Offers(r, S)}

(***************************************************************************)
(* Flowing.                                                                 *)
(***************************************************************************)
(* What a block defines, it goes on defining.                               *)
LEMMA DefinesStays ==
    ASSUME NEW r \in IRs, NEW e \in IRs, Gains(r, e)
    PROVE  /\ \A b, v : Takes(r, b, v) => Takes(e, b, v)
           /\ \A b, v : Defines(r, b, v) => Defines(e, b, v)
           /\ \A b, v, k : Reaching(r, b, v, k) => Reaching(e, b, v, k)
<1>1. /\ Len(r.ops) \in Nat /\ Len(e.ops) \in Nat /\ Len(r.args) \in Nat /\ Len(e.args) \in Nat
      /\ Len(r.ops) <= Len(e.ops) /\ Len(r.args) <= Len(e.args)
      /\ \A k \in 1 .. Len(r.ops) : /\ e.ops[k].blk = r.ops[k].blk
                                    /\ Results(e.ops[k]) = Results(r.ops[k])
      /\ \A c \in 1 .. Len(r.args) : \A j \in DOMAIN r.args[c] :
           j \in DOMAIN e.args[c] /\ e.args[c][j] = r.args[c][j]
  BY PartsType DEF Gains, Extends, Results
<1>2. /\ \A b \in 1 .. Len(r.args) : b \in 1 .. Len(e.args)
      /\ \A m \in 1 .. Len(r.ops) : m \in 1 .. Len(e.ops)
  BY <1>1
<1>3. \A b, v : Takes(r, b, v) => Takes(e, b, v)
  BY <1>1, <1>2 DEF Takes
<1> QED
  BY <1>1, <1>2, <1>3 DEF Defines, Reaching

(* Gaining, twice.                                                          *)
LEMMA GainsTwice ==
    ASSUME NEW r \in IRs, NEW e \in IRs, NEW q \in IRs, Gains(r, e), Gains(e, q)
    PROVE  Gains(r, q)
<1>1. /\ Len(r.ops) \in Nat /\ Len(e.ops) \in Nat /\ Len(r.args) \in Nat /\ Len(e.args) \in Nat
      /\ Len(q.ops) \in Nat /\ Len(q.args) \in Nat
  BY PartsType
<1>2. /\ Len(r.ops) <= Len(e.ops) /\ Len(r.args) <= Len(e.args)
      /\ Len(e.ops) <= Len(q.ops) /\ Len(e.args) <= Len(q.args)
  BY DEF Gains, Extends
<1>3. /\ \A k \in 1 .. Len(r.ops) : k \in 1 .. Len(e.ops)
      /\ \A c \in 1 .. Len(r.args) : c \in 1 .. Len(e.args)
  BY <1>1, <1>2
<1>4. /\ Len(r.ops) <= Len(q.ops) /\ Len(r.args) <= Len(q.args)
  BY <1>1, <1>2
<1>5. \A k \in 1 .. Len(r.ops) : /\ q.ops[k].name = r.ops[k].name
                                 /\ q.ops[k].results = r.ops[k].results
                                 /\ q.ops[k].regions = r.ops[k].regions
                                 /\ q.ops[k].blk = r.ops[k].blk
  BY <1>3 DEF Gains, Extends
<1>6. \A c \in 1 .. Len(r.args) : \A j \in DOMAIN r.args[c] :
        j \in DOMAIN q.args[c] /\ q.args[c][j] = r.args[c][j]
  BY <1>3 DEF Gains, Extends
<1> QED
  BY <1>4, <1>5, <1>6 DEF Gains, Extends

(* An IR flows into itself.                                                 *)
LEMMA FlowsSelf ==
    ASSUME NEW r \in IRs, NEW h, NEW S
    PROVE  r \in Flows(r, h, S)
<1>1. Len(r.ops) \in Nat /\ Len(r.args) \in Nat
  BY PartsType
<1>2. Gains(r, r)
  BY <1>1 DEF Gains, Extends
<1>3. \A k \in Len(r.ops) + 1 .. Len(r.ops) : FALSE
  BY <1>1
<1> QED
  BY <1>2, <1>3 DEF Flows

(* What an IR flowed into can flow on.                                      *)
LEMMA FlowsTwice ==
    ASSUME NEW r \in IRs, NEW h, NEW S, NEW e \in Flows(r, h, S)
    PROVE  Flows(e, h, S) \subseteq Flows(r, h, S)
<1> SUFFICES ASSUME NEW q \in Flows(e, h, S) PROVE q \in Flows(r, h, S)
  OBVIOUS
<1>1. /\ e \in IRs /\ q \in IRs /\ Gains(r, e) /\ Gains(e, q)
      /\ Len(r.ops) \in Nat /\ Len(e.ops) \in Nat /\ Len(q.ops) \in Nat
      /\ Len(r.ops) <= Len(e.ops)
  BY PartsType DEF Flows, Gains, Extends
<1>2. Gains(r, q)
  BY <1>1, GainsTwice
<1>3. ASSUME NEW k \in 1 .. Len(r.ops) PROVE q.ops[k] = r.ops[k]
  <2>1. k \in 1 .. Len(e.ops)
    BY <1>1
  <2> QED
    BY <2>1 DEF Flows
<1>4. ASSUME NEW k \in Len(r.ops) + 1 .. Len(q.ops) PROVE Fed(q, h, S, k)
  <2>1. CASE k \in Len(e.ops) + 1 .. Len(q.ops)
    BY <2>1 DEF Flows
  <2>2. CASE k \in Len(r.ops) + 1 .. Len(e.ops)
    <3>1. Fed(e, h, S, k)
      BY <2>2 DEF Flows
    <3>2. k \in 1 .. Len(e.ops)
      BY <1>1, <2>2
    <3>3. q.ops[k] = e.ops[k]
      BY <3>2 DEF Flows
    <3>4. \A b, v : Reaching(e, b, v, k) => Reaching(q, b, v, k)
      BY <1>1, DefinesStays
    <3> QED
      BY <3>1, <3>3, <3>4 DEF Fed
  <2> QED
    BY <1>1, <1>4, <2>1, <2>2
<1>5. q.err = "none" => r.err = "none"
  BY DEF Flows
<1> QED
  BY <1>1, <1>2, <1>3, <1>4, <1>5 DEF Flows

(* What was offered still is.                                               *)
LEMMA OffersStay ==
    ASSUME NEW r \in IRs, NEW e \in IRs, Gains(r, e), e.err = "none" => r.err = "none", NEW S
    PROVE  Offers(r, S) \subseteq Offers(e, S) /\ Offered(r, S) \subseteq Offered(e, S)
<1>1. \A b, v : Defines(r, b, v) => Defines(e, b, v)
  BY DefinesStays
<1>2. Offers(r, S) \subseteq Offers(e, S)
  BY <1>1 DEF Offers
<1> QED
  BY <1>2 DEF Offered

(* Flowing does that.                                                       *)
LEMMA OffersFlow ==
    ASSUME NEW r \in IRs, NEW h, NEW S, NEW e \in Flows(r, h, S), NEW T
    PROVE  e \in IRs /\ Offers(r, T) \subseteq Offers(e, T) /\ Offered(r, T) \subseteq Offered(e, T)
<1>1. e \in IRs /\ Gains(r, e) /\ (e.err = "none" => r.err = "none")
  BY DEF Flows
<1> QED
  BY <1>1, OffersStay

(* A change of the stack, the counter or the error, and new blocks or       *)
(* arguments, are flowing.                                                  *)
LEMMA FlowsSame ==
    ASSUME NEW r \in IRs, NEW e \in IRs, e.ops = r.ops, e.err = "none" => r.err = "none",
           Len(r.args) <= Len(e.args),
           \A c \in 1 .. Len(r.args) : \A j \in DOMAIN r.args[c] :
             j \in DOMAIN e.args[c] /\ e.args[c][j] = r.args[c][j],
           NEW h, NEW S
    PROVE  e \in Flows(r, h, S)
<1>1. Len(r.ops) \in Nat
  BY PartsType
<1>2. Gains(r, e)
  BY <1>1 DEF Gains, Extends
<1>3. \A k \in Len(r.ops) + 1 .. Len(e.ops) : FALSE
  BY <1>1
<1> QED
  BY <1>2, <1>3 DEF Flows

(* So is appending operations over what is offered: their results are       *)
(* offered then.                                                            *)
LEMMA FlowsOps ==
    ASSUME NEW r \in IRs, NEW e \in IRs, NEW h, NEW S, h \in S, NEW new \in Seq(Operations),
           e.ops = r.ops \o new, e.args = r.args, e.err = "none" => r.err = "none",
           \A k \in DOMAIN new : /\ new[k].blk = h
                                 /\ \A v \in Operands(new[k]) : \E b \in S : Defines(r, b, v)
    PROVE  /\ e \in Flows(r, h, S)
           /\ \A k \in DOMAIN new : \A v \in Results(new[k]) : \E b \in S : Defines(e, b, v)
<1>1. r.ops \in Seq(Operations) /\ Len(r.args) \in Nat
  BY PartsType
<1>2. /\ Len(r.ops) \in Nat /\ Len(new) \in Nat
      /\ DOMAIN new = 1..Len(new)
      /\ Len(e.ops) = Len(r.ops) + Len(new)
      /\ \A k \in 1..Len(r.ops) : e.ops[k] = r.ops[k]
      /\ \A k \in 1..Len(new) : e.ops[Len(r.ops) + k] = new[k]
  BY <1>1, ConcatParts
<1>3. Gains(r, e)
  BY <1>1, <1>2 DEF Gains, Extends
<1>4. ASSUME NEW k \in DOMAIN new, NEW v \in Results(new[k]) PROVE \E b \in S : Defines(e, b, v)
  <2>1. Len(r.ops) + k \in 1 .. Len(e.ops) /\ e.ops[Len(r.ops) + k] = new[k]
    BY <1>2
  <2> QED
    BY <1>4, <2>1 DEF Defines
<1>5. ASSUME NEW k \in Len(r.ops) + 1 .. Len(e.ops) PROVE Fed(e, h, S, k)
  <2>1. k - Len(r.ops) \in DOMAIN new /\ Len(r.ops) + (k - Len(r.ops)) = k
    BY <1>2
  <2>2. e.ops[k] = new[k - Len(r.ops)]
    BY <1>2, <2>1
  <2>3. ASSUME NEW b, NEW v, Defines(r, b, v) PROVE Reaching(e, b, v, k)
    <3>1. CASE Takes(r, b, v)
      BY <3>1 DEF Takes, Reaching
    <3>2. CASE \E m \in 1 .. Len(r.ops) : r.ops[m].blk = b /\ v \in Results(r.ops[m])
      <4>1. \A m \in 1 .. Len(r.ops) : m \in 1 .. Len(e.ops) /\ m < k /\ e.ops[m] = r.ops[m]
        BY <1>2, <1>5
      <4> QED
        BY <3>2, <4>1 DEF Reaching
    <3> QED
      BY <2>3, <3>1, <3>2 DEF Defines
  <2> QED
    BY <2>1, <2>2, <2>3 DEF Fed
<1> QED
  BY <1>2, <1>3, <1>4, <1>5 DEF Flows

(* append_op into one of the blocks.                                        *)
LEMMA AppendOpFlows ==
    ASSUME NEW r \in IRs, NEW S, NEW h \in Blocks, h \in S, NEW name \in OpNames,
           NEW operands \in Seq(Offers(r, S)), NEW nres \in Nat, NEW regions \in Seq(Blocks),
           NEW attr \in Int
    PROVE  LET e == AppendOp(r, h, name, operands, nres, regions, attr)
           IN  /\ e \in Flows(r, h, S)
               /\ e.err = "none" => \A j \in 1..nres : \E c \in S : Defines(e, c, e.next - nres + j - 1)
<1> DEFINE op == [name |-> name, blk |-> h, operands |-> operands, results |-> Fresh(r, nres),
                  regions |-> regions, attr |-> attr]
           e == AppendOp(r, h, name, operands, nres, regions, attr)
<1>1. r \in IRs /\ operands \in Seq(Ids)
  BY DEF Offers
<1>2. e \in Emitted(r) /\ (e.err = "none" => r.err = "none" /\ e.next = r.next + nres)
  BY <1>1, AppendOpType
<1>3. CASE r.err # "none"
  <2>1. e = r
    BY <1>3 DEF AppendOp
  <2> QED
    BY <1>3, <2>1, FlowsSelf
<1>4. CASE r.err = "none" /\ Terminated(r, h)
  <2>1. e = Refuse(r, nres)
    BY <1>4 DEF AppendOp
  <2>2. e \in IRs /\ e.err # "none" /\ e.ops = r.ops /\ e.args = r.args
    BY <1>2, <2>1, RefuseType DEF Emitted
  <2>3. e \in Flows(r, h, S)
    <3>1. Len(r.args) <= Len(r.args)
      BY PartsType
    <3> HIDE DEF e
    <3> QED
      BY <2>2, <3>1, FlowsSame
  <2> QED
    BY <2>2, <2>3
<1>5. CASE r.err = "none" /\ ~Terminated(r, h)
  <2>1. /\ Fresh(r, nres) \in Seq(Ids) /\ DOMAIN Fresh(r, nres) = 1..nres
        /\ \A j \in 1..nres : Fresh(r, nres)[j] = r.next + j - 1
    BY <1>1, FreshType, Zenon
  <2>2. /\ op \in Operations /\ op.operands = operands /\ op.results = Fresh(r, nres) /\ op.blk = h
    BY <1>1, <2>1 DEF Operations
  <2>3. e = [r EXCEPT !.ops = Append(r.ops, op), !.next = r.next + nres]
    BY <1>5 DEF AppendOp
  <2> HIDE DEF op, e
  <2>4. r.ops \in Seq(Operations)
    BY <1>1 DEF IRs
  <2>5. /\ e \in IRs /\ e.ops = Append(r.ops, op) /\ e.args = r.args /\ e.err = r.err
        /\ e.next = r.next + nres
    <3>1. e \in IRs
      BY <1>2 DEF Emitted, e
    <3> QED
      BY <1>1, <2>3, <3>1 DEF IRs
  <2>6. <<op>> \in Seq(Operations) /\ DOMAIN <<op>> = {1} /\ <<op>>[1] = op
    BY <2>2
  <2>7. e.ops = r.ops \o <<op>>
    BY <2>2, <2>4, <2>5, AppendIsConcat
  <2>8. \A v \in Operands(op) : \E c \in S : Defines(r, c, v)
    <3>1. \A j \in DOMAIN operands : operands[j] \in Offers(r, S)
      BY ElementOfSeq, LenProperties
    <3> QED
      BY <1>5, <2>2, <3>1 DEF Operands, Offers
  <2>9. e \in Flows(r, h, S) /\ \A v \in Results(op) : \E c \in S : Defines(e, c, v)
    <3> DEFINE new == <<op>>
    <3>1. new \in Seq(Operations) /\ e.ops = r.ops \o new /\ DOMAIN new = {1} /\ new[1] = op
      BY <2>6, <2>7
    <3> HIDE DEF new
    <3>2. \A k \in DOMAIN new : /\ new[k].blk = h
                                /\ \A v \in Operands(new[k]) : \E c \in S : Defines(r, c, v)
      BY <2>2, <2>8, <3>1
    <3>3. /\ e \in Flows(r, h, S)
          /\ \A k \in DOMAIN new : \A v \in Results(new[k]) : \E c \in S : Defines(e, c, v)
      BY <2>5, <3>1, <3>2, FlowsOps
    <3> QED
      BY <3>1, <3>3
  <2>10. ASSUME NEW j \in 1..nres PROVE \E c \in S : Defines(e, c, e.next - nres + j - 1)
    <3>1. e.next - nres + j - 1 = Fresh(r, nres)[j]
      BY <1>1, <2>1, <2>5 DEF IRs, Ids
    <3>2. Fresh(r, nres)[j] \in Results(op)
      BY <2>1, <2>2 DEF Results
    <3> QED
      BY <2>9, <3>1, <3>2
  <2> QED
    BY <2>9, <2>10 DEF e
<1> QED
  BY <1>3, <1>4, <1>5

(* ensure_value: what it returns for an object that is offered is offered.  *)
LEMMA EnsureFlows ==
    ASSUME NEW r \in IRs, r.stack # <<>>, NEW h, NEW S, Block(r) = h, h \in S, NEW objs \in Seq(Objs)
    PROVE  /\ Ensure(r, objs) \in Flows(r, h, S)
           /\ \A j \in DOMAIN objs : objs[j] \in Offered(r, S) =>
                EnsureIds(r, objs)[j] \in Offers(Ensure(r, objs), S)
<1> DEFINE e == Ensure(r, objs)
           ids == EnsureIds(r, objs)
           C == Nums(objs)
           n == Cardinality(C)
           consts == Consts(r, objs)
<1>1. r \in IRs /\ r.next \in Nat
  BY DEF IRs, Ids
<1>2. /\ C \in SUBSET DOMAIN objs /\ C \in SUBSET Int /\ IsFiniteSet(C) /\ n \in Nat
      /\ DOMAIN objs = 1..Len(objs) /\ Len(objs) \in Nat
  BY <1>1, NumsType
<1>3. /\ ids \in Seq(Ids) /\ Len(ids) = Len(objs) /\ DOMAIN ids = 1..Len(objs)
      /\ \A j \in DOMAIN objs :
           /\ IsNum(objs[j]) => ids[j] = r.next + Rank(C, j) - 1
           /\ ~IsNum(objs[j]) => ids[j] = objs[j].n
  <2>1. ids \in Seq(Ids) /\ Len(ids) = Len(objs)
    BY <1>1, EnsureIdsType
  <2>2. DOMAIN ids = DOMAIN objs
    BY DEF EnsureIds
  <2> QED
    BY <1>2, <2>1, <2>2 DEF EnsureIds
<1>5. e \in IRs
  BY <1>1, EnsureType DEF Emitted
<1>6. /\ e \in Flows(r, h, S)
      /\ e.err = "none" => \A j \in C : \E b \in S : Defines(e, b, ids[j])
  <2>1. CASE r.err # "none" \/ C = {}
    <3>1. e = r
      BY <2>1 DEF Ensure
    <3> QED
      BY <2>1, <3>1, FlowsSelf
  <2>2. CASE r.err = "none" /\ C # {} /\ Terminated(r, Block(r))
    <3>1. e = Refuse(r, 1)
      BY <2>2 DEF Ensure
    <3>2. e.err # "none" /\ e.ops = r.ops /\ e.args = r.args
      <4>1. /\ Refuse(r, 1) \in Emitted(r) /\ Refuse(r, 1).err # "none"
            /\ Refuse(r, 1).ops = r.ops
        BY <1>1, RefuseType
      <4>2. Refuse(r, 1).args = r.args
        BY <4>1 DEF Emitted
      <4> QED
        BY <3>1, <4>1, <4>2
    <3>3. e \in Flows(r, h, S)
      <4>1. Len(r.args) <= Len(r.args)
        BY PartsType
      <4> HIDE DEF e
      <4> QED
        BY <1>5, <3>2, <4>1, FlowsSame
    <3> QED
      BY <3>2, <3>3
  <2>3. CASE r.err = "none" /\ C # {} /\ ~Terminated(r, Block(r))
    <3>1. e = [r EXCEPT !.ops = r.ops \o consts, !.next = r.next + n]
      BY <2>3 DEF Ensure
    <3>2. /\ DOMAIN consts = 1..n
          /\ \A c \in 1..n : /\ consts[c].operands = <<>> /\ consts[c].results = <<r.next + c - 1>>
                             /\ consts[c].blk = Block(r)
      BY DEF Consts
    <3>3. consts \in Seq(Operations)
      BY <1>1, ConstsType
    <3> HIDE DEF e, ids, C, n, consts
    <3>4. e.ops = r.ops \o consts /\ e.args = r.args /\ e.err = r.err
      BY <1>1, <3>1 DEF IRs
    <3>5. \A c \in DOMAIN consts :
            consts[c].blk = h /\ \A v \in Operands(consts[c]) : \E b \in S : Defines(r, b, v)
      BY <3>2 DEF Operands
    <3>6. /\ e \in Flows(r, h, S)
          /\ \A c \in DOMAIN consts : \A v \in Results(consts[c]) : \E b \in S : Defines(e, b, v)
      BY <1>5, <3>3, <3>4, <3>5, FlowsOps
    <3>7. ASSUME NEW j \in C PROVE \E b \in S : Defines(e, b, ids[j])
      <4>1. Rank(C, j) \in 1..n
        BY <1>2, RankType DEF n
      <4>2. ids[j] = r.next + Rank(C, j) - 1
        BY <1>2, <1>3 DEF C, Nums
      <4>3. r.next + Rank(C, j) - 1 \in Results(consts[Rank(C, j)])
        BY <3>2, <4>1 DEF Results
      <4> QED
        BY <3>2, <3>6, <4>1, <4>2, <4>3
    <3> QED
      BY <3>6, <3>7
  <2> QED
    BY <2>1, <2>2, <2>3
<1>7. Offers(r, S) \subseteq Offers(e, S)
  BY <1>6, OffersFlow
<1>8. ASSUME NEW j \in DOMAIN objs, objs[j] \in Offered(r, S) PROVE ids[j] \in Offers(e, S)
  <2>1. CASE IsNum(objs[j])
    <3>1. j \in C /\ ids[j] \in Ids
      BY <1>2, <1>3, <2>1, ElementOfSeq DEF Nums
    <3> QED
      BY <1>6, <3>1 DEF Offers
  <2>2. CASE ~IsNum(objs[j])
    BY <1>3, <1>7, <1>8, <2>2 DEF Offered
  <2> QED
    BY <2>1, <2>2
<1> QED
  BY <1>6, <1>8

(* An emitting method.                                                      *)
LEMMA EmitFlows ==
    ASSUME NEW r \in IRs, r.stack # <<>>, NEW h, NEW S, Block(r) = h, h \in S, NEW name \in OpNames,
           NEW objs \in Seq(Offered(r, S)), NEW nres \in Nat, NEW regions \in Seq(Blocks),
           NEW attr \in Int
    PROVE  LET e == Emit(r, name, objs, nres, regions, attr)
           IN  /\ e \in Flows(r, h, S)
               /\ e.err = "none" => \A j \in 1..nres : \E c \in S : Defines(e, c, e.next - nres + j - 1)
<1> DEFINE q == Ensure(r, objs)
           ids == EnsureIds(r, objs)
           e == AppendOp(q, Block(r), name, ids, nres, regions, attr)
<1>1. objs \in Seq(Objs) /\ Block(r) \in Blocks
  BY BlockType DEF Offered
<1>2. q \in Flows(r, h, S) /\ q \in IRs
  BY <1>1, EnsureFlows, EnsureType DEF Emitted
<1>3. ids \in Seq(Offers(q, S))
  <2>1. \A j \in DOMAIN objs : objs[j] \in Offered(r, S)
    BY LenProperties, ElementOfSeq
  <2>2. \A j \in DOMAIN objs : ids[j] \in Offers(q, S)
    BY <1>1, <2>1, EnsureFlows
  <2>3. DOMAIN ids = DOMAIN objs /\ ids \in Seq(Ids)
    BY <1>1, EnsureIdsType DEF EnsureIds
  <2>4. Len(ids) \in Nat /\ DOMAIN ids = 1 .. Len(ids)
    BY <2>3, LenProperties
  <2> HIDE DEF q, ids
  <2>5. ids \in [1 .. Len(ids) -> Offers(q, S)]
    <3>1. ids \in [1 .. Len(ids) -> Ids]
      BY <2>3, LenProperties
    <3> QED
      BY <2>2, <2>3, <2>4, <3>1
  <2> QED
    BY <2>4, <2>5, FunctionIsSeq
<1> HIDE DEF q, ids
<1>4. /\ e \in Flows(q, h, S)
      /\ e.err = "none" => \A j \in 1..nres : \E c \in S : Defines(e, c, e.next - nres + j - 1)
  BY <1>1, <1>2, <1>3, AppendOpFlows
<1> QED
  BY <1>2, <1>4, FlowsTwice DEF Emit, q, ids

(***************************************************************************)
(* Expressions and statements.                                              *)
(***************************************************************************)
(* The IRs whose current block is one of S, where the buffer is offered,    *)
(* and the outcomes of an expression.                                       *)
Pouring(h, S) == {r \in IRs : r.stack # <<>> /\ Block(r) = h /\ h \in S /\ 0 \in Offers(r, S)}
Draws(r, h, S) == {e \in Emissions(r) : e.ir \in Flows(r, h, S) /\ e.o \in Offered(e.ir, S)}

(* emit_value returns a Value that is offered after it.                     *)
LEMMA EmitValueDraws ==
    ASSUME NEW h, NEW S, NEW r \in Pouring(h, S), NEW name \in OpNames, NEW objs \in Seq(Offered(r, S))
    PROVE  EmitValue(r, name, objs) \in Draws(r, h, S)
<1> DEFINE e == Emit(r, name, objs, 1, <<>>, 0)
<1>1. r \in IRs /\ objs \in Seq(Objs) /\ r.stack # <<>> /\ Block(r) = h /\ h \in S
  BY DEF Pouring, Offered
<1>2. EmitValue(r, name, objs) \in Emissions(r)
  BY <1>1, EmitValueType
<1>3. /\ e \in Flows(r, h, S)
      /\ e.err = "none" => \A j \in 1..1 : \E c \in S : Defines(e, c, e.next - 1 + j - 1)
  <2>1. <<>> \in Seq(Blocks) /\ 1 \in Nat /\ 0 \in Int
    BY EmptySeq
  <2> QED
    BY <1>1, <2>1, EmitFlows, Zenon
<1> HIDE DEF e
<1>4. EmitValue(r, name, objs) = [ir |-> e, o |-> Val(LastValue(e))]
  BY DEF EmitValue, e
<1>5. e.next \in Nat \ {0}
  BY <1>3 DEF Flows, IRs, Ids
<1>6. LastValue(e) \in Offers(e, S)
  BY <1>3, <1>5 DEF LastValue, Offers, Ids
<1>7. Val(LastValue(e)) \in Offered(e, S)
  BY <1>6, ValType DEF Offered, Offers
<1> QED
  BY <1>2, <1>3, <1>4, <1>7 DEF Draws

(* What an emission yields can be emitted to and used again.                *)
LEMMA DrawsOn ==
    ASSUME NEW h, NEW S, NEW r \in Pouring(h, S), NEW e \in Draws(r, h, S)
    PROVE  /\ e.ir \in Pouring(h, S) /\ e.ir \in Flows(r, h, S) /\ e.ir.stack = r.stack /\ e.ir.args = r.args
           /\ e.o \in Offered(e.ir, S) /\ Offered(r, S) \subseteq Offered(e.ir, S)
           /\ Flows(e.ir, h, S) \subseteq Flows(r, h, S) /\ Draws(e.ir, h, S) \subseteq Draws(r, h, S)
<1>1. /\ e.ir \in Flows(r, h, S) /\ e.o \in Offered(e.ir, S) /\ e.ir \in Emitted(r) /\ r \in IRs
      /\ r.stack # <<>> /\ Block(r) = h /\ h \in S /\ 0 \in Offers(r, S)
  BY DEF Draws, Emissions, Pouring
<1>2. e.ir.stack = r.stack /\ e.ir.args = r.args
  BY <1>1 DEF Emitted
<1>3. /\ Flows(e.ir, h, S) \subseteq Flows(r, h, S) /\ Offered(r, S) \subseteq Offered(e.ir, S)
      /\ 0 \in Offers(e.ir, S)
  BY <1>1, FlowsTwice, OffersFlow
<1>4. e.ir \in Pouring(h, S)
  BY <1>1, <1>2, <1>3 DEF Pouring, Flows, Block
<1>5. Emissions(e.ir) \subseteq Emissions(r)
  BY <1>1, EmissionsChain
<1>6. Draws(e.ir, h, S) \subseteq Draws(r, h, S)
  BY <1>3, <1>5 DEF Draws
<1> QED
  BY <1>1, <1>2, <1>3, <1>4, <1>6

(* A Python number is no id, so it is always offered.                       *)
LEMMA NumOffered ==
    ASSUME NEW r, NEW S, NEW n \in Int
    PROVE  Num(n) \in Offered(r, S)
BY DEF Num, Offered, Objs, IsNum

(* So is the buffer.                                                        *)
LEMMA BufferOffered ==
    ASSUME NEW h, NEW S, NEW r \in Pouring(h, S)
    PROVE  Buffer \in Offered(r, S)
BY BufferType DEF Pouring, Offered, Buffer, Val

(* Python arithmetic that appends nothing.                                  *)
LEMMA PureDraws ==
    ASSUME NEW h, NEW S, NEW r \in Pouring(h, S), NEW o \in Offered(r, S)
    PROVE  Pure(r, o) \in Draws(r, h, S)
<1>1. r \in Flows(r, h, S) /\ r \in Emitted(r) /\ o \in Objs
  BY FlowsSelf DEF Pouring, Emitted, Offered
<1> QED
  BY <1>1 DEF Pure, Draws, Emissions

(* x + y of what is offered.                                                *)
LEMMA AddDraws ==
    ASSUME NEW h, NEW S, NEW r \in Pouring(h, S), NEW a \in Offered(r, S), NEW b \in Offered(r, S)
    PROVE  Add(r, a, b) \in Draws(r, h, S)
<1>1. CASE IsNum(a) /\ IsNum(b)
  <2>1. a.n + b.n \in Int
    BY ObjsType DEF Offered
  <2>2. Pure(r, Num(a.n + b.n)) \in Draws(r, h, S)
    BY <2>1, NumOffered, PureDraws
  <2> QED
    BY <1>1, <2>2 DEF Add
<1>2. CASE ~(IsNum(a) /\ IsNum(b))
  <2>1. "add" \in OpNames /\ <<a, b>> \in Seq(Offered(r, S))
    BY DEF OpNames
  <2>2. EmitValue(r, "add", <<a, b>>) \in Draws(r, h, S)
    BY <2>1, EmitValueDraws, Zenon
  <2> QED
    BY <1>2, <2>2 DEF Add
<1> QED
  BY <1>1, <1>2

(* x < y of what is offered.                                                *)
LEMMA LessDraws ==
    ASSUME NEW h, NEW S, NEW r \in Pouring(h, S), NEW a \in Offered(r, S), NEW b \in Offered(r, S)
    PROVE  Less(r, a, b) \in Draws(r, h, S)
<1>1. CASE IsNum(a) /\ IsNum(b)
  <2>1. Pure(r, Num(IF a.n < b.n THEN 1 ELSE 0)) \in Draws(r, h, S)
    BY NumOffered, PureDraws
  <2> QED
    BY <1>1, <2>1 DEF Less
<1>2. CASE ~(IsNum(a) /\ IsNum(b))
  <2>1. /\ "gt" \in OpNames /\ "lt" \in OpNames
        /\ <<a, b>> \in Seq(Offered(r, S)) /\ <<b, a>> \in Seq(Offered(r, S))
    BY DEF OpNames
  <2>2. /\ EmitValue(r, "gt", <<b, a>>) \in Draws(r, h, S)
        /\ EmitValue(r, "lt", <<a, b>>) \in Draws(r, h, S)
    BY <2>1, EmitValueDraws, Zenon
  <2> QED
    BY <1>2, <2>2 DEF Less
<1> QED
  BY <1>1, <1>2

(* B[x], with x offered.                                                    *)
LEMMA LoadDraws ==
    ASSUME NEW h, NEW S, NEW r \in Pouring(h, S), NEW a \in Offered(r, S)
    PROVE  Load(r, a) \in Draws(r, h, S)
<1>1. Buffer \in Offered(r, S)
  BY BufferOffered
<1>2. "load" \in OpNames /\ <<Buffer, a>> \in Seq(Offered(r, S))
  BY <1>1 DEF OpNames
<1> QED
  BY <1>2, EmitValueDraws, Zenon DEF Load

(* Conditions: what each part emits is offered to the next.                 *)
LEMMA ConditionDraws ==
    ASSUME NEW h, NEW S, NEW r \in Pouring(h, S), NEW a \in Offered(r, S), NEW b \in Offered(r, S),
           NEW c \in Conditions
    PROVE  Condition(r, c, a, b) \in Draws(r, h, S)
<1> DEFINE lt == Less(r, a, b)
           ld == Load(IF c = "and" THEN lt.ir ELSE r, a)
           right == Less(ld.ir, ld.o, b)
           both == EmitValue(right.ir, "and", <<lt.o, right.o>>)
<1>1. lt \in Draws(r, h, S)
  BY LessDraws
<1> HIDE DEF lt
<1>2. /\ lt.ir \in Pouring(h, S) /\ lt.o \in Offered(lt.ir, S) /\ a \in Offered(lt.ir, S)
      /\ b \in Offered(lt.ir, S) /\ Draws(lt.ir, h, S) \subseteq Draws(r, h, S)
  BY <1>1, DrawsOn
<1>3. /\ ld \in Draws(r, h, S)
      /\ c = "and" => ld \in Draws(lt.ir, h, S)
  <2>1. CASE c = "and"
    BY <1>2, <2>1, LoadDraws
  <2>2. CASE c # "and"
    BY <2>2, LoadDraws
  <2> QED
    BY <2>1, <2>2
<1> HIDE DEF ld
<1>4. /\ ld.ir \in Pouring(h, S) /\ ld.o \in Offered(ld.ir, S) /\ b \in Offered(ld.ir, S)
      /\ Draws(ld.ir, h, S) \subseteq Draws(r, h, S)
  BY <1>3, DrawsOn
<1>5. c = "and" => lt.o \in Offered(ld.ir, S)
  BY <1>2, <1>3, DrawsOn
<1>6. right \in Draws(ld.ir, h, S)
  BY <1>4, LessDraws
<1> HIDE DEF right
<1>7. c = "and" => both \in Draws(r, h, S)
  <2> SUFFICES ASSUME c = "and" PROVE both \in Draws(r, h, S)
    OBVIOUS
  <2>1. /\ right.ir \in Pouring(h, S) /\ right.o \in Offered(right.ir, S)
        /\ lt.o \in Offered(right.ir, S) /\ Draws(right.ir, h, S) \subseteq Draws(ld.ir, h, S)
    BY <1>4, <1>5, <1>6, DrawsOn
  <2>2. "and" \in OpNames /\ <<lt.o, right.o>> \in Seq(Offered(right.ir, S))
    BY <2>1 DEF OpNames
  <2>3. both \in Draws(right.ir, h, S)
    BY <2>1, <2>2, EmitValueDraws, Zenon
  <2> QED
    BY <1>4, <2>1, <2>3
<1> QED
  BY <1>1, <1>4, <1>6, <1>7 DEF Condition, Conditions, lt, ld, right

(* The same for a conditional expression.                                   *)
LEMMA IfExpDraws ==
    ASSUME NEW h, NEW S, NEW r \in Pouring(h, S), NEW a \in Offered(r, S), NEW b \in Offered(r, S)
    PROVE  IfExp(r, a, b) \in Draws(r, h, S)
<1> DEFINE lt == Less(r, a, b)
           ld == Load(lt.ir, a)
           sel == EmitValue(ld.ir, "select", <<lt.o, ld.o, b>>)
<1>1. lt \in Draws(r, h, S)
  BY LessDraws
<1> HIDE DEF lt
<1>2. /\ lt.ir \in Pouring(h, S) /\ lt.o \in Offered(lt.ir, S) /\ a \in Offered(lt.ir, S)
      /\ b \in Offered(lt.ir, S) /\ Draws(lt.ir, h, S) \subseteq Draws(r, h, S)
  BY <1>1, DrawsOn
<1>3. ld \in Draws(lt.ir, h, S)
  BY <1>2, LoadDraws
<1> HIDE DEF ld
<1>4. /\ ld.ir \in Pouring(h, S) /\ ld.o \in Offered(ld.ir, S) /\ b \in Offered(ld.ir, S)
      /\ lt.o \in Offered(ld.ir, S) /\ Draws(ld.ir, h, S) \subseteq Draws(lt.ir, h, S)
  BY <1>2, <1>3, DrawsOn
<1>5. sel \in Draws(ld.ir, h, S)
  <2>1. "select" \in OpNames /\ <<lt.o, ld.o, b>> \in Seq(Offered(ld.ir, S))
    BY <1>4 DEF OpNames
  <2> QED
    BY <1>4, <2>1, EmitValueDraws, Zenon
<1> QED
  BY <1>2, <1>4, <1>5 DEF IfExp, lt, ld

(* The right-hand side of an assignment to a name.                          *)
LEMMA ValueDraws ==
    ASSUME NEW h, NEW S, ir \in Pouring(h, S), NEW st \in Menu,
           st.s \in {"num", "name", "add", "load", "ifexp"},
           \A j \in DOMAIN st.arg : Rval(st.arg[j]) \in Offered(ir, S)
    PROVE  Value(st) \in Draws(ir, h, S)
<1> DEFINE o == Rvals(st.arg)
<1>1. /\ \A j \in DOMAIN st.arg : o[j] \in Offered(ir, S)
      /\ st.n \in Int /\ DOMAIN st.arg = 1 .. Len(st.arg)
  BY StatementType, LenProperties DEF Rvals
<1> HIDE DEF o
<1>2. CASE st.s = "num"
  BY <1>1, <1>2, NumOffered, PureDraws DEF Value
<1>3. CASE st.s = "name"
  <2>1. Len(st.arg) = 1
    BY <1>3, StatementType DEF WellFormed, Shape
  <2>2. o[1] \in Offered(ir, S)
    BY <1>1, <2>1
  <2> QED
    BY <1>3, <2>2, PureDraws DEF Value, o
<1>4. CASE st.s = "load"
  <2>1. Len(st.arg) = 1
    BY <1>4, StatementType DEF WellFormed, Shape
  <2>2. o[1] \in Offered(ir, S)
    BY <1>1, <2>1
  <2> QED
    BY <1>4, <2>2, LoadDraws DEF Value, o
<1>5. CASE st.s \in {"add", "ifexp"}
  <2>1. Len(st.arg) = 2
    BY <1>5, StatementType DEF WellFormed, Shape
  <2>2. o[1] \in Offered(ir, S) /\ o[2] \in Offered(ir, S)
    BY <1>1, <2>1
  <2>3. Add(ir, o[1], o[2]) \in Draws(ir, h, S) /\ IfExp(ir, o[1], o[2]) \in Draws(ir, h, S)
    BY <2>2, AddDraws, IfExpDraws
  <2> QED
    BY <1>5, <2>3 DEF Value, o
<1> QED
  BY <1>2, <1>3, <1>4, <1>5

(* A store to the buffer uses what is offered.                              *)
LEMMA StoreFlows ==
    ASSUME NEW h, NEW S, NEW r \in Pouring(h, S), NEW v \in Offered(r, S), NEW i \in Offered(r, S)
    PROVE  Store(r, v, i) \in Flows(r, h, S)
<1>1. Buffer \in Offered(r, S)
  BY BufferOffered
<1>2. "store" \in OpNames /\ <<v, Buffer, i>> \in Seq(Offered(r, S)) /\ <<>> \in Seq(Blocks)
  BY <1>1, EmptySeq DEF OpNames
<1>3. 0 \in Nat /\ 0 \in Int
  OBVIOUS
<1>4. r \in IRs /\ r.stack # <<>> /\ Block(r) = h /\ h \in S
  BY DEF Pouring
<1> QED
  BY <1>2, <1>3, <1>4, EmitFlows, Zenon DEF Store

(***************************************************************************)
(* The blocks above a block.                                                *)
(***************************************************************************)
(* The blocks that are open up to level n.                                  *)
Open(r, n) == {r.stack[j] : j \in 1 .. n}

(* Every operation uses what the blocks above it define before it.          *)
Rooted == \A k \in 1 .. Len(ir.ops) : \A c \in 1 .. Len(ir.args) :
            ir.ops[k].blk = c => Fed(ir, c, Above(c), k)

(* The blocks above one are itself and the blocks above those it hangs      *)
(* from; this way it can be used of the next state too.                     *)
LEMMA AboveParts ==
    TypeOK /\ ir.err = "none" => \A c \in 1 .. Len(ir.args) :
        /\ c \in Above(c) /\ Above(c) = {c} \cup UNION {Above(d) : d \in {e \in HangsFrom(c) : e < c}}
        /\ HangsFrom(c) \subseteq Blocks
BY Running, AboveIs, HangsFromBlocks

(* The same of the next state.                                              *)
LEMMA AbovePartsNext ==
    (TypeOK /\ ir.err = "none" => \A c \in 1 .. Len(ir.args) :
        /\ c \in Above(c) /\ Above(c) = {c} \cup UNION {Above(d) : d \in {e \in HangsFrom(c) : e < c}}
        /\ HangsFrom(c) \subseteq Blocks)'
BY AboveParts, PTL

(* Dominance, then.                                                         *)
LEMMA RootedDominates ==
    ASSUME EInv, ir.err = "none" => Rooted
    PROVE  Dominance
<1> SUFFICES ASSUME ir.err = "none", NEW k \in DOMAIN ir.ops, NEW v \in Operands(ir.ops[k])
             PROVE  \E b \in Above(ir.ops[k].blk) :
                      \/ \E j \in DOMAIN ir.args[b] : ir.args[b][j] = v
                      \/ \E m \in OpsOf(ir, b) : m < k /\ v \in Results(ir.ops[m])
  BY DEF Dominance
<1>1. ir \in IRs /\ Accepts(ir)
  BY DEF EInv, Inv, TypeOK
<1>2. DOMAIN ir.ops = 1 .. Len(ir.ops) /\ ir.ops[k].blk \in 1 .. Len(ir.args)
  BY <1>1, PartsType DEF Accepts, Accepted
<1>3. PICK b \in Above(ir.ops[k].blk) : Reaching(ir, b, v, k)
  BY <1>2 DEF Rooted, Fed
<1> QED
  BY <1>2, <1>3 DEF Reaching, Takes, OpsOf

(* A block stays under the blocks above it as long as no block but x, which *)
(* nothing hangs from, is taken off those it hangs from.                    *)
LEMMA AboveStays ==
    ASSUME TypeOK, ir.err = "none", TypeOK', ir'.err = "none", Len(ir.args) <= Len(ir'.args), NEW x,
           \A c \in 1 .. Len(ir.args) : /\ x \notin HangsFrom(c)
                                        /\ c # x => HangsFrom(c) \subseteq HangsFrom(c)'
    PROVE  \A c \in 1 .. Len(ir.args) : c # x => Above(c) \subseteq Above(c)'
<1> DEFINE M == Len(ir.args)
           G == {m \in 0 .. M : m \in 1 .. M /\ m # x => Above(m) \subseteq Above(m)'}
<1>1. M \in Nat /\ Len(ir'.args) \in Nat
  BY PartsType DEF TypeOK
<1>2. ASSUME NEW m \in 0 .. M, \A k \in 0 .. M : k < m => k \in G PROVE m \in G
  <2> SUFFICES ASSUME m \in 1 .. M, m # x, NEW b \in Above(m) PROVE b \in Above(m)'
    BY DEF G
  <2>1. m \in 1 .. Len(ir'.args)
    BY <1>1
  <2>2. /\ Above(m) = {m} \cup UNION {Above(d) : d \in {e \in HangsFrom(m) : e < m}}
        /\ HangsFrom(m) \subseteq Blocks
    BY AboveParts
  <2>3. /\ m \in Above(m)'
        /\ Above(m)' = {m} \cup UNION {Above(d)' : d \in {e \in HangsFrom(m)' : e < m}}
    BY <2>1, AbovePartsNext
  <2>4. CASE b = m
    BY <2>3, <2>4
  <2>5. CASE b # m
    <3>1. PICK d \in HangsFrom(m) : d < m /\ b \in Above(d)
      BY <2>2, <2>5
    <3>2. d \in 1 .. M /\ d \in 0 .. M /\ d # x /\ d \in HangsFrom(m)'
      BY <1>1, <2>2, <3>1 DEF Blocks
    <3>3. Above(d) \subseteq Above(d)'
      BY <1>2, <3>1, <3>2 DEF G
    <3> QED
      BY <2>3, <3>1, <3>2, <3>3
  <2> QED
    BY <2>4, <2>5
<1> HIDE DEF G
<1>3. \A m \in 0 .. M : m \in G
  BY <1>1, <1>2, Ascent
<1> QED
  BY <1>1, <1>3 DEF G

(* The open blocks: each is over the next, and the entry is the first.      *)
LEMMA StackRises ==
    ASSUME NEW r \in IRs, NEW fs, Len(fs) \in Nat, Nested(r, fs)
    PROVE  /\ \A n \in 1 .. Len(r.stack) : r.stack[n] \in 1 .. Len(r.args)
           /\ \A n \in 1 .. Len(fs) : /\ n \in 1 .. Len(r.stack) /\ n + 1 \in 1 .. Len(r.stack)
                                      /\ r.stack[n] < r.stack[n + 1]
                                      /\ \A b \in Held(fs[n]) : r.stack[n] < b
           /\ \A n \in 1 .. Len(r.stack) : \A m \in 1 .. Len(fs) :
                r.stack[n] \in Held(fs[m]) => n = m + 1
<1>1. /\ Len(r.stack) = Len(fs) + 1 /\ r.stack[1] = 1 /\ Len(r.args) >= 1 /\ Len(r.args) \in Nat
      /\ \A k \in 1 .. Len(fs) : r.stack[k + 1] \in Held(fs[k])
      /\ \A k \in 1 .. Len(fs) : \A b \in Held(fs[k]) : b \in 2 .. Len(r.args)
      /\ \A k, l \in 1 .. Len(fs) : k < l =>
           \A b \in Held(fs[k]), c \in Held(fs[l]) : b < c
  BY PartsType DEF Nested
<1>2. ASSUME NEW n \in 1 .. Len(r.stack), n # 1
      PROVE  /\ n - 1 \in 1 .. Len(fs) /\ (n - 1) + 1 = n
             /\ r.stack[n] \in Held(fs[n - 1]) /\ r.stack[n] \in 2 .. Len(r.args)
  <2>1. n - 1 \in 1 .. Len(fs) /\ (n - 1) + 1 = n
    BY <1>1, <1>2
  <2> QED
    BY <1>1, <2>1
<1>3. \A n \in 1 .. Len(r.stack) : r.stack[n] \in 1 .. Len(r.args)
  <2> TAKE n \in 1 .. Len(r.stack)
  <2>1. CASE n = 1
    BY <1>1, <2>1
  <2>2. CASE n # 1
    BY <1>1, <1>2, <2>2
  <2> QED
    BY <2>1, <2>2
<1>4. ASSUME NEW n \in 1 .. Len(fs), NEW b \in Held(fs[n]) PROVE r.stack[n] < b
  <2>1. CASE n = 1
    BY <1>1, <2>1
  <2>2. CASE n # 1
    <3>1. n \in 1 .. Len(r.stack)
      BY <1>1
    <3>2. n - 1 \in 1 .. Len(fs) /\ r.stack[n] \in Held(fs[n - 1]) /\ n - 1 < n
      BY <1>1, <1>2, <2>2, <3>1
    <3> QED
      BY <1>1, <3>2
  <2> QED
    BY <2>1, <2>2
<1>5. ASSUME NEW n \in 1 .. Len(r.stack), NEW m \in 1 .. Len(fs), r.stack[n] \in Held(fs[m])
      PROVE  n = m + 1
  <2>1. n # 1
    BY <1>1, <1>5
  <2>2. /\ n - 1 \in 1 .. Len(fs) /\ (n - 1) + 1 = n
        /\ r.stack[n] \in Held(fs[n - 1]) /\ r.stack[n] \in 2 .. Len(r.args)
    BY <1>2, <2>1
  <2>3. ~(n - 1 < m) /\ ~(m < n - 1)
    <3>1. ~(r.stack[n] < r.stack[n])
      BY <2>2
    <3> QED
      BY <1>1, <1>5, <2>2, <3>1
  <2> QED
    BY <2>2, <2>3
<1> QED
  BY <1>1, <1>3, <1>4, <1>5

(* So the open blocks up to one are above it.                               *)
LEMMA OpenAbove ==
    Inv /\ ir.err = "none" =>
      /\ \A n \in 1 .. Len(ir.stack) : /\ ir.stack[n] \in 1 .. Len(ir.args)
                                       /\ Open(ir, n) \subseteq Above(ir.stack[n])
      /\ \A n \in 1 .. Len(frames) : \A b \in Held(frames[n]) :
           b \in 1 .. Len(ir.args) /\ Open(ir, n) \subseteq Above(b)
<1> SUFFICES ASSUME Inv, ir.err = "none"
             PROVE  /\ \A n \in 1 .. Len(ir.stack) : /\ ir.stack[n] \in 1 .. Len(ir.args)
                                                     /\ Open(ir, n) \subseteq Above(ir.stack[n])
                    /\ \A n \in 1 .. Len(frames) : \A b \in Held(frames[n]) :
                         b \in 1 .. Len(ir.args) /\ Open(ir, n) \subseteq Above(b)
  OBVIOUS
<1> DEFINE M == Len(ir.stack)
           G == {m \in 0 .. M : m = 0 \/ Open(ir, m) \subseteq Above(ir.stack[m])}
<1>1. /\ TypeOK /\ ir \in IRs /\ frames \in Seq(Frames) /\ Nested(ir, frames)
      /\ Len(ir.args) \in Nat /\ M \in Nat /\ Len(frames) \in Nat /\ M = Len(frames) + 1
      /\ DOMAIN frames = 1 .. Len(frames)
  BY PartsType DEF Inv, TypeOK, Nested
<1>2. /\ \A n \in 1 .. M : ir.stack[n] \in 1 .. Len(ir.args)
      /\ \A n \in 1 .. Len(frames) : \A b \in Held(frames[n]) : ir.stack[n] < b /\ b \in 1 .. Len(ir.args)
      /\ \A n \in 1 .. Len(frames) : ir.stack[n + 1] \in Held(frames[n])
  <2>1. \A n \in 1 .. Len(frames) : \A b \in Held(frames[n]) : b \in 1 .. Len(ir.args)
    BY <1>1 DEF Nested
  <2> QED
    BY <1>1, <2>1, StackRises DEF Nested
<1>3. ASSUME NEW n \in 1 .. Len(frames), NEW b \in Held(frames[n])
      PROVE  Above(ir.stack[n]) \subseteq Above(b)
  <2>1. ir.stack[n] \in HangsFrom(b)
    BY <1>1 DEF HangsFrom, Held
  <2> QED
    BY <1>1, <1>2, <2>1, AboveParts
<1>4. ASSUME NEW m \in 0 .. M, \A k \in 0 .. M : k < m => k \in G PROVE m \in G
  <2>1. CASE m = 0
    BY <2>1
  <2>2. CASE m = 1
    <3>1. Open(ir, m) = {ir.stack[1]}
      BY <2>2 DEF Open
    <3>2. 1 \in 1 .. M
      BY <1>1
    <3>3. ir.stack[1] \in Above(ir.stack[1])
      BY <1>1, <1>2, <3>2, AboveParts
    <3> QED
      BY <2>2, <3>1, <3>3
  <2>3. CASE m > 1
    <3>1. m - 1 \in 1 .. Len(frames) /\ m - 1 \in 0 .. M /\ m - 1 < m /\ m - 1 # 0 /\ (m - 1) + 1 = m /\ m \in 1 .. M
      BY <1>1, <2>3
    <3>2. Open(ir, m - 1) \subseteq Above(ir.stack[m - 1])
      BY <1>4, <3>1 DEF G
    <3>3. Above(ir.stack[m - 1]) \subseteq Above(ir.stack[m])
      BY <1>2, <1>3, <3>1
    <3>4. ir.stack[m] \in Above(ir.stack[m])
      BY <1>1, <1>2, <3>1, AboveParts
    <3>5. \A j \in 1 .. m : j = m \/ j \in 1 .. m - 1
      BY <3>1
    <3> QED
      BY <3>2, <3>3, <3>4, <3>5 DEF Open
  <2> QED
    BY <2>1, <2>2, <2>3
<1> HIDE DEF G
<1>5. \A m \in 0 .. M : m \in G
  BY <1>1, <1>4, Ascent
<1>6. ASSUME NEW n \in 1 .. M PROVE Open(ir, n) \subseteq Above(ir.stack[n])
  BY <1>5 DEF G
<1>7. ASSUME NEW n \in 1 .. Len(frames), NEW b \in Held(frames[n]) PROVE Open(ir, n) \subseteq Above(b)
  <2>1. n \in 1 .. M
    BY <1>1
  <2> QED
    BY <1>3, <1>6, <2>1
<1> QED
  BY <1>2, <1>6, <1>7

(* The same of the next state.                                              *)
LEMMA OpenAboveNext ==
    (Inv /\ ir.err = "none" =>
      /\ \A n \in 1 .. Len(ir.stack) : /\ ir.stack[n] \in 1 .. Len(ir.args)
                                       /\ Open(ir, n) \subseteq Above(ir.stack[n])
      /\ \A n \in 1 .. Len(frames) : \A b \in Held(frames[n]) :
           b \in 1 .. Len(ir.args) /\ Open(ir, n) \subseteq Above(b))'
BY OpenAbove, PTL

(***************************************************************************)
(* What a step leaves as it was.                                            *)
(***************************************************************************)
(* A region goes on hanging from a block if the frame that holds it stays,  *)
(* or leaves it to an operation of that block.                              *)
LEMMA HangsStays ==
    ASSUME TypeOK, TypeOK', Gains(ir, ir'), NEW c,
           \A m \in 1 .. Len(frames) : c \in {frames[m].body, frames[m].other} =>
             \/ \E n \in 1 .. Len(frames') : /\ c \in {frames'[n].body, frames'[n].other}
                                             /\ ir'.stack[n] = ir.stack[m]
             \/ \E k \in 1 .. Len(ir'.ops) : /\ ir'.ops[k].blk = ir.stack[m]
                                             /\ \E j \in DOMAIN ir'.ops[k].regions : ir'.ops[k].regions[j] = c
    PROVE  HangsFrom(c) \subseteq HangsFrom(c)'
<1>1. /\ DOMAIN ir.ops = 1 .. Len(ir.ops) /\ DOMAIN ir'.ops = 1 .. Len(ir'.ops)
      /\ DOMAIN frames = 1 .. Len(frames) /\ DOMAIN frames' = 1 .. Len(frames')
      /\ Len(ir.ops) \in Nat /\ Len(ir'.ops) \in Nat
  BY PartsType, LenProperties DEF TypeOK
<1>2. /\ Len(ir.ops) <= Len(ir'.ops)
      /\ \A k \in 1 .. Len(ir.ops) : ir'.ops[k].blk = ir.ops[k].blk /\ ir'.ops[k].regions = ir.ops[k].regions
  BY DEF Gains, Extends
<1>3. \A k \in 1 .. Len(ir.ops) : k \in 1 .. Len(ir'.ops)
  BY <1>1, <1>2
<1> SUFFICES ASSUME NEW d \in HangsFrom(c) PROVE d \in HangsFrom(c)'
  OBVIOUS
<1>4. ASSUME NEW k \in 1 .. Len(ir.ops), d = ir.ops[k].blk, NEW j \in DOMAIN ir.ops[k].regions,
             ir.ops[k].regions[j] = c
      PROVE  d \in HangsFrom(c)'
  <2>1. k \in 1 .. Len(ir'.ops) /\ d = ir'.ops[k].blk /\ j \in DOMAIN ir'.ops[k].regions /\ ir'.ops[k].regions[j] = c
    BY <1>2, <1>3, <1>4
  <2> QED
    BY <1>1, <2>1 DEF HangsFrom
<1>5. CASE \E m \in 1 .. Len(frames) : d = ir.stack[m] /\ c \in {frames[m].body, frames[m].other}
  <2>1. \/ \E n \in 1 .. Len(frames') : c \in {frames'[n].body, frames'[n].other} /\ ir'.stack[n] = d
        \/ \E k \in 1 .. Len(ir'.ops) : /\ ir'.ops[k].blk = d
                                        /\ \E j \in DOMAIN ir'.ops[k].regions : ir'.ops[k].regions[j] = c
    BY <1>5
  <2> QED
    BY <1>1, <2>1 DEF HangsFrom
<1> QED
  BY <1>1, <1>4, <1>5 DEF HangsFrom

(* The frames that were there keep their regions and stay where they hang.  *)
Deeper == /\ Len(frames) <= Len(frames')
          /\ \A k \in 1 .. Len(frames) : /\ frames'[k].body = frames[k].body
                                         /\ frames'[k].other = frames[k].other
                                         /\ ir'.stack[k] = ir.stack[k]

(* Then every block stays under the blocks above it.                        *)
LEMMA DeeperAbove ==
    ASSUME TypeOK, ir.err = "none", TypeOK', ir'.err = "none", Gains(ir, ir'), Deeper
    PROVE  \A c \in 1 .. Len(ir.args) : Above(c) \subseteq Above(c)'
<1>1. Len(frames) \in Nat /\ Len(frames') \in Nat /\ Len(ir.args) \in Nat
  BY PartsType, LenProperties DEF TypeOK
<1>2. \A m \in 1 .. Len(frames) : m \in 1 .. Len(frames')
  BY <1>1 DEF Deeper
<1>3. ASSUME NEW c PROVE HangsFrom(c) \subseteq HangsFrom(c)'
  <2>1. \A m \in 1 .. Len(frames) : c \in {frames[m].body, frames[m].other} =>
          \E n \in 1 .. Len(frames') : /\ c \in {frames'[n].body, frames'[n].other}
                                       /\ ir'.stack[n] = ir.stack[m]
    BY <1>2 DEF Deeper
  <2> QED
    BY <2>1, HangsStays
<1>4. \A c \in 1 .. Len(ir.args) : 0 \notin HangsFrom(c)
  BY AboveParts DEF Blocks
<1>5. \A c \in 1 .. Len(ir.args) : c # 0 => Above(c) \subseteq Above(c)'
  <2>1. Len(ir.args) <= Len(ir'.args)
    BY DEF Gains, Extends
  <2> HIDE DEF Gains, HangsFrom, Above
  <2>2. \A c \in 1 .. Len(ir.args) : /\ 0 \notin HangsFrom(c)
                                     /\ c # 0 => HangsFrom(c) \subseteq HangsFrom(c)'
    BY <1>3, <1>4
  <2> QED
    BY <2>1, <2>2, AboveStays
<1> QED
  BY <1>1, <1>5

(* A step keeps operations rooted if only blocks without operations lose    *)
(* blocks above them, old operands only become arguments of blocks above    *)
(* them, and new operations are rooted.                                     *)
LEMMA RootedStep ==
    ASSUME TypeOK, Rooted, TypeOK', Gains(ir, ir'), NEW x,
           \A c \in 1 .. Len(ir.args) : c # x => Above(c) \subseteq Above(c)',
           \A k \in 1 .. Len(ir.ops) :
             /\ ir.ops[k].blk \in 1 .. Len(ir.args) /\ ir.ops[k].blk # x
             /\ ir'.ops[k] # ir.ops[k] => /\ Rewires(k) /\ Top.body \in 1 .. Len(ir.args)
                                           /\ Len(ir'.ops[k].operands) = Len(ir.ops[k].operands),
           \A k \in Len(ir.ops) + 1 .. Len(ir'.ops) : \A c \in 1 .. Len(ir'.args) :
             ir'.ops[k].blk = c => \E S : S \subseteq Above(c)' /\ Fed(ir', c, S, k)
    PROVE  Rooted'
<1>1. /\ ir \in IRs /\ ir' \in IRs /\ Len(ir.ops) \in Nat /\ Len(ir'.ops) \in Nat
      /\ Len(ir.args) \in Nat /\ Len(ir'.args) \in Nat
      /\ Len(ir.ops) <= Len(ir'.ops) /\ Len(ir.args) <= Len(ir'.args)
  BY PartsType DEF TypeOK, Gains, Extends
<1>2. \A k \in 1 .. Len(ir.ops) : ir'.ops[k].blk = ir.ops[k].blk
  BY DEF Gains
<1>3. \A b, v, k : Reaching(ir, b, v, k) => Reaching(ir', b, v, k)
  BY <1>1, DefinesStays
<1>4. ASSUME NEW k \in 1 .. Len(ir.ops), NEW c \in 1 .. Len(ir'.args), ir'.ops[k].blk = c
      PROVE  Fed(ir', c, Above(c)', k)
  <2>1. c \in 1 .. Len(ir.args) /\ ir.ops[k].blk = c /\ c # x
    BY <1>2, <1>4
  <2>2. Fed(ir, c, Above(c), k) /\ Above(c) \subseteq Above(c)'
    BY <2>1 DEF Rooted
  <2>3. \A v \in Operands(ir.ops[k]) : \E b \in Above(c)' : Reaching(ir', b, v, k)
    BY <1>3, <2>2 DEF Fed
  <2>4. CASE ir'.ops[k] = ir.ops[k]
    BY <1>4, <2>3, <2>4 DEF Fed
  <2>5. CASE ir'.ops[k] # ir.ops[k]
    <3>1. /\ Rewires(k) /\ Top.body \in 1 .. Len(ir.args)
          /\ Len(ir'.ops[k].operands) = Len(ir.ops[k].operands)
      BY <2>5
    <3>2. Top.body \in 1 .. Len(ir'.args) /\ Top.body \in Above(c)'
      <4>1. Top.body \in Above(c)
        BY <2>1, <3>1 DEF Rewires
      <4> QED
        BY <1>1, <2>2, <3>1, <4>1
    <3>3. DOMAIN ir'.ops[k].operands = DOMAIN ir.ops[k].operands
      <4>1. k \in 1 .. Len(ir'.ops)
        BY <1>1
      <4>2. ir'.ops[k].operands \in Seq(Ids) /\ ir.ops[k].operands \in Seq(Ids)
        BY <1>1, <4>1, PartsType DEF Operations
      <4> QED
        BY <3>1, <4>2, LenProperties
    <3>4. ASSUME NEW v \in Operands(ir'.ops[k]) PROVE \E b \in Above(c)' : Reaching(ir', b, v, k)
      <4>1. PICK j \in DOMAIN ir.ops[k].operands : v = ir'.ops[k].operands[j]
        BY <3>3 DEF Operands
      <4>2. CASE v = ir.ops[k].operands[j]
        BY <2>3, <4>2 DEF Operands
      <4>3. CASE v # ir.ops[k].operands[j]
        <5>1. \E l \in DOMAIN ir'.args[Top.body] : ir'.args[Top.body][l] = v
          BY <3>1, <4>1, <4>3 DEF Rewires
        <5>2. Takes(ir', Top.body, v)
          BY <3>2, <5>1 DEF Takes
        <5> QED
          BY <3>2, <5>2 DEF Reaching
      <4> QED
        BY <4>2, <4>3
    <3> QED
      BY <1>4, <3>4 DEF Fed
  <2> QED
    BY <2>4, <2>5
<1>5. ASSUME NEW k \in Len(ir.ops) + 1 .. Len(ir'.ops), NEW c \in 1 .. Len(ir'.args), ir'.ops[k].blk = c
      PROVE  Fed(ir', c, Above(c)', k)
  <2>1. PICK S : S \subseteq Above(c)' /\ Fed(ir', c, S, k)
    BY <1>5
  <2> QED
    BY <2>1 DEF Fed
<1>6. ASSUME NEW k \in 1 .. Len(ir'.ops) PROVE k \in 1 .. Len(ir.ops) \/ k \in Len(ir.ops) + 1 .. Len(ir'.ops)
  BY <1>1
<1>7. \A k \in 1 .. Len(ir'.ops) : \A c \in 1 .. Len(ir'.args) :
        ir'.ops[k].blk = c => Fed(ir', c, Above(c)', k)
  BY <1>4, <1>5, <1>6
<1> QED
  BY <1>7 DEF Rooted

(***************************************************************************)
(* The names and the suspended statements, at each level of nesting.        *)
(***************************************************************************)
(* The names may be read at level k: what they stand for is offered there,  *)
(* and so is the Python local of one that has no binding.                   *)
Level(r, k, at, sc, lc, names) ==
    \A x \in names : /\ at[x] \in Offered(r, Open(r, k))
                     /\ sc[x] = Unbound => lc[x] \in Offered(r, Open(r, k))

(* The statement suspended at level k has operands that are offered there;  *)
(* what was bound when it started still is, and nothing the names stood for *)
(* then is from its body; the else branch of an if is still empty while it  *)
(* is in the then branch; only an if or a while holds a second region.      *)
Holding(r, f, k, sc) ==
    /\ \A j \in DOMAIN f.objs : f.objs[j] \in Offered(r, Open(r, k))
    /\ \A x \in Names : /\ f.before.at[x] # Unbound => sc[x] # Unbound
                        /\ IsVal(f.before.at[x]) => ~Defines(r, f.body, f.before.at[x].n)
    /\ f.s.s = "if" /\ f.branch = "then" =>
         r.stack[k + 1] = f.body /\ \A m \in 1 .. Len(r.ops) : r.ops[m].blk # f.other
    /\ f.s.s \notin {"if", "while"} => f.other = 0

(* What the names of level k stand for.                                     *)
At(k) == IF k = Len(live) THEN scope.at ELSE frames[k].before.at

Levels == \A k \in 1 .. Len(live) : Level(ir, k, At(k), scope.at, locals, live[k])
Lasts == \A j, k \in 1 .. Len(live) : j <= k =>
           \A x \in live[j] : scope.at[x] = Unbound => x \in live[k]
Holds == \A k \in 1 .. Len(frames) : Holding(ir, frames[k], k, scope.at)

(* The inductive invariant of traces that keep the rules.                   *)
DomInv == /\ EInv /\ UseInv
          /\ live \in Seq(SUBSET Names) /\ Len(live) = Len(frames) + 1
          /\ ir.err = "none" => /\ Takes(ir, 1, 0)
                                /\ Rooted /\ Levels /\ Lasts /\ Holds

(* The same blocks are open up to level k.                                  *)
SameOpen(r, e, k) == \A j \in 1 .. k : e.stack[j] = r.stack[j]

(* What is offered at a level stays offered while its blocks are open.      *)
LEMMA SameOffered ==
    ASSUME NEW r \in IRs, NEW e \in IRs, Gains(r, e), e.err = "none" => r.err = "none",
           NEW k, SameOpen(r, e, k)
    PROVE  Open(e, k) = Open(r, k) /\ Offered(r, Open(r, k)) \subseteq Offered(e, Open(e, k))
<1>1. Open(e, k) = Open(r, k)
  BY DEF Open, SameOpen
<1>2. Offered(r, Open(r, k)) \subseteq Offered(e, Open(r, k))
  BY OffersStay
<1> QED
  BY <1>1, <1>2

(* More levels offer more.                                                  *)
LEMMA OfferedMore ==
    ASSUME NEW r, NEW S, NEW T, S \subseteq T
    PROVE  Offered(r, S) \subseteq Offered(r, T) /\ Offers(r, S) \subseteq Offers(r, T)
BY DEF Offered, Offers

(* What is offered at a level is offered at every deeper one.               *)
LEMMA OpenMore ==
    ASSUME NEW r, NEW k \in Nat, NEW n \in Nat, k <= n
    PROVE  Open(r, k) \subseteq Open(r, n) /\ Offered(r, Open(r, k)) \subseteq Offered(r, Open(r, n))
<1>1. Open(r, k) \subseteq Open(r, n)
  <2>1. \A j \in 1 .. k : j \in 1 .. n
    OBVIOUS
  <2> QED
    BY <2>1 DEF Open
<1> QED
  BY <1>1, OfferedMore

(* Names that may be read at a level may be read there later.               *)
LEMMA LevelStays ==
    ASSUME NEW r \in IRs, NEW e \in IRs, Gains(r, e), e.err = "none" => r.err = "none",
           NEW k, SameOpen(r, e, k),
           NEW at, NEW sc, NEW lc, NEW names, Level(r, k, at, sc, lc, names),
           NEW at2, NEW sc2, NEW lc2, NEW names2, names2 \subseteq names,
           \A x \in names2 : /\ at2[x] = at[x]
                             /\ sc2[x] = Unbound => sc[x] = Unbound /\ lc2[x] = lc[x]
    PROVE  Level(e, k, at2, sc2, lc2, names2)
<1>1. Offered(r, Open(r, k)) \subseteq Offered(e, Open(e, k))
  BY SameOffered
<1> QED
  BY <1>1 DEF Level

(* A value has one block that defines it.                                   *)
LEMMA DefinedThere ==
    ASSUME NEW r \in IRs, NEW e \in IRs, Gains(r, e), Once(e),
           NEW v \in Defined(r), NEW b, ~Defines(r, b, v)
    PROVE  ~Defines(e, b, v)
<1> SUFFICES ASSUME Defines(e, b, v) PROVE FALSE
  OBVIOUS
<1>1. /\ DOMAIN r.ops = 1 .. Len(r.ops) /\ DOMAIN e.ops = 1 .. Len(e.ops)
      /\ DOMAIN r.args = 1 .. Len(r.args) /\ DOMAIN e.args = 1 .. Len(e.args)
      /\ Len(r.ops) \in Nat /\ Len(e.ops) \in Nat /\ Len(r.args) \in Nat /\ Len(e.args) \in Nat
      /\ Len(r.ops) <= Len(e.ops) /\ Len(r.args) <= Len(e.args)
      /\ \A k \in 1 .. Len(r.ops) : /\ e.ops[k].blk = r.ops[k].blk
                                    /\ e.ops[k].results = r.ops[k].results
      /\ \A c \in 1 .. Len(r.args) : \A j \in DOMAIN r.args[c] :
           j \in DOMAIN e.args[c] /\ e.args[c][j] = r.args[c][j]
  BY PartsType DEF Gains, Extends
<1>2. /\ \A k \in 1 .. Len(r.ops) : k \in 1 .. Len(e.ops)
      /\ \A c \in 1 .. Len(r.args) : c \in 1 .. Len(e.args)
  BY <1>1
<1>3. /\ \A c \in 1 .. Len(e.args) : \A j \in DOMAIN e.args[c] :
           j \in Nat /\ c \in Nat /\ e.args[c][j] \in Ids
      /\ \A k \in 1 .. Len(e.ops) : \A j \in DOMAIN e.ops[k].results :
           j \in Nat /\ k \in Nat /\ e.ops[k].results[j] \in Ids
  <2>1. \A c \in 1 .. Len(e.args) : e.args[c] \in Seq(Ids)
    BY PartsType
  <2>2. \A k \in 1 .. Len(e.ops) : e.ops[k].results \in Seq(Ids)
    BY PartsType DEF Operations
  <2> QED
    BY <1>1, <2>1, <2>2, LenProperties, ElementOfSeq
<1> DEFINE Arg(c, j) == [k |-> "arg", i |-> c, j |-> j, v |-> v]
           Res(m, j) == [k |-> "op", i |-> m, j |-> j, v |-> v]
<1>4. ASSUME NEW c \in 1 .. Len(e.args), NEW j \in DOMAIN e.args[c], e.args[c][j] = v
      PROVE  Arg(c, j) \in Defs(e)
  BY <1>1, <1>3, <1>4 DEF Defs, Places, IsArg
<1>5. ASSUME NEW m \in 1 .. Len(e.ops), NEW j \in DOMAIN e.ops[m].results, e.ops[m].results[j] = v
      PROVE  Res(m, j) \in Defs(e)
  BY <1>1, <1>3, <1>5 DEF Defs, Places, IsResult
<1>6. \A d, f \in Defs(e) : d.v = f.v => d = f
  BY DEF Once, Numbered
<1>7. \/ \E c \in 1 .. Len(e.args) : c = b /\ \E j \in DOMAIN e.args[c] : e.args[c][j] = v
      \/ \E m \in 1 .. Len(e.ops) : e.ops[m].blk = b /\ \E j \in DOMAIN e.ops[m].results : e.ops[m].results[j] = v
  BY DEF Defines, Takes, Results
<1>8. \/ \E c \in 1 .. Len(r.args) : c # b /\ \E j \in DOMAIN r.args[c] : r.args[c][j] = v
      \/ \E m \in 1 .. Len(r.ops) : r.ops[m].blk # b /\ \E j \in DOMAIN r.ops[m].results : r.ops[m].results[j] = v
  BY <1>1 DEF Defined, BlockArgs, OpResults, Results, Defines, Takes
<1>9. \/ \E c \in 1 .. Len(e.args) : c # b /\ \E j \in DOMAIN e.args[c] : e.args[c][j] = v
      \/ \E m \in 1 .. Len(e.ops) : e.ops[m].blk # b /\ \E j \in DOMAIN e.ops[m].results : e.ops[m].results[j] = v
  BY <1>1, <1>2, <1>8
<1>10. ASSUME NEW c \in 1 .. Len(e.args), c # b, NEW j \in DOMAIN e.args[c], e.args[c][j] = v PROVE FALSE
  <2>1. Arg(c, j) \in Defs(e)
    BY <1>4, <1>10
  <2>2. ASSUME NEW i \in DOMAIN e.args[b], b \in 1 .. Len(e.args), e.args[b][i] = v PROVE FALSE
    <3>1. Arg(b, i) \in Defs(e)
      BY <1>4, <2>2
    <3> QED
      BY <1>6, <1>10, <2>1, <3>1
  <2>3. ASSUME NEW m \in 1 .. Len(e.ops), NEW i \in DOMAIN e.ops[m].results, e.ops[m].results[i] = v PROVE FALSE
    <3>1. Res(m, i) \in Defs(e)
      BY <1>5, <2>3
    <3> QED
      BY <1>6, <2>1, <3>1
  <2> QED
    BY <1>7, <2>2, <2>3
<1>11. ASSUME NEW m \in 1 .. Len(e.ops), e.ops[m].blk # b, NEW j \in DOMAIN e.ops[m].results, e.ops[m].results[j] = v
       PROVE  FALSE
  <2>1. Res(m, j) \in Defs(e)
    BY <1>5, <1>11
  <2>2. ASSUME NEW i \in DOMAIN e.args[b], b \in 1 .. Len(e.args), e.args[b][i] = v PROVE FALSE
    <3>1. Arg(b, i) \in Defs(e)
      BY <1>4, <2>2
    <3> QED
      BY <1>6, <2>1, <3>1
  <2>3. ASSUME NEW n \in 1 .. Len(e.ops), e.ops[n].blk = b, NEW i \in DOMAIN e.ops[n].results, e.ops[n].results[i] = v
        PROVE  FALSE
    <3>1. Res(n, i) \in Defs(e)
      BY <1>5, <2>3
    <3> QED
      BY <1>6, <1>11, <2>1, <2>3, <3>1
  <2> QED
    BY <1>7, <2>2, <2>3
<1> QED
  BY <1>9, <1>10, <1>11

(* A suspended statement stays as it is.                                    *)
LEMMA HoldingStays ==
    ASSUME NEW r \in IRs, NEW e \in IRs, Gains(r, e), r.err = "none", Once(e),
           NEW f \in KnownFrames(r), NEW k \in Nat, SameOpen(r, e, k),
           NEW sc, NEW sc2, \A x \in Names : sc2[x] = Unbound => sc[x] = Unbound,
           Holding(r, f, k, sc),
           f.s.s = "if" /\ f.branch = "then" =>
             /\ e.stack[k + 1] = r.stack[k + 1]
             /\ \A m \in Len(r.ops) + 1 .. Len(e.ops) : e.ops[m].blk # f.other
    PROVE  Holding(e, f, k, sc2)
<1>1. Offered(r, Open(r, k)) \subseteq Offered(e, Open(e, k))
  BY SameOffered
<1>2. ASSUME NEW x \in Names, IsVal(f.before.at[x]) PROVE ~Defines(e, f.body, f.before.at[x].n)
  <2>1. f.before.at[x].n \in Defined(r)
    BY <1>2 DEF KnownFrames, Known, KnownIds, IsVal, IsNum
  <2>2. ~Defines(r, f.body, f.before.at[x].n)
    BY <1>2 DEF Holding
  <2> QED
    BY <2>1, <2>2, DefinedThere
<1>3. ASSUME f.s.s = "if" /\ f.branch = "then", NEW m \in 1 .. Len(e.ops) PROVE e.ops[m].blk # f.other
  <2>1. Len(r.ops) \in Nat /\ Len(e.ops) \in Nat
    BY PartsType
  <2>2. m \in 1 .. Len(r.ops) \/ m \in Len(r.ops) + 1 .. Len(e.ops)
    BY <2>1
  <2>3. \A l \in 1 .. Len(r.ops) : r.ops[l].blk # f.other /\ e.ops[l].blk = r.ops[l].blk
    BY <1>3 DEF Holding, Gains
  <2> QED
    BY <1>3, <2>2, <2>3
<1> QED
  BY <1>1, <1>2, <1>3 DEF Holding

(* The same, in short.                                                      *)
StaysBound(sc, sc2) == \A x \in Names : sc2[x] = Unbound => sc[x] = Unbound
Waits(r, e, f, k) ==
    f.s.s = "if" /\ f.branch = "then" =>
      /\ e.stack[k + 1] = r.stack[k + 1]
      /\ \A m \in Len(r.ops) + 1 .. Len(e.ops) : e.ops[m].blk # f.other

(* HoldingStays in these words.                                             *)
LEMMA HoldingOn ==
    ASSUME NEW r \in IRs, NEW e \in IRs, Gains(r, e), r.err = "none", Once(e),
           NEW f \in KnownFrames(r), NEW k \in Nat, SameOpen(r, e, k),
           NEW sc, NEW sc2, StaysBound(sc, sc2), Holding(r, f, k, sc), Waits(r, e, f, k)
    PROVE  Holding(e, f, k, sc2)
BY HoldingStays DEF StaysBound, Waits

(* The else branch of an if is not open while its then branch is.           *)
LEMMA OtherWaits ==
    ASSUME NEW r \in IRs, NEW fs, Len(fs) \in Nat, Nested(r, fs), NEW k \in 1 .. Len(fs),
           r.stack[k + 1] = fs[k].body, NEW n \in 1 .. Len(r.stack)
    PROVE  r.stack[n] # fs[k].other
<1> SUFFICES ASSUME r.stack[n] = fs[k].other PROVE FALSE
  OBVIOUS
<1>1. r.stack[n] # 0
  <2>1. Len(r.args) \in Nat /\ r.stack[n] \in 1 .. Len(r.args)
    BY PartsType, StackRises
  <2> QED
    BY <2>1
<1>2. r.stack[n] \in Held(fs[k])
  BY <1>1 DEF Held
<1>3. n = k + 1
  BY <1>2, StackRises
<1> QED
  BY <1>3 DEF Nested

(* What the invariant says while the trace runs.                            *)
LEMMA DomRunning ==
    ASSUME DomInv, ir.err = "none"
    PROVE  /\ EInv /\ UseInv /\ Inv /\ TypeOK /\ ir \in IRs /\ Nested(ir, frames) /\ Once(ir)
           /\ frames \in Seq(Frames) /\ Len(frames) \in Nat /\ DOMAIN frames = 1 .. Len(frames)
           /\ \A k \in 1 .. Len(frames) : frames[k] \in Frames /\ frames[k] \in KnownFrames(ir)
           /\ Len(ir.stack) = Len(frames) + 1 /\ ir.stack \in Seq(Blocks) /\ ir.stack # <<>>
           /\ Block(ir) = ir.stack[Len(ir.stack)] /\ Block(ir) \in Open(ir, Len(ir.stack))
           /\ Block(ir) \in 1 .. Len(ir.args)
           /\ scope \in Scopes /\ locals \in [Names -> Objs]
           /\ Len(ir.args) \in Nat /\ Len(ir.ops) \in Nat
           /\ \A k \in 1 .. Len(ir.ops) : ir.ops[k].blk \in 1 .. Len(ir.args)
           /\ live \in Seq(SUBSET Names) /\ Len(live) = Len(frames) + 1 /\ Len(live) = Len(ir.stack)
           /\ \A k \in 1 .. Len(live) : live[k] \in SUBSET Names
           /\ Live = live[Len(live)] /\ Live \in SUBSET Names
           /\ Takes(ir, 1, 0) /\ Rooted /\ Levels /\ Lasts /\ Holds
<1>1. /\ EInv /\ UseInv /\ live \in Seq(SUBSET Names) /\ Len(live) = Len(frames) + 1
      /\ Takes(ir, 1, 0) /\ Rooted /\ Levels /\ Lasts /\ Holds
  BY DEF DomInv
<1>2. /\ Inv /\ TypeOK /\ ir \in IRs /\ Nested(ir, frames) /\ Once(ir) /\ Accepts(ir)
      /\ frames \in Seq(Frames) /\ scope \in Scopes /\ locals \in [Names -> Objs]
      /\ Len(ir.stack) = Len(frames) + 1
  BY <1>1 DEF EInv, Inv, Sound, TypeOK
<1>3. /\ Len(frames) \in Nat /\ DOMAIN frames = 1 .. Len(frames)
      /\ \A k \in 1 .. Len(frames) : frames[k] \in Frames /\ frames[k] \in KnownFrames(ir)
  <2>1. Len(frames) \in Nat /\ DOMAIN frames = 1 .. Len(frames)
    BY <1>2, LenProperties
  <2>2. frames \in Seq(KnownFrames(ir))
    BY <1>1 DEF UseInv
  <2> QED
    BY <1>2, <2>1, <2>2, ElementOfSeq
<1>4. /\ ir.stack \in Seq(Blocks) /\ Len(ir.args) \in Nat /\ Len(ir.ops) \in Nat
      /\ \A k \in 1 .. Len(ir.ops) : ir.ops[k].blk \in 1 .. Len(ir.args)
  BY <1>2, PartsType DEF Accepts, Accepted
<1>5. Len(ir.stack) \in 1 .. Len(ir.stack) /\ ir.stack # <<>>
  <2>1. Len(ir.stack) # 0
    BY <1>2, <1>3
  <2> QED
    BY <1>2, <1>3, <2>1, <1>4, EmptySeq
<1>6. /\ Block(ir) = ir.stack[Len(ir.stack)] /\ Block(ir) \in Open(ir, Len(ir.stack))
      /\ Block(ir) \in 1 .. Len(ir.args)
  BY <1>2, <1>3, <1>5, StackRises DEF Block, Open
<1>7. /\ \A k \in 1 .. Len(live) : live[k] \in SUBSET Names
      /\ Len(live) \in 1 .. Len(live) /\ Live = live[Len(live)]
  BY <1>1, <1>3, ElementOfSeq, LenProperties DEF Live
<1> QED
  BY <1>1, <1>2, <1>3, <1>4, <1>5, <1>6, <1>7

(* The frames are the same but for what is skipped.                         *)
SameFrames ==
    /\ Len(frames') = Len(frames)
    /\ \A k \in 1 .. Len(frames) :
         /\ frames'[k].s = frames[k].s /\ frames'[k].branch = frames[k].branch
         /\ frames'[k].body = frames[k].body /\ frames'[k].other = frames[k].other
         /\ frames'[k].objs = frames[k].objs /\ frames'[k].before = frames[k].before

(* The blocks that may still grow: those that are open or wait in a frame.  *)
Growing(r, fs) == {r.stack[j] : j \in 1 .. Len(r.stack)} \cup UNION {Held(fs[k]) : k \in 1 .. Len(fs)}

(* All that a step appends goes to these.                                   *)
Placed == \A k \in Len(ir.ops) + 1 .. Len(ir'.ops) : ir'.ops[k].blk \in Growing(ir', frames')

(* A step that stays at its level.                                          *)
LEMMA InPlaceDom ==
    ASSUME DomInv, EInv', UseInv', ir.err = "none", SameFrames, ir'.stack = ir.stack,
           ir' \in Flows(ir, Block(ir), Open(ir, Len(ir.stack))),
           NEW names, names \in SUBSET Names, live' = Within(names), Live \subseteq names,
           ir'.err = "none" => Level(ir', Len(live), scope'.at, scope'.at, locals', names),
           \A x \in Names : scope'.at[x] = Unbound =>
             scope.at[x] = Unbound /\ locals'[x] = locals[x]
    PROVE  DomInv' /\ Placed
<1> DEFINE n == Len(live)
<1>1. /\ EInv /\ UseInv /\ Inv /\ TypeOK /\ ir \in IRs /\ Nested(ir, frames)
      /\ Len(frames) \in Nat /\ Len(ir.stack) = Len(frames) + 1
      /\ \A k \in 1 .. Len(frames) : frames[k] \in KnownFrames(ir)
      /\ Block(ir) = ir.stack[Len(ir.stack)] /\ Block(ir) \in 1 .. Len(ir.args)
      /\ Len(ir.args) \in Nat /\ Len(ir.ops) \in Nat
      /\ \A k \in 1 .. Len(ir.ops) : ir.ops[k].blk \in 1 .. Len(ir.args)
      /\ live \in Seq(SUBSET Names) /\ n = Len(frames) + 1 /\ n = Len(ir.stack)
      /\ \A k \in 1 .. n : live[k] \in SUBSET Names
      /\ Live = live[n] /\ Takes(ir, 1, 0) /\ Rooted /\ Levels /\ Lasts /\ Holds
  BY DomRunning
<1>2. /\ TypeOK' /\ ir' \in IRs /\ Once(ir') /\ Len(frames') \in Nat
      /\ Len(frames') = Len(frames)
  BY <1>1 DEF EInv, Inv, Sound, TypeOK, SameFrames
<1>3. Gains(ir, ir')
  BY DEF Flows
<1>4. /\ live' \in Seq(SUBSET Names) /\ Len(live') = n
      /\ \A k \in 1 .. n : live'[k] = IF k = n THEN names ELSE live[k]
  <2>1. DOMAIN live = 1 .. n /\ n \in Nat
    BY <1>1
  <2>2. live' = [k \in 1 .. n |-> IF k = n THEN names ELSE live[k]]
    BY <1>1, <2>1, LenProperties DEF Within
  <2> HIDE DEF n
  <2>3. live' \in [1 .. n -> SUBSET Names]
    BY <1>1, <2>2
  <2>4. live' \in Seq(SUBSET Names) /\ Len(live') = n
    BY <2>1, <2>3, FunctionIsSeq
  <2> QED
    BY <2>2, <2>4
<1>5. ASSUME ir'.err = "none" PROVE Takes(ir', 1, 0) /\ Rooted' /\ Levels' /\ Lasts' /\ Holds'
  <2>1. Takes(ir', 1, 0)
    BY <1>1, <1>2, <1>3, DefinesStays
  <2>2. \A k \in 1 .. n : SameOpen(ir, ir', k)
    BY DEF SameOpen
  <2>3. Rooted'
    <3>1. \A c \in 1 .. Len(ir.args) : Above(c) \subseteq Above(c)'
      <4>1. Deeper
        BY <1>1, <1>2 DEF Deeper, SameFrames
      <4> QED
        BY <1>1, <1>2, <1>3, <1>5, <4>1, DeeperAbove
    <3>2. Open(ir, n) \subseteq Above(Block(ir))
      <4>1. n \in 1 .. Len(ir.stack)
        BY <1>1
      <4> QED
        BY <1>1, <4>1, OpenAbove
    <3>3. ASSUME NEW k \in Len(ir.ops) + 1 .. Len(ir'.ops), NEW c \in 1 .. Len(ir'.args), ir'.ops[k].blk = c
          PROVE  \E S : S \subseteq Above(c)' /\ Fed(ir', c, S, k)
      <4>1. Fed(ir', Block(ir), Open(ir, n), k)
        BY <1>1 DEF Flows
      <4>2. c = Block(ir)
        BY <3>3, <4>1 DEF Fed
      <4>3. c \in 1 .. Len(ir.args) /\ Open(ir, n) \subseteq Above(c)
        BY <1>1, <3>2, <4>2
      <4> QED
        BY <3>1, <4>1, <4>2, <4>3
    <3>4. \A k \in 1 .. Len(ir.ops) : ir'.ops[k] = ir.ops[k] /\ ir.ops[k].blk # 0
      BY <1>1 DEF Flows
    <3> HIDE DEF n
    <3> QED
      BY <1>1, <1>2, <1>3, <3>1, <3>3, <3>4, RootedStep
  <2>4. Levels'
    <3>1. ASSUME NEW k \in 1 .. n PROVE Level(ir', k, At(k)', scope'.at, locals', live'[k])
      <4>1. CASE k = n
        <5>1. At(k)' = scope'.at
          BY <1>4, <4>1 DEF At
        <5> QED
          BY <1>4, <1>5, <4>1, <5>1
      <4>2. CASE k # n
        <5>1. k \in 1 .. Len(frames) /\ live'[k] = live[k] /\ live[k] \in SUBSET Names
          BY <1>1, <1>4, <4>2
        <5>2. At(k)' = At(k)
          BY <1>4, <4>2, <5>1 DEF At, SameFrames
        <5>3. Level(ir, k, At(k), scope.at, locals, live[k])
          BY <1>1 DEF Levels
        <5> QED
          BY <1>1, <1>2, <1>3, <2>2, <5>1, <5>2, <5>3, LevelStays
      <4> QED
        BY <4>1, <4>2
    <3> QED
      BY <1>4, <3>1 DEF Levels
  <2>5. Lasts'
    <3>1. ASSUME NEW j \in 1 .. n, NEW k \in 1 .. n, j <= k, NEW x \in live'[j], scope'.at[x] = Unbound
          PROVE  x \in live'[k]
      <4>1. CASE k = n /\ j = n
        BY <3>1, <4>1
      <4>2. CASE j # n
        <5>1. x \in live[j] /\ x \in Names
          BY <1>1, <1>4, <3>1, <4>2
        <5>2. scope.at[x] = Unbound
          BY <3>1, <5>1
        <5>3. x \in live[k]
          BY <1>1, <3>1, <5>1, <5>2 DEF Lasts
        <5> QED
          BY <1>1, <1>4, <5>3
      <4> QED
        BY <1>1, <3>1, <4>1, <4>2
    <3> QED
      BY <1>4, <3>1 DEF Lasts
  <2>6. Holds'
    <3>1. ASSUME NEW k \in 1 .. Len(frames) PROVE Holding(ir', frames'[k], k, scope'.at)
      <4> DEFINE f == frames[k]
      <4>1. Holding(ir, f, k, scope.at) /\ f \in KnownFrames(ir) /\ k \in Nat /\ k \in 1 .. n
        BY <1>1 DEF Holds
      <4>2. ASSUME f.s.s = "if" /\ f.branch = "then", NEW m \in Len(ir.ops) + 1 .. Len(ir'.ops)
            PROVE  ir'.ops[m].blk # f.other
        <5>1. ir'.ops[m].blk = Block(ir)
          BY DEF Flows, Fed
        <5>2. ir.stack[k + 1] = f.body
          BY <4>1, <4>2 DEF Holding
        <5>3. Len(ir.stack) \in 1 .. Len(ir.stack)
          BY <1>1
        <5> QED
          BY <1>1, <5>1, <5>2, <5>3, OtherWaits
      <4>3. Holding(ir', f, k, scope'.at)
        <5> HIDE DEF f
        <5>1. SameOpen(ir, ir', k) /\ \A x \in Names : scope'.at[x] = Unbound => scope.at[x] = Unbound
          BY <2>2, <4>1
        <5>2. f.s.s = "if" /\ f.branch = "then" =>
                /\ ir'.stack[k + 1] = ir.stack[k + 1]
                /\ \A m \in Len(ir.ops) + 1 .. Len(ir'.ops) : ir'.ops[m].blk # f.other
          BY <4>2
        <5> QED
          BY <1>1, <1>2, <1>3, <4>1, <5>1, <5>2, HoldingStays
      <4>4. /\ frames'[k].s = f.s /\ frames'[k].branch = f.branch
            /\ frames'[k].body = f.body /\ frames'[k].other = f.other
            /\ frames'[k].objs = f.objs /\ frames'[k].before = f.before
        BY DEF SameFrames
      <4> HIDE DEF f
      <4> QED
        BY <4>3, <4>4 DEF Holding
    <3> QED
      BY <1>2, <3>1 DEF Holds
  <2> QED
    BY <2>1, <2>3, <2>4, <2>5, <2>6
<1>6. Placed
  <2>1. Len(ir.stack) \in 1 .. Len(ir.stack)
    BY <1>1
  <2>2. Block(ir) \in Growing(ir', frames')
    BY <1>1, <2>1 DEF Growing
  <2>3. \A k \in Len(ir.ops) + 1 .. Len(ir'.ops) : ir'.ops[k].blk = Block(ir)
    BY DEF Flows, Fed
  <2> QED
    BY <2>2, <2>3 DEF Placed
<1> QED
  BY <1>1, <1>2, <1>4, <1>5, <1>6 DEF DomInv

(***************************************************************************)
(* Statements that are one call.                                            *)
(***************************************************************************)
(* The current block and what may be used in it.                            *)
Here == Block(ir)
Inside == Open(ir, Len(ir.stack))

(* A live name may be read: what it evaluates to is offered here.           *)
LEMMA ReadsOffered ==
    ASSUME DomInv, ir.err = "none"
    PROVE  /\ ir \in Pouring(Here, Inside) /\ ir.stack # <<>> /\ Here \in Inside
           /\ \A x \in Live : /\ x \in Names /\ Rval(x) \in Offered(ir, Inside)
                              /\ scope.at[x] \in Offered(ir, Inside)
                              /\ scope.at[x] = Unbound => locals[x] \in Offered(ir, Inside)
           /\ \A st \in Menu : ReadsLive(st) =>
                /\ \A j \in DOMAIN st.arg : /\ Rval(st.arg[j]) \in Offered(ir, Inside)
                                            /\ Rvals(st.arg)[j] \in Offered(ir, Inside)
                /\ Rvals(st.arg) \in Seq(Offered(ir, Inside))
                /\ DOMAIN st.arg = 1 .. Len(st.arg) /\ Len(Rvals(st.arg)) = Len(st.arg)
<1> DEFINE n == Len(live)
<1>1. /\ ir \in IRs /\ ir.stack # <<>> /\ Block(ir) \in Inside /\ n = Len(ir.stack) /\ n \in Nat
      /\ n \in 1 .. n /\ Live = live[n] /\ Live \in SUBSET Names /\ Takes(ir, 1, 0) /\ Levels
      /\ ir.stack[1] = 1
  <2>1. Len(frames) \in Nat /\ n = Len(frames) + 1 /\ n = Len(ir.stack)
    BY DomRunning
  <2> HIDE DEF n
  <2>2. n \in Nat /\ n \in 1 .. n
    BY <2>1
  <2> QED
    BY <2>1, <2>2, DomRunning DEF n, Nested, Inside
<1>2. 0 \in Offers(ir, Inside)
  <2>1. 1 \in Inside
    BY <1>1 DEF Inside, Open
  <2> QED
    BY <1>1, <2>1 DEF Offers, Defines, Ids
<1>3. ir \in Pouring(Here, Inside)
  BY <1>1, <1>2 DEF Pouring, Here
<1>4. Level(ir, n, scope.at, scope.at, locals, Live)
  BY <1>1 DEF Levels, At
<1>5. \A x \in Live : /\ x \in Names /\ Rval(x) \in Offered(ir, Inside)
                      /\ scope.at[x] \in Offered(ir, Inside)
                      /\ scope.at[x] = Unbound => locals[x] \in Offered(ir, Inside)
  BY <1>1, <1>4 DEF Level, Inside, Rval
<1>6. ASSUME NEW st \in Menu, ReadsLive(st)
      PROVE  /\ \A j \in DOMAIN st.arg : /\ Rval(st.arg[j]) \in Offered(ir, Inside)
                                         /\ Rvals(st.arg)[j] \in Offered(ir, Inside)
             /\ Rvals(st.arg) \in Seq(Offered(ir, Inside))
             /\ DOMAIN st.arg = 1 .. Len(st.arg) /\ Len(Rvals(st.arg)) = Len(st.arg)
  <2>1. \A j \in DOMAIN st.arg : Rval(st.arg[j]) \in Offered(ir, Inside)
    BY <1>5, <1>6 DEF ReadsLive
  <2>2. st.arg \in Seq(Names) /\ DOMAIN st.arg = 1 .. Len(st.arg) /\ Len(st.arg) \in Nat
    BY StatementType, LenProperties
  <2>3. Rvals(st.arg) \in [1 .. Len(st.arg) -> Offered(ir, Inside)]
    BY <2>1, <2>2 DEF Rvals
  <2>4. Rvals(st.arg) \in Seq(Offered(ir, Inside)) /\ Len(Rvals(st.arg)) = Len(st.arg)
    BY <2>2, <2>3, FunctionIsSeq
  <2> QED
    BY <2>1, <2>2, <2>4 DEF Rvals
<1> QED
  BY <1>1, <1>3, <1>5, <1>6 DEF Here

(* The live names may still be read after a step that leaves them alone,    *)
(* and so may those that it binds to what is offered then.                  *)
LEMMA NamesOffered ==
    ASSUME DomInv, ir.err = "none", ir' \in Flows(ir, Here, Inside), ir'.stack = ir.stack,
           NEW names,
           \A x \in names : \/ scope'.at[x] \in Offered(ir', Inside) /\ scope'.at[x] # Unbound
                            \/ x \in Live /\ scope'.at[x] = scope.at[x] /\ locals'[x] = locals[x]
    PROVE  Level(ir', Len(live), scope'.at, scope'.at, locals', names)
<1>1. Len(live) = Len(ir.stack)
  BY DomRunning
<1>2. Open(ir', Len(live)) = Inside
  BY <1>1 DEF Open, Inside
<1>3. ir \in IRs
  BY DomRunning
<1>4. Offered(ir, Inside) \subseteq Offered(ir', Inside)
  BY <1>3, OffersFlow
<1>5. \A x \in Live : /\ scope.at[x] \in Offered(ir, Inside)
                      /\ scope.at[x] = Unbound => locals[x] \in Offered(ir, Inside)
  BY ReadsOffered
<1> HIDE DEF Inside
<1> QED
  BY <1>2, <1>4, <1>5 DEF Level

(* Frames and live names that do not change.                                *)
LEMMA QuietFrames ==
    ASSUME DomInv
    PROVE  /\ frames' = frames => SameFrames
           /\ live' = live => live' = Within(Live)
<1>1. live \in Seq(SUBSET Names)
  BY DEF DomInv
<1>2. Within(Live) = live
  BY <1>1 DEF Within, Live
<1> QED
  BY <1>2 DEF SameFrames

(* A step of one statement that binds the names its statement has.          *)
LEMMA BindingDom ==
    ASSUME DomInv, EInv', UseInv', ir.err = "none", frames' = frames, NEW st \in Menu,
           ir' \in Flows(ir, Here, Inside), ir'.stack = ir.stack,
           live' = Within(Live \cup Bound(st)), Bound(st) \subseteq Names,
           \A x \in Names : IF x \in Bound(st)
                            THEN scope'.at[x] \in Offered(ir', Inside) /\ scope'.at[x] # Unbound
                            ELSE scope'.at[x] = scope.at[x] /\ locals'[x] = locals[x]
    PROVE  DomInv' /\ Placed
<1> DEFINE names == Live \cup Bound(st)
<1>1. Live \in SUBSET Names /\ SameFrames
  BY DomRunning, QuietFrames
<1>2. names \in SUBSET Names /\ Live \subseteq names
  BY <1>1
<1>3. Level(ir', Len(live), scope'.at, scope'.at, locals', names)
  BY <1>2, NamesOffered
<1>4. live' = Within(names)
  OBVIOUS
<1> HIDE DEF names
<1>5. \A x \in Names : scope'.at[x] = Unbound => scope.at[x] = Unbound /\ locals'[x] = locals[x]
  OBVIOUS
<1>6. ir' \in Flows(ir, Block(ir), Open(ir, Len(ir.stack)))
  BY DEF Here, Inside
<1> QED
  BY <1>1, <1>2, <1>3, <1>4, <1>5, <1>6, InPlaceDom

(* So is one that binds nothing.                                            *)
LEMMA QuietDom ==
    ASSUME DomInv, EInv', UseInv', ir.err = "none", SameFrames,
           ir' \in Flows(ir, Here, Inside), ir'.stack = ir.stack, UNCHANGED <<scope, locals, live>>
    PROVE  DomInv' /\ Placed
<1>1. Live \in SUBSET Names
  BY DomRunning
<1>2. live' = Within(Live)
  BY QuietFrames
<1>3. Level(ir', Len(live), scope'.at, scope'.at, locals', Live)
  BY <1>1, NamesOffered
<1>4. ir' \in Flows(ir, Block(ir), Open(ir, Len(ir.stack)))
  BY DEF Here, Inside
<1>5. \A x \in Names : scope'.at[x] = Unbound => scope.at[x] = Unbound /\ locals'[x] = locals[x]
  OBVIOUS
<1> QED
  BY <1>1, <1>2, <1>3, <1>4, <1>5, InPlaceDom

(* An expression draws from the IR here.                                    *)
LEMMA DrawsHere ==
    ASSUME DomInv, ir.err = "none", NEW r \in Draws(ir, Here, Inside)
    PROVE  /\ r.ir \in Flows(ir, Here, Inside) /\ r.ir.stack = ir.stack
           /\ r.ir \in Pouring(Here, Inside) /\ r.o \in Offered(r.ir, Inside)
           /\ Offered(ir, Inside) \subseteq Offered(r.ir, Inside)
           /\ Flows(r.ir, Here, Inside) \subseteq Flows(ir, Here, Inside)
           /\ Draws(r.ir, Here, Inside) \subseteq Draws(ir, Here, Inside)
           /\ r.o \in Objs
<1>1. ir \in Pouring(Here, Inside)
  BY ReadsOffered
<1> HIDE DEF Here, Inside
<1> QED
  BY <1>1, DrawsOn DEF Offered

(* name = __tb.bind('name', value)                                          *)
LEMMA BindAsDom ==
    ASSUME DomInv, EInv', UseInv', ir.err = "none", frames' = frames, NEW st \in Menu,
           Len(st.dst) = 1, NEW r \in Draws(ir, Here, Inside), r.o # Unbound,
           BindAs(st.dst[1], r), live' = Within(Live \cup Bound(st))
    PROVE  DomInv' /\ Placed
<1> DEFINE x == st.dst[1]
<1>1. x \in Names /\ Bound(st) = {x}
  BY TargetType, StatementType, LenProperties DEF Bound
<1>2. scope.at \in [Names -> Objs] /\ locals \in [Names -> Objs]
  BY DomRunning DEF Scopes
<1>3. /\ ir' = r.ir /\ scope'.at = [scope.at EXCEPT ![x] = r.o]
      /\ locals' = [locals EXCEPT ![x] = r.o]
  BY DEF BindAs, Bind
<1>4. /\ ir' \in Flows(ir, Here, Inside) /\ ir'.stack = ir.stack /\ r.o \in Offered(ir', Inside)
  BY <1>3, DrawsHere
<1> HIDE DEF Here, Inside, x
<1>5. \A z \in Names : IF z \in Bound(st)
                       THEN scope'.at[z] \in Offered(ir', Inside) /\ scope'.at[z] # Unbound
                       ELSE scope'.at[z] = scope.at[z] /\ locals'[z] = locals[z]
  BY <1>1, <1>2, <1>3, <1>4
<1> QED
  BY <1>1, <1>4, <1>5, BindingDom

(* x = n, x = y, x = y + z, x = B[y], x = B[y] if y < z else z              *)
LEMMA AssignDom ==
    ASSUME DomInv, EInv', UseInv', NEW st \in Menu, Assign(st), RulesOf(st),
           live' = Within(Live \cup Bound(st))
    PROVE  DomInv' /\ Placed
<1>1. /\ ir.err = "none" /\ frames' = frames /\ Stmt(st) /\ BindAs(st.dst[1], Value(st))
      /\ st.s \in {"num", "name", "add", "load", "ifexp"} /\ ReadsLive(st)
  BY DEF Assign, Stmt, Reached, RulesOf
<1>2. Len(st.dst) = 1
  BY <1>1, StatementType DEF WellFormed, Shape
<1>3. Value(st) \in Draws(ir, Here, Inside)
  BY <1>1, ReadsOffered, ValueDraws
<1>4. Value(st).o # Unbound
  BY <1>1, ValueBound
<1> QED
  BY <1>1, <1>2, <1>3, <1>4, BindAsDom

(* x, y = a, b                                                              *)
LEMMA TupleAssignDom ==
    ASSUME DomInv, EInv', UseInv', NEW st \in Menu, TupleAssign(st), RulesOf(st),
           live' = Within(Live \cup Bound(st))
    PROVE  DomInv' /\ Placed
<1> DEFINE o == Rvals(st.arg)
           x == st.dst[1]
           y == st.dst[2]
<1>1. /\ ir.err = "none" /\ frames' = frames /\ scope' = Bind(Bind(scope, x, o[1]), y, o[2])
      /\ locals' = [locals EXCEPT ![x] = o[1], ![y] = o[2]] /\ Stmt(st) /\ st.s = "tuple"
      /\ ir' = ir /\ ReadsLive(st)
  BY DEF TupleAssign, Stmt, Reached, RulesOf
<1>2. Len(st.dst) = 2 /\ Len(st.arg) = 2
  BY <1>1, StatementType DEF WellFormed, Shape
<1>3. x \in Names /\ y \in Names /\ Bound(st) = {x, y}
  BY <1>2, StatementType, ElementOfSeq, LenProperties DEF Bound
<1>4. /\ 1 \in DOMAIN st.arg /\ 2 \in DOMAIN st.arg
  BY <1>2, StatementType, LenProperties
<1>5. o[1] # Unbound /\ o[2] # Unbound
  BY <1>1, <1>4 DEF Stmt, Readable, Rvals
<1>6. o[1] \in Offered(ir, Inside) /\ o[2] \in Offered(ir, Inside)
  BY <1>1, <1>4, ReadsOffered
<1>7. ir' \in Flows(ir, Here, Inside)
  BY <1>1, DomRunning, FlowsSelf
<1>8. scope.at \in [Names -> Objs] /\ locals \in [Names -> Objs]
  BY <1>1, DomRunning DEF Scopes
<1> HIDE DEF o, x, y, Here, Inside
<1>9. scope'.at = [[scope.at EXCEPT ![x] = o[1]] EXCEPT ![y] = o[2]]
  BY <1>1 DEF Bind
<1>10. \A z \in Names : IF z \in Bound(st)
                        THEN scope'.at[z] \in Offered(ir', Inside) /\ scope'.at[z] # Unbound
                        ELSE scope'.at[z] = scope.at[z] /\ locals'[z] = locals[z]
  BY <1>1, <1>3, <1>5, <1>6, <1>8, <1>9
<1>11. Bound(st) \subseteq Names
  BY <1>3
<1> QED
  BY <1>1, <1>7, <1>10, <1>11, BindingDom

(* x += y, of a name whose local is its binding.                            *)
LEMMA AugAssignDom ==
    ASSUME DomInv, EInv', UseInv', NEW st \in Menu, AugAssign(st), RulesOf(st),
           live' = Within(Live \cup Bound(st))
    PROVE  DomInv' /\ Placed
<1> DEFINE objs == <<AugOperand(st.dst[1]), Rval(st.arg[1])>>
           sum == EmitValue(ir, "add", objs)
<1>1. /\ ir.err = "none" /\ frames' = frames /\ BindAs(st.dst[1], sum) /\ st.s = "aug"
      /\ ReadsLive(st) /\ st.dst[1] \in Live /\ locals[st.dst[1]] = Rval(st.dst[1])
  BY DEF AugAssign, Stmt, Reached, RulesOf, AugReadsBinding
<1>2. Len(st.dst) = 1 /\ Len(st.arg) = 1
  BY <1>1, StatementType DEF WellFormed, Shape
<1>3. AugOperand(st.dst[1]) \in Offered(ir, Inside)
  BY <1>1, ReadsOffered DEF AugOperand
<1>4. Rval(st.arg[1]) \in Offered(ir, Inside)
  <2>1. 1 \in DOMAIN st.arg
    BY <1>2, StatementType, LenProperties
  <2> QED
    BY <1>1, <2>1, ReadsOffered
<1> HIDE DEF Here, Inside
<1>5. objs \in Seq(Offered(ir, Inside)) /\ "add" \in OpNames
  BY <1>3, <1>4 DEF OpNames
<1>6. ir \in Pouring(Here, Inside)
  BY <1>1, ReadsOffered DEF Here, Inside
<1> HIDE DEF objs
<1>7. sum \in Draws(ir, Here, Inside)
  BY <1>5, <1>6, EmitValueDraws
<1>8. sum.o # Unbound
  BY DEF EmitValue, Val, Unbound
<1> HIDE DEF sum
<1> QED
  BY <1>1, <1>2, <1>7, <1>8, BindAsDom

(* B[x] = y                                                                 *)
LEMMA AssignSliceDom ==
    ASSUME DomInv, EInv', UseInv', NEW st \in Menu, AssignSlice(st), RulesOf(st), live' = live
    PROVE  DomInv' /\ Placed
<1> DEFINE o == Rvals(st.arg)
<1>1. /\ ir.err = "none" /\ frames' = frames /\ ir' = Store(ir, o[2], o[1]) /\ st.s = "store"
      /\ UNCHANGED <<scope, locals>> /\ ReadsLive(st)
  BY DEF AssignSlice, Stmt, Reached, RulesOf
<1>2. 1 \in DOMAIN st.arg /\ 2 \in DOMAIN st.arg
  BY <1>1, StatementType, LenProperties DEF WellFormed, Shape
<1>3. /\ o[1] \in Offered(ir, Inside) /\ o[2] \in Offered(ir, Inside) /\ ir \in Pouring(Here, Inside)
      /\ ir \in IRs /\ ir.stack # <<>>
  BY <1>1, <1>2, ReadsOffered, DomRunning
<1> HIDE DEF o, Here, Inside
<1>4. ir' \in Flows(ir, Here, Inside)
  BY <1>1, <1>3, StoreFlows
<1>5. ir'.stack = ir.stack
  BY <1>1, <1>3, StoreType DEF Emitted, Offered
<1> QED
  BY <1>1, <1>4, <1>5, QuietFrames, QuietDom

(* B[x] += y                                                                *)
LEMMA AugAssignSliceDom ==
    ASSUME DomInv, EInv', UseInv', NEW st \in Menu, AugAssignSlice(st), RulesOf(st), live' = live
    PROVE  DomInv' /\ Placed
<1> DEFINE o == Rvals(st.arg)
           current == Load(ir, o[1])
           sum == EmitValue(current.ir, "add", <<current.o, o[2]>>)
<1>1. /\ ir.err = "none" /\ frames' = frames /\ ir' = Store(sum.ir, sum.o, o[1]) /\ st.s = "augstore"
      /\ UNCHANGED <<scope, locals>> /\ ReadsLive(st)
  BY DEF AugAssignSlice, Stmt, Reached, RulesOf
<1>2. 1 \in DOMAIN st.arg /\ 2 \in DOMAIN st.arg
  BY <1>1, StatementType, LenProperties DEF WellFormed, Shape
<1>3. /\ o[1] \in Offered(ir, Inside) /\ o[2] \in Offered(ir, Inside) /\ ir \in Pouring(Here, Inside)
      /\ ir \in IRs /\ ir.stack # <<>>
  BY <1>1, <1>2, ReadsOffered, DomRunning
<1> HIDE DEF o, Here, Inside
<1>4. current \in Draws(ir, Here, Inside)
  BY <1>3, LoadDraws
<1> HIDE DEF current
<1>5. /\ current.ir \in Pouring(Here, Inside) /\ current.o \in Offered(current.ir, Inside)
      /\ o[2] \in Offered(current.ir, Inside) /\ o[1] \in Offered(current.ir, Inside)
      /\ Draws(current.ir, Here, Inside) \subseteq Draws(ir, Here, Inside)
  BY <1>3, <1>4, DrawsOn
<1>6. sum \in Draws(current.ir, Here, Inside)
  <2>1. "add" \in OpNames /\ <<current.o, o[2]>> \in Seq(Offered(current.ir, Inside))
    BY <1>5 DEF OpNames
  <2> QED
    BY <1>5, <2>1, EmitValueDraws, Zenon
<1> HIDE DEF sum
<1>7. /\ sum.ir \in Pouring(Here, Inside) /\ sum.o \in Offered(sum.ir, Inside)
      /\ o[1] \in Offered(sum.ir, Inside) /\ sum.ir.stack = ir.stack
      /\ Flows(sum.ir, Here, Inside) \subseteq Flows(ir, Here, Inside)
  <2>1. sum \in Draws(ir, Here, Inside) /\ o[1] \in Offered(sum.ir, Inside)
    BY <1>5, <1>6, DrawsOn
  <2> QED
    BY <1>3, <2>1, DrawsOn
<1>8. ir' \in Flows(ir, Here, Inside)
  BY <1>1, <1>7, StoreFlows
<1>9. ir'.stack = ir.stack
  <2>1. sum.ir \in IRs /\ sum.ir.stack # <<>>
    BY <1>7 DEF Pouring
  <2> QED
    BY <1>1, <1>7, <1>3, <2>1, StoreType DEF Emitted, Offered
<1> QED
  BY <1>1, <1>8, <1>9, QuietFrames, QuietDom

(* return x, ...                                                            *)
LEMMA ReturnDom ==
    ASSUME DomInv, EInv', UseInv', NEW st \in Menu, Return(st), RulesOf(st), live' = live
    PROVE  DomInv' /\ Placed
<1> DEFINE objs == Rvals(st.arg)
           none == <<>>
           zero == 0
<1>1. /\ ir.err = "none" /\ frames' = frames /\ ir' = Emit(ir, "return", objs, zero, none, zero)
      /\ UNCHANGED <<scope, locals>> /\ ReadsLive(st)
  BY DEF Return, Stmt, Reached, RulesOf
<1>2. /\ objs \in Seq(Offered(ir, Inside)) /\ ir \in IRs /\ ir.stack # <<>>
      /\ Block(ir) = Here /\ Here \in Inside
  BY <1>1, ReadsOffered, DomRunning DEF Here
<1>3. "return" \in OpNames /\ none \in Seq(Blocks) /\ zero \in Nat /\ zero \in Int
  BY EmptySeq DEF OpNames, Terminators
<1> HIDE DEF objs, none, zero, Here, Inside
<1>4. ir' \in Flows(ir, Here, Inside)
  BY <1>1, <1>2, <1>3, EmitFlows
<1>5. ir'.stack = ir.stack
  <2>1. objs \in Seq(Objs)
    BY <1>2 DEF Offered
  <2> QED
    BY <1>1, <1>2, <1>3, <2>1, EmitType DEF Emitted
<1> QED
  BY <1>1, <1>4, <1>5, QuietFrames, QuietDom

(* continue, which only ends the block for the tracer.                      *)
LEMMA SkipRestDom ==
    ASSUME DomInv, EInv', UseInv', NEW st \in Menu, SkipRest(st), live' = live
    PROVE  DomInv' /\ Placed
<1>1. /\ ir.err = "none" /\ frames' = [frames EXCEPT ![Len(frames)].skip = TRUE] /\ ir' = ir
      /\ UNCHANGED <<scope, locals>>
  BY DEF SkipRest, Stmt, Reached
<1>2. SameFrames
  <2>1. /\ frames \in Seq(Frames) /\ Len(frames) \in Nat /\ DOMAIN frames = 1 .. Len(frames)
        /\ \A k \in 1 .. Len(frames) : frames[k] \in Frames
    BY <1>1, DomRunning
  <2>2. Len(frames') = Len(frames)
    BY <1>1, <2>1
  <2>3. \A k \in 1 .. Len(frames) : frames'[k] = IF k = Len(frames) THEN [frames[k] EXCEPT !.skip = TRUE] ELSE frames[k]
    BY <1>1, <2>1
  <2> QED
    BY <2>1, <2>2, <2>3 DEF SameFrames, Frames
<1>3. ir' \in Flows(ir, Here, Inside)
  BY <1>1, DomRunning, FlowsSelf
<1> QED
  BY <1>1, <1>2, <1>3, QuietDom

(***************************************************************************)
(* Entering a compound statement.                                           *)
(***************************************************************************)
(* One more element of a sequence.                                          *)
LEMMA OneMore ==
    ASSUME NEW S, NEW s \in Seq(S), NEW x \in S
    PROVE  /\ Append(s, x) \in Seq(S) /\ Len(Append(s, x)) = Len(s) + 1 /\ Len(s) \in Nat
           /\ \A k \in 1 .. Len(s) : Append(s, x)[k] = s[k]
           /\ Append(s, x)[Len(s) + 1] = x
BY AppendProperties, LenProperties

(* The names and the new statement once it has started.                     *)
Starts(f, names) ==
    /\ Level(ir', Len(live), f.before.at, scope'.at, locals', Live)
    /\ Level(ir', Len(live) + 1, scope'.at, scope'.at, locals', names)
    /\ Holding(ir', f, Len(live), scope'.at)

(* A step that opens a block: what it appends goes here, or to the block h  *)
(* of the new frame.                                                        *)
LEMMA EnterDom ==
    ASSUME DomInv, EInv', UseInv', ir.err = "none",
           NEW f \in Frames, frames' = Append(frames, f),
           NEW b \in Blocks, ir'.stack = Append(ir.stack, b),
           NEW h, h = Here \/ h \in Held(f), ir' \in Flows(ir, h, Inside \cup {h}),
           NEW names, names \in SUBSET Names, live' = Append(live, names), Live \subseteq names,
           \A x \in Names : scope'.at[x] = Unbound =>
             scope.at[x] = Unbound /\ (x \in Live => locals'[x] = locals[x]),
           ir'.err = "none" => Starts(f, names)
    PROVE  DomInv' /\ Placed
<1> DEFINE n == Len(live)
<1>1. /\ EInv /\ UseInv /\ Inv /\ TypeOK /\ ir \in IRs /\ Nested(ir, frames)
      /\ frames \in Seq(Frames) /\ Len(frames) \in Nat /\ Len(ir.stack) = Len(frames) + 1
      /\ ir.stack \in Seq(Blocks)
      /\ \A k \in 1 .. Len(frames) : frames[k] \in KnownFrames(ir)
      /\ Here = ir.stack[Len(ir.stack)] /\ Here \in 1 .. Len(ir.args) /\ Here \in Inside
      /\ Len(ir.args) \in Nat /\ Len(ir.ops) \in Nat
      /\ \A k \in 1 .. Len(ir.ops) : ir.ops[k].blk \in 1 .. Len(ir.args)
      /\ live \in Seq(SUBSET Names) /\ n = Len(frames) + 1 /\ n = Len(ir.stack)
      /\ \A k \in 1 .. n : live[k] \in SUBSET Names
      /\ Live = live[n] /\ Takes(ir, 1, 0) /\ Rooted /\ Levels /\ Lasts /\ Holds
      /\ Inside = Open(ir, n)
  BY DomRunning DEF Here, Inside
<1>2. /\ Inv' /\ TypeOK' /\ ir' \in IRs /\ Once(ir') /\ Nested(ir', frames')
  BY <1>1 DEF EInv, Inv, Sound, TypeOK
<1>3. Gains(ir, ir')
  BY DEF Flows
<1>4. /\ live' \in Seq(SUBSET Names) /\ Len(live') = n + 1 /\ n \in Nat
      /\ \A k \in 1 .. n : live'[k] = live[k]
      /\ live'[n + 1] = names
  <2>1. live \in Seq(SUBSET Names) /\ names \in SUBSET Names
    BY <1>1
  <2>2. /\ Append(live, names) \in Seq(SUBSET Names) /\ Len(Append(live, names)) = Len(live) + 1
        /\ Len(live) \in Nat
        /\ \A k \in 1 .. Len(live) : Append(live, names)[k] = live[k]
        /\ Append(live, names)[Len(live) + 1] = names
    BY <2>1, OneMore
  <2> QED
    BY <2>2
<1>5. /\ Len(frames') = n /\ \A k \in 1 .. Len(frames) : frames'[k] = frames[k]
      /\ frames'[n] = f
  <2>1. frames \in Seq(Frames) /\ f \in Frames
    BY <1>1
  <2>2. /\ Len(Append(frames, f)) = Len(frames) + 1
        /\ \A k \in 1 .. Len(frames) : Append(frames, f)[k] = frames[k]
        /\ Append(frames, f)[Len(frames) + 1] = f
    BY <2>1, OneMore
  <2>3. n = Len(frames) + 1
    BY <1>1
  <2> QED
    BY <2>2, <2>3
<1>6. /\ \A k \in 1 .. n : ir'.stack[k] = ir.stack[k]
      /\ \A k \in 1 .. n : SameOpen(ir, ir', k) /\ Open(ir', k) = Open(ir, k)
  <2>1. \A k \in 1 .. n : ir'.stack[k] = ir.stack[k]
    <3>1. ir.stack \in Seq(Blocks) /\ b \in Blocks
      BY <1>1
    <3>2. \A k \in 1 .. Len(ir.stack) : Append(ir.stack, b)[k] = ir.stack[k]
      BY <3>1, OneMore
    <3>3. n = Len(ir.stack)
      BY <1>1
    <3> QED
      BY <3>2, <3>3
  <2>2. \A k \in 1 .. n : \A j \in 1 .. k : j \in 1 .. n
    BY <1>4
  <2> HIDE DEF n
  <2> QED
    BY <2>1, <2>2 DEF SameOpen, Open
<1>7. ASSUME ir'.err = "none" PROVE Takes(ir', 1, 0) /\ Rooted' /\ Levels' /\ Lasts' /\ Holds'
  <2>1. Takes(ir', 1, 0)
    BY <1>1, <1>2, <1>3, DefinesStays
  <2>3. Rooted'
    <3>1. \A c \in 1 .. Len(ir.args) : Above(c) \subseteq Above(c)'
      <4>1. Deeper
        BY <1>1, <1>4, <1>5, <1>6 DEF Deeper
      <4> QED
        BY <1>1, <1>2, <1>3, <1>7, <4>1, DeeperAbove
    <3>2. ASSUME h = Here PROVE h \in 1 .. Len(ir.args) /\ Inside \cup {h} \subseteq Above(h)
      <4>1. n \in 1 .. Len(ir.stack)
        BY <1>1
      <4> QED
        BY <1>1, <3>2, <4>1, OpenAbove DEF Here, Block
    <3>3. ASSUME h \in Held(f), h \in 1 .. Len(ir'.args) PROVE Inside \cup {h} \subseteq Above(h)'
      <4>1. n \in 1 .. n
        BY <1>1
      <4>2. Open(ir', n) \subseteq Above(h)'
        BY <1>2, <1>5, <1>7, <3>3, <4>1, OpenAboveNext
      <4>3. h \in Above(h)'
        BY <1>2, <1>7, <3>3, AbovePartsNext
      <4> QED
        BY <1>1, <1>6, <4>1, <4>2, <4>3
    <3>4. ASSUME NEW k \in Len(ir.ops) + 1 .. Len(ir'.ops), NEW c \in 1 .. Len(ir'.args), ir'.ops[k].blk = c
          PROVE  \E S : S \subseteq Above(c)' /\ Fed(ir', c, S, k)
      <4>1. Fed(ir', h, Inside \cup {h}, k)
        BY DEF Flows
      <4>2. c = h
        BY <3>4, <4>1 DEF Fed
      <4>3. Inside \cup {h} \subseteq Above(c)'
        BY <3>1, <3>2, <3>3, <3>4, <4>2
      <4> QED
        BY <4>1, <4>2, <4>3
    <3>5. \A k \in 1 .. Len(ir.ops) : ir'.ops[k] = ir.ops[k] /\ ir.ops[k].blk # 0
      BY <1>1 DEF Flows
    <3> HIDE DEF n, Here, Inside
    <3> QED
      BY <1>1, <1>2, <1>3, <3>1, <3>4, <3>5, RootedStep
  <2>4. Levels'
    <3>1. ASSUME NEW k \in 1 .. n + 1 PROVE Level(ir', k, At(k)', scope'.at, locals', live'[k])
      <4>1. CASE k = n + 1
        <5>1. At(k)' = scope'.at
          BY <1>4, <4>1 DEF At
        <5> QED
          BY <1>4, <1>7, <4>1, <5>1 DEF Starts
      <4>2. CASE k = n
        <5>1. At(k)' = f.before.at
          BY <1>4, <1>5, <4>2 DEF At
        <5>2. live'[k] = Live
          BY <1>1, <1>4, <4>2
        <5> QED
          BY <1>7, <4>2, <5>1, <5>2 DEF Starts
      <4>3. CASE k # n + 1 /\ k # n
        <5>1. /\ k \in 1 .. Len(frames) /\ k \in 1 .. n /\ live'[k] = live[k] /\ live[k] \in SUBSET Names
              /\ k <= n /\ n \in 1 .. n
          BY <1>1, <1>4, <4>3
        <5>2. At(k)' = At(k)
          <6>1. At(k) = frames[k].before.at
            BY <4>3 DEF At
          <6>2. At(k)' = frames'[k].before.at
            BY <1>4, <4>3 DEF At
          <6> QED
            BY <1>5, <5>1, <6>1, <6>2
        <5>3. Level(ir, k, At(k), scope.at, locals, live[k])
          BY <1>1, <5>1 DEF Levels
        <5>4. \A x \in live[k] : scope.at[x] = Unbound => x \in Live
          BY <1>1, <5>1 DEF Lasts
        <5>5. \A x \in live[k] : /\ At(k)[x] = At(k)[x]
                                 /\ scope'.at[x] = Unbound => scope.at[x] = Unbound /\ locals'[x] = locals[x]
          BY <5>1, <5>2, <5>4
        <5>6. SameOpen(ir, ir', k) /\ ir'.err = ir.err
          BY <1>6, <1>7, <5>1
        <5>7. ir \in IRs /\ ir' \in IRs /\ Gains(ir, ir') /\ (ir'.err = "none" => ir.err = "none")
          BY <1>1, <1>2, <1>3
        <5> HIDE DEF n
        <5>8. live[k] \subseteq live[k]
          OBVIOUS
        <5>9. Level(ir', k, At(k), scope'.at, locals', live[k])
          BY <5>3, <5>5, <5>6, <5>7, <5>8, LevelStays
        <5> QED
          BY <5>1, <5>2, <5>9
      <4> QED
        BY <4>1, <4>2, <4>3
    <3> QED
      BY <1>4, <3>1 DEF Levels
  <2>5. Lasts'
    <3>1. ASSUME NEW j \in 1 .. n + 1, NEW k \in 1 .. n + 1, j <= k, NEW x \in live'[j], scope'.at[x] = Unbound
          PROVE  x \in live'[k]
      <4>1. CASE j = n + 1
        <5>1. k = n + 1
          BY <1>4, <3>1, <4>1
        <5> QED
          BY <3>1, <4>1, <5>1
      <4>2. CASE j # n + 1
        <5>1. j \in 1 .. n /\ x \in live[j] /\ x \in Names /\ n \in 1 .. n /\ j <= n
          BY <1>1, <1>4, <3>1, <4>2
        <5>2. scope.at[x] = Unbound
          BY <3>1, <5>1
        <5>3. CASE k = n + 1
          <6>1. x \in live[n]
            BY <1>1, <5>1, <5>2 DEF Lasts
          <6> QED
            BY <1>1, <1>4, <5>3, <6>1
        <5>4. CASE k # n + 1
          <6>1. k \in 1 .. n
            BY <1>4, <5>4
          <6>2. x \in live[k]
            BY <1>1, <3>1, <5>1, <5>2, <6>1 DEF Lasts
          <6> QED
            BY <1>4, <6>1, <6>2
        <5> QED
          BY <5>3, <5>4
      <4> QED
        BY <4>1, <4>2
    <3> QED
      BY <1>4, <3>1 DEF Lasts
  <2>6. Holds'
    <3>1. ASSUME NEW k \in 1 .. Len(frames) PROVE Holding(ir', frames'[k], k, scope'.at)
      <4> DEFINE g == frames[k]
      <4>1. Holding(ir, g, k, scope.at) /\ g \in KnownFrames(ir) /\ k \in Nat /\ k \in 1 .. n /\ frames'[k] = g
        BY <1>1, <1>5 DEF Holds
      <4>2. ASSUME g.s.s = "if" /\ g.branch = "then", NEW m \in Len(ir.ops) + 1 .. Len(ir'.ops)
            PROVE  ir'.ops[m].blk # g.other
        <5>1. ir'.ops[m].blk = h
          BY DEF Flows, Fed
        <5>2. CASE h = Here
          <6>1. ir.stack[k + 1] = g.body
            BY <4>1, <4>2 DEF Holding
          <6>2. Len(ir.stack) \in 1 .. Len(ir.stack)
            BY <1>1
          <6> QED
            BY <1>1, <5>1, <5>2, <6>1, <6>2, OtherWaits
        <5>3. CASE h \in Held(f)
          <6>1. h \in 2 .. Len(ir'.args)
            <7>1. n \in 1 .. n
              BY <1>1
            <7> QED
              BY <1>2, <1>5, <5>3, <7>1 DEF Nested
          <6>2. g.other # 0 => g.other < h
            <7>1. k \in 1 .. n /\ n \in 1 .. n /\ k < n
              BY <1>1
            <7>2. g.other # 0 => g.other \in Held(frames'[k])
              BY <4>1 DEF Held
            <7> HIDE DEF g, n
            <7> QED
              BY <1>2, <1>5, <5>3, <7>1, <7>2 DEF Nested
          <6> QED
            BY <5>1, <6>1, <6>2
        <5> QED
          BY <5>2, <5>3
      <4> HIDE DEF g
      <4>3. SameOpen(ir, ir', k) /\ \A x \in Names : scope'.at[x] = Unbound => scope.at[x] = Unbound
        BY <1>6, <4>1
      <4>4. g.s.s = "if" /\ g.branch = "then" =>
              /\ ir'.stack[k + 1] = ir.stack[k + 1]
              /\ \A m \in Len(ir.ops) + 1 .. Len(ir'.ops) : ir'.ops[m].blk # g.other
        <5>1. k + 1 \in 1 .. n
          BY <1>1
        <5> QED
          BY <1>6, <4>2, <5>1
      <4> HIDE DEF n
      <4>5. Holding(ir', g, k, scope'.at)
        <5>1. /\ ir \in IRs /\ ir' \in IRs /\ Gains(ir, ir') /\ Once(ir')
              /\ g \in KnownFrames(ir) /\ k \in Nat /\ Holding(ir, g, k, scope.at)
          BY <1>1, <1>2, <1>3, <4>1
        <5>2. SameOpen(ir, ir', k) /\ StaysBound(scope.at, scope'.at)
          BY <4>3 DEF StaysBound
        <5>3. Waits(ir, ir', g, k)
          BY <4>4 DEF Waits
        <5> QED
          BY <5>1, <5>2, <5>3, HoldingOn
      <4> QED
        BY <4>1, <4>5
    <3>2. ASSUME NEW k \in 1 .. n PROVE Holding(ir', frames'[k], k, scope'.at)
      <4>1. k = n \/ k \in 1 .. Len(frames)
        BY <1>1
      <4> QED
        BY <1>5, <1>7, <3>1, <4>1 DEF Starts
    <3> QED
      BY <1>5, <3>2 DEF Holds
  <2> QED
    BY <2>1, <2>3, <2>4, <2>5, <2>6
<1>8. Placed
  <2>1. h \in Growing(ir', frames')
    <3>1. CASE h = Here
      <4>1. Len(ir'.stack) = n + 1
        BY <1>1, OneMore
      <4>2. n \in 1 .. Len(ir'.stack) /\ ir'.stack[n] = Here
        BY <1>1, <1>6, <4>1
      <4> QED
        BY <3>1, <4>2 DEF Growing
    <3>2. CASE h \in Held(f)
      <4>1. n \in 1 .. Len(frames')
        BY <1>1, <1>5
      <4> QED
        BY <1>5, <3>2, <4>1 DEF Growing
    <3> QED
      BY <3>1, <3>2
  <2>2. \A k \in Len(ir.ops) + 1 .. Len(ir'.ops) : ir'.ops[k].blk = h
    BY DEF Flows, Fed
  <2> QED
    BY <2>1, <2>2 DEF Placed
<1> QED
  BY <1>2, <1>4, <1>5, <1>7, <1>8 DEF DomInv

(* The block that is opened comes on top.                                   *)
LEMMA OpensBlock ==
    ASSUME DomInv, ir.err = "none", NEW b \in Blocks, NEW e, e.stack = Append(ir.stack, b)
    PROVE  /\ Open(e, Len(live)) = Inside /\ Open(e, Len(live) + 1) = Inside \cup {b}
           /\ e.stack[Len(live) + 1] = b /\ Len(live) \in Nat
<1> DEFINE n == Len(live)
<1>1. ir.stack \in Seq(Blocks) /\ n = Len(ir.stack)
  BY DomRunning
<1>2. /\ n \in Nat /\ e.stack[n + 1] = b /\ \A k \in 1 .. n : e.stack[k] = ir.stack[k]
  BY <1>1, OneMore
<1> HIDE DEF n
<1>3. Inside = {ir.stack[j] : j \in 1 .. n}
  BY <1>1 DEF Inside, Open
<1>4. Open(e, n) = Inside
  BY <1>2, <1>3 DEF Open
<1>5. Open(e, n + 1) = Inside \cup {b}
  <2>1. \A j : j \in 1 .. n + 1 <=> j \in 1 .. n \/ j = n + 1
    BY <1>2
  <2>2. Open(e, n + 1) = {e.stack[j] : j \in 1 .. n} \cup {e.stack[n + 1]}
    BY <2>1 DEF Open
  <2> QED
    BY <1>2, <1>3, <2>2
<1> QED
  BY <1>2, <1>4, <1>5 DEF n

(* What is there before a block is made is not from that block.             *)
LEMMA BodyFresh ==
    ASSUME DomInv, ir.err = "none", NEW e \in Flows(ir, Here, Inside), e.err = "none",
           ir' \in IRs, Gains(e, ir'), Once(ir'), NEW b, b \notin 1 .. Len(e.args),
           NEW at \in [Names -> Known(e)]
    PROVE  \A x \in Names : IsVal(at[x]) => ~Defines(ir', b, at[x].n)
<1>1. /\ ir \in IRs /\ e \in IRs /\ Len(ir.ops) \in Nat /\ Len(e.ops) \in Nat /\ Len(ir.args) \in Nat
      /\ Len(e.args) \in Nat /\ Here \in 1 .. Len(ir.args)
      /\ \A k \in 1 .. Len(ir.ops) : ir.ops[k].blk \in 1 .. Len(ir.args)
  BY DomRunning, PartsType DEF Flows, Here
<1>2. \A c \in 1 .. Len(ir.args) : c \in 1 .. Len(e.args)
  BY <1>1 DEF Flows, Gains, Extends
<1>3. ASSUME NEW k \in 1 .. Len(e.ops) PROVE e.ops[k].blk # b
  <2>1. CASE k \in 1 .. Len(ir.ops)
    BY <1>1, <1>2, <2>1 DEF Flows
  <2>2. CASE k \in Len(ir.ops) + 1 .. Len(e.ops)
    BY <1>1, <1>2, <2>2 DEF Flows, Fed
  <2> QED
    BY <1>1, <2>1, <2>2
<1>4. \A v : ~Defines(e, b, v)
  BY <1>3 DEF Defines, Takes
<1>5. ASSUME NEW x \in Names, IsVal(at[x]) PROVE ~Defines(ir', b, at[x].n)
  <2>1. at[x].n \in Defined(e)
    BY <1>5 DEF Known, KnownIds, IsVal, IsNum
  <2> QED
    BY <1>1, <1>4, <2>1, DefinedThere
<1> QED
  BY <1>5

(* What a statement that opens a block has to see to.                       *)
LEMMA StartsOver ==
    ASSUME DomInv, ir.err = "none", NEW b \in Blocks, ir'.stack = Append(ir.stack, b),
           NEW f, NEW names,
           \A x \in Live : /\ f.before.at[x] \in Offered(ir', Inside)
                           /\ scope'.at[x] = Unbound => locals'[x] \in Offered(ir', Inside),
           \A x \in names : /\ scope'.at[x] \in Offered(ir', Inside \cup {b})
                            /\ scope'.at[x] = Unbound => locals'[x] \in Offered(ir', Inside \cup {b}),
           \A j \in DOMAIN f.objs : f.objs[j] \in Offered(ir', Inside),
           \A x \in Names : /\ f.before.at[x] # Unbound => scope'.at[x] # Unbound
                            /\ IsVal(f.before.at[x]) => ~Defines(ir', f.body, f.before.at[x].n),
           f.s.s = "if" => b = f.body /\ \A m \in 1 .. Len(ir'.ops) : ir'.ops[m].blk # f.other,
           f.s.s \notin {"if", "while"} => f.other = 0
    PROVE  Starts(f, names)
<1>1. /\ Open(ir', Len(live)) = Inside /\ Open(ir', Len(live) + 1) = Inside \cup {b}
      /\ ir'.stack[Len(live) + 1] = b
  BY OpensBlock
<1> HIDE DEF Inside
<1> QED
  BY <1>1 DEF Starts, Level, Holding

(* A new region with n arguments, pushed.                                   *)
LEMMA RegionFlows ==
    ASSUME NEW r \in IRs, NEW n \in Nat, NEW h, NEW S
    PROVE  LET entry == NewRegion(r)
               body == LastRegion(entry)
               e == PushRegion(NewArgs(entry, body, n), body)
           IN  /\ e \in Flows(r, h, S) /\ e \in IRs /\ e.err = r.err /\ e.ops = r.ops
               /\ e.stack = Append(r.stack, body) /\ body = Len(r.args) + 1 /\ body \in Blocks
               /\ \A j \in 1 .. n : Fresh(entry, n)[j] \in Ids /\ Takes(e, body, Fresh(entry, n)[j])
<1> DEFINE entry == NewRegion(r)
           body == LastRegion(entry)
           opened == NewArgs(entry, body, n)
           e == PushRegion(opened, body)
<1>1. /\ e \in Adds(r, body) /\ e.ops = r.ops /\ e \in IRs /\ body = Len(r.args) + 1 /\ body \in Blocks
  BY OpenedRegion
<1>2. /\ entry \in IRs /\ Len(entry.args) = Len(r.args) + 1 /\ entry.err = r.err /\ entry.stack = r.stack
      /\ Len(r.args) \in Nat /\ entry.args[body] = <<>>
  BY NewRegionType, NewRegionAdds, NewRegionUpon, PartsType
<1>3. e.stack = Append(r.stack, body) /\ e.err = r.err
  BY <1>2 DEF PushRegion, NewArgs, IRs
<1>4. /\ Len(r.args) <= Len(e.args)
      /\ \A c \in 1 .. Len(r.args) : e.args[c] = r.args[c]
  BY <1>1, <1>2 DEF Adds, Grows
<1>5. e \in Flows(r, h, S)
  BY <1>1, <1>3, <1>4, FlowsSame
<1>6. /\ Fresh(entry, n) \in Seq(Ids) /\ Len(Fresh(entry, n)) = n
      /\ DOMAIN Fresh(entry, n) = 1 .. n
  BY <1>2, FreshType
<1>7. ASSUME NEW j \in 1 .. n PROVE Fresh(entry, n)[j] \in Ids /\ Takes(e, body, Fresh(entry, n)[j])
  <2>1. body \in 1 .. Len(entry.args)
    BY <1>1, <1>2
  <2>2. opened.args[body] = entry.args[body] \o Fresh(entry, n) /\ opened \in IRs
    BY <1>2, <2>1, NewArgsAdds, NewArgsType
  <2>3. e.args = opened.args
    BY <1>1, <2>2, PushRegionType
  <2>4. e.args[body] = Fresh(entry, n)
    <3>1. e.args[body] = <<>> \o Fresh(entry, n)
      BY <1>2, <2>2, <2>3
    <3> HIDE DEF entry, e, body
    <3> QED
      BY <1>6, <3>1
  <2>5. body \in 1 .. Len(e.args)
    <3>1. Len(opened.args) = Len(entry.args)
      BY <1>2, NewArgsType
    <3> HIDE DEF entry, e, body, opened
    <3> QED
      BY <2>1, <2>3, <3>1
  <2> HIDE DEF entry, e, body
  <2>6. Fresh(entry, n)[j] \in Ids
    BY <1>6, ElementOfSeq
  <2> QED
    BY <1>6, <2>4, <2>5, <2>6 DEF Takes
<1> QED
  BY <1>1, <1>3, <1>5, <1>7

(* The numbers in scope become consts: what was offered still is.           *)
LEMMA MaterialisedOffered ==
    ASSUME NEW h, NEW S, NEW r \in IRs, r.stack # <<>>, Block(r) = h, h \in S,
           NEW sc \in Scopes, NEW x \in Names
    PROVE  /\ sc.at[x] \in Offered(r, S) =>
                Materialised(sc, r).at[x] \in Offered(Ensure(r, Objects(sc)), S)
           /\ Materialised(sc, r).at[x] = Unbound => sc.at[x] = Unbound
<1> DEFINE e == Ensure(r, Objects(sc))
           objs == Objects(sc)
           ids == EnsureIds(r, objs)
           vals == [j \in DOMAIN sc.order |-> Val(ids[j])]
           o == BindAll(sc, sc.order, vals).at[x]
<1>1. o = Materialised(sc, r).at[x]
  BY DEF Materialised
<1>2. /\ (\A j \in DOMAIN sc.order : sc.order[j] # x) => o = sc.at[x]
      /\ (\E j \in DOMAIN sc.order : sc.order[j] = x) =>
           \E j \in DOMAIN sc.order : sc.order[j] = x /\ o = vals[j]
  BY BindAllAt
<1>3. objs \in Seq(Objs) /\ DOMAIN objs = DOMAIN sc.order
  BY ObjectsType DEF Objects
<1>4. /\ e \in Flows(r, h, S)
      /\ \A j \in DOMAIN objs : objs[j] \in Offered(r, S) => ids[j] \in Offers(e, S)
  BY <1>3, EnsureFlows
<1>5. Offered(r, S) \subseteq Offered(e, S)
  BY <1>4, OffersFlow
<1> HIDE DEF o, e
<1>6. CASE \E j \in DOMAIN sc.order : sc.order[j] = x
  <2>1. PICK j \in DOMAIN sc.order : sc.order[j] = x /\ o = Val(ids[j])
    BY <1>2, <1>6
  <2>2. objs[j] = sc.at[x]
    BY <2>1 DEF Objects
  <2>3. ASSUME sc.at[x] \in Offered(r, S) PROVE Val(ids[j]) \in Offered(e, S)
    <3>1. ids[j] \in Offers(e, S) /\ ids[j] \in Ids
      BY <1>3, <1>4, <2>2, <2>3 DEF Offers
    <3>2. Val(ids[j]) \in Objs /\ Val(ids[j]).n = ids[j]
      BY <3>1, ValType
    <3> QED
      BY <3>1, <3>2 DEF Offered
  <2>4. o # Unbound
    BY <2>1 DEF Val, Unbound
  <2> HIDE DEF ids
  <2> QED
    BY <1>1, <2>1, <2>3, <2>4 DEF e
<1>7. CASE \A j \in DOMAIN sc.order : sc.order[j] # x
  BY <1>1, <1>2, <1>5, <1>7 DEF e
<1> QED
  BY <1>6, <1>7

(* The bounds of a loop are read from live names, or are numbers.           *)
LEMMA DimsOffered ==
    ASSUME DomInv, ir.err = "none", NEW st \in Menu, st.s \in LoopKinds, ReadsLive(st)
    PROVE  Dims(st) \in Seq(Offered(ir, Inside))
<1> DEFINE K == Offered(ir, Inside)
           o == Rvals(st.arg)
           n == Len(o)
           zeros == [j \in 1..n |-> Num(0)]
           ones == [j \in 1..n |-> Num(1)]
<1>1. /\ o \in Seq(K) /\ n = Len(st.arg) /\ n \in Nat
      /\ \A j \in 1..n : o[j] \in K
  <2>1. o \in Seq(K) /\ n = Len(st.arg)
    BY ReadsOffered
  <2> HIDE DEF K, o
  <2> QED
    BY <2>1, LenProperties, ElementOfSeq
<1>2. Num(0) \in K /\ Num(1) \in K
  BY NumOffered
<1> HIDE DEF K
<1>3. CASE st.s = "parallel"
  <2>1. zeros \in Seq(K) /\ ones \in Seq(K)
    <3>1. zeros \in [1..n -> K] /\ ones \in [1..n -> K]
      BY <1>2
    <3> QED
      BY <1>1, <3>1, FunctionIsSeq
  <2>2. zeros \o o \in Seq(K)
    BY <1>1, <2>1, ConcatProperties
  <2>3. zeros \o o \o ones \in Seq(K)
    BY <2>1, <2>2, ConcatProperties
  <2> QED
    BY <1>3, <2>3 DEF Dims, K
<1>4. CASE st.s # "parallel"
  <2>1. n \in 1..3
    BY <1>1, <1>4, StatementType DEF WellFormed, LoopKinds, Shape
  <2>2. /\ n = 1 => <<Num(0), o[1], Num(1)>> \in Seq(K)
        /\ n = 2 => <<o[1], o[2], Num(1)>> \in Seq(K)
    BY <1>1, <1>2
  <2> QED
    BY <1>1, <1>4, <2>1, <2>2 DEF Dims, K
<1> QED
  BY <1>3, <1>4

(* ctx_for up to its yield.                                                 *)
LEMMA EnterForDom ==
    ASSUME DomInv, EInv', UseInv', NEW st \in Menu, EnterFor(st), RulesOf(st),
           live' = Append(live, Live \cup Bound(st))
    PROVE  DomInv' /\ Placed
<1> DEFINE objs == Objects(scope)
           consts == Ensure(ir, objs)
           entry == NewRegion(consts)
           body == LastRegion(entry)
           n == Len(st.dst)
           ids == Fresh(entry, n)
           ivs == [j \in DOMAIN st.dst |-> Val(ids[j])]
           before == Materialised(scope, ir)
           f == Frame(st, body, 0, Dims(st), before)
           e == PushRegion(NewArgs(entry, body, n), body)
           names == Live \cup Bound(st)
<1>1. /\ ir.err = "none" /\ ir' = e /\ frames' = Append(frames, f) /\ st.s \in LoopKinds
      /\ scope' = BindAll(before, st.dst, ivs) /\ ReadsLive(st)
      /\ locals' = [x \in Names |-> IF \E j \in DOMAIN st.dst : st.dst[j] = x
                                    THEN scope'.at[x] ELSE locals[x]]
  BY DEF EnterFor, Compound, Stmt, Reached, RulesOf
<1>2. /\ ir \in IRs /\ ir.stack # <<>> /\ scope \in Scopes /\ Block(ir) = Here /\ Here \in Inside
      /\ TypeOK /\ UseInv /\ ir \in Good /\ scope.at \in [Names -> Known(ir)] /\ Live \in SUBSET Names
      /\ ir' \in IRs /\ Once(ir')
  <2>1. ir' \in IRs /\ Once(ir')
    BY DEF EInv, Inv, TypeOK, Sound
  <2> QED
    BY <1>1, <2>1, DomRunning, ReadsOffered DEF Here, UseInv
<1>3. /\ objs \in Seq(Objs) /\ before \in Scopes /\ before.at \in [Names -> Known(consts)]
      /\ st.dst \in Seq(Names) /\ n \in Nat /\ DOMAIN st.dst = 1 .. n
  BY <1>2, ObjectsType, MaterialisedType, MaterialisedUse, StatementType, LenProperties
<1>4. consts \in Flows(ir, Here, Inside) /\ consts \in IRs
  BY <1>2, <1>3, EnsureFlows DEF Flows
<1>5. \A x \in Names : /\ scope.at[x] \in Offered(ir, Inside) => before.at[x] \in Offered(consts, Inside)
                       /\ before.at[x] = Unbound => scope.at[x] = Unbound
  BY <1>2, MaterialisedOffered
<1> HIDE DEF objs, consts, before, n, Here, Inside
<1>6. /\ e \in Flows(consts, Here, Inside) /\ e.err = consts.err
      /\ e.stack = Append(consts.stack, body) /\ body = Len(consts.args) + 1 /\ body \in Blocks
      /\ \A j \in 1 .. n : ids[j] \in Ids /\ Takes(e, body, ids[j])
  BY <1>3, <1>4, RegionFlows
<1>7. consts.stack = ir.stack
  BY <1>2, <1>3, EnsureType DEF Emitted, consts
<1> HIDE DEF e, body, entry, ids
<1>8. /\ ir' \in Flows(ir, Here, Inside) /\ ir'.stack = Append(ir.stack, body) /\ Gains(consts, ir')
      /\ Offered(consts, Inside) \subseteq Offered(ir', Inside)
      /\ Offered(ir, Inside) \subseteq Offered(ir', Inside)
  <2>1. ir' \in Flows(ir, Here, Inside)
    BY <1>1, <1>2, <1>4, <1>6, FlowsTwice
  <2>2. /\ Offered(consts, Inside) \subseteq Offered(ir', Inside)
        /\ Offered(ir, Inside) \subseteq Offered(ir', Inside)
    BY <1>1, <1>2, <1>4, <1>6, <2>1, OffersFlow
  <2> QED
    BY <1>1, <1>6, <1>7, <2>1, <2>2 DEF Flows
<1> HIDE DEF ivs
<1>9. \A x \in Names : \/ /\ \A j \in DOMAIN st.dst : st.dst[j] # x
                          /\ scope'.at[x] = before.at[x] /\ locals'[x] = locals[x]
                       \/ \E j \in DOMAIN st.dst : /\ st.dst[j] = x /\ scope'.at[x] = ivs[j]
                                                   /\ ivs[j] \in Offered(ir', Inside \cup {body})
                                                   /\ ivs[j] # Unbound
  <2> SUFFICES ASSUME NEW x \in Names, \E j \in DOMAIN st.dst : st.dst[j] = x
               PROVE  \E j \in DOMAIN st.dst : /\ st.dst[j] = x /\ scope'.at[x] = ivs[j]
                                               /\ ivs[j] \in Offered(ir', Inside \cup {body})
                                               /\ ivs[j] # Unbound
    <3>1. \A x \in Names : (\A j \in DOMAIN st.dst : st.dst[j] # x) =>
            scope'.at[x] = before.at[x] /\ locals'[x] = locals[x]
      BY <1>1, BindAllAt
    <3> QED
      BY <3>1
  <2>1. PICK j \in DOMAIN st.dst : st.dst[j] = x /\ scope'.at[x] = ivs[j]
    BY <1>1, BindAllAt
  <2>2. ids[j] \in Ids /\ Takes(ir', body, ids[j])
    BY <1>1, <1>3, <1>6
  <2>3. ids[j] \in Offers(ir', Inside \cup {body})
    BY <2>2 DEF Offers, Defines
  <2>4. Val(ids[j]) \in Objs /\ Val(ids[j]).n = ids[j] /\ Val(ids[j]) # Unbound
    BY <2>2, ValType DEF Val, Unbound
  <2>5. ivs[j] = Val(ids[j])
    BY DEF ivs
  <2> QED
    BY <2>1, <2>3, <2>4, <2>5 DEF Offered
<1>10. \A x \in Live : /\ x \in Names /\ scope.at[x] \in Offered(ir, Inside)
                       /\ scope.at[x] = Unbound => locals[x] \in Offered(ir, Inside)
  BY <1>1, ReadsOffered
<1>11. \A x \in Live : /\ before.at[x] \in Offered(ir', Inside)
                       /\ scope'.at[x] = Unbound => locals'[x] \in Offered(ir', Inside)
  BY <1>5, <1>8, <1>9, <1>10
<1>12. Offered(ir', Inside) \subseteq Offered(ir', Inside \cup {body})
  BY OfferedMore
<1>13. names \in SUBSET Names /\ Live \subseteq names
  BY <1>2, <1>3, ElementOfSeq DEF Bound
<1>14. \A x \in names : /\ scope'.at[x] \in Offered(ir', Inside \cup {body})
                        /\ scope'.at[x] = Unbound => locals'[x] \in Offered(ir', Inside \cup {body})
  <2> SUFFICES ASSUME NEW x \in names
               PROVE  /\ scope'.at[x] \in Offered(ir', Inside \cup {body})
                      /\ scope'.at[x] = Unbound => locals'[x] \in Offered(ir', Inside \cup {body})
    OBVIOUS
  <2>1. x \in Names
    BY <1>13
  <2>2. CASE \E j \in DOMAIN st.dst : st.dst[j] = x
    BY <1>9, <2>1, <2>2
  <2>3. CASE \A j \in DOMAIN st.dst : st.dst[j] # x
    <3>1. x \in Live
      BY <2>3 DEF Bound
    <3> HIDE DEF names
    <3>2. scope'.at[x] = before.at[x]
      BY <1>9, <2>1, <2>3
    <3> QED
      BY <1>11, <1>12, <3>1, <3>2
  <2> QED
    BY <2>2, <2>3
<1>15. /\ f.s = st /\ f.body = body /\ f.objs = Dims(st) /\ f.before = before /\ f \in Frames
       /\ f.other = 0
  <2>1. st.s \notin {"if", "while"} /\ 0 \in Nat
    BY <1>1 DEF LoopKinds
  <2>2. Dims(st) \in Seq(Objs)
    BY <1>1, <1>2, DimsType
  <2> QED
    BY <1>3, <1>6, <2>1, <2>2, FrameType DEF Frame
<1>16. Dims(st) \in Seq(Offered(ir, Inside))
  BY <1>1, DimsOffered
<1>17. \A j \in DOMAIN f.objs : f.objs[j] \in Offered(ir', Inside)
  BY <1>8, <1>15, <1>16, LenProperties, ElementOfSeq
<1> HIDE DEF f, names
<1>18. ASSUME ir'.err = "none" PROVE Starts(f, names)
  <2>1. consts.err = "none" /\ body \notin 1 .. Len(consts.args)
    <3>1. Len(consts.args) \in Nat
      BY <1>4, PartsType
    <3> QED
      BY <1>1, <1>6, <1>18, <3>1
  <2>2. \A x \in Names : IsVal(before.at[x]) => ~Defines(ir', body, before.at[x].n)
    BY <1>1, <1>2, <1>3, <1>4, <1>8, <2>1, BodyFresh
  <2>3. \A x \in Names : before.at[x] # Unbound => scope'.at[x] # Unbound
    BY <1>9
  <2>4. f.s.s # "if"
    BY <1>1, <1>15 DEF LoopKinds
  <2>5. \A x \in Live : /\ f.before.at[x] \in Offered(ir', Inside)
                        /\ scope'.at[x] = Unbound => locals'[x] \in Offered(ir', Inside)
    BY <1>11, <1>15
  <2>6. \A x \in Names : /\ f.before.at[x] # Unbound => scope'.at[x] # Unbound
                         /\ IsVal(f.before.at[x]) => ~Defines(ir', f.body, f.before.at[x].n)
    BY <1>15, <2>2, <2>3
  <2>7. DomInv /\ ir.err = "none"
    BY <1>1
  <2>8. f.s.s \notin {"if", "while"} => f.other = 0
    BY <1>15
  <2> QED
    BY <1>6, <1>8, <1>14, <1>17, <2>4, <2>5, <2>6, <2>7, <2>8, StartsOver
<1>19. \A x \in Names : scope'.at[x] = Unbound =>
         scope.at[x] = Unbound /\ (x \in Live => locals'[x] = locals[x])
  BY <1>5, <1>9
<1>20. Here = Here /\ Inside \cup {Here} = Inside
  BY <1>2
<1>21. live' = Append(live, names)
  BY DEF names
<1> QED
  BY <1>1, <1>6, <1>8, <1>13, <1>15, <1>18, <1>19, <1>20, <1>21, EnterDom

(* A statement that opens a block and binds nothing.                        *)
LEMMA BranchDom ==
    ASSUME DomInv, EInv', UseInv', ir.err = "none",
           NEW f \in Frames, frames' = Append(frames, f),
           NEW b \in Blocks, b \notin 1 .. Len(ir.args), ir'.stack = Append(ir.stack, b),
           NEW h, h = Here \/ h \in Held(f), ir' \in Flows(ir, h, Inside \cup {h}),
           live' = Append(live, Live), UNCHANGED <<scope, locals>>,
           f.before = scope, f.body = b, \A j \in DOMAIN f.objs : f.objs[j] \in Offered(ir', Inside),
           f.s.s = "if" => \A m \in 1 .. Len(ir'.ops) : ir'.ops[m].blk # f.other,
           f.s.s \notin {"if", "while"} => f.other = 0
    PROVE  DomInv' /\ Placed
<1>1. /\ ir \in IRs /\ ir' \in IRs /\ Once(ir') /\ Gains(ir, ir') /\ scope.at \in [Names -> Known(ir)]
      /\ Live \in SUBSET Names
  BY DomRunning DEF EInv, Inv, Sound, TypeOK, Flows, UseInv
<1> HIDE DEF Here, Inside
<1>2. Offered(ir, Inside) \subseteq Offered(ir', Inside)
  BY <1>1, OffersStay DEF Flows
<1>3. Offered(ir', Inside) \subseteq Offered(ir', Inside \cup {b})
  BY OfferedMore
<1>4. \A x \in Live : /\ x \in Names /\ scope.at[x] \in Offered(ir, Inside)
                      /\ scope.at[x] = Unbound => locals[x] \in Offered(ir, Inside)
  BY ReadsOffered
<1>5. ASSUME ir'.err = "none" PROVE Starts(f, Live)
  <2>1. ir \in Flows(ir, Here, Inside)
    BY <1>1, FlowsSelf
  <2>2. \A x \in Names : IsVal(scope.at[x]) => ~Defines(ir', b, scope.at[x].n)
    BY <1>1, <2>1, BodyFresh
  <2>3. \A x \in Live : /\ f.before.at[x] \in Offered(ir', Inside)
                        /\ scope'.at[x] = Unbound => locals'[x] \in Offered(ir', Inside)
    BY <1>2, <1>4
  <2>4. \A x \in Live : /\ scope'.at[x] \in Offered(ir', Inside \cup {b})
                        /\ scope'.at[x] = Unbound => locals'[x] \in Offered(ir', Inside \cup {b})
    BY <1>2, <1>3, <1>4
  <2>5. \A x \in Names : /\ f.before.at[x] # Unbound => scope'.at[x] # Unbound
                         /\ IsVal(f.before.at[x]) => ~Defines(ir', f.body, f.before.at[x].n)
    BY <2>2
  <2>6. f.s.s = "if" => b = f.body /\ \A m \in 1 .. Len(ir'.ops) : ir'.ops[m].blk # f.other
    OBVIOUS
  <2> QED
    BY <2>3, <2>4, <2>5, <2>6, StartsOver
<1>6. \A x \in Names : scope'.at[x] = Unbound =>
         scope.at[x] = Unbound /\ (x \in Live => locals'[x] = locals[x])
  OBVIOUS
<1>7. Live \subseteq Live
  OBVIOUS
<1> QED
  BY <1>1, <1>5, <1>6, <1>7, EnterDom

(* ctx_kernel up to its yield.                                              *)
LEMMA EnterKernelDom ==
    ASSUME DomInv, EInv', UseInv', NEW st \in Menu, EnterKernel(st), RulesOf(st),
           live' = Append(live, Live \cup Bound(st))
    PROVE  DomInv' /\ Placed
<1> DEFINE entry == NewRegion(ir)
           body == LastRegion(entry)
           e == PushRegion(NewArgs(entry, body, 1), body)
           f == Frame(st, body, 0, Rvals(st.arg), scope)
           x == st.dst[1]
           names == Live \cup Bound(st)
<1>1. /\ ir.err = "none" /\ ir' = e /\ frames' = Append(frames, f) /\ st.s = "kernel"
      /\ scope' = scope /\ ReadsLive(st) /\ locals' = [locals EXCEPT ![x] = Val(entry.next)]
      /\ x \notin Live /\ scope.at[x] = Unbound
  BY DEF EnterKernel, Compound, Stmt, Reached, RulesOf, KeepsControl
<1>2. /\ ir \in IRs /\ scope \in Scopes /\ Here \in Inside /\ locals \in [Names -> Objs]
      /\ Len(ir.args) \in Nat /\ Live \in SUBSET Names /\ ir \in Pouring(Here, Inside)
      /\ ir' \in IRs /\ Once(ir') /\ scope.at \in [Names -> Known(ir)]
  <2>1. ir' \in IRs /\ Once(ir') /\ scope.at \in [Names -> Known(ir)]
    BY DEF EInv, Inv, TypeOK, Sound, DomInv, UseInv
  <2> QED
    BY <1>1, <2>1, DomRunning, ReadsOffered
<1>3. x \in Names /\ Bound(st) = {x}
  <2>1. Len(st.dst) = 1
    BY <1>1, StatementType DEF WellFormed, Shape
  <2> QED
    BY <2>1, TargetType, StatementType, LenProperties DEF Bound
<1> HIDE DEF Here, Inside
<1>4. /\ e \in Flows(ir, Here, Inside) /\ e.stack = Append(ir.stack, body) /\ body = Len(ir.args) + 1
      /\ body \in Blocks /\ entry.next \in Ids /\ Takes(e, body, entry.next)
  <2>1. 1 \in Nat /\ 1 \in 1 .. 1
    OBVIOUS
  <2>2. /\ e \in Flows(ir, Here, Inside) /\ e.stack = Append(ir.stack, body) /\ body = Len(ir.args) + 1
        /\ body \in Blocks
        /\ \A j \in 1 .. 1 : Fresh(entry, 1)[j] \in Ids /\ Takes(e, body, Fresh(entry, 1)[j])
    BY <1>2, <2>1, RegionFlows, Zenon
  <2>3. Fresh(entry, 1)[1] = entry.next
    BY <1>2, NewRegionType DEF Fresh, IRs, Ids
  <2> HIDE DEF e, body, entry
  <2> QED
    BY <2>1, <2>2, <2>3
<1> HIDE DEF e, body, entry
<1>5. Offered(ir, Inside) \subseteq Offered(ir', Inside) /\ Gains(ir, ir')
  <2>1. ir \in IRs /\ ir' \in Flows(ir, Here, Inside)
    BY <1>1, <1>2, <1>4
  <2>2. Gains(ir, ir')
    BY <2>1 DEF Flows
  <2> QED
    BY <2>1, <2>2, OffersFlow
<1>6. Offered(ir', Inside) \subseteq Offered(ir', Inside \cup {body})
  BY OfferedMore
<1>7. \A z \in Live : /\ z \in Names /\ scope.at[z] \in Offered(ir, Inside)
                      /\ scope.at[z] = Unbound => locals[z] \in Offered(ir, Inside)
  BY <1>1, ReadsOffered
<1>8. \A z \in Live : locals'[z] = locals[z]
  BY <1>1, <1>2, <1>3
<1>9. Val(entry.next) \in Offered(ir', Inside \cup {body}) /\ Unbound \in Offered(ir', Inside \cup {body})
  <2>1. entry.next \in Offers(ir', Inside \cup {body})
    BY <1>1, <1>4 DEF Offers, Defines
  <2>2. Val(entry.next) \in Objs /\ Val(entry.next).n = entry.next
    BY <1>4, ValType
  <2>3. Unbound \in Offered(ir, Inside)
    BY <1>2 DEF Pouring, Offered, Objs, Unbound
  <2> QED
    BY <1>5, <1>6, <2>1, <2>2, <2>3 DEF Offered
<1>10. /\ f.s = st /\ f.body = body /\ f.objs = Rvals(st.arg) /\ f.before = scope /\ f \in Frames
       /\ f.other = 0
  <2>1. st.s \notin {"if", "while"} /\ 0 \in Nat
    BY <1>1
  <2>2. Rvals(st.arg) \in Seq(Objs)
    BY <1>1, <1>2, StatementType, RvalsType
  <2> QED
    BY <1>2, <1>4, <2>1, <2>2, FrameType DEF Frame
<1>11. \A j \in DOMAIN f.objs : f.objs[j] \in Offered(ir', Inside)
  <2>1. \A j \in DOMAIN st.arg : Rvals(st.arg)[j] \in Offered(ir, Inside)
    BY <1>1, ReadsOffered
  <2> QED
    BY <1>5, <1>10, <2>1 DEF Rvals
<1>12. names \in SUBSET Names /\ Live \subseteq names
  BY <1>2, <1>3
<1>13. \A z \in names : z \in Live \/ z = x
  BY <1>3
<1> HIDE DEF f, names
<1>14. ASSUME ir'.err = "none" PROVE Starts(f, names)
  <2>1. ir \in Flows(ir, Here, Inside) /\ body \notin 1 .. Len(ir.args)
    BY <1>2, <1>4, FlowsSelf
  <2>2. \A z \in Names : IsVal(scope.at[z]) => ~Defines(ir', body, scope.at[z].n)
    BY <1>1, <1>2, <1>5, <2>1, BodyFresh
  <2>3. \A z \in Live : /\ f.before.at[z] \in Offered(ir', Inside)
                        /\ scope'.at[z] = Unbound => locals'[z] \in Offered(ir', Inside)
    BY <1>1, <1>5, <1>7, <1>8, <1>10
  <2>4. \A z \in names : /\ scope'.at[z] \in Offered(ir', Inside \cup {body})
                         /\ scope'.at[z] = Unbound => locals'[z] \in Offered(ir', Inside \cup {body})
    <3> SUFFICES ASSUME NEW z \in names
                 PROVE  /\ scope'.at[z] \in Offered(ir', Inside \cup {body})
                        /\ scope'.at[z] = Unbound => locals'[z] \in Offered(ir', Inside \cup {body})
      OBVIOUS
    <3>1. CASE z \in Live
      BY <1>1, <1>5, <1>6, <1>7, <1>8, <3>1
    <3>2. CASE z = x
      <4>1. locals'[x] = Val(entry.next)
        BY <1>1, <1>2, <1>3
      <4> QED
        BY <1>1, <1>9, <3>2, <4>1
    <3> QED
      BY <1>13, <3>1, <3>2
  <2>5. \A z \in Names : /\ f.before.at[z] # Unbound => scope'.at[z] # Unbound
                         /\ IsVal(f.before.at[z]) => ~Defines(ir', f.body, f.before.at[z].n)
    BY <1>1, <1>10, <2>2
  <2>6. f.s.s # "if"
    BY <1>1, <1>10
  <2>7. DomInv /\ ir.err = "none"
    BY <1>1
  <2>8. f.s.s \notin {"if", "while"} => f.other = 0
    BY <1>10
  <2>9. ir'.stack = Append(ir.stack, body)
    BY <1>1, <1>4
  <2> QED
    BY <1>4, <1>11, <2>3, <2>4, <2>5, <2>6, <2>7, <2>8, <2>9, StartsOver
<1>15. \A z \in Names : scope'.at[z] = Unbound =>
         scope.at[z] = Unbound /\ (z \in Live => locals'[z] = locals[z])
  BY <1>1, <1>8
<1>16. Here = Here /\ Inside \cup {Here} = Inside
  BY <1>2
<1>17. live' = Append(live, names)
  BY DEF names
<1> QED
  BY <1>1, <1>4, <1>10, <1>12, <1>14, <1>15, <1>16, <1>17, EnterDom

(* New regions, the push and the pop are flowing.                           *)
LEMMA NewRegionFlows ==
    ASSUME NEW r \in IRs, NEW h, NEW S
    PROVE  /\ NewRegion(r) \in Flows(r, h, S) /\ NewRegion(r).stack = r.stack
           /\ LastRegion(NewRegion(r)) = Len(r.args) + 1 /\ Len(NewRegion(r).args) = Len(r.args) + 1
           /\ LastRegion(NewRegion(r)) \in Blocks /\ NewRegion(r) \in IRs
<1> DEFINE e == NewRegion(r)
<1>1. /\ e \in IRs /\ e.ops = r.ops /\ e.err = r.err /\ e.stack = r.stack
      /\ Len(e.args) = Len(r.args) + 1 /\ LastRegion(e) = Len(r.args) + 1 /\ LastRegion(e) \in Blocks
      /\ Len(r.args) \in Nat /\ \A c \in 1 .. Len(r.args) : e.args[c] = r.args[c]
  BY NewRegionType, NewRegionUpon, NewRegionAdds, PartsType
<1> HIDE DEF e
<1>2. e \in Flows(r, h, S)
  BY <1>1, FlowsSame
<1> QED
  BY <1>1, <1>2 DEF e

(* Opening a region adds no operation.                                      *)
LEMMA PushFlows ==
    ASSUME NEW r \in IRs, NEW b \in Blocks, NEW h, NEW S
    PROVE  /\ PushRegion(r, b) \in Flows(r, h, S) /\ PushRegion(r, b).stack = Append(r.stack, b)
           /\ PushRegion(r, b) \in IRs /\ PushRegion(r, b).args = r.args
           /\ PushRegion(r, b).ops = r.ops
<1> DEFINE e == PushRegion(r, b)
<1>1. /\ e \in IRs /\ e.err = r.err /\ e.args = r.args /\ e.stack = Append(r.stack, b) /\ e.ops = r.ops
      /\ Len(r.args) \in Nat
  BY PushRegionType, PartsType DEF PushRegion, IRs
<1> HIDE DEF e
<1>2. e \in Flows(r, h, S)
  BY <1>1, FlowsSame
<1> QED
  BY <1>1, <1>2 DEF e

(* Closing one adds none either.                                            *)
LEMMA PopFlows ==
    ASSUME NEW r \in IRs, r.stack # <<>>, NEW h, NEW S
    PROVE  /\ PopRegion(r) \in Flows(r, h, S) /\ PopRegion(r) \in IRs /\ PopRegion(r).args = r.args
           /\ PopRegion(r).stack = SubSeq(r.stack, 1, Len(r.stack) - 1) /\ PopRegion(r).ops = r.ops
           /\ PopRegion(r).err = r.err
<1> DEFINE e == PopRegion(r)
<1>1. /\ e \in IRs /\ e.err = r.err /\ e.args = r.args /\ e.ops = r.ops /\ Len(r.args) \in Nat
      /\ e.stack = SubSeq(r.stack, 1, Len(r.stack) - 1)
  BY PopRegionType, PartsType DEF PopRegion, IRs
<1> HIDE DEF e
<1>2. e \in Flows(r, h, S)
  BY <1>1, FlowsSame
<1> QED
  BY <1>1, <1>2 DEF e

(* ctx_if up to the yield of its then branch.                               *)
LEMMA EnterIfDom ==
    ASSUME DomInv, EInv', UseInv', NEW st \in Menu, EnterIf(st), RulesOf(st),
           live' = Append(live, Live)
    PROVE  DomInv' /\ Placed
<1> DEFINE o == Rvals(st.arg)
           cond == Condition(ir, st.c, o[1], o[2])
           tested == Ensure(cond.ir, <<cond.o>>)
           once == NewRegion(tested)
           entry == NewRegion(once)
           body == LastRegion(entry) - 1
           id == EnsureIds(cond.ir, <<cond.o>>)[1]
           f == Frame(st, body, body + 1, <<Val(id)>>, scope)
<1>1. /\ ir.err = "none" /\ st.s = "if" /\ UNCHANGED <<scope, locals>> /\ ReadsLive(st)
      /\ ir' = PushRegion(entry, body) /\ frames' = Append(frames, f)
  BY DEF EnterIf, Compound, Stmt, Reached, RulesOf
<1>2. st.c \in Conditions /\ Len(st.arg) = 2
  BY <1>1, StatementType DEF WellFormed, Shape
<1>3. /\ ir \in IRs /\ ir \in Pouring(Here, Inside) /\ Here \in Inside /\ Here \in 1 .. Len(ir.args)
      /\ Len(ir.args) \in Nat /\ scope \in Scopes /\ Len(ir.ops) \in Nat
      /\ \A k \in 1 .. Len(ir.ops) : ir.ops[k].blk \in 1 .. Len(ir.args)
      /\ \A j \in 1 .. Len(st.arg) : o[j] \in Offered(ir, Inside)
  <2>1. \A j \in 1 .. Len(st.arg) : o[j] \in Offered(ir, Inside)
    BY <1>1, ReadsOffered
  <2> QED
    BY <1>1, <2>1, DomRunning, ReadsOffered DEF Here
<1> HIDE DEF Here, Inside, o
<1>4. cond \in Draws(ir, Here, Inside)
  BY <1>2, <1>3, ConditionDraws
<1> HIDE DEF cond
<1>5. /\ cond.ir \in Flows(ir, Here, Inside) /\ cond.ir \in IRs /\ cond.ir.stack # <<>>
      /\ Block(cond.ir) = Here /\ cond.o \in Offered(cond.ir, Inside) /\ cond.o \in Objs
      /\ cond.ir.stack = ir.stack /\ cond.ir.args = ir.args
  BY <1>3, <1>4, DrawsOn DEF Pouring, Offered
<1>6. <<cond.o>> \in Seq(Objs)
  BY <1>5
<1>7. /\ tested \in Flows(ir, Here, Inside) /\ tested \in IRs /\ tested.stack = ir.stack
      /\ tested.args = ir.args /\ id \in Offers(tested, Inside)
  <2>1. tested \in Emitted(cond.ir)
    BY <1>5, <1>6, EnsureType
  <2>2. tested \in Flows(cond.ir, Here, Inside)
    BY <1>3, <1>5, <1>6, EnsureFlows
  <2>3. id \in Offers(tested, Inside)
    <3>1. 1 \in DOMAIN <<cond.o>> /\ <<cond.o>>[1] = cond.o
      OBVIOUS
    <3> DEFINE objs == <<cond.o>>
    <3>2. 1 \in DOMAIN objs /\ objs[1] \in Offered(cond.ir, Inside) /\ objs \in Seq(Objs)
      BY <1>5, <1>6, <3>1
    <3> HIDE DEF objs
    <3>3. EnsureIds(cond.ir, objs)[1] \in Offers(Ensure(cond.ir, objs), Inside)
      BY <1>3, <1>5, <3>2, EnsureFlows
    <3> QED
      BY <3>3 DEF objs
  <2> QED
    BY <1>3, <1>5, <2>1, <2>2, <2>3, FlowsTwice DEF Emitted
<1> HIDE DEF tested, id
<1>8. /\ once \in IRs /\ once \in Flows(tested, Here, Inside) /\ once.stack = ir.stack
      /\ Len(once.args) = Len(ir.args) + 1
  BY <1>7, NewRegionFlows
<1> HIDE DEF once
<1>9. /\ entry \in IRs /\ entry \in Flows(once, Here, Inside) /\ entry.stack = ir.stack
      /\ LastRegion(entry) = Len(once.args) + 1
  BY <1>8, NewRegionFlows
<1>10. body = Len(ir.args) + 1 /\ body \in Blocks
  BY <1>3, <1>8, <1>9 DEF Blocks
<1> HIDE DEF entry, body
<1>11. ir' \in Flows(entry, Here, Inside) /\ ir'.stack = Append(ir.stack, body)
  BY <1>1, <1>9, <1>10, PushFlows
<1>12. ir' \in Flows(ir, Here, Inside) /\ ir' \in Flows(tested, Here, Inside)
  <2>1. ir' \in Flows(once, Here, Inside)
    BY <1>8, <1>9, <1>11, FlowsTwice
  <2>2. ir' \in Flows(tested, Here, Inside)
    BY <1>7, <1>8, <2>1, FlowsTwice
  <2> QED
    BY <1>3, <1>7, <2>2, FlowsTwice
<1>13. /\ f.s = st /\ f.body = body /\ f.other = body + 1 /\ f.objs = <<Val(id)>> /\ f.before = scope
       /\ f \in Frames
  <2>1. id \in Ids
    BY <1>7 DEF Offers
  <2>2. <<Val(id)>> \in Seq(Objs) /\ body + 1 \in Nat /\ body + 1 # 0
    BY <1>3, <1>10, <2>1, ValType, OperandsType
  <2> QED
    BY <1>3, <1>10, <2>2, FrameType DEF Frame
<1>14. \A j \in DOMAIN f.objs : f.objs[j] \in Offered(ir', Inside)
  <2>1. Offers(tested, Inside) \subseteq Offers(ir', Inside)
    BY <1>7, <1>12, OffersStay DEF Flows
  <2>2. Val(id) \in Offered(ir', Inside)
    <3>1. id \in Offers(ir', Inside) /\ id \in Ids
      BY <1>7, <2>1 DEF Offers
    <3>2. Val(id) \in Objs /\ Val(id).n = id
      BY <3>1, ValType
    <3> QED
      BY <3>1, <3>2 DEF Offered
  <2> QED
    BY <1>13, <2>2
<1>15. \A m \in 1 .. Len(ir'.ops) : ir'.ops[m].blk # f.other
  <2> SUFFICES ASSUME NEW m \in 1 .. Len(ir'.ops) PROVE ir'.ops[m].blk \in 1 .. Len(ir.args)
    BY <1>3, <1>10, <1>13
  <2>1. CASE m \in 1 .. Len(ir.ops)
    BY <1>3, <1>12, <2>1 DEF Flows
  <2>2. CASE m \notin 1 .. Len(ir.ops)
    <3>1. m \in Len(ir.ops) + 1 .. Len(ir'.ops)
      BY <1>3, <2>2
    <3> QED
      BY <1>3, <1>12, <3>1 DEF Flows, Fed
  <2> QED
    BY <2>1, <2>2
<1>16. body \notin 1 .. Len(ir.args) /\ Here = Here /\ Inside \cup {Here} = Inside
  BY <1>3, <1>10
<1> HIDE DEF f
<1> QED
  BY <1>1, <1>10, <1>11, <1>12, <1>13, <1>14, <1>15, <1>16, BranchDom

(* One more element, and one less.                                          *)
LEMMA OneLess ==
    ASSUME NEW S, NEW s \in Seq(S), NEW x \in S
    PROVE  SubSeq(Append(s, x), 1, Len(Append(s, x)) - 1) = s
<1> DEFINE t == Append(s, x)
<1>1. /\ t \in Seq(S) /\ Len(t) = Len(s) + 1 /\ Len(s) \in Nat
      /\ \A k \in 1 .. Len(s) : t[k] = s[k]
  BY OneMore
<1> HIDE DEF t
<1>2. SubSeq(t, 1, Len(s)) = [k \in 1 .. Len(s) |-> t[k]]
  BY <1>1
<1>3. s = [k \in 1 .. Len(s) |-> s[k]]
  BY <1>1, LenProperties
<1>4. Len(t) - 1 = Len(s)
  BY <1>1
<1> QED
  BY <1>1, <1>2, <1>3, <1>4 DEF t

(* ctx_while up to the yield of its body: the condition is in a block of    *)
(* its own.                                                                 *)
LEMMA EnterWhileDom ==
    ASSUME DomInv, EInv', UseInv', NEW st \in Menu, EnterWhile(st), RulesOf(st),
           live' = Append(live, Live)
    PROVE  DomInv' /\ Placed
<1> DEFINE entry == NewRegion(ir)
           test == LastRegion(entry)
           o == Rvals(st.arg)
           pushed == PushRegion(entry, test)
           cond == Condition(pushed, st.c, o[1], o[2])
           kind == "yield"
           none == <<>>
           zero == 0
           yielded == Emit(cond.ir, kind, <<cond.o>>, zero, none, zero)
           popped == PopRegion(yielded)
           done == NewRegion(popped)
           f == Frame(st, test + 1, test, none, scope)
           S == Inside \cup {test}
<1>1. /\ ir.err = "none" /\ st.s = "while" /\ UNCHANGED <<scope, locals>> /\ ReadsLive(st)
      /\ ir' = PushRegion(done, test + 1) /\ frames' = Append(frames, f)
  BY DEF EnterWhile, Compound, Stmt, Reached, RulesOf
<1>2. st.c \in Conditions /\ Len(st.arg) = 2
  BY <1>1, StatementType DEF WellFormed, Shape
<1>3. /\ ir \in IRs /\ ir \in Pouring(Here, Inside) /\ ir.stack \in Seq(Blocks)
      /\ Len(ir.args) \in Nat /\ scope \in Scopes
      /\ \A j \in 1 .. Len(st.arg) : o[j] \in Offered(ir, Inside)
  <2>1. \A j \in 1 .. Len(st.arg) : o[j] \in Offered(ir, Inside)
    BY <1>1, ReadsOffered
  <2> QED
    BY <1>1, <2>1, DomRunning, ReadsOffered
<1> HIDE DEF Here, Inside, o
<1>4. /\ entry \in IRs /\ entry \in Flows(ir, test, S) /\ entry.stack = ir.stack
      /\ test = Len(ir.args) + 1 /\ test \in Blocks /\ test + 1 \in Blocks
  <2>1. /\ entry \in IRs /\ entry \in Flows(ir, test, S) /\ entry.stack = ir.stack
        /\ test = Len(ir.args) + 1 /\ test \in Blocks
    BY <1>3, NewRegionFlows
  <2> QED
    BY <1>3, <2>1 DEF Blocks
<1> HIDE DEF entry, test
<1>5. /\ pushed \in IRs /\ pushed \in Flows(ir, test, S) /\ pushed.stack = Append(ir.stack, test)
      /\ pushed.stack # <<>> /\ Block(pushed) = test
  <2>1. pushed \in IRs /\ pushed \in Flows(entry, test, S) /\ pushed.stack = Append(ir.stack, test)
    BY <1>4, PushFlows
  <2>2. pushed.stack # <<>> /\ Block(pushed) = test
    <3>1. /\ Len(Append(ir.stack, test)) = Len(ir.stack) + 1 /\ Len(ir.stack) \in Nat
          /\ Append(ir.stack, test)[Len(ir.stack) + 1] = test
      BY <1>3, <1>4, OneMore
    <3> DEFINE t == Append(ir.stack, test)
    <3>2. pushed.stack # <<>>
      BY <1>4, PushRegionType
    <3> HIDE DEF pushed
    <3>3. pushed.stack = t
      BY <2>1
    <3>4. Len(t) = Len(ir.stack) + 1 /\ t[Len(ir.stack) + 1] = test
      BY <3>1
    <3> HIDE DEF t
    <3> QED
      BY <3>2, <3>3, <3>4 DEF Block
  <2> QED
    BY <1>3, <1>4, <2>1, <2>2, FlowsTwice
<1>6. /\ Offered(ir, Inside) \subseteq Offered(pushed, S) /\ Offers(ir, Inside) \subseteq Offers(pushed, S)
  <2> HIDE DEF pushed, S
  <2>1. /\ Offered(ir, S) \subseteq Offered(pushed, S) /\ Offers(ir, S) \subseteq Offers(pushed, S)
    BY <1>3, <1>5, OffersStay DEF Flows
  <2>2. Inside \subseteq S
    BY DEF S
  <2>3. /\ Offered(ir, Inside) \subseteq Offered(ir, S) /\ Offers(ir, Inside) \subseteq Offers(ir, S)
    BY <2>2, OfferedMore
  <2> QED
    BY <2>1, <2>3
<1>7. pushed \in Pouring(test, S)
  <2>1. test \in S /\ 0 \in Offers(ir, Inside)
    BY <1>3 DEF Pouring
  <2> QED
    BY <1>5, <1>6, <2>1 DEF Pouring
<1> HIDE DEF pushed, S
<1>8. cond \in Draws(pushed, test, S)
  <2>1. o[1] \in Offered(pushed, S) /\ o[2] \in Offered(pushed, S)
    BY <1>2, <1>3, <1>6
  <2> QED
    BY <1>2, <1>7, <2>1, ConditionDraws
<1> HIDE DEF cond
<1>9. /\ cond.ir \in Flows(pushed, test, S) /\ cond.ir \in IRs /\ cond.ir.stack # <<>>
      /\ Block(cond.ir) = test /\ test \in S /\ cond.o \in Offered(cond.ir, S) /\ cond.o \in Objs
      /\ cond.ir.stack = pushed.stack
  BY <1>7, <1>8, DrawsOn DEF Pouring, Offered
<1>10. /\ kind \in OpNames /\ zero \in Nat /\ zero \in Int /\ none \in Seq(Blocks) /\ none \in Seq(Objs)
       /\ <<cond.o>> \in Seq(Objs) /\ <<cond.o>> \in Seq(Offered(cond.ir, S))
       /\ \A j \in DOMAIN none : FALSE
  BY <1>9, EmptySeq DEF OpNames, Terminators
<1> DEFINE objs == <<cond.o>>
<1> HIDE DEF kind, zero, none
<1>11. /\ yielded \in Flows(cond.ir, test, S) /\ yielded \in IRs /\ yielded.stack = pushed.stack
  <2>1. objs \in Seq(Objs) /\ objs \in Seq(Offered(cond.ir, S))
    BY <1>10
  <2> HIDE DEF objs
  <2>2. Emit(cond.ir, kind, objs, zero, none, zero) \in Flows(cond.ir, test, S)
    BY <1>9, <1>10, <2>1, EmitFlows
  <2>3. Emit(cond.ir, kind, objs, zero, none, zero) \in Emitted(cond.ir)
    BY <1>9, <1>10, <2>1, EmitType
  <2> QED
    BY <1>9, <2>2, <2>3 DEF Emitted, objs, Flows
<1> HIDE DEF yielded
<1>12. popped \in Flows(yielded, test, S) /\ popped \in IRs /\ popped.stack = ir.stack
  <2>1. /\ popped \in Flows(yielded, test, S) /\ popped \in IRs
        /\ popped.stack = SubSeq(yielded.stack, 1, Len(yielded.stack) - 1)
    BY <1>5, <1>11, PopFlows
  <2>2. SubSeq(Append(ir.stack, test), 1, Len(Append(ir.stack, test)) - 1) = ir.stack
    BY <1>3, <1>4, OneLess
  <2> HIDE DEF popped
  <2> QED
    BY <1>5, <1>11, <2>1, <2>2
<1> HIDE DEF popped
<1>13. done \in Flows(popped, test, S) /\ done \in IRs /\ done.stack = ir.stack
  BY <1>12, NewRegionFlows
<1> HIDE DEF done
<1>14. ir' \in Flows(done, test, S) /\ ir'.stack = Append(ir.stack, test + 1)
  <2> DEFINE body == test + 1
  <2>1. body \in Blocks /\ ir' = PushRegion(done, body)
    BY <1>1, <1>4
  <2> HIDE DEF body
  <2>2. ir' \in Flows(done, test, S) /\ ir'.stack = Append(done.stack, body)
    BY <1>13, <2>1, PushFlows
  <2> QED
    BY <1>13, <2>2 DEF body
<1>15. ir' \in Flows(ir, test, S)
  <2>1. ir' \in Flows(popped, test, S)
    BY <1>12, <1>13, <1>14, FlowsTwice
  <2>2. ir' \in Flows(yielded, test, S)
    BY <1>11, <1>12, <2>1, FlowsTwice
  <2>3. ir' \in Flows(cond.ir, test, S)
    BY <1>9, <1>11, <2>2, FlowsTwice
  <2>4. ir' \in Flows(pushed, test, S)
    BY <1>5, <1>9, <2>3, FlowsTwice
  <2> QED
    BY <1>3, <1>5, <2>4, FlowsTwice
<1>16. /\ f.s = st /\ f.body = test + 1 /\ f.other = test /\ f.objs = none /\ f.before = scope
       /\ f \in Frames /\ test \in Held(f)
  <2>1. test \in Nat /\ test # 0
    BY <1>4 DEF Blocks
  <2> QED
    BY <1>3, <1>4, <1>10, <2>1, FrameType DEF Frame, Held
<1>17. test + 1 \notin 1 .. Len(ir.args)
  BY <1>3, <1>4
<1>18. ir' \in Flows(ir, test, Inside \cup {test})
  BY <1>15 DEF S
<1>19. /\ \A j \in DOMAIN f.objs : f.objs[j] \in Offered(ir', Inside)
       /\ f.s.s = "if" => \A m \in 1 .. Len(ir'.ops) : ir'.ops[m].blk # f.other
  BY <1>1, <1>10, <1>16
<1> HIDE DEF f
<1> QED
  BY <1>1, <1>4, <1>14, <1>16, <1>17, <1>18, <1>19, BranchDom

(***************************************************************************)
(* Leaving a block.                                                         *)
(***************************************************************************)
(* What the innermost suspended statement is, and the names below it.       *)
LEMMA TopHeld ==
    ASSUME DomInv, ir.err = "none", frames # <<>>
    PROVE  /\ Len(frames) \in Nat \ {0} /\ Len(frames) \in 1 .. Len(frames)
           /\ Len(live) = Len(frames) + 1 /\ Top = frames[Len(frames)] /\ Top \in Frames
           /\ Outer = live[Len(frames)] /\ Outer \in SUBSET Names
           /\ Live = live[Len(frames) + 1] /\ Live \in SUBSET Names
           /\ Level(ir, Len(frames), Top.before.at, scope.at, locals, Outer)
           /\ Holding(ir, Top, Len(frames), scope.at)
           /\ Survivors(Top) \in SUBSET Names /\ Survivors(Top) \subseteq Outer
<1> DEFINE n == Len(frames)
<1>1. /\ TypeOK /\ Len(live) = n + 1 /\ \A k \in 1 .. Len(live) : live[k] \in SUBSET Names
      /\ Levels /\ Holds /\ Live = live[Len(live)]
  BY DomRunning
<1>2. n \in Nat \ {0} /\ Top \in Frames /\ Top = frames[n]
  BY <1>1, TopType DEF Top
<1> HIDE DEF n
<1>3. n \in 1 .. Len(live) /\ n + 1 \in 1 .. Len(live) /\ Len(live) - 1 = n /\ n # Len(live) /\ n \in 1 .. n
  BY <1>1, <1>2
<1>4. Outer = live[n]
  BY <1>3 DEF Outer
<1>5. Level(ir, n, At(n), scope.at, locals, live[n]) /\ At(n) = frames[n].before.at
  BY <1>1, <1>3 DEF Levels, At
<1>6. Holding(ir, Top, n, scope.at)
  BY <1>1, <1>2, <1>3 DEF Holds, n
<1>7. Survivors(Top) \subseteq Outer
  BY DEF Survivors
<1> QED
  BY <1>1, <1>2, <1>3, <1>4, <1>5, <1>6, <1>7 DEF n

(* The names of the block that is left are gone.                            *)
LEMMA PopIs ==
    ASSUME DomInv, ir.err = "none", frames # <<>>, NEW names \in SUBSET Names
    PROVE  /\ Pop(names) \in Seq(SUBSET Names) /\ Len(Pop(names)) = Len(frames)
           /\ \A k \in 1 .. Len(frames) - 1 : Pop(names)[k] = live[k]
           /\ Pop(names)[Len(frames)] = names
<1> DEFINE n == Len(frames)
           s == SubSeq(live, 1, Len(live) - 2)
<1>1. n \in Nat \ {0} /\ Len(live) = n + 1 /\ live \in Seq(SUBSET Names)
  BY TopHeld, DomRunning
<1> HIDE DEF n
<1>2. Len(live) - 2 = n - 1 /\ n - 1 \in Nat /\ n - 1 <= Len(live) /\ Len(live) \in Nat
  BY <1>1
<1>3. \A k \in 1 .. n - 1 : k \in 1 .. Len(live)
  BY <1>1
<1>4. s = SubSeq(live, 1, n - 1)
  BY <1>2
<1>5. s \in Seq(SUBSET Names) /\ Len(s) = n - 1
  <2>1. \A i \in 1 .. n - 1 : live[i] \in SUBSET Names
    BY <1>1, <1>3, ElementOfSeq
  <2>2. 1 \in Nat /\ n - 1 \in Nat
    BY <1>2
  <2> QED
    BY <1>1, <1>2, <1>4, <2>1, <2>2, SubSeqProperties
<1>6. \A k \in 1 .. n - 1 : s[k] = live[k]
  BY <1>1, <1>2, <1>4
<1> HIDE DEF s
<1>7. /\ Append(s, names) \in Seq(SUBSET Names) /\ Len(Append(s, names)) = Len(s) + 1
      /\ \A k \in 1 .. Len(s) : Append(s, names)[k] = s[k]
      /\ Append(s, names)[Len(s) + 1] = names
  <2>1. names \in SUBSET Names
    OBVIOUS
  <2> QED
    BY <1>5, <2>1, OneMore
<1>8. Pop(names) = Append(s, names)
  BY DEF Pop, s
<1> DEFINE t == Append(s, names)
<1>9. /\ t \in Seq(SUBSET Names) /\ Len(t) = (n - 1) + 1 /\ \A k \in 1 .. n - 1 : t[k] = live[k]
      /\ t[(n - 1) + 1] = names /\ Pop(names) = t
  BY <1>5, <1>6, <1>7, <1>8
<1> HIDE DEF t
<1>10. (n - 1) + 1 = n
  BY <1>1
<1> QED
  BY <1>9, <1>10 DEF n

(* The names that live on may be read in the block outside.                 *)
LEMMA OuterLevels ==
    ASSUME DomInv, ir.err = "none", frames # <<>>, ir' \in IRs, Gains(ir, ir'),
           SameOpen(ir, ir', Len(frames)), StaysBound(scope.at, scope'.at), locals' = locals
    PROVE  /\ \A k \in 1 .. Len(frames) - 1 : /\ SameOpen(ir, ir', k)
                                              /\ Level(ir', k, frames[k].before.at, scope'.at, locals', live[k])
           /\ scope'.at = scope.at => Level(ir', Len(frames), scope'.at, scope'.at, locals', Survivors(Top))
<1> DEFINE n == Len(frames)
           survivors == Survivors(Top)
<1>1. /\ n \in Nat \ {0} /\ Len(live) = n + 1
      /\ Level(ir, n, Top.before.at, scope.at, locals, Outer)
      /\ survivors \in SUBSET Names /\ survivors \subseteq Outer
      /\ ir \in IRs /\ Levels /\ \A k \in 1 .. Len(live) : live[k] \in SUBSET Names
      /\ SameOpen(ir, ir', n) /\ (ir'.err = "none" => ir.err = "none")
  BY TopHeld, DomRunning
<1> HIDE DEF n, survivors
<1>2. \A k \in 1 .. n - 1 : k \in 1 .. Len(live) /\ k # Len(live) /\ \A j \in 1 .. k : j \in 1 .. n
  BY <1>1
<1>3. ASSUME NEW k \in 1 .. n - 1
      PROVE  SameOpen(ir, ir', k) /\ Level(ir', k, frames[k].before.at, scope'.at, locals', live[k])
  <2>1. SameOpen(ir, ir', k)
    BY <1>1, <1>2 DEF SameOpen
  <2>2. Level(ir, k, At(k), scope.at, locals, live[k]) /\ At(k) = frames[k].before.at
    BY <1>1, <1>2 DEF Levels, At
  <2>3. \A x \in live[k] : /\ At(k)[x] = At(k)[x]
                           /\ scope'.at[x] = Unbound => scope.at[x] = Unbound /\ locals'[x] = locals[x]
    BY <1>1, <1>2 DEF StaysBound
  <2>4. live[k] \subseteq live[k]
    OBVIOUS
  <2>5. Level(ir', k, At(k), scope'.at, locals', live[k])
    BY <1>1, <2>1, <2>2, <2>3, <2>4, LevelStays
  <2> QED
    BY <2>1, <2>2, <2>5
<1>4. ASSUME scope'.at = scope.at PROVE Level(ir', n, scope'.at, scope'.at, locals', survivors)
  <2> DEFINE at == Top.before.at
  <2>1. \A x \in survivors : /\ scope'.at[x] = at[x]
                             /\ scope'.at[x] = Unbound => scope.at[x] = Unbound /\ locals'[x] = locals[x]
    BY <1>1, <1>4 DEF survivors, Survivors, Initial
  <2>2. Level(ir, n, at, scope.at, locals, Outer)
    BY <1>1
  <2> HIDE DEF at
  <2> QED
    BY <1>1, <2>1, <2>2, LevelStays
<1> QED
  BY <1>3, <1>4 DEF n, survivors

(* A name without a binding is not lost.                                    *)
LEMMA LastSurvives ==
    ASSUME DomInv, ir.err = "none", frames # <<>>, NEW j \in 1 .. Len(frames), NEW x \in live[j],
           scope.at[x] = Unbound
    PROVE  x \in Live \cap Outer /\ x \in Survivors(Top) /\ \A k \in 1 .. Len(frames) : j <= k => x \in live[k]
<1> DEFINE n == Len(frames)
<1>1. /\ n \in Nat \ {0} /\ Len(live) = n + 1 /\ Outer = live[n] /\ Live = live[n + 1]
      /\ Holding(ir, Top, n, scope.at) /\ Lasts /\ \A k \in 1 .. Len(live) : live[k] \in SUBSET Names
  BY TopHeld, DomRunning
<1>2. \A k \in 1 .. n + 1 : j <= k => x \in live[k]
  <2> HIDE DEF n
  <2>1. j \in 1 .. n + 1
    BY <1>1 DEF n
  <2> QED
    BY <1>1, <2>1 DEF Lasts
<1>3. x \in live[n] /\ x \in live[n + 1] /\ x \in Names
  <2>1. n \in 1 .. n + 1 /\ n + 1 \in 1 .. n + 1 /\ j <= n /\ j <= n + 1
    BY <1>1
  <2> HIDE DEF n
  <2> QED
    BY <1>1, <1>2, <2>1
<1>4. Top.before.at[x] = Unbound
  BY <1>1, <1>3 DEF Holding
<1>5. \A k \in 1 .. n : k \in 1 .. n + 1
  BY <1>1
<1> QED
  BY <1>1, <1>2, <1>3, <1>4, <1>5 DEF Survivors, Initial

(* From ctx_then to ctx_else: what lives is what both branches start from.  *)
LEMMA EnterElseDom ==
    ASSUME DomInv, EInv', UseInv', EnterElse, live' = Pop(Survivors(Top)) \o <<Survivors(Top)>>
    PROVE  DomInv' /\ Placed
<1> DEFINE n == Len(frames)
           f == [Top EXCEPT !.branch = "else", !.skip = FALSE]
           names == Survivors(Top)
           popped == PopRegion(ir)
           left == Pop(names)
<1>1. /\ ir.err = "none" /\ frames # <<>> /\ Top.s.s = "if" /\ Top.branch = "then"
      /\ ir' = PushRegion(popped, Top.other) /\ UNCHANGED <<scope, locals>>
      /\ frames' = [frames EXCEPT ![n].branch = "else", ![n].skip = FALSE]
  BY DEF EnterElse
<1>2. /\ n \in Nat \ {0} /\ n \in 1 .. n /\ Top = frames[n] /\ Top \in Frames
      /\ Len(live) = n + 1 /\ Outer \in SUBSET Names /\ names \in SUBSET Names /\ names \subseteq Outer
      /\ Live \in SUBSET Names /\ Holding(ir, Top, n, scope.at)
  BY <1>1, TopHeld
<1>3. /\ Inv /\ TypeOK /\ ir \in IRs /\ Nested(ir, frames) /\ Once(ir)
      /\ frames \in Seq(Frames) /\ ir.stack \in Seq(Blocks) /\ ir.stack # <<>>
      /\ Len(ir.stack) = n + 1 /\ Len(ir.args) \in Nat /\ Len(ir.ops) \in Nat
      /\ \A k \in 1 .. Len(ir.ops) : ir.ops[k].blk \in 1 .. Len(ir.args)
      /\ \A k \in 1 .. n : frames[k] \in KnownFrames(ir)
      /\ live \in Seq(SUBSET Names) /\ \A k \in 1 .. Len(live) : live[k] \in SUBSET Names
      /\ Takes(ir, 1, 0) /\ Rooted /\ Levels /\ Lasts /\ Holds
  BY <1>1, DomRunning
<1>4. Inv' /\ TypeOK' /\ ir' \in IRs /\ Once(ir')
  BY DEF EInv, Inv, Sound, TypeOK
<1>5. Top.other \in Blocks
  BY <1>1, <1>2 DEF Frames, Blocks
<1>6. /\ popped \in IRs /\ popped.args = ir.args /\ popped.ops = ir.ops /\ popped.err = ir.err
      /\ popped.stack \in Seq(Blocks) /\ Len(popped.stack) = n
      /\ \A k \in 1 .. n : popped.stack[k] = ir.stack[k]
      /\ popped \in Flows(ir, 0, {})
  <2>1. /\ popped.stack = SubSeq(ir.stack, 1, Len(ir.stack) - 1) /\ popped \in IRs /\ popped.args = ir.args
        /\ popped.ops = ir.ops /\ popped.err = ir.err /\ popped \in Flows(ir, 0, {})
    BY <1>3, PopFlows
  <2>2. /\ SubSeq(ir.stack, 1, Len(ir.stack) - 1) \in Seq(Blocks)
        /\ Len(SubSeq(ir.stack, 1, Len(ir.stack) - 1)) = Len(ir.stack) - 1
        /\ \A j \in 1..(Len(ir.stack) - 1) : SubSeq(ir.stack, 1, Len(ir.stack) - 1)[j] = ir.stack[j]
    BY <1>3, FrontType
  <2>3. Len(ir.stack) - 1 = n
    BY <1>2, <1>3
  <2> HIDE DEF n, popped
  <2> QED
    BY <2>1, <2>2, <2>3
<1> HIDE DEF popped
<1>7. /\ ir'.args = ir.args /\ ir'.ops = ir.ops /\ ir'.err = ir.err /\ Gains(ir, ir')
      /\ \A k \in 1 .. n : ir'.stack[k] = ir.stack[k]
  <2>1. /\ ir' \in Flows(popped, 0, {}) /\ ir'.stack = Append(popped.stack, Top.other)
        /\ ir'.args = popped.args /\ ir'.ops = popped.ops
    BY <1>1, <1>5, <1>6, PushFlows
  <2>2. ir' \in Flows(ir, 0, {})
    BY <1>3, <1>6, <2>1, FlowsTwice
  <2>3. \A k \in 1 .. Len(popped.stack) : Append(popped.stack, Top.other)[k] = popped.stack[k]
    BY <1>5, <1>6, OneMore
  <2>4. ir'.err = ir.err
    BY <1>1, <1>6 DEF PushRegion
  <2> QED
    BY <1>6, <2>1, <2>2, <2>3, <2>4 DEF Flows
<1>8. /\ Len(frames') = n /\ \A k \in 1 .. n : frames'[k] = IF k = n THEN f ELSE frames[k]
      /\ f.s = Top.s /\ f.branch = "else" /\ f.body = Top.body /\ f.other = Top.other
      /\ f.objs = Top.objs /\ f.before = Top.before
  <2>1. DOMAIN frames = 1 .. n
    BY <1>3, LenProperties
  <2>2. Len(frames') = n
    BY <1>1, <1>3
  <2>3. \A k \in 1 .. n : frames'[k] = IF k = n THEN f ELSE frames[k]
    BY <1>1, <1>2, <2>1
  <2>4. /\ f.s = Top.s /\ f.branch = "else" /\ f.body = Top.body /\ f.other = Top.other
        /\ f.objs = Top.objs /\ f.before = Top.before
    BY <1>2 DEF Frames
  <2> QED
    BY <2>2, <2>3, <2>4
<1> HIDE DEF f
<1>9. /\ left \in Seq(SUBSET Names) /\ Len(left) = n
      /\ \A k \in 1 .. n - 1 : left[k] = live[k]
      /\ left[n] = names
  BY <1>1, <1>2, PopIs
<1> HIDE DEF left, names, n
<1>10. /\ live' \in Seq(SUBSET Names) /\ Len(live') = n + 1
       /\ \A k \in 1 .. n - 1 : live'[k] = live[k]
       /\ live'[n] = names /\ live'[n + 1] = names
  <2>1. live' = Append(left, names)
    <3>1. live' = left \o <<names>>
      BY DEF left, names
    <3> QED
      BY <1>2, <1>9, <3>1, AppendIsConcat
  <2>2. /\ Append(left, names) \in Seq(SUBSET Names) /\ Len(Append(left, names)) = Len(left) + 1
        /\ \A k \in 1 .. Len(left) : Append(left, names)[k] = left[k]
        /\ Append(left, names)[Len(left) + 1] = names
    BY <1>2, <1>9, OneMore
  <2>3. \A k \in 1 .. n - 1 : k \in 1 .. n
    BY <1>2
  <2> QED
    BY <1>2, <1>9, <2>1, <2>2, <2>3
<1>11. /\ SameOpen(ir, ir', n) /\ StaysBound(scope.at, scope'.at) /\ locals' = locals
       /\ scope'.at = scope.at
  BY <1>1, <1>7 DEF SameOpen, StaysBound
<1>12. /\ \A k \in 1 .. n - 1 : /\ SameOpen(ir, ir', k)
                                /\ Level(ir', k, frames[k].before.at, scope'.at, locals', live[k])
       /\ Level(ir', n, scope'.at, scope'.at, locals', names)
  BY <1>1, <1>3, <1>4, <1>7, <1>11, OuterLevels DEF n, names
<1>13. Takes(ir', 1, 0)
  BY <1>3, <1>7 DEF Takes
<1>14. Rooted'
  <2>1. \A c \in 1 .. Len(ir.args) : Above(c) \subseteq Above(c)'
    <3>1. Deeper
      <4>1. n <= n /\ \A k \in 1 .. n : /\ frames'[k].body = frames[k].body
                                        /\ frames'[k].other = frames[k].other
                                        /\ ir'.stack[k] = ir.stack[k]
        BY <1>2, <1>7, <1>8
      <4> QED
        BY <1>8, <4>1 DEF Deeper, n
    <3>2. ir'.err = "none"
      BY <1>1, <1>7
    <3> QED
      BY <1>1, <1>3, <1>4, <1>7, <3>1, <3>2, DeeperAbove
  <2>2. \A k \in 1 .. Len(ir.ops) : /\ ir.ops[k].blk \in 1 .. Len(ir.args) /\ ir.ops[k].blk # 0
                                    /\ ir'.ops[k] = ir.ops[k]
    BY <1>3, <1>7
  <2>3. \A k \in Len(ir.ops) + 1 .. Len(ir'.ops) : FALSE
    BY <1>3, <1>7
  <2>4. \A c \in 1 .. Len(ir.args) : c # 0 => Above(c) \subseteq Above(c)'
    BY <2>1
  <2> HIDE DEF Gains, Rooted
  <2> QED
    BY <1>3, <1>4, <1>7, <2>2, <2>3, <2>4, RootedStep
<1>15. Levels'
  <2>1. ASSUME NEW k \in 1 .. n + 1 PROVE Level(ir', k, At(k)', scope'.at, locals', live'[k])
    <3>1. CASE k = n + 1
      <4>1. At(k)' = scope'.at
        BY <1>10, <3>1 DEF At
      <4>2. Level(ir', n + 1, scope'.at, scope'.at, locals', names)
        <5>1. Offered(ir', Open(ir', n)) \subseteq Offered(ir', Open(ir', n + 1))
          BY <1>2, OpenMore
        <5> QED
          BY <1>12, <5>1 DEF Level
      <4> QED
        BY <1>10, <3>1, <4>1, <4>2
    <3>2. CASE k = n
      <4>1. At(k)' = Top.before.at
        <5>1. At(k)' = frames'[k].before.at
          BY <1>2, <1>10, <3>2 DEF At
        <5> QED
          BY <1>2, <1>8, <3>2, <5>1
      <4>2. Level(ir', n, Top.before.at, scope'.at, locals', names)
        <5>1. \A x \in names : Top.before.at[x] = scope'.at[x]
          BY <1>11 DEF names, Survivors, Initial
        <5> QED
          BY <1>12, <5>1 DEF Level
      <4> QED
        BY <1>10, <3>2, <4>1, <4>2
    <3>3. CASE k # n + 1 /\ k # n
      <4>1. k \in 1 .. n - 1 /\ k \in 1 .. n
        BY <1>2, <3>3
      <4>2. At(k)' = frames'[k].before.at
        BY <1>10, <3>3 DEF At
      <4> QED
        BY <1>8, <1>10, <1>12, <3>3, <4>1, <4>2
    <3> QED
      BY <3>1, <3>2, <3>3
  <2> QED
    BY <1>10, <2>1 DEF Levels
<1>16. Lasts'
  <2>1. ASSUME NEW j \in 1 .. n + 1, NEW k \in 1 .. n + 1, j <= k, NEW x \in live'[j], scope'.at[x] = Unbound
        PROVE  x \in live'[k]
    <3>1. CASE j \in {n, n + 1}
      BY <1>2, <1>10, <2>1, <3>1
    <3>2. CASE j \notin {n, n + 1}
      <4>1. j \in 1 .. n - 1 /\ j \in 1 .. n
        BY <1>2, <3>2
      <4>2. x \in live[j] /\ scope.at[x] = Unbound
        BY <1>10, <1>11, <2>1, <4>1
      <4>3. x \in names /\ \A l \in 1 .. n : j <= l => x \in live[l]
        BY <1>1, <4>1, <4>2, LastSurvives DEF n, names
      <4>4. k \in 1 .. n - 1 \/ k = n \/ k = n + 1
        BY <1>2
      <4>5. k \in 1 .. n - 1 => k \in 1 .. n
        BY <1>2
      <4> QED
        BY <1>10, <2>1, <4>3, <4>4, <4>5
    <3> QED
      BY <3>1, <3>2
  <2> QED
    BY <1>10, <2>1 DEF Lasts
<1>17. Holds'
  <2>1. ASSUME NEW k \in 1 .. n PROVE Holding(ir', frames'[k], k, scope'.at)
    <3>1. CASE k = n
      <4>1. Offered(ir, Open(ir, n)) \subseteq Offered(ir', Open(ir', n))
        BY <1>3, <1>4, <1>7, <1>11, SameOffered
      <4>2. \A b, v : Defines(ir', b, v) <=> Defines(ir, b, v)
        BY <1>7 DEF Defines, Takes
      <4>3. f.branch # "then"
        BY <1>8
      <4> QED
        BY <1>2, <1>8, <1>11, <3>1, <4>1, <4>2, <4>3 DEF Holding
    <3>2. CASE k # n
      <4> DEFINE g == frames[k]
      <4>1. /\ Holding(ir, g, k, scope.at) /\ g \in KnownFrames(ir) /\ k \in Nat
            /\ k \in 1 .. n - 1 /\ frames'[k] = g
        BY <1>2, <1>3, <1>8, <3>2 DEF Holds, n
      <4> HIDE DEF g
      <4>2. Waits(ir, ir', g, k)
        <5>1. k + 1 \in 1 .. n
          BY <1>2, <4>1
        <5>2. \A m \in Len(ir.ops) + 1 .. Len(ir'.ops) : FALSE
          BY <1>3, <1>7
        <5> QED
          BY <1>7, <5>1, <5>2 DEF Waits
      <4>3. SameOpen(ir, ir', k)
        BY <1>12, <4>1
      <4>4. Holding(ir', g, k, scope'.at)
        BY <1>1, <1>3, <1>4, <1>7, <1>11, <4>1, <4>2, <4>3, HoldingOn
      <4> QED
        BY <4>1, <4>4
    <3> QED
      BY <3>1, <3>2
  <2> QED
    BY <1>8, <2>1 DEF Holds
<1>18. Placed
  <2>1. \A k \in Len(ir.ops) + 1 .. Len(ir'.ops) : FALSE
    BY <1>3, <1>7
  <2> QED
    BY <2>1 DEF Placed
<1> QED
  BY <1>8, <1>10, <1>13, <1>14, <1>15, <1>16, <1>17, <1>18 DEF DomInv

(* What the end of a block has to see to: the region x of the frame, if any *)
(* is, is dropped, and the others go to an operation of the block outside;  *)
(* new operations are there or in the body.                                 *)
Leaves(x, names) ==
    /\ Gains(ir, ir') /\ SameOpen(ir, ir', Len(frames))
    /\ StaysBound(scope.at, scope'.at) /\ locals' = locals
    /\ Level(ir', Len(frames), scope'.at, scope'.at, locals', names)
    /\ \A y \in Outer \cap Live : scope'.at[y] = Unbound /\ y \in Survivors(Top) => y \in names
    /\ x = 0 \/ (Top.s.s = "if" /\ Top.branch = "then" /\ x = Top.other)
    /\ \A b \in Held(Top) : b # x =>
         \E k \in 1 .. Len(ir'.ops) : /\ ir'.ops[k].blk = ir.stack[Len(frames)]
                                      /\ \E j \in DOMAIN ir'.ops[k].regions : ir'.ops[k].regions[j] = b
    /\ \A k \in 1 .. Len(ir.ops) : ir'.ops[k] # ir.ops[k] =>
         Rewires(k) /\ Len(ir'.ops[k].operands) = Len(ir.ops[k].operands)
    /\ \A k \in Len(ir.ops) + 1 .. Len(ir'.ops) :
         \/ Fed(ir', ir.stack[Len(frames)], Open(ir, Len(frames)), k)
         \/ Fed(ir', Top.body, Open(ir, Len(frames)) \cup {Top.body}, k)

(* Nothing is under, or in, the region that is dropped.                     *)
LEMMA DroppedEmpty ==
    ASSUME DomInv, ir.err = "none", frames # <<>>,
           NEW x, x = 0 \/ (Top.s.s = "if" /\ Top.branch = "then" /\ x = Top.other)
    PROVE  /\ \A c : x \notin HangsFrom(c)
           /\ \A k \in 1 .. Len(ir.ops) : ir.ops[k].blk # x
           /\ \A k \in 1 .. Len(frames) : ir.stack[k] # x
           /\ Top.body # x
<1> DEFINE n == Len(frames)
<1>1. /\ n \in Nat \ {0} /\ n \in 1 .. n /\ Top = frames[n] /\ Holding(ir, Top, n, scope.at)
      /\ Nested(ir, frames) /\ ir \in IRs /\ Len(ir.stack) = n + 1 /\ Len(ir.args) \in Nat
      /\ DOMAIN frames = 1 .. n /\ DOMAIN ir.ops = 1 .. Len(ir.ops)
      /\ \A k \in 1 .. Len(ir.ops) : ir.ops[k].blk \in 1 .. Len(ir.args)
  BY TopHeld, DomRunning, PartsType
<1>2. \A k \in 1 .. n + 1 : ir.stack[k] \in 1 .. Len(ir.args)
  BY <1>1, StackRises
<1>3. \A k \in 1 .. n : k \in 1 .. n + 1
  BY <1>1
<1>4. /\ \A k \in 1 .. Len(ir.ops) : ir.ops[k].blk # x
      /\ \A k \in 1 .. n : ir.stack[k] # x
      /\ Top.body # x
  <2>1. Top.body # Top.other /\ Top.body \in 2 .. Len(ir.args)
    BY <1>1 DEF Nested, Held
  <2>2. CASE x = 0
    BY <1>1, <1>2, <1>3, <2>1, <2>2
  <2>3. CASE x # 0
    <3>1. ir.stack[n + 1] = Top.body /\ \A k \in 1 .. Len(ir.ops) : ir.ops[k].blk # x
      BY <1>1, <2>3 DEF Holding
    <3>2. \A k \in 1 .. n + 1 : ir.stack[k] # frames[n].other
      BY <1>1, <3>1, OtherWaits
    <3> QED
      BY <1>1, <1>3, <2>1, <2>3, <3>1, <3>2
  <2> QED
    BY <2>2, <2>3
<1> HIDE DEF n
<1>5. \A c : x \notin HangsFrom(c)
  BY <1>1, <1>4 DEF HangsFrom
<1> QED
  BY <1>4, <1>5 DEF n

(* A step that closes a block.                                              *)
LEMMA LeaveDom ==
    ASSUME DomInv, EInv', UseInv', ir.err = "none", frames # <<>>, frames' = Up,
           NEW names \in SUBSET Names, live' = Pop(names),
           NEW x, ir'.err = "none" => Leaves(x, names)
    PROVE  DomInv'
<1> DEFINE n == Len(frames)
<1>2. /\ n \in Nat \ {0} /\ n \in 1 .. n /\ Top = frames[n] /\ Top \in Frames
      /\ Len(live) = n + 1 /\ Outer \in SUBSET Names
  BY TopHeld
<1>3. /\ Inv /\ TypeOK /\ ir \in IRs /\ Nested(ir, frames) /\ Once(ir)
      /\ frames \in Seq(Frames) /\ ir.stack \in Seq(Blocks)
      /\ Len(ir.stack) = n + 1 /\ Len(ir.args) \in Nat /\ Len(ir.ops) \in Nat
      /\ \A k \in 1 .. Len(ir.ops) : ir.ops[k].blk \in 1 .. Len(ir.args)
      /\ \A k \in 1 .. n : frames[k] \in KnownFrames(ir)
      /\ Takes(ir, 1, 0) /\ Rooted /\ Levels /\ Lasts /\ Holds
  BY DomRunning
<1>4. Inv' /\ TypeOK' /\ ir' \in IRs /\ Once(ir')
  BY DEF EInv, Inv, Sound, TypeOK
<1>5. Len(frames') = n - 1 /\ \A k \in 1 .. n - 1 : frames'[k] = frames[k]
  BY <1>2, <1>3, FrontType DEF Up
<1>6. /\ live' \in Seq(SUBSET Names) /\ Len(live') = n
      /\ \A k \in 1 .. n - 1 : live'[k] = live[k]
      /\ live'[n] = names
  BY PopIs
<1> HIDE DEF n
<1>7. CASE ir'.err # "none"
  BY <1>2, <1>5, <1>6, <1>7 DEF DomInv
<1>8. ASSUME ir'.err = "none" PROVE Takes(ir', 1, 0) /\ Rooted' /\ Levels' /\ Lasts' /\ Holds'
  <2> DEFINE h == ir.stack[n]
  <2>1. /\ Gains(ir, ir') /\ SameOpen(ir, ir', n)
        /\ StaysBound(scope.at, scope'.at) /\ locals' = locals
        /\ Level(ir', n, scope'.at, scope'.at, locals', names)
        /\ \A y \in Outer \cap Live : scope'.at[y] = Unbound /\ y \in Survivors(Top) => y \in names
        /\ x = 0 \/ (Top.s.s = "if" /\ Top.branch = "then" /\ x = Top.other)
        /\ \A b \in Held(Top) : b # x =>
             \E k \in 1 .. Len(ir'.ops) : /\ ir'.ops[k].blk = h
                                          /\ \E j \in DOMAIN ir'.ops[k].regions : ir'.ops[k].regions[j] = b
        /\ \A k \in 1 .. Len(ir.ops) : ir'.ops[k] # ir.ops[k] =>
             Rewires(k) /\ Len(ir'.ops[k].operands) = Len(ir.ops[k].operands)
        /\ \A k \in Len(ir.ops) + 1 .. Len(ir'.ops) :
             \/ Fed(ir', h, Open(ir, n), k)
             \/ Fed(ir', Top.body, Open(ir, n) \cup {Top.body}, k)
    BY <1>8 DEF Leaves, n
  <2>2. /\ \A c : x \notin HangsFrom(c)
        /\ \A k \in 1 .. Len(ir.ops) : ir.ops[k].blk # x
        /\ \A k \in 1 .. n : ir.stack[k] # x
        /\ Top.body # x
    BY <2>1, DroppedEmpty DEF n
  <2>3. \A k \in 1 .. n - 1 : /\ SameOpen(ir, ir', k)
                              /\ Level(ir', k, frames[k].before.at, scope'.at, locals', live[k])
    BY <1>4, <2>1, OuterLevels DEF n
  <2>4. /\ n \in 1 .. Len(ir.stack) /\ h \in 1 .. Len(ir.args) /\ Open(ir, n) \subseteq Above(h) /\ h # x
        /\ Top.body \in 1 .. Len(ir.args) /\ Open(ir, n) \subseteq Above(Top.body)
    <3>1. n \in 1 .. Len(ir.stack)
      BY <1>2, <1>3
    <3>2. Top.body \in Held(Top)
      BY DEF Held
    <3> QED
      BY <1>2, <1>3, <2>2, <3>1, <3>2, OpenAbove DEF n
  <2>5. Takes(ir', 1, 0)
    BY <1>3, <1>4, <2>1, DefinesStays
  <2>6. Rooted'
    <3>1. ASSUME NEW c, c # x, c # 0 PROVE HangsFrom(c) \subseteq HangsFrom(c)'
      <4>1. ASSUME NEW m \in 1 .. n, c \in {frames[m].body, frames[m].other}, c # 0
            PROVE  \/ \E l \in 1 .. Len(frames') : /\ c \in {frames'[l].body, frames'[l].other}
                                                   /\ ir'.stack[l] = ir.stack[m]
                   \/ \E k \in 1 .. Len(ir'.ops) : /\ ir'.ops[k].blk = ir.stack[m]
                                                   /\ \E j \in DOMAIN ir'.ops[k].regions : ir'.ops[k].regions[j] = c
        <5>1. CASE m = n
          <6>1. c \in Held(Top)
            BY <1>2, <4>1, <5>1 DEF Held
          <6> QED
            BY <2>1, <3>1, <5>1, <6>1
        <5>2. CASE m # n
          <6>1. m \in 1 .. n - 1
            BY <1>2, <5>2
          <6>2. ir'.stack[m] = ir.stack[m] /\ frames'[m] = frames[m] /\ m \in 1 .. Len(frames')
            BY <1>5, <2>1, <4>1, <6>1 DEF SameOpen
          <6> QED
            BY <4>1, <6>2
        <5> QED
          BY <5>1, <5>2
      <4>2. \A m \in 1 .. Len(frames) : c \in {frames[m].body, frames[m].other} =>
              \/ \E l \in 1 .. Len(frames') : /\ c \in {frames'[l].body, frames'[l].other}
                                              /\ ir'.stack[l] = ir.stack[m]
              \/ \E k \in 1 .. Len(ir'.ops) : /\ ir'.ops[k].blk = ir.stack[m]
                                              /\ \E j \in DOMAIN ir'.ops[k].regions : ir'.ops[k].regions[j] = c
        BY <3>1, <4>1 DEF n
      <4> QED
        BY <1>3, <1>4, <2>1, <4>2, HangsStays
    <3>2. \A c \in 1 .. Len(ir.args) : c # x => Above(c) \subseteq Above(c)'
      <4>1. Len(ir.args) <= Len(ir'.args)
        BY <2>1 DEF Gains, Extends
      <4>2. \A c \in 1 .. Len(ir.args) : /\ x \notin HangsFrom(c)
                                         /\ c # x /\ c # 0 => HangsFrom(c) \subseteq HangsFrom(c)'
        BY <2>2, <3>1
      <4>3. \A c \in 1 .. Len(ir.args) : /\ x \notin HangsFrom(c)
                                         /\ c # x => HangsFrom(c) \subseteq HangsFrom(c)'
        <5>1. \A c \in 1 .. Len(ir.args) : c # 0
          BY <1>3
        <5> HIDE DEF HangsFrom
        <5> QED
          BY <4>2, <5>1
      <4> HIDE DEF HangsFrom, Above
      <4> QED
        BY <1>3, <1>4, <1>8, <4>1, <4>3, AboveStays
    <3>3. \A k \in 1 .. Len(ir.ops) :
            /\ ir.ops[k].blk \in 1 .. Len(ir.args) /\ ir.ops[k].blk # x
            /\ ir'.ops[k] # ir.ops[k] => /\ Rewires(k) /\ Top.body \in 1 .. Len(ir.args)
                                          /\ Len(ir'.ops[k].operands) = Len(ir.ops[k].operands)
      BY <1>3, <2>1, <2>2, <2>4
    <3>4. ASSUME NEW k \in Len(ir.ops) + 1 .. Len(ir'.ops), NEW c \in 1 .. Len(ir'.args), ir'.ops[k].blk = c
          PROVE  \E S : S \subseteq Above(c)' /\ Fed(ir', c, S, k)
      <4>1. CASE Fed(ir', h, Open(ir, n), k)
        <5>1. c = h
          BY <3>4, <4>1 DEF Fed
        <5>2. Open(ir, n) \subseteq Above(c)'
          BY <2>4, <3>2, <5>1
        <5> QED
          BY <4>1, <5>1, <5>2
      <4>2. CASE Fed(ir', Top.body, Open(ir, n) \cup {Top.body}, k)
        <5>1. c = Top.body
          BY <3>4, <4>2 DEF Fed
        <5>2. c \in Above(c)'
          BY <1>4, <1>8, AbovePartsNext
        <5>3. Open(ir, n) \cup {Top.body} \subseteq Above(c)'
          BY <2>2, <2>4, <3>2, <5>1, <5>2
        <5> QED
          BY <4>2, <5>1, <5>3
      <4> QED
        BY <2>1, <4>1, <4>2
    <3> HIDE DEF Rewires, Above, Fed, Gains, Rooted
    <3> QED
      BY <1>3, <1>4, <2>1, <3>2, <3>3, <3>4, RootedStep
  <2>7. Levels'
    <3>1. ASSUME NEW k \in 1 .. n PROVE Level(ir', k, At(k)', scope'.at, locals', live'[k])
      <4>1. CASE k = n
        <5>1. At(k)' = scope'.at
          BY <1>6, <4>1 DEF At
        <5> QED
          BY <1>6, <2>1, <4>1, <5>1
      <4>2. CASE k # n
        <5>1. k \in 1 .. n - 1
          BY <1>2, <4>2
        <5>2. At(k)' = frames'[k].before.at
          BY <1>6, <4>2 DEF At
        <5> QED
          BY <1>5, <1>6, <2>3, <5>1, <5>2
      <4> QED
        BY <4>1, <4>2
    <3> QED
      BY <1>6, <3>1 DEF Levels
  <2>8. Lasts'
    <3>1. ASSUME NEW j \in 1 .. n, NEW k \in 1 .. n, j <= k, NEW y \in live'[j], scope'.at[y] = Unbound
          PROVE  y \in live'[k]
      <4>1. CASE j = n
        BY <1>2, <3>1, <4>1
      <4>2. CASE j # n
        <5>1. j \in 1 .. n - 1
          BY <1>2, <4>2
        <5>2. y \in live[j] /\ y \in Names
          <6>1. j \in 1 .. Len(live)
            BY <1>2, <5>1
          <6> QED
            BY <1>6, <3>1, <5>1, <6>1, DomRunning
        <5>3. scope.at[y] = Unbound
          BY <2>1, <3>1, <5>2 DEF StaysBound
        <5>4. /\ y \in Live \cap Outer /\ y \in Survivors(Top)
              /\ \A l \in 1 .. n : j <= l => y \in live[l]
          BY <5>2, <5>3, LastSurvives DEF n
        <5>5. k \in 1 .. n - 1 \/ k = n
          BY <1>2
        <5> QED
          BY <1>6, <2>1, <3>1, <5>4, <5>5
      <4> QED
        BY <4>1, <4>2
    <3> QED
      BY <1>6, <3>1 DEF Lasts
  <2>9. Holds'
    <3>1. ASSUME NEW k \in 1 .. n - 1 PROVE Holding(ir', frames'[k], k, scope'.at)
      <4> DEFINE g == frames[k]
      <4>1. /\ Holding(ir, g, k, scope.at) /\ g \in KnownFrames(ir) /\ k \in Nat
            /\ k \in 1 .. n /\ frames'[k] = g /\ k < n
        <5>1. k \in 1 .. n /\ k \in Nat /\ k < n
          BY <1>2
        <5> QED
          BY <1>3, <1>5, <5>1 DEF Holds, n
      <4>2. ASSUME g.s.s = "if" /\ g.branch = "then", NEW m \in Len(ir.ops) + 1 .. Len(ir'.ops)
            PROVE  ir'.ops[m].blk # g.other
        <5>1. ir'.ops[m].blk = h \/ ir'.ops[m].blk = Top.body
          BY <2>1 DEF Fed
        <5>2. h # g.other
          <6>1. ir.stack[k + 1] = g.body
            BY <4>1, <4>2 DEF Holding
          <6> QED
            BY <1>3, <2>4, <4>1, <6>1, OtherWaits DEF n
        <5>3. Top.body # g.other
          <6>1. Top.body \in Held(frames[n])
            BY <1>2 DEF Held
          <6>2. g.other # 0 => g.other \in Held(frames[k])
            BY DEF Held
          <6> HIDE DEF g
          <6>3. g.other # 0 => g.other < Top.body
            BY <1>2, <1>3, <4>1, <6>1, <6>2 DEF Nested, n
          <6> QED
            BY <2>4, <6>3
        <5> QED
          BY <5>1, <5>2, <5>3
      <4> HIDE DEF g
      <4>3. Waits(ir, ir', g, k)
        <5>1. k + 1 \in 1 .. n
          BY <1>2, <4>1
        <5>2. ir'.stack[k + 1] = ir.stack[k + 1]
          BY <2>1, <5>1 DEF SameOpen
        <5> QED
          BY <4>2, <5>2 DEF Waits
      <4>4. SameOpen(ir, ir', k)
        BY <2>3
      <4>5. Holding(ir', g, k, scope'.at)
        BY <1>3, <1>4, <2>1, <4>1, <4>3, <4>4, HoldingOn
      <4> QED
        BY <4>1, <4>5
    <3> QED
      BY <1>5, <3>1 DEF Holds
  <2> QED
    BY <2>5, <2>6, <2>7, <2>8, <2>9
<1> QED
  BY <1>2, <1>5, <1>6, <1>7, <1>8 DEF DomInv

(* The current block once the innermost one is popped.                      *)
LEMMA PoppedHere ==
    ASSUME DomInv, ir.err = "none", frames # <<>>
    PROVE  /\ PopRegion(ir) \in IRs /\ PopRegion(ir).stack # <<>>
           /\ PopRegion(ir) \in Flows(ir, ir.stack[Len(frames)], Open(ir, Len(frames)))
           /\ PopRegion(ir).ops = ir.ops /\ PopRegion(ir).args = ir.args /\ PopRegion(ir).err = "none"
           /\ Block(PopRegion(ir)) = ir.stack[Len(frames)]
           /\ ir.stack[Len(frames)] \in Open(ir, Len(frames))
           /\ ir.stack[Len(frames)] \in Blocks /\ ir.stack[Len(frames)] \in 1 .. Len(ir.args)
           /\ SameOpen(ir, PopRegion(ir), Len(frames))
<1> DEFINE n == Len(frames)
           popped == PopRegion(ir)
<1>1. /\ n \in Nat \ {0} /\ ir \in IRs /\ ir.stack \in Seq(Blocks) /\ ir.stack # <<>> /\ Len(ir.stack) = n + 1
      /\ Nested(ir, frames) /\ Len(ir.args) \in Nat
  BY TopHeld, DomRunning
<1>2. /\ popped \in IRs /\ popped.ops = ir.ops /\ popped.args = ir.args /\ popped.err = ir.err
      /\ popped \in Flows(ir, ir.stack[n], Open(ir, n))
      /\ popped.stack = SubSeq(ir.stack, 1, Len(ir.stack) - 1)
  BY <1>1, PopFlows
<1> HIDE DEF popped, n
<1>3. /\ popped.stack \in Seq(Blocks) /\ Len(popped.stack) = n
      /\ \A k \in 1 .. n : popped.stack[k] = ir.stack[k]
  <2>1. Len(ir.stack) - 1 = n
    BY <1>1
  <2> QED
    BY <1>1, <1>2, <2>1, FrontType
<1>4. n \in 1 .. n /\ popped.stack # <<>> /\ n \in 1 .. Len(ir.stack)
  BY <1>1, <1>3
<1>5. ir.stack[n] \in Open(ir, n) /\ Block(popped) = ir.stack[n] /\ ir.stack[n] \in 1 .. Len(ir.args)
  BY <1>1, <1>3, <1>4, StackRises DEF Open, Block, n
<1>6. ir.stack[n] \in Blocks /\ SameOpen(ir, popped, n)
  BY <1>1, <1>3, <1>5 DEF Blocks, SameOpen
<1> QED
  BY <1>2, <1>4, <1>5, <1>6 DEF popped, n

(* An emitting method that does not raise adds an operation with its        *)
(* regions.                                                                 *)
LEMMA EmitRegions ==
    ASSUME NEW r \in IRs, r.stack # <<>>, NEW name \in OpNames, NEW objs \in Seq(Objs),
           NEW nres \in Nat, NEW regions \in Seq(Blocks), NEW attr \in Int,
           Emit(r, name, objs, nres, regions, attr).err = "none"
    PROVE  LET e == Emit(r, name, objs, nres, regions, attr)
           IN  \E k \in 1 .. Len(e.ops) : e.ops[k].blk = Block(r) /\ e.ops[k].regions = regions
<1> DEFINE q == Ensure(r, objs)
           b == Block(r)
           ids == EnsureIds(r, objs)
           e == AppendOp(q, b, name, ids, nres, regions, attr)
           op == e.ops[Len(q.ops) + 1]
<1>1. /\ q \in IRs /\ b \in Blocks /\ ids \in Seq(Ids) /\ Len(ids) = Len(objs)
  BY EnsureType, BlockType, EnsureIdsType DEF Emitted
<1>2. Len(q.ops) \in Nat
  BY <1>1, PartsType
<1>3. e = Emit(r, name, objs, nres, regions, attr)
  BY DEF Emit
<1> HIDE DEF q, b, ids
<1>4. /\ e \in IRs /\ e.stack = q.stack /\ e.args = q.args /\ (Once(q) => Once(e))
      /\ \/ e.ops = q.ops /\ e.err # "none"
         \/ /\ e.err = "none" /\ Len(e.ops) = Len(q.ops) + 1
            /\ \A k \in 1 .. Len(q.ops) : e.ops[k] = q.ops[k]
            /\ op.name = name /\ op.blk = b /\ op.operands = ids
            /\ op.regions = regions /\ Len(op.results) = nres
  BY <1>1, AppendOpParts
<1> HIDE DEF e
<1>5. Len(q.ops) + 1 \in 1 .. Len(e.ops) /\ op.blk = b /\ op.regions = regions
  BY <1>2, <1>3, <1>4
<1> QED
  BY <1>1, <1>3, <1>5 DEF b

(* The end of an if, a while or a kernel.                                   *)
LEMMA CloseDom ==
    ASSUME DomInv, EInv', UseInv', ir.err = "none", frames # <<>>, frames' = Up,
           UNCHANGED <<scope, locals>>, live' = Pop(Survivors(Top)),
           NEW name \in OpNames, NEW objs \in Seq(Objs),
           \A j \in DOMAIN objs : objs[j] \in Offered(ir, Open(ir, Len(frames))),
           NEW regions \in Seq(Blocks), NEW attr \in Int,
           NEW zero, zero = 0, ir' = Emit(PopRegion(ir), name, objs, zero, regions, attr),
           NEW x, x = 0 \/ (Top.s.s = "if" /\ Top.branch = "then" /\ x = Top.other),
           \A b \in Held(Top) : b # x => \E j \in DOMAIN regions : regions[j] = b
    PROVE  DomInv' /\ Placed
<1> DEFINE n == Len(frames)
           popped == PopRegion(ir)
           h == ir.stack[n]
           S == Open(ir, n)
           names == Survivors(Top)
<1>1. /\ popped \in IRs /\ popped.stack # <<>> /\ popped \in Flows(ir, h, S)
      /\ popped.ops = ir.ops /\ popped.args = ir.args /\ popped.err = "none"
      /\ Block(popped) = h /\ h \in S /\ h \in Blocks /\ h \in 1 .. Len(ir.args)
      /\ SameOpen(ir, popped, n)
  BY PoppedHere
<1>2. /\ names \in SUBSET Names /\ n \in Nat \ {0} /\ ir \in IRs
  BY TopHeld, DomRunning
<1> HIDE DEF popped, n, h, S
<1>3. objs \in Seq(Offered(popped, S))
  <2>1. Offered(ir, S) \subseteq Offered(popped, S)
    BY <1>1, <1>2, OffersFlow
  <2>2. \A j \in 1 .. Len(objs) : objs[j] \in Offered(popped, S)
    BY <2>1, LenProperties DEF S, n
  <2>3. objs \in [1 .. Len(objs) -> Objs] /\ Len(objs) \in Nat
    BY LenProperties
  <2>4. objs \in [1 .. Len(objs) -> Offered(popped, S)]
    BY <2>2, <2>3
  <2> QED
    BY <2>3, <2>4, FunctionIsSeq
<1>4. zero \in Nat /\ ir' = Emit(popped, name, objs, zero, regions, attr)
  BY DEF popped
<1>5. ir' \in Flows(popped, h, S) /\ ir' \in IRs
  <2>1. ir' \in Flows(popped, h, S)
    BY <1>1, <1>3, <1>4, EmitFlows
  <2> QED
    BY <2>1 DEF Flows
<1>6. ir' \in Flows(ir, h, S)
  BY <1>1, <1>2, <1>5, FlowsTwice
<1>7. SameOpen(ir, ir', n)
  <2>1. ir'.stack = popped.stack
    BY <1>1, <1>4, EmitType DEF Emitted
  <2> QED
    BY <1>1, <2>1 DEF SameOpen
<1>8. Gains(ir, ir') /\ StaysBound(scope.at, scope'.at)
  BY <1>6 DEF Flows, StaysBound
<1>9. Level(ir', n, scope'.at, scope'.at, locals', names)
  BY <1>5, <1>7, <1>8, OuterLevels DEF n
<1>10. ASSUME ir'.err = "none" PROVE Leaves(x, names)
  <2>1. ASSUME NEW b \in Held(Top), b # x
        PROVE  \E k \in 1 .. Len(ir'.ops) : /\ ir'.ops[k].blk = h
                                            /\ \E j \in DOMAIN ir'.ops[k].regions : ir'.ops[k].regions[j] = b
    <3>1. \E k \in 1 .. Len(ir'.ops) : ir'.ops[k].blk = Block(popped) /\ ir'.ops[k].regions = regions
      BY <1>1, <1>4, <1>10, EmitRegions
    <3> QED
      BY <1>1, <2>1, <3>1
  <2>2. \A k \in 1 .. Len(ir.ops) : ir'.ops[k] = ir.ops[k]
    BY <1>6 DEF Flows
  <2>3. \A k \in Len(ir.ops) + 1 .. Len(ir'.ops) : Fed(ir', h, S, k)
    BY <1>6 DEF Flows
  <2> HIDE DEF Gains, Rewires, Level, names
  <2> QED
    BY <1>7, <1>8, <1>9, <2>1, <2>2, <2>3 DEF Leaves, n, h, S, names
<1>11. Placed
  <2>1. Len(ir'.stack) = n
    <3>1. ir'.stack = popped.stack
      BY <1>1, <1>4, EmitType DEF Emitted
    <3>2. ir.stack \in Seq(Blocks) /\ Len(ir.stack) = n + 1
      BY TopHeld, DomRunning DEF n
    <3>3. popped.stack = SubSeq(ir.stack, 1, Len(ir.stack) - 1)
      BY <1>2, PopFlows, TopHeld, DomRunning DEF popped
    <3> QED
      BY <1>2, <3>1, <3>2, <3>3, FrontType
  <2>2. n \in 1 .. Len(ir'.stack) /\ ir'.stack[n] = h
    BY <1>2, <1>7, <2>1 DEF SameOpen, h
  <2>3. \A k \in Len(ir.ops) + 1 .. Len(ir'.ops) : ir'.ops[k].blk = h
    BY <1>6 DEF Flows, Fed
  <2> QED
    BY <2>2, <2>3 DEF Placed, Growing
<1> QED
  BY <1>2, <1>10, <1>11, LeaveDom

(* ctx_if after its branches, ...                                           *)
LEMMA ExitIfDom ==
    ASSUME DomInv, EInv', UseInv', ExitIf, live' = Pop(Survivors(Top))
    PROVE  DomInv' /\ Placed
<1> DEFINE regions == IfRegions(Top)
           kind == "if"
           zero == 0
           x == IF Top.branch = "else" THEN 0 ELSE Top.other
<1>1. /\ ir.err = "none" /\ frames # <<>> /\ frames' = Up /\ Top.s.s = "if"
      /\ ir' = Emit(PopRegion(ir), kind, Top.objs, zero, regions, zero)
      /\ UNCHANGED <<scope, locals>>
  BY DEF ExitIf
<1>2. /\ Top \in Frames /\ Top.body \in Blocks /\ Top.other \in Blocks /\ Top.objs \in Seq(Objs)
      /\ Holding(ir, Top, Len(frames), scope.at)
  BY <1>1, TopHeld DEF Frames, Blocks
<1>3. kind \in OpNames /\ zero \in Nat /\ zero \in Int
  BY DEF OpNames
<1>4. regions \in Seq(Blocks) /\ \A b \in Held(Top) : b # x => \E j \in DOMAIN regions : regions[j] = b
  <2>1. CASE Top.branch = "else"
    <3>1. regions = <<Top.body, Top.other>>
      BY <2>1 DEF IfRegions
    <3> HIDE DEF regions
    <3>2. regions \in Seq(Blocks) /\ 1 \in DOMAIN regions /\ 2 \in DOMAIN regions
          /\ regions[1] = Top.body /\ regions[2] = Top.other
      BY <1>2, <3>1
    <3> QED
      BY <3>2 DEF Held
  <2>2. CASE Top.branch # "else"
    <3>1. regions = <<Top.body>> /\ x = Top.other
      BY <2>2 DEF IfRegions
    <3> HIDE DEF regions, x
    <3>2. regions \in Seq(Blocks) /\ 1 \in DOMAIN regions /\ regions[1] = Top.body
      BY <1>2, <3>1
    <3> QED
      BY <3>1, <3>2 DEF Held
  <2> QED
    BY <2>1, <2>2
<1>5. x = 0 \/ (Top.s.s = "if" /\ Top.branch = "then" /\ x = Top.other)
  BY <1>1, <1>2 DEF Frames
<1>6. \A j \in DOMAIN Top.objs : Top.objs[j] \in Offered(ir, Open(ir, Len(frames)))
  BY <1>2 DEF Holding
<1>7. zero = 0
  OBVIOUS
<1> HIDE DEF regions, kind, zero, x
<1> QED
  BY <1>1, <1>2, <1>3, <1>4, <1>5, <1>6, <1>7, CloseDom

(* ctx_while, ...                                                           *)
LEMMA ExitWhileDom ==
    ASSUME DomInv, EInv', UseInv', ExitWhile, live' = Pop(Survivors(Top))
    PROVE  DomInv' /\ Placed
<1> DEFINE regions == <<Top.other, Top.body>>
           none == <<>>
           kind == "while"
           zero == 0
<1>1. /\ ir.err = "none" /\ frames # <<>> /\ frames' = Up /\ Top.s.s = "while"
      /\ ir' = Emit(PopRegion(ir), kind, none, zero, regions, zero)
      /\ UNCHANGED <<scope, locals>>
  BY DEF ExitWhile
<1>2. /\ Top \in Frames /\ Top.body \in Blocks /\ Top.other \in Blocks
  BY <1>1, TopHeld DEF Frames, Blocks
<1>3. /\ kind \in OpNames /\ zero \in Nat /\ zero \in Int /\ none \in Seq(Objs)
      /\ \A j \in DOMAIN none : none[j] \in Offered(ir, Open(ir, Len(frames)))
  BY EmptySeq DEF OpNames
<1>4. /\ regions \in Seq(Blocks) /\ 1 \in DOMAIN regions /\ 2 \in DOMAIN regions
      /\ regions[1] = Top.other /\ regions[2] = Top.body
  BY <1>2
<1>5. zero = 0
  OBVIOUS
<1> HIDE DEF regions, kind, zero, none
<1>6. \A b \in Held(Top) : b # zero => \E j \in DOMAIN regions : regions[j] = b
  BY <1>4 DEF Held
<1> QED
  BY <1>1, <1>2, <1>3, <1>4, <1>5, <1>6, CloseDom

(* and ctx_kernel.                                                          *)
LEMMA ExitKernelDom ==
    ASSUME DomInv, EInv', UseInv', ExitKernel, live' = Pop(Survivors(Top))
    PROVE  DomInv' /\ Placed
<1> DEFINE regions == <<Top.body>>
           kind == "kernel"
           zero == 0
           one == 1
<1>1. /\ ir.err = "none" /\ frames # <<>> /\ frames' = Up /\ Top.s.s = "kernel"
      /\ ir' = Emit(PopRegion(ir), kind, Top.objs, zero, regions, one)
      /\ UNCHANGED <<scope, locals>>
  BY DEF ExitKernel
<1>2. /\ Top \in Frames /\ Top.body \in Blocks /\ Top.objs \in Seq(Objs)
      /\ Holding(ir, Top, Len(frames), scope.at)
  BY <1>1, TopHeld DEF Frames, Blocks
<1>3. kind \in OpNames /\ one \in Int /\ zero = 0
  BY DEF OpNames
<1>4. regions \in Seq(Blocks) /\ 1 \in DOMAIN regions /\ regions[1] = Top.body
  BY <1>2
<1>5. Held(Top) = {Top.body}
  <2>1. Top.other = 0
    BY <1>1, <1>2 DEF Holding
  <2> QED
    BY <2>1 DEF Held
<1>6. \A j \in DOMAIN Top.objs : Top.objs[j] \in Offered(ir, Open(ir, Len(frames)))
  BY <1>2 DEF Holding
<1> HIDE DEF regions, kind, zero, one
<1>7. \A b \in Held(Top) : b # zero => \E j \in DOMAIN regions : regions[j] = b
  BY <1>4, <1>5
<1> QED
  BY <1>1, <1>2, <1>3, <1>4, <1>6, <1>7, CloseDom

(***************************************************************************)
(* The end of a loop.                                                       *)
(***************************************************************************)
(* What fed an operation still does.                                        *)
LEMMA FedStays ==
    ASSUME NEW r \in IRs, NEW e \in IRs, Gains(r, e), NEW h, NEW S, NEW k, Fed(r, h, S, k),
           e.ops[k] = r.ops[k]
    PROVE  Fed(e, h, S, k)
<1>1. \A b, v : Reaching(r, b, v, k) => Reaching(e, b, v, k)
  BY DefinesStays
<1> QED
  BY <1>1 DEF Fed

(* Nothing younger than a block is above it.                                *)
LEMMA AboveOlder ==
    ASSUME TypeOK, ir.err = "none"
    PROVE  \A c \in 1 .. Len(ir.args) : \A d \in Above(c) : d <= c
<1> DEFINE M == Len(ir.args)
           G == {m \in 0 .. M : m \in 1 .. M => \A d \in Above(m) : d <= m /\ d \in Nat}
<1>1. M \in Nat
  BY PartsType DEF TypeOK
<1>2. ASSUME NEW m \in 0 .. M, \A k \in 0 .. M : k < m => k \in G PROVE m \in G
  <2> SUFFICES ASSUME m \in 1 .. M, NEW b \in Above(m) PROVE b <= m /\ b \in Nat
    BY DEF G
  <2>1. /\ Above(m) = {m} \cup UNION {Above(d) : d \in {e \in HangsFrom(m) : e < m}}
        /\ HangsFrom(m) \subseteq Blocks
    BY AboveParts
  <2>2. CASE b = m
    BY <1>1, <2>2
  <2>3. CASE b # m
    <3>1. PICK d \in HangsFrom(m) : d < m /\ b \in Above(d)
      BY <2>1, <2>3
    <3>2. d \in 1 .. M /\ d \in 0 .. M
      BY <1>1, <2>1, <3>1 DEF Blocks
    <3>3. b <= d /\ b \in Nat
      BY <1>2, <3>1, <3>2 DEF G
    <3> QED
      BY <1>1, <3>1, <3>2, <3>3
  <2> QED
    BY <2>2, <2>3
<1> HIDE DEF G
<1>3. \A m \in 0 .. M : m \in G
  BY <1>1, <1>2, Ascent
<1>4. \A m \in 1 .. M : m \in 0 .. M
  BY <1>1
<1> QED
  BY <1>3, <1>4 DEF G

(* Every element of C is picked.                                            *)
LEMMA PickOnto ==
    ASSUME NEW S, NEW s \in Seq(S), NEW C \in SUBSET DOMAIN s, NEW j \in C
    PROVE  \E k \in 1 .. Len(Pick(s, C)) : Pick(s, C)[k] = s[j]
<1>1. DOMAIN s = 1 .. Len(s) /\ Len(s) \in Nat
  BY LenProperties
<1>2. IsFiniteSet(C) /\ C \in SUBSET Int
  <2>1. IsFiniteSet(1 .. Len(s)) /\ C \in SUBSET (1 .. Len(s))
    BY <1>1, FS_Interval
  <2> QED
    BY <2>1, FS_Subset
<1> DEFINE k == Rank(C, j)
<1>3. k \in 1 .. Cardinality(C)
  BY <1>2, RankType
<1>4. Nth(C, k) \in C /\ Rank(C, Nth(C, k)) = k
  BY <1>2, <1>3, NthType
<1>5. Nth(C, k) = j
  <2> DEFINE i == Nth(C, k)
  <2>1. i \in Int /\ j \in Int /\ i \in C /\ Rank(C, i) = k
    BY <1>2, <1>4
  <2>2. i < j => Rank(C, i) < Rank(C, j)
    BY <1>2, <2>1, RankGrows
  <2>3. j < i => Rank(C, j) < Rank(C, i)
    BY <1>2, <2>1, RankGrows
  <2>4. k \in Int
    BY <1>3
  <2> HIDE DEF i, k
  <2>5. i = j
    BY <2>1, <2>2, <2>3, <2>4 DEF k
  <2> QED
    BY <2>5 DEF i, k
<1>6. Len(Pick(s, C)) = Cardinality(C) /\ Pick(s, C)[k] = s[Nth(C, k)]
  BY <1>3, PickType
<1> QED
  BY <1>3, <1>5, <1>6

(* What is visible is defined in an open block.                             *)
LEMMA VisibleDefines ==
    ASSUME NEW r \in IRs, NEW o, IsVal(o), Usable(r, o)
    PROVE  \E j \in 1 .. Len(r.stack) : Defines(r, r.stack[j], o.n)
<1>1. /\ DOMAIN r.stack = 1 .. Len(r.stack) /\ DOMAIN r.args = 1 .. Len(r.args)
      /\ DOMAIN r.ops = 1 .. Len(r.ops)
  BY PartsType, LenProperties DEF IRs
<1>2. PICK j \in 1 .. Len(r.stack) : r.stack[j] \in DefinedIn(r, o.n)
  BY <1>1 DEF Usable, Visible
<1>3. Defines(r, r.stack[j], o.n)
  BY <1>1, <1>2 DEF DefinedIn, OpsOf, Defines, Takes
<1> QED
  BY <1>3

(* Under the rules a loop's initial values are offered outside it, and its  *)
(* final values in its body.                                                *)
LEMMA LoopOffers ==
    ASSUME DomInv, ir.err = "none", frames # <<>>, Top.s.s \in LoopKinds, LoopRules(Top)
    PROVE  LET names == Pick(Top.before.order, Carried(ir, Top.before, scope))
               S == Open(ir, Len(frames))
           IN  /\ Held(Top) = {Top.body} /\ ir.stack[Len(frames) + 1] = Top.body
               /\ \A j \in 1 .. Len(names) :
                    /\ Top.before.at[names[j]].n \in Offers(ir, S)
                    /\ scope.at[names[j]].n \in Offers(ir, S \cup {Top.body})
               /\ \A x \in Outer : \/ \E j \in 1 .. Len(names) : names[j] = x
                                   \/ scope.at[x] = Top.before.at[x]
<1> DEFINE C == Carried(ir, Top.before, scope)
           order == Top.before.order
           names == Pick(order, C)
           n == Len(frames)
           S == Open(ir, n)
<1>1. /\ n \in Nat \ {0} /\ n \in 1 .. n /\ Top = frames[n] /\ Top \in Frames
      /\ Holding(ir, Top, n, scope.at) /\ Nested(ir, frames) /\ ir \in IRs /\ scope \in Scopes
      /\ Len(ir.stack) = n + 1
  BY TopHeld, DomRunning
<1>2. Top.before \in Scopes /\ order \in Seq(Names)
  BY <1>1 DEF Frames, Scopes
<1>3. Held(Top) = {Top.body} /\ ir.stack[n + 1] = Top.body
  <2>1. Top.other = 0
    BY <1>1 DEF Holding, LoopKinds
  <2>2. ir.stack[n + 1] \in Held(Top)
    BY <1>1 DEF Nested
  <2> QED
    BY <2>1, <2>2 DEF Held
<1>4. C \in SUBSET DOMAIN order
  BY DEF Carried
<1>5. \A j \in C : /\ IsVal(Top.before.at[order[j]]) /\ IsVal(scope.at[order[j]])
                   /\ order[j] \in CarriedNames(Top)
  BY DEF Carried, CarriedNames
<1>6. /\ Len(names) = Cardinality(C) /\ names \in Seq(Names)
      /\ \A k \in 1 .. Cardinality(C) : Nth(C, k) \in C /\ names[k] = order[Nth(C, k)]
  BY <1>2, <1>4, PickType
<1>7. \A j \in 1 .. Len(names) : /\ names[j] \in Names /\ names[j] \in CarriedNames(Top)
                                 /\ IsVal(Top.before.at[names[j]]) /\ IsVal(scope.at[names[j]])
                                 /\ Top.before.at[names[j]].n \in Ids /\ scope.at[names[j]].n \in Ids
  <2>1. \A j \in 1 .. Len(names) : /\ names[j] \in CarriedNames(Top)
                                   /\ IsVal(Top.before.at[names[j]]) /\ IsVal(scope.at[names[j]])
    BY <1>5, <1>6
  <2>2. \A j \in 1 .. Len(names) : /\ names[j] \in Names
                                   /\ Top.before.at[names[j]].n \in Ids /\ scope.at[names[j]].n \in Ids
    BY <1>1, <1>2, CarriedType
  <2> QED
    BY <2>1, <2>2
<1> HIDE DEF names, C
<1>8. ASSUME NEW x \in Names, x \in CarriedNames(Top), IsVal(Top.before.at[x]), IsVal(scope.at[x])
      PROVE  /\ \E b \in S : Defines(ir, b, Top.before.at[x].n)
             /\ \E b \in S \cup {Top.body} : Defines(ir, b, scope.at[x].n)
  <2>1. Usable(ir, Top.before.at[x]) /\ Usable(ir, scope.at[x])
    BY <1>8 DEF LoopRules, Initial
  <2>2. \A j \in 1 .. n + 1 : ir.stack[j] \in S \/ (j = n + 1 /\ ir.stack[j] = Top.body)
    <3>1. \A j \in 1 .. n + 1 : j \in 1 .. n \/ j = n + 1
      BY <1>1
    <3> QED
      BY <1>3, <3>1 DEF Open
  <2>3. \E j \in 1 .. Len(ir.stack) : Defines(ir, ir.stack[j], Top.before.at[x].n)
    BY <1>1, <1>8, <2>1, VisibleDefines
  <2>4. \E j \in 1 .. Len(ir.stack) : Defines(ir, ir.stack[j], scope.at[x].n)
    BY <1>1, <1>8, <2>1, VisibleDefines
  <2>5. ~Defines(ir, Top.body, Top.before.at[x].n)
    BY <1>1, <1>8 DEF Holding
  <2> QED
    BY <1>1, <2>2, <2>3, <2>4, <2>5
<1>9. \A j \in 1 .. Len(names) : /\ Top.before.at[names[j]].n \in Offers(ir, S)
                                 /\ scope.at[names[j]].n \in Offers(ir, S \cup {Top.body})
  BY <1>7, <1>8 DEF Offers
<1>10. ASSUME NEW x \in Outer
       PROVE  (\E j \in 1 .. Len(names) : names[j] = x) \/ scope.at[x] = Top.before.at[x]
  <2>1. x \in CarriedNames(Top) \/ scope.at[x] = Top.before.at[x]
    BY DEF LoopRules, Initial
  <2>2. ASSUME x \in CarriedNames(Top) PROVE \E j \in 1 .. Len(names) : names[j] = x
    <3>1. PICK i \in C : x = order[i]
      BY <2>2 DEF CarriedNames, C
    <3> QED
      BY <1>2, <1>4, <3>1, PickOnto DEF names
  <2> QED
    BY <2>1, <2>2
<1> QED
  BY <1>3, <1>9, <1>10 DEF names, C

(* Operations stay as they are and fed by flowing on.                       *)
LEMMA FedFlows ==
    ASSUME NEW r \in IRs, NEW h, NEW S, NEW e \in Flows(r, h, S), NEW k \in 1 .. Len(r.ops),
           NEW g, NEW T, Fed(r, g, T, k)
    PROVE  Fed(e, g, T, k) /\ k \in 1 .. Len(e.ops)
<1>1. e \in IRs /\ Gains(r, e) /\ e.ops[k] = r.ops[k]
  BY DEF Flows
<1>2. Fed(e, g, T, k)
  BY <1>1, FedStays
<1>3. k \in 1 .. Len(e.ops)
  <2>1. Len(r.ops) \in Nat /\ Len(e.ops) \in Nat /\ Len(r.ops) <= Len(e.ops)
    BY <1>1, PartsType DEF Gains, Extends
  <2> QED
    BY <2>1
<1> QED
  BY <1>2, <1>3

(* The yield of a loop's body flows from what is offered there.             *)
LEMMA YieldFinalsFlows ==
    ASSUME NEW r \in IRs, NEW S, NEW b \in Blocks, b \in S, NEW finals \in Seq(Offers(r, S))
    PROVE  YieldFinals(r, b, finals) \in Flows(r, b, S) /\ YieldFinals(r, b, finals).stack = r.stack
<1> DEFINE kind == "yield"
           none == <<>>
           zero == 0
           e == AppendOp(r, b, kind, finals, zero, none, zero)
<1>1. kind \in OpNames /\ zero \in Nat /\ zero \in Int /\ none \in Seq(Blocks)
  BY EmptySeq DEF OpNames, Terminators
<1>2. YieldFinals(r, b, finals) \in {r, e}
  BY DEF YieldFinals
<1>3. finals \in Seq(Ids)
  BY DEF Offers
<1> HIDE DEF kind, none, zero
<1>4. e \in Flows(r, b, S)
  BY <1>1, AppendOpFlows
<1>5. e.stack = r.stack
  BY <1>1, <1>3, AppendOpType DEF Emitted
<1> HIDE DEF e
<1> QED
  BY <1>2, <1>4, <1>5, FlowsSelf

(* What rewiring region b may make of r: operations of other blocks stay.   *)
RewiredIn(r, b, e) ==
    /\ e \in IRs /\ Gains(r, e) /\ e.err = r.err /\ e.stack = r.stack /\ e.args = r.args
    /\ Len(e.ops) = Len(r.ops)
    /\ \A k \in 1 .. Len(r.ops) : Len(e.ops[k].operands) = Len(r.ops[k].operands)
    /\ \A k \in 1 .. Len(r.ops) : r.ops[k].blk \notin Subtree(r, b) => e.ops[k] = r.ops[k]

(* So it is after the operands of a loop body are replaced.                 *)
LEMMA RewiringGains ==
    ASSUME NEW r \in IRs, NEW b, NEW olds \in Seq(Ids), NEW news \in Seq(Ids), Len(news) = Len(olds),
           NEW e, e = ReplaceRegionUses(r, b, olds, news)
    PROVE  RewiredIn(r, b, e)
<1>1. /\ e \in IRs /\ e.stack = r.stack /\ e.args = r.args /\ e.err = r.err /\ Len(e.ops) = Len(r.ops)
  BY ReplaceRegionUsesType DEF Emitted
<1>2. \A k \in 1 .. Len(r.ops) : Shaped(r.ops[k], e.ops[k])
  BY ReplaceRegionUsesEdits
<1>3. DOMAIN r.ops = 1 .. Len(r.ops) /\ Len(r.ops) \in Nat /\ Len(r.args) \in Nat
  BY PartsType
<1>4. \A k \in 1 .. Len(r.ops) : r.ops[k].blk \notin Subtree(r, b) => e.ops[k] = r.ops[k]
  BY <1>3 DEF ReplaceRegionUses, IRs
<1>5. Gains(r, e)
  BY <1>1, <1>2, <1>3 DEF Gains, Extends, Shaped
<1>6. \A k \in 1 .. Len(r.ops) : Len(e.ops[k].operands) = Len(r.ops[k].operands)
  BY <1>2 DEF Shaped
<1> QED
  BY <1>1, <1>4, <1>5, <1>6 DEF RewiredIn

(* New arguments flow.                                                      *)
LEMMA NewArgsFlows ==
    ASSUME NEW r \in IRs, NEW b \in 1 .. Len(r.args), NEW n \in Nat, NEW h, NEW S
    PROVE  LET e == NewArgs(r, b, n)
           IN  /\ e \in IRs /\ e \in Flows(r, h, S) /\ e.ops = r.ops /\ e.err = r.err
               /\ e.stack = r.stack /\ Len(e.args) = Len(r.args)
<1> DEFINE e == NewArgs(r, b, n)
           fresh == Fresh(r, n)
<1>1. /\ e \in IRs /\ e.ops = r.ops /\ e.err = r.err /\ e.stack = r.stack /\ Len(e.args) = Len(r.args)
  BY NewArgsType
<1>2. e \in Adds(r, b) /\ e.args[b] = r.args[b] \o fresh
  BY NewArgsAdds
<1>3. \A c \in 1 .. Len(r.args) : c # b => e.args[c] = r.args[c]
  BY <1>2 DEF Adds, Grows
<1>4. fresh \in Seq(Ids) /\ r.args[b] \in Seq(Ids) /\ Len(r.args) \in Nat
  BY FreshType, PartsType, Zenon
<1> HIDE DEF e, fresh
<1>5. \A j \in DOMAIN r.args[b] : j \in DOMAIN e.args[b] /\ e.args[b][j] = r.args[b][j]
  <2> DEFINE old == r.args[b]
             all == old \o fresh
  <2>1. /\ DOMAIN old = 1 .. Len(old) /\ DOMAIN all = 1 .. (Len(old) + Len(fresh))
        /\ Len(old) \in Nat /\ Len(fresh) \in Nat
        /\ \A j \in 1 .. Len(old) : all[j] = old[j]
    BY <1>4, ConcatParts
  <2> HIDE DEF old, all
  <2>2. \A j \in DOMAIN old : j \in DOMAIN all /\ all[j] = old[j]
    BY <2>1
  <2> QED
    BY <1>2, <2>2 DEF old, all
<1>6. Len(r.args) <= Len(e.args)
  BY <1>1, <1>4
<1>7. \A c \in 1 .. Len(r.args) : \A j \in DOMAIN r.args[c] :
        j \in DOMAIN e.args[c] /\ e.args[c][j] = r.args[c][j]
  BY <1>3, <1>5
<1>8. e \in Flows(r, h, S)
  BY <1>1, <1>6, <1>7, FlowsSame
<1> QED
  BY <1>1, <1>8 DEF e

(* A sequence over a set is one over a larger set.                          *)
LEMMA SeqOfMore ==
    ASSUME NEW A, NEW B, A \subseteq B, NEW s \in Seq(A)
    PROVE  s \in Seq(B)
<1>1. s \in [1 .. Len(s) -> A] /\ Len(s) \in Nat
  BY LenProperties
<1>2. s \in [1 .. Len(s) -> B]
  BY <1>1
<1> QED
  BY <1>1, <1>2, FunctionIsSeq

(* So what the end of a loop appends is fed, its consts and the loop from   *)
(* the blocks outside and the yield from the body, and the results of the   *)
(* loop are offered outside.                                                *)
LEMMA LoopFeeds ==
    ASSUME DomInv, EInv', ExitFor, LoopRules(Top), ir'.err = "none"
    PROVE  LET n == Len(Pick(Top.before.order, Carried(ir, Top.before, scope)))
               h == ir.stack[Len(frames)]
               S == Open(ir, Len(frames))
           IN  /\ Gains(ir, ir') /\ SameOpen(ir, ir', Len(frames)) /\ n \in Nat
               /\ \A k \in 1 .. Len(ir.ops) : Len(ir'.ops[k].operands) = Len(ir.ops[k].operands)
               /\ \A k \in Len(ir.ops) + 1 .. Len(ir'.ops) :
                    Fed(ir', h, S, k) \/ Fed(ir', Top.body, S \cup {Top.body}, k)
               /\ \E k \in 1 .. Len(ir'.ops) : ir'.ops[k].blk = h /\ ir'.ops[k].regions = <<Top.body>>
               /\ \A j \in 1 .. n : ir'.next - n + j - 1 \in Offers(ir', S)
<1> DEFINE f == Top
           names == Pick(f.before.order, Carried(ir, f.before, scope))
           n == Len(names)
           d == Len(f.s.dst)
           kind == LoopOp(f.s.s)
           outer == PopRegion(ir)
           bounds == Ensure(outer, f.objs)
           initials == [j \in 1..n |-> f.before.at[names[j]].n]
           finals == [j \in 1..n |-> scope.at[names[j]].n]
           fresh == Fresh(bounds, n)
           opened == NewArgs(bounds, f.body, n)
           rewired == ReplaceRegionUses(opened, f.body, initials, fresh)
           yielded == YieldFinals(rewired, f.body, finals)
           ids == EnsureIds(outer, f.objs)
           operands == ids \o initials
           regions == <<f.body>>
           b == Block(outer)
           closed == AppendOp(yielded, b, kind, operands, n, regions, d)
           raised == Raise(bounds, "parallelCarry")
           body == f.body
           objs == f.objs
           level == Len(frames)
           h == ir.stack[level]
           S == Open(ir, level)
           T == S \cup {body}
<1>1. /\ ir.err = "none" /\ frames # <<>> /\ f.s.s \in LoopKinds
      /\ ir' = CloseLoop(ir, f, names, scope)
  BY DEF ExitFor
<1>2. /\ TypeOK /\ ir \in IRs /\ scope \in Scopes /\ Tree(ir)
      /\ Nested(ir, frames) /\ level \in Nat \ {0} /\ level \in 1 .. level
      /\ f \in Frames /\ f = frames[level] /\ Holding(ir, f, level, scope.at)
      /\ Len(ir.ops) \in Nat /\ Len(ir.args) \in Nat
  BY <1>1, TopHeld, DomRunning, EmitRunning
<1>3. f.s \in Menu /\ body \in Blocks /\ objs \in Seq(Objs) /\ f.before \in Scopes
  BY <1>2 DEF Frames
<1>4. /\ n \in Nat
      /\ \A j \in 1..n : f.before.at[names[j]].n \in Ids /\ scope.at[names[j]].n \in Ids
  BY <1>2, <1>3, CarriedType
<1>5. ir' = IF bounds.err = "none" /\ Refused(f, n) THEN raised ELSE closed
  BY <1>1 DEF CloseLoop
<1>6. /\ Held(f) = {body}
      /\ \A j \in 1 .. n : /\ f.before.at[names[j]].n \in Offers(ir, S)
                           /\ scope.at[names[j]].n \in Offers(ir, T)
  BY <1>1, LoopOffers
<1> HIDE DEF names, n
<1>7. initials \in Seq(Offers(ir, S)) /\ finals \in Seq(Offers(ir, T)) /\ Len(initials) = n /\ Len(finals) = n
  <2>1. initials \in [1..n -> Offers(ir, S)] /\ finals \in [1..n -> Offers(ir, T)]
    BY <1>6
  <2> HIDE DEF initials, finals, S, T
  <2> QED
    BY <1>4, <2>1, FunctionIsSeq
<1>8. /\ kind \in OpNames /\ regions \in Seq(Blocks) /\ d \in Int
  BY <1>1, <1>3, LoopOpType, StatementType, LenProperties
<1>9. body \in 1 .. Len(ir.args) /\ h < body /\ h \in Nat
  <2>1. body \in Held(f)
    BY <1>6
  <2>2. body \in 2 .. Len(ir.args) /\ h < body /\ h \in 1 .. Len(ir.args)
    BY <1>2, <2>1, StackRises DEF Nested
  <2> QED
    BY <1>2, <2>2
<1>10. /\ outer \in IRs /\ outer.stack # <<>> /\ outer \in Flows(ir, h, S) /\ outer.ops = ir.ops
       /\ outer.args = ir.args /\ b = h /\ h \in S /\ h \in Blocks /\ SameOpen(ir, outer, level)
  BY <1>1, PoppedHere
<1>11. outer \in Adds(ir, 0)
  BY <1>1, PoppedStands DEF DomInv
<1>12. \A j \in DOMAIN objs : objs[j] \in Offered(ir, S)
  BY <1>2 DEF Holding
<1> HIDE DEF f, initials, finals, regions, kind, d, outer, b, body, objs, h, S, T, level
<1>13. /\ bounds \in IRs /\ bounds.args = ir.args /\ bounds.stack = outer.stack
       /\ bounds \in Flows(ir, h, S) /\ bounds \in Adds(ir, 0)
       /\ ids \in Seq(Offers(bounds, S))
  <2>1. bounds \in IRs /\ bounds.args = ir.args /\ bounds.stack = outer.stack
    BY <1>3, <1>10, EnsureType DEF Emitted, objs
  <2>2. /\ bounds \in Flows(outer, h, S)
        /\ \A j \in DOMAIN objs : objs[j] \in Offered(outer, S) => ids[j] \in Offers(bounds, S)
    BY <1>3, <1>10, EnsureFlows DEF objs, b
  <2>3. bounds \in Flows(ir, h, S)
    BY <1>2, <1>10, <2>2, FlowsTwice
  <2>4. bounds \in Adds(ir, 0)
    BY <1>1, <1>2, <1>3, <1>10, <1>11, PoppedStands, EnsureAdds, AddsTwice DEF DomInv, outer, objs
  <2>5. \A j \in DOMAIN objs : ids[j] \in Offers(bounds, S)
    BY <1>2, <1>10, <1>12, <2>2, OffersFlow
  <2>6. ids \in Seq(Ids) /\ Len(ids) = Len(objs)
    BY <1>3, <1>10, EnsureIdsType DEF objs
  <2>7. ids \in Seq(Offers(bounds, S))
    <3> DEFINE seq == ids
    <3>1. seq \in Seq(Ids) /\ Len(seq) = Len(objs) /\ \A j \in DOMAIN objs : seq[j] \in Offers(bounds, S)
      BY <2>5, <2>6
    <3> HIDE DEF seq
    <3>2. seq \in [1 .. Len(objs) -> Ids] /\ DOMAIN objs = 1 .. Len(objs) /\ Len(objs) \in Nat
      BY <1>3, <3>1, LenProperties
    <3>3. seq \in [1 .. Len(objs) -> Offers(bounds, S)]
      BY <3>1, <3>2
    <3> QED
      BY <3>2, <3>3, FunctionIsSeq DEF seq
  <2> QED
    BY <2>1, <2>3, <2>4, <2>7
<1> HIDE DEF ids, bounds
<1>14. /\ opened \in IRs /\ opened \in Flows(bounds, h, S) /\ opened.ops = bounds.ops
       /\ opened.err = bounds.err /\ opened.stack = bounds.stack /\ Len(opened.args) = Len(ir.args)
  <2>1. body \in 1 .. Len(bounds.args)
    BY <1>9, <1>13
  <2> QED
    BY <1>4, <1>13, <2>1, NewArgsFlows DEF body
<1>15. fresh \in Seq(Ids) /\ Len(fresh) = n
  BY <1>4, <1>13, FreshType, Zenon
<1> HIDE DEF opened, fresh
<1>16. opened \in Flows(ir, h, S)
  BY <1>2, <1>13, <1>14, FlowsTwice
<1>17. /\ rewired \in IRs /\ Gains(opened, rewired) /\ rewired.err = opened.err
       /\ rewired.stack = opened.stack /\ rewired.args = opened.args /\ Len(rewired.ops) = Len(opened.ops)
       /\ \A k \in 1 .. Len(opened.ops) : Len(rewired.ops[k].operands) = Len(opened.ops[k].operands)
       /\ \A k \in 1 .. Len(opened.ops) :
            opened.ops[k].blk \notin Subtree(opened, body) => rewired.ops[k] = opened.ops[k]
  <2>1. initials \in Seq(Ids) /\ Len(fresh) = Len(initials)
    BY <1>7, <1>15 DEF Offers
  <2>2. rewired = ReplaceRegionUses(opened, body, initials, fresh)
    BY DEF body
  <2> HIDE DEF rewired
  <2>3. opened \in IRs /\ fresh \in Seq(Ids)
    BY <1>14, <1>15
  <2>4. RewiredIn(opened, body, rewired)
    BY <2>1, <2>2, <2>3, RewiringGains
  <2> QED
    BY <2>4 DEF RewiredIn
<1>18. h \notin Subtree(opened, body)
  <2> SUFFICES ASSUME h \in Subtree(opened, body) PROVE FALSE
    OBVIOUS
  <2>1. \A c : Children(opened, c) = Children(ir, c)
    <3>1. \A c : Children(bounds, c) = Children(ir, c)
      BY <1>2, <1>13, ChildrenKept, Zenon
    <3>2. \A c : Children(opened, c) = Children(bounds, c)
      BY <1>14, ChildrenSame
    <3> QED
      BY <3>1, <3>2
  <2>2. body \in Above(h)
    BY <1>1, <1>2, <1>9, <1>14, <2>1, SubtreeAbove
  <2>3. h \in 1 .. Len(ir.args)
    BY <1>2, <1>9, <1>10 DEF Blocks
  <2>4. body <= h
    BY <1>1, <1>2, <2>2, <2>3, AboveOlder
  <2> QED
    BY <1>2, <1>9, <2>4
<1> HIDE DEF rewired
<1>19. /\ Gains(ir, rewired) /\ (rewired.err = "none" => ir.err = "none")
       /\ \A k \in Len(ir.ops) + 1 .. Len(rewired.ops) : Fed(rewired, h, S, k)
       /\ \A k \in 1 .. Len(ir.ops) : Len(rewired.ops[k].operands) = Len(ir.ops[k].operands)
  <2>1. /\ Gains(ir, opened) /\ (opened.err = "none" => ir.err = "none")
        /\ \A k \in Len(ir.ops) + 1 .. Len(opened.ops) : Fed(opened, h, S, k)
        /\ \A k \in 1 .. Len(ir.ops) : opened.ops[k] = ir.ops[k]
    BY <1>16 DEF Flows
  <2>2. Gains(ir, rewired)
    BY <1>2, <1>14, <1>17, <2>1, GainsTwice
  <2>3. /\ Len(opened.ops) \in Nat /\ Len(ir.ops) <= Len(opened.ops)
    BY <1>14, <2>1, PartsType DEF Gains, Extends
  <2>4. ASSUME NEW k \in Len(ir.ops) + 1 .. Len(rewired.ops) PROVE Fed(rewired, h, S, k)
    <3>1. k \in 1 .. Len(opened.ops) /\ k \in Len(ir.ops) + 1 .. Len(opened.ops)
      BY <1>2, <1>17, <2>3, <2>4
    <3>2. Fed(opened, h, S, k)
      BY <2>1, <3>1
    <3>3. rewired.ops[k] = opened.ops[k]
      BY <1>17, <1>18, <3>1, <3>2 DEF Fed
    <3> QED
      BY <1>14, <1>17, <3>2, <3>3, FedStays
  <2>5. ASSUME NEW k \in 1 .. Len(ir.ops) PROVE Len(rewired.ops[k].operands) = Len(ir.ops[k].operands)
    <3>1. k \in 1 .. Len(opened.ops)
      BY <1>2, <2>3
    <3> QED
      BY <1>17, <2>1, <3>1
  <2> QED
    BY <1>17, <2>1, <2>2, <2>4, <2>5
<1>20. yielded \in Flows(rewired, body, T) /\ yielded.stack = rewired.stack
  <2>1. Offers(ir, T) \subseteq Offers(rewired, T)
    BY <1>2, <1>17, <1>19, OffersStay
  <2>2. finals \in Seq(Offers(rewired, T))
    BY <1>7, <2>1, SeqOfMore
  <2>3. body \in T /\ body \in Blocks
    BY <1>3 DEF T, body
  <2> QED
    BY <1>17, <2>2, <2>3, YieldFinalsFlows DEF body
<1> HIDE DEF yielded
<1>21. /\ yielded \in IRs /\ Gains(ir, yielded) /\ (yielded.err = "none" => ir.err = "none")
       /\ \A k \in Len(ir.ops) + 1 .. Len(yielded.ops) : Fed(yielded, h, S, k) \/ Fed(yielded, body, T, k)
       /\ \A k \in 1 .. Len(ir.ops) : Len(yielded.ops[k].operands) = Len(ir.ops[k].operands)
  <2>1. /\ yielded \in IRs /\ Gains(rewired, yielded) /\ (yielded.err = "none" => rewired.err = "none")
        /\ \A k \in Len(rewired.ops) + 1 .. Len(yielded.ops) : Fed(yielded, body, T, k)
        /\ \A k \in 1 .. Len(rewired.ops) : yielded.ops[k] = rewired.ops[k]
    BY <1>20 DEF Flows
  <2>2. Gains(ir, yielded)
    BY <1>2, <1>17, <1>19, <2>1, GainsTwice
  <2>3. Len(rewired.ops) \in Nat /\ Len(ir.ops) <= Len(rewired.ops) /\ Len(yielded.ops) \in Nat
    BY <1>17, <1>19, <2>1, PartsType DEF Gains, Extends
  <2>4. ASSUME NEW k \in Len(ir.ops) + 1 .. Len(yielded.ops)
        PROVE  Fed(yielded, h, S, k) \/ Fed(yielded, body, T, k)
    <3>1. CASE k \in Len(rewired.ops) + 1 .. Len(yielded.ops)
      BY <2>1, <3>1
    <3>2. CASE k \notin Len(rewired.ops) + 1 .. Len(yielded.ops)
      <4>1. k \in 1 .. Len(rewired.ops) /\ k \in Len(ir.ops) + 1 .. Len(rewired.ops)
        BY <1>2, <2>3, <2>4, <3>2
      <4> QED
        BY <1>17, <1>19, <1>20, <4>1, FedFlows
    <3> QED
      BY <3>1, <3>2
  <2>5. \A k \in 1 .. Len(ir.ops) : k \in 1 .. Len(rewired.ops)
    BY <1>2, <2>3
  <2> QED
    BY <1>19, <2>1, <2>2, <2>4, <2>5
<1>22. operands \in Seq(Offers(yielded, S))
  <2>1. Offers(bounds, S) \subseteq Offers(yielded, S)
    <3>1. Offers(bounds, S) \subseteq Offers(opened, S)
      BY <1>13, <1>14, OffersFlow
    <3>2. Offers(opened, S) \subseteq Offers(rewired, S)
      BY <1>14, <1>17, OffersStay
    <3>3. Offers(rewired, S) \subseteq Offers(yielded, S)
      BY <1>17, <1>20, OffersFlow
    <3> QED
      BY <3>1, <3>2, <3>3
  <2>2. Offers(ir, S) \subseteq Offers(yielded, S)
    BY <1>2, <1>21, OffersStay
  <2>3. ids \in Seq(Offers(yielded, S)) /\ initials \in Seq(Offers(yielded, S))
    BY <1>7, <1>13, <2>1, <2>2, SeqOfMore
  <2> QED
    BY <2>3, ConcatProperties
<1>23. raised.err # "none"
  BY <1>13, RaiseType
<1>24. bounds.err # "none" => closed.err # "none"
  <2>1. closed.err = "none" => yielded.err = "none"
    BY DEF closed, AppendOp, Raise
  <2>2. yielded.err = "none" => rewired.err = "none"
    BY <1>20 DEF Flows
  <2> QED
    BY <1>14, <1>17, <2>1, <2>2
<1>25. ir' = closed /\ closed.err = "none"
  BY <1>5, <1>23, <1>24
<1> HIDE DEF operands, raised
<1>26. /\ closed \in Flows(yielded, h, S)
       /\ \A j \in 1..n : \E c \in S : Defines(closed, c, closed.next - n + j - 1)
  <2>1. b \in Blocks /\ b \in S
    BY <1>10
  <2>2. /\ closed \in Flows(yielded, b, S)
        /\ closed.err = "none" => \A j \in 1..n : \E c \in S : Defines(closed, c, closed.next - n + j - 1)
    BY <1>4, <1>8, <1>21, <1>22, <2>1, AppendOpFlows
  <2> QED
    BY <1>10, <1>25, <2>2
<1>27. /\ closed.stack = yielded.stack /\ closed.next = yielded.next + n
       /\ \E k \in 1 .. Len(closed.ops) : closed.ops[k].blk = b /\ closed.ops[k].regions = regions
  <2>1. b \in Blocks /\ operands \in Seq(Ids)
    BY <1>10, <1>22 DEF Offers
  <2>2. closed \in Emitted(yielded) /\ closed.next = yielded.next + n
    BY <1>4, <1>8, <1>21, <1>25, <2>1, AppendOpType
  <2>3. /\ Len(closed.ops) = Len(yielded.ops) + 1
        /\ closed.ops[Len(yielded.ops) + 1].blk = b
        /\ closed.ops[Len(yielded.ops) + 1].regions = regions
    BY <1>4, <1>8, <1>21, <1>25, <2>1, AppendOpParts
  <2>4. Len(yielded.ops) \in Nat
    BY <1>21, PartsType
  <2> HIDE DEF closed
  <2> QED
    BY <2>2, <2>3, <2>4 DEF Emitted
<1> HIDE DEF closed
<1>28. /\ closed \in IRs /\ Gains(ir, closed)
       /\ \A k \in Len(ir.ops) + 1 .. Len(closed.ops) : Fed(closed, h, S, k) \/ Fed(closed, body, T, k)
       /\ \A k \in 1 .. Len(ir.ops) : Len(closed.ops[k].operands) = Len(ir.ops[k].operands)
  <2>1. /\ closed \in IRs /\ Gains(yielded, closed)
        /\ \A k \in Len(yielded.ops) + 1 .. Len(closed.ops) : Fed(closed, h, S, k)
        /\ \A k \in 1 .. Len(yielded.ops) : closed.ops[k] = yielded.ops[k]
    BY <1>26 DEF Flows
  <2>2. Gains(ir, closed)
    BY <1>2, <1>21, <2>1, GainsTwice
  <2>3. Len(yielded.ops) \in Nat /\ Len(ir.ops) <= Len(yielded.ops) /\ Len(closed.ops) \in Nat
    BY <1>21, <2>1, PartsType DEF Gains, Extends
  <2>4. ASSUME NEW k \in Len(ir.ops) + 1 .. Len(closed.ops)
        PROVE  Fed(closed, h, S, k) \/ Fed(closed, body, T, k)
    <3>1. CASE k \in Len(yielded.ops) + 1 .. Len(closed.ops)
      BY <2>1, <3>1
    <3>2. CASE k \notin Len(yielded.ops) + 1 .. Len(closed.ops)
      <4>1. k \in 1 .. Len(yielded.ops) /\ k \in Len(ir.ops) + 1 .. Len(yielded.ops)
        BY <1>2, <2>3, <2>4, <3>2
      <4> QED
        BY <1>21, <1>26, <4>1, FedFlows
    <3> QED
      BY <3>1, <3>2
  <2>5. \A k \in 1 .. Len(ir.ops) : k \in 1 .. Len(yielded.ops)
    BY <1>2, <2>3
  <2> QED
    BY <1>21, <2>1, <2>2, <2>4, <2>5
<1>29. SameOpen(ir, closed, level)
  BY <1>10, <1>13, <1>14, <1>17, <1>20, <1>27 DEF SameOpen
<1>30. \A j \in 1 .. n : closed.next - n + j - 1 \in Offers(closed, S)
  <2>1. yielded.next \in Nat
    BY <1>21, PartsType
  <2>2. \A j \in 1 .. n : closed.next - n + j - 1 \in Ids
    BY <1>4, <1>27, <2>1 DEF Ids
  <2> QED
    BY <1>26, <2>2 DEF Offers
<1> HIDE DEF Gains, SameOpen
<1> QED
  BY <1>4, <1>10, <1>25, <1>27, <1>28, <1>29, <1>30 DEF n, names, f, h, S, T, body, level, regions

(* The end of a loop that keeps the rules: what is live outside is carried, *)
(* and a result of the loop from here on, or stands for what it stood for.  *)
LEMMA ExitForDom ==
    ASSUME DomInv, EInv', UseInv', ExitFor, LoopRules(Top), live' = Pop(Outer)
    PROVE  DomInv'
<1> DEFINE names == Pick(Top.before.order, Carried(ir, Top.before, scope))
           n == Len(names)
           h == ir.stack[Len(frames)]
           S == Open(ir, Len(frames))
           vals == [j \in DOMAIN names |-> Val(ir'.next - n + j - 1)]
<1>1. /\ ir.err = "none" /\ frames # <<>> /\ frames' = Up /\ Top.s.s \in LoopKinds /\ locals' = locals
      /\ ir'.err = "none" => scope' = BindAll(scope, names, vals)
  BY DEF ExitFor, Rebound
<1>2. /\ Outer \in SUBSET Names /\ Level(ir, Len(frames), Top.before.at, scope.at, locals, Outer)
      /\ Top \in Frames /\ ir \in IRs /\ scope \in Scopes
  BY <1>1, TopHeld, DomRunning
<1>3. ir' \in IRs
  BY DEF EInv, Inv, TypeOK
<1>4. Held(Top) = {Top.body} /\ \A x \in Outer : \/ \E j \in 1 .. n : names[j] = x
                                                 \/ scope.at[x] = Top.before.at[x]
  BY <1>1, LoopOffers
<1>5. DOMAIN names = 1 .. n
  BY <1>2, CarriedType DEF Frames
<1>6. \A k \in 1 .. Len(ir.ops) : ir'.ops[k] # ir.ops[k] => Rewires(k)
  BY ExitForRewires DEF DomInv
<1>7. ASSUME ir'.err = "none" PROVE Leaves(0, Outer)
  <2>1. /\ Gains(ir, ir') /\ SameOpen(ir, ir', Len(frames)) /\ n \in Nat
        /\ \A k \in 1 .. Len(ir.ops) : Len(ir'.ops[k].operands) = Len(ir.ops[k].operands)
        /\ \A k \in Len(ir.ops) + 1 .. Len(ir'.ops) :
             Fed(ir', h, S, k) \/ Fed(ir', Top.body, S \cup {Top.body}, k)
        /\ \E k \in 1 .. Len(ir'.ops) : ir'.ops[k].blk = h /\ ir'.ops[k].regions = <<Top.body>>
        /\ \A j \in 1 .. n : ir'.next - n + j - 1 \in Offers(ir', S)
    BY <1>7, LoopFeeds
  <2> HIDE DEF Gains, names, n
  <2>2. \A j \in 1 .. n : vals[j] \in Offered(ir', S) /\ vals[j] # Unbound
    <3> TAKE j \in 1 .. n
    <3>1. vals[j] = Val(ir'.next - n + j - 1)
      BY <1>5
    <3> DEFINE v == ir'.next - n + j - 1
    <3>2. v \in Offers(ir', S) /\ vals[j] = Val(v)
      BY <2>1, <3>1
    <3> HIDE DEF v, vals
    <3>3. v \in Ids
      BY <3>2 DEF Offers
    <3>4. Val(v) \in Objs /\ Val(v).n = v /\ Val(v) # Unbound
      BY <3>3, ValType DEF Val, Unbound
    <3> QED
      BY <3>2, <3>4 DEF Offered
  <2> HIDE DEF vals
  <2>3. scope' = BindAll(scope, names, vals)
    BY <1>1, <1>7
  <2>4. \A x \in Names : \/ /\ \A j \in 1 .. n : names[j] # x
                            /\ scope'.at[x] = scope.at[x]
                         \/ \E j \in 1 .. n : names[j] = x /\ scope'.at[x] = vals[j]
    <3> TAKE x \in Names
    <3>1. /\ (\A j \in DOMAIN names : names[j] # x) => BindAll(scope, names, vals).at[x] = scope.at[x]
          /\ (\E j \in DOMAIN names : names[j] = x) =>
               \E j \in DOMAIN names : names[j] = x /\ BindAll(scope, names, vals).at[x] = vals[j]
      BY BindAllAt
    <3> QED
      BY <1>5, <2>3, <3>1
  <2>5. StaysBound(scope.at, scope'.at)
    BY <2>2, <2>4 DEF StaysBound
  <2>6. Offered(ir, S) \subseteq Offered(ir', S) /\ Open(ir', Len(frames)) = S
    BY <1>1, <1>2, <1>3, <2>1, SameOffered
  <2>7. Level(ir', Len(frames), scope'.at, scope'.at, locals', Outer)
    <3> SUFFICES ASSUME NEW x \in Outer
                 PROVE  /\ scope'.at[x] \in Offered(ir', S)
                        /\ scope'.at[x] = Unbound => locals'[x] \in Offered(ir', S)
      BY <2>6 DEF Level
    <3>1. CASE \E j \in 1 .. n : names[j] = x /\ scope'.at[x] = vals[j]
      BY <2>2, <3>1
    <3>2. CASE (\A j \in 1 .. n : names[j] # x) /\ scope'.at[x] = scope.at[x]
      <4>1. /\ Top.before.at[x] \in Offered(ir, S)
            /\ scope.at[x] = Unbound => locals[x] \in Offered(ir, S)
        BY <1>2 DEF Level
      <4> QED
        BY <1>1, <1>4, <2>6, <3>2, <4>1
    <3> QED
      BY <1>2, <2>4, <3>1, <3>2
  <2>8. \A b \in Held(Top) : b # 0 =>
          \E k \in 1 .. Len(ir'.ops) : /\ ir'.ops[k].blk = h
                                       /\ \E j \in DOMAIN ir'.ops[k].regions : ir'.ops[k].regions[j] = b
    <3>1. PICK k \in 1 .. Len(ir'.ops) : ir'.ops[k].blk = h /\ ir'.ops[k].regions = <<Top.body>>
      BY <2>1
    <3>2. 1 \in DOMAIN ir'.ops[k].regions /\ ir'.ops[k].regions[1] = Top.body
      BY <3>1
    <3> QED
      BY <1>4, <3>1, <3>2
  <2> HIDE DEF Rewires, SameOpen, Level, StaysBound, h, S
  <2>9. \A y \in Outer \cap Live : scope'.at[y] = Unbound /\ y \in Survivors(Top) => y \in Outer
    OBVIOUS
  <2> QED
    BY <1>1, <1>6, <2>1, <2>5, <2>7, <2>8, <2>9 DEF Leaves, h, S
<1> QED
  BY <1>1, <1>2, <1>7, LeaveDom

(***************************************************************************)
(* The theorem.                                                             *)
(***************************************************************************)
(* The prologue binds the scalar parameters and nothing else is live.       *)
LEMMA InitDom == DInit => DomInv
<1> SUFFICES ASSUME DInit PROVE DomInv
  OBVIOUS
<1> DEFINE names == {x \in Names : scope.at[x] # Unbound}
<1>1. Init /\ live = <<names>>
  BY DEF DInit
<1>2. EInv /\ UseInv
  BY <1>1, InitEmit, InitUse
<1>3. /\ ir.ops = <<>> /\ ir.args = <<<<0>>>> /\ ir.stack = <<1>>
      /\ scope = InitialScope /\ frames = <<>>
  BY <1>1 DEF Init
<1>4. /\ names \in SUBSET Names /\ Len(live) = 1 /\ live[1] = names
      /\ live \in Seq(SUBSET Names) /\ Len(frames) = 0
  <2>1. names \in SUBSET Names
    OBVIOUS
  <2> HIDE DEF names
  <2> QED
    BY <1>1, <1>3, <2>1
<1>5. Takes(ir, 1, 0)
  <2>1. Len(ir.args) = 1 /\ 1 \in DOMAIN ir.args[1] /\ ir.args[1][1] = 0
    BY <1>3
  <2>2. 1 \in 1 .. Len(ir.args)
    BY <2>1
  <2> QED
    BY <2>1, <2>2 DEF Takes
<1>6. Rooted
  <2>1. 1 .. Len(ir.ops) = {}
    BY <1>3
  <2> QED
    BY <2>1 DEF Rooted
<1>7. \A x \in names : scope.at[x] \in Objs /\ IsNum(scope.at[x])
  <2>1. \A x \in Names : IsNum(InitialScope.at[x]) \/ InitialScope.at[x] = Unbound
    BY DEF InitialScope, Num, IsNum
  <2>2. InitialScope.at \in [Names -> Objs]
    BY InitialScopeType DEF Scopes
  <2> QED
    BY <1>3, <2>1, <2>2
<1>8. Levels
  <2>1. \A k \in 1 .. Len(live) : k = 1 /\ At(k) = scope.at /\ live[k] = names
    BY <1>4 DEF At
  <2>2. Level(ir, 1, scope.at, scope.at, locals, names)
    BY <1>7 DEF Level, Offered
  <2> HIDE DEF names
  <2> QED
    BY <2>1, <2>2 DEF Levels
<1>9. Lasts
  <2>1. \A k \in 1 .. Len(live) : k = 1
    BY <1>4
  <2> QED
    BY <2>1 DEF Lasts
<1>10. Holds
  <2>1. 1 .. Len(frames) = {}
    BY <1>4
  <2> QED
    BY <2>1 DEF Holds
<1> HIDE DEF names
<1> QED
  BY <1>2, <1>4, <1>5, <1>6, <1>8, <1>9, <1>10 DEF DomInv

(* A step that changes nothing keeps it, and nothing more is asked of a     *)
(* trace that has failed.                                                   *)
LEMMA StillDom ==
    ASSUME DomInv, EInv', UseInv', UNCHANGED dvars
    PROVE  DomInv'
<1>1. ir' = ir /\ scope' = scope /\ locals' = locals /\ frames' = frames /\ live' = live
  BY DEF dvars, vars
<1>2. CASE ir.err = "none"
  <2>1. ir \in IRs
    BY <1>2, DomRunning
  <2>2. ir' \in Flows(ir, Here, Inside)
    BY <1>1, <2>1, FlowsSelf
  <2>3. SameFrames
    BY <1>1, QuietFrames
  <2> QED
    BY <1>1, <1>2, <2>2, <2>3, QuietDom
<1>3. CASE ir.err # "none"
  <2>1. live \in Seq(SUBSET Names) /\ Len(live) = Len(frames) + 1
    BY DEF DomInv
  <2> QED
    BY <1>1, <1>3, <2>1 DEF DomInv
<1> QED
  BY <1>2, <1>3

(* Every step that keeps the rules keeps it.                                *)
LEMMA NextDom == DomInv /\ [DNext]_dvars => DomInv'
<1> SUFFICES ASSUME DomInv, [DNext]_dvars PROVE DomInv'
  OBVIOUS
<1>1. [Next]_vars
  BY DEF DNext, DStatement, DExit, Next, dvars
<1>2. EInv' /\ UseInv'
  <2>1. EInv /\ UseInv
    BY DEF DomInv
  <2> QED
    BY <1>1, <2>1, NextEmit, NextUse
<1>3. CASE UNCHANGED dvars \/ (Stop /\ UNCHANGED live)
  <2>1. UNCHANGED dvars
    BY <1>3 DEF Stop, dvars
  <2> QED
    BY <1>2, <2>1, StillDom
<1>4. ASSUME NEW st \in Menu, DStatement(st) PROVE DomInv'
  <2>1. RulesOf(st)
    BY <1>4 DEF DStatement
  <2>2. CASE (Assign(st) \/ TupleAssign(st) \/ AugAssign(st)) /\ live' = Within(Live \cup Bound(st))
    BY <1>2, <2>1, <2>2, AssignDom, TupleAssignDom, AugAssignDom
  <2>3. CASE /\ AssignSlice(st) \/ AugAssignSlice(st) \/ Return(st) \/ SkipRest(st)
             /\ live' = live
    BY <1>2, <2>1, <2>3, AssignSliceDom, AugAssignSliceDom, ReturnDom, SkipRestDom
  <2>4. CASE (EnterFor(st) \/ EnterKernel(st)) /\ live' = Append(live, Live \cup Bound(st))
    BY <1>2, <2>1, <2>4, EnterForDom, EnterKernelDom
  <2>5. CASE (EnterIf(st) \/ EnterWhile(st)) /\ live' = Append(live, Live)
    BY <1>2, <2>1, <2>5, EnterIfDom, EnterWhileDom
  <2> QED
    BY <1>4, <2>2, <2>3, <2>4, <2>5 DEF DStatement
<1>5. ASSUME DExit PROVE DomInv'
  <2>1. CASE ExitFor /\ LoopRules(Top) /\ live' = Pop(Outer)
    BY <1>2, <2>1, ExitForDom
  <2>2. CASE EnterElse /\ live' = Pop(Survivors(Top)) \o <<Survivors(Top)>>
    BY <1>2, <2>2, EnterElseDom
  <2>3. CASE (ExitIf \/ ExitKernel) /\ live' = Pop(Survivors(Top))
    BY <1>2, <2>3, ExitIfDom, ExitKernelDom
  <2>4. CASE ExitWhile /\ live' = Pop(Survivors(Top))
    BY <1>2, <2>4, ExitWhileDom
  <2> QED
    BY <1>5, <2>1, <2>2, <2>3, <2>4 DEF DExit
<1> QED
  BY <1>3, <1>4, <1>5 DEF DNext

(* In the trace of a kernel that keeps the rules of Discipline, until the   *)
(* builder refuses it, an operation uses only what its own block or a block *)
(* around it defines before it, although scopes, locals and suspended       *)
(* statements all carry ids from one block to another and the end of a loop *)
(* rewires operations that are already in the trace.                        *)
THEOREM DisciplinedTracesDominate == DSpec => []Dominance
<1>1. DInit => DomInv
  BY InitDom
<1>2. DomInv /\ [DNext]_dvars => DomInv'
  BY NextDom
<1>3. DomInv => Dominance
  BY RootedDominates DEF DomInv
<1> QED
  BY <1>1, <1>2, <1>3, PTL DEF DSpec

(***************************************************************************)
(* Initial values are retired.                                              *)
(***************************************************************************)
(* Only blocks that may still grow are above one that may, and none of them *)
(* belongs to an operation.                                                 *)
LEMMA GrowingAbove ==
    Inv => \A c \in Growing(ir, frames) :
             c \in 1 .. Len(ir.args) /\ Free(ir, c) /\ Above(c) \subseteq Growing(ir, frames)
<1> SUFFICES ASSUME Inv
             PROVE  \A c \in Growing(ir, frames) :
                      c \in 1 .. Len(ir.args) /\ Free(ir, c) /\ Above(c) \subseteq Growing(ir, frames)
  OBVIOUS
<1> DEFINE M == Len(ir.args)
           W == Growing(ir, frames)
           G == {m \in 0 .. M : m \in W => Above(m) \subseteq W}
<1>1. /\ TypeOK /\ ir \in IRs /\ Tree(ir) /\ Nested(ir, frames) /\ M \in Nat /\ Len(frames) \in Nat
      /\ DOMAIN frames = 1 .. Len(frames) /\ DOMAIN ir.ops = 1 .. Len(ir.ops)
      /\ Len(ir.stack) = Len(frames) + 1 /\ ir.stack[1] = 1 /\ M >= 1
  BY PartsType, LenProperties DEF Inv, Sound, TypeOK, Nested
<1>2. ASSUME NEW c \in W PROVE c \in 1 .. M /\ Free(ir, c)
  <2>1. ASSUME NEW k \in 1 .. Len(frames), c \in Held(frames[k]) PROVE c \in 1 .. M /\ Free(ir, c)
    <3>1. c \in 2 .. M /\ Free(ir, c)
      BY <1>1, <2>1 DEF Nested
    <3> QED
      BY <1>1, <3>1
  <2>2. ASSUME NEW j \in 1 .. Len(ir.stack), c = ir.stack[j] PROVE c \in 1 .. M /\ Free(ir, c)
    <3>1. CASE j = 1
      <4>1. c = 1 /\ c \notin 2 .. M
        BY <1>1, <2>2, <3>1
      <4>2. Free(ir, c)
        BY <1>1, <4>1, NobodysRegion
      <4> QED
        BY <1>1, <4>1, <4>2
    <3>2. CASE j # 1
      <4>1. j - 1 \in 1 .. Len(frames) /\ (j - 1) + 1 = j
        BY <1>1, <3>2
      <4>2. c \in Held(frames[j - 1])
        BY <1>1, <2>2, <4>1 DEF Nested
      <4> QED
        BY <2>1, <4>1, <4>2
    <3> QED
      BY <3>1, <3>2
  <2> QED
    BY <2>1, <2>2 DEF Growing
<1>3. \A c \in 1 .. M : Above(c) = {c} \cup UNION {Above(d) : d \in {e \in HangsFrom(c) : e < c}}
  BY <1>1, AboveIs
<1>4. ASSUME NEW c \in W, NEW d \in HangsFrom(c) PROVE d \in W
  <2>1. PICK k \in DOMAIN frames : d = ir.stack[k]
    BY <1>1, <1>2 DEF HangsFrom, Free
  <2>2. k \in 1 .. Len(ir.stack)
    BY <1>1
  <2> QED
    BY <2>1, <2>2 DEF Growing
<1> HIDE DEF W, M
<1>5. ASSUME NEW m \in 0 .. M, \A k \in 0 .. M : k < m => k \in G PROVE m \in G
  <2> SUFFICES ASSUME m \in W, NEW b \in Above(m) PROVE b \in W
    BY DEF G
  <2>1. m \in 1 .. M
    BY <1>2
  <2>2. CASE b = m
    BY <2>2
  <2>3. CASE b # m
    <3>1. PICK d \in HangsFrom(m) : d < m /\ b \in Above(d)
      BY <1>3, <2>1, <2>3
    <3>2. d \in W /\ d \in 1 .. M
      BY <1>2, <1>4, <3>1
    <3>3. d \in 0 .. M
      BY <3>2
    <3>4. Above(d) \subseteq W
      BY <1>5, <3>1, <3>2, <3>3 DEF G
    <3> QED
      BY <3>1, <3>4
  <2> QED
    BY <2>2, <2>3
<1> HIDE DEF G
<1>6. \A m \in 0 .. M : m \in G
  BY <1>1, <1>5, Ascent
<1>7. ASSUME NEW c \in W PROVE Above(c) \subseteq W
  <2>1. c \in 0 .. M
    BY <1>2
  <2> QED
    BY <1>6, <2>1 DEF G
<1> QED
  BY <1>2, <1>7 DEF W, M

(* The same of the next state.                                              *)
LEMMA GrowingAboveNext ==
    (Inv => \A c \in Growing(ir, frames) :
             c \in 1 .. Len(ir.args) /\ Free(ir, c) /\ Above(c) \subseteq Growing(ir, frames))'
BY GrowingAbove, PTL

(* The blocks above one, in the next state.                                 *)
LEMMA AboveIsNext ==
    (TypeOK /\ Len(ir.stack) = Len(frames) + 1 => \A c \in 1 .. Len(ir.args) :
             Above(c) = {c} \cup UNION {Above(d) : d \in {e \in HangsFrom(c) : e < c}})'
<1>1. TypeOK /\ Len(ir.stack) = Len(frames) + 1 => \A c \in 1 .. Len(ir.args) :
             Above(c) = {c} \cup UNION {Above(d) : d \in {e \in HangsFrom(c) : e < c}}
  BY AboveIs
<1> QED
  BY <1>1, PTL

(* Operations keep their place, and those with regions are added to blocks  *)
(* that may grow.                                                           *)
Settled ==
    /\ Len(ir.ops) <= Len(ir'.ops) /\ Len(ir.args) <= Len(ir'.args)
    /\ \A k \in 1 .. Len(ir.ops) : /\ ir'.ops[k].blk = ir.ops[k].blk
                                   /\ ir'.ops[k].regions = ir.ops[k].regions
    /\ \A k \in Len(ir.ops) + 1 .. Len(ir'.ops) :
         ir'.ops[k].regions # <<>> => ir'.ops[k].blk \in Growing(ir', frames')

(* So a region that belongs to an operation gets no blocks under it.        *)
LEMMA AttachedAbove ==
    ASSUME Inv, Inv', Settled, NEW b \in 1 .. Len(ir.args), ~Free(ir, b)
    PROVE  /\ b \notin Growing(ir', frames')
           /\ \A c \in Growing(ir', frames') : b \notin Above(c)'
           /\ \A c \in 1 .. Len(ir'.args) : b \in Above(c)' => c \in 1 .. Len(ir.args) /\ b \in Above(c)
<1> DEFINE M == Len(ir'.args)
           W == Growing(ir', frames')
           G == {m \in 0 .. M : b \in Above(m)' /\ m # 0 => m \in 1 .. Len(ir.args) /\ b \in Above(m)}
<1>1. /\ TypeOK /\ ir \in IRs /\ Tree(ir) /\ Len(ir.stack) = Len(frames) + 1
      /\ Len(ir.ops) \in Nat /\ Len(ir.args) \in Nat /\ DOMAIN ir.ops = 1 .. Len(ir.ops)
  BY PartsType DEF Inv, Sound, TypeOK, Nested
<1>2. /\ TypeOK' /\ ir' \in IRs /\ Tree(ir') /\ Len(ir'.stack) = Len(frames') + 1 /\ Len(frames') \in Nat
      /\ Len(ir'.ops) \in Nat /\ M \in Nat /\ DOMAIN ir'.ops = 1 .. Len(ir'.ops)
      /\ DOMAIN frames' = 1 .. Len(frames')
  BY PartsType, LenProperties DEF Inv, Sound, TypeOK, Nested
<1>3. \A c \in W : Free(ir', c) /\ Above(c)' \subseteq W
  BY GrowingAboveNext
<1>4. ~Free(ir', b)
  <2>1. PICK k \in 1 .. Len(ir.ops) : \E i \in DOMAIN ir.ops[k].regions : ir.ops[k].regions[i] = b
    BY DEF Free
  <2>2. k \in 1 .. Len(ir'.ops)
    BY <1>1, <1>2 DEF Settled
  <2> QED
    BY <2>1, <2>2 DEF Settled, Free
<1>5. b \notin W /\ \A c \in W : b \notin Above(c)'
  BY <1>3, <1>4
<1>6. \A c \in 1 .. Len(ir.args) : Above(c) = {c} \cup UNION {Above(d) : d \in {e \in HangsFrom(c) : e < c}}
  BY <1>1, AboveIs
<1>7. \A c \in 1 .. M : Above(c)' = {c} \cup UNION {Above(d)' : d \in {e \in HangsFrom(c)' : e < c}}
  BY <1>2, AboveIsNext
<1>8. ASSUME NEW c \in 1 .. M, NEW d \in HangsFrom(c)', d \notin W
      PROVE  d \in 1 .. M /\ c \in 1 .. Len(ir.args) /\ d \in HangsFrom(c)
  <2>1. PICK k \in 1 .. Len(ir'.ops) : /\ d = ir'.ops[k].blk
                                       /\ \E j \in DOMAIN ir'.ops[k].regions : ir'.ops[k].regions[j] = c
    <3>1. \A k \in DOMAIN frames' : k \in 1 .. Len(ir'.stack)
      BY <1>2
    <3>2. \A k \in DOMAIN frames' : d # ir'.stack[k]
      BY <1>8, <3>1 DEF Growing
    <3> QED
      BY <1>2, <3>2 DEF HangsFrom
  <2>2. ir'.ops[k].regions # <<>>
    BY <2>1
  <2>3. k \in 1 .. Len(ir.ops)
    <3> SUFFICES ASSUME k \in Len(ir.ops) + 1 .. Len(ir'.ops) PROVE FALSE
      BY <1>1, <1>2, <2>1
    <3> QED
      BY <1>8, <2>1, <2>2 DEF Settled
  <2>4. PICK j \in DOMAIN ir.ops[k].regions : d = ir.ops[k].blk /\ ir.ops[k].regions[j] = c
    BY <2>1, <2>3 DEF Settled
  <2>5. c \in 2 .. Len(ir.args) /\ d < c
    BY <1>1, <2>3, <2>4 DEF Tree
  <2>6. d \in HangsFrom(c)
    BY <1>1, <2>3, <2>4 DEF HangsFrom
  <2>7. d \in Blocks
    BY <1>1, <2>6, HangsFromBlocks
  <2> QED
    BY <1>1, <1>2, <2>5, <2>6, <2>7 DEF Blocks
<1> HIDE DEF W, M
<1>9. ASSUME NEW m \in 0 .. M, \A k \in 0 .. M : k < m => k \in G PROVE m \in G
  <2> SUFFICES ASSUME b \in Above(m)', m # 0 PROVE m \in 1 .. Len(ir.args) /\ b \in Above(m)
    BY DEF G
  <2>1. m \in 1 .. M
    BY <1>2
  <2>2. CASE b = m
    BY <1>6, <2>2
  <2>3. CASE b # m
    <3>1. PICK d \in HangsFrom(m)' : d < m /\ b \in Above(d)'
      BY <1>7, <2>1, <2>3
    <3>2. d \notin W
      BY <1>5, <3>1
    <3>3. d \in 1 .. M /\ m \in 1 .. Len(ir.args) /\ d \in HangsFrom(m)
      BY <1>8, <2>1, <3>1, <3>2
    <3>4. d \in 0 .. M /\ d # 0
      BY <3>3
    <3>5. b \in Above(d)
      BY <1>9, <3>1, <3>4 DEF G
    <3> QED
      BY <1>6, <3>1, <3>3, <3>5
  <2> QED
    BY <2>2, <2>3
<1> HIDE DEF G
<1>10. \A m \in 0 .. M : m \in G
  BY <1>2, <1>9, Ascent
<1>11. ASSUME NEW c \in 1 .. M, b \in Above(c)' PROVE c \in 1 .. Len(ir.args) /\ b \in Above(c)
  <2>1. c \in 0 .. M /\ c # 0
    BY <1>2
  <2> QED
    BY <1>10, <1>11, <2>1 DEF G
<1> QED
  BY <1>5, <1>11 DEF W, M

(* Initial values are retired: for the blocks b and c that the loop k and   *)
(* the operation m name, so that it can be used of the next state too.      *)
Retired ==
    \A k, m \in 1 .. Len(ir.ops) : \A b, c :
        ir.ops[k].name \in LoopNames /\ ir.ops[k].regions[1] = b /\ ir.ops[m].blk = c /\ b \in Above(c)
          => \A j \in 4 .. Len(ir.ops[k].operands) : ir.ops[k].operands[j] \notin Operands(ir.ops[m])

(* This is the property.                                                    *)
LEMMA RetiredIs ==
    ASSUME TypeOK
    PROVE  Retired => InitialsRetired
<1>1. DOMAIN ir.ops = 1 .. Len(ir.ops)
  BY PartsType DEF TypeOK
<1> QED
  BY <1>1 DEF Retired, InitialsRetired, LoopNames

(* Most steps keep them retired: no loop is added, and nothing is added     *)
(* under the region of one.                                                 *)
LEMMA RetiredStays ==
    ASSUME Inv, Inv', Accepts(ir), Kept, Placed, Retired
    PROVE  Retired'
<1>1. /\ ir \in IRs /\ ir' \in IRs /\ Tree(ir) /\ DOMAIN ir.ops = 1 .. Len(ir.ops)
      /\ Len(ir.ops) \in Nat /\ Len(ir'.ops) \in Nat
      /\ Len(ir.args) \in Nat /\ Len(ir'.args) \in Nat
  BY PartsType DEF Inv, Sound, TypeOK
<1>2. Settled
  BY DEF Settled, Kept, Placed
<1> SUFFICES ASSUME NEW k \in 1 .. Len(ir'.ops), NEW m \in 1 .. Len(ir'.ops), NEW b, NEW c,
                    ir'.ops[k].name \in LoopNames, ir'.ops[k].regions[1] = b, ir'.ops[m].blk = c,
                    b \in Above(c)', NEW j \in 4 .. Len(ir'.ops[k].operands)
             PROVE  ir'.ops[k].operands[j] \notin Operands(ir'.ops[m])
  BY DEF Retired
<1>3. k \in 1 .. Len(ir.ops) /\ ir'.ops[k] = ir.ops[k]
  BY <1>1 DEF Kept
<1>4. b \in 1 .. Len(ir.args) /\ ~Free(ir, b)
  <2>1. ir.ops[k].name \in Bodied
    BY <1>3 DEF Bodied, LoopNames
  <2>2. Len(ir.ops[k].regions) = 1 /\ ir.ops[k].regions \in Seq(Blocks)
    BY <1>1, <1>3, <2>1, PartsType DEF Accepts, Accepted, Operations
  <2>3. 1 \in DOMAIN ir.ops[k].regions
    BY <2>2, LenProperties
  <2>4. b \in 2 .. Len(ir.args)
    BY <1>1, <1>3, <2>3 DEF Tree
  <2> QED
    BY <1>1, <1>3, <2>3, <2>4 DEF Free
<1>5. CASE m \in 1 .. Len(ir.ops)
  <2>1. ir'.ops[m] = ir.ops[m] /\ c \in 1 .. Len(ir.args)
    BY <1>5 DEF Kept, Accepts, Accepted
  <2>2. c \in 1 .. Len(ir'.args)
    BY <1>1, <2>1 DEF Kept
  <2>3. b \in Above(c)
    BY <1>2, <1>4, <2>2, AttachedAbove
  <2> QED
    BY <1>3, <1>5, <2>1, <2>3 DEF Retired
<1>6. CASE m \notin 1 .. Len(ir.ops)
  <2>1. c \in Growing(ir', frames')
    BY <1>1, <1>6 DEF Placed
  <2> QED
    BY <1>2, <1>4, <2>1, AttachedAbove
<1> QED
  BY <1>5, <1>6

(* The blocks that _replace_region_uses visits, as its recursion finds them *)
SubtreeFunction(r, b, sub) ==
    /\ Subtree(r, b) = sub[b]
    /\ \A c \in b .. Len(r.args) : sub[c] = {c} \cup UNION {sub[d] : d \in {e \in Children(r, c) : e > c}}

(* There is such a function, for the children of a block are younger.       *)
LEMMA SubtreeIs ==
    ASSUME NEW r \in IRs, \A c : Children(r, c) \subseteq 1 .. Len(r.args), NEW b \in 1 .. Len(r.args)
    PROVE  \E sub : SubtreeFunction(r, b, sub)
<1> DEFINE L == Len(r.args)
           S == b .. L
           Down(sub) == sub = [c \in S |-> {c} \cup UNION {sub[d] : d \in {e \in Children(r, c) : e > c}}]
<1>1. L \in Nat /\ b \in Nat /\ S \subseteq 1 .. L
  BY PartsType
<1>2. \A c \in S : \A d \in {e \in Children(r, c) : e > c} : d \in S
  BY <1>1
<1>3. \E sub : Down(sub)
  <2> DEFINE rk == [c \in S |-> L - c]
             P == [c \in S |-> {e \in Children(r, c) : e > c}]
  <2>1. rk \in [S -> 0 .. L] /\ P \in [S -> SUBSET S]
    BY <1>1, <1>2
  <2>2. PICK g : Reaches(S, rk, P, g)
    BY <1>1, <2>1, ReachesExists
  <2>3. \A c \in S : {e \in P[c] : rk[e] < rk[c]} = {e \in Children(r, c) : e > c}
    BY <1>1, <1>2
  <2>4. g = [c \in S |-> {c} \cup UNION {g[d] : d \in {e \in P[c] : rk[e] < rk[c]}}]
    BY <2>2 DEF Reaches
  <2> HIDE DEF rk, P, S
  <2>5. g = [c \in S |-> {c} \cup UNION {g[d] : d \in {e \in Children(r, c) : e > c}}]
    BY <2>3, <2>4
  <2> QED
    BY <2>5
<1>4. PICK sub : Down(sub) /\ Subtree(r, b) = sub[b]
  BY <1>3 DEF Subtree
<1> HIDE DEF S
<1>5. \A c \in S : sub[c] = {c} \cup UNION {sub[d] : d \in {e \in Children(r, c) : e > c}}
  BY <1>4
<1> QED
  BY <1>4, <1>5 DEF SubtreeFunction, S

(* has every younger child of a block that it has.                          *)
LEMMA SubtreeCloses ==
    ASSUME NEW r \in IRs, \A c : Children(r, c) \subseteq 1 .. Len(r.args), NEW b \in 1 .. Len(r.args)
    PROVE  /\ b \in Subtree(r, b)
           /\ \A d \in Subtree(r, b) : \A e \in Children(r, d) : e > d => e \in Subtree(r, b)
<1> DEFINE L == Len(r.args)
           S == b .. L
<1>1. L \in Nat /\ b \in Nat /\ b \in S /\ S \subseteq 1 .. L
  BY PartsType
<1>2. PICK sub : SubtreeFunction(r, b, sub)
  BY SubtreeIs
<1>3. /\ Subtree(r, b) = sub[b]
      /\ \A c \in S : sub[c] = {c} \cup UNION {sub[d] : d \in {e \in Children(r, c) : e > c}}
  BY <1>2 DEF SubtreeFunction
<1>4. \A c \in S : \A d \in Children(r, c) : d > c => d \in S /\ L - d \in 0 .. L /\ L - d < L - c
  BY <1>1
<1> DEFINE G == {m \in 0 .. L : \A c \in S : L - c = m =>
                   \A d \in sub[c] : d \in S /\ \A e \in Children(r, d) : e > d => e \in sub[c]}
<1> HIDE DEF S, L
<1>5. ASSUME NEW m \in 0 .. L, \A k \in 0 .. L : k < m => k \in G PROVE m \in G
  <2> SUFFICES ASSUME NEW c \in S, L - c = m, NEW d \in sub[c]
               PROVE  d \in S /\ \A e \in Children(r, d) : e > d => e \in sub[c]
    BY DEF G
  <2>1. CASE d = c
    <3> SUFFICES ASSUME NEW e \in Children(r, d), e > d PROVE e \in sub[c]
      BY <2>1
    <3>1. e \in S
      BY <1>4, <2>1
    <3>2. e \in sub[e]
      BY <1>3, <3>1
    <3> QED
      BY <1>3, <2>1, <3>2
  <2>2. CASE d # c
    <3>1. PICK u \in Children(r, c) : u > c /\ d \in sub[u]
      BY <1>3, <2>2
    <3>2. u \in S /\ L - u \in 0 .. L /\ L - u < m
      BY <1>4, <3>1
    <3>3. d \in S /\ \A e \in Children(r, d) : e > d => e \in sub[u]
      BY <1>5, <3>1, <3>2 DEF G
    <3>4. sub[u] \subseteq sub[c]
      BY <1>3, <3>1
    <3> QED
      BY <3>3, <3>4
  <2> QED
    BY <2>1, <2>2
<1> HIDE DEF G
<1>6. \A m \in 0 .. L : m \in G
  BY <1>1, <1>5, Ascent
<1>7. L - b \in 0 .. L
  BY <1>1 DEF S
<1>8. \A d \in sub[b] : \A e \in Children(r, d) : e > d => e \in sub[b]
  BY <1>1, <1>6, <1>7 DEF G
<1>9. b \in sub[b]
  BY <1>1, <1>3
<1> QED
  BY <1>3, <1>8, <1>9

(* It visits every block under the body of the innermost loop: what is      *)
(* under an open block that is not the innermost is not under that.         *)
LEMMA AboveSubtree ==
    ASSUME Inv, ir.err = "none", NEW body, frames # <<>>, Held(Top) = {body},
           NEW r \in IRs, Len(r.args) = Len(ir.args), \A c : Children(r, c) = Children(ir, c),
           NEW v \in 1 .. Len(ir.args), body \in Above(v)
    PROVE  v \in Subtree(r, body)
<1> DEFINE L == Len(ir.args)
           n == Len(frames)
           G == {m \in 0 .. L : m \in 1 .. L /\ body \in Above(m) => m \in Subtree(r, body)}
<1>1. /\ TypeOK /\ ir \in IRs /\ Tree(ir) /\ Nested(ir, frames) /\ L \in Nat /\ n \in Nat \ {0}
      /\ n \in 1 .. n /\ Top = frames[n] /\ DOMAIN frames = 1 .. n /\ DOMAIN ir.ops = 1 .. Len(ir.ops)
      /\ Len(ir.stack) = n + 1
  <2>1. TypeOK /\ ir \in IRs /\ Tree(ir) /\ Nested(ir, frames) /\ frames \in Seq(Frames)
    BY DEF Inv, Sound, TypeOK
  <2>2. n \in Nat \ {0} /\ n \in 1 .. n
    BY <2>1, EmptySeq, LenProperties
  <2> QED
    BY <2>1, <2>2, PartsType, LenProperties DEF Top, Nested
<1>2. body \in Held(frames[n]) /\ body \in 1 .. L
  <2>1. body \in 2 .. L
    BY <1>1 DEF Nested
  <2> QED
    BY <1>1, <2>1
<1>3. \A k \in 1 .. n : ir.stack[k] \in 1 .. L /\ ir.stack[k] < body
  <2> TAKE k \in 1 .. n
  <2>1. \A j \in 1 .. Len(ir.stack) : ir.stack[j] \in 1 .. L
    BY <1>1, StackRises
  <2>2. k \in 1 .. Len(ir.stack)
    BY <1>1
  <2>3. ir.stack[n] < body
    BY <1>1, <1>2, StackRises
  <2>4. CASE k = n
    BY <2>1, <2>2, <2>3, <2>4
  <2>5. CASE k # n
    <3>1. k < n
      <4>1. k <= n /\ k \in Nat /\ n \in Nat
        BY <1>1
      <4> HIDE DEF n
      <4> QED
        BY <2>5, <4>1
    <3>2. ir.stack[k + 1] \in Held(frames[k]) /\ ir.stack[k + 1] < body
      <4>1. ir.stack[k + 1] \in Held(frames[k])
        BY <1>1 DEF Nested
      <4>2. \A l \in 1 .. n : k < l => \A e \in Held(frames[k]), c \in Held(frames[l]) : e < c
        BY <1>1 DEF Nested
      <4> HIDE DEF n
      <4> QED
        BY <1>1, <1>2, <3>1, <4>1, <4>2
    <3>3. ir.stack[k] < ir.stack[k + 1]
      BY <1>1, StackRises
    <3>4. k + 1 \in 1 .. Len(ir.stack)
      BY <1>1
    <3>5. ir.stack[k + 1] \in 1 .. L /\ ir.stack[k] \in 1 .. L
      BY <2>1, <2>2, <3>4
    <3> QED
      BY <1>2, <3>2, <3>3, <3>5
  <2> QED
    BY <2>4, <2>5
<1>4. ASSUME NEW c, NEW e \in Children(ir, c) PROVE e \in 1 .. L
  <2>1. PICK k \in 1 .. Len(ir.ops) : \E j \in DOMAIN ir.ops[k].regions : ir.ops[k].regions[j] = e
    BY <1>1 DEF Children, OpsOf
  <2>2. e \in 2 .. L
    BY <1>1, <2>1 DEF Tree
  <2> QED
    BY <2>2
<1>5. /\ body \in Subtree(r, body)
      /\ \A d \in Subtree(r, body) : \A e \in Children(ir, d) : e > d => e \in Subtree(r, body)
  <2>1. \A c : Children(r, c) \subseteq 1 .. Len(r.args)
    BY <1>4
  <2>2. body \in 1 .. Len(r.args)
    BY <1>2
  <2> QED
    BY <2>1, <2>2, SubtreeCloses
<1>6. \A c \in 1 .. L : Above(c) = {c} \cup UNION {Above(d) : d \in {e \in HangsFrom(c) : e < c}}
  BY <1>1, AboveIs
<1>7. \A c \in 1 .. L : HangsFrom(c) \subseteq Blocks
  BY <1>1, HangsFromBlocks
<1>8. \A c \in 1 .. L : \A d \in Above(c) : d <= c
  BY <1>1, AboveOlder
<1>9. ASSUME NEW m \in 0 .. L, \A k \in 0 .. L : k < m => k \in G PROVE m \in G
  <2> SUFFICES ASSUME m \in 1 .. L, body \in Above(m) PROVE m \in Subtree(r, body)
    BY DEF G
  <2>1. CASE body = m
    BY <1>5, <2>1
  <2>2. CASE body # m
    <3>1. PICK d \in HangsFrom(m) : d < m /\ body \in Above(d)
      BY <1>6, <2>2
    <3>2. d \in 1 .. L /\ d \in 0 .. L
      BY <1>1, <1>7, <3>1 DEF Blocks
    <3>3. d \in Subtree(r, body)
      BY <1>9, <3>1, <3>2 DEF G
    <3>4. m \in Children(ir, d)
      <4>1. ASSUME NEW k \in 1 .. n, d = ir.stack[k] PROVE FALSE
        <5>1. d < body /\ body <= d
          BY <1>3, <1>8, <3>1, <3>2, <4>1
        <5> QED
          BY <1>2, <3>2, <5>1
      <4>2. PICK k \in DOMAIN ir.ops : d = ir.ops[k].blk /\ \E j \in DOMAIN ir.ops[k].regions : ir.ops[k].regions[j] = m
        BY <1>1, <3>1, <4>1 DEF HangsFrom
      <4> QED
        BY <4>2 DEF Children, OpsOf
    <3> QED
      BY <1>5, <3>1, <3>3, <3>4
  <2> QED
    BY <2>1, <2>2
<1> HIDE DEF G
<1>10. \A m \in 0 .. L : m \in G
  BY <1>1, <1>9, Ascent
<1>11. v \in 0 .. L
  BY <1>1
<1> QED
  BY <1>10, <1>11 DEF G

(* The blocks above a block become fewer if those it hangs from do.         *)
LEMMA AboveFewer ==
    ASSUME Inv, Inv', Len(ir'.args) = Len(ir.args),
           \A c \in 1 .. Len(ir.args) : HangsFrom(c)' \subseteq HangsFrom(c)
    PROVE  \A c \in 1 .. Len(ir.args) : Above(c)' \subseteq Above(c)
<1> DEFINE M == Len(ir.args)
           G == {m \in 0 .. M : m \in 1 .. M => Above(m)' \subseteq Above(m)}
<1>1. /\ M \in Nat /\ TypeOK /\ TypeOK' /\ Len(ir.stack) = Len(frames) + 1
      /\ Len(ir'.stack) = Len(frames') + 1
  BY PartsType DEF Inv, TypeOK, Nested
<1>2. \A c \in 1 .. M : /\ Above(c) = {c} \cup UNION {Above(d) : d \in {e \in HangsFrom(c) : e < c}}
                        /\ HangsFrom(c) \subseteq Blocks
  BY <1>1, AboveIs, HangsFromBlocks
<1>3. \A c \in 1 .. M : Above(c)' = {c} \cup UNION {Above(d)' : d \in {e \in HangsFrom(c)' : e < c}}
  BY <1>1, AboveIsNext
<1>4. ASSUME NEW m \in 0 .. M, \A k \in 0 .. M : k < m => k \in G PROVE m \in G
  <2> SUFFICES ASSUME m \in 1 .. M, NEW b \in Above(m)' PROVE b \in Above(m)
    BY DEF G
  <2>1. CASE b = m
    BY <1>2, <2>1
  <2>2. CASE b # m
    <3>1. PICK d \in HangsFrom(m)' : d < m /\ b \in Above(d)'
      BY <1>3, <2>2
    <3>2. d \in HangsFrom(m) /\ d \in Blocks
      BY <1>2, <3>1
    <3>3. d \in 1 .. M /\ d \in 0 .. M
      BY <1>1, <3>1, <3>2 DEF Blocks
    <3>4. b \in Above(d)
      BY <1>4, <3>1, <3>3 DEF G
    <3> QED
      BY <1>2, <3>1, <3>2, <3>4
  <2> QED
    BY <2>1, <2>2
<1> HIDE DEF G
<1>5. \A m \in 0 .. M : m \in G
  BY <1>1, <1>4, Ascent
<1>6. \A m \in 1 .. M : m \in 0 .. M
  BY <1>1
<1> QED
  BY <1>5, <1>6 DEF G

(* The ids that something defines have all been handed out.                 *)
LEMMA DefinedBelow ==
    ASSUME NEW r \in IRs, Once(r), NEW v \in Defined(r)
    PROVE  v \in Ids /\ v < r.next
<1>1. /\ DOMAIN r.ops = 1 .. Len(r.ops) /\ DOMAIN r.args = 1 .. Len(r.args)
      /\ Len(r.ops) \in Nat /\ Len(r.args) \in Nat /\ r.next \in Nat
  BY PartsType
<1>2. /\ \A c \in 1 .. Len(r.args) : \A j \in DOMAIN r.args[c] :
           j \in Nat /\ c \in Nat /\ r.args[c][j] \in Ids
      /\ \A k \in 1 .. Len(r.ops) : \A j \in DOMAIN r.ops[k].results :
           j \in Nat /\ k \in Nat /\ r.ops[k].results[j] \in Ids
  <2>1. \A c \in 1 .. Len(r.args) : r.args[c] \in Seq(Ids)
    BY PartsType
  <2>2. \A k \in 1 .. Len(r.ops) : r.ops[k].results \in Seq(Ids)
    BY PartsType DEF Operations
  <2> QED
    BY <1>1, <2>1, <2>2, LenProperties, ElementOfSeq
<1>3. \A d \in Defs(r) : d.v \in 0 .. r.next - 1
  BY DEF Once, Numbered
<1>4. ASSUME NEW c \in 1 .. Len(r.args), NEW j \in DOMAIN r.args[c], r.args[c][j] = v
      PROVE  v \in Ids /\ v < r.next
  <2>1. [k |-> "arg", i |-> c, j |-> j, v |-> v] \in Defs(r)
    BY <1>1, <1>2, <1>4 DEF Defs, Places, IsArg
  <2>2. v \in 0 .. r.next - 1
    BY <1>3, <2>1
  <2> QED
    BY <1>1, <1>2, <1>4, <2>2
<1>5. ASSUME NEW m \in 1 .. Len(r.ops), NEW j \in DOMAIN r.ops[m].results, r.ops[m].results[j] = v
      PROVE  v \in Ids /\ v < r.next
  <2>1. [k |-> "op", i |-> m, j |-> j, v |-> v] \in Defs(r)
    BY <1>1, <1>2, <1>5 DEF Defs, Places, IsResult
  <2>2. v \in 0 .. r.next - 1
    BY <1>3, <2>1
  <2> QED
    BY <1>1, <1>2, <1>5, <2>2
<1> QED
  BY <1>1, <1>4, <1>5 DEF Defined, BlockArgs, OpResults, Results

(* So has every operand.                                                    *)
LEMMA OperandsBelow ==
    ASSUME NEW r \in IRs, Once(r), UsesDefined(r), NEW k \in 1 .. Len(r.ops),
           NEW j \in DOMAIN r.ops[k].operands
    PROVE  r.ops[k].operands[j] \in Ids /\ r.ops[k].operands[j] < r.next
<1>1. DOMAIN r.ops = 1 .. Len(r.ops) /\ Len(r.ops) \in Nat
  BY PartsType
<1> DEFINE v == r.ops[k].operands[j]
<1>2. v \in Operands(r.ops[k])
  BY DEF Operands
<1> HIDE DEF v
<1>3. v \in BlockArgs(r) \/ \E m \in 1 .. k - 1 : v \in Results(r.ops[m])
  BY <1>1, <1>2 DEF UsesDefined
<1>4. \A m \in 1 .. k - 1 : m \in DOMAIN r.ops
  BY <1>1
<1>5. v \in Defined(r)
  BY <1>3, <1>4 DEF Defined, OpResults
<1> QED
  BY <1>5, DefinedBelow DEF v

(* What the end of a loop over body appends: consts to the block h that the *)
(* loop is in, the yield of the final values to its body, and the loop,     *)
(* with its initial values as operands from the fourth on.                  *)
ConstOf(op, h) == op.blk = h /\ op.regions = <<>> /\ op.name \notin LoopNames
YieldOf(op, body, finals) ==
    op.blk = body /\ op.regions = <<>> /\ op.name \notin LoopNames /\ op.operands = finals
LoopOf(op, h, body, olds) ==
    /\ op.blk = h /\ op.regions = <<body>>
    /\ op.name \in LoopNames =>
         \A j \in 4 .. Len(op.operands) : \E i \in 1 .. Len(olds) : op.operands[j] = olds[i]

(* The yield, if there is one.                                              *)
LEMMA YieldIs ==
    ASSUME NEW r \in IRs, NEW b \in Blocks, NEW finals \in Seq(Ids)
    PROVE  LET e == YieldFinals(r, b, finals)
           IN  /\ e \in IRs /\ e.args = r.args /\ e.stack = r.stack /\ Len(r.ops) <= Len(e.ops)
               /\ \A k \in 1 .. Len(r.ops) : e.ops[k] = r.ops[k]
               /\ \A k \in Len(r.ops) + 1 .. Len(e.ops) : YieldOf(e.ops[k], b, finals)
<1> DEFINE kind == "yield"
           none == <<>>
           zero == 0
           e == AppendOp(r, b, kind, finals, zero, none, zero)
           op == e.ops[Len(r.ops) + 1]
<1>1. kind \in OpNames /\ zero \in Nat /\ zero \in Int /\ none \in Seq(Blocks) /\ kind \notin LoopNames
  BY EmptySeq DEF OpNames, Terminators, LoopNames
<1>2. YieldFinals(r, b, finals) \in {r, e}
  BY DEF YieldFinals
<1>3. Len(r.ops) \in Nat
  BY PartsType
<1>4. ASSUME YieldFinals(r, b, finals) = r
      PROVE  LET f == YieldFinals(r, b, finals)
             IN  /\ f \in IRs /\ f.args = r.args /\ f.stack = r.stack /\ Len(r.ops) <= Len(f.ops)
                 /\ \A k \in 1 .. Len(r.ops) : f.ops[k] = r.ops[k]
                 /\ \A k \in Len(r.ops) + 1 .. Len(f.ops) : YieldOf(f.ops[k], b, finals)
  BY <1>3, <1>4
<1> HIDE DEF kind, none, zero
<1>5. /\ e \in IRs /\ e.stack = r.stack /\ e.args = r.args
      /\ \/ e.ops = r.ops
         \/ /\ Len(e.ops) = Len(r.ops) + 1
            /\ \A k \in 1 .. Len(r.ops) : e.ops[k] = r.ops[k]
            /\ op.name = kind /\ op.blk = b /\ op.operands = finals /\ op.regions = none
  BY <1>1, AppendOpParts
<1> HIDE DEF e
<1>6. \A k \in 1 .. Len(r.ops) : e.ops[k] = r.ops[k]
  BY <1>5
<1>7. Len(r.ops) <= Len(e.ops) /\ \A k \in Len(r.ops) + 1 .. Len(e.ops) : YieldOf(e.ops[k], b, finals)
  <2>1. CASE e.ops = r.ops
    BY <1>3, <2>1
  <2>2. CASE e.ops # r.ops
    <3>1. Len(e.ops) = Len(r.ops) + 1 /\ YieldOf(op, b, finals)
      BY <1>1, <1>5, <2>2 DEF YieldOf, none
    <3>2. \A k \in Len(r.ops) + 1 .. Len(e.ops) : k = Len(r.ops) + 1
      BY <1>3, <3>1
    <3> QED
      BY <1>3, <3>1, <3>2
  <2> QED
    BY <2>1, <2>2
<1> QED
  BY <1>2, <1>4, <1>5, <1>6, <1>7

(* The loop, unless the builder refuses it.                                 *)
LEMMA LoopIs ==
    ASSUME NEW r \in IRs, NEW h \in Blocks, NEW body \in Blocks, NEW kind \in LoopKinds,
           NEW ids \in Seq(Ids), kind # "parallel" => Len(ids) = 3,
           NEW olds \in Seq(Ids), NEW n \in Nat, NEW d \in Int
    PROVE  LET e == AppendOp(r, h, LoopOp(kind), ids \o olds, n, <<body>>, d)
           IN  /\ e \in IRs /\ e.args = r.args /\ e.stack = r.stack /\ Len(r.ops) <= Len(e.ops)
               /\ \A k \in 1 .. Len(r.ops) : e.ops[k] = r.ops[k]
               /\ \A k \in Len(r.ops) + 1 .. Len(e.ops) : LoopOf(e.ops[k], h, body, olds)
<1> DEFINE name == LoopOp(kind)
           operands == ids \o olds
           regions == <<body>>
           e == AppendOp(r, h, name, operands, n, regions, d)
           op == e.ops[Len(r.ops) + 1]
<1>1. /\ name \in OpNames /\ operands \in Seq(Ids) /\ regions \in Seq(Blocks) /\ Len(r.ops) \in Nat
  BY LoopOpType, ConcatProperties, PartsType
<1>2. name \in LoopNames => kind # "parallel"
  BY DEF LoopOp, LoopKinds, LoopNames
<1>3. ASSUME kind # "parallel", NEW j \in 4 .. Len(operands)
      PROVE  \E i \in 1 .. Len(olds) : operands[j] = olds[i]
  <2>1. /\ Len(operands) = Len(ids) + Len(olds) /\ Len(olds) \in Nat
        /\ \A i \in 1 .. Len(olds) : operands[Len(ids) + i] = olds[i]
    BY ConcatParts
  <2>2. j - 3 \in 1 .. Len(olds) /\ Len(ids) + (j - 3) = j
    <3>1. Len(ids) = 3
      BY <1>3
    <3> HIDE DEF operands
    <3>2. j \in 4 .. Len(operands)
      OBVIOUS
    <3> QED
      BY <2>1, <3>1, <3>2
  <2> HIDE DEF operands
  <2>3. operands[Len(ids) + (j - 3)] = olds[j - 3]
    BY <2>1, <2>2
  <2> QED
    BY <2>2, <2>3
<1> HIDE DEF name, operands, regions
<1>4. /\ e \in IRs /\ e.stack = r.stack /\ e.args = r.args
      /\ \/ e.ops = r.ops
         \/ /\ Len(e.ops) = Len(r.ops) + 1
            /\ \A k \in 1 .. Len(r.ops) : e.ops[k] = r.ops[k]
            /\ op.name = name /\ op.blk = h /\ op.operands = operands /\ op.regions = regions
  BY <1>1, AppendOpParts
<1> HIDE DEF e
<1>5. \A k \in 1 .. Len(r.ops) : e.ops[k] = r.ops[k]
  BY <1>4
<1>6. Len(r.ops) <= Len(e.ops) /\ \A k \in Len(r.ops) + 1 .. Len(e.ops) : LoopOf(e.ops[k], h, body, olds)
  <2>1. CASE e.ops = r.ops
    BY <1>1, <2>1
  <2>2. CASE e.ops # r.ops
    <3>1. Len(e.ops) = Len(r.ops) + 1 /\ LoopOf(op, h, body, olds)
      BY <1>2, <1>3, <1>4, <2>2 DEF LoopOf, regions
    <3>2. \A k \in Len(r.ops) + 1 .. Len(e.ops) : k = Len(r.ops) + 1
      BY <1>1, <3>1
    <3> QED
      BY <1>1, <3>1, <3>2
  <2> QED
    BY <2>1, <2>2
<1> QED
  BY <1>4, <1>5, <1>6 DEF e, name, operands, regions

(* Under the rules no final value of a loop is the initial value of a name  *)
(* that it carries, and the initial values were handed out before.          *)
LEMMA FinalsDiffer ==
    ASSUME DomInv, ir.err = "none", frames # <<>>, Top.s.s \in LoopKinds, LoopRules(Top)
    PROVE  LET names == Pick(Top.before.order, Carried(ir, Top.before, scope))
           IN  \A i, j \in 1 .. Len(names) :
                 /\ Top.before.at[names[i]].n # scope.at[names[j]].n
                 /\ Top.before.at[names[i]].n < ir.next
<1> DEFINE C == Carried(ir, Top.before, scope)
           order == Top.before.order
           names == Pick(order, C)
           bound == {order[j] : j \in DOMAIN order}
<1>1. Top \in Frames /\ ir \in IRs /\ Once(ir) /\ scope \in Scopes
  BY TopHeld, DomRunning
<1>2. Top.before \in Scopes /\ order \in Seq(Names) /\ \A x \in Names : Top.before.at[x] \in Objs
  BY <1>1 DEF Frames, Scopes
<1>3. C \in SUBSET DOMAIN order
  BY DEF Carried
<1>4. /\ Len(names) = Cardinality(C) /\ names \in Seq(Names)
      /\ \A k \in 1 .. Cardinality(C) : Nth(C, k) \in C /\ names[k] = order[Nth(C, k)]
  BY <1>2, <1>3, PickType
<1>5. \A j \in C : /\ IsVal(Top.before.at[order[j]]) /\ IsVal(scope.at[order[j]])
                   /\ Top.before.at[order[j]] # scope.at[order[j]]
                   /\ order[j] \in CarriedNames(Top) /\ order[j] \in bound /\ order[j] \in Names
  <2>1. \A j \in C : order[j] \in bound /\ order[j] \in Names
    BY <1>2, <1>3, LenProperties, ElementOfSeq
  <2>2. \A j \in C : /\ IsVal(Top.before.at[order[j]]) /\ IsVal(scope.at[order[j]])
                     /\ Top.before.at[order[j]] # scope.at[order[j]]
    BY DEF Carried
  <2>3. \A j \in C : order[j] \in CarriedNames(Top)
    BY DEF CarriedNames
  <2> QED
    BY <2>1, <2>2, <2>3
<1> HIDE DEF C
<1>6. \A i \in 1 .. Len(names) :
        /\ IsVal(Top.before.at[names[i]]) /\ IsVal(scope.at[names[i]])
        /\ Top.before.at[names[i]] # scope.at[names[i]]
        /\ names[i] \in CarriedNames(Top) /\ names[i] \in bound /\ names[i] \in Names
  BY <1>4, <1>5
<1> HIDE DEF names
<1>7. \A x \in CarriedNames(Top) : \A y \in bound \ {x} : y \in CarriedNames(Top) => scope.at[y] # Top.before.at[x]
  BY DEF LoopRules, Initial
<1>8. \A x \in Names : Top.before.at[x] \in Objs /\ scope.at[x] \in Objs
  BY <1>1, <1>2 DEF Scopes
<1>9. ASSUME NEW a \in Objs, NEW b \in Objs, IsVal(a), IsVal(b), a.n = b.n PROVE a = b
  BY <1>9 DEF Objs, IsVal, Unbound
<1>10. ASSUME NEW i \in 1 .. Len(names), NEW j \in 1 .. Len(names)
       PROVE  Top.before.at[names[i]].n # scope.at[names[j]].n
  <2>1. scope.at[names[j]] # Top.before.at[names[i]]
    <3>1. CASE names[j] = names[i]
      BY <1>6, <3>1
    <3>2. CASE names[j] # names[i]
      BY <1>6, <1>7, <3>2
    <3> QED
      BY <3>1, <3>2
  <2> QED
    BY <1>6, <1>8, <1>9, <2>1
<1>11. ASSUME NEW i \in 1 .. Len(names) PROVE Top.before.at[names[i]].n < ir.next
  <2> DEFINE o == Top.before.at[names[i]]
  <2>1. Top.before.at \in [Names -> Known(ir)]
    <3>1. Top \in KnownFrames(ir)
      BY TopHeld, DomRunning
    <3> QED
      BY <3>1 DEF KnownFrames
  <2>2. o \in Known(ir) /\ IsVal(o)
    BY <1>6, <2>1
  <2> HIDE DEF o
  <2>3. ~IsNum(o)
    BY <2>2 DEF IsNum, IsVal
  <2>4. o.n \in Defined(ir)
    BY <2>2, <2>3 DEF Known, KnownIds
  <2> QED
    BY <1>1, <2>4, DefinedBelow DEF o
<1> QED
  BY <1>10, <1>11 DEF names, C

(* What the end of a loop over body, in block h, does to the IR.            *)
Retiring(olds, news, finals) ==
    /\ olds \in Seq(Ids) /\ news \in Seq(Ids) /\ Len(news) = Len(olds) /\ finals \in Seq(Ids)
    /\ \A i \in 1 .. Len(olds) : olds[i] < ir.next /\ ir.next <= news[i]
    /\ \A i, j \in 1 .. Len(olds) : news[i] = news[j] => i = j
    /\ \A i \in 1 .. Len(olds) : \A j \in 1 .. Len(finals) : olds[i] # finals[j]
LoopEnds(olds, news, finals, h, body) ==
    /\ Len(ir.ops) <= Len(ir'.ops) /\ Len(ir'.args) = Len(ir.args)
    /\ \A j \in 1 .. Len(frames) : ir'.stack[j] = ir.stack[j]
    /\ \A m \in 1 .. Len(ir.ops) : \/ ir'.ops[m] = ir.ops[m]
                                   \/ ir'.ops[m] = Rewired(ir.ops[m], olds, news)
    /\ \A m \in Len(ir.ops) + 1 .. Len(ir'.ops) :
         \/ ConstOf(ir'.ops[m], h)
         \/ YieldOf(ir'.ops[m], body, finals)
         \/ /\ LoopOf(ir'.ops[m], h, body, olds)
            /\ \A l \in 1 .. Len(ir.ops) :
                 body \in Above(ir.ops[l].blk) => ir'.ops[l] = Rewired(ir.ops[l], olds, news)

(* The end of a loop that keeps the rules is of this kind.                  *)
LEMMA LoopRetires ==
    ASSUME DomInv, ExitFor, LoopRules(Top)
    PROVE  \E olds, news, finals : /\ Retiring(olds, news, finals)
                                   /\ LoopEnds(olds, news, finals, ir.stack[Len(frames)], Top.body)
<1> DEFINE f == Top
           names == Pick(f.before.order, Carried(ir, f.before, scope))
           n == Len(names)
           d == Len(f.s.dst)
           kind == f.s.s
           outer == PopRegion(ir)
           objs == f.objs
           body == f.body
           bounds == Ensure(outer, objs)
           initials == [j \in 1..n |-> f.before.at[names[j]].n]
           finals == [j \in 1..n |-> scope.at[names[j]].n]
           fresh == Fresh(bounds, n)
           opened == NewArgs(bounds, body, n)
           rewired == ReplaceRegionUses(opened, body, initials, fresh)
           yielded == YieldFinals(rewired, body, finals)
           ids == EnsureIds(outer, objs)
           b == Block(outer)
           closed == AppendOp(yielded, b, LoopOp(kind), ids \o initials, n, <<body>>, d)
           raised == Raise(bounds, "parallelCarry")
           level == Len(frames)
           h == ir.stack[level]
           S == Open(ir, level)
<1>1. /\ ir.err = "none" /\ frames # <<>> /\ kind \in LoopKinds
      /\ ir' = CloseLoop(ir, f, names, scope)
  BY DEF ExitFor
<1>2. /\ Inv /\ TypeOK /\ ir \in IRs /\ scope \in Scopes /\ Tree(ir) /\ Ready(ir, frames)
      /\ Nested(ir, frames) /\ level \in Nat \ {0} /\ level \in 1 .. level
      /\ f \in Frames /\ f = frames[level]
      /\ Len(ir.ops) \in Nat /\ Len(ir.args) \in Nat /\ ir.next \in Nat
      /\ \A k \in 1 .. Len(ir.ops) : ir.ops[k].blk \in 1 .. Len(ir.args)
  <2>1. EInv
    BY DEF DomInv
  <2> QED
    BY <1>1, <2>1, TopHeld, DomRunning, EmitRunning, PartsType
<1>3. f.s \in Menu /\ body \in Blocks /\ objs \in Seq(Objs) /\ f.before \in Scopes
  BY <1>2 DEF Frames
<1>4. /\ n \in Nat
      /\ \A j \in 1..n : f.before.at[names[j]].n \in Ids /\ scope.at[names[j]].n \in Ids
  BY <1>2, <1>3, CarriedType
<1>5. ir' = raised \/ ir' = closed
  BY <1>1 DEF CloseLoop
<1>6. /\ Held(f) = {body}
      /\ \A i, j \in 1 .. n : /\ f.before.at[names[i]].n # scope.at[names[j]].n
                              /\ f.before.at[names[i]].n < ir.next
  BY <1>1, LoopOffers, FinalsDiffer
<1> HIDE DEF names, n
<1>7. /\ initials \in Seq(Ids) /\ finals \in Seq(Ids) /\ Len(initials) = n /\ Len(finals) = n
      /\ \A i \in 1 .. n : initials[i] < ir.next
      /\ \A i, j \in 1 .. n : initials[i] # finals[j]
  <2>1. initials \in [1..n -> Ids] /\ finals \in [1..n -> Ids]
    BY <1>4
  <2>2. \A i \in 1 .. n : initials[i] < ir.next
    BY <1>6
  <2>3. \A i, j \in 1 .. n : initials[i] # finals[j]
    BY <1>6
  <2> HIDE DEF initials, finals
  <2> QED
    BY <1>4, <2>1, <2>2, <2>3, FunctionIsSeq
<1>8. d \in Int /\ (kind # "parallel" => Len(objs) = 3)
  <2>1. d \in Int
    BY <1>3, StatementType, LenProperties
  <2>2. Len(objs) = Extents(f)
    BY <1>1, <1>2 DEF Ready, FrameReady
  <2> QED
    BY <2>1, <2>2 DEF Extents
<1>9. body \in 1 .. Len(ir.args) /\ h < body /\ h \in Nat
  <2>1. body \in Held(f)
    BY <1>6
  <2>2. body \in 2 .. Len(ir.args) /\ h < body /\ h \in 1 .. Len(ir.args)
    BY <1>2, <2>1, StackRises DEF Nested
  <2> QED
    BY <1>2, <2>2
<1>10. /\ outer \in IRs /\ outer.stack # <<>> /\ outer \in Flows(ir, h, S) /\ outer.ops = ir.ops
       /\ outer.args = ir.args /\ outer.next = ir.next /\ b = h /\ h \in S /\ h \in Blocks
       /\ \A j \in 1 .. level : outer.stack[j] = ir.stack[j]
  <2>1. /\ outer \in IRs /\ outer.stack # <<>> /\ outer \in Flows(ir, h, S) /\ outer.ops = ir.ops
        /\ outer.args = ir.args /\ b = h /\ h \in S /\ h \in Blocks /\ SameOpen(ir, outer, level)
    BY <1>1, PoppedHere
  <2>2. outer.next = ir.next
    BY <1>2 DEF PopRegion, IRs
  <2> QED
    BY <2>1, <2>2 DEF SameOpen
<1>11. outer \in Adds(ir, 0)
  BY <1>1, PoppedStands DEF DomInv
<1>12. kind \in LoopKinds /\ Top.body = body /\ frames # <<>>
  BY <1>1
<1> HIDE DEF f, initials, finals, kind, d, outer, b, body, objs, h, S, level
<1>13. /\ bounds \in IRs /\ bounds.args = ir.args /\ bounds.stack = outer.stack
       /\ bounds \in Flows(ir, h, S) /\ bounds \in Adds(ir, 0)
       /\ ids \in Seq(Ids) /\ (kind # "parallel" => Len(ids) = 3)
       /\ bounds.next \in Nat /\ ir.next <= bounds.next
  <2>1. bounds \in IRs /\ bounds.args = ir.args /\ bounds.stack = outer.stack
    BY <1>3, <1>10, EnsureType DEF Emitted
  <2>2. bounds \in Flows(outer, h, S)
    BY <1>3, <1>10, EnsureFlows DEF b
  <2>3. bounds \in Flows(ir, h, S)
    BY <1>2, <1>10, <2>2, FlowsTwice
  <2>4. bounds \in Adds(ir, 0)
    BY <1>1, <1>2, <1>3, <1>10, <1>11, PoppedStands, EnsureAdds, AddsTwice DEF DomInv, outer, objs
  <2>5. ids \in Seq(Ids) /\ Len(ids) = Len(objs)
    BY <1>3, <1>10, EnsureIdsType
  <2>6. bounds.next \in Nat /\ outer.next <= bounds.next
    BY <1>3, <1>10, EnsureNext
  <2> QED
    BY <1>2, <1>8, <1>10, <2>1, <2>3, <2>4, <2>5, <2>6
<1> HIDE DEF ids, bounds
<1>14. /\ opened \in IRs /\ opened.ops = bounds.ops /\ opened.stack = bounds.stack
       /\ Len(opened.args) = Len(ir.args)
  <2>1. body \in 1 .. Len(bounds.args)
    BY <1>9, <1>13
  <2> QED
    BY <1>4, <1>13, <2>1, NewArgsFlows
<1>15. /\ fresh \in Seq(Ids) /\ Len(fresh) = n
       /\ \A i \in 1 .. n : fresh[i] = bounds.next + i - 1
  BY <1>4, <1>13, FreshType, Zenon
<1> HIDE DEF opened, fresh
<1>16. /\ Len(ir.ops) <= Len(opened.ops) /\ Len(opened.ops) \in Nat /\ DOMAIN opened.ops = 1 .. Len(opened.ops)
       /\ \A k \in 1 .. Len(ir.ops) : opened.ops[k] = ir.ops[k]
       /\ \A k \in Len(ir.ops) + 1 .. Len(opened.ops) : ConstOf(opened.ops[k], h)
  <2>1. /\ Len(ir.ops) <= Len(opened.ops) /\ Len(opened.ops) \in Nat /\ DOMAIN opened.ops = 1 .. Len(opened.ops)
        /\ \A k \in 1 .. Len(ir.ops) : opened.ops[k] = ir.ops[k]
        /\ \A k \in Len(ir.ops) + 1 .. Len(opened.ops) : opened.ops[k].regions = <<>>
    BY <1>13, <1>14, PartsType DEF Adds, Grows, Adding
  <2>2. Grows(ir, 0, bounds)
    BY <1>13 DEF Adds
  <2>3. \A k \in Len(ir.ops) + 1 .. Len(opened.ops) : opened.ops[k].name \notin LoopNames
    BY <1>14, <2>2, AddingNoLoop
  <2>4. \A k \in Len(ir.ops) + 1 .. Len(opened.ops) : opened.ops[k].blk = h
    BY <1>13, <1>14 DEF Flows, Fed
  <2> QED
    BY <2>1, <2>3, <2>4 DEF ConstOf
<1>17. \A c : Children(opened, c) = Children(ir, c)
  <2>1. \A c : Children(bounds, c) = Children(ir, c)
    BY <1>2, <1>13, ChildrenKept, Zenon
  <2>2. \A c : Children(opened, c) = Children(bounds, c)
    BY <1>14, ChildrenSame
  <2> QED
    BY <2>1, <2>2
<1>18. h \notin Subtree(opened, body)
  <2> SUFFICES ASSUME h \in Subtree(opened, body) PROVE FALSE
    OBVIOUS
  <2>1. body \in Above(h)
    BY <1>1, <1>2, <1>9, <1>14, <1>17, SubtreeAbove
  <2>2. h \in 1 .. Len(ir.args)
    BY <1>2, <1>9, <1>10 DEF Blocks
  <2>3. body <= h
    BY <1>1, <1>2, <2>1, <2>2, AboveOlder
  <2> QED
    BY <1>2, <1>9, <2>3
<1>19. /\ rewired \in IRs /\ rewired.args = opened.args /\ rewired.stack = opened.stack
       /\ Len(rewired.ops) = Len(opened.ops)
       /\ \A k \in 1 .. Len(opened.ops) :
            IF opened.ops[k].blk \in Subtree(opened, body)
            THEN rewired.ops[k] = Rewired(opened.ops[k], initials, fresh)
            ELSE rewired.ops[k] = opened.ops[k]
  <2>1. rewired \in Emitted(opened) /\ Len(rewired.ops) = Len(opened.ops)
    BY <1>7, <1>14, <1>15, ReplaceRegionUsesType
  <2>2. \A k \in 1 .. Len(opened.ops) :
            IF opened.ops[k].blk \in Subtree(opened, body)
            THEN rewired.ops[k] = Rewired(opened.ops[k], initials, fresh)
            ELSE rewired.ops[k] = opened.ops[k]
    BY <1>14, <1>16 DEF ReplaceRegionUses, IRs
  <2> QED
    BY <2>1, <2>2 DEF Emitted
<1> HIDE DEF rewired
<1>20. /\ \A k \in 1 .. Len(ir.ops) : \/ rewired.ops[k] = ir.ops[k]
                                      \/ rewired.ops[k] = Rewired(ir.ops[k], initials, fresh)
       /\ \A k \in Len(ir.ops) + 1 .. Len(rewired.ops) : ConstOf(rewired.ops[k], h)
       /\ \A k \in 1 .. Len(ir.ops) :
            body \in Above(ir.ops[k].blk) => rewired.ops[k] = Rewired(ir.ops[k], initials, fresh)
  <2>1. \A k \in 1 .. Len(ir.ops) : k \in 1 .. Len(opened.ops) /\ opened.ops[k] = ir.ops[k]
    BY <1>2, <1>16
  <2>2. \A k \in Len(ir.ops) + 1 .. Len(rewired.ops) : ConstOf(rewired.ops[k], h)
    <3> TAKE k \in Len(ir.ops) + 1 .. Len(rewired.ops)
    <3>1. k \in 1 .. Len(opened.ops) /\ k \in Len(ir.ops) + 1 .. Len(opened.ops)
      BY <1>2, <1>16, <1>19
    <3>2. ConstOf(opened.ops[k], h)
      BY <1>16, <3>1
    <3>3. opened.ops[k].blk \notin Subtree(opened, body)
      BY <1>18, <3>2 DEF ConstOf
    <3> QED
      BY <1>19, <3>1, <3>2, <3>3
  <2>3. \A k \in 1 .. Len(ir.ops) :
            body \in Above(ir.ops[k].blk) => ir.ops[k].blk \in Subtree(opened, body)
    <3> TAKE k \in 1 .. Len(ir.ops)
    <3> HAVE body \in Above(ir.ops[k].blk)
    <3>1. Held(Top) = {body}
      BY <1>6 DEF f
    <3>2. ir.ops[k].blk \in 1 .. Len(ir.args)
      BY <1>2
    <3> QED
      BY <1>1, <1>2, <1>12, <1>14, <1>17, <3>1, <3>2, AboveSubtree
  <2> QED
    BY <1>19, <2>1, <2>2, <2>3
<1>21. /\ yielded \in IRs /\ yielded.args = rewired.args /\ yielded.stack = rewired.stack
       /\ Len(rewired.ops) <= Len(yielded.ops)
       /\ \A k \in 1 .. Len(rewired.ops) : yielded.ops[k] = rewired.ops[k]
       /\ \A k \in Len(rewired.ops) + 1 .. Len(yielded.ops) : YieldOf(yielded.ops[k], body, finals)
  BY <1>3, <1>7, <1>19, YieldIs
<1> HIDE DEF yielded
<1>22. /\ closed \in IRs /\ closed.args = yielded.args /\ closed.stack = yielded.stack
       /\ Len(yielded.ops) <= Len(closed.ops)
       /\ \A k \in 1 .. Len(yielded.ops) : closed.ops[k] = yielded.ops[k]
       /\ \A k \in Len(yielded.ops) + 1 .. Len(closed.ops) : LoopOf(closed.ops[k], h, body, initials)
  <2>1. /\ yielded \in IRs /\ b \in Blocks /\ body \in Blocks /\ kind \in LoopKinds /\ ids \in Seq(Ids)
        /\ (kind # "parallel" => Len(ids) = 3) /\ initials \in Seq(Ids) /\ n \in Nat /\ d \in Int /\ b = h
    BY <1>3, <1>4, <1>7, <1>8, <1>10, <1>12, <1>13, <1>21
  <2>2. /\ closed \in IRs /\ closed.args = yielded.args /\ closed.stack = yielded.stack
        /\ Len(yielded.ops) <= Len(closed.ops)
        /\ \A k \in 1 .. Len(yielded.ops) : closed.ops[k] = yielded.ops[k]
        /\ \A k \in Len(yielded.ops) + 1 .. Len(closed.ops) : LoopOf(closed.ops[k], b, body, initials)
    BY <2>1, LoopIs
  <2> HIDE DEF closed
  <2> QED
    BY <2>1, <2>2
<1> HIDE DEF closed
<1>23. raised.ops = bounds.ops /\ raised.args = bounds.args /\ raised.stack = bounds.stack
  BY <1>13 DEF Raise, IRs
<1> HIDE DEF raised
<1>24. Retiring(initials, fresh, finals)
  BY <1>2, <1>4, <1>7, <1>13, <1>15 DEF Retiring
<1>25. CASE ir' = raised
  <2>1. LoopEnds(initials, fresh, finals, h, body)
    BY <1>10, <1>13, <1>14, <1>16, <1>23, <1>25 DEF LoopEnds, level
  <2> QED
    BY <1>24, <2>1 DEF h, body, f, level
<1>26. CASE ir' = closed
  <2>1. Len(rewired.ops) \in Nat /\ Len(yielded.ops) \in Nat /\ Len(closed.ops) \in Nat
    BY <1>19, <1>21, <1>22, PartsType
  <2>2. \A k \in 1 .. Len(ir.ops) : closed.ops[k] = rewired.ops[k]
    <3>1. \A k \in 1 .. Len(ir.ops) : k \in 1 .. Len(rewired.ops) /\ k \in 1 .. Len(yielded.ops)
      BY <1>2, <1>16, <1>19, <1>21, <2>1
    <3> QED
      BY <1>21, <1>22, <3>1
  <2>3. ASSUME NEW m \in Len(ir.ops) + 1 .. Len(closed.ops)
        PROVE  \/ ConstOf(closed.ops[m], h)
               \/ YieldOf(closed.ops[m], body, finals)
               \/ LoopOf(closed.ops[m], h, body, initials)
    <3>1. CASE m <= Len(rewired.ops)
      <4>1. /\ m \in Len(ir.ops) + 1 .. Len(rewired.ops) /\ m \in 1 .. Len(rewired.ops)
            /\ m \in 1 .. Len(yielded.ops)
        BY <1>2, <1>21, <2>1, <3>1
      <4> QED
        BY <1>20, <1>21, <1>22, <4>1
    <3>2. CASE Len(rewired.ops) < m /\ m <= Len(yielded.ops)
      <4>1. m \in Len(rewired.ops) + 1 .. Len(yielded.ops) /\ m \in 1 .. Len(yielded.ops)
        BY <1>2, <2>1, <3>2
      <4> QED
        BY <1>21, <1>22, <4>1
    <3>3. CASE Len(yielded.ops) < m
      <4>1. m \in Len(yielded.ops) + 1 .. Len(closed.ops)
        BY <1>2, <2>1, <3>3
      <4> QED
        BY <1>22, <4>1
    <3> QED
      BY <1>2, <2>1, <3>1, <3>2, <3>3
  <2>4. Len(ir.ops) <= Len(closed.ops) /\ Len(closed.args) = Len(ir.args)
    BY <1>2, <1>14, <1>16, <1>19, <1>21, <1>22, <2>1
  <2>5. \A j \in 1 .. Len(frames) : closed.stack[j] = ir.stack[j]
    BY <1>10, <1>13, <1>14, <1>19, <1>21, <1>22 DEF level
  <2>6. LoopEnds(initials, fresh, finals, h, body)
    BY <1>20, <1>26, <2>2, <2>3, <2>4, <2>5 DEF LoopEnds
  <2> QED
    BY <1>24, <2>6 DEF h, body, f, level
<1> QED
  BY <1>5, <1>25, <1>26

(* An initial value is redirected.                                          *)
LEMMA RedirectsAll ==
    ASSUME NEW olds \in Seq(Ids), NEW news \in Seq(Ids), Len(news) = Len(olds),
           NEW i \in 1 .. Len(olds)
    PROVE  \E l \in 1 .. Len(olds) : Redirect(olds[i], olds, news) = news[l]
<1> DEFINE v == olds[i]
           at == {l \in DOMAIN olds : olds[l] = v}
<1>1. DOMAIN olds = 1 .. Len(olds) /\ Len(olds) \in Nat
  BY LenProperties
<1>2. IsFiniteSet(at) /\ at \in SUBSET Int
  <2>1. IsFiniteSet(1 .. Len(olds)) /\ at \in SUBSET (1 .. Len(olds))
    BY <1>1, FS_Interval
  <2> QED
    BY <2>1, FS_Subset
<1>3. i \in at /\ at \subseteq 1 .. Len(olds)
  BY <1>1
<1> HIDE DEF v
<1>4. Redirect(v, olds, news) = news[Nth(at, 1)]
  BY <1>3 DEF Redirect
<1>5. Nth(at, 1) \in at
  <2> HIDE DEF at
  <2>1. Cardinality(at) \in Nat \ {0}
    BY <1>2, <1>3, FS_EmptySet, FS_CardinalityType
  <2>2. 1 \in 1 .. Cardinality(at)
    BY <2>1
  <2> QED
    BY <1>2, <2>2, NthType
<1> QED
  BY <1>3, <1>4, <1>5 DEF v

(* What an operand may become at the end of a loop.                         *)
Moves(u, w, olds, news) == w = u \/ \E i \in 1 .. Len(olds) : olds[i] = u /\ w = news[i]

(* An operation is rewired in its operands only, and these move.            *)
LEMMA RewiredMoves ==
    ASSUME NEW op \in Operations, NEW olds, NEW news, NEW finals, Retiring(olds, news, finals),
           NEW new, new = op \/ new = Rewired(op, olds, news)
    PROVE  /\ new.name = op.name /\ new.blk = op.blk /\ new.regions = op.regions
           /\ DOMAIN new.operands = DOMAIN op.operands /\ Len(new.operands) = Len(op.operands)
           /\ \A j \in DOMAIN op.operands : Moves(op.operands[j], new.operands[j], olds, news)
<1>1. olds \in Seq(Ids) /\ news \in Seq(Ids) /\ Len(news) = Len(olds)
  BY DEF Retiring
<1>2. CASE new = op
  BY <1>2 DEF Moves
<1>3. CASE new = Rewired(op, olds, news)
  <2>1. /\ new \in Operations /\ DOMAIN new.operands = DOMAIN op.operands
        /\ new = [op EXCEPT !.operands = new.operands]
        /\ \A j \in DOMAIN op.operands : new.operands[j] # op.operands[j] =>
             \E i \in 1 .. Len(olds) : olds[i] = op.operands[j] /\ new.operands[j] = news[i]
    <3> DEFINE rew == Rewired(op, olds, news)
    <3>1. rew \in Operations /\ DOMAIN rew.operands = DOMAIN op.operands
      BY <1>1, RewiredType
    <3>2. /\ rew = [op EXCEPT !.operands = rew.operands]
          /\ \A j \in DOMAIN op.operands : rew.operands[j] # op.operands[j] =>
               \E i \in 1 .. Len(olds) : olds[i] = op.operands[j] /\ rew.operands[j] = news[i]
      BY <1>1, RewiredOnly, Zenon
    <3>3. new = rew
      BY <1>3
    <3> HIDE DEF rew
    <3> QED
      BY <3>1, <3>2, <3>3
  <2>2. new.name = op.name /\ new.blk = op.blk /\ new.regions = op.regions
    BY <2>1 DEF Operations
  <2>3. Len(new.operands) = Len(op.operands)
    <3>1. new.operands \in Seq(Ids) /\ op.operands \in Seq(Ids)
      BY <2>1 DEF Operations
    <3> QED
      BY <2>1, <3>1, LenProperties
  <2> QED
    BY <2>1, <2>2, <2>3 DEF Moves
<1> QED
  BY <1>2, <1>3

(* Two ids that differ move apart,                                          *)
LEMMA MovesApart ==
    ASSUME ir.next \in Nat, NEW olds, NEW news, NEW finals, Retiring(olds, news, finals),
           NEW u \in Nat, NEW v \in Nat, u < ir.next, v < ir.next, u # v,
           NEW w, NEW z, Moves(u, w, olds, news), Moves(v, z, olds, news)
    PROVE  w # z
<1>1. /\ \A i \in 1 .. Len(olds) : olds[i] < ir.next /\ ir.next <= news[i] /\ news[i] \in Nat
      /\ \A i, j \in 1 .. Len(olds) : news[i] = news[j] => i = j
  <2>1. \A i \in 1 .. Len(news) : news[i] \in Ids
    BY ElementOfSeq DEF Retiring
  <2> QED
    BY <2>1 DEF Retiring, Ids
<1>2. CASE w = u /\ z = v
  BY <1>2
<1>3. CASE w = u /\ \E i \in 1 .. Len(olds) : z = news[i]
  BY <1>1, <1>3
<1>4. CASE z = v /\ \E i \in 1 .. Len(olds) : w = news[i]
  BY <1>1, <1>4
<1>5. CASE /\ \E i \in 1 .. Len(olds) : olds[i] = u /\ w = news[i]
           /\ \E j \in 1 .. Len(olds) : olds[j] = v /\ z = news[j]
  BY <1>1, <1>5
<1> QED
  BY <1>2, <1>3, <1>4, <1>5 DEF Moves

(* and no operand of an operation that was rewired is an initial value.     *)
LEMMA RewiredApart ==
    ASSUME ir.next \in Nat, NEW op \in Operations, NEW olds, NEW news, NEW finals, Retiring(olds, news, finals),
           NEW i \in 1 .. Len(olds), NEW j \in DOMAIN op.operands
    PROVE  Rewired(op, olds, news).operands[j] # olds[i]
<1>1. /\ olds \in Seq(Ids) /\ news \in Seq(Ids) /\ Len(news) = Len(olds) /\ olds[i] \in Nat /\ olds[i] < ir.next
      /\ \A l \in 1 .. Len(olds) : ir.next <= news[l] /\ news[l] \in Nat
  <2>1. \A l \in 1 .. Len(news) : news[l] \in Ids
    BY ElementOfSeq DEF Retiring
  <2>2. olds[i] \in Ids
    BY ElementOfSeq DEF Retiring
  <2> QED
    BY <2>1, <2>2 DEF Retiring, Ids
<1> DEFINE v == op.operands[j]
           w == Redirect(v, olds, news)
<1>2. Rewired(op, olds, news).operands[j] = w
  BY <1>1, RewiredType
<1>3. v \in Ids
  <2>1. op.operands \in Seq(Ids)
    BY DEF Operations
  <2> QED
    BY <2>1, LenProperties, ElementOfSeq
<1> SUFFICES ASSUME w = olds[i] PROVE FALSE
  BY <1>2
<1> HIDE DEF v
<1>4. CASE w # v
  <2>1. \E l \in 1 .. Len(olds) : w = news[l]
    BY <1>1, <1>3, <1>4, RedirectsTo
  <2> HIDE DEF w
  <2> QED
    BY <1>1, <2>1
<1>5. CASE w = v
  <2> DEFINE x == Redirect(olds[i], olds, news)
  <2>1. x = olds[i]
    BY <1>5
  <2>2. \E l \in 1 .. Len(olds) : x = news[l]
    BY <1>1, RedirectsAll
  <2> HIDE DEF x, w
  <2>3. PICK l \in 1 .. Len(olds) : x = news[l]
    BY <2>2
  <2>4. ir.next <= x /\ x \in Nat
    BY <1>1, <2>3
  <2> QED
    BY <1>1, <2>1, <2>4
<1> QED
  BY <1>4, <1>5

(* The end of a loop puts no block under another.                           *)
LEMMA LoopHangs ==
    ASSUME DomInv, Inv', ir.err = "none", frames # <<>>, Held(Top) = {Top.body}, frames' = Up,
           NEW olds, NEW news, NEW finals, Retiring(olds, news, finals),
           LoopEnds(olds, news, finals, ir.stack[Len(frames)], Top.body)
    PROVE  \A c \in 1 .. Len(ir.args) : Above(c)' \subseteq Above(c)
<1> DEFINE n == Len(frames)
           h == ir.stack[n]
           body == Top.body
<1>1. /\ Inv /\ ir \in IRs /\ ir' \in IRs /\ n \in Nat \ {0} /\ n \in 1 .. n /\ Top = frames[n]
      /\ DOMAIN frames = 1 .. n /\ DOMAIN ir.ops = 1 .. Len(ir.ops) /\ DOMAIN ir'.ops = 1 .. Len(ir'.ops)
      /\ Len(ir.ops) \in Nat /\ Len(ir'.ops) \in Nat /\ frames \in Seq(Frames)
      /\ \A k \in 1 .. Len(ir.ops) : ir.ops[k] \in Operations
  BY TopHeld, DomRunning, PartsType DEF Inv, TypeOK
<1>2. DOMAIN frames' = 1 .. n - 1 /\ \A k \in 1 .. n - 1 : frames'[k] = frames[k]
  <2>1. n - 1 \in Nat /\ n - 1 <= Len(frames)
    BY <1>1
  <2> QED
    BY <1>1, <2>1, SubSeqProperties, LenProperties DEF Up
<1>3. \A k \in 1 .. n - 1 : k \in 1 .. n
  BY <1>1
<1> HIDE DEF n
<1>4. ASSUME NEW c \in 1 .. Len(ir.args), NEW d \in HangsFrom(c)' PROVE d \in HangsFrom(c)
  <2>1. CASE \E k \in DOMAIN frames' : d = ir'.stack[k] /\ c \in {frames'[k].body, frames'[k].other}
    <3>1. PICK k \in 1 .. n - 1 : d = ir'.stack[k] /\ c \in {frames'[k].body, frames'[k].other}
      BY <1>2, <2>1
    <3>2. k \in DOMAIN frames /\ frames'[k] = frames[k] /\ ir'.stack[k] = ir.stack[k]
      BY <1>1, <1>2, <1>3, <3>1 DEF LoopEnds, n
    <3> QED
      BY <3>1, <3>2 DEF HangsFrom
  <2>2. CASE \E k \in 1 .. Len(ir'.ops) : /\ d = ir'.ops[k].blk
                                          /\ \E j \in DOMAIN ir'.ops[k].regions : ir'.ops[k].regions[j] = c
    <3>1. PICK k \in 1 .. Len(ir'.ops) : /\ d = ir'.ops[k].blk
                                         /\ \E j \in DOMAIN ir'.ops[k].regions : ir'.ops[k].regions[j] = c
      BY <2>2
    <3>2. CASE k \in 1 .. Len(ir.ops)
      <4>1. ir'.ops[k].blk = ir.ops[k].blk /\ ir'.ops[k].regions = ir.ops[k].regions
        <5>1. ir.ops[k] \in Operations /\ (ir'.ops[k] = ir.ops[k] \/ ir'.ops[k] = Rewired(ir.ops[k], olds, news))
          BY <1>1, <3>2 DEF LoopEnds
        <5> QED
          BY <5>1, RewiredMoves
      <4> QED
        BY <1>1, <3>1, <3>2, <4>1 DEF HangsFrom
    <3>3. CASE k \notin 1 .. Len(ir.ops)
      <4>1. k \in Len(ir.ops) + 1 .. Len(ir'.ops)
        BY <1>1, <3>3
      <4>2. ir'.ops[k].regions # <<>>
        BY <3>1
      <4>3. LoopOf(ir'.ops[k], h, body, olds)
        BY <4>1, <4>2 DEF LoopEnds, ConstOf, YieldOf, h, n
      <4>4. d = h /\ c = body
        BY <3>1, <4>3 DEF LoopOf
      <4>5. n \in DOMAIN frames /\ c \in {frames[n].body, frames[n].other}
        BY <1>1, <4>4
      <4> QED
        BY <4>4, <4>5 DEF HangsFrom, h
    <3> QED
      BY <3>2, <3>3
  <2> QED
    BY <1>1, <2>1, <2>2 DEF HangsFrom
<1>5. Len(ir'.args) = Len(ir.args)
  BY DEF LoopEnds
<1> QED
  BY <1>1, <1>4, <1>5, AboveFewer

(* So it retires its own initial values, and those of the loops before it   *)
(* stay retired: whatever it redirects, it redirects to a fresh id.         *)
LEMMA RetiredFor ==
    ASSUME DomInv, EInv', ExitFor, LoopRules(Top), Retired
    PROVE  Retired'
<1> DEFINE n == Len(frames)
           h == ir.stack[n]
           body == Top.body
<1>1. /\ ir.err = "none" /\ frames # <<>> /\ frames' = Up /\ Top.s.s \in LoopKinds
  BY DEF ExitFor
<1>2. PICK olds, news, finals : Retiring(olds, news, finals) /\ LoopEnds(olds, news, finals, h, body)
  BY LoopRetires
<1>3. /\ Inv /\ Inv' /\ ir \in IRs /\ ir' \in IRs /\ TypeOK /\ Tree(ir) /\ Nested(ir, frames) /\ Accepts(ir)
      /\ n \in Nat \ {0} /\ n \in 1 .. n /\ Top = frames[n] /\ Len(ir.stack) = n + 1
      /\ Len(ir.ops) \in Nat /\ Len(ir'.ops) \in Nat /\ Len(ir.args) \in Nat /\ ir.next \in Nat
      /\ \A k \in 1 .. Len(ir.ops) : ir.ops[k] \in Operations /\ ir.ops[k].blk \in 1 .. Len(ir.args)
  <2>1. EInv
    BY DEF DomInv
  <2>2. Inv' /\ ir' \in IRs /\ Len(ir'.ops) \in Nat
    BY PartsType DEF EInv, Inv, TypeOK
  <2> QED
    BY <1>1, <2>1, <2>2, TopHeld, DomRunning, EmitRunning, PartsType
<1>4. Held(Top) = {body}
  BY <1>1, LoopOffers
<1>5. \A c \in 1 .. Len(ir.args) : Above(c)' \subseteq Above(c)
  BY <1>1, <1>2, <1>3, <1>4, LoopHangs
<1>6. /\ h \in 1 .. Len(ir.args) /\ h < body /\ body \in 1 .. Len(ir.args)
      /\ h \in Growing(ir, frames) /\ body \in Growing(ir, frames)
  <2>1. body \in 2 .. Len(ir.args) /\ h < body /\ h \in 1 .. Len(ir.args)
    BY <1>1, <1>3, <1>4, StackRises DEF Nested
  <2>2. n \in 1 .. Len(ir.stack)
    BY <1>3
  <2> QED
    BY <1>3, <1>4, <2>1, <2>2 DEF Growing
<1>7. \A c \in Growing(ir, frames) : Free(ir, c) /\ Above(c) \subseteq Growing(ir, frames)
  BY <1>3, GrowingAbove
<1>8. body \notin Above(h)
  <2> SUFFICES ASSUME body \in Above(h) PROVE FALSE
    OBVIOUS
  <2>1. body <= h
    BY <1>1, <1>3, <1>6, AboveOlder
  <2> QED
    BY <1>6, <2>1
<1>9. ASSUME NEW k \in 1 .. Len(ir.ops)
      PROVE  /\ ir'.ops[k].name = ir.ops[k].name /\ ir'.ops[k].blk = ir.ops[k].blk
             /\ ir'.ops[k].regions = ir.ops[k].regions /\ Len(ir'.ops[k].operands) = Len(ir.ops[k].operands)
             /\ DOMAIN ir'.ops[k].operands = DOMAIN ir.ops[k].operands
             /\ DOMAIN ir.ops[k].operands = 1 .. Len(ir.ops[k].operands)
             /\ \A j \in DOMAIN ir.ops[k].operands :
                  /\ Moves(ir.ops[k].operands[j], ir'.ops[k].operands[j], olds, news)
                  /\ ir.ops[k].operands[j] \in Nat /\ ir.ops[k].operands[j] < ir.next
  <2>1. ir.ops[k] \in Operations /\ (ir'.ops[k] = ir.ops[k] \/ ir'.ops[k] = Rewired(ir.ops[k], olds, news))
    BY <1>2, <1>3 DEF LoopEnds
  <2>2. ir.ops[k].operands \in Seq(Ids)
    BY <2>1 DEF Operations
  <2>3. Once(ir) /\ UsesDefined(ir)
    <3>1. Once(ir) /\ UseInv
      BY <1>1, DomRunning
    <3> QED
      BY <3>1 DEF UseInv, Good
  <2>4. \A j \in DOMAIN ir.ops[k].operands : ir.ops[k].operands[j] \in Ids /\ ir.ops[k].operands[j] < ir.next
    BY <1>3, <2>3, OperandsBelow
  <2> QED
    BY <1>2, <2>1, <2>2, <2>4, RewiredMoves, LenProperties DEF Ids
<1> HIDE DEF n, h, body
<1> SUFFICES ASSUME NEW k \in 1 .. Len(ir'.ops), NEW m \in 1 .. Len(ir'.ops), NEW b, NEW c,
                    ir'.ops[k].name \in LoopNames, ir'.ops[k].regions[1] = b, ir'.ops[m].blk = c,
                    b \in Above(c)', NEW j \in 4 .. Len(ir'.ops[k].operands),
                    NEW i \in DOMAIN ir'.ops[m].operands
             PROVE  ir'.ops[k].operands[j] # ir'.ops[m].operands[i]
  BY DEF Retired, Operands
<1>10. /\ k \in 1 .. Len(ir.ops) \/ k \in Len(ir.ops) + 1 .. Len(ir'.ops)
       /\ m \in 1 .. Len(ir.ops) \/ m \in Len(ir.ops) + 1 .. Len(ir'.ops)
  BY <1>3
<1>11. m \in Len(ir.ops) + 1 .. Len(ir'.ops) =>
         \/ c = h
         \/ c = body /\ ir'.ops[m].operands = finals
  BY <1>2 DEF LoopEnds, ConstOf, YieldOf, LoopOf
<1>12. CASE k \in 1 .. Len(ir.ops)
  <2>1. /\ ir.ops[k].name \in LoopNames /\ ir.ops[k].regions[1] = b
        /\ j \in DOMAIN ir.ops[k].operands /\ j \in 4 .. Len(ir.ops[k].operands)
    <3>1. \A l \in 4 .. Len(ir.ops[k].operands) : l \in 1 .. Len(ir.ops[k].operands)
      OBVIOUS
    <3> QED
      BY <1>9, <1>12, <3>1
  <2>2. ~Free(ir, b)
    <3>1. ir.ops[k].name \in Bodied
      BY <2>1 DEF Bodied, LoopNames
    <3>2. Len(ir.ops[k].regions) = 1 /\ ir.ops[k].regions \in Seq(Blocks)
      BY <1>3, <1>12, <3>1 DEF Accepts, Accepted, Operations
    <3>3. 1 \in DOMAIN ir.ops[k].regions
      BY <3>2, LenProperties
    <3> QED
      BY <1>12, <2>1, <3>3 DEF Free
  <2>3. CASE m \in 1 .. Len(ir.ops)
    <3>1. ir.ops[m].blk = c /\ c \in 1 .. Len(ir.args) /\ i \in DOMAIN ir.ops[m].operands
      BY <1>3, <1>9, <2>3
    <3>2. b \in Above(c)
      BY <1>5, <3>1
    <3>3. ir.ops[k].operands[j] \notin Operands(ir.ops[m])
      BY <1>12, <2>1, <2>3, <3>1, <3>2 DEF Retired
    <3>4. ir.ops[k].operands[j] # ir.ops[m].operands[i]
      BY <3>1, <3>3 DEF Operands
    <3> DEFINE u == ir.ops[k].operands[j]
               v == ir.ops[m].operands[i]
               w == ir'.ops[k].operands[j]
               z == ir'.ops[m].operands[i]
    <3>5. /\ Moves(u, w, olds, news) /\ u \in Nat /\ u < ir.next
          /\ Moves(v, z, olds, news) /\ v \in Nat /\ v < ir.next /\ u # v
      BY <1>9, <1>12, <2>1, <2>3, <3>1, <3>4
    <3> HIDE DEF u, v, w, z
    <3>6. w # z
      BY <1>2, <1>3, <3>5, MovesApart
    <3> QED
      BY <3>6 DEF w, z
  <2>4. CASE m \in Len(ir.ops) + 1 .. Len(ir'.ops)
    <3>1. c \in 1 .. Len(ir.args) /\ c \in Growing(ir, frames)
      BY <1>6, <1>11, <2>4
    <3>2. b \in Growing(ir, frames)
      BY <1>5, <1>7, <3>1
    <3> QED
      BY <1>7, <2>2, <3>2
  <2> QED
    BY <1>10, <2>3, <2>4
<1>13. CASE k \in Len(ir.ops) + 1 .. Len(ir'.ops)
  <2>1. /\ LoopOf(ir'.ops[k], h, body, olds)
        /\ \A l \in 1 .. Len(ir.ops) :
             body \in Above(ir.ops[l].blk) => ir'.ops[l] = Rewired(ir.ops[l], olds, news)
    BY <1>2, <1>13 DEF LoopEnds, ConstOf, YieldOf
  <2>2. b = body
    <3>1. ir'.ops[k].regions = <<body>>
      BY <2>1 DEF LoopOf
    <3> QED
      BY <3>1
  <2>3. PICK l \in 1 .. Len(olds) : ir'.ops[k].operands[j] = olds[l]
    BY <2>1 DEF LoopOf
  <2>4. CASE m \in 1 .. Len(ir.ops)
    <3>1. ir.ops[m].blk = c /\ c \in 1 .. Len(ir.args) /\ i \in DOMAIN ir.ops[m].operands
      BY <1>3, <1>9, <2>4
    <3>2. body \in Above(c)
      BY <1>5, <2>2, <3>1
    <3>3. ir'.ops[m] = Rewired(ir.ops[m], olds, news) /\ ir.ops[m] \in Operations
      BY <1>3, <2>1, <2>4, <3>1, <3>2
    <3>4. Rewired(ir.ops[m], olds, news).operands[i] # olds[l]
      BY <1>2, <1>3, <3>1, <3>3, RewiredApart
    <3> QED
      BY <2>3, <3>3, <3>4
  <2>5. CASE m \in Len(ir.ops) + 1 .. Len(ir'.ops)
    <3>1. c # h
      BY <1>5, <1>6, <1>8, <2>2
    <3>2. ir'.ops[m].operands = finals
      BY <1>11, <2>5, <3>1
    <3>3. i \in 1 .. Len(finals)
      BY <1>2, <3>2, LenProperties DEF Retiring
    <3>4. olds[l] # finals[i]
      BY <1>2, <3>3 DEF Retiring
    <3> QED
      BY <2>3, <3>2, <3>4
  <2> QED
    BY <1>10, <2>4, <2>5
<1> QED
  BY <1>10, <1>12, <1>13

(* The inductive invariant.                                                 *)
RetInv == DomInv /\ Retired

(* What Above computes, of an IR r and a stack of frames h.                 *)
AboveIn(r, h, b) ==
    LET attached(c) == {r.ops[k].blk : k \in {m \in DOMAIN r.ops :
                          \E j \in DOMAIN r.ops[m].regions : r.ops[m].regions[j] = c}}
        open(c) == {r.stack[k] : k \in {m \in DOMAIN h : c \in {h[m].body, h[m].other}}}
        up[c \in 1..Len(r.args)] ==
          {c} \cup UNION {up[d] : d \in {e \in attached(c) \cup open(c) : e < c}}
    IN  up[b]

(* The blocks above a block are the same where the IR and the frames are.   *)
LEMMA SameAbove ==
    ASSUME ir' = ir, frames' = frames
    PROVE  \A c : Above(c)' = Above(c)
<1>1. \A c : Above(c) = AboveIn(ir, frames, c)
  BY Zenon DEF Above, AboveIn
<1>2. \A c : Above(c)' = AboveIn(ir', frames', c)
  BY Zenon DEF Above, AboveIn
<1> QED
  BY <1>1, <1>2, Zenon

(* Nothing has been appended to the body of the kernel yet.                 *)
LEMMA InitRet == DInit => RetInv
<1> SUFFICES ASSUME DInit PROVE RetInv
  OBVIOUS
<1>1. DomInv
  BY InitDom
<1>2. ir.ops = <<>>
  BY DEF DInit, Init
<1>3. 1 .. Len(ir.ops) = {}
  BY <1>2
<1> QED
  BY <1>1, <1>3 DEF RetInv, Retired

(* Every step that keeps the rules keeps it.                                *)
LEMMA NextRet == RetInv /\ [DNext]_dvars => RetInv'
<1> SUFFICES ASSUME RetInv, [DNext]_dvars PROVE RetInv'
  OBVIOUS
<1>1. DomInv /\ EInv /\ UseInv /\ Retired
  BY DEF RetInv, DomInv
<1>2. DomInv' /\ EInv' /\ UseInv' /\ Inv /\ Inv'
  <2>1. DomInv'
    BY <1>1, NextDom
  <2> QED
    BY <1>1, <2>1 DEF DomInv, EInv
<1>3. ASSUME ir.err = "none", Kept, Placed PROVE Retired'
  <2>1. Accepts(ir)
    BY <1>1, <1>3, EmitRunning
  <2> QED
    BY <1>1, <1>2, <1>3, <2>1, RetiredStays
<1>4. CASE UNCHANGED dvars \/ (Stop /\ UNCHANGED live)
  <2>1. ir' = ir /\ frames' = frames
    BY <1>4 DEF Stop, dvars, vars
  <2>2. \A c : Above(c)' = Above(c)
    BY <2>1, SameAbove
  <2>3. Retired'
    BY <1>1, <2>1, <2>2 DEF Retired
  <2> QED
    BY <1>2, <2>3 DEF RetInv
<1>5. ASSUME NEW st \in Menu, DStatement(st) PROVE Retired'
  <2>1. RulesOf(st)
    BY <1>5 DEF DStatement
  <2>2. CASE (Assign(st) \/ TupleAssign(st) \/ AugAssign(st)) /\ live' = Within(Live \cup Bound(st))
    <3>1. ir.err = "none"
      BY <2>2 DEF Assign, TupleAssign, AugAssign, Stmt, Reached
    <3>2. Kept
      BY <1>1, <2>2, AssignEmit, TupleAssignEmit, AugAssignEmit
    <3>3. Placed
      BY <1>1, <1>2, <2>1, <2>2, AssignDom, TupleAssignDom, AugAssignDom
    <3> QED
      BY <1>3, <3>1, <3>2, <3>3
  <2>3. CASE /\ AssignSlice(st) \/ AugAssignSlice(st) \/ Return(st) \/ SkipRest(st)
             /\ live' = live
    <3>1. ir.err = "none"
      BY <2>3 DEF AssignSlice, AugAssignSlice, Return, SkipRest, Stmt, Reached
    <3>2. Kept
      BY <1>1, <2>3, AssignSliceEmit, AugAssignSliceEmit, ReturnEmit, SkipRestEmit
    <3>3. Placed
      BY <1>1, <1>2, <2>1, <2>3, AssignSliceDom, AugAssignSliceDom, ReturnDom, SkipRestDom
    <3> QED
      BY <1>3, <3>1, <3>2, <3>3
  <2>4. CASE (EnterFor(st) \/ EnterKernel(st)) /\ live' = Append(live, Live \cup Bound(st))
    <3>1. ir.err = "none"
      BY <2>4 DEF EnterFor, EnterKernel, Compound, Stmt, Reached
    <3>2. Kept
      BY <1>1, <2>4, EnterForEmit, EnterKernelEmit
    <3>3. Placed
      BY <1>1, <1>2, <2>1, <2>4, EnterForDom, EnterKernelDom
    <3> QED
      BY <1>3, <3>1, <3>2, <3>3
  <2>5. CASE (EnterIf(st) \/ EnterWhile(st)) /\ live' = Append(live, Live)
    <3>1. ir.err = "none"
      BY <2>5 DEF EnterIf, EnterWhile, Compound, Stmt, Reached
    <3>2. Kept
      BY <1>1, <2>5, EnterIfEmit, EnterWhileEmit
    <3>3. Placed
      BY <1>1, <1>2, <2>1, <2>5, EnterIfDom, EnterWhileDom
    <3> QED
      BY <1>3, <3>1, <3>2, <3>3
  <2> QED
    BY <1>5, <2>2, <2>3, <2>4, <2>5 DEF DStatement
<1>6. ASSUME DExit PROVE Retired'
  <2>1. CASE ExitFor /\ LoopRules(Top)
    BY <1>1, <1>2, <2>1, RetiredFor
  <2>2. CASE EnterElse /\ live' = Pop(Survivors(Top)) \o <<Survivors(Top)>>
    <3>1. ir.err = "none" /\ Kept
      BY <1>1, <2>2, EnterElseEmit DEF EnterElse
    <3>2. Placed
      BY <1>1, <1>2, <2>2, EnterElseDom
    <3> QED
      BY <1>3, <3>1, <3>2
  <2>3. CASE (ExitIf \/ ExitKernel \/ ExitWhile) /\ live' = Pop(Survivors(Top))
    <3>1. ir.err = "none" /\ Kept
      BY <1>1, <2>3, ExitIfEmit, ExitKernelEmit, ExitWhileEmit DEF ExitIf, ExitKernel, ExitWhile
    <3>2. Placed
      BY <1>1, <1>2, <2>3, ExitIfDom, ExitKernelDom, ExitWhileDom
    <3> QED
      BY <1>3, <3>1, <3>2
  <2> QED
    BY <1>6, <2>1, <2>2, <2>3 DEF DExit
<1> QED
  BY <1>2, <1>4, <1>5, <1>6 DEF RetInv, DNext

(* In the trace of a kernel that keeps the rules of Discipline, whether the *)
(* builder refuses it in the end or not, nothing in the body of a loop at   *)
(* any depth, its yield included, uses the value from before the loop of a  *)
(* name that the loop carries: _replace_region_uses reached every use when  *)
(* the loop ended, and no later loop redirects an operand back to it.       *)
THEOREM InitialsAreRetired == DSpec => []InitialsRetired
<1>1. DInit => RetInv
  BY InitRet
<1>2. RetInv /\ [DNext]_dvars => RetInv'
  BY NextRet
<1>3. RetInv => InitialsRetired
  BY RetiredIs DEF RetInv, DomInv, EInv, Inv
<1> QED
  BY <1>1, <1>2, <1>3, PTL DEF DSpec
=============================================================================
