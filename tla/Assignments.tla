---------------------------- MODULE Assignments ----------------------------
(***************************************************************************)
(* How DSLMutator rewrites an assignment (tileflow/compiler/ast.py), and    *)
(* what the rewritten statements do when they run, next to what Python does *)
(* with the assignment as it was written.                                   *)
(*                                                                          *)
(* t1 = t2 = ... = value is the sequence of its targets and an expression.  *)
(* What is nested in tuples, a target, an expression or an object, is given *)
(* by its leaves and the place of each: <<2, 1>> is the first element of    *)
(* the second element. A target's leaves are names and subscripts A[x]; an  *)
(* expression's are numbers, T.empty(...) and names; an object's numbers,   *)
(* what T.empty returns (n tells which call of it did) and the tensors that *)
(* Builder.bind makes of that. No tuple is empty.                           *)
(***************************************************************************)
EXTENDS Integers, Sequences, FiniteSets, SequencesExt

CONSTANTS
    Names,
    Targets,   \* the left-hand sides of a kernel: sequences of targets
    Values,    \* and its right-hand sides
    MaxSteps   \* bound: assignments of a kernel

(* No leaf is in the place of another, or in a part of it.                  *)
Places == Seq(Nat)
Apart(leaves) == /\ leaves # <<>>
                 /\ \A i, j \in DOMAIN leaves : IsPrefix(leaves[i].at, leaves[j].at) => i = j
TargetLeaf == [at : Places, k : {"name", "sub"}, x : Names]
ValueLeaf == [at : Places, k : {"num", "empty"}, n : Int] \cup [at : Places, k : {"read"}, x : Names]

ASSUME SyntaxAssumption ==
    /\ Targets \subseteq Seq([leaves : {s \in Seq(TargetLeaf) : Apart(s)}, lists : BOOLEAN]) \ {<<>>}
    /\ Values \subseteq {s \in Seq(ValueLeaf) : Apart(s)}
ASSUME BoundAssumption == MaxSteps \in Nat

VARIABLES
    code,      \* what is left of the rewritten assignment
    value,     \* its right-hand side
    scope,     \* Builder.bindings[-1]
    temps,     \* the Python locals __0, __1, ...
    stores,    \* what was stored: [index, value]
    outputs,   \* the outputs: which T.empty(...) each is
    empties,   \* history: how often T.empty was called
    kept,      \* history: a name stood for a tuple that what T.empty returned is in
    status,    \* "running", "raised" or "rejected" by the rewriter
    python,    \* history: the same under Python: [scope, stores, empties, raised]
    left       \* assignments left

vars == <<code, value, scope, temps, stores, outputs, empties, kept, status, python, left>>

(***************************************************************************)
(* Objects: place -> leaf.                                                  *)
(***************************************************************************)
Num(n) == [k |-> "num", n |-> n]
Out(n) == [k |-> "out", n |-> n]
Tensor(n, id) == [k |-> "tensor", n |-> n, id |-> id]
Single(leaf) == [p \in {<<>>} |-> leaf]
Unbound == [p \in {} |-> Num(0)]

IsSingle(o) == DOMAIN o = {<<>>}
Is(o, k) == IsSingle(o) /\ o[<<>>].k = k

Beyond(p, q) == SubSeq(q, Len(p) + 1, Len(q))
Nested(at, o) == [p \in {at \o q : q \in DOMAIN o} |-> o[Beyond(at, p)]]
Part(o, at) == [q \in {Beyond(at, p) : p \in {r \in DOMAIN o : IsPrefix(at, r)}} |-> o[at \o q]]

(* An object has the shape of a target.                                     *)
Fits(t, o) ==
    /\ \A j \in DOMAIN t.leaves : \E p \in DOMAIN o : IsPrefix(t.leaves[j].at, p)
    /\ \A p \in DOMAIN o : \E j \in DOMAIN t.leaves : IsPrefix(t.leaves[j].at, p)

(* The calls of T.empty in the first j leaves of an expression, and in all, *)
(* and the names it reads.                                                  *)
CallsIn(e, j) == Cardinality({i \in 1..j : e[i].k = "empty"})
Calls(e) == CallsIn(e, Len(e))
Reads(e) == {e[j].x : j \in {i \in DOMAIN e : e[i].k = "read"}}

(* An expression in a scope, when T.empty was called n times before.        *)
Yields(e, j, sc, n) ==
    CASE e[j].k = "num" -> Single(Num(e[j].n))
      [] e[j].k = "empty" -> Single(Out(n + CallsIn(e, j - 1)))
      [] e[j].k = "read" -> sc[e[j].x]
Evaluates(e, sc, n) ==
    LET part == [j \in DOMAIN e |-> Nested(e[j].at, Yields(e, j, sc, n))]
        holding(p) == {j \in DOMAIN e : p \in DOMAIN part[j]}
    IN  [p \in UNION {DOMAIN part[j] : j \in DOMAIN e} |-> part[CHOOSE j \in holding(p) : TRUE][p]]

(***************************************************************************)
(* Python: the value once, then the targets from left to right.             *)
(***************************************************************************)
IsIndex(o) == DOMAIN o # {} /\ \A p \in DOMAIN o : Len(p) <= 1 /\ o[p].k = "num"
Storable(index, o) == Is(o, "num") /\ IsIndex(index)
PyLeaf(s, l, o) ==
    CASE s.raised -> s
      [] ~s.raised /\ l.k = "name" -> [s EXCEPT !.scope[l.x] = o]
      [] ~s.raised /\ l.k = "sub" ->
            IF Storable(s.scope[l.x], o)
            THEN [s EXCEPT !.stores = Append(@, [index |-> s.scope[l.x], value |-> o])]
            ELSE [s EXCEPT !.raised = TRUE]
PyTarget(s, t, o) ==
    LET after[j \in 0..Len(t.leaves)] ==
          IF j = 0 THEN s ELSE PyLeaf(after[j - 1], t.leaves[j], Part(o, t.leaves[j].at))
    IN  IF Fits(t, o) THEN after[Len(t.leaves)] ELSE [s EXCEPT !.raised = TRUE]
PyAssign(s, ts, e) ==
    LET o == Evaluates(e, s.scope, s.empties)
        after[j \in 0..Len(ts)] ==
          IF j = 0 THEN [s EXCEPT !.empties = @ + Calls(e)] ELSE PyTarget(after[j - 1], ts[j], o)
    IN  after[Len(ts)]

(***************************************************************************)
(* _emit_assign_target: the statements that assign what e stands for, the   *)
(* right-hand side or a temporary. A tuple goes through temporaries of its  *)
(* own, which are bound to "_" first, one after the other. Lists, and       *)
(* subscripts in a tuple, are rejected while the kernel is decorated.       *)
(***************************************************************************)
IsTuple(t) == t.leaves[1].at # <<>>
Rewrites(t) == ~t.lists /\ (IsTuple(t) => \A j \in DOMAIN t.leaves : t.leaves[j].k = "name")

Rhs == -1
Stmt(s, t, e) == [s |-> s, t |-> t, e |-> e]
Temporaries(t, base) == [j \in DOMAIN t.leaves |-> base + j]
EmitAssignTarget(t, e, base) ==
    LET ls == t.leaves
        ids == Temporaries(t, base)
    IN  IF IsTuple(t)
        THEN <<Stmt("unpack", [leaves |-> ls, ids |-> ids], e)>>
               \o [j \in DOMAIN ls |-> Stmt("hide", ls[j], ids[j])]
               \o [j \in DOMAIN ls |-> Stmt("bind", ls[j], ids[j])]
        ELSE <<Stmt(IF ls[1].k = "name" THEN "bind" ELSE "slice", ls[1], e)>>

(* visit_Assign: several targets share one temporary, number 0.             *)
Width == 10                             \* bound: temporaries of a target
MutVisitAssign(ts) ==                   \* a bug: the value once per target
    FlattenSeq([j \in DOMAIN ts |-> EmitAssignTarget(ts[j], Rhs, Width * j)])
VisitAssign(ts) ==
    IF Len(ts) = 1 THEN EmitAssignTarget(ts[1], Rhs, 0)
    ELSE <<Stmt("keep", ts[1], Rhs)>>
           \o FlattenSeq([j \in DOMAIN ts |-> EmitAssignTarget(ts[j], 0, Width * j)])

(* The next assignment of the kernel.                                       *)
Assign(ts, e) ==
    /\ status = "running" /\ code = <<>> /\ left > 0
    /\ \A x \in Reads(e) : scope[x] # Unbound
    /\ left' = left - 1
    /\ IF \A j \in DOMAIN ts : Rewrites(ts[j])
       THEN /\ code' = VisitAssign(ts) /\ value' = e
            /\ python' = PyAssign(python, ts, e)
            /\ UNCHANGED status
       ELSE status' = "rejected" /\ UNCHANGED <<code, value, python>>
    /\ temps' = <<>>
    /\ UNCHANGED <<scope, stores, outputs, empties, kept>>

(***************************************************************************)
(* The rewritten statements, one by one.                                    *)
(***************************************************************************)
Stands(e) == IF e = Rhs THEN Evaluates(value, scope, empties) ELSE temps[e]
Counts(e) == empties' = IF e = Rhs THEN empties + Calls(value) ELSE empties

(* Builder.bind of an object: only an OutTensor itself becomes an output.   *)
Bound(o) == IF Is(o, "out") THEN Single(Tensor(o[<<>>].n, Len(outputs))) ELSE o
MakesOutput(o) == outputs' = IF Is(o, "out") THEN Append(outputs, o[<<>>].n) ELSE outputs

HoldsOut(o) == \E p \in DOMAIN o : o[p].k = "out"
Keeps(o) == kept' = (kept \/ (~IsSingle(o) /\ HoldsOut(o)))

With(old, ids, objs) == [i \in DOMAIN old \cup {ids[j] : j \in DOMAIN ids} |->
                           IF \E j \in DOMAIN ids : ids[j] = i
                           THEN objs[CHOOSE j \in DOMAIN ids : ids[j] = i] ELSE old[i]]

Run(s) == status = "running" /\ code # <<>> /\ Head(code).s = s
Done == code' = Tail(code) /\ UNCHANGED <<value, python, left>>

(* x = __tb.bind("x", e), and __0 = __tb.bind("__0", e)                     *)
Bind ==
    /\ Run("bind")
    /\ LET o == Stands(Head(code).e)
       IN  /\ scope' = [scope EXCEPT ![Head(code).t.x] = Bound(o)]
           /\ MakesOutput(o) /\ Keeps(o)
    /\ Counts(Head(code).e)
    /\ Done /\ UNCHANGED <<temps, stores, status>>
Keep ==
    /\ Run("keep")
    /\ LET o == Stands(Rhs)
       IN  temps' = With(temps, <<0>>, <<Bound(o)>>) /\ MakesOutput(o) /\ Keeps(o)
    /\ Counts(Rhs)
    /\ Done /\ UNCHANGED <<scope, stores, status>>

(* __tb.assign_slice(A, x, e)                                               *)
Slice ==
    /\ Run("slice")
    /\ LET o == Stands(Head(code).e)
           index == scope[Head(code).t.x]
       IN  IF Storable(index, o)
           THEN stores' = Append(stores, [index |-> index, value |-> o]) /\ UNCHANGED status
           ELSE status' = "raised" /\ UNCHANGED stores
    /\ Counts(Head(code).e)
    /\ Done /\ UNCHANGED <<scope, temps, outputs, kept>>

(* __1, (__2, __3) = __tb.unwrap_value(e)                                   *)
Unpack ==
    /\ Run("unpack")
    /\ LET o == Stands(Head(code).e)
           t == Head(code).t
       IN  IF Fits(t, o)
           THEN /\ temps' = With(temps, t.ids, [j \in DOMAIN t.leaves |-> Part(o, t.leaves[j].at)])
                /\ UNCHANGED status
           ELSE status' = "raised" /\ UNCHANGED temps
    /\ Counts(Head(code).e)
    /\ Done /\ UNCHANGED <<scope, stores, outputs, kept>>

(* __1, __2, = __tb.bind("_", __1), __tb.bind("_", __2),  one of the calls. *)
MutHide ==                              \* a bug: the temporary keeps what it held
    /\ Run("hide")
    /\ MakesOutput(temps[Head(code).e])
    /\ Done /\ UNCHANGED <<scope, temps, stores, empties, kept, status>>
Hide ==
    /\ Run("hide")
    /\ LET i == Head(code).e
       IN  temps' = [temps EXCEPT ![i] = Bound(@)] /\ MakesOutput(temps[i])
    /\ Done /\ UNCHANGED <<scope, stores, empties, kept, status>>

Start == [x \in Names |-> Unbound]
Init ==
    /\ code = <<>> /\ value = <<>>
    /\ scope = Start /\ temps = <<>> /\ stores = <<>> /\ outputs = <<>> /\ empties = 0 /\ kept = FALSE
    /\ status = "running"
    /\ python = [scope |-> Start, stores |-> <<>>, empties |-> 0, raised |-> FALSE]
    /\ left = MaxSteps

Next ==
    \/ \E ts \in Targets, e \in Values : Assign(ts, e)
    \/ Bind \/ Keep \/ Slice \/ Unpack \/ Hide

Spec == Init /\ [][Next]_vars

(***************************************************************************)
(* What is stated between two assignments.                                  *)
(***************************************************************************)
(* A name means the same: the same number, a tuple of the same, or the      *)
(* tensor made of what the same call of T.empty returned.                   *)
SameLeaf(a, b) == IF b.k = "out" THEN a.k \in {"out", "tensor"} /\ a.n = b.n ELSE a = b
Same(o, p) == DOMAIN o = DOMAIN p /\ \A q \in DOMAIN o : SameLeaf(o[q], p[q])

(* After every assignment the names mean, the stores wrote and T.empty was  *)
(* called what they would be under Python, and the rewritten assignment     *)
(* raises just when the assignment does: through swaps, chains of targets,  *)
(* nested tuples, repeated names and indices that an earlier target binds.  *)
AssignsAsPython ==
    /\ status = "raised" => python.raised
    /\ status = "running" /\ code = <<>> =>
         /\ ~python.raised
         /\ \A x \in Names : Same(scope[x], python.scope[x])
         /\ stores = python.stores /\ empties = python.empties

(* Every call of T.empty makes one output at most: a tensor in scope is the *)
(* output it says it is, and names for what one call returned stand for one *)
(* tensor. A tuple must not be kept for that: what is in it becomes another *)
(* output each time it is unpacked.                                         *)
TensorsOf(o) == {o[p] : p \in {q \in DOMAIN o : o[q].k = "tensor"}}
OutputPerCall ==
    ~kept =>
      /\ Len(outputs) <= empties
      /\ \A x \in Names : \A o \in TensorsOf(scope[x]) : outputs[o.id + 1] = o.n
      /\ \A x, y \in Names : \A o \in TensorsOf(scope[x]), p \in TensorsOf(scope[y]) : o.n = p.n => o = p
=============================================================================
