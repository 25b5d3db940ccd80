----------------------------- MODULE Discipline -----------------------------
(***************************************************************************)
(* Which kernel sources the tracer of Tracer.tla compiles to what Python    *)
(* means by them. Tracer accepts every source; this module adds to it the   *)
(* rules a kernel writer has to keep, as a guard on each step, with the     *)
(* variable                                                                 *)
(*   live   stack, one per open block: the names that may be read there     *)
(* A name lives from its binding to the end of the block that binds it.     *)
(* EnterIf pushes one set: both branches start from the same names.         *)
(***************************************************************************)
EXTENDS TracerProperties

VARIABLE live

dvars == <<vars, live>>

Live == live[Len(live)]

(* The block that defines v, and whether an operation appended now in the   *)
(* current block would be dominated by it.                                  *)
DefinedIn(r, v) ==
    {b \in DOMAIN r.args : \/ \E j \in DOMAIN r.args[b] : r.args[b][j] = v
                           \/ \E k \in OpsOf(r, b) : v \in Results(r.ops[k])}
Visible(r, v) == \E j \in DOMAIN r.stack : r.stack[j] \in DefinedIn(r, v)
Usable(r, o) == IsVal(o) => Visible(r, o.n)

(* The same value: equal, or a number and the const it was made into.       *)
Same(r, a, b) ==
    \/ a = b
    \/ /\ IsNum(a) /\ IsVal(b)
       /\ \E k \in DOMAIN r.ops : /\ r.ops[k].name = "const" /\ r.ops[k].attr = a.n
                                  /\ b.n \in Results(r.ops[k])

(* Rules on statements: read live names only; the target of += must not     *)
(* have been rebound behind the Python local; no break or continue in a     *)
(* branch, no break at all; return only at the end of the kernel; the       *)
(* target of with is a new name.                                            *)
ReadsLive(st) == \A j \in DOMAIN st.arg : st.arg[j] \in Live
AugReadsBinding(st) ==
    st.s = "aug" => /\ st.dst[1] \in Live
                    /\ locals[st.dst[1]] = Rval(st.dst[1])
KeepsControl(st) ==
    /\ st.s # "break"
    /\ st.s = "continue" => InLoop /\ Top.s.s # "if"
    /\ st.s = "return" => frames = <<>>
    /\ st.s = "kernel" => st.dst[1] \notin Live /\ scope.at[st.dst[1]] = Unbound
RulesOf(st) == ~Terminated(ir, Block(ir)) /\ ReadsLive(st) /\ AugReadsBinding(st) /\ KeepsControl(st)

(* Rules on the end of a loop body. A name that is live again after the     *)
(* loop and was rebound must be carried. What is carried must have an       *)
(* initial that is visible, that no other live or carried name stands for,  *)
(* and that is not itself the final value of a name.                        *)
Initial(f, x) == f.before.at[x]
CarriedNames(f) == {f.before.order[j] : j \in Carried(ir, f.before, scope)}
Outer == live[Len(live) - 1]
LoopRules(f) ==
    LET carried == CarriedNames(f)
        bound == {f.before.order[j] : j \in DOMAIN f.before.order}
    IN  /\ \A x \in Outer : x \in Live /\ (x \in carried \/ scope.at[x] = Initial(f, x))
        /\ \A x \in carried :
             /\ Usable(ir, Initial(f, x)) /\ Usable(ir, scope.at[x])
             /\ \A y \in bound \ {x} :
                  /\ y \in carried \cup Outer => Initial(f, y) # Initial(f, x)
                  /\ y \in carried => scope.at[y] # Initial(f, x)
WhileRules(f) ==
    \A x \in Outer : Same(ir, Initial(f, x), scope.at[x])

(* After a block, a name lives on if it stands for what it stood for.       *)
Survivors(f) == {x \in Outer \cap Live : scope.at[x] = Initial(f, x)}

DInit == Init /\ live = <<{x \in Names : scope.at[x] # Unbound}>>

Bound(st) == {st.dst[j] : j \in DOMAIN st.dst}
Pop(top) == Append(SubSeq(live, 1, Len(live) - 2), top)
Within(names) == [live EXCEPT ![Len(live)] = names]

DStatement(st) ==
    /\ RulesOf(st)
    /\ \/ /\ Assign(st) \/ TupleAssign(st) \/ AugAssign(st)
          /\ live' = Within(Live \cup Bound(st))
       \/ /\ AssignSlice(st) \/ AugAssignSlice(st) \/ Return(st) \/ SkipRest(st)
          /\ UNCHANGED live
       \/ /\ EnterFor(st) \/ EnterKernel(st)
          /\ live' = Append(live, Live \cup Bound(st))
       \/ /\ EnterIf(st) \/ EnterWhile(st)
          /\ live' = Append(live, Live)

DExit ==
    \/ ExitFor /\ LoopRules(Top) /\ live' = Pop(Outer)
    \/ EnterElse /\ live' = Pop(Survivors(Top)) \o <<Survivors(Top)>>
    \/ (ExitIf \/ ExitKernel) /\ live' = Pop(Survivors(Top))
    \/ ExitWhile /\ WhileRules(Top) /\ live' = Pop(Survivors(Top))

DNext == (\E st \in Menu : DStatement(st)) \/ DExit \/ (Stop /\ UNCHANGED live)

DSpec == DInit /\ [][DNext]_dvars
=============================================================================
