------------------------------ MODULE JitCalls ------------------------------
(***************************************************************************)
(* Calls of jitted kernels (tileflow/compiler/compiler.py) by several       *)
(* threads, and by kernels while they are traced. Each call makes a Builder *)
(* of its own and enters it: `with Builder(...)' pushes it on the stack of  *)
(* active builders, which is per thread (tileflow/language/ir.py:304). A    *)
(* statement reaches a builder in one of two ways,                          *)
(*   "method"    __tb.store(...), __tb.ctx_for(...): the call's own builder *)
(*   "operator"  a + b, A[i], T.ceildiv(...): current_builder(), the top of *)
(*               the thread's stack                                         *)
(* and the others are "raise", and "call": another kernel, from its body.   *)
(* Builders are numbered in the order they are made.                        *)
(***************************************************************************)
EXTENDS Integers, Sequences

CONSTANTS
    Threads,
    Kernels,
    Body,       \* kernel -> its statements
    MaxStarts,  \* bound: calls a thread makes from outside of a kernel
    MaxStrays   \* bound: operators a thread uses outside of a kernel

(* A statement. An operation uses a value: nothing, the last one the kernel *)
(* has made, or the one it was called with. A call says what it calls, how  *)
(* (k.get_ir, k.compile or k itself), whether it passes the last value, and *)
(* whether the kernel catches what the call raises.                         *)
Hows == {"get_ir", "compile", "call"}
Statements == [s : {"method", "operator"}, use : {"none", "last", "arg"}]
                \cup [s : {"raise"}]
                \cup [s : {"call"}, kernel : Kernels, how : Hows, pass : BOOLEAN, try : BOOLEAN]
ASSUME BodyAssumption == Body \in [Kernels -> Seq(Statements)]
ASSUME BoundAssumption == MaxStarts \in Nat /\ MaxStrays \in Nat

Appends(st) == st.s \in {"method", "operator"}

VARIABLES
    active,   \* thread -> _builder_local.stack
    calls,    \* thread -> the running calls, innermost last
    exc,      \* thread -> an exception is on its way up
    outside,  \* thread -> how many calls and operators it made outside of a kernel
    ir,       \* builder -> the operations appended to its IR
    kernel,   \* history: builder -> its kernel
    status    \* history: builder -> what has become of its call

vars == <<active, calls, exc, outside, ir, kernel, status>>

(* A value is named by the builder that made it and by its id there. Every  *)
(* operation is given one result, whose id is its place in the IR.          *)
Values == [b : Nat, id : Nat]
Operands == Seq(Values)

Last(s) == s[Len(s)]
Front(s) == SubSeq(s, 1, Len(s) - 1)
SetLast(s, x) == [s EXCEPT ![Len(s)] = x]

Call(t) == Last(calls[t])
AtEnd(t) == Call(t).pc > Len(Body[Call(t).kernel])
Statement(t) == Body[Call(t).kernel][Call(t).pc]

(* current_builder(), and the call's own builder.                           *)
MutCurrent(t) == Last(active[CHOOSE u \in Threads : active[u] # <<>>])  \* a bug: one stack for all
Current(t) == Last(active[t])
Target(t) == IF Statement(t).s = "operator" THEN Current(t) ELSE Call(t).b

(* Running, in the body of its innermost call, at a statement of kind s.    *)
Runs(t) == /\ calls[t] # <<>> /\ ~exc[t]
           /\ Call(t).stage = "trace" /\ ~AtEnd(t)

(* JITImplementation.get_ir: a new Builder, entered.                        *)
Enter(t, k, how, arg) ==
    LET b == Len(ir) + 1
    IN  /\ ir' = Append(ir, <<>>)
        /\ kernel' = Append(kernel, k)
        /\ status' = Append(status, "tracing")
        /\ active' = [active EXCEPT ![t] = Append(@, b)]
        /\ calls' = [calls EXCEPT ![t] =
                       Append(@, [kernel |-> k, b |-> b, how |-> how, stage |-> "trace",
                                  pc |-> 1, arg |-> arg, last |-> <<>>])]

Start(t) ==
    /\ calls[t] = <<>> /\ ~exc[t]
    /\ outside[t].starts < MaxStarts
    /\ outside' = [outside EXCEPT ![t].starts = @ + 1]
    /\ \E k \in Kernels, how \in Hows : Enter(t, k, how, <<>>)
    /\ UNCHANGED exc

CallKernel(t) ==
    /\ Runs(t)
    /\ Statement(t).s = "call"
    /\ Enter(t, Statement(t).kernel, Statement(t).how,
             IF Statement(t).pass THEN Call(t).last ELSE <<>>)
    /\ UNCHANGED <<exc, outside>>

(* A statement that appends one operation to the builder it reaches.        *)
Use(t) == CASE Statement(t).use = "none" -> <<>>
            [] Statement(t).use = "last" -> Call(t).last
            [] Statement(t).use = "arg" -> Call(t).arg
Operation(t) ==
    /\ Runs(t)
    /\ Appends(Statement(t))
    /\ LET b == Target(t)
       IN  /\ ir' = [ir EXCEPT ![b] = Append(@, [by |-> Call(t).b, at |-> Call(t).pc,
                                                 uses |-> Use(t)])]
           /\ calls' = [calls EXCEPT ![t] =
                  SetLast(@, [Call(t) EXCEPT !.pc = @ + 1,
                                             !.last = <<[b |-> b, id |-> Len(ir[b]) + 1]>>])]
    /\ UNCHANGED <<active, exc, outside, kernel, status>>

Raise(t) ==
    /\ Runs(t)
    /\ Statement(t).s = "raise"
    /\ exc' = [exc EXCEPT ![t] = TRUE]
    /\ UNCHANGED <<active, calls, outside, ir, kernel, status>>

(* The innermost call ends: its caller goes on after its call statement, or *)
(* has an exception, which it may catch.                                    *)
MutCatches(callers) == callers # <<>> /\ Body[Last(callers).kernel][Last(callers).pc].try  \* a bug: an exception stays
Catches(callers) == callers = <<>> \/ Body[Last(callers).kernel][Last(callers).pc].try
Resume(callers) ==
    IF callers = <<>> THEN callers ELSE SetLast(callers, [Last(callers) EXCEPT !.pc = @ + 1])
Ends(t, raised) ==
    LET callers == Front(calls[t])
        caught == ~raised \/ Catches(callers)
    IN  /\ exc' = [exc EXCEPT ![t] = ~caught]
        /\ calls' = [calls EXCEPT ![t] = IF caught THEN Resume(callers) ELSE callers]

Becomes(b, what) == status' = [status EXCEPT ![b] = what]

(* IRBuilder.__exit__ pops the stack, whatever happened, and checks what.   *)
Pops(t) == active' = [active EXCEPT ![t] = Front(@)]
PopsItself(t) == Current(t) = Call(t).b

(* The traced function returned: the with statement ends, and get_ir too.   *)
Leave(t) ==
    /\ calls[t] # <<>> /\ ~exc[t]
    /\ Call(t).stage = "trace" /\ AtEnd(t)
    /\ Pops(t)
    /\ \/ /\ ~PopsItself(t)
          /\ Becomes(Call(t).b, "raised") /\ Ends(t, TRUE)
       \/ /\ PopsItself(t) /\ Call(t).how = "get_ir"
          /\ Becomes(Call(t).b, "traced") /\ Ends(t, FALSE)
       \/ /\ PopsItself(t) /\ Call(t).how # "get_ir"
          /\ Becomes(Call(t).b, "traced")
          /\ calls' = [calls EXCEPT ![t] = SetLast(@, [Call(t) EXCEPT !.stage = "emit"])]
          /\ UNCHANGED exc
    /\ UNCHANGED <<outside, ir, kernel>>

(* emit_upstream_mlir: an operand is looked up among the values emitted so  *)
(* far. Value is a dataclass, so that is by id (and type and name, which no *)
(* value here differs in) and not by the builder that made it.              *)
MutFound(v, b, j) == v.b = b \/ v.id <= Len(ir[v.b])    \* a bug: takes any value there is
Found(v, b, j) == v.id < j
EmitsAll(b) == \A j \in DOMAIN ir[b] : \A i \in DOMAIN ir[b][j].uses : Found(ir[b][j].uses[i], b, j)

(* CompiledKernel.__init__ in compile; a call of the kernel itself goes on  *)
(* to CompiledKernel.__call__, which reads the torch_function nobody sets.  *)
Compile(t) ==
    /\ calls[t] # <<>> /\ ~exc[t]
    /\ Call(t).stage = "emit"
    /\ LET b == Call(t).b
       IN  /\ Becomes(b, IF EmitsAll(b) THEN "ready" ELSE "raised")
           /\ Ends(t, ~EmitsAll(b) \/ Call(t).how = "call")
    /\ UNCHANGED <<active, outside, ir, kernel>>

(* An exception leaves the innermost call, through __exit__.                *)
MutUnwindPops(t) == UNCHANGED active     \* a bug: pops only when nothing was raised
UnwindPops(t) == Pops(t)
Unwind(t) ==
    /\ calls[t] # <<>> /\ exc[t]
    /\ UnwindPops(t)
    /\ Becomes(Call(t).b, "raised")
    /\ Ends(t, TRUE)
    /\ UNCHANGED <<outside, ir, kernel>>

(* An operator outside of every kernel: current_builder() raises when the   *)
(* thread's stack is empty.                                                 *)
Stray(t) ==
    /\ calls[t] = <<>> /\ ~exc[t]
    /\ outside[t].strays < MaxStrays
    /\ outside' = [outside EXCEPT ![t].strays = @ + 1]
    /\ ir' = IF active[t] = <<>> THEN ir
             ELSE [ir EXCEPT ![Current(t)] = Append(@, [by |-> 0, at |-> 0, uses |-> <<>>])]
    /\ UNCHANGED <<active, calls, exc, kernel, status>>

Init ==
    /\ active = [t \in Threads |-> <<>>]
    /\ calls = [t \in Threads |-> <<>>]
    /\ exc = [t \in Threads |-> FALSE]
    /\ outside = [t \in Threads |-> [starts |-> 0, strays |-> 0]]
    /\ ir = <<>> /\ kernel = <<>> /\ status = <<>>

Step(t) == \/ CallKernel(t) \/ Operation(t) \/ Raise(t)
           \/ Leave(t) \/ Compile(t) \/ Unwind(t)

(* Nobody is calling anything.                                              *)
Rest == (\A t \in Threads : calls[t] = <<>>) /\ UNCHANGED vars

Next == (\E t \in Threads : Step(t) \/ Start(t) \/ Stray(t)) \/ Rest

(* A thread that is inside a call goes on: the interpreter gives every      *)
(* runnable thread its turn. Nothing makes anyone call a kernel.            *)
Fairness == \A t \in Threads : WF_vars(Step(t))

Spec == Init /\ [][Next]_vars /\ Fairness

(***************************************************************************)
(* Properties.                                                              *)
(***************************************************************************)
Running == [kernel : Kernels, b : Nat, how : Hows, stage : {"trace", "emit"}, pc : Nat \ {0},
            arg : Operands, last : Operands]
Statuses == {"tracing", "traced", "ready", "raised"}

(* The types of the state. Only the innermost call may be compiling, only   *)
(* calls that trace have builders on their thread's stack, in the order of  *)
(* the calls, and only a call that traces raises.                           *)
Tracing(t) == IF calls[t] # <<>> /\ Call(t).stage = "emit" THEN Front(calls[t]) ELSE calls[t]
TypeOK ==
    /\ active \in [Threads -> Seq(Nat \ {0})]
    /\ calls \in [Threads -> Seq(Running)]
    /\ exc \in [Threads -> BOOLEAN]
    /\ outside \in [Threads -> [starts : 0..MaxStarts, strays : 0..MaxStrays]]
    /\ ir \in Seq(Seq([by : Nat, at : Nat, uses : Operands]))
    /\ kernel \in Seq(Kernels) /\ Len(kernel) = Len(ir)
    /\ status \in Seq(Statuses) /\ Len(status) = Len(ir)
    /\ \A t \in Threads : exc[t] => calls[t] # <<>> /\ Call(t).stage = "trace"

(* The with statements nest (IRBuilder.__exit__ never sees another builder  *)
(* than its own, so "IRBuilder stack corruption" is never raised): a        *)
(* thread's stack holds the builders of its tracing calls and nothing else, *)
(* so nothing is left on it by a call that raised.                          *)
StacksNest ==
    \A t \in Threads :
        /\ active[t] = [j \in DOMAIN Tracing(t) |-> Tracing(t)[j].b]
        /\ \A j \in DOMAIN Tracing(t) : Tracing(t)[j].stage = "trace"

(* What is compiled is made of the kernel's own values, whoever else traces *)
(* meanwhile. The one way in for a value of another call is to be handed to *)
(* the kernel, and it is compiled only when one of the kernel's own values, *)
(* emitted before, has the same id: that one is used instead of it.         *)
SelfContained ==
    \A b \in DOMAIN ir : status[b] = "ready" =>
        \A j \in DOMAIN ir[b] : \A i \in DOMAIN ir[b][j].uses :
            LET v == ir[b][j].uses[i]
            IN  v.b # b => Body[kernel[b]][ir[b][j].at].use = "arg" /\ v.id < j

(* Calls implement IsolatedTraces, where a call has an IR of its own.       *)
Recording == [k \in Kernels |-> {p \in DOMAIN Body[k] : Appends(Body[k][p])}]
Log == [b \in DOMAIN ir |-> [j \in DOMAIN ir[b] |-> [by |-> ir[b][j].by, at |-> ir[b][j].at]]]
Traces == INSTANCE IsolatedTraces WITH log <- Log
Isolation == Traces!Spec

(* Every call ends, and leaves the thread's stack of builders empty, also   *)
(* when a statement, a nested call or the emission raises.                  *)
CallsEnd == \A t \in Threads : calls[t] # <<>> ~> calls[t] = <<>> /\ active[t] = <<>>
=============================================================================
