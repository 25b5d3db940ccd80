--------------------------- MODULE JitCallsProofs ---------------------------
(***************************************************************************)
(* Whatever the kernels and the threads: the with statements of calls nest, *)
(* and every call records its own statements into an IR of its own.         *)
(***************************************************************************)
EXTENDS JitCalls, SequenceTheorems, TLAPS

(* A running call is the only one that has its builder, and what the        *)
(* history says of the builder agrees with it.                              *)
OwnsBuilder ==
    \A t \in Threads : \A j \in DOMAIN calls[t] :
        /\ calls[t][j].b \in DOMAIN ir
        /\ kernel[calls[t][j].b] = calls[t][j].kernel
        /\ status[calls[t][j].b] = IF calls[t][j].stage = "trace" THEN "tracing" ELSE "traced"
NoSharing ==
    \A t, u \in Threads : \A i \in DOMAIN calls[t], j \in DOMAIN calls[u] :
        calls[t][i].b = calls[u][j].b => t = u /\ i = j

(* A call that is not the innermost one is at a statement that calls.       *)
CallersWait ==
    \A t \in Threads : \A j \in DOMAIN calls[t] : j < Len(calls[t]) =>
        /\ calls[t][j].pc \in DOMAIN Body[calls[t][j].kernel]
        /\ Body[calls[t][j].kernel][calls[t][j].pc].s = "call"

(* The IR of a call that traces has the statements it is past.              *)
At(b) == {ir[b][i].at : i \in DOMAIN ir[b]}
Past(f) == {p \in Recording[f.kernel] : p < f.pc}
RecordedSoFar ==
    \A t \in Threads : \A j \in DOMAIN calls[t] :
        calls[t][j].stage = "trace" => At(calls[t][j].b) = Past(calls[t][j])

IInv == TypeOK /\ StacksNest /\ OwnsBuilder /\ NoSharing /\ CallersWait /\ RecordedSoFar

(***************************************************************************)
(* Sequences.                                                               *)
(***************************************************************************)

(* A sequence without its last element.                                     *)
LEMMA FrontFacts ==
    ASSUME NEW S, NEW s \in Seq(S), s # <<>>
    PROVE  /\ Front(s) \in Seq(S) /\ Len(Front(s)) = Len(s) - 1
           /\ DOMAIN Front(s) = 1 .. Len(s) - 1
           /\ \A i \in 1 .. Len(s) - 1 : Front(s)[i] = s[i]
           /\ Len(s) \in Nat \ {0} /\ Last(s) \in S /\ Last(s) = s[Len(s)]
<1>1. Len(s) \in Nat \ {0} /\ \A i \in 1 .. Len(s) : s[i] \in S
    BY EmptySeq, LenProperties, ElementOfSeq
<1>2. /\ Front(s) \in Seq(S) /\ Len(Front(s)) = Len(s) - 1
      /\ \A i \in 1 .. Len(s) - 1 : Front(s)[i] = s[i]
    <2> DEFINE n == Len(s) - 1
    <2>1. n \in Nat /\ \A i \in 1 .. n : s[i] \in S
        BY <1>1
    <2>2. 1 \in Int /\ n \in Int
        BY <2>1
    <2> HIDE DEF n
    <2>3. /\ SubSeq(s, 1, n) \in Seq(S)
          /\ Len(SubSeq(s, 1, n)) = IF 1 <= n THEN n - 1 + 1 ELSE 0
          /\ \A i \in 1 .. n - 1 + 1 : SubSeq(s, 1, n)[i] = s[1 + i - 1]
        BY <2>1, <2>2, SubSeqProperties
    <2>4. /\ SubSeq(s, 1, n) \in Seq(S) /\ Len(SubSeq(s, 1, n)) = n
          /\ \A i \in 1 .. n : SubSeq(s, 1, n)[i] = s[i]
        BY <2>1, <2>3
    <2> QED
        BY <2>4 DEF Front, n
<1>3. DOMAIN Front(s) = 1 .. Len(s) - 1
    BY <1>2, LenProperties
<1> QED
    BY <1>1, <1>2, <1>3 DEF Last

(* A sequence whose last element is replaced.                               *)
LEMMA SetLastFacts ==
    ASSUME NEW S, NEW s \in Seq(S), s # <<>>, NEW x \in S
    PROVE  /\ SetLast(s, x) \in Seq(S) /\ Len(SetLast(s, x)) = Len(s)
           /\ DOMAIN SetLast(s, x) = DOMAIN s
           /\ SetLast(s, x)[Len(s)] = x /\ Last(SetLast(s, x)) = x
           /\ \A i \in 1 .. Len(s) : i # Len(s) => SetLast(s, x)[i] = s[i]
           /\ SetLast(s, x) # <<>>
    BY SMT DEF SetLast, Last

(* A sequence with one more element.                                        *)
LEMMA AppendFacts ==
    ASSUME NEW S, NEW s \in Seq(S), NEW x \in S
    PROVE  /\ Append(s, x) \in Seq(S) /\ Len(Append(s, x)) = Len(s) + 1
           /\ DOMAIN Append(s, x) = 1 .. Len(s) + 1
           /\ Append(s, x)[Len(s) + 1] = x /\ Last(Append(s, x)) = x
           /\ \A i \in 1 .. Len(s) : Append(s, x)[i] = s[i]
           /\ Front(Append(s, x)) = s
           /\ Append(s, x) # <<>> /\ Len(s) \in Nat /\ DOMAIN s = 1 .. Len(s)
    BY SMT DEF Front, Last

(* What a statement may be.                                                 *)
LEMMA StatementFacts ==
    ASSUME NEW st \in Statements
    PROVE  /\ st.s = "call" => st.kernel \in Kernels /\ st.how \in Hows /\ st.pass \in BOOLEAN
           /\ Appends(st) => st.use \in {"none", "last", "arg"}
           /\ st.s = "call" => ~Appends(st)
           /\ st.s \in {"method", "operator", "raise", "call"}
    BY SMT DEF Statements, Appends, Hows

(***************************************************************************)
(* What one step does to the running calls.                                 *)
(***************************************************************************)

(* The innermost call of a thread.                                          *)
LEMMA CallFacts ==
    ASSUME TypeOK, NEW t \in Threads, calls[t] # <<>>
    PROVE  /\ calls[t] \in Seq(Running) /\ Call(t) \in Running
           /\ Call(t) = calls[t][Len(calls[t])]
           /\ Len(calls[t]) \in Nat \ {0} /\ DOMAIN calls[t] = 1 .. Len(calls[t])
           /\ Front(calls[t]) \in Seq(Running)
           /\ Len(Front(calls[t])) = Len(calls[t]) - 1
           /\ DOMAIN Front(calls[t]) = 1 .. Len(calls[t]) - 1
           /\ \A i \in 1 .. Len(calls[t]) - 1 : Front(calls[t])[i] = calls[t][i]
<1>1. calls[t] \in Seq(Running)
    BY DEF TypeOK
<1>2. Len(calls[t]) \in Nat /\ DOMAIN calls[t] = 1 .. Len(calls[t])
    BY <1>1, LenProperties
<1> QED
    BY <1>1, <1>2, FrontFacts DEF Call

(* The calls that trace are all but an innermost one that compiles.         *)
LEMMA TracingFacts ==
    ASSUME TypeOK, StacksNest, NEW t \in Threads
    PROVE  /\ active[t] = [j \in DOMAIN Tracing(t) |-> Tracing(t)[j].b]
           /\ calls[t] \in Seq(Running) /\ Len(calls[t]) \in Nat
           /\ DOMAIN calls[t] = 1 .. Len(calls[t])
           /\ calls[t] = <<>> => Tracing(t) = <<>> /\ active[t] = <<>>
           /\ calls[t] # <<>> /\ Call(t).stage = "trace" => Tracing(t) = calls[t]
           /\ calls[t] # <<>> /\ Call(t).stage = "emit" => Tracing(t) = Front(calls[t])
           /\ \A j \in DOMAIN calls[t] : j < Len(calls[t]) => calls[t][j].stage = "trace"
<1>1. calls[t] \in Seq(Running) /\ Len(calls[t]) \in Nat /\ DOMAIN calls[t] = 1 .. Len(calls[t])
    BY LenProperties DEF TypeOK
<1>2. /\ active[t] = [j \in DOMAIN Tracing(t) |-> Tracing(t)[j].b]
      /\ \A j \in DOMAIN Tracing(t) : Tracing(t)[j].stage = "trace"
    BY DEF StacksNest
<1>3. CASE calls[t] = <<>>
    <2>1. Tracing(t) = <<>>
        BY <1>3 DEF Tracing
    <2>2. DOMAIN Tracing(t) = {}
        BY <2>1
    <2>3. active[t] = <<>>
        <3>1. active[t] \in Seq(Nat \ {0})
            BY DEF TypeOK
        <3>2. DOMAIN active[t] = {}
            BY <1>2, <2>2
        <3>3. DOMAIN active[t] = 1 .. Len(active[t]) /\ Len(active[t]) \in Nat
            BY <3>1, LenProperties
        <3>4. Len(active[t]) = 0
            <4>1. 1 \notin 1 .. Len(active[t])
                BY <3>2, <3>3
            <4> QED
                BY <3>3, <4>1
        <3> QED
            BY <3>1, <3>4, EmptySeq
    <2> QED
        BY <1>1, <1>2, <1>3, <2>1, <2>3
<1>4. CASE calls[t] # <<>>
    <2>1. Call(t).stage = "emit" => Tracing(t) = Front(calls[t])
        BY <1>4 DEF Tracing
    <2>2. Call(t).stage # "emit" => Tracing(t) = calls[t]
        BY <1>4 DEF Tracing
    <2>3. \A j \in DOMAIN calls[t] : j < Len(calls[t]) =>
             j \in DOMAIN Tracing(t) /\ Tracing(t)[j] = calls[t][j]
        BY <1>1, <1>4, <2>1, <2>2, CallFacts
    <2> QED
        BY <1>1, <1>2, <1>4, <2>1, <2>2, <2>3
<1> QED
    BY <1>3, <1>4

(* Builders stay apart when calls are changed or dropped, not added.        *)
Keeps(t) ==
    /\ \A u \in Threads : u # t => calls'[u] = calls[u]
    /\ DOMAIN calls'[t] \subseteq DOMAIN calls[t]
    /\ \A j \in DOMAIN calls'[t] : /\ calls'[t][j].b = calls[t][j].b
                                   /\ calls'[t][j].kernel = calls[t][j].kernel
LEMMA KeepsApart ==
    ASSUME NoSharing, NEW t \in Threads, Keeps(t)
    PROVE  NoSharing'
<1>1. \A u \in Threads : \A j \in DOMAIN calls'[u] :
          j \in DOMAIN calls[u] /\ calls'[u][j].b = calls[u][j].b
    BY DEF Keeps
<1> QED
    BY <1>1 DEF NoSharing

(* The end of a call leaves its callers, one of them a statement further.   *)
LEMMA EndsFacts ==
    ASSUME TypeOK, StacksNest, CallersWait,
           NEW t \in Threads, calls[t] # <<>>, NEW raised \in BOOLEAN, Ends(t, raised)
    PROVE  /\ calls' \in [Threads -> Seq(Running)]
           /\ exc' \in [Threads -> BOOLEAN]
           /\ \A u \in Threads : u # t => calls'[u] = calls[u] /\ exc'[u] = exc[u]
           /\ Len(calls'[t]) = Len(calls[t]) - 1
           /\ DOMAIN calls'[t] = 1 .. Len(calls[t]) - 1
           /\ \A j \in DOMAIN calls'[t] : /\ calls'[t][j].b = calls[t][j].b
                                          /\ calls'[t][j].kernel = calls[t][j].kernel
                                          /\ calls'[t][j].stage = calls[t][j].stage
                                          /\ \/ calls'[t][j].pc = calls[t][j].pc
                                             \/ /\ j = Len(calls'[t])
                                                /\ calls'[t][j].pc = calls[t][j].pc + 1
           /\ exc'[t] => calls'[t] # <<>>
           /\ Keeps(t)
<1> DEFINE callers == Front(calls[t])
           caught == ~raised \/ Catches(callers)
           n == Len(calls[t]) - 1
<1>1. /\ callers \in Seq(Running) /\ Len(callers) = n /\ DOMAIN callers = 1 .. n /\ n \in Nat
      /\ \A i \in 1 .. n : callers[i] = calls[t][i]
      /\ DOMAIN calls[t] = 1 .. n + 1
    BY CallFacts
<1>2. /\ Resume(callers) \in Seq(Running) /\ Len(Resume(callers)) = n
      /\ DOMAIN Resume(callers) = 1 .. n
      /\ \A j \in 1 .. n : /\ Resume(callers)[j].b = calls[t][j].b
                           /\ Resume(callers)[j].kernel = calls[t][j].kernel
                           /\ Resume(callers)[j].stage = calls[t][j].stage
                           /\ \/ Resume(callers)[j].pc = calls[t][j].pc
                              \/ j = n /\ Resume(callers)[j].pc = calls[t][j].pc + 1
    <2>1. CASE callers = <<>>
        BY <1>1, <2>1 DEF Resume
    <2>2. CASE callers # <<>>
        <3> DEFINE f == [Last(callers) EXCEPT !.pc = @ + 1]
        <3>1. Last(callers) \in Running /\ Last(callers) = callers[n]
            BY <1>1, <2>2, FrontFacts
        <3>2. /\ f \in Running /\ f.b = Last(callers).b /\ f.kernel = Last(callers).kernel
              /\ f.stage = Last(callers).stage /\ f.pc = Last(callers).pc + 1
            BY <3>1 DEF Running
        <3>3. Resume(callers) = SetLast(callers, f)
            BY <2>2 DEF Resume
        <3> HIDE DEF f, callers, n
        <3>4. /\ SetLast(callers, f) \in Seq(Running) /\ Len(SetLast(callers, f)) = Len(callers)
              /\ DOMAIN SetLast(callers, f) = DOMAIN callers
              /\ SetLast(callers, f)[Len(callers)] = f
              /\ \A i \in 1 .. Len(callers) : i # Len(callers) => SetLast(callers, f)[i] = callers[i]
            <4>1. callers \in Seq(Running) /\ callers # <<>> /\ f \in Running
                BY <1>1, <2>2, <3>2
            <4> QED
                BY ONLY <4>1, SetLastFacts
        <3>5. /\ Resume(callers) \in Seq(Running) /\ Len(Resume(callers)) = n
              /\ DOMAIN Resume(callers) = 1 .. n
              /\ Resume(callers)[n] = f
              /\ \A i \in 1 .. n : i # n => Resume(callers)[i] = callers[i]
            BY <1>1, <3>4, <3>3
        <3> QED
            BY <1>1, <3>1, <3>2, <3>5
    <2> QED
        BY <2>1, <2>2
<1>3. /\ exc' = [exc EXCEPT ![t] = ~caught]
      /\ calls' = [calls EXCEPT ![t] = IF caught THEN Resume(callers) ELSE callers]
    BY DEF Ends
<1>4. exc'[t] => callers # <<>> /\ calls'[t] = callers
    BY <1>3 DEF Catches, TypeOK
<1>5. calls \in [Threads -> Seq(Running)] /\ exc \in [Threads -> BOOLEAN]
    BY DEF TypeOK
<1> HIDE DEF callers, caught, n
<1>6. calls'[t] \in {Resume(callers), callers}
    BY <1>3, <1>5
<1>7. /\ calls' \in [Threads -> Seq(Running)] /\ exc' \in [Threads -> BOOLEAN]
      /\ \A u \in Threads : u # t => calls'[u] = calls[u] /\ exc'[u] = exc[u]
    <2>1. (IF caught THEN Resume(callers) ELSE callers) \in Seq(Running)
        BY <1>1, <1>2
    <2>2. (~caught) \in BOOLEAN
        <3>1. CASE caught
            BY <3>1, Zenon
        <3>2. CASE ~caught
            BY <3>2, Zenon
        <3> QED
            BY <3>1, <3>2
    <2> QED
        BY <1>3, <1>5, <2>1, <2>2
<1>8. /\ Len(calls'[t]) = n /\ DOMAIN calls'[t] = 1 .. n
      /\ \A j \in 1 .. n : /\ calls'[t][j].b = calls[t][j].b
                           /\ calls'[t][j].kernel = calls[t][j].kernel
                           /\ calls'[t][j].stage = calls[t][j].stage
                           /\ \/ calls'[t][j].pc = calls[t][j].pc
                              \/ j = n /\ calls'[t][j].pc = calls[t][j].pc + 1
    BY <1>1, <1>2, <1>6
<1>9. Keeps(t)
    BY <1>1, <1>7, <1>8 DEF Keeps
<1> QED
    BY <1>1, <1>4, <1>7, <1>8, <1>9 DEF n

(***************************************************************************)
(* The invariant, action by action.                                         *)
(***************************************************************************)

(* A new call is the innermost one of its thread, has a new builder and an  *)
(* empty IR.                                                                *)
LEMMA EnterKeeps ==
    ASSUME IInv, NEW t \in Threads, NEW k \in Kernels, NEW how \in Hows, NEW arg \in Operands,
           Enter(t, k, how, arg), UNCHANGED exc,
           outside' \in [Threads -> [starts : 0..MaxStarts, strays : 0..MaxStrays]],
           calls[t] # <<>> => /\ Call(t).stage = "trace"
                              /\ Call(t).pc \in DOMAIN Body[Call(t).kernel]
                              /\ Statement(t).s = "call"
    PROVE  IInv'
<1> DEFINE b == Len(ir) + 1
           f == [kernel |-> k, b |-> b, how |-> how, stage |-> "trace",
                 pc |-> 1, arg |-> arg, last |-> <<>>]
           n == Len(calls[t])
<1>1. /\ ir \in Seq(Seq([by : Nat, at : Nat, uses : Operands])) /\ Len(ir) \in Nat
      /\ DOMAIN ir = 1 .. Len(ir)
      /\ kernel \in Seq(Kernels) /\ Len(kernel) = Len(ir)
      /\ status \in Seq(Statuses) /\ Len(status) = Len(ir)
      /\ active \in [Threads -> Seq(Nat \ {0})] /\ calls \in [Threads -> Seq(Running)]
      /\ b \in Nat \ {0}
    BY LenProperties DEF IInv, TypeOK
<1>2. f \in Running /\ f.b = b /\ f.kernel = k /\ f.stage = "trace" /\ f.pc = 1
    BY <1>1, EmptySeq DEF Running, Operands
<1>3. calls[t] \in Seq(Running) /\ n \in Nat /\ DOMAIN calls[t] = 1 .. n
    BY <1>1, LenProperties
<1>4. /\ ir' = Append(ir, <<>>) /\ kernel' = Append(kernel, k)
      /\ status' = Append(status, "tracing")
      /\ active' = [active EXCEPT ![t] = Append(@, b)]
      /\ calls' = [calls EXCEPT ![t] = Append(@, f)]
    BY DEF Enter
<1> HIDE DEF f, b, n
<1>5. /\ calls'[t] = Append(calls[t], f) /\ calls'[t] \in Seq(Running)
      /\ Len(calls'[t]) = n + 1 /\ DOMAIN calls'[t] = 1 .. n + 1
      /\ calls'[t][n + 1] = f /\ \A j \in 1 .. n : calls'[t][j] = calls[t][j]
      /\ Last(calls'[t]) = f /\ calls'[t] # <<>>
      /\ \A u \in Threads : u # t => calls'[u] = calls[u]
    BY <1>1, <1>2, <1>3, <1>4, AppendFacts DEF n
<1>6. /\ ir' \in Seq(Seq([by : Nat, at : Nat, uses : Operands]))
      /\ Len(ir') = b /\ DOMAIN ir' = 1 .. b /\ ir'[b] = <<>>
      /\ \A c \in 1 .. Len(ir) : ir'[c] = ir[c]
    <2>1. <<>> \in Seq([by : Nat, at : Nat, uses : Operands])
        BY EmptySeq
    <2> QED
        BY <1>1, <1>4, <2>1, AppendFacts DEF b
<1>7. /\ kernel' \in Seq(Kernels) /\ Len(kernel') = b /\ kernel'[b] = k
      /\ \A c \in 1 .. Len(ir) : kernel'[c] = kernel[c]
    BY <1>1, <1>4, AppendFacts DEF b
<1>8. /\ status' \in Seq(Statuses) /\ Len(status') = b /\ status'[b] = "tracing"
      /\ \A c \in 1 .. Len(ir) : status'[c] = status[c]
    <2>1. "tracing" \in Statuses
        BY DEF Statuses
    <2> QED
        BY <1>1, <1>4, <2>1, AppendFacts DEF b
<1>9. /\ active'[t] = Append(active[t], b)
      /\ \A u \in Threads : u # t => active'[u] = active[u]
    BY <1>1, <1>4
<1>10. \A u \in Threads : \A j \in DOMAIN calls'[u] :
          \/ j \in DOMAIN calls[u] /\ calls'[u][j] = calls[u][j]
          \/ u = t /\ j = n + 1 /\ calls'[u][j] = f
    <2> TAKE u \in Threads
    <2> TAKE j \in DOMAIN calls'[u]
    <2>1. CASE u # t
        BY <1>5, <2>1
    <2>2. CASE u = t
        <3>1. j \in 1 .. n \/ j = n + 1
            BY <1>3, <1>5, <2>2
        <3> QED
            BY <1>3, <1>5, <2>2, <3>1
    <2> QED
        BY <2>1, <2>2
<1>11. \A u \in Threads : \A j \in DOMAIN calls[u] : calls[u][j].b \in 1 .. Len(ir) /\ calls[u][j].b # b
    BY <1>1 DEF IInv, OwnsBuilder, b
<1>12. TypeOK'
    <2>1. active' \in [Threads -> Seq(Nat \ {0})]
        <3>1. Append(active[t], b) \in Seq(Nat \ {0})
            BY <1>1, AppendFacts
        <3> QED
            BY <1>1, <1>4, <3>1
    <2>2. calls' \in [Threads -> Seq(Running)]
        BY <1>1, <1>4, <1>5
    <2>3. \A u \in Threads : exc[u] => calls'[u] # <<>> /\ Last(calls'[u]).stage = "trace"
        BY <1>2, <1>5 DEF IInv, TypeOK, Call
    <2> QED
        BY <1>1, <1>6, <1>7, <1>8, <2>1, <2>2, <2>3 DEF IInv, TypeOK, Call
<1>13. StacksNest'
    <2> SUFFICES ASSUME NEW u \in Threads
                 PROVE  /\ active'[u] = [j \in DOMAIN Tracing(u)' |-> Tracing(u)'[j].b]
                        /\ \A j \in DOMAIN Tracing(u)' : Tracing(u)'[j].stage = "trace"
        BY DEF StacksNest
    <2>1. CASE u # t
        <3>1. Tracing(u)' = Tracing(u)
            BY <1>5, <2>1 DEF Tracing, Call
        <3> QED
            BY <1>9, <2>1, <3>1 DEF IInv, StacksNest
    <2>2. CASE u = t
        <3>1. Tracing(t)' = calls'[t]
            BY <1>2, <1>5 DEF Tracing, Call
        <3>2. Tracing(t) = calls[t]
            BY TracingFacts DEF IInv
        <3>3. active[t] = [j \in 1 .. n |-> calls[t][j].b] /\ \A j \in 1 .. n : calls[t][j].stage = "trace"
            BY <1>3, <3>2 DEF IInv, StacksNest
        <3>4. active[t] \in Seq(Nat \ {0}) /\ DOMAIN active[t] = 1 .. n /\ Len(active[t]) = n
            BY <1>1, <1>3, <3>3, LenProperties
        <3>5. /\ DOMAIN active'[t] = 1 .. n + 1 /\ active'[t][n + 1] = b
              /\ \A i \in 1 .. n : active'[t][i] = active[t][i]
              /\ active'[t] \in Seq(Nat \ {0})
            BY <1>1, <1>9, <3>4, AppendFacts
        <3>6. active'[t] = [j \in 1 .. n + 1 |-> active'[t][j]]
            BY <3>5, LenProperties, ElementOfSeq
        <3>7. \A j \in 1 .. n + 1 : active'[t][j] = calls'[t][j].b /\ calls'[t][j].stage = "trace"
            BY <1>2, <1>3, <1>5, <3>3, <3>5
        <3> QED
            BY <1>5, <2>2, <3>1, <3>6, <3>7
    <2> QED
        BY <2>1, <2>2
<1>14. OwnsBuilder'
    <2>1. \A u \in Threads : \A j \in DOMAIN calls[u] :
              /\ calls[u][j].b \in DOMAIN ir'
              /\ kernel'[calls[u][j].b] = calls[u][j].kernel
              /\ status'[calls[u][j].b] = IF calls[u][j].stage = "trace" THEN "tracing" ELSE "traced"
        <3> TAKE u \in Threads
        <3> TAKE j \in DOMAIN calls[u]
        <3>1. calls[u][j].b \in 1 .. Len(ir) /\ calls[u][j].b \in DOMAIN ir'
            BY <1>1, <1>6, <1>11 DEF b
        <3>2. /\ kernel[calls[u][j].b] = calls[u][j].kernel
              /\ status[calls[u][j].b] = IF calls[u][j].stage = "trace" THEN "tracing" ELSE "traced"
            BY DEF IInv, OwnsBuilder
        <3> QED
            BY <1>7, <1>8, <3>1, <3>2
    <2>2. f.b \in DOMAIN ir' /\ kernel'[f.b] = f.kernel /\ status'[f.b] = "tracing"
        BY <1>1, <1>2, <1>6, <1>7, <1>8
    <2> QED
        BY <1>2, <1>10, <2>1, <2>2 DEF OwnsBuilder
<1>15. NoSharing'
    BY <1>2, <1>10, <1>11 DEF IInv, NoSharing
<1>16. CallersWait'
    <2> SUFFICES ASSUME NEW u \in Threads, NEW j \in DOMAIN calls'[u], j < Len(calls'[u])
                 PROVE  /\ calls'[u][j].pc \in DOMAIN Body[calls'[u][j].kernel]
                        /\ Body[calls'[u][j].kernel][calls'[u][j].pc].s = "call"
        BY DEF CallersWait
    <2>1. CASE u # t
        BY <1>5, <2>1 DEF IInv, CallersWait
    <2>2. CASE u = t /\ j < n
        <3>1. j \in DOMAIN calls[t] /\ j < Len(calls[t]) /\ calls'[u][j] = calls[t][j]
            BY <1>3, <1>5, <2>2 DEF n
        <3> QED
            BY <3>1 DEF IInv, CallersWait
    <2>3. CASE u = t /\ j = n
        <3>1. calls[t] # <<>> /\ Call(t) = calls[t][j]
            BY <1>3, <1>5, <2>3, EmptySeq DEF Call, Last, n
        <3> QED
            BY <1>3, <1>5, <2>3, <3>1 DEF Statement
    <2> QED
        BY <1>3, <1>5, <2>1, <2>2, <2>3
<1>17. RecordedSoFar'
    <2>1. \A u \in Threads : \A j \in DOMAIN calls[u] : ir'[calls[u][j].b] = ir[calls[u][j].b]
        BY <1>6, <1>11
    <2>2. ir'[b] = <<>> /\ DOMAIN ir'[b] = {}
        BY <1>6
    <2>3. {ir'[b][i].at : i \in DOMAIN ir'[b]} = {}
        BY <2>2
    <2>4. Past(f) = {}
        <3>1. \A p \in Recording[k] : p \in Nat \ {0}
            BY BodyAssumption, LenProperties DEF Recording
        <3> QED
            BY <1>2, <3>1 DEF Past
    <2> SUFFICES ASSUME NEW u \in Threads, NEW j \in DOMAIN calls'[u], calls'[u][j].stage = "trace"
                 PROVE  {ir'[calls'[u][j].b][i].at : i \in DOMAIN ir'[calls'[u][j].b]} = Past(calls'[u][j])
        BY DEF RecordedSoFar, At, Past
    <2>5. CASE j \in DOMAIN calls[u] /\ calls'[u][j] = calls[u][j]
        <3>1. ir'[calls'[u][j].b] = ir[calls[u][j].b]
            BY <2>1, <2>5
        <3>2. At(calls[u][j].b) = Past(calls[u][j])
            BY <2>5 DEF IInv, RecordedSoFar
        <3> QED
            BY <2>5, <3>1, <3>2 DEF At
    <2>6. CASE calls'[u][j] = f
        BY <1>2, <2>3, <2>4, <2>6
    <2> QED
        BY <1>10, <2>5, <2>6
<1> QED
    BY <1>12, <1>13, <1>14, <1>15, <1>16, <1>17 DEF IInv

(* The builder that operators reach is the one of the innermost call.       *)
LEMMA OwnBuilderOnTop ==
    ASSUME TypeOK, StacksNest, NEW t \in Threads, calls[t] # <<>>, Call(t).stage = "trace"
    PROVE  /\ active[t] = [j \in 1 .. Len(calls[t]) |-> calls[t][j].b]
           /\ active[t] \in Seq(Nat \ {0}) /\ active[t] # <<>>
           /\ Len(active[t]) = Len(calls[t])
           /\ Current(t) = Call(t).b
           /\ Front(active[t]) = [j \in 1 .. Len(calls[t]) - 1 |-> calls[t][j].b]
<1> DEFINE n == Len(calls[t])
<1>1. n \in Nat \ {0} /\ DOMAIN calls[t] = 1 .. n /\ Call(t) = calls[t][n]
    BY CallFacts
<1>2. active[t] = [j \in 1 .. n |-> calls[t][j].b]
    BY <1>1, TracingFacts
<1>3. active[t] \in Seq(Nat \ {0})
    BY DEF TypeOK
<1>4. Len(active[t]) = n
    BY <1>1, <1>2, <1>3, LenProperties
<1>5. active[t] # <<>>
    BY <1>1, <1>3, <1>4, EmptySeq
<1>6. Current(t) = active[t][n]
    BY <1>4 DEF Current, Last
<1>7. /\ Front(active[t]) \in Seq(Nat \ {0}) /\ DOMAIN Front(active[t]) = 1 .. n - 1
      /\ \A i \in 1 .. n - 1 : Front(active[t])[i] = active[t][i]
    <2> DEFINE a == active[t]
    <2>1. a \in Seq(Nat \ {0}) /\ a # <<>> /\ Len(a) = n
        BY <1>3, <1>4, <1>5
    <2> HIDE DEF a, n
    <2>2. /\ Front(a) \in Seq(Nat \ {0}) /\ DOMAIN Front(a) = 1 .. Len(a) - 1
          /\ \A i \in 1 .. Len(a) - 1 : Front(a)[i] = a[i]
        BY <2>1, FrontFacts
    <2> QED
        BY <2>1, <2>2 DEF a
<1>8. Front(active[t]) = [j \in 1 .. n - 1 |-> Front(active[t])[j]]
    BY <1>1, <1>7, LenProperties, ElementOfSeq
<1>9. \A j \in 1 .. n - 1 : Front(active[t])[j] = calls[t][j].b
    BY <1>1, <1>2, <1>7
<1> QED
    BY <1>1, <1>2, <1>3, <1>4, <1>5, <1>6, <1>8, <1>9

(* What an operation uses is a value or nothing.                            *)
LEMMA UseFacts ==
    ASSUME TypeOK, NEW t \in Threads, Runs(t), Appends(Statement(t))
    PROVE  /\ Use(t) \in Operands
           /\ Call(t).pc \in DOMAIN Body[Call(t).kernel]
           /\ Call(t).pc \in Recording[Call(t).kernel]
<1>1. Call(t) \in Running
    BY CallFacts DEF Runs
<1>2. Call(t).kernel \in Kernels /\ Call(t).pc \in Nat \ {0}
    BY <1>1 DEF Running
<1>3. Body[Call(t).kernel] \in Seq(Statements)
    BY <1>2, BodyAssumption
<1>4. Call(t).pc \in DOMAIN Body[Call(t).kernel]
    BY <1>2, <1>3, LenProperties DEF Runs, AtEnd
<1>5. Statement(t) \in Statements
    BY <1>3, <1>4, LenProperties, ElementOfSeq DEF Statement
<1>6. Use(t) \in Operands
    <2>1. Call(t).arg \in Operands /\ Call(t).last \in Operands /\ <<>> \in Operands
        BY <1>1, EmptySeq DEF Running, Operands
    <2>2. Statement(t).use \in {"none", "last", "arg"}
        BY <1>5, StatementFacts
    <2> QED
        BY <2>1, <2>2 DEF Use
<1>7. Call(t).pc \in Recording[Call(t).kernel]
    BY <1>2, <1>4 DEF Recording, Statement
<1> QED
    BY <1>4, <1>6, <1>7

(* A call that has recorded one more operation.                             *)
LEMMA RecordedCall ==
    ASSUME NEW c \in Running, NEW v \in Operands
    PROVE  LET f == [c EXCEPT !.pc = @ + 1, !.last = v]
           IN  /\ f \in Running /\ f.b = c.b /\ f.kernel = c.kernel
               /\ f.stage = c.stage /\ f.pc = c.pc + 1
<1> DEFINE f == [c EXCEPT !.pc = @ + 1, !.last = v]
           g == [c EXCEPT !.pc = c.pc + 1]
<1>1. g \in Running
    BY DEF Running
<1>2. f = [g EXCEPT !.last = v]
    BY DEF Running
<1>3. f.b = c.b /\ f.kernel = c.kernel /\ f.stage = c.stage /\ f.pc = c.pc + 1
    BY DEF Running
<1> HIDE DEF g
<1>4. [g EXCEPT !.last = v] \in Running
    BY <1>1 DEF Running
<1> QED
    BY <1>2, <1>3, <1>4

(* An operation is appended to its own call's IR.                           *)
LEMMA OperationKeeps ==
    ASSUME IInv, NEW t \in Threads, Operation(t)
    PROVE  IInv'
<1> DEFINE b == Call(t).b
           op == [by |-> b, at |-> Call(t).pc, uses |-> Use(t)]
           f == [Call(t) EXCEPT !.pc = @ + 1, !.last = <<[b |-> b, id |-> Len(ir[b]) + 1]>>]
           n == Len(calls[t])
<1>1. /\ calls[t] # <<>> /\ ~exc[t] /\ Call(t).stage = "trace" /\ Appends(Statement(t))
      /\ TypeOK /\ StacksNest /\ Runs(t)
    BY DEF Operation, Runs, IInv
<1>2. Target(t) = b
    BY <1>1, OwnBuilderOnTop DEF Target
<1>3. /\ ir' = [ir EXCEPT ![b] = Append(@, op)]
      /\ calls' = [calls EXCEPT ![t] = SetLast(@, f)]
      /\ UNCHANGED <<active, exc, outside, kernel, status>>
    BY <1>2 DEF Operation
<1>4. /\ calls[t] \in Seq(Running) /\ Call(t) \in Running /\ Call(t) = calls[t][n]
      /\ n \in Nat \ {0} /\ DOMAIN calls[t] = 1 .. n /\ n \in DOMAIN calls[t]
    BY <1>1, CallFacts
<1>5. /\ ir \in Seq(Seq([by : Nat, at : Nat, uses : Operands])) /\ DOMAIN ir = 1 .. Len(ir)
      /\ calls \in [Threads -> Seq(Running)] /\ Len(ir) \in Nat
    BY <1>1, LenProperties DEF TypeOK
<1>6. b \in DOMAIN ir /\ ir[b] \in Seq([by : Nat, at : Nat, uses : Operands])
    <2>1. b \in DOMAIN ir
        BY <1>4 DEF IInv, OwnsBuilder
    <2> QED
        BY <1>5, <2>1, ElementOfSeq
<1>7. op \in [by : Nat, at : Nat, uses : Operands] /\ op.at = Call(t).pc
    BY <1>1, <1>4, UseFacts DEF Running
<1>8. /\ f \in Running /\ f.b = b /\ f.kernel = Call(t).kernel /\ f.stage = "trace"
      /\ f.pc = Call(t).pc + 1
    <2> DEFINE v == <<[b |-> b, id |-> Len(ir[b]) + 1]>>
    <2>1. v \in Operands
        <3>1. [b |-> b, id |-> Len(ir[b]) + 1] \in Values
            BY <1>4, <1>6, LenProperties DEF Running, Values
        <3> HIDE DEF b
        <3> QED
            BY <3>1 DEF Operands
    <2> HIDE DEF v
    <2>2. f = [Call(t) EXCEPT !.pc = @ + 1, !.last = v]
        BY DEF v
    <2> QED
        BY <1>1, <1>4, <2>1, <2>2, RecordedCall
<1> HIDE DEF f, op, b, n
<1>9. /\ calls'[t] = SetLast(calls[t], f) /\ calls'[t] \in Seq(Running)
      /\ Len(calls'[t]) = n /\ DOMAIN calls'[t] = 1 .. n /\ calls'[t] # <<>>
      /\ calls'[t][n] = f /\ Last(calls'[t]) = f
      /\ \A j \in 1 .. n : j # n => calls'[t][j] = calls[t][j]
      /\ \A u \in Threads : u # t => calls'[u] = calls[u]
    <2>1. /\ calls'[t] = SetLast(calls[t], f)
          /\ \A u \in Threads : u # t => calls'[u] = calls[u]
        BY <1>3, <1>5
    <2>2. calls[t] \in Seq(Running) /\ calls[t] # <<>> /\ f \in Running
        BY <1>1, <1>4, <1>8
    <2>3. /\ SetLast(calls[t], f) \in Seq(Running) /\ Len(SetLast(calls[t], f)) = Len(calls[t])
          /\ DOMAIN SetLast(calls[t], f) = DOMAIN calls[t]
          /\ SetLast(calls[t], f)[Len(calls[t])] = f /\ Last(SetLast(calls[t], f)) = f
          /\ \A i \in 1 .. Len(calls[t]) : i # Len(calls[t]) => SetLast(calls[t], f)[i] = calls[t][i]
          /\ SetLast(calls[t], f) # <<>>
        BY <2>2, SetLastFacts
    <2> QED
        BY <1>4, <2>1, <2>3 DEF n
<1>10. /\ ir' \in Seq(Seq([by : Nat, at : Nat, uses : Operands])) /\ Len(ir') = Len(ir)
       /\ DOMAIN ir' = DOMAIN ir /\ ir'[b] = Append(ir[b], op)
       /\ \A c \in DOMAIN ir : c # b => ir'[c] = ir[c]
    <2>1. Append(ir[b], op) \in Seq([by : Nat, at : Nat, uses : Operands])
        BY <1>6, <1>7, AppendFacts
    <2> QED
        BY <1>3, <1>5, <1>6, <2>1, ExceptSeq
<1>11. TypeOK'
    <2>1. calls' \in [Threads -> Seq(Running)]
        BY <1>3, <1>5, <1>9
    <2>2. \A u \in Threads : exc'[u] => calls'[u] # <<>> /\ Last(calls'[u]).stage = "trace"
        BY <1>1, <1>3, <1>8, <1>9 DEF TypeOK, Call
    <2> QED
        BY <1>1, <1>3, <1>10, <2>1, <2>2 DEF TypeOK, Call
<1>12. \A u \in Threads : DOMAIN calls'[u] = DOMAIN calls[u]
    BY <1>4, <1>9
<1>13. \A u \in Threads : \A j \in DOMAIN calls'[u] :
           /\ calls'[u][j].b = calls[u][j].b /\ calls'[u][j].kernel = calls[u][j].kernel
           /\ calls'[u][j].stage = calls[u][j].stage
    BY <1>1, <1>4, <1>8, <1>9 DEF b
<1>14. StacksNest'
    <2> SUFFICES ASSUME NEW u \in Threads
                 PROVE  /\ active[u] = [j \in DOMAIN Tracing(u)' |-> Tracing(u)'[j].b]
                        /\ \A j \in DOMAIN Tracing(u)' : Tracing(u)'[j].stage = "trace"
        BY <1>3 DEF StacksNest
    <2>1. CASE u # t
        BY <1>1, <1>9, <2>1 DEF Tracing, Call, StacksNest
    <2>2. CASE u = t
        <3>1. Tracing(t)' = calls'[t] /\ Tracing(t) = calls[t]
            BY <1>1, <1>8, <1>9, TracingFacts DEF Tracing, Call
        <3>2. /\ active[t] = [j \in DOMAIN calls[t] |-> calls[t][j].b]
              /\ \A j \in DOMAIN calls[t] : calls[t][j].stage = "trace"
            BY <1>1, <3>1 DEF StacksNest
        <3> QED
            BY <1>12, <1>13, <2>2, <3>1, <3>2
    <2> QED
        BY <2>1, <2>2
<1>15. OwnsBuilder'
    BY <1>3, <1>10, <1>12, <1>13 DEF IInv, OwnsBuilder
<1>16. NoSharing'
    BY <1>12, <1>13 DEF IInv, NoSharing
<1>17. CallersWait'
    <2> SUFFICES ASSUME NEW u \in Threads, NEW j \in DOMAIN calls'[u], j < Len(calls'[u])
                 PROVE  /\ calls'[u][j].pc \in DOMAIN Body[calls'[u][j].kernel]
                        /\ Body[calls'[u][j].kernel][calls'[u][j].pc].s = "call"
        BY DEF CallersWait
    <2>1. calls'[u][j] = calls[u][j] /\ j \in DOMAIN calls[u] /\ j < Len(calls[u])
        BY <1>4, <1>9 DEF n
    <2> QED
        BY <2>1 DEF IInv, CallersWait
<1>18. RecordedSoFar'
    <2> SUFFICES ASSUME NEW u \in Threads, NEW j \in DOMAIN calls'[u], calls'[u][j].stage = "trace"
                 PROVE  {ir'[calls'[u][j].b][i].at : i \in DOMAIN ir'[calls'[u][j].b]} = Past(calls'[u][j])
        BY DEF RecordedSoFar, At, Past
    <2>1. j \in DOMAIN calls[u] /\ calls[u][j].stage = "trace" /\ calls'[u][j].b = calls[u][j].b
        BY <1>12, <1>13
    <2>2. At(calls[u][j].b) = Past(calls[u][j]) /\ calls[u][j].b \in DOMAIN ir
        BY <2>1 DEF IInv, RecordedSoFar, OwnsBuilder
    <2>3. CASE u = t /\ j = n
        <3>1. calls'[u][j] = f /\ calls[u][j] = Call(t) /\ calls'[u][j].b = b
            BY <1>4, <1>8, <1>9, <2>3
        <3>2. {ir'[b][i].at : i \in DOMAIN ir'[b]} = At(b) \cup {Call(t).pc}
            <4> DEFINE s == ir[b]
                       q == ir'[b]
            <4>1. /\ DOMAIN q = 1 .. Len(s) + 1 /\ q[Len(s) + 1] = op /\ Len(s) \in Nat
                  /\ \A i \in 1 .. Len(s) : q[i] = s[i] /\ DOMAIN s = 1 .. Len(s)
                BY <1>6, <1>7, <1>10, AppendFacts, LenProperties
            <4> HIDE DEF s, q
            <4>2. {q[i].at : i \in DOMAIN q} = {s[i].at : i \in DOMAIN s} \cup {op.at}
                BY <4>1, LenProperties
            <4> QED
                BY <1>7, <4>2 DEF s, q, At
        <3>3. Past(f) = Past(Call(t)) \cup {Call(t).pc}
            <4>1. Call(t).pc \in Recording[Call(t).kernel]
                BY <1>1, UseFacts
            <4>2. Call(t).pc \in Nat /\ Call(t).kernel \in Kernels
                BY <1>4 DEF Running
            <4>3. \A p \in Recording[Call(t).kernel] : p \in Nat
                BY <4>2, BodyAssumption, LenProperties DEF Recording
            <4> QED
                BY <1>8, <4>1, <4>2, <4>3 DEF Past
        <3> QED
            BY <2>2, <3>1, <3>2, <3>3 DEF b
    <2>4. CASE ~(u = t /\ j = n)
        <3>1. calls'[u][j] = calls[u][j]
            BY <1>4, <1>9, <2>4
        <3>2. calls[u][j].b # b
            BY <1>4, <2>1, <2>4 DEF IInv, NoSharing, b
        <3>3. ir'[calls'[u][j].b] = ir[calls[u][j].b]
            BY <1>10, <2>2, <3>1, <3>2
        <3> QED
            BY <2>2, <3>1, <3>3 DEF At
    <2> QED
        BY <2>3, <2>4
<1> QED
    BY <1>11, <1>14, <1>15, <1>16, <1>17, <1>18 DEF IInv

(* What a call's builder becomes leaves the other builders alone.           *)
LEMMA BecomesFacts ==
    ASSUME TypeOK, NEW b \in DOMAIN ir, NEW what \in Statuses, Becomes(b, what)
    PROVE  /\ status' \in Seq(Statuses) /\ Len(status') = Len(status)
           /\ status'[b] = what
           /\ \A c \in DOMAIN ir : c # b => status'[c] = status[c]
<1>1. /\ status \in Seq(Statuses) /\ Len(status) = Len(ir)
      /\ DOMAIN ir = 1 .. Len(ir) /\ DOMAIN status = 1 .. Len(status)
    BY LenProperties DEF TypeOK
<1>2. b \in 1 .. Len(status)
    BY <1>1
<1>3. /\ [status EXCEPT ![b] = what] \in Seq(Statuses)
      /\ Len([status EXCEPT ![b] = what]) = Len(status)
    BY <1>1, <1>2, ExceptSeq
<1> QED
    BY <1>1, <1>2, <1>3 DEF Becomes

(* A call that ends, compiled or not, goes with its builder.                *)
LEMMA EndKeeps ==
    ASSUME IInv, NEW t \in Threads, calls[t] # <<>>,
           NEW raised \in BOOLEAN, Ends(t, raised),
           NEW what \in {"traced", "ready", "raised"}, Becomes(Call(t).b, what),
           UNCHANGED <<outside, ir, kernel>>,
           Call(t).stage = "trace" => Pops(t),
           Call(t).stage = "emit" => UNCHANGED active
    PROVE  IInv'
<1> DEFINE b == Call(t).b
           n == Len(calls[t])
<1>1. TypeOK /\ StacksNest /\ CallersWait /\ ir' = ir /\ kernel' = kernel /\ outside' = outside
    BY DEF IInv
<1>2. /\ calls' \in [Threads -> Seq(Running)] /\ exc' \in [Threads -> BOOLEAN]
      /\ \A u \in Threads : u # t => calls'[u] = calls[u] /\ exc'[u] = exc[u]
      /\ Len(calls'[t]) = n - 1 /\ DOMAIN calls'[t] = 1 .. n - 1
      /\ \A j \in DOMAIN calls'[t] : /\ calls'[t][j].b = calls[t][j].b
                                     /\ calls'[t][j].kernel = calls[t][j].kernel
                                     /\ calls'[t][j].stage = calls[t][j].stage
                                     /\ \/ calls'[t][j].pc = calls[t][j].pc
                                        \/ /\ j = Len(calls'[t])
                                           /\ calls'[t][j].pc = calls[t][j].pc + 1
      /\ exc'[t] => calls'[t] # <<>>
      /\ Keeps(t)
    BY <1>1, EndsFacts
<1>3. /\ n \in Nat \ {0} /\ DOMAIN calls[t] = 1 .. n /\ Call(t) = calls[t][n]
      /\ calls[t] \in Seq(Running) /\ Call(t) \in Running
    BY <1>1, CallFacts
<1>4. b \in DOMAIN ir
    BY <1>3 DEF IInv, OwnsBuilder
<1>5. /\ status' \in Seq(Statuses) /\ Len(status') = Len(status)
      /\ \A c \in DOMAIN ir : c # b => status'[c] = status[c]
    <2>1. what \in Statuses
        BY DEF Statuses
    <2> QED
        BY <1>1, <1>4, <2>1, BecomesFacts
<1> HIDE DEF b, n
<1>6. \A j \in DOMAIN calls'[t] : j \in DOMAIN calls[t] /\ j < n /\ j # n
    BY <1>2, <1>3
<1>7. \A j \in DOMAIN calls'[t] : calls'[t][j].stage = "trace"
    BY <1>1, <1>2, <1>6, TracingFacts DEF n
<1>8. calls'[t] = <<>> \/ Last(calls'[t]).stage = "trace"
    <2>1. calls'[t] \in Seq(Running)
        BY <1>2
    <2>2. CASE calls'[t] # <<>>
        <3>1. Last(calls'[t]) = calls'[t][Len(calls'[t])] /\ Len(calls'[t]) \in Nat \ {0}
            BY <2>1, <2>2, FrontFacts
        <3>2. Len(calls'[t]) \in DOMAIN calls'[t]
            BY <1>2, <1>3, <3>1
        <3> QED
            BY <1>7, <3>1, <3>2
    <2> QED
        BY <2>2
<1>9. /\ active'[t] = [j \in 1 .. n - 1 |-> calls[t][j].b]
      /\ active' \in [Threads -> Seq(Nat \ {0})]
      /\ \A u \in Threads : u # t => active'[u] = active[u]
    <2>1. active \in [Threads -> Seq(Nat \ {0})]
        BY <1>1 DEF TypeOK
    <2>2. CASE Call(t).stage = "trace"
        <3>1. Pops(t)
            BY <2>2
        <3>2. Front(active[t]) = [j \in 1 .. n - 1 |-> calls[t][j].b]
            BY <1>1, <2>2, OwnBuilderOnTop DEF n
        <3>3. Front(active[t]) \in Seq(Nat \ {0})
            BY <1>1, <2>1, <2>2, OwnBuilderOnTop, FrontFacts
        <3> QED
            BY <2>1, <3>1, <3>2, <3>3 DEF Pops
    <2>3. CASE Call(t).stage = "emit"
        <3>1. Tracing(t) = Front(calls[t]) /\ active[t] = [j \in DOMAIN Tracing(t) |-> Tracing(t)[j].b]
            BY <1>1, <2>3, TracingFacts
        <3>2. DOMAIN Front(calls[t]) = 1 .. n - 1 /\ \A i \in 1 .. n - 1 : Front(calls[t])[i] = calls[t][i]
            BY <1>1, CallFacts DEF n
        <3> QED
            BY <2>1, <2>3, <3>1, <3>2
    <2> QED
        BY <1>3, <2>2, <2>3 DEF Running
<1>10. TypeOK'
    <2>1. \A u \in Threads : exc'[u] => calls'[u] # <<>> /\ Last(calls'[u]).stage = "trace"
        BY <1>1, <1>2, <1>8 DEF TypeOK, Call
    <2> QED
        BY <1>1, <1>2, <1>5, <1>9, <2>1 DEF TypeOK, Call
<1>11. StacksNest'
    <2> SUFFICES ASSUME NEW u \in Threads
                 PROVE  /\ active'[u] = [j \in DOMAIN Tracing(u)' |-> Tracing(u)'[j].b]
                        /\ \A j \in DOMAIN Tracing(u)' : Tracing(u)'[j].stage = "trace"
        BY DEF StacksNest
    <2>1. CASE u # t
        <3>1. Tracing(u)' = Tracing(u)
            BY <1>2, <2>1 DEF Tracing, Call
        <3>2. active'[u] = active[u]
            BY <1>9, <2>1
        <3>3. /\ active[u] = [j \in DOMAIN Tracing(u) |-> Tracing(u)[j].b]
              /\ \A j \in DOMAIN Tracing(u) : Tracing(u)[j].stage = "trace"
            BY <1>1 DEF StacksNest
        <3> QED
            BY <3>1, <3>2, <3>3
    <2>2. CASE u = t
        <3>1. Tracing(t)' = calls'[t]
            BY <1>8 DEF Tracing, Call
        <3>2. active'[t] = [j \in DOMAIN calls'[t] |-> calls[t][j].b]
            BY <1>2, <1>9
        <3>3. active'[t] = [j \in DOMAIN calls'[t] |-> calls'[t][j].b]
            BY <1>2, <3>2
        <3> QED
            BY <1>7, <2>2, <3>1, <3>3
    <2> QED
        BY <2>1, <2>2
<1>12. \A u \in Threads : \A j \in DOMAIN calls'[u] :
           /\ j \in DOMAIN calls[u] /\ calls'[u][j].b = calls[u][j].b
           /\ calls'[u][j].kernel = calls[u][j].kernel /\ calls'[u][j].stage = calls[u][j].stage
           /\ calls[u][j].b # b
    <2> TAKE u \in Threads
    <2> TAKE j \in DOMAIN calls'[u]
    <2>1. /\ j \in DOMAIN calls[u] /\ calls'[u][j].b = calls[u][j].b
          /\ calls'[u][j].kernel = calls[u][j].kernel /\ calls'[u][j].stage = calls[u][j].stage
        BY <1>2, <1>6
    <2>2. n \in DOMAIN calls[t] /\ b = calls[t][n].b /\ ~(u = t /\ j = n)
        BY <1>3, <1>6 DEF b
    <2> QED
        BY <2>1, <2>2 DEF IInv, NoSharing
<1>13. OwnsBuilder'
    BY <1>5, <1>12 DEF IInv, OwnsBuilder
<1>14. NoSharing'
    BY <1>2, KeepsApart DEF IInv
<1>15. CallersWait'
    <2> SUFFICES ASSUME NEW u \in Threads, NEW j \in DOMAIN calls'[u], j < Len(calls'[u])
                 PROVE  /\ calls'[u][j].pc \in DOMAIN Body[calls'[u][j].kernel]
                        /\ Body[calls'[u][j].kernel][calls'[u][j].pc].s = "call"
        BY DEF CallersWait
    <2>1. CASE u # t
        BY <1>2, <2>1 DEF IInv, CallersWait
    <2>2. CASE u = t
        <3>1. j \in DOMAIN calls[t] /\ j < Len(calls[t]) /\ j # Len(calls'[t])
            BY <1>2, <1>6, <2>2 DEF n
        <3>2. calls'[t][j].pc = calls[t][j].pc /\ calls'[t][j].kernel = calls[t][j].kernel
            BY <1>2, <2>2, <3>1
        <3> QED
            BY <1>1, <2>2, <3>1, <3>2 DEF CallersWait
    <2> QED
        BY <2>1, <2>2
<1>16. RecordedSoFar'
    <2> SUFFICES ASSUME NEW u \in Threads, NEW j \in DOMAIN calls'[u], calls'[u][j].stage = "trace"
                 PROVE  {ir'[calls'[u][j].b][i].at : i \in DOMAIN ir'[calls'[u][j].b]} = Past(calls'[u][j])
        BY DEF RecordedSoFar, At, Past
    <2>1. At(calls[u][j].b) = Past(calls[u][j]) /\ j \in DOMAIN calls[u]
        BY <1>12 DEF IInv, RecordedSoFar
    <2>2. Past(calls'[u][j]) = Past(calls[u][j])
        <3>1. CASE calls'[u][j].pc = calls[u][j].pc
            BY <1>12, <3>1 DEF Past
        <3>2. CASE u = t /\ calls'[u][j].pc = calls[u][j].pc + 1
            <4> DEFINE c == calls[t][j]
            <4>1. /\ c.pc \in DOMAIN Body[c.kernel] /\ Body[c.kernel][c.pc].s = "call"
                BY <1>1, <1>6, <3>2 DEF CallersWait, n
            <4>2. c \in Running
                BY <1>3, <2>1, <3>2, ElementOfSeq
            <4>3. c.kernel \in Kernels /\ c.pc \in Nat
                BY <4>2 DEF Running
            <4>4. c.pc \notin Recording[c.kernel]
                BY <4>1, <4>3 DEF Recording, Appends
            <4>5. \A p \in Recording[c.kernel] : p \in Nat
                BY <4>3, BodyAssumption, LenProperties DEF Recording
            <4>6. calls'[t][j].kernel = c.kernel /\ calls'[t][j].pc = c.pc + 1
                BY <1>12, <3>2
            <4> HIDE DEF c
            <4>7. \A p \in Recording[c.kernel] : p < c.pc + 1 <=> p < c.pc
                BY <4>3, <4>4, <4>5
            <4>8. Past(calls'[t][j]) = Past(c)
                BY <4>6, <4>7 DEF Past
            <4> QED
                BY <3>2, <4>8 DEF c
        <3> QED
            BY <1>2, <3>1, <3>2
    <2> QED
        BY <1>12, <2>1, <2>2 DEF At
<1> QED
    BY <1>10, <1>11, <1>13, <1>14, <1>15, <1>16 DEF IInv

(* A call whose trace is complete and goes on to be compiled.               *)
LEMMA TracedKeeps ==
    ASSUME IInv, NEW t \in Threads, calls[t] # <<>>, ~exc[t], Call(t).stage = "trace",
           Pops(t), Becomes(Call(t).b, "traced"),
           calls' = [calls EXCEPT ![t] = SetLast(@, [Call(t) EXCEPT !.stage = "emit"])],
           UNCHANGED <<exc, outside, ir, kernel>>
    PROVE  IInv'
<1> DEFINE b == Call(t).b
           n == Len(calls[t])
           f == [Call(t) EXCEPT !.stage = "emit"]
<1>1. /\ TypeOK /\ StacksNest /\ CallersWait
      /\ exc' = exc /\ ir' = ir /\ kernel' = kernel /\ outside' = outside
    BY DEF IInv
<1>2. /\ n \in Nat \ {0} /\ DOMAIN calls[t] = 1 .. n /\ n \in DOMAIN calls[t]
      /\ Call(t) = calls[t][n] /\ calls[t] \in Seq(Running) /\ Call(t) \in Running
      /\ calls \in [Threads -> Seq(Running)]
    BY <1>1, CallFacts DEF TypeOK
<1>3. b \in DOMAIN ir /\ b = calls[t][n].b
    BY <1>2 DEF IInv, OwnsBuilder
<1>4. /\ status' \in Seq(Statuses) /\ Len(status') = Len(status) /\ status'[b] = "traced"
      /\ \A c \in DOMAIN ir : c # b => status'[c] = status[c]
    <2>1. "traced" \in Statuses
        BY DEF Statuses
    <2> QED
        BY <1>1, <1>3, <2>1, BecomesFacts
<1>5. /\ f \in Running /\ f.b = b /\ f.kernel = Call(t).kernel /\ f.stage = "emit"
      /\ f.pc = Call(t).pc
    BY <1>2 DEF Running
<1> HIDE DEF f, b, n
<1>6. /\ calls'[t] \in Seq(Running) /\ Len(calls'[t]) = n /\ DOMAIN calls'[t] = 1 .. n
      /\ calls'[t][n] = f /\ Last(calls'[t]) = f /\ calls'[t] # <<>>
      /\ \A j \in 1 .. n : j # n => calls'[t][j] = calls[t][j]
      /\ \A u \in Threads : u # t => calls'[u] = calls[u]
    <2>1. /\ calls'[t] = SetLast(calls[t], f)
          /\ \A u \in Threads : u # t => calls'[u] = calls[u]
        BY <1>2 DEF f
    <2>2. calls[t] \in Seq(Running) /\ calls[t] # <<>> /\ f \in Running
        BY <1>2, <1>5
    <2>3. /\ SetLast(calls[t], f) \in Seq(Running) /\ Len(SetLast(calls[t], f)) = Len(calls[t])
          /\ DOMAIN SetLast(calls[t], f) = DOMAIN calls[t]
          /\ SetLast(calls[t], f)[Len(calls[t])] = f /\ Last(SetLast(calls[t], f)) = f
          /\ \A i \in 1 .. Len(calls[t]) : i # Len(calls[t]) => SetLast(calls[t], f)[i] = calls[t][i]
          /\ SetLast(calls[t], f) # <<>>
        BY ONLY <2>2, SetLastFacts
    <2> QED
        BY <1>2, <2>1, <2>3 DEF n
<1>7. \A u \in Threads : \A j \in DOMAIN calls'[u] :
          /\ j \in DOMAIN calls[u]
          /\ calls'[u][j].b = calls[u][j].b /\ calls'[u][j].kernel = calls[u][j].kernel
          /\ calls'[u][j].pc = calls[u][j].pc
          /\ \/ calls'[u][j] = calls[u][j] /\ ~(u = t /\ j = n)
             \/ calls'[u][j] = f /\ u = t /\ j = n
    BY <1>2, <1>3, <1>5, <1>6
<1>8. \A u \in Threads : \A j \in DOMAIN calls[u] :
          ~(u = t /\ j = n) => calls[u][j].b # b
    BY <1>2, <1>3 DEF IInv, NoSharing
<1>9. /\ active' = [active EXCEPT ![t] = Front(@)]
      /\ Front(active[t]) = [j \in 1 .. n - 1 |-> calls[t][j].b]
      /\ Front(active[t]) \in Seq(Nat \ {0})
      /\ active \in [Threads -> Seq(Nat \ {0})]
    <2>1. active[t] \in Seq(Nat \ {0}) /\ active[t] # <<>>
        BY <1>1, OwnBuilderOnTop
    <2> QED
        BY <1>1, <2>1, OwnBuilderOnTop, FrontFacts DEF Pops, TypeOK, n
<1>10. TypeOK'
    <2>1. calls' \in [Threads -> Seq(Running)]
        BY <1>2, <1>6
    <2>2. active' \in [Threads -> Seq(Nat \ {0})]
        BY <1>9
    <2>3. \A u \in Threads : exc'[u] => calls'[u] # <<>> /\ Last(calls'[u]).stage = "trace"
        BY <1>1, <1>6 DEF TypeOK, Call
    <2> QED
        BY <1>1, <1>4, <2>1, <2>2, <2>3 DEF TypeOK, Call
<1>11. StacksNest'
    <2> SUFFICES ASSUME NEW u \in Threads
                 PROVE  /\ active'[u] = [j \in DOMAIN Tracing(u)' |-> Tracing(u)'[j].b]
                        /\ \A j \in DOMAIN Tracing(u)' : Tracing(u)'[j].stage = "trace"
        BY DEF StacksNest
    <2>1. CASE u # t
        <3>1. Tracing(u)' = Tracing(u)
            BY <1>6, <2>1 DEF Tracing, Call
        <3>2. active'[u] = active[u]
            BY <1>9, <2>1
        <3>3. /\ active[u] = [j \in DOMAIN Tracing(u) |-> Tracing(u)[j].b]
              /\ \A j \in DOMAIN Tracing(u) : Tracing(u)[j].stage = "trace"
            BY <1>1 DEF StacksNest
        <3> QED
            BY <3>1, <3>2, <3>3
    <2>2. CASE u = t
        <3>1. Tracing(t)' = Front(calls'[t])
            <4>1. calls'[t] # <<>> /\ Last(calls'[t]).stage = "emit"
                BY <1>5, <1>6
            <4> QED
                BY <4>1 DEF Tracing, Call
        <3>2. /\ DOMAIN Front(calls'[t]) = 1 .. n - 1
              /\ \A j \in 1 .. n - 1 : Front(calls'[t])[j] = calls'[t][j]
            <4> DEFINE s == calls'[t]
            <4>1. s \in Seq(Running) /\ s # <<>> /\ Len(s) = n
                BY <1>6
            <4> HIDE DEF s
            <4>2. /\ DOMAIN Front(s) = 1 .. Len(s) - 1
                  /\ \A j \in 1 .. Len(s) - 1 : Front(s)[j] = s[j]
                BY <4>1, FrontFacts
            <4> QED
                BY <4>1, <4>2 DEF s
        <3>3. \A j \in 1 .. n - 1 : Front(calls'[t])[j] = calls[t][j] /\ calls[t][j].stage = "trace"
            <4>1. \A j \in 1 .. n - 1 : j \in DOMAIN calls[t] /\ j < Len(calls[t]) /\ j # n
                BY <1>2 DEF n
            <4>2. \A j \in 1 .. n - 1 : calls[t][j].stage = "trace"
                BY <1>1, <4>1, TracingFacts
            <4> QED
                BY <1>2, <1>6, <3>2, <4>1, <4>2
        <3>4. active'[t] = [j \in 1 .. n - 1 |-> calls[t][j].b]
            BY <1>9
        <3>5. active'[t] = [j \in 1 .. n - 1 |-> Front(calls'[t])[j].b]
            BY <3>3, <3>4
        <3> QED
            <4>1. active'[t] = [j \in DOMAIN Front(calls'[t]) |-> Front(calls'[t])[j].b]
                BY <3>2, <3>5
            <4>2. \A j \in DOMAIN Front(calls'[t]) : Front(calls'[t])[j].stage = "trace"
                BY <3>2, <3>3
            <4> QED
                BY ONLY <2>2, <3>1, <4>1, <4>2
    <2> QED
        BY <2>1, <2>2
<1>12. OwnsBuilder'
    BY <1>1, <1>3, <1>4, <1>5, <1>7, <1>8 DEF IInv, OwnsBuilder
<1>13. NoSharing'
    BY <1>7 DEF IInv, NoSharing
<1>14. CallersWait'
    <2> SUFFICES ASSUME NEW u \in Threads, NEW j \in DOMAIN calls'[u], j < Len(calls'[u])
                 PROVE  /\ calls'[u][j].pc \in DOMAIN Body[calls'[u][j].kernel]
                        /\ Body[calls'[u][j].kernel][calls'[u][j].pc].s = "call"
        BY DEF CallersWait
    <2>1. j \in DOMAIN calls[u] /\ j < Len(calls[u])
        BY <1>6, <1>7 DEF n
    <2> QED
        BY <1>1, <1>7, <2>1 DEF CallersWait
<1>15. RecordedSoFar'
    <2> SUFFICES ASSUME NEW u \in Threads, NEW j \in DOMAIN calls'[u], calls'[u][j].stage = "trace"
                 PROVE  {ir'[calls'[u][j].b][i].at : i \in DOMAIN ir'[calls'[u][j].b]} = Past(calls'[u][j])
        BY DEF RecordedSoFar, At, Past
    <2>1. calls'[u][j] = calls[u][j] /\ j \in DOMAIN calls[u]
        BY <1>5, <1>7
    <2>2. At(calls[u][j].b) = Past(calls[u][j])
        BY <2>1 DEF IInv, RecordedSoFar
    <2> QED
        BY <1>1, <2>1, <2>2 DEF At
<1> QED
    BY <1>10, <1>11, <1>12, <1>13, <1>14, <1>15 DEF IInv

(* The end of a trace.                                                      *)
LEMMA LeaveKeeps ==
    ASSUME IInv, NEW t \in Threads, Leave(t)
    PROVE  IInv'
<1>1. /\ calls[t] # <<>> /\ ~exc[t] /\ Call(t).stage = "trace" /\ Pops(t)
      /\ UNCHANGED <<outside, ir, kernel>>
    BY DEF Leave
<1>2. CASE Becomes(Call(t).b, "raised") /\ Ends(t, TRUE)
    BY <1>1, <1>2, EndKeeps
<1>3. CASE Becomes(Call(t).b, "traced") /\ Ends(t, FALSE)
    BY <1>1, <1>3, EndKeeps
<1>4. CASE /\ Becomes(Call(t).b, "traced")
           /\ calls' = [calls EXCEPT ![t] = SetLast(@, [Call(t) EXCEPT !.stage = "emit"])]
           /\ UNCHANGED exc
    BY <1>1, <1>4, TracedKeeps
<1> QED
    BY <1>2, <1>3, <1>4 DEF Leave

(* The compilation of a call that has been traced.                          *)
LEMMA CompileKeeps ==
    ASSUME IInv, NEW t \in Threads, Compile(t)
    PROVE  IInv'
<1> DEFINE raised == ~EmitsAll(Call(t).b) \/ Call(t).how = "call"
           what == IF EmitsAll(Call(t).b) THEN "ready" ELSE "raised"
<1>1. /\ calls[t] # <<>> /\ Call(t).stage = "emit" /\ Becomes(Call(t).b, what)
      /\ Ends(t, raised) /\ UNCHANGED <<active, outside, ir, kernel>>
    BY DEF Compile
<1>2. raised \in BOOLEAN /\ what \in {"ready", "raised"}
    BY Zenon
<1> HIDE DEF raised, what
<1> QED
    BY <1>1, <1>2, EndKeeps

(* An exception that leaves a call.                                         *)
LEMMA UnwindKeeps ==
    ASSUME IInv, NEW t \in Threads, Unwind(t)
    PROVE  IInv'
<1>1. calls[t] # <<>> /\ Call(t).stage = "trace"
    BY DEF Unwind, IInv, TypeOK
<1> QED
    BY <1>1, EndKeeps DEF Unwind, UnwindPops

(* A call of a kernel, from outside or from another kernel.                 *)
LEMMA StartKeeps ==
    ASSUME IInv, NEW t \in Threads, Start(t) \/ CallKernel(t)
    PROVE  IInv'
<1>1. CASE Start(t)
    <2>1. PICK k \in Kernels, how \in Hows : Enter(t, k, how, <<>>)
        BY <1>1 DEF Start
    <2>2. calls[t] = <<>> /\ UNCHANGED exc /\ <<>> \in Operands
        BY <1>1, EmptySeq DEF Start, Operands
    <2>3. outside' \in [Threads -> [starts : 0..MaxStarts, strays : 0..MaxStrays]]
        <3>1. outside' = [outside EXCEPT ![t].starts = @ + 1] /\ outside[t].starts < MaxStarts
            BY <1>1 DEF Start
        <3>2. outside \in [Threads -> [starts : 0..MaxStarts, strays : 0..MaxStrays]]
            BY DEF IInv, TypeOK
        <3>3. [outside[t] EXCEPT !.starts = @ + 1] \in [starts : 0..MaxStarts, strays : 0..MaxStrays]
            BY <3>1, <3>2, BoundAssumption
        <3>4. outside' = [outside EXCEPT ![t] = [outside[t] EXCEPT !.starts = @ + 1]]
            BY <3>1, <3>2
        <3> QED
            BY <3>2, <3>3, <3>4
    <2> QED
        BY <2>1, <2>2, <2>3, EnterKeeps
<1>2. CASE CallKernel(t)
    <2> DEFINE st == Statement(t)
               arg == IF st.pass THEN Call(t).last ELSE <<>>
    <2>1. /\ Runs(t) /\ st.s = "call" /\ Enter(t, st.kernel, st.how, arg)
          /\ UNCHANGED <<exc, outside>>
        BY <1>2 DEF CallKernel
    <2>2. Call(t) \in Running /\ calls[t] # <<>> /\ Call(t).stage = "trace"
        BY <2>1, CallFacts DEF Runs, IInv
    <2>3. Call(t).kernel \in Kernels /\ Call(t).pc \in Nat \ {0} /\ Call(t).last \in Operands
        BY <2>2 DEF Running
    <2>4. Body[Call(t).kernel] \in Seq(Statements)
        BY <2>3, BodyAssumption
    <2>5. Call(t).pc \in DOMAIN Body[Call(t).kernel]
        BY <2>1, <2>3, <2>4, LenProperties DEF Runs, AtEnd
    <2>6. st \in Statements
        BY <2>4, <2>5, LenProperties, ElementOfSeq DEF Statement
    <2>7. st.kernel \in Kernels /\ st.how \in Hows /\ arg \in Operands
        BY <2>1, <2>3, <2>6, StatementFacts, EmptySeq DEF Operands
    <2>8. outside' \in [Threads -> [starts : 0..MaxStarts, strays : 0..MaxStrays]]
        BY <2>1 DEF IInv, TypeOK
    <2> HIDE DEF arg
    <2> QED
        BY <2>1, <2>2, <2>5, <2>7, <2>8, EnterKeeps
<1> QED
    BY <1>1, <1>2

(* A statement that raises, and an operator outside of every kernel.        *)
LEMMA OutsideKeeps ==
    ASSUME IInv, NEW t \in Threads, Raise(t) \/ Stray(t)
    PROVE  IInv'
<1>1. CASE Raise(t)
    <2>1. /\ calls[t] # <<>> /\ Call(t).stage = "trace" /\ exc' = [exc EXCEPT ![t] = TRUE]
          /\ active' = active /\ calls' = calls /\ outside' = outside /\ ir' = ir
          /\ kernel' = kernel /\ status' = status
        BY <1>1 DEF Raise, Runs
    <2>2. TypeOK'
        BY <2>1 DEF IInv, TypeOK, Call
    <2>3. StacksNest'
        BY <2>1 DEF IInv, StacksNest, Tracing, Call
    <2>4. OwnsBuilder' /\ NoSharing' /\ CallersWait'
        BY <2>1 DEF IInv, OwnsBuilder, NoSharing, CallersWait
    <2>5. RecordedSoFar'
        <3>1. RecordedSoFar
            BY DEF IInv
        <3>2. calls' = calls /\ ir' = ir
            BY <2>1
        <3> QED
            BY ONLY <3>1, <3>2 DEF RecordedSoFar, At, Past
    <2> QED
        BY <2>2, <2>3, <2>4, <2>5 DEF IInv
<1>2. CASE Stray(t)
    <2>1. active[t] = <<>>
        BY <1>2, TracingFacts DEF Stray, IInv
    <2>2. /\ active' = active /\ calls' = calls /\ exc' = exc /\ ir' = ir
          /\ kernel' = kernel /\ status' = status
          /\ outside' = [outside EXCEPT ![t].strays = @ + 1] /\ outside[t].strays < MaxStrays
        BY <1>2, <2>1 DEF Stray
    <2>3. outside' \in [Threads -> [starts : 0..MaxStarts, strays : 0..MaxStrays]]
        <3>1. outside \in [Threads -> [starts : 0..MaxStarts, strays : 0..MaxStrays]]
            BY DEF IInv, TypeOK
        <3>2. [outside[t] EXCEPT !.strays = @ + 1] \in [starts : 0..MaxStarts, strays : 0..MaxStrays]
            BY <2>2, <3>1, BoundAssumption
        <3>3. outside' = [outside EXCEPT ![t] = [outside[t] EXCEPT !.strays = @ + 1]]
            BY <2>2, <3>1
        <3> QED
            BY <3>1, <3>2, <3>3
    <2>4. TypeOK'
        BY <2>2, <2>3 DEF IInv, TypeOK, Call
    <2>5. StacksNest'
        BY <2>2 DEF IInv, StacksNest, Tracing, Call
    <2>6. OwnsBuilder' /\ NoSharing' /\ CallersWait'
        BY <2>2 DEF IInv, OwnsBuilder, NoSharing, CallersWait
    <2>7. RecordedSoFar'
        BY <2>2 DEF IInv, RecordedSoFar, At, Past
    <2> QED
        BY <2>4, <2>5, <2>6, <2>7 DEF IInv
<1> QED
    BY <1>1, <1>2

(***************************************************************************)
(* The theorems.                                                            *)
(***************************************************************************)

(* Nobody has called anything.                                              *)
LEMMA InitIInv == Init => IInv
<1> SUFFICES ASSUME Init
             PROVE  IInv
    OBVIOUS
<1>1. /\ active = [t \in Threads |-> <<>>] /\ calls = [t \in Threads |-> <<>>]
      /\ exc = [t \in Threads |-> FALSE] /\ ir = <<>> /\ kernel = <<>> /\ status = <<>>
      /\ outside = [t \in Threads |-> [starts |-> 0, strays |-> 0]]
    BY DEF Init
<1>2. TypeOK
    <2>1. /\ ir \in Seq(Seq([by : Nat, at : Nat, uses : Operands])) /\ kernel \in Seq(Kernels)
          /\ status \in Seq(Statuses) /\ Len(kernel) = Len(ir) /\ Len(status) = Len(ir)
        BY <1>1, EmptySeq
    <2>2. active \in [Threads -> Seq(Nat \ {0})] /\ calls \in [Threads -> Seq(Running)]
        <3>1. <<>> \in Seq(Nat \ {0}) /\ <<>> \in Seq(Running)
            BY EmptySeq
        <3> QED
            BY <1>1, <3>1
    <2>3. outside \in [Threads -> [starts : 0..MaxStarts, strays : 0..MaxStrays]]
        BY <1>1, BoundAssumption
    <2> QED
        BY <1>1, <2>1, <2>2, <2>3 DEF TypeOK
<1>3. \A t \in Threads : DOMAIN calls[t] = {} /\ Tracing(t) = <<>> /\ active[t] = <<>>
    <2>1. \A t \in Threads : calls[t] = <<>> /\ active[t] = <<>>
        BY <1>1
    <2>2. DOMAIN <<>> = {}
        BY SMT
    <2> QED
        BY <2>1, <2>2 DEF Tracing
<1>4. StacksNest
    <2>1. <<>> = [j \in DOMAIN <<>> |-> <<>>[j].b]
        BY SMT
    <2>2. DOMAIN <<>> = {}
        BY SMT
    <2> QED
        BY <1>3, <2>1, <2>2 DEF StacksNest
<1> QED
    BY <1>2, <1>3, <1>4 DEF IInv, OwnsBuilder, NoSharing, CallersWait, RecordedSoFar

(* Every step keeps it.                                                     *)
LEMMA NextIInv == IInv /\ [Next]_vars => IInv'
<1> SUFFICES ASSUME IInv, [Next]_vars
             PROVE  IInv'
    OBVIOUS
<1>1. CASE UNCHANGED vars
    <2>1. /\ active' = active /\ calls' = calls /\ exc' = exc /\ outside' = outside
          /\ ir' = ir /\ kernel' = kernel /\ status' = status
        BY <1>1 DEF vars
    <2>2. TypeOK' /\ StacksNest'
        BY <2>1 DEF IInv, TypeOK, StacksNest, Tracing, Call
    <2>3. OwnsBuilder' /\ NoSharing' /\ CallersWait'
        BY <2>1 DEF IInv, OwnsBuilder, NoSharing, CallersWait
    <2>4. RecordedSoFar'
        <3>1. RecordedSoFar
            BY DEF IInv
        <3>2. calls' = calls /\ ir' = ir
            BY <2>1
        <3> QED
            BY ONLY <3>1, <3>2 DEF RecordedSoFar, At, Past
    <2> QED
        BY <2>2, <2>3, <2>4 DEF IInv
<1>2. ASSUME NEW t \in Threads, Start(t) \/ CallKernel(t)
      PROVE  IInv'
    BY <1>2, StartKeeps
<1>3. ASSUME NEW t \in Threads, Operation(t)
      PROVE  IInv'
    BY <1>3, OperationKeeps
<1>4. ASSUME NEW t \in Threads, Raise(t) \/ Stray(t)
      PROVE  IInv'
    BY <1>4, OutsideKeeps
<1>5. ASSUME NEW t \in Threads, Leave(t)
      PROVE  IInv'
    BY <1>5, LeaveKeeps
<1>6. ASSUME NEW t \in Threads, Compile(t)
      PROVE  IInv'
    BY <1>6, CompileKeeps
<1>7. ASSUME NEW t \in Threads, Unwind(t)
      PROVE  IInv'
    BY <1>7, UnwindKeeps
<1> QED
    BY <1>1, <1>2, <1>3, <1>4, <1>5, <1>6, <1>7 DEF Next, Step, Rest

(* The state of calls has its types, whatever the kernels and threads.      *)
THEOREM CallsTypeCorrect == Spec => []TypeOK
<1>1. IInv => TypeOK
    BY DEF IInv
<1> QED
    BY InitIInv, NextIInv, <1>1, PTL DEF Spec

(* __exit__ never sees another builder than its own, and an exception or a  *)
(* nested call leaves nothing on a thread's stack.                          *)
THEOREM StacksAlwaysNest == Spec => []StacksNest
<1>1. IInv => StacksNest
    BY DEF IInv
<1> QED
    BY InitIInv, NextIInv, <1>1, PTL DEF Spec

(***************************************************************************)
(* The refinement of IsolatedTraces.                                        *)
(***************************************************************************)
Ops == [by : Nat, at : Nat, uses : Operands]
Entries == [by : Nat, at : Nat]
Entry(op) == [by |-> op.by, at |-> op.at]
Entried(s) == [j \in DOMAIN s |-> Entry(s[j])]

(* What an IR records is a sequence that grows with the IR.                 *)
LEMMA EntriedFacts ==
    ASSUME NEW s \in Seq(Ops)
    PROVE  /\ Entried(s) \in Seq(Entries) /\ Len(Entried(s)) = Len(s)
           /\ \A op \in Ops : Entried(Append(s, op)) = Append(Entried(s), Entry(op))
<1>1. Len(s) \in Nat /\ DOMAIN s = 1 .. Len(s) /\ \A j \in 1 .. Len(s) : s[j] \in Ops
    BY LenProperties, ElementOfSeq
<1>2. \A op \in Ops : Entry(op) \in Entries
    BY DEF Ops, Entry, Entries
<1>3. Entried(s) \in [1 .. Len(s) -> Entries]
    BY <1>1, <1>2 DEF Entried
<1>4. Entried(s) \in Seq(Entries)
    BY <1>1, <1>3, SeqDef
<1>5. Len(Entried(s)) = Len(s)
    BY <1>1, <1>3, <1>4, LenProperties
<1>6. ASSUME NEW op \in Ops
      PROVE  Entried(Append(s, op)) = Append(Entried(s), Entry(op))
    <2> DEFINE q == Append(s, op)
    <2>1. /\ q \in Seq(Ops) /\ Len(q) = Len(s) + 1 /\ DOMAIN q = 1 .. Len(s) + 1
          /\ q[Len(s) + 1] = op /\ \A i \in 1 .. Len(s) : q[i] = s[i]
        BY AppendFacts
    <2> HIDE DEF q
    <2>2. Entried(q) \in [1 .. Len(s) + 1 -> Entries]
        <3>1. \A j \in 1 .. Len(s) + 1 : q[j] \in Ops
            BY <2>1, ElementOfSeq
        <3> QED
            BY <1>2, <2>1, <3>1 DEF Entried
    <2>3. /\ Append(Entried(s), Entry(op)) \in Seq(Entries)
          /\ DOMAIN Append(Entried(s), Entry(op)) = 1 .. Len(s) + 1
          /\ Append(Entried(s), Entry(op))[Len(s) + 1] = Entry(op)
          /\ \A i \in 1 .. Len(s) : Append(Entried(s), Entry(op))[i] = Entried(s)[i]
        <3>1. Entry(op) \in Entries
            BY <1>2
        <3> QED
            BY <1>4, <1>5, <3>1, AppendFacts
    <2>4. Append(Entried(s), Entry(op)) \in [1 .. Len(s) + 1 -> Entries]
        BY <2>3, LenProperties, ElementOfSeq
    <2>5. \A i \in 1 .. Len(s) + 1 : Entried(q)[i] = Append(Entried(s), Entry(op))[i]
        <3> TAKE i \in 1 .. Len(s) + 1
        <3>1. CASE i = Len(s) + 1
            BY <2>1, <2>3, <3>1 DEF Entried
        <3>2. CASE i \in 1 .. Len(s)
            <4>1. i \in DOMAIN q /\ i \in DOMAIN s /\ q[i] = s[i]
                BY <1>1, <2>1, <3>2
            <4>2. Entried(q)[i] = Entry(s[i]) /\ Entried(s)[i] = Entry(s[i])
                BY <4>1 DEF Entried
            <4> QED
                BY <2>3, <3>2, <4>2
        <3>3. i = Len(s) + 1 \/ i \in 1 .. Len(s)
            BY <1>1
        <3> QED
            BY <3>1, <3>2, <3>3
    <2> QED
        BY <2>2, <2>4, <2>5 DEF q
<1> QED
    BY <1>4, <1>5, <1>6

(* The log of all calls, and what it says of one.                           *)
LEMMA LogFacts ==
    ASSUME ir \in Seq(Seq(Ops))
    PROVE  /\ Log = [c \in DOMAIN ir |-> Entried(ir[c])]
           /\ Log \in Seq(Seq(Entries)) /\ Len(Log) = Len(ir) /\ DOMAIN Log = DOMAIN ir
           /\ DOMAIN ir = 1 .. Len(ir) /\ Len(ir) \in Nat
           /\ \A c \in DOMAIN ir : Traces!Logged(c) = At(c)
<1>1. Log = [c \in DOMAIN ir |-> Entried(ir[c])]
    BY DEF Log, Entried, Entry
<1>2. Len(ir) \in Nat /\ DOMAIN ir = 1 .. Len(ir) /\ \A c \in 1 .. Len(ir) : ir[c] \in Seq(Ops)
    BY LenProperties, ElementOfSeq
<1>3. Log \in [1 .. Len(ir) -> Seq(Entries)]
    <2>1. \A c \in 1 .. Len(ir) : Entried(ir[c]) \in Seq(Entries)
        BY <1>2, EntriedFacts
    <2> QED
        BY <1>1, <1>2, <2>1
<1>4. Log \in Seq(Seq(Entries))
    <2>1. Len(ir) \in Nat
        BY <1>2
    <2>2. Log \in UNION {[1..n -> Seq(Entries)] : n \in Nat}
        BY <1>3, <2>1, Zenon
    <2> QED
        BY <2>2, SeqDef, Zenon
<1>5. Len(Log) = Len(ir)
    BY <1>2, <1>3, <1>4, LenProperties
<1>6. ASSUME NEW c \in DOMAIN ir
      PROVE  Traces!Logged(c) = At(c)
    <2>1. Log[c] = Entried(ir[c])
        BY <1>1
    <2>2. DOMAIN Log[c] = DOMAIN ir[c] /\ \A j \in DOMAIN ir[c] : Log[c][j].at = ir[c][j].at
        BY <2>1 DEF Entried, Entry
    <2> QED
        BY <2>2 DEF Traces!Logged, At
<1> QED
    BY <1>1, <1>2, <1>3, <1>4, <1>5, <1>6

(* A call that is made begins a trace.                                      *)
LEMMA EnterBegins ==
    ASSUME IInv, IInv', NEW t \in Threads, NEW k \in Kernels, NEW how \in Hows, NEW arg,
           Enter(t, k, how, arg)
    PROVE  Traces!Begin(k)
<1>1. /\ ir' = Append(ir, <<>>) /\ kernel' = Append(kernel, k)
      /\ status' = Append(status, "tracing")
    BY DEF Enter
<1>2. ir \in Seq(Seq(Ops)) /\ ir' \in Seq(Seq(Ops)) /\ <<>> \in Seq(Ops)
    BY EmptySeq DEF IInv, TypeOK, Ops
<1>3. /\ DOMAIN ir = 1 .. Len(ir) /\ Len(ir) \in Nat /\ DOMAIN ir' = 1 .. Len(ir) + 1
      /\ ir'[Len(ir) + 1] = <<>> /\ \A c \in 1 .. Len(ir) : ir'[c] = ir[c]
    BY <1>1, <1>2, AppendFacts
<1>4. Entried(<<>>) = <<>> /\ <<>> \in Seq(Entries)
    <2>1. Entried(<<>>) \in Seq(Entries) /\ Len(Entried(<<>>)) = 0
        BY <1>2, EntriedFacts, EmptySeq
    <2> QED
        BY <2>1, EmptySeq
<1>5. Log = [c \in DOMAIN ir |-> Entried(ir[c])] /\ Log \in Seq(Seq(Entries)) /\ Len(Log) = Len(ir)
    BY <1>2, LogFacts
<1>6. Log' = [c \in 1 .. Len(ir) + 1 |-> Entried(ir'[c])]
    BY <1>3 DEF Log, Entried, Entry
<1>7. /\ Append(Log, <<>>) \in Seq(Seq(Entries)) /\ DOMAIN Append(Log, <<>>) = 1 .. Len(ir) + 1
      /\ Append(Log, <<>>)[Len(ir) + 1] = <<>>
      /\ \A c \in 1 .. Len(ir) : Append(Log, <<>>)[c] = Log[c]
    BY <1>4, <1>5, AppendFacts
<1>8. Append(Log, <<>>) = [c \in 1 .. Len(ir) + 1 |-> Append(Log, <<>>)[c]]
    BY <1>7, LenProperties, ElementOfSeq
<1>9. \A c \in 1 .. Len(ir) + 1 : Entried(ir'[c]) = Append(Log, <<>>)[c]
    <2> TAKE c \in 1 .. Len(ir) + 1
    <2>1. CASE c = Len(ir) + 1
        BY <1>3, <1>4, <1>7, <2>1
    <2>2. CASE c \in 1 .. Len(ir)
        <3>1. c \in DOMAIN ir /\ ir'[c] = ir[c] /\ Append(Log, <<>>)[c] = Log[c]
            BY <1>3, <1>7, <2>2
        <3>2. Log[c] = Entried(ir[c])
            BY <1>5, <3>1
        <3> QED
            BY <3>1, <3>2
    <2>3. c = Len(ir) + 1 \/ c \in 1 .. Len(ir)
        BY <1>3
    <2> QED
        BY <2>1, <2>2, <2>3
<1>10. Log' = Append(Log, <<>>)
    BY <1>6, <1>8, <1>9
<1> QED
    BY <1>1, <1>10 DEF Traces!Begin

(* A step that appends nothing leaves the log.                              *)
LEMMA LogStays == ir' = ir => Log' = Log
    BY DEF Log

(* An operation is the next one that its trace records.                     *)
LEMMA OperationRecords ==
    ASSUME IInv, NEW t \in Threads, Operation(t)
    PROVE  \E c \in DOMAIN Log : \E p \in Recording[kernel[c]] : Traces!Record(c, p)
<1> DEFINE b == Call(t).b
           p == Call(t).pc
           op == [by |-> b, at |-> p, uses |-> Use(t)]
<1>1. /\ calls[t] # <<>> /\ Call(t).stage = "trace" /\ Appends(Statement(t))
      /\ TypeOK /\ StacksNest /\ Runs(t)
    BY DEF Operation, Runs, IInv
<1>2. Target(t) = b
    BY <1>1, OwnBuilderOnTop DEF Target
<1>3. /\ ir' = [ir EXCEPT ![b] = Append(@, op)] /\ kernel' = kernel /\ status' = status
    BY <1>2 DEF Operation
<1>4. /\ Call(t) = calls[t][Len(calls[t])] /\ Len(calls[t]) \in DOMAIN calls[t]
      /\ Call(t) \in Running
    BY <1>1, CallFacts
<1>5. b \in DOMAIN ir /\ status[b] = "tracing" /\ kernel[b] = Call(t).kernel /\ At(b) = Past(Call(t))
    BY <1>1, <1>4 DEF IInv, OwnsBuilder, RecordedSoFar
<1>6. ir \in Seq(Seq(Ops)) /\ ir[b] \in Seq(Ops)
    <2>1. ir \in Seq(Seq(Ops))
        BY <1>1 DEF TypeOK, Ops
    <2> QED
        BY <1>5, <2>1, LenProperties, ElementOfSeq
<1>7. p \in Recording[kernel[b]] /\ op \in Ops /\ Entry(op) = [by |-> b, at |-> p]
    BY <1>1, <1>4, <1>5, UseFacts DEF Running, Ops, Entry
<1>8. /\ Log = [c \in DOMAIN ir |-> Entried(ir[c])] /\ DOMAIN Log = DOMAIN ir
      /\ Traces!Logged(b) = At(b)
    BY <1>5, <1>6, LogFacts
<1>9. Traces!Logged(b) = {q \in Recording[kernel[b]] : q < p}
    BY <1>5, <1>8 DEF Past
<1> HIDE DEF op
<1>10. Log' = [Log EXCEPT ![b] = Append(@, [by |-> b, at |-> p])]
    <2>1. Log' = [c \in DOMAIN ir |-> Entried(ir'[c])]
        BY <1>3, <1>5 DEF Log, Entried, Entry
    <2>2. Entried(ir'[b]) = Append(Entried(ir[b]), [by |-> b, at |-> p])
        <3>1. ir'[b] = Append(ir[b], op)
            BY <1>3, <1>5
        <3> QED
            BY <1>6, <1>7, <3>1, EntriedFacts
    <2>3. \A c \in DOMAIN ir : c # b => ir'[c] = ir[c]
        BY <1>3
    <2>4. \A c \in DOMAIN ir : Entried(ir'[c]) =
              IF c = b THEN Append(Log[b], [by |-> b, at |-> p]) ELSE Log[c]
        BY <1>5, <1>8, <2>2, <2>3
    <2> HIDE DEF b, p
    <2>5. [Log EXCEPT ![b] = Append(@, [by |-> b, at |-> p])] =
              [c \in DOMAIN ir |-> IF c = b THEN Append(Log[b], [by |-> b, at |-> p]) ELSE Log[c]]
        BY <1>5, <1>8
    <2> QED
        BY <2>1, <2>4, <2>5
<1>11. Traces!Record(b, p)
    BY <1>3, <1>5, <1>7, <1>9, <1>10 DEF Traces!Record
<1> QED
    BY <1>5, <1>7, <1>8, <1>11

(* What becomes of a call is the end of its trace, or of its compilation.   *)
LEMMA BecomesEnds ==
    ASSUME IInv, NEW t \in Threads, calls[t] # <<>>,
           NEW what \in {"traced", "ready", "raised"}, Becomes(Call(t).b, what),
           UNCHANGED <<ir, kernel>>,
           \/ Call(t).stage = "trace" /\ what = "raised"
           \/ Call(t).stage = "trace" /\ AtEnd(t) /\ what = "traced"
           \/ Call(t).stage = "emit" /\ what # "traced"
    PROVE  \E c \in DOMAIN Log : \E how \in {"traced", "ready", "raised"} : Traces!End(c, how)
<1> DEFINE b == Call(t).b
<1>1. /\ Call(t) = calls[t][Len(calls[t])] /\ Len(calls[t]) \in DOMAIN calls[t]
      /\ Call(t) \in Running /\ ir' = ir /\ kernel' = kernel
    BY CallFacts DEF IInv
<1>2. /\ b \in DOMAIN ir /\ kernel[b] = Call(t).kernel
      /\ status[b] = IF Call(t).stage = "trace" THEN "tracing" ELSE "traced"
      /\ Call(t).stage = "trace" => At(b) = Past(Call(t))
    BY <1>1 DEF IInv, OwnsBuilder, RecordedSoFar
<1>3. ir \in Seq(Seq(Ops))
    BY DEF IInv, TypeOK, Ops
<1>4. DOMAIN Log = DOMAIN ir /\ Traces!Logged(b) = At(b) /\ Log' = Log
    BY <1>1, <1>2, <1>3, LogFacts, LogStays
<1>5. AtEnd(t) => Past(Call(t)) = Recording[kernel[b]]
    <2>1. Call(t).kernel \in Kernels /\ Call(t).pc \in Nat
        BY <1>1 DEF Running
    <2>2. Body[Call(t).kernel] \in Seq(Statements)
        BY <2>1, BodyAssumption
    <2>3. \A p \in Recording[Call(t).kernel] : p \in 1 .. Len(Body[Call(t).kernel])
        BY <2>1, <2>2, LenProperties DEF Recording
    <2>4. AtEnd(t) => \A p \in Recording[Call(t).kernel] : p < Call(t).pc
        BY <2>1, <2>2, <2>3, LenProperties DEF AtEnd
    <2> QED
        BY <1>2, <2>4 DEF Past
<1>6. Traces!End(b, what)
    <2>1. status' = [status EXCEPT ![b] = what]
        BY DEF Becomes
    <2>2. \/ status[b] = "tracing" /\ what = "raised"
          \/ status[b] = "tracing" /\ what = "traced" /\ Traces!Logged(b) = Recording[kernel[b]]
          \/ status[b] = "traced" /\ what \in {"ready", "raised"}
        BY <1>2, <1>4, <1>5
    <2> QED
        BY <1>1, <1>4, <2>1, <2>2 DEF Traces!End
<1> QED
    BY <1>2, <1>4, <1>6

(* Every step of the threads is a step of isolated traces, or none.         *)
LEMMA NextTraces == IInv /\ IInv' /\ [Next]_vars => [Traces!Next]_(Traces!avars)
<1> SUFFICES ASSUME IInv, IInv', [Next]_vars
             PROVE  Traces!Next \/ UNCHANGED Traces!avars
    OBVIOUS
<1>1. CASE UNCHANGED vars \/ Rest
    <2>1. ir' = ir /\ kernel' = kernel /\ status' = status
        BY <1>1 DEF vars, Rest
    <2> QED
        BY <2>1, LogStays DEF Traces!avars
<1>2. ASSUME NEW t \in Threads, Start(t)
      PROVE  Traces!Next
    <2>1. PICK k \in Kernels, how \in Hows : Enter(t, k, how, <<>>)
        BY <1>2 DEF Start
    <2>2. Traces!Begin(k)
        BY <2>1, EnterBegins
    <2> QED
        BY <2>2 DEF Traces!Next
<1>3. ASSUME NEW t \in Threads, CallKernel(t)
      PROVE  Traces!Next
    <2> DEFINE st == Statement(t)
               arg == IF st.pass THEN Call(t).last ELSE <<>>
    <2>1. Runs(t) /\ st.s = "call" /\ Enter(t, st.kernel, st.how, arg)
        BY <1>3 DEF CallKernel
    <2>2. Call(t) \in Running
        BY <2>1, CallFacts DEF Runs, IInv
    <2>3. Call(t).kernel \in Kernels /\ Call(t).pc \in Nat \ {0}
        BY <2>2 DEF Running
    <2>4. Body[Call(t).kernel] \in Seq(Statements)
        BY <2>3, BodyAssumption
    <2>5. st \in Statements
        BY <2>1, <2>3, <2>4, LenProperties, ElementOfSeq DEF Runs, AtEnd, Statement
    <2>6. st.kernel \in Kernels /\ st.how \in Hows
        BY <2>1, <2>5, StatementFacts
    <2> HIDE DEF arg
    <2>7. Traces!Begin(st.kernel)
        BY <2>1, <2>6, EnterBegins
    <2> QED
        BY <2>6, <2>7 DEF Traces!Next
<1>4. ASSUME NEW t \in Threads, Operation(t)
      PROVE  Traces!Next
    BY <1>4, OperationRecords DEF Traces!Next
<1>5. ASSUME NEW t \in Threads, Raise(t)
      PROVE  UNCHANGED Traces!avars
    <2>1. ir' = ir /\ kernel' = kernel /\ status' = status
        BY <1>5 DEF Raise
    <2> QED
        BY <2>1, LogStays DEF Traces!avars
<1>6. ASSUME NEW t \in Threads, Stray(t)
      PROVE  UNCHANGED Traces!avars
    <2>1. active[t] = <<>>
        BY <1>6, TracingFacts DEF Stray, IInv
    <2>2. ir' = ir /\ kernel' = kernel /\ status' = status
        BY <1>6, <2>1 DEF Stray
    <2> QED
        BY <2>2, LogStays DEF Traces!avars
<1>7. ASSUME NEW t \in Threads, Leave(t)
      PROVE  Traces!Next
    <2>1. /\ calls[t] # <<>> /\ Call(t).stage = "trace" /\ AtEnd(t) /\ UNCHANGED <<ir, kernel>>
          /\ \E what \in {"traced", "raised"} : Becomes(Call(t).b, what)
        BY <1>7 DEF Leave
    <2> QED
        BY <2>1, BecomesEnds DEF Traces!Next
<1>8. ASSUME NEW t \in Threads, Compile(t)
      PROVE  Traces!Next
    <2>1. /\ calls[t] # <<>> /\ Call(t).stage = "emit" /\ UNCHANGED <<ir, kernel>>
          /\ \E what \in {"ready", "raised"} : Becomes(Call(t).b, what)
        BY <1>8 DEF Compile
    <2> QED
        BY <2>1, BecomesEnds DEF Traces!Next
<1>9. ASSUME NEW t \in Threads, Unwind(t)
      PROVE  Traces!Next
    <2>1. /\ calls[t] # <<>> /\ Call(t).stage = "trace" /\ UNCHANGED <<ir, kernel>>
          /\ Becomes(Call(t).b, "raised")
        BY <1>9 DEF Unwind, IInv, TypeOK
    <2> QED
        BY <2>1, BecomesEnds DEF Traces!Next
<1> QED
    BY <1>1, <1>2, <1>3, <1>4, <1>5, <1>6, <1>7, <1>8, <1>9 DEF Next, Step

(* Calls are isolated: whatever kernels there are, however they call one    *)
(* another and whichever threads do it at once, every call traces its own   *)
(* statements, in order, into an IR of its own.                             *)
THEOREM CallsAreIsolated == Spec => Isolation
<1>1. Init => Traces!Init
    <2> SUFFICES ASSUME Init
                 PROVE  Log = <<>> /\ kernel = <<>> /\ status = <<>>
        BY DEF Traces!Init
    <2>1. ir = <<>> /\ kernel = <<>> /\ status = <<>>
        BY DEF Init
    <2>2. Log \in Seq(Seq(Entries)) /\ Len(Log) = 0
        BY <2>1, EmptySeq, LogFacts
    <2> QED
        BY <2>1, <2>2, EmptySeq
<1> QED
    BY InitIInv, NextIInv, NextTraces, <1>1, PTL DEF Spec, Isolation, Traces!Spec

(***************************************************************************)
(* Whatever the kernels and the threads: a compiled kernel is made of its   *)
(* own values, but for one that was handed to it and met an id in use.      *)
(***************************************************************************)

(* What a call has last made is in its own IR.                              *)
OwnValues ==
    \A t \in Threads : \A j \in DOMAIN calls[t] : \A i \in DOMAIN calls[t][j].last :
        calls[t][j].last[i].b = calls[t][j].b

(* A value of another call is used where a kernel uses what it was handed.  *)
OnlyHanded ==
    \A b \in DOMAIN ir : \A j \in DOMAIN ir[b] : \A i \in DOMAIN ir[b][j].uses :
        ir[b][j].uses[i].b # b => Body[kernel[b]][ir[b][j].at].use = "arg"

(* What was emitted is not touched again.                                   *)
ReadyEmits == \A b \in DOMAIN ir : status[b] = "ready" => EmitsAll(b)

UInv == OwnValues /\ OnlyHanded /\ ReadyEmits

(* The running calls with another innermost one.                            *)
LEMMA InnermostSet ==
    ASSUME NEW s \in Seq(Running), s # <<>>, NEW f \in Running
    PROVE  /\ DOMAIN SetLast(s, f) = 1 .. Len(s) /\ SetLast(s, f)[Len(s)] = f
           /\ \A j \in 1 .. Len(s) : j # Len(s) => SetLast(s, f)[j] = s[j]
<1>1. /\ SetLast(s, f) \in Seq(Running) /\ Len(SetLast(s, f)) = Len(s)
      /\ DOMAIN SetLast(s, f) = DOMAIN s
      /\ SetLast(s, f)[Len(s)] = f /\ Last(SetLast(s, f)) = f
      /\ \A i \in 1 .. Len(s) : i # Len(s) => SetLast(s, f)[i] = s[i]
      /\ SetLast(s, f) # <<>>
    BY SetLastFacts
<1> QED
    BY <1>1, LenProperties

(* A step that makes no value.                                              *)
LEMMA ValuesKept ==
    ASSUME OwnValues,
           \A t \in Threads : \A j \in DOMAIN calls'[t] :
               /\ j \in DOMAIN calls[t]
               /\ calls'[t][j].b = calls[t][j].b /\ calls'[t][j].last = calls[t][j].last
    PROVE  OwnValues'
    BY DEF OwnValues

(* A step that appends nothing, and emits all of what it makes ready.       *)
LEMMA EmittedKept ==
    ASSUME OnlyHanded, ReadyEmits, UNCHANGED <<ir, kernel>>,
           \A b \in DOMAIN ir : status'[b] = "ready" => status[b] = "ready" \/ EmitsAll(b)
    PROVE  OnlyHanded' /\ ReadyEmits'
<1>1. ir' = ir /\ kernel' = kernel
    OBVIOUS
<1>2. \A b \in DOMAIN ir : EmitsAll(b)' <=> EmitsAll(b)
    BY <1>1 DEF EmitsAll, Found
<1> QED
    BY <1>1, <1>2 DEF OnlyHanded, ReadyEmits

(* The end of a call makes no value.                                        *)
LEMMA EndsMakesNone ==
    ASSUME IInv, UInv, NEW t \in Threads, calls[t] # <<>>,
           NEW raised \in BOOLEAN, Ends(t, raised)
    PROVE  OwnValues'
<1> DEFINE callers == Front(calls[t])
           n == Len(calls[t])
<1>1. /\ n \in Nat \ {0} /\ DOMAIN calls[t] = 1 .. n /\ callers \in Seq(Running)
      /\ Len(callers) = n - 1 /\ DOMAIN callers = 1 .. n - 1
      /\ \A j \in 1 .. n - 1 : callers[j] = calls[t][j]
    BY CallFacts DEF IInv
<1>2. /\ \A u \in Threads : u # t => calls'[u] = calls[u]
      /\ DOMAIN calls'[t] = 1 .. n - 1
      /\ \A j \in DOMAIN calls'[t] : calls'[t][j].b = calls[t][j].b
    BY EndsFacts DEF IInv
<1>3. calls'[t] = Resume(callers) \/ calls'[t] = callers
    BY DEF Ends, IInv, TypeOK
<1>4. \A j \in 1 .. n - 1 : Resume(callers)[j].last = callers[j].last
    <2>1. CASE callers = <<>>
        BY <2>1 DEF Resume
    <2>2. CASE callers # <<>>
        <3> DEFINE f == [Last(callers) EXCEPT !.pc = @ + 1]
        <3>1. Last(callers) = callers[n - 1] /\ Last(callers) \in Running
            BY <1>1, <2>2, FrontFacts
        <3>2. f \in Running /\ f.last = Last(callers).last
            BY <3>1 DEF Running
        <3> HIDE DEF f
        <3>3. /\ SetLast(callers, f)[n - 1] = f
              /\ \A j \in 1 .. n - 1 : j # n - 1 => SetLast(callers, f)[j] = callers[j]
            <4>1. callers \in Seq(Running) /\ callers # <<>> /\ f \in Running /\ Len(callers) = n - 1
                BY <1>1, <2>2, <3>2
            <4> HIDE DEF callers
            <4> QED
                BY ONLY <4>1, InnermostSet
        <3>4. Resume(callers) = SetLast(callers, f)
            BY <2>2 DEF Resume, f
        <3> QED
            BY <3>1, <3>2, <3>3, <3>4
    <2> QED
        BY <2>1, <2>2
<1> HIDE DEF callers
<1>5. \A j \in 1 .. n - 1 : calls'[t][j].last = calls[t][j].last
    <2>1. \A j \in 1 .. n - 1 : callers[j].last = calls[t][j].last
        BY <1>1
    <2>2. \A j \in 1 .. n - 1 : calls'[t][j].last = callers[j].last
        BY <1>3, <1>4
    <2> QED
        BY <2>1, <2>2
<1>6. \A u \in Threads : \A j \in DOMAIN calls'[u] :
          /\ j \in DOMAIN calls[u]
          /\ calls'[u][j].b = calls[u][j].b /\ calls'[u][j].last = calls[u][j].last
    <2> TAKE u \in Threads
    <2>1. CASE u = t
        <3> SUFFICES ASSUME NEW j \in DOMAIN calls'[t]
                     PROVE  /\ j \in DOMAIN calls[t]
                            /\ calls'[t][j].b = calls[t][j].b
                            /\ calls'[t][j].last = calls[t][j].last
            BY <2>1
        <3>1. j \in 1 .. n - 1 /\ j \in 1 .. n
            BY <1>1, <1>2
        <3> QED
            BY <1>1, <1>2, <1>5, <3>1
    <2>2. CASE u # t
        BY <1>2, <2>2
    <2> QED
        BY <2>1, <2>2
<1> QED
    BY <1>6, ValuesKept DEF UInv

(* A call begins without a value and with an empty IR.                      *)
LEMMA EnterUses ==
    ASSUME IInv, UInv, NEW t \in Threads, NEW k \in Kernels, NEW how, NEW arg,
           Enter(t, k, how, arg)
    PROVE  UInv'
<1> DEFINE b == Len(ir) + 1
           f == [kernel |-> k, b |-> b, how |-> how, stage |-> "trace",
                 pc |-> 1, arg |-> arg, last |-> <<>>]
           n == Len(calls[t])
<1>1. /\ ir' = Append(ir, <<>>) /\ kernel' = Append(kernel, k)
      /\ status' = Append(status, "tracing") /\ calls' = [calls EXCEPT ![t] = Append(@, f)]
    BY DEF Enter
<1>2. /\ ir \in Seq(Seq(Ops)) /\ <<>> \in Seq(Ops)
      /\ kernel \in Seq(Kernels) /\ Len(kernel) = Len(ir)
      /\ status \in Seq(Statuses) /\ Len(status) = Len(ir)
    BY EmptySeq DEF IInv, TypeOK, Ops
<1>3. /\ DOMAIN ir = 1 .. Len(ir) /\ Len(ir) \in Nat /\ DOMAIN ir' = 1 .. b
      /\ ir'[b] = <<>> /\ \A c \in 1 .. Len(ir) : ir'[c] = ir[c]
    BY <1>1, <1>2, AppendFacts
<1>4. \A c \in 1 .. Len(ir) : kernel'[c] = kernel[c]
    BY <1>1, <1>2, AppendFacts
<1>5. status'[b] = "tracing" /\ \A c \in 1 .. Len(ir) : status'[c] = status[c]
    <2>1. "tracing" \in Statuses
        BY DEF Statuses
    <2> QED
        BY <1>1, <1>2, <2>1, AppendFacts
<1>6. OwnValues'
    <2>1. n \in Nat /\ DOMAIN calls[t] = 1 .. n /\ calls \in [Threads -> Seq(Running)]
        BY LenProperties DEF IInv, TypeOK
    <2>2. /\ calls'[t] = Append(calls[t], f)
          /\ \A u \in Threads : u # t => calls'[u] = calls[u]
        BY <1>1, <2>1
    <2>3. /\ DOMAIN calls'[t] = 1 .. n + 1 /\ calls'[t][n + 1] = f
          /\ \A j \in 1 .. n : calls'[t][j] = calls[t][j]
        BY <2>1, <2>2, SMT
    <2>4. f.last = <<>> /\ DOMAIN <<>> = {}
        OBVIOUS
    <2> HIDE DEF f
    <2> SUFFICES ASSUME NEW u \in Threads, NEW j \in DOMAIN calls'[u],
                        NEW i \in DOMAIN calls'[u][j].last
                 PROVE  calls'[u][j].last[i].b = calls'[u][j].b
        BY DEF OwnValues
    <2>5. CASE u = t /\ j = n + 1
        BY <2>3, <2>4, <2>5
    <2>6. CASE u = t /\ j # n + 1
        <3>1. j \in DOMAIN calls[u] /\ calls'[u][j] = calls[u][j]
            BY <2>1, <2>3, <2>6
        <3> QED
            BY <3>1 DEF UInv, OwnValues
    <2>7. CASE u # t
        BY <2>2, <2>7 DEF UInv, OwnValues
    <2> QED
        BY <2>5, <2>6, <2>7
<1>7. OnlyHanded'
    <2> SUFFICES ASSUME NEW c \in DOMAIN ir', NEW j \in DOMAIN ir'[c],
                        NEW i \in DOMAIN ir'[c][j].uses, ir'[c][j].uses[i].b # c
                 PROVE  Body[kernel'[c]][ir'[c][j].at].use = "arg"
        BY DEF OnlyHanded
    <2>1. c # b
        BY <1>3
    <2>2. c \in DOMAIN ir /\ ir'[c] = ir[c] /\ kernel'[c] = kernel[c]
        BY <1>3, <1>4, <2>1
    <2> QED
        BY <2>2 DEF UInv, OnlyHanded
<1>8. ReadyEmits'
    <2> SUFFICES ASSUME NEW c \in DOMAIN ir', status'[c] = "ready"
                 PROVE  EmitsAll(c)'
        BY DEF ReadyEmits
    <2>1. c # b
        BY <1>5
    <2>2. c \in DOMAIN ir /\ ir'[c] = ir[c] /\ status[c] = "ready"
        BY <1>3, <1>5, <2>1
    <2>3. EmitsAll(c)
        BY <2>2 DEF UInv, ReadyEmits
    <2> QED
        BY <2>2, <2>3 DEF EmitsAll, Found
<1> QED
    BY <1>6, <1>7, <1>8 DEF UInv

(* An operation uses a value of its own call, or what the call was handed.  *)
LEMMA OperationUses ==
    ASSUME IInv, UInv, NEW t \in Threads, Operation(t)
    PROVE  UInv'
<1> DEFINE b == Call(t).b
           op == [by |-> b, at |-> Call(t).pc, uses |-> Use(t)]
           v == <<[b |-> b, id |-> Len(ir[b]) + 1]>>
           f == [Call(t) EXCEPT !.pc = @ + 1, !.last = v]
           n == Len(calls[t])
<1>1. /\ calls[t] # <<>> /\ Call(t).stage = "trace" /\ Appends(Statement(t))
      /\ TypeOK /\ StacksNest /\ Runs(t)
    BY DEF Operation, Runs, IInv
<1>2. Target(t) = b
    BY <1>1, OwnBuilderOnTop DEF Target
<1>3. /\ ir' = [ir EXCEPT ![b] = Append(@, op)]
      /\ calls' = [calls EXCEPT ![t] = SetLast(@, f)]
      /\ kernel' = kernel /\ status' = status
    BY <1>2 DEF Operation
<1>4. /\ Call(t) = calls[t][n] /\ n \in DOMAIN calls[t] /\ Call(t) \in Running
      /\ calls[t] \in Seq(Running) /\ calls \in [Threads -> Seq(Running)]
      /\ n \in Nat \ {0} /\ DOMAIN calls[t] = 1 .. n
    BY <1>1, CallFacts DEF TypeOK
<1>5. b \in DOMAIN ir /\ status[b] = "tracing" /\ kernel[b] = Call(t).kernel
    BY <1>1, <1>4 DEF IInv, OwnsBuilder
<1>6. ir \in Seq(Seq(Ops)) /\ ir[b] \in Seq(Ops) /\ Len(ir[b]) \in Nat
    <2>1. ir \in Seq(Seq(Ops))
        BY <1>1 DEF TypeOK, Ops
    <2>2. ir[b] \in Seq(Ops)
        BY <1>5, <2>1, LenProperties, ElementOfSeq
    <2> QED
        BY <2>1, <2>2, LenProperties
<1>7. op \in Ops
    BY <1>1, <1>4, UseFacts DEF Running, Ops
<1>8. /\ DOMAIN ir' = DOMAIN ir /\ ir'[b] = Append(ir[b], op)
      /\ \A c \in DOMAIN ir : c # b => ir'[c] = ir[c]
    BY <1>3, <1>5
<1>9. OwnValues'
    <2>1. v \in Operands /\ DOMAIN v = {1} /\ v[1].b = b
        <3>1. [b |-> b, id |-> Len(ir[b]) + 1] \in Values
            BY <1>4, <1>6 DEF Values, Running
        <3> QED
            BY <3>1 DEF Operands
    <2>2. f \in Running /\ f.b = b /\ f.last = v
        <3> HIDE DEF v
        <3> QED
            BY <1>4, <2>1, RecordedCall DEF Running
    <2> HIDE DEF f, v, b
    <2>3. /\ calls'[t] = SetLast(calls[t], f)
          /\ \A u \in Threads : u # t => calls'[u] = calls[u]
        BY <1>3, <1>4
    <2>4. /\ DOMAIN calls'[t] = 1 .. n /\ calls'[t][n] = f
          /\ \A j \in 1 .. n : j # n => calls'[t][j] = calls[t][j]
        <3>1. calls[t] \in Seq(Running) /\ calls[t] # <<>> /\ f \in Running
            BY <1>1, <1>4, <2>2
        <3>2. /\ DOMAIN SetLast(calls[t], f) = 1 .. n /\ SetLast(calls[t], f)[n] = f
              /\ \A j \in 1 .. n : j # n => SetLast(calls[t], f)[j] = calls[t][j]
            BY ONLY <3>1, InnermostSet
        <3> QED
            BY <2>3, <3>2
    <2> SUFFICES ASSUME NEW u \in Threads, NEW j \in DOMAIN calls'[u],
                        NEW i \in DOMAIN calls'[u][j].last
                 PROVE  calls'[u][j].last[i].b = calls'[u][j].b
        BY DEF OwnValues
    <2>5. CASE u = t /\ j = n
        BY <2>1, <2>2, <2>4, <2>5
    <2>6. CASE u = t /\ j # n
        <3>1. j \in DOMAIN calls[u] /\ calls'[u][j] = calls[u][j]
            BY <1>4, <2>4, <2>6
        <3> QED
            BY <3>1 DEF UInv, OwnValues
    <2>7. CASE u # t
        BY <2>3, <2>7 DEF UInv, OwnValues
    <2> QED
        BY <2>5, <2>6, <2>7
<1>10. \A i \in DOMAIN Use(t) : Use(t)[i].b # b => Body[kernel[b]][Call(t).pc].use = "arg"
    <2> SUFFICES ASSUME NEW i \in DOMAIN Use(t), Use(t)[i].b # b
                 PROVE  Statement(t).use = "arg"
        BY <1>5 DEF Statement
    <2>1. \A m \in DOMAIN Call(t).last : Call(t).last[m].b = b
        BY <1>4 DEF UInv, OwnValues
    <2>2. Statement(t).use \in {"none", "last", "arg"}
        <3>1. Call(t).kernel \in Kernels /\ Call(t).pc \in DOMAIN Body[Call(t).kernel]
            BY <1>1, <1>4, UseFacts DEF Running
        <3>2. Statement(t) \in Statements
            BY <3>1, BodyAssumption, LenProperties, ElementOfSeq DEF Statement
        <3> QED
            BY <1>1, <3>2, StatementFacts
    <2>3. Statement(t).use # "none"
        <3>1. DOMAIN <<>> = {}
            OBVIOUS
        <3> QED
            BY <3>1 DEF Use
    <2>4. Statement(t).use # "last"
        BY <2>1 DEF Use
    <2> QED
        BY <2>2, <2>3, <2>4
<1> HIDE DEF op
<1>11. /\ DOMAIN ir[b] = 1 .. Len(ir[b]) /\ DOMAIN ir'[b] = 1 .. Len(ir[b]) + 1
       /\ ir'[b][Len(ir[b]) + 1] = op
       /\ \A j \in 1 .. Len(ir[b]) : ir'[b][j] = ir[b][j]
    BY <1>6, <1>7, <1>8, AppendFacts
<1>12. op.uses = Use(t) /\ op.at = Call(t).pc
    BY DEF op
<1> HIDE DEF b
<1>13. OnlyHanded'
    <2> SUFFICES ASSUME NEW c \in DOMAIN ir', NEW j \in DOMAIN ir'[c],
                        NEW i \in DOMAIN ir'[c][j].uses, ir'[c][j].uses[i].b # c
                 PROVE  Body[kernel'[c]][ir'[c][j].at].use = "arg"
        BY DEF OnlyHanded
    <2>1. CASE c = b /\ j = Len(ir[b]) + 1
        BY <1>3, <1>10, <1>11, <1>12, <2>1
    <2>2. CASE ~(c = b /\ j = Len(ir[b]) + 1)
        <3>1. c \in DOMAIN ir /\ j \in DOMAIN ir[c] /\ ir'[c][j] = ir[c][j]
            BY <1>6, <1>8, <1>11, <2>2
        <3> QED
            BY <1>3, <3>1 DEF UInv, OnlyHanded
    <2> QED
        BY <2>1, <2>2
<1>14. ReadyEmits'
    <2> SUFFICES ASSUME NEW c \in DOMAIN ir', status'[c] = "ready"
                 PROVE  EmitsAll(c)'
        BY DEF ReadyEmits
    <2>1. c # b /\ c \in DOMAIN ir /\ ir'[c] = ir[c] /\ EmitsAll(c)
        BY <1>3, <1>5, <1>8 DEF UInv, ReadyEmits
    <2> QED
        BY <2>1 DEF EmitsAll, Found
<1> QED
    BY <1>9, <1>13, <1>14 DEF UInv

(* What becomes of a call when it ends.                                     *)
LEMMA BecomesUses ==
    ASSUME IInv, UInv, NEW t \in Threads, calls[t] # <<>>, UNCHANGED <<ir, kernel>>,
           NEW what \in {"traced", "ready", "raised"}, Becomes(Call(t).b, what),
           what = "ready" => EmitsAll(Call(t).b)
    PROVE  OnlyHanded' /\ ReadyEmits'
<1>1. Call(t) = calls[t][Len(calls[t])] /\ Len(calls[t]) \in DOMAIN calls[t]
    BY CallFacts DEF IInv
<1>2. Call(t).b \in DOMAIN ir
    BY <1>1 DEF IInv, OwnsBuilder
<1>3. what \in Statuses
    BY DEF Statuses
<1>4. status'[Call(t).b] = what /\ \A c \in DOMAIN ir : c # Call(t).b => status'[c] = status[c]
    BY <1>2, <1>3, BecomesFacts DEF IInv
<1> QED
    BY <1>4, EmittedKept DEF UInv

LEMMA InitUInv == Init => UInv
<1> SUFFICES ASSUME Init
             PROVE  UInv
    OBVIOUS
<1>1. calls = [t \in Threads |-> <<>>] /\ ir = <<>> /\ DOMAIN <<>> = {}
    BY DEF Init
<1> QED
    BY <1>1 DEF UInv, OwnValues, OnlyHanded, ReadyEmits

LEMMA NextUInv == IInv /\ UInv /\ [Next]_vars => UInv'
<1> SUFFICES ASSUME IInv, UInv, [Next]_vars
             PROVE  UInv'
    OBVIOUS
<1>1. ASSUME UNCHANGED <<calls, kernel, status>>, UNCHANGED ir
      PROVE  UInv'
    <2>1. calls' = calls /\ kernel' = kernel /\ status' = status /\ ir' = ir
        BY <1>1
    <2>2. OwnValues'
        BY <2>1 DEF UInv, OwnValues
    <2> QED
        BY <2>1, <2>2, EmittedKept DEF UInv
<1>2. CASE UNCHANGED vars \/ Rest
    BY <1>1, <1>2 DEF vars, Rest
<1>3. ASSUME NEW t \in Threads, Start(t)
      PROVE  UInv'
    BY <1>3, EnterUses DEF Start
<1>4. ASSUME NEW t \in Threads, CallKernel(t)
      PROVE  UInv'
    <2>1. /\ Runs(t) /\ Statement(t).s = "call"
          /\ Enter(t, Statement(t).kernel, Statement(t).how,
                   IF Statement(t).pass THEN Call(t).last ELSE <<>>)
        BY <1>4 DEF CallKernel
    <2>2. Call(t).kernel \in Kernels /\ Call(t).pc \in Nat \ {0}
        BY <2>1, CallFacts DEF Runs, IInv, Running
    <2>3. Body[Call(t).kernel] \in Seq(Statements)
        BY <2>2, BodyAssumption
    <2>4. Statement(t) \in Statements
        BY <2>1, <2>2, <2>3, LenProperties, ElementOfSeq DEF Runs, AtEnd, Statement
    <2>5. Statement(t).kernel \in Kernels
        BY <2>1, <2>4, StatementFacts
    <2> QED
        BY <2>1, <2>5, EnterUses
<1>5. ASSUME NEW t \in Threads, Operation(t)
      PROVE  UInv'
    BY <1>5, OperationUses
<1>6. ASSUME NEW t \in Threads, Raise(t)
      PROVE  UInv'
    BY <1>1, <1>6 DEF Raise
<1>7. ASSUME NEW t \in Threads, Stray(t)
      PROVE  UInv'
    <2>1. active[t] = <<>>
        BY <1>7, TracingFacts DEF Stray, IInv
    <2> QED
        BY <1>1, <1>7, <2>1 DEF Stray
<1>8. ASSUME NEW t \in Threads, Leave(t)
      PROVE  UInv'
    <2>1. /\ calls[t] # <<>> /\ UNCHANGED <<ir, kernel>>
          /\ \E what \in {"traced", "raised"} : Becomes(Call(t).b, what)
        BY <1>8 DEF Leave
    <2>2. OnlyHanded' /\ ReadyEmits'
        BY <2>1, BecomesUses
    <2>3. CASE Ends(t, TRUE) \/ Ends(t, FALSE)
        BY <2>1, <2>2, <2>3, EndsMakesNone DEF UInv
    <2>4. CASE calls' = [calls EXCEPT ![t] = SetLast(@, [Call(t) EXCEPT !.stage = "emit"])]
        <3> DEFINE f == [Call(t) EXCEPT !.stage = "emit"]
                   n == Len(calls[t])
        <3>1. /\ Call(t) = calls[t][n] /\ n \in DOMAIN calls[t] /\ Call(t) \in Running
              /\ calls[t] \in Seq(Running) /\ calls \in [Threads -> Seq(Running)]
              /\ n \in Nat \ {0} /\ DOMAIN calls[t] = 1 .. n
            BY <2>1, CallFacts DEF IInv, TypeOK
        <3>2. f \in Running /\ f.b = Call(t).b /\ f.last = Call(t).last
            BY <3>1 DEF Running
        <3>3. /\ calls'[t] = SetLast(calls[t], f)
              /\ \A u \in Threads : u # t => calls'[u] = calls[u]
            BY <2>4, <3>1
        <3> HIDE DEF f
        <3>4. /\ DOMAIN calls'[t] = 1 .. n /\ calls'[t][n] = f
              /\ \A j \in 1 .. n : j # n => calls'[t][j] = calls[t][j]
            <4>1. calls[t] \in Seq(Running) /\ calls[t] # <<>> /\ f \in Running
                BY <2>1, <3>1, <3>2
            <4>2. /\ DOMAIN SetLast(calls[t], f) = 1 .. n /\ SetLast(calls[t], f)[n] = f
                  /\ \A j \in 1 .. n : j # n => SetLast(calls[t], f)[j] = calls[t][j]
                BY ONLY <4>1, InnermostSet
            <4> QED
                BY <3>3, <4>2
        <3>5. OwnValues'
            BY <3>1, <3>2, <3>3, <3>4, ValuesKept DEF UInv
        <3> QED
            BY <2>2, <3>5 DEF UInv
    <2> QED
        BY <1>8, <2>3, <2>4 DEF Leave
<1>9. ASSUME NEW t \in Threads, Compile(t)
      PROVE  UInv'
    <2> DEFINE raised == ~EmitsAll(Call(t).b) \/ Call(t).how = "call"
               what == IF EmitsAll(Call(t).b) THEN "ready" ELSE "raised"
    <2>1. /\ calls[t] # <<>> /\ UNCHANGED <<ir, kernel>> /\ Becomes(Call(t).b, what)
          /\ Ends(t, raised)
        BY <1>9 DEF Compile
    <2>2. /\ raised \in BOOLEAN /\ what \in {"ready", "raised"}
          /\ what = "ready" => EmitsAll(Call(t).b)
        BY Zenon
    <2> HIDE DEF raised, what
    <2>3. OnlyHanded' /\ ReadyEmits'
        BY <2>1, <2>2, BecomesUses
    <2> QED
        BY <2>1, <2>2, <2>3, EndsMakesNone DEF UInv
<1>10. ASSUME NEW t \in Threads, Unwind(t)
       PROVE  UInv'
    <2>1. /\ calls[t] # <<>> /\ UNCHANGED <<ir, kernel>> /\ Becomes(Call(t).b, "raised")
          /\ Ends(t, TRUE)
        BY <1>10 DEF Unwind
    <2>2. OnlyHanded' /\ ReadyEmits'
        BY <2>1, BecomesUses
    <2> QED
        BY <2>1, <2>2, EndsMakesNone DEF UInv
<1> QED
    BY <1>2, <1>3, <1>4, <1>5, <1>6, <1>7, <1>8, <1>9, <1>10 DEF Next, Step

(* However calls nest and interleave, a kernel is compiled from its own     *)
(* values; one it was handed gets in only where an id is in use already.    *)
THEOREM CompiledFromOwnValues == Spec => []SelfContained
<1>1. IInv /\ UInv => SelfContained
    BY DEF UInv, OnlyHanded, ReadyEmits, EmitsAll, Found, SelfContained
<1>2. IInv /\ UInv /\ [Next]_vars => IInv' /\ UInv'
    BY NextIInv, NextUInv
<1> QED
    BY InitIInv, InitUInv, <1>1, <1>2, PTL DEF Spec
=============================================================================
