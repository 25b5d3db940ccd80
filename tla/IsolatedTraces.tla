--------------------------- MODULE IsolatedTraces ---------------------------
(***************************************************************************)
(* What a kernel author may rely on: every call of a kernel traces its own  *)
(* statements, all of them, in their order, into an IR of its own, whatever *)
(* other calls there are. Nothing is said of threads, builders or stacks.   *)
(*                                                                          *)
(*   log     call -> what its IR records: the statements at, of the call by *)
(*   kernel  call -> the kernel it traces                                   *)
(*   status  call -> "tracing", "traced", and "ready" when it was compiled, *)
(*           or "raised"                                                    *)
(***************************************************************************)
EXTENDS Integers, Sequences

CONSTANTS
    Kernels,
    Recording   \* kernel -> the positions of its statements that leave an operation

VARIABLES log, kernel, status

avars == <<log, kernel, status>>

Logged(c) == {log[c][j].at : j \in DOMAIN log[c]}

Init == log = <<>> /\ kernel = <<>> /\ status = <<>>

Begin(k) == /\ log' = Append(log, <<>>)
            /\ kernel' = Append(kernel, k)
            /\ status' = Append(status, "tracing")

(* The next statement that leaves an operation, and no other.               *)
Record(c, p) ==
    /\ status[c] = "tracing"
    /\ p \in Recording[kernel[c]]
    /\ Logged(c) = {q \in Recording[kernel[c]] : q < p}
    /\ log' = [log EXCEPT ![c] = Append(@, [by |-> c, at |-> p])]
    /\ UNCHANGED <<kernel, status>>

(* A trace ends when every statement was recorded, or it raises.            *)
End(c, how) ==
    /\ \/ status[c] = "tracing" /\ how = "traced"
          /\ Logged(c) = Recording[kernel[c]]
       \/ status[c] = "tracing" /\ how = "raised"
       \/ status[c] = "traced" /\ how \in {"ready", "raised"}
    /\ status' = [status EXCEPT ![c] = how]
    /\ UNCHANGED <<log, kernel>>

Next == \/ \E k \in Kernels : Begin(k)
        \/ \E c \in DOMAIN log : \/ \E p \in Recording[kernel[c]] : Record(c, p)
                                 \/ \E how \in {"traced", "ready", "raised"} : End(c, how)

Spec == Init /\ [][Next]_avars
=============================================================================
