----------------------------- MODULE MCJitCalls -----------------------------
(* Two threads and three kernels that call one another.                     *)
EXTENDS JitCalls

CONSTANTS t1, t2

Op(s, use) == [s |-> s, use |-> use]
Nested(k, how, pass, try) == [s |-> "call", kernel |-> k, how |-> how, pass |-> pass, try |-> try]

MCThreads == {t1, t2}

(* A kernel of two operations, one that raises half way, one that uses what *)
(* it is handed after a value of its own, and two that call the others: one *)
(* catches what they raise, and each hands over its last value, whose id    *)
(* the kernel that is handed it has used already, or not.                   *)
MCKernels == {"plain", "faulty", "handed", "outer", "caller"}
MCBody == [k \in MCKernels |->
    CASE k = "plain" -> <<Op("operator", "none")>>
      [] k = "faulty" -> <<Op("operator", "none"), [s |-> "raise"], Op("method", "last")>>
      [] k = "handed" -> <<Op("method", "none"), Op("operator", "arg")>>
      [] k = "outer" -> <<Op("operator", "none"), Nested("faulty", "get_ir", FALSE, TRUE),
                          Op("operator", "last"), Nested("handed", "compile", TRUE, FALSE)>>
      [] k = "caller" -> <<Op("method", "none"), Nested("handed", "compile", TRUE, FALSE),
                           Nested("plain", "call", FALSE, FALSE), Op("operator", "last")>>]
=============================================================================
