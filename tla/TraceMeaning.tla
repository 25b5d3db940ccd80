---------------------------- MODULE TraceMeaning ----------------------------
(***************************************************************************)
(* Whether a finished trace means what its source means.                    *)
(***************************************************************************)
EXTENDS Tracer, TraceSemantics

Complete == frames = <<>> /\ ir.err = "none"

PythonRun == RunSource(src, [x \in Names |-> IF InitialScope.at[x] = Unbound THEN Undef
                                             ELSE InitialScope.at[x].n])
IRRun == RunIR(ir)

Stores(log) == SelectSeq(log, LAMBDA e : e.a = "store")

(* The finished kernel does the writes of the Python source, in its order.  *)
StoresAgree ==
    Complete => LET py == PythonRun
                IN  py.sig # "stuck" => Stores(IRRun.log) = Stores(py.log)

(* It reads the buffer where the source does, and nowhere else.             *)
AccessesAgree ==
    Complete => LET py == PythonRun IN py.sig # "stuck" => IRRun.log = py.log
=============================================================================
