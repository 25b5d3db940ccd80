---------------------------- MODULE MCDiscipline ----------------------------
(* Kernels that keep the rules of Discipline mean what they say. *)
EXTENDS Discipline, TraceMeaning

St(s, dst, arg) == [s |-> s, c |-> "", dst |-> dst, arg |-> arg, n |-> 0]
Cond(s, c, a, b) == [s |-> s, c |-> c, dst |-> <<>>, arg |-> <<a, b>>, n |-> 0]

MCNames == {"x", "y", "n", "i"}
MCParams == <<[x |-> "x", n |-> 1], [x |-> "n", n |-> 2]>>

(* Values carried through loops, under other names and through memory.      *)
LoopMenu == {
    St("name", <<"y">>, <<"x">>), St("tuple", <<"x", "y">>, <<"y", "x">>),
    St("add", <<"x">>, <<"x", "i">>), St("add", <<"y">>, <<"x", "n">>),
    St("load", <<"x">>, <<"i">>), St("store", <<>>, <<"n", "x">>),
    St("serial", <<"i">>, <<"n">>), St("pipelined", <<"y">>, <<"x", "n">>),
    St("parallel", <<"i", "y">>, <<"n", "x">>)}

(* Branches, while, kernel launches, early ends and lazy operands.          *)
ControlMenu == {
    St("num", <<"y">>, <<>>), St("add", <<"x">>, <<"x", "n">>), St("aug", <<"x">>, <<"n">>),
    St("augstore", <<>>, <<"x", "n">>), St("ifexp", <<"y">>, <<"x", "n">>),
    St("return", <<>>, <<>>), St("continue", <<>>, <<>>),
    St("serial", <<"i">>, <<"n">>), St("kernel", <<"i">>, <<"n">>),
    Cond("if", "lt", "x", "n"), Cond("if", "and", "x", "n"), Cond("while", "mem", "x", "n")}

(* Reads are part of what a source means unless it has an operator whose    *)
(* lazy operand the tracer evaluates eagerly.                               *)
Lazy == \E b \in DOMAIN src : \E k \in DOMAIN src[b] :
          src[b][k].st.c = "and" \/ src[b][k].st.s = "ifexp"
Seen(log) == IF Lazy THEN Stores(log) ELSE log

(* A complete trace that kept the rules has the accesses of its source, and *)
(* every name that can still be read stands for the number it would have.   *)
Meaning ==
    Complete =>
      LET py == PythonRun
          mlir == IRRun
      IN  py.sig # "stuck" =>
            /\ Seen(mlir.log) = Seen(py.log)
            /\ \A x \in Live : py.env[x] = IF IsNum(Rval(x)) THEN Rval(x).n
                                           ELSE mlir.env[Rval(x).n]
=============================================================================
