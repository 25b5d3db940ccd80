------------------------------ MODULE MCTracer ------------------------------
(* All the statements, on sources of a few of them. *)
EXTENDS TracerProperties

St(s, dst, arg) == [s |-> s, c |-> "", dst |-> dst, arg |-> arg, n |-> 0]
Cond(s, c, a, b) == [s |-> s, c |-> c, dst |-> <<>>, arg |-> <<a, b>>, n |-> 0]

MCNames == {"x", "y", "n", "i"}
MCParams == <<[x |-> "x", n |-> 1], [x |-> "n", n |-> 2]>>
MCMenu == {
    St("num", <<"y">>, <<>>), St("name", <<"y">>, <<"x">>), St("add", <<"x">>, <<"x", "i">>),
    St("load", <<"y">>, <<"x">>), St("ifexp", <<"y">>, <<"x", "n">>),
    St("aug", <<"x">>, <<"n">>), St("tuple", <<"x", "y">>, <<"y", "x">>),
    St("store", <<>>, <<"x", "y">>), St("augstore", <<>>, <<"x", "n">>),
    St("return", <<>>, <<"x">>), St("return", <<>>, <<>>),
    St("break", <<>>, <<>>), St("continue", <<>>, <<>>),
    St("serial", <<"i">>, <<"n">>), St("pipelined", <<"y">>, <<"x", "n">>),
    St("serial", <<"i">>, <<"x", "n", "n">>), St("parallel", <<"i", "y">>, <<"n", "x">>),
    Cond("if", "lt", "x", "n"), Cond("if", "and", "x", "n"),
    Cond("while", "mem", "x", "n"), St("kernel", <<"i">>, <<"n">>)}
=============================================================================
