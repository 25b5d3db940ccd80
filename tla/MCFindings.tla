----------------------------- MODULE MCFindings -----------------------------
(* What the design note and the comments say of a trace, on the smallest    *)
(* statements that tell.                                                    *)
EXTENDS TraceMeaning, TracerProperties

St(s, dst, arg) == [s |-> s, c |-> "", dst |-> dst, arg |-> arg, n |-> 0]
Cond(s, c, a, b) == [s |-> s, c |-> c, dst |-> <<>>, arg |-> <<a, b>>, n |-> 0]

MCNames == {"x", "y", "n", "i"}
MCParams == <<[x |-> "x", n |-> 1], [x |-> "n", n |-> 2], [x |-> "y", n |-> 3]>>

Loop == St("serial", <<"i">>, <<"n">>)
Write == St("store", <<>>, <<"n", "x">>)
AugMenu == {Loop, Write, St("load", <<"y">>, <<"i">>), St("aug", <<"x">>, <<"y">>)}
SwapMenu == {Loop, Write, St("tuple", <<"x", "y">>, <<"y", "x">>)}
LazyMenu == {Write, Cond("if", "and", "y", "n")}
ControlMenu == {Loop, Write, Cond("if", "lt", "i", "n"), St("break", <<>>, <<>>),
                St("continue", <<>>, <<>>), St("return", <<>>, <<>>)}
BranchMenu == {Write, Cond("if", "mem", "x", "n"), St("load", <<"x">>, <<"n">>)}

\* tests/test_nested_loop.py:16, the kernel reduce_sum does acc += A[j, i] in
\* a loop to sum a column, and docs/design.md:44, "Python variables are frontend
\* bindings": a kernel with += does the writes its source does.
AugAccumulates == StoresAgree

\* ast.py:251, "to support swap like semantics": a kernel that assigns tuples
\* does the writes its source does.
TuplesSwap == StoresAgree

\* ast.py:430, "so that short circuiting works correctly": the right operand
\* of an and is evaluated, and reads the buffer, only when the left is true.
AndShortCircuits == AccessesAgree

\* docs/design.md:35, AST rewriting for `break`, `continue`, `return`: a kernel
\* that leaves a loop, or returns in a branch, does the writes its source does.
LeavesEarly == StoresAgree

\* ir.py:3, "values are SSA values, operations own results and nested
\* regions": an operand is defined above or before its use.
ValuesAreSSA == Dominance
=============================================================================
