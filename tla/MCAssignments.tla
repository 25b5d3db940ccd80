--------------------------- MODULE MCAssignments ---------------------------
(* Kernels of a few assignments to two names and a buffer.                  *)
EXTENDS Assignments

(* A tuple of targets or of expressions, by their leaves.                   *)
Under(j, leaves) == [i \in DOMAIN leaves |-> [leaves[i] EXCEPT !.at = <<j>> \o @]]
Tuple(elts) == FlattenSeq([j \in DOMAIN elts |-> Under(j, elts[j])])
Target(leaves) == [leaves |-> leaves, lists |-> FALSE]
List(leaves) == [leaves |-> leaves, lists |-> TRUE]

Name(x) == <<[at |-> <<>>, k |-> "name", x |-> x]>>
Sub(x) == <<[at |-> <<>>, k |-> "sub", x |-> x]>>
Read(x) == <<[at |-> <<>>, k |-> "read", x |-> x]>>
Lit(n) == <<[at |-> <<>>, k |-> "num", n |-> n]>>
Empty == <<[at |-> <<>>, k |-> "empty", n |-> 0]>>

MCNames == {"x", "y"}
X == Name("x")
Y == Name("y")
MCTargets == {<<Target(X)>>, <<Target(Y)>>, <<Target(Tuple(<<X, Y>>))>>, <<Target(Tuple(<<X, X>>))>>,
              <<Target(Tuple(<<Tuple(<<X, Y>>), X>>))>>, <<Target(Sub("x"))>>, <<Target(X), Target(Y)>>,
              <<Target(X), Target(Sub("x"))>>, <<Target(Tuple(<<X, Y>>)), Target(X)>>,
              <<Target(Tuple(<<X, Sub("x")>>))>>, <<Target(Y), Target(Tuple(<<Y, X>>)), Target(X)>>,
              <<List(Tuple(<<X, Y>>))>>}
MCValues == {Lit(1), Read("x"), Empty, Tuple(<<Read("y"), Read("x")>>), Tuple(<<Lit(2), Lit(3)>>),
             Tuple(<<Read("x"), Lit(4)>>), Tuple(<<Empty, Empty>>), Tuple(<<Read("y"), Empty>>),
             Tuple(<<Tuple(<<Lit(5), Read("x")>>), Lit(6)>>)}
=============================================================================
