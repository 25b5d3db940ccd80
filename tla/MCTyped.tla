------------------------------ MODULE MCTyped ------------------------------
(* Kernels of a few statements of every kind and scalar type.               *)
EXTENDS TypedTrace, TLC

CONSTANTS x, y

MCNames == {x, y}
Symmetry == Permutations(MCNames)    \* no statement tells one name from another
MCTensors == {"A"}
AllElements == {"bool", "int", "f16", "f32"}

AllKinds == {"number", "load", "store", "binary", "compare", "select", "ceildiv", "negate", "equal",
             "for", "test", "kernel", "alloc", "not", "assert"}
=============================================================================
