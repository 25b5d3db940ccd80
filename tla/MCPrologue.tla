----------------------------- MODULE MCPrologue -----------------------------
(* A kernel of two parameters: every call of it, and every small body.      *)
EXTENDS Prologue

MCNames == {"A", "B"}
MCArgNames == <<"A", "B">>
MCScalars == {7}

(* Up to one argument too many, and any keywords of the parameters.         *)
MCCalls == [args : UNION {[1 .. n -> Passable] : n \in 0 .. 3}, kwargs : Keywords]
=============================================================================
