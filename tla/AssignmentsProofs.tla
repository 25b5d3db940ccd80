------------------------- MODULE AssignmentsProofs -------------------------
(***************************************************************************)
(* The rewritten assignment does what the assignment does in Python, and    *)
(* every call of T.empty makes one output at most, for all kernels.         *)
(*                                                                          *)
(* The two are related through a machine that runs the rewritten statements *)
(* on the objects of Python: there, what is left of the code leads to what  *)
(* Python has already done (VisitLeads, when the assignment starts), and    *)
(* every statement takes the kernel and the machine to states that are the  *)
(* same again (AInv). For the outputs, OInv follows each call of T.empty    *)
(* from the temporary it is in to the output it becomes.                    *)
(***************************************************************************)
EXTENDS Assignments, TLAPS, FiniteSetTheorems, SequenceTheorems, WellFoundedInduction

(***************************************************************************)
(* Induction over an interval, on sets; the sequences a recursion makes.    *)
(***************************************************************************)
(* A set of naturals that is not empty has a least one.                     *)
LEMMA LeastOf ==
    ASSUME NEW B \in SUBSET Nat, B # {}
    PROVE  \E n \in B : \A m \in B : n <= m
<1> DEFINE R == {p \in Nat \X Nat : p[1] < p[2]}
<1>1. IsWellFoundedOn(OpToRel(<, Nat), Nat)
  BY NatLessThanWellFounded
<1>2. OpToRel(<, Nat) = R
  BY DEF OpToRel
<1>3. PICK n \in B : \A y \in B : ~ (<<y, n>> \in R)
  BY <1>1, <1>2, WFMin
<1>4. \A y \in B : ~ (y < n)
  <2> TAKE y \in B
  <2>1. <<y, n>> \in Nat \X Nat /\ <<y, n>>[1] = y /\ <<y, n>>[2] = n
    BY <1>3
  <2> QED
    BY <1>3, <2>1
<1>5. \A y \in B : y \in Nat /\ n \in Nat
  BY <1>3
<1> QED
  BY <1>3, <1>4, <1>5

(* So a set that holds 0 and the successor of each of its elements holds    *)
(* all of 0 .. M.                                                           *)
LEMMA Ascent ==
    ASSUME NEW M \in Nat, NEW G, 0 \in G, \A j \in 1 .. M : j - 1 \in G => j \in G
    PROVE  \A j \in 0 .. M : j \in G
<1> DEFINE B == {j \in 0 .. M : j \notin G}
<1> SUFFICES ASSUME B # {} PROVE FALSE
  OBVIOUS
<1>1. B \in SUBSET Nat
  OBVIOUS
<1>2. PICK n \in B : \A m \in B : n <= m
  BY <1>1, LeastOf
<1>3. n \in 1 .. M /\ n - 1 \in 0 .. M /\ ~ (n <= n - 1)
  BY <1>2
<1>4. n - 1 \in G
  BY <1>2, <1>3
<1> QED
  BY <1>2, <1>3, <1>4

(* f is what starts as s and goes on by H.                                  *)
Iterates(f, n, s, H) == f[0] = s /\ \A j \in 1 .. n : f[j] = H[j][f[j - 1]]

(* There is one, for a step of every index.                                *)
LEMMA IteratesExists ==
    ASSUME NEW S, NEW n \in Nat, NEW s \in S, NEW H \in [1 .. n -> [S -> S]]
    PROVE  \E f \in [0 .. n -> S] : Iterates(f, n, s, H)
<1> DEFINE G == {m \in 0 .. n : \E f \in [0 .. m -> S] : Iterates(f, m, s, H)}
<1>1. 0 \in G
  <2> DEFINE f == [j \in 0 .. 0 |-> s]
  <2>1. f \in [0 .. 0 -> S] /\ f[0] = s /\ 1 .. 0 = {}
    OBVIOUS
  <2>2. Iterates(f, 0, s, H)
    BY <2>1 DEF Iterates
  <2> QED
    BY <2>1, <2>2
<1>2. ASSUME NEW m \in 1 .. n, m - 1 \in G PROVE m \in G
  <2>1. PICK f \in [0 .. m - 1 -> S] : Iterates(f, m - 1, s, H)
    BY <1>2
  <2> DEFINE g == [j \in 0 .. m |-> IF j = m THEN H[m][f[m - 1]] ELSE f[j]]
  <2>2. f[m - 1] \in S /\ H[m] \in [S -> S]
    BY <2>1
  <2>3. H[m][f[m - 1]] \in S
    BY <2>2
  <2>4. g \in [0 .. m -> S]
    BY <2>3
  <2>5. g[0] = s
    BY <2>1 DEF Iterates
  <2>6. \A j \in 1 .. m : g[j] = H[j][g[j - 1]]
    <3> TAKE j \in 1 .. m
    <3>1. j - 1 \in 0 .. m /\ j \in 0 .. m /\ j - 1 # m
      OBVIOUS
    <3>2. g[j - 1] = f[j - 1]
      BY <3>1
    <3>3. CASE j = m
      BY <3>1, <3>2, <3>3
    <3>4. CASE j # m
      <4>1. j \in 1 .. m - 1 /\ g[j] = f[j]
        BY <3>1, <3>4
      <4> QED
        BY <2>1, <3>2, <4>1 DEF Iterates
    <3> QED
      BY <3>3, <3>4
  <2> HIDE DEF g
  <2>7. Iterates(g, m, s, H)
    BY <2>5, <2>6 DEF Iterates
  <2> QED
    BY <2>4, <2>7
<1>3. n \in G
  <2> HIDE DEF G
  <2>1. \A j \in 1 .. n : j - 1 \in G => j \in G
    BY <1>2
  <2>2. \A j \in 0 .. n : j \in G
    BY <1>1, <2>1, Ascent
  <2> QED
    BY <2>2
<1> QED
  BY <1>3

(***************************************************************************)
(* Places in a tuple.                                                       *)
(***************************************************************************)
(* What is beyond a place within a tuple at that place.                     *)
LEMMA BeyondOfNested ==
    ASSUME NEW at \in Places, NEW q \in Places
    PROVE  at \o q \in Places /\ Beyond(at, at \o q) = q
<1>1. at \o q \in Places
  BY ConcatProperties DEF Places
<1> DEFINE s == at \o q
           n == Len(at)
<1>2. n \in Nat /\ Len(q) \in Nat /\ Len(s) = n + Len(q)
  BY ConcatProperties, LenProperties DEF Places
<1>3. \A i \in n + 1 .. Len(s) : s[i] \in Nat
  BY <1>1, <1>2, ElementOfSeq DEF Places
<1>4. /\ Beyond(at, s) \in Seq(Nat)
      /\ Len(Beyond(at, s)) = IF n + 1 <= Len(s) THEN Len(s) - (n + 1) + 1 ELSE 0
      /\ \A i \in 1 .. Len(s) - (n + 1) + 1 : Beyond(at, s)[i] = s[n + 1 + i - 1]
  BY <1>2, <1>3, SubSeqProperties DEF Beyond
<1>5. Len(Beyond(at, s)) = Len(q)
  BY <1>2, <1>4
<1>6. \A i \in 1 .. Len(q) : Beyond(at, s)[i] = q[i]
  <2> TAKE i \in 1 .. Len(q)
  <2>1. i \in 1 .. Len(s) - (n + 1) + 1 /\ n + 1 + i - 1 = n + i /\ n + i \in 1 .. n + Len(q) /\ ~ (n + i <= n)
        /\ n + i - n = i
    BY <1>2
  <2>2. Beyond(at, s)[i] = s[n + i]
    BY <1>4, <2>1
  <2>3. s[n + i] = q[n + i - n]
    BY <2>1, ConcatProperties DEF Places
  <2> QED
    BY <2>1, <2>2, <2>3
<1>7. Beyond(at, s) = q
  BY <1>4, <1>5, <1>6, SeqEqual DEF Places
<1> QED
  BY <1>1, <1>7

(* A place is what it is a part of, and what is beyond that.                *)
LEMMA NestedOfBeyond ==
    ASSUME NEW at \in Places, NEW p \in Places, IsPrefix(at, p)
    PROVE  Beyond(at, p) \in Places /\ at \o Beyond(at, p) = p
<1> DEFINE n == Len(at)
<1>1. n \in Nat /\ Len(p) \in Nat /\ n <= Len(p)
  BY LenProperties DEF Places, IsPrefix
<1>2. at = SubSeq(p, 1, n)
  BY SubSeqFull DEF Places, IsPrefix
<1>3. \A i \in n + 1 .. Len(p) : p[i] \in Nat
  BY <1>1, ElementOfSeq DEF Places
<1>4. Beyond(at, p) \in Places
  BY <1>1, <1>3, SubSeqProperties DEF Beyond, Places
<1>5. SubSeq(p, 1, n) \o SubSeq(p, n + 1, Len(p)) = SubSeq(p, 1, Len(p))
  <2>1. 1 \in 1 .. Len(p) + 1 /\ n \in 1 - 1 .. Len(p) /\ Len(p) \in n .. Len(p) /\ p \in Seq(Nat)
    BY <1>1 DEF Places
  <2> HIDE DEF n
  <2> QED
    BY <2>1, ConcatAdjacentSubSeq
<1>6. SubSeq(p, 1, Len(p)) = p
  BY SubSeqFull DEF Places
<1> QED
  BY <1>2, <1>4, <1>5, <1>6 DEF Beyond

(* The empty place is that of the whole.                                    *)
LEMMA WholePlace ==
    ASSUME NEW p \in Places
    PROVE  <<>> \in Places /\ IsPrefix(<<>>, p) /\ Beyond(<<>>, p) = p /\ <<>> \o p = p
<1>1. <<>> \in Places /\ Len(<<>>) = 0 /\ Len(p) \in Nat
  BY EmptySeq, LenProperties DEF Places
<1>2. SubSeq(<<>>, 1, 0) = <<>> /\ SubSeq(p, 1, 0) = <<>>
  BY SubSeqEmpty
<1>3. IsPrefix(<<>>, p)
  BY <1>1, <1>2 DEF IsPrefix
<1>4. <<>> \o p = p
  BY ConcatEmptySeq DEF Places
<1>5. SubSeq(p, 1, Len(p)) = p
  BY SubSeqFull DEF Places
<1> QED
  BY <1>1, <1>3, <1>4, <1>5 DEF Beyond

(***************************************************************************)
(* Objects, and what stays the same when they do.                           *)
(***************************************************************************)
Atoms == [k : {"num", "out"}, n : Int] \cup [k : {"tensor"}, n : Int, id : Nat]
Objects == UNION {[D -> Atoms] : D \in (SUBSET Places) \ {{}}}
Things == Objects \cup {Unbound}

(* To be an object.                                                         *)
LEMMA ObjectIs ==
    ASSUME NEW o
    PROVE  o \in Objects <=> /\ o = [p \in DOMAIN o |-> o[p]]
                             /\ DOMAIN o \subseteq Places /\ DOMAIN o # {}
                             /\ \A p \in DOMAIN o : o[p] \in Atoms
<1>1. ASSUME o \in Objects
      PROVE  /\ o = [p \in DOMAIN o |-> o[p]]
             /\ DOMAIN o \subseteq Places /\ DOMAIN o # {}
             /\ \A p \in DOMAIN o : o[p] \in Atoms
  <2>1. PICK D \in (SUBSET Places) \ {{}} : o \in [D -> Atoms]
    BY <1>1 DEF Objects
  <2> QED
    BY <2>1
<1>2. ASSUME o = [p \in DOMAIN o |-> o[p]],
             DOMAIN o \subseteq Places /\ DOMAIN o # {},
             \A p \in DOMAIN o : o[p] \in Atoms
      PROVE  o \in Objects
  <2>1. o \in [DOMAIN o -> Atoms]
    BY <1>2
  <2> QED
    BY <1>2, <2>1 DEF Objects
<1> QED
  BY <1>1, <1>2

(* A leaf alone is an object, and a scope is of what is bound and what not. *)
LEMMA SingleType ==
    ASSUME NEW a \in Atoms
    PROVE  /\ Single(a) \in Objects /\ DOMAIN Single(a) = {<<>>} /\ Single(a)[<<>>] = a
           /\ IsSingle(Single(a))
<1>1. <<>> \in Places
  BY EmptySeq DEF Places
<1>2. DOMAIN Single(a) = {<<>>} /\ Single(a)[<<>>] = a /\ Single(a) = [p \in DOMAIN Single(a) |-> Single(a)[p]]
  BY DEF Single
<1>3. Single(a) \in Objects
  BY <1>1, <1>2, ObjectIs
<1> QED
  BY <1>2, <1>3 DEF IsSingle

(* What a name is bound to is an object, or nothing.                       *)
LEMMA ThingIs ==
    ASSUME NEW o \in Things
    PROVE  o # Unbound <=> o \in Objects
<1>1. DOMAIN Unbound = {}
  BY DEF Unbound
<1>2. o \in Objects => DOMAIN o # {}
  BY ObjectIs
<1> QED
  BY <1>1, <1>2 DEF Things

(* The parts of an object are objects, and the whole is one of them.        *)
LEMMA PartType ==
    ASSUME NEW o \in Objects, NEW at \in Places, NEW r \in DOMAIN o, IsPrefix(at, r)
    PROVE  /\ Part(o, at) \in Objects
           /\ DOMAIN Part(o, at) = {Beyond(at, p) : p \in {s \in DOMAIN o : IsPrefix(at, s)}}
           /\ \A q \in DOMAIN Part(o, at) : at \o q \in DOMAIN o /\ Part(o, at)[q] = o[at \o q]
<1> DEFINE D == {Beyond(at, p) : p \in {s \in DOMAIN o : IsPrefix(at, s)}}
<1>1. /\ o = [p \in DOMAIN o |-> o[p]]
      /\ DOMAIN o \subseteq Places /\ DOMAIN o # {}
      /\ \A p \in DOMAIN o : o[p] \in Atoms
  BY ObjectIs
<1>2. ASSUME NEW q \in D PROVE q \in Places /\ at \o q \in DOMAIN o
  <2>1. PICK p \in DOMAIN o : IsPrefix(at, p) /\ q = Beyond(at, p)
    OBVIOUS
  <2>2. p \in Places
    BY <1>1
  <2>3. Beyond(at, p) \in Places /\ at \o Beyond(at, p) = p
    BY <2>1, <2>2, NestedOfBeyond
  <2> QED
    BY <2>1, <2>3
<1>3. Part(o, at) = [q \in D |-> o[at \o q]]
  BY DEF Part
<1>4. D # {}
  OBVIOUS
<1> HIDE DEF D
<1>5. /\ DOMAIN Part(o, at) = D
      /\ \A q \in D : Part(o, at)[q] = o[at \o q]
      /\ Part(o, at) = [q \in DOMAIN Part(o, at) |-> Part(o, at)[q]]
  BY <1>3
<1>6. Part(o, at) \in Objects
  BY <1>1, <1>2, <1>4, <1>5, ObjectIs
<1> QED
  BY <1>2, <1>5, <1>6 DEF D

(* The part at the place of the whole is the object.                       *)
LEMMA WholePart ==
    ASSUME NEW o \in Objects
    PROVE  Part(o, <<>>) = o /\ \E r \in DOMAIN o : IsPrefix(<<>>, r)
<1>1. /\ o = [p \in DOMAIN o |-> o[p]]
      /\ DOMAIN o \subseteq Places /\ DOMAIN o # {}
  BY ObjectIs
<1>2. \A p \in DOMAIN o : IsPrefix(<<>>, p) /\ Beyond(<<>>, p) = p /\ <<>> \o p = p
  BY <1>1, WholePlace
<1>3. {Beyond(<<>>, p) : p \in {s \in DOMAIN o : IsPrefix(<<>>, s)}} = DOMAIN o
  BY <1>2
<1>4. Part(o, <<>>) = [q \in DOMAIN o |-> o[<<>> \o q]]
  BY <1>3 DEF Part
<1>5. \A q \in DOMAIN o : o[<<>> \o q] = o[q]
  BY <1>2
<1>6. Part(o, <<>>) = [q \in DOMAIN o |-> o[q]]
  BY <1>4, <1>5
<1> QED
  BY <1>1, <1>2, <1>6

(* What is nested in a tuple.                                               *)
LEMMA NestedType ==
    ASSUME NEW o \in Objects, NEW at \in Places
    PROVE  /\ Nested(at, o) \in Objects
           /\ DOMAIN Nested(at, o) = {at \o q : q \in DOMAIN o}
           /\ \A q \in DOMAIN o : Nested(at, o)[at \o q] = o[q]
           /\ \A p \in DOMAIN Nested(at, o) : Beyond(at, p) \in DOMAIN o /\ p = at \o Beyond(at, p)
                                              /\ Nested(at, o)[p] = o[Beyond(at, p)]
<1> DEFINE D == {at \o q : q \in DOMAIN o}
<1>1. /\ DOMAIN o \subseteq Places /\ DOMAIN o # {}
      /\ \A p \in DOMAIN o : o[p] \in Atoms
  BY ObjectIs
<1>2. \A q \in DOMAIN o : at \o q \in Places /\ Beyond(at, at \o q) = q
  BY <1>1, BeyondOfNested
<1>3. Nested(at, o) = [p \in D |-> o[Beyond(at, p)]]
  BY DEF Nested
<1>4. D # {} /\ D \subseteq Places /\ \A p \in D : Beyond(at, p) \in DOMAIN o /\ p = at \o Beyond(at, p)
  BY <1>1, <1>2
<1>5. \A q \in DOMAIN o : at \o q \in D
  OBVIOUS
<1>6. D = {at \o q : q \in DOMAIN o}
  OBVIOUS
<1> HIDE DEF D
<1>7. /\ DOMAIN Nested(at, o) = D
      /\ \A p \in D : Nested(at, o)[p] = o[Beyond(at, p)]
      /\ Nested(at, o) = [p \in DOMAIN Nested(at, o) |-> Nested(at, o)[p]]
  BY <1>3
<1>8. Nested(at, o) \in Objects
  BY <1>1, <1>4, <1>7, ObjectIs
<1>9. \A q \in DOMAIN o : Nested(at, o)[at \o q] = o[q]
  BY <1>2, <1>5, <1>7
<1> QED
  BY <1>4, <1>6, <1>7, <1>8, <1>9

(* The leaves of an expression, and how often it calls T.empty.             *)
LEMMA LeafIs ==
    ASSUME NEW e \in Values, NEW j \in DOMAIN e
    PROVE  /\ e[j].at \in Places
           /\ e[j].k \in {"num", "empty", "read"}
           /\ e[j].k \in {"num", "empty"} => e[j].n \in Int
           /\ e[j].k = "read" => e[j].x \in Names
<1>1. e \in Seq(ValueLeaf)
  BY SyntaxAssumption
<1>2. e[j] \in ValueLeaf
  BY <1>1, LenProperties, ElementOfSeq
<1> QED
  BY <1>2 DEF ValueLeaf

(* An expression has leaves, each in a place of its own.                   *)
LEMMA ValueIs ==
    ASSUME NEW e \in Values
    PROVE  /\ Len(e) \in Nat /\ Len(e) >= 1 /\ DOMAIN e = 1 .. Len(e)
           /\ \A i, j \in DOMAIN e : IsPrefix(e[i].at, e[j].at) => i = j
<1>1. e \in Seq(ValueLeaf) /\ e # <<>> /\ \A i, j \in DOMAIN e : IsPrefix(e[i].at, e[j].at) => i = j
  BY SyntaxAssumption DEF Apart
<1>2. Len(e) \in Nat \ {0} /\ DOMAIN e = 1 .. Len(e)
  BY <1>1, EmptySeq, LenProperties
<1> QED
  BY <1>1, <1>2

(* Calls are counted over finite sets.                                     *)
LEMMA CallsInType ==
    ASSUME NEW e, NEW j \in Nat
    PROVE  CallsIn(e, j) \in Nat /\ IsFiniteSet({i \in 1 .. j : e[i].k = "empty"})
<1>1. IsFiniteSet(1 .. j)
  BY FS_Interval
<1>2. IsFiniteSet({i \in 1 .. j : e[i].k = "empty"})
  BY <1>1, FS_Subset
<1> QED
  BY <1>2, FS_CardinalityType DEF CallsIn

(* An expression calls T.empty some number of times.                       *)
LEMMA CallsType ==
    ASSUME NEW e \in Values
    PROVE  Calls(e) \in Nat
BY ValueIs, CallsInType DEF Calls

(* What an expression evaluates to.                                         *)
Scopes == [Names -> Things]
Readable(e, sc) == \A x \in Reads(e) : sc[x] # Unbound

(* A leaf yields an object, when the names it reads are bound.             *)
LEMMA YieldsType ==
    ASSUME NEW e \in Values, NEW sc \in Scopes, Readable(e, sc), NEW n \in Nat, NEW j \in DOMAIN e
    PROVE  Yields(e, j, sc, n) \in Objects
<1>1. j \in Nat /\ j - 1 \in Nat
  BY ValueIs
<1>2. CallsIn(e, j - 1) \in Nat
  BY <1>1, CallsInType
<1>3. CASE e[j].k = "num"
  <2>1. Num(e[j].n) \in Atoms
    BY <1>3, LeafIs DEF Num, Atoms
  <2> QED
    BY <1>3, <2>1, SingleType DEF Yields
<1>4. CASE e[j].k = "empty"
  <2>1. Out(n + CallsIn(e, j - 1)) \in Atoms
    BY <1>2 DEF Out, Atoms
  <2>2. Yields(e, j, sc, n) = Single(Out(n + CallsIn(e, j - 1)))
    BY <1>4 DEF Yields
  <2> QED
    BY <2>1, <2>2, SingleType
<1>5. CASE e[j].k = "read"
  <2>1. e[j].x \in Reads(e) /\ e[j].x \in Names
    BY <1>5, LeafIs DEF Reads
  <2>2. sc[e[j].x] \in Things /\ sc[e[j].x] # Unbound
    BY <2>1 DEF Scopes, Readable
  <2>3. sc[e[j].x] \in Objects
    BY <2>2, ThingIs
  <2> QED
    BY <1>5, <2>3 DEF Yields
<1> QED
  BY <1>3, <1>4, <1>5, LeafIs

(* The leaf j of an expression holds place p of what it evaluates to.       *)
Holds(e, sc, n, j, p) == p \in DOMAIN Nested(e[j].at, Yields(e, j, sc, n))

(* So does an expression, and every leaf of the object is from a leaf of   *)
(* the expression that holds its place.                                    *)
LEMMA EvaluatesType ==
    ASSUME NEW e \in Values, NEW sc \in Scopes, Readable(e, sc), NEW n \in Nat
    PROVE  /\ Evaluates(e, sc, n) \in Objects
           /\ DOMAIN Evaluates(e, sc, n) = UNION {DOMAIN Nested(e[j].at, Yields(e, j, sc, n)) : j \in DOMAIN e}
           /\ \A p \in DOMAIN Evaluates(e, sc, n) :
                LET j == CHOOSE i \in {h \in DOMAIN e : Holds(e, sc, n, h, p)} : TRUE
                IN  /\ j \in DOMAIN e /\ Holds(e, sc, n, j, p)
                    /\ Evaluates(e, sc, n)[p] = Nested(e[j].at, Yields(e, j, sc, n))[p]
<1> DEFINE part == [j \in DOMAIN e |-> Nested(e[j].at, Yields(e, j, sc, n))]
           H(p) == {h \in DOMAIN e : Holds(e, sc, n, h, p)}
           D == UNION {DOMAIN Nested(e[j].at, Yields(e, j, sc, n)) : j \in DOMAIN e}
           J(p) == CHOOSE i \in H(p) : TRUE
<1>1. \A j \in DOMAIN e : Nested(e[j].at, Yields(e, j, sc, n)) \in Objects
  BY YieldsType, NestedType, LeafIs
<1>2. \A j \in DOMAIN e : part[j] = Nested(e[j].at, Yields(e, j, sc, n))
  OBVIOUS
<1>3. D = UNION {DOMAIN part[j] : j \in DOMAIN e}
  OBVIOUS
<1>4. \A p : H(p) = {h \in DOMAIN e : p \in DOMAIN part[h]}
  BY DEF Holds
<1>5. Evaluates(e, sc, n) = [p \in D |-> part[CHOOSE i \in {h \in DOMAIN e : p \in DOMAIN part[h]} : TRUE][p]]
  BY DEF Evaluates
<1> HIDE DEF part
<1>6. \A p \in D : J(p) \in DOMAIN e /\ Holds(e, sc, n, J(p), p)
  <2> TAKE p \in D
  <2>1. H(p) # {}
    BY DEF Holds
  <2>2. J(p) \in H(p)
    BY <2>1
  <2> QED
    BY <2>2
<1>7. \A p \in D : J(p) = CHOOSE i \in {h \in DOMAIN e : p \in DOMAIN part[h]} : TRUE
  BY <1>4
<1> HIDE DEF J
<1>8. /\ DOMAIN Evaluates(e, sc, n) = D
      /\ \A p \in D : Evaluates(e, sc, n)[p] = part[J(p)][p]
      /\ Evaluates(e, sc, n) = [p \in DOMAIN Evaluates(e, sc, n) |-> Evaluates(e, sc, n)[p]]
  <2> HIDE DEF D
  <2> QED
    BY <1>5, <1>7
<1>9. \A p \in D : Evaluates(e, sc, n)[p] = Nested(e[J(p)].at, Yields(e, J(p), sc, n))[p]
  BY <1>2, <1>6, <1>8
<1>10. D # {} /\ D \subseteq Places
  <2>1. 1 \in DOMAIN e
    BY ValueIs
  <2>2. \A j \in DOMAIN e : DOMAIN Nested(e[j].at, Yields(e, j, sc, n)) # {}
                            /\ DOMAIN Nested(e[j].at, Yields(e, j, sc, n)) \subseteq Places
    BY <1>1, ObjectIs
  <2> QED
    BY <2>1, <2>2
<1>11. \A p \in D : Evaluates(e, sc, n)[p] \in Atoms
  <2> TAKE p \in D
  <2>1. Nested(e[J(p)].at, Yields(e, J(p), sc, n)) \in Objects /\ p \in DOMAIN Nested(e[J(p)].at, Yields(e, J(p), sc, n))
    BY <1>1, <1>6 DEF Holds
  <2> QED
    BY <1>9, <2>1, ObjectIs
<1>12. Evaluates(e, sc, n) \in Objects
  BY <1>8, <1>10, <1>11, ObjectIs
<1> QED
  BY <1>6, <1>8, <1>9, <1>12 DEF J

(***************************************************************************)
(* The same objects have the same parts, evaluate to the same, can be       *)
(* stored alike, and stay the same through Builder.bind.                    *)
(***************************************************************************)
SameScopes(sc, py) == \A x \in Names : Same(sc[x], py[x])

(* What is the same: every object as itself.                               *)
LEMMA SameItself ==
    ASSUME NEW o
    PROVE  Same(o, o)
<1>1. \A q \in DOMAIN o : o[q].k = "out" => o[q].k \in {"out", "tensor"}
  OBVIOUS
<1> QED
  BY <1>1 DEF Same, SameLeaf

(* A name is bound to the same only when it is bound in both.              *)
LEMMA SameBinding ==
    ASSUME NEW o \in Things, NEW p \in Things, Same(o, p)
    PROVE  o # Unbound <=> p # Unbound
<1>1. DOMAIN Unbound = {} /\ \A t \in Objects : DOMAIN t # {}
  BY ObjectIs DEF Unbound
<1>2. DOMAIN o = DOMAIN p
  BY DEF Same
<1> QED
  BY <1>1, <1>2 DEF Things

(* The parts of the same objects are the same.                             *)
LEMMA SamePart ==
    ASSUME NEW o \in Objects, NEW p \in Objects, Same(o, p),
           NEW at \in Places, NEW r \in DOMAIN o, IsPrefix(at, r)
    PROVE  Same(Part(o, at), Part(p, at))
<1>1. DOMAIN o = DOMAIN p /\ \A q \in DOMAIN o : SameLeaf(o[q], p[q])
  BY DEF Same
<1>2. /\ DOMAIN Part(o, at) = {Beyond(at, q) : q \in {s \in DOMAIN o : IsPrefix(at, s)}}
      /\ DOMAIN Part(p, at) = {Beyond(at, q) : q \in {s \in DOMAIN p : IsPrefix(at, s)}}
      /\ \A q \in DOMAIN Part(o, at) : at \o q \in DOMAIN o /\ Part(o, at)[q] = o[at \o q]
      /\ \A q \in DOMAIN Part(p, at) : Part(p, at)[q] = p[at \o q]
  BY <1>1, PartType
<1>3. DOMAIN Part(o, at) = DOMAIN Part(p, at)
  BY <1>1, <1>2
<1>4. \A q \in DOMAIN Part(o, at) : SameLeaf(Part(o, at)[q], Part(p, at)[q])
  BY <1>1, <1>2, <1>3
<1> QED
  BY <1>3, <1>4 DEF Same

(* The same objects are the same within tuples.                            *)
LEMMA SameNested ==
    ASSUME NEW o \in Objects, NEW p \in Objects, Same(o, p), NEW at \in Places
    PROVE  Same(Nested(at, o), Nested(at, p))
<1>1. DOMAIN o = DOMAIN p /\ \A q \in DOMAIN o : SameLeaf(o[q], p[q])
  BY DEF Same
<1>2. DOMAIN Nested(at, o) = DOMAIN Nested(at, p)
  BY <1>1, NestedType
<1>3. \A q \in DOMAIN Nested(at, o) : /\ Beyond(at, q) \in DOMAIN o
                                      /\ Nested(at, o)[q] = o[Beyond(at, q)]
                                      /\ Nested(at, p)[q] = p[Beyond(at, q)]
  BY <1>2, NestedType
<1>4. \A q \in DOMAIN Nested(at, o) : SameLeaf(Nested(at, o)[q], Nested(at, p)[q])
  BY <1>1, <1>3
<1> QED
  BY <1>2, <1>4 DEF Same

(* An expression evaluates to the same in scopes that are the same.        *)
LEMMA SameEvaluates ==
    ASSUME NEW e \in Values, NEW n \in Nat,
           NEW sc \in Scopes, NEW py \in Scopes, SameScopes(sc, py), Readable(e, sc)
    PROVE  Readable(e, py) /\ Same(Evaluates(e, sc, n), Evaluates(e, py, n))
<1>1. \A x \in Reads(e) : x \in Names
  BY LeafIs DEF Reads
<1>2. Readable(e, py)
  <2>1. ASSUME NEW x \in Reads(e) PROVE py[x] # Unbound
    <3>1. sc[x] \in Things /\ py[x] \in Things /\ Same(sc[x], py[x]) /\ sc[x] # Unbound
      BY <1>1, <2>1 DEF Scopes, SameScopes, Readable
    <3> QED
      BY <3>1, SameBinding
  <2> QED
    BY <2>1 DEF Readable
<1>3. ASSUME NEW j \in DOMAIN e
      PROVE  Same(Nested(e[j].at, Yields(e, j, sc, n)), Nested(e[j].at, Yields(e, j, py, n)))
  <2>1. Yields(e, j, sc, n) \in Objects /\ Yields(e, j, py, n) \in Objects /\ e[j].at \in Places
    BY <1>2, YieldsType, LeafIs
  <2>2. Same(Yields(e, j, sc, n), Yields(e, j, py, n))
    <3>1. CASE e[j].k = "read"
      <4>1. Yields(e, j, sc, n) = sc[e[j].x] /\ Yields(e, j, py, n) = py[e[j].x] /\ e[j].x \in Names
        BY <3>1, LeafIs DEF Yields
      <4> QED
        BY <4>1 DEF SameScopes
    <3>2. CASE e[j].k \in {"num", "empty"}
      <4>1. Yields(e, j, sc, n) = Yields(e, j, py, n)
        BY <3>2 DEF Yields
      <4> QED
        BY <4>1, SameItself
    <3> QED
      BY <3>1, <3>2, LeafIs
  <2> QED
    BY <2>1, <2>2, SameNested
<1>4. \A j \in DOMAIN e : DOMAIN Nested(e[j].at, Yields(e, j, sc, n)) = DOMAIN Nested(e[j].at, Yields(e, j, py, n))
  BY <1>3 DEF Same
<1>5. DOMAIN Evaluates(e, sc, n) = DOMAIN Evaluates(e, py, n)
  <2>1. DOMAIN Evaluates(e, sc, n) = UNION {DOMAIN Nested(e[j].at, Yields(e, j, sc, n)) : j \in DOMAIN e}
    BY EvaluatesType
  <2>2. DOMAIN Evaluates(e, py, n) = UNION {DOMAIN Nested(e[j].at, Yields(e, j, py, n)) : j \in DOMAIN e}
    BY <1>2, EvaluatesType
  <2> QED
    BY <1>4, <2>1, <2>2
<1>6. ASSUME NEW p \in DOMAIN Evaluates(e, sc, n)
      PROVE  SameLeaf(Evaluates(e, sc, n)[p], Evaluates(e, py, n)[p])
  <2> DEFINE i == CHOOSE g \in {h \in DOMAIN e : Holds(e, sc, n, h, p)} : TRUE
             j == CHOOSE g \in {h \in DOMAIN e : Holds(e, py, n, h, p)} : TRUE
  <2>1. {h \in DOMAIN e : Holds(e, sc, n, h, p)} = {h \in DOMAIN e : Holds(e, py, n, h, p)}
    BY <1>4 DEF Holds
  <2>2. i = j
    BY <2>1
  <2>3. i \in DOMAIN e /\ Holds(e, sc, n, i, p) /\ Evaluates(e, sc, n)[p] = Nested(e[i].at, Yields(e, i, sc, n))[p]
    BY EvaluatesType
  <2>4. Evaluates(e, py, n)[p] = Nested(e[j].at, Yields(e, j, py, n))[p]
    BY <1>2, <1>5, EvaluatesType
  <2> HIDE DEF i, j
  <2> QED
    BY <1>3, <2>2, <2>3, <2>4 DEF Same, Holds
<1> QED
  BY <1>2, <1>5, <1>6 DEF Same

(* A target has the shape of both or of none.                              *)
LEMMA SameFits ==
    ASSUME NEW t, NEW o, NEW p, Same(o, p)
    PROVE  Fits(t, o) <=> Fits(t, p)
BY DEF Fits, Same

(* What can be stored holds numbers alone, so it is equal.                 *)
LEMMA SameStorable ==
    ASSUME NEW o \in Objects, NEW p \in Objects, Same(o, p),
           NEW i \in Things, NEW h \in Things, Same(i, h)
    PROVE  /\ Storable(i, o) <=> Storable(h, p)
           /\ Storable(i, o) => i = h /\ o = p
<1>1. /\ DOMAIN o = DOMAIN p /\ \A q \in DOMAIN o : SameLeaf(o[q], p[q])
      /\ DOMAIN i = DOMAIN h /\ \A q \in DOMAIN i : SameLeaf(i[q], h[q])
  BY DEF Same
<1>2. /\ o = [q \in DOMAIN o |-> o[q]] /\ p = [q \in DOMAIN p |-> p[q]]
      /\ i = [q \in DOMAIN i |-> i[q]] /\ h = [q \in DOMAIN h |-> h[q]]
  BY ObjectIs DEF Things, Unbound
<1>3. \A a, b : SameLeaf(a, b) => /\ a.k = "num" <=> b.k = "num"
                                  /\ a.k = "num" => a = b
  BY DEF SameLeaf
<1>4. Is(o, "num") <=> Is(p, "num")
  BY <1>1, <1>3 DEF Is, IsSingle
<1>5. IsIndex(i) <=> IsIndex(h)
  BY <1>1, <1>3 DEF IsIndex
<1>6. ASSUME Storable(i, o) PROVE i = h /\ o = p
  <2>1. \A q \in DOMAIN o : o[q].k = "num"
    BY <1>6 DEF Storable, Is, IsSingle
  <2>2. \A q \in DOMAIN i : i[q].k = "num"
    BY <1>6 DEF Storable, IsIndex
  <2>3. (\A q \in DOMAIN o : o[q] = p[q]) /\ (\A q \in DOMAIN i : i[q] = h[q])
    BY <1>1, <1>3, <2>1, <2>2
  <2> QED
    BY <1>1, <1>2, <2>3
<1> QED
  BY <1>4, <1>5, <1>6 DEF Storable

(* Builder.bind changes what T.empty returned to the tensor of that call,  *)
(* and nothing else.                                                       *)
LEMMA SameBound ==
    ASSUME NEW o \in Objects, outputs \in Seq(Int)
    PROVE  /\ Bound(o) \in Objects
           /\ \A p \in Objects : Same(o, p) => Same(Bound(o), p)
<1>1. CASE ~ Is(o, "out")
  BY <1>1 DEF Bound
<1>2. CASE Is(o, "out")
  <2>1. DOMAIN o = {<<>>} /\ o[<<>>].k = "out" /\ o[<<>>] \in Atoms
    BY <1>2, ObjectIs DEF Is, IsSingle
  <2>2. o[<<>>].n \in Int /\ Len(outputs) \in Nat
    BY <2>1, LenProperties DEF Atoms
  <2> DEFINE a == Tensor(o[<<>>].n, Len(outputs))
  <2>3. a \in Atoms /\ a.k = "tensor" /\ a.n = o[<<>>].n /\ Bound(o) = Single(a)
    BY <1>2, <2>2 DEF Tensor, Atoms, Bound
  <2> HIDE DEF a
  <2>4. Single(a) \in Objects /\ DOMAIN Single(a) = {<<>>} /\ Single(a)[<<>>] = a
    BY <2>3, SingleType
  <2>5. ASSUME NEW p \in Objects, Same(o, p) PROVE Same(Bound(o), p)
    <3>1. DOMAIN p = {<<>>} /\ SameLeaf(o[<<>>], p[<<>>])
      BY <2>1, <2>5 DEF Same
    <3>2. p[<<>>].k = "out" /\ o[<<>>].n = p[<<>>].n
      BY <2>1, <3>1 DEF SameLeaf
    <3>3. SameLeaf(a, p[<<>>])
      BY <2>3, <3>2 DEF SameLeaf
    <3> QED
      BY <2>3, <2>4, <3>1, <3>3 DEF Same
  <2> QED
    BY <2>3, <2>4, <2>5
<1> QED
  BY <1>1, <1>2

(***************************************************************************)
(* What Python does: its recursions, unrolled.                              *)
(***************************************************************************)
Stores == Seq([index : Objects, value : Objects])
PyStates == [scope : Scopes, stores : Stores, empties : Nat, raised : BOOLEAN]
AllTargets == [leaves : {s \in Seq(TargetLeaf) : Apart(s)}, lists : BOOLEAN]

(* The targets of an assignment: at least one.                             *)
LEMMA TargetsAre ==
    ASSUME NEW ts \in Targets
    PROVE  /\ Len(ts) \in Nat /\ Len(ts) >= 1 /\ DOMAIN ts = 1 .. Len(ts)
           /\ ts \in Seq(AllTargets)
           /\ \A j \in DOMAIN ts : ts[j] \in AllTargets
<1>1. ts \in Seq(AllTargets) /\ ts # <<>>
  BY SyntaxAssumption DEF AllTargets
<1>2. Len(ts) \in Nat \ {0} /\ DOMAIN ts = 1 .. Len(ts)
  BY <1>1, EmptySeq, LenProperties
<1> QED
  BY <1>1, <1>2, ElementOfSeq

(* A target has leaves, each in a place of its own.                        *)
LEMMA TargetIs ==
    ASSUME NEW t \in AllTargets
    PROVE  /\ Len(t.leaves) \in Nat /\ Len(t.leaves) >= 1 /\ DOMAIN t.leaves = 1 .. Len(t.leaves)
           /\ t.leaves \in Seq(TargetLeaf)
           /\ \A j \in DOMAIN t.leaves : t.leaves[j] \in TargetLeaf /\ t.leaves[j].at \in Places
           /\ \A i, j \in DOMAIN t.leaves : IsPrefix(t.leaves[i].at, t.leaves[j].at) => i = j
<1>1. t.leaves \in Seq(TargetLeaf) /\ t.leaves # <<>>
      /\ \A i, j \in DOMAIN t.leaves : IsPrefix(t.leaves[i].at, t.leaves[j].at) => i = j
  BY DEF AllTargets, Apart
<1>2. Len(t.leaves) \in Nat \ {0} /\ DOMAIN t.leaves = 1 .. Len(t.leaves)
  BY <1>1, EmptySeq, LenProperties
<1>3. \A j \in DOMAIN t.leaves : t.leaves[j] \in TargetLeaf
  BY <1>1, <1>2, ElementOfSeq
<1>4. \A l \in TargetLeaf : l.at \in Places
  BY DEF TargetLeaf
<1> QED
  BY <1>1, <1>2, <1>3, <1>4

(* Assigning a leaf leads to a state of Python, and does nothing once      *)
(* raised.                                                                 *)
LEMMA PyLeafType ==
    ASSUME NEW s \in PyStates, NEW l \in TargetLeaf, NEW o \in Objects
    PROVE  PyLeaf(s, l, o) \in PyStates /\ (s.raised => PyLeaf(s, l, o) = s)
<1>1. l.x \in Names /\ l.k \in {"name", "sub"}
  BY DEF TargetLeaf
<1>2. CASE s.raised
  <2>1. PyLeaf(s, l, o) = s
    BY <1>2 DEF PyLeaf
  <2> QED
    BY <2>1
<1>3. CASE ~ s.raised /\ l.k = "name"
  <2>1. PyLeaf(s, l, o) = [s EXCEPT !.scope[l.x] = o]
    BY <1>3 DEF PyLeaf
  <2>2. s.scope \in [Names -> Things] /\ o \in Things
    BY DEF PyStates, Scopes, Things
  <2>3. [s.scope EXCEPT ![l.x] = o] \in Scopes
    BY <1>1, <2>2 DEF Scopes
  <2>4. PyLeaf(s, l, o) \in PyStates
    BY <2>1, <2>3 DEF PyStates
  <2> QED
    BY <1>3, <2>4
<1>4. CASE ~ s.raised /\ l.k = "sub"
  <2> DEFINE i == s.scope[l.x]
  <2>1. PyLeaf(s, l, o) = IF Storable(i, o)
                          THEN [s EXCEPT !.stores = Append(@, [index |-> i, value |-> o])]
                          ELSE [s EXCEPT !.raised = TRUE]
    BY <1>4 DEF PyLeaf
  <2>2. i \in Things
    BY <1>1 DEF PyStates, Scopes
  <2>3. Storable(i, o) => i \in Objects
    <3>1. DOMAIN Unbound = {}
      BY DEF Unbound
    <3> QED
      BY <2>2, <3>1 DEF Storable, IsIndex, Things
  <2> HIDE DEF i
  <2>4. Storable(i, o) => Append(s.stores, [index |-> i, value |-> o]) \in Stores
    BY <2>3, AppendProperties DEF Stores, PyStates
  <2>5. PyLeaf(s, l, o) \in PyStates
    BY <2>1, <2>4 DEF PyStates
  <2> QED
    BY <1>4, <2>5
<1> QED
  BY <1>1, <1>2, <1>3, <1>4

(* f is how the leaves of a target are assigned, from s on.                 *)
AssignsLeaves(f, s, t, o) ==
    /\ f \in [0 .. Len(t.leaves) -> PyStates] /\ f[0] = s
    /\ \A j \in 1 .. Len(t.leaves) : f[j] = PyLeaf(f[j - 1], t.leaves[j], Part(o, t.leaves[j].at))

(* An object with the shape of a target has a part for every leaf of it.   *)
LEMMA FitsParts ==
    ASSUME NEW t, NEW o \in Objects, Fits(t, o), NEW j \in DOMAIN t.leaves, t.leaves[j].at \in Places
    PROVE  Part(o, t.leaves[j].at) \in Objects /\ \E r \in DOMAIN o : IsPrefix(t.leaves[j].at, r)
BY PartType DEF Fits

(* PyTarget goes through such an f.                                        *)
LEMMA PyTargetIs ==
    ASSUME NEW s \in PyStates, NEW t \in AllTargets, NEW o \in Objects, Fits(t, o)
    PROVE  \E f : AssignsLeaves(f, s, t, o) /\ PyTarget(s, t, o) = f[Len(t.leaves)]
<1> DEFINE n == Len(t.leaves)
           H == [j \in 1 .. n |-> [x \in PyStates |-> PyLeaf(x, t.leaves[j], Part(o, t.leaves[j].at))]]
           Down(f) == f = [j \in 0 .. n |-> IF j = 0 THEN s
                                            ELSE PyLeaf(f[j - 1], t.leaves[j], Part(o, t.leaves[j].at))]
<1>1. n \in Nat /\ DOMAIN t.leaves = 1 .. n
  BY TargetIs
<1>2. \A j \in 1 .. n : t.leaves[j] \in TargetLeaf /\ Part(o, t.leaves[j].at) \in Objects
  BY <1>1, TargetIs, FitsParts
<1>3. H \in [1 .. n -> [PyStates -> PyStates]]
  BY <1>2, PyLeafType
<1>4. \E f : Down(f)
  <2>1. PICK f \in [0 .. n -> PyStates] : Iterates(f, n, s, H)
    BY <1>1, <1>3, IteratesExists
  <2>2. \A j \in 1 .. n : f[j - 1] \in PyStates /\ f[j] = H[j][f[j - 1]]
    <3> HIDE DEF n, H
    <3>1. \A j \in 1 .. n : j - 1 \in 0 .. n
      BY <1>1
    <3> QED
      BY <2>1, <3>1 DEF Iterates
  <2>3. \A j \in 1 .. n : f[j] = PyLeaf(f[j - 1], t.leaves[j], Part(o, t.leaves[j].at))
    BY <2>2
  <2>4. f[0] = s
    BY <2>1 DEF Iterates
  <2> HIDE DEF H
  <2>5. \A j \in 0 .. n : f[j] = IF j = 0 THEN s ELSE PyLeaf(f[j - 1], t.leaves[j], Part(o, t.leaves[j].at))
    BY <1>1, <2>3, <2>4
  <2>6. Down(f)
    BY <2>1, <2>5
  <2> QED
    BY <2>6
<1>5. PICK f : Down(f) /\ PyTarget(s, t, o) = f[n]
  BY <1>4 DEF PyTarget
<1>6. f[0] = s /\ \A j \in 1 .. n : f[j] = PyLeaf(f[j - 1], t.leaves[j], Part(o, t.leaves[j].at))
  BY <1>1, <1>5
<1>7. \A j \in 0 .. n : f[j] \in PyStates
  <2> DEFINE G == {j \in 0 .. n : f[j] \in PyStates}
  <2>1. 0 \in G
    BY <1>1, <1>6
  <2>2. ASSUME NEW j \in 1 .. n, j - 1 \in G PROVE j \in G
    <3>1. PyLeaf(f[j - 1], t.leaves[j], Part(o, t.leaves[j].at)) \in PyStates
      BY <1>2, <2>2, PyLeafType
    <3> QED
      BY <1>6, <3>1
  <2> HIDE DEF G
  <2>3. \A j \in 1 .. n : j - 1 \in G => j \in G
    BY <2>2
  <2>4. \A j \in 0 .. n : j \in G
    BY <1>1, <2>1, <2>3, Ascent
  <2> QED
    BY <2>4 DEF G
<1>8. f = [j \in 0 .. n |-> f[j]]
  <2>1. DOMAIN f = 0 .. n
    BY <1>5
  <2> QED
    BY <1>5
<1>9. f \in [0 .. n -> PyStates]
  BY <1>7, <1>8
<1> QED
  BY <1>5, <1>6, <1>9 DEF AssignsLeaves

(* Assigning a target leads to a state of Python.                          *)
LEMMA PyTargetType ==
    ASSUME NEW s \in PyStates, NEW t \in AllTargets, NEW o \in Objects
    PROVE  PyTarget(s, t, o) \in PyStates
<1>1. CASE Fits(t, o)
  <2>1. PICK f : AssignsLeaves(f, s, t, o) /\ PyTarget(s, t, o) = f[Len(t.leaves)]
    BY <1>1, PyTargetIs
  <2> QED
    BY <2>1, TargetIs DEF AssignsLeaves
<1>2. CASE ~ Fits(t, o)
  <2>1. PyTarget(s, t, o) = [s EXCEPT !.raised = TRUE]
    BY <1>2 DEF PyTarget
  <2> QED
    BY <2>1 DEF PyStates
<1> QED
  BY <1>1, <1>2

(* f is how the targets are assigned.                                       *)
AssignsTargets(f, s, ts, o) ==
    /\ f \in [0 .. Len(ts) -> PyStates] /\ f[0] = s
    /\ \A j \in 1 .. Len(ts) : f[j] = PyTarget(f[j - 1], ts[j], o)

(* PyAssign goes through such an f.                                        *)
LEMMA PyAssignIs ==
    ASSUME NEW s \in PyStates, NEW ts \in Targets, NEW e \in Values, Readable(e, s.scope)
    PROVE  \E f : /\ AssignsTargets(f, [s EXCEPT !.empties = @ + Calls(e)], ts, Evaluates(e, s.scope, s.empties))
                  /\ PyAssign(s, ts, e) = f[Len(ts)]
<1> DEFINE n == Len(ts)
           o == Evaluates(e, s.scope, s.empties)
           u == [s EXCEPT !.empties = @ + Calls(e)]
           H == [j \in 1 .. n |-> [x \in PyStates |-> PyTarget(x, ts[j], o)]]
           Down(f) == f = [j \in 0 .. n |-> IF j = 0 THEN u ELSE PyTarget(f[j - 1], ts[j], o)]
<1>1. n \in Nat /\ \A j \in 1 .. n : ts[j] \in AllTargets
  BY TargetsAre
<1>2. o \in Objects
  BY EvaluatesType DEF PyStates
<1>3. u \in PyStates
  BY CallsType DEF PyStates
<1>4. PyAssign(s, ts, e) = (LET after[j \in 0 .. n] == IF j = 0 THEN u ELSE PyTarget(after[j - 1], ts[j], o)
                            IN  after[n])
  BY DEF PyAssign
<1> HIDE DEF o, u
<1>5. H \in [1 .. n -> [PyStates -> PyStates]]
  BY <1>1, <1>2, PyTargetType
<1>6. \E f : Down(f)
  <2>1. PICK f \in [0 .. n -> PyStates] : Iterates(f, n, u, H)
    BY <1>1, <1>3, <1>5, IteratesExists
  <2>2. \A j \in 1 .. n : f[j - 1] \in PyStates /\ f[j] = H[j][f[j - 1]]
    BY <1>1, <2>1 DEF Iterates
  <2>3. \A j \in 1 .. n : f[j] = PyTarget(f[j - 1], ts[j], o)
    BY <2>2
  <2>4. f[0] = u
    BY <2>1 DEF Iterates
  <2> HIDE DEF H
  <2>5. \A j \in 0 .. n : f[j] = IF j = 0 THEN u ELSE PyTarget(f[j - 1], ts[j], o)
    BY <1>1, <2>3, <2>4
  <2>6. Down(f)
    BY <2>1, <2>5
  <2> QED
    BY <2>6
<1>7. PICK f : Down(f) /\ PyAssign(s, ts, e) = f[n]
  BY <1>4, <1>6
<1>8. f[0] = u /\ \A j \in 1 .. n : f[j] = PyTarget(f[j - 1], ts[j], o)
  BY <1>1, <1>7
<1>9. \A j \in 0 .. n : f[j] \in PyStates
  <2> DEFINE G == {j \in 0 .. n : f[j] \in PyStates}
  <2>1. 0 \in G
    BY <1>1, <1>3, <1>8
  <2>2. ASSUME NEW j \in 1 .. n, j - 1 \in G PROVE j \in G
    <3>1. PyTarget(f[j - 1], ts[j], o) \in PyStates
      BY <1>1, <1>2, <2>2, PyTargetType
    <3> QED
      BY <1>8, <3>1
  <2> HIDE DEF G
  <2>3. \A j \in 1 .. n : j - 1 \in G => j \in G
    BY <2>2
  <2>4. \A j \in 0 .. n : j \in G
    BY <1>1, <2>1, <2>3, Ascent
  <2> QED
    BY <2>4 DEF G
<1>10. f = [j \in 0 .. n |-> f[j]]
  <2>1. DOMAIN f = 0 .. n
    BY <1>7
  <2> QED
    BY <1>7
<1>11. f \in [0 .. n -> PyStates]
  BY <1>9, <1>10
<1> QED
  BY <1>7, <1>8, <1>11 DEF AssignsTargets, o, u

(***************************************************************************)
(* The rewritten statements on Python's objects: a machine that has         *)
(* Python's state and the temporaries, and runs a statement as the actions  *)
(* do, except that binding makes no tensor. o is the right-hand side.       *)
(***************************************************************************)
Groups == {g \in [leaves : Seq(TargetLeaf), ids : Seq(Int)] : DOMAIN g.ids = DOMAIN g.leaves /\ Apart(g.leaves)}
Stmts == [s : {"bind", "slice"}, t : TargetLeaf, e : Int]
           \cup [s : {"hide"}, t : TargetLeaf, e : Nat]
           \cup [s : {"unpack"}, t : Groups, e : Int]
           \cup [s : {"keep"}, t : AllTargets, e : {Rhs}]
Temps == UNION {[D -> Objects] : D \in SUBSET Int}
Machines == [py : PyStates, t : Temps]

Parts(ls, o) == [j \in DOMAIN ls |-> Part(o, ls[j].at)]
Acts(m, st, v, u) ==
    \/ /\ st.s = (IF st.t.k = "name" THEN "bind" ELSE "slice")
       /\ u.py = PyLeaf(m.py, st.t, v) /\ u.t = m.t
    \/ st.s = "hide" /\ u = m
    \/ st.s = "keep" /\ u.py = m.py /\ u.t = With(m.t, <<0>>, <<v>>)
    \/ st.s = "unpack" /\ Fits(st.t, v) /\ u.py = m.py /\ u.t = With(m.t, st.t.ids, Parts(st.t.leaves, v))
    \/ st.s = "unpack" /\ ~ Fits(st.t, v) /\ u.py = [m.py EXCEPT !.raised = TRUE] /\ u.t = m.t
Means(m, st, o) == IF st.e = Rhs THEN o ELSE m.t[st.e]
Moves(m, st, o, u) ==
    \/ m.py.raised /\ u = m
    \/ ~ m.py.raised /\ (st.e = Rhs \/ st.e \in DOMAIN m.t) /\ Acts(m, st, Means(m, st, o), u)

Leads(c, o, m, u) ==
    \E f \in [0 .. Len(c) -> Machines] :
       f[0] = m /\ f[Len(c)] = u /\ \A j \in 1 .. Len(c) : Moves(f[j - 1], c[j], o, f[j])

(* Runs of no statement, of one, of the first and the rest, of one code     *)
(* after another, and of statements that do nothing.                        *)
LEMMA LeadsNone ==
    ASSUME NEW o, NEW m, NEW u, Leads(<<>>, o, m, u)
    PROVE  u = m
BY EmptySeq DEF Leads

(* Statements that do nothing.                                             *)
LEMMA LeadsStay ==
    ASSUME NEW c \in Seq(Stmts), NEW o, NEW m \in Machines, \A j \in 1 .. Len(c) : Moves(m, c[j], o, m)
    PROVE  Leads(c, o, m, m)
<1> DEFINE f == [j \in 0 .. Len(c) |-> m]
<1>1. Len(c) \in Nat
  BY LenProperties
<1>2. f \in [0 .. Len(c) -> Machines] /\ f[0] = m /\ f[Len(c)] = m
  BY <1>1
<1>3. \A j \in 1 .. Len(c) : f[j - 1] = m /\ f[j] = m
  BY <1>1
<1>4. \A j \in 1 .. Len(c) : Moves(f[j - 1], c[j], o, f[j])
  BY <1>3
<1> HIDE DEF f
<1> QED
  BY <1>2, <1>4 DEF Leads

(* One statement.                                                          *)
LEMMA LeadsOne ==
    ASSUME NEW st \in Stmts, NEW o, NEW m \in Machines, NEW u \in Machines, Moves(m, st, o, u)
    PROVE  Leads(<<st>>, o, m, u)
<1> DEFINE f == [j \in 0 .. 1 |-> IF j = 0 THEN m ELSE u]
<1>1. Len(<<st>>) = 1 /\ <<st>>[1] = st
  OBVIOUS
<1>2. f \in [0 .. 1 -> Machines] /\ f[0] = m /\ f[1] = u
  OBVIOUS
<1> HIDE DEF f
<1>3. \A j \in 1 .. 1 : Moves(f[j - 1], <<st>>[j], o, f[j])
  <2> TAKE j \in 1 .. 1
  <2>1. j = 1 /\ j - 1 = 0
    OBVIOUS
  <2> QED
    BY <1>1, <1>2, <2>1
<1> QED
  BY <1>1, <1>2, <1>3 DEF Leads

(* The first statement, and then the rest.                                 *)
LEMMA LeadsFirst ==
    ASSUME NEW c \in Seq(Stmts), c # <<>>, NEW o, NEW m, NEW u, Leads(c, o, m, u)
    PROVE  /\ m \in Machines
           /\ \E v \in Machines : Moves(m, Head(c), o, v) /\ Leads(Tail(c), o, v, u)
<1> DEFINE n == Len(c)
<1>1. PICK f \in [0 .. n -> Machines] :
        f[0] = m /\ f[n] = u /\ \A j \in 1 .. n : Moves(f[j - 1], c[j], o, f[j])
  BY DEF Leads
<1>2. n \in Nat /\ n >= 1 /\ Head(c) = c[1]
  BY EmptySeq, LenProperties
<1>3. Tail(c) \in Seq(Stmts) /\ Len(Tail(c)) = n - 1 /\ \A j \in 1 .. n - 1 : Tail(c)[j] = c[j + 1]
  BY HeadTailProperties
<1> HIDE DEF n
<1>4. m \in Machines /\ f[1] \in Machines /\ Moves(m, Head(c), o, f[1])
  <2>1. 1 \in 1 .. n /\ 1 - 1 = 0 /\ 0 \in 0 .. n /\ 1 \in 0 .. n
    BY <1>2
  <2>2. Moves(f[1 - 1], c[1], o, f[1])
    BY <1>1, <2>1
  <2> QED
    BY <1>1, <1>2, <2>1, <2>2
<1> DEFINE g == [j \in 0 .. n - 1 |-> f[j + 1]]
<1>5. g \in [0 .. n - 1 -> Machines] /\ g[0] = f[1] /\ g[n - 1] = u
  <2>1. \A j \in 0 .. n - 1 : j + 1 \in 0 .. n
    BY <1>2
  <2>2. 0 \in 0 .. n - 1 /\ n - 1 \in 0 .. n - 1 /\ (n - 1) + 1 = n /\ 0 + 1 = 1
    BY <1>2
  <2> QED
    BY <1>1, <2>1, <2>2
<1>6. \A j \in 1 .. n - 1 : g[j - 1] = f[j] /\ g[j] = f[j + 1] /\ Moves(f[j], c[j + 1], o, f[j + 1])
  <2> TAKE j \in 1 .. n - 1
  <2>1. j - 1 \in 0 .. n - 1 /\ j \in 0 .. n - 1 /\ j - 1 + 1 = j /\ j + 1 \in 1 .. n /\ j + 1 - 1 = j
    BY <1>2
  <2>2. Moves(f[j + 1 - 1], c[j + 1], o, f[j + 1])
    BY <1>1, <2>1
  <2> QED
    BY <2>1, <2>2
<1> HIDE DEF g
<1>7. \A j \in 1 .. n - 1 : Moves(g[j - 1], Tail(c)[j], o, g[j])
  BY <1>3, <1>6
<1>8. Leads(Tail(c), o, f[1], u)
  BY <1>3, <1>5, <1>7 DEF Leads
<1> QED
  BY <1>4, <1>8

(* One code after another.                                                 *)
LEMMA LeadsTwice ==
    ASSUME NEW c \in Seq(Stmts), NEW d \in Seq(Stmts), NEW o, NEW m, NEW u, NEW v,
           Leads(c, o, m, u), Leads(d, o, u, v)
    PROVE  Leads(c \o d, o, m, v)
<1> DEFINE k == Len(c)
           n == Len(d)
<1>1. PICK f \in [0 .. k -> Machines] :
        f[0] = m /\ f[k] = u /\ \A j \in 1 .. k : Moves(f[j - 1], c[j], o, f[j])
  BY DEF Leads
<1>2. PICK g \in [0 .. n -> Machines] :
        g[0] = u /\ g[n] = v /\ \A j \in 1 .. n : Moves(g[j - 1], d[j], o, g[j])
  BY DEF Leads
<1>3. k \in Nat /\ n \in Nat /\ Len(c \o d) = k + n
      /\ \A i \in 1 .. k + n : (c \o d)[i] = IF i <= k THEN c[i] ELSE d[i - k]
  BY LenProperties, ConcatProperties
<1> HIDE DEF k, n
<1> DEFINE h == [j \in 0 .. k + n |-> IF j <= k THEN f[j] ELSE g[j - k]]
<1>0. \A j \in 0 .. k + n : h[j] = IF j <= k THEN f[j] ELSE g[j - k]
  OBVIOUS
<1>4. h \in [0 .. k + n -> Machines]
  <2>1. \A j \in 0 .. k + n : IF j <= k THEN j \in 0 .. k ELSE j - k \in 0 .. n
    BY <1>3
  <2> QED
    BY <1>1, <1>2, <2>1
<1> HIDE DEF h
<1>5. h[0] = m /\ h[k + n] = v
  <2>1. 0 \in 0 .. k + n /\ 0 <= k /\ k + n \in 0 .. k + n /\ (k + n) - k = n
    BY <1>3
  <2>2. h[0] = m
    BY <1>0, <1>1, <2>1
  <2>3. CASE n = 0
    <3>1. k + n = k /\ k <= k
      BY <1>3, <2>3
    <3>2. h[k + n] = f[k]
      BY <1>0, <2>1, <3>1
    <3> QED
      BY <1>1, <1>2, <2>2, <2>3, <3>2
  <2>4. CASE n # 0
    <3>1. ~ (k + n <= k)
      BY <1>3, <2>4
    <3>2. h[k + n] = IF k + n <= k THEN f[k + n] ELSE g[(k + n) - k]
      BY <1>0, <1>3, <2>1
    <3> QED
      BY <1>2, <2>1, <2>2, <3>1, <3>2
  <2> QED
    BY <2>3, <2>4
<1>6. ASSUME NEW j \in 1 .. k + n PROVE Moves(h[j - 1], (c \o d)[j], o, h[j])
  <2>1. CASE j <= k
    <3>1. j \in 1 .. k /\ j - 1 \in 0 .. k + n /\ j - 1 <= k /\ j \in 0 .. k + n
      BY <1>3, <2>1
    <3>2. h[j - 1] = f[j - 1] /\ h[j] = f[j] /\ (c \o d)[j] = c[j]
      BY <1>0, <1>3, <2>1, <3>1
    <3> QED
      BY <1>1, <3>1, <3>2
  <2>2. CASE ~ (j <= k)
    <3> DEFINE i == j - k
    <3>1. i \in 1 .. n /\ j - 1 \in 0 .. k + n /\ j \in 0 .. k + n /\ j - 1 - k = i - 1
          /\ (j - 1 <= k => j - 1 = k /\ i - 1 = 0)
      BY <1>3, <2>2
    <3>2. h[j] = g[i] /\ (c \o d)[j] = d[i]
      BY <1>0, <1>3, <2>2, <3>1
    <3>3. h[j - 1] = g[i - 1]
      <4>1. CASE j - 1 <= k
        BY <1>0, <1>1, <1>2, <3>1, <4>1
      <4>2. CASE ~ (j - 1 <= k)
        BY <1>0, <3>1, <4>2
      <4> QED
        BY <4>1, <4>2
    <3>4. Moves(g[i - 1], d[i], o, g[i])
      BY <1>2, <3>1
    <3> QED
      BY <3>2, <3>3, <3>4
  <2> QED
    BY <2>1, <2>2
<1> QED
  BY <1>3, <1>4, <1>5, <1>6 DEF Leads

(* What raised stays as it is.                                              *)
LEMMA LeadsRaised ==
    ASSUME NEW c \in Seq(Stmts), NEW o, NEW m, NEW u, Leads(c, o, m, u), m.py.raised
    PROVE  u = m
<1> DEFINE n == Len(c)
<1>1. PICK f \in [0 .. n -> Machines] :
        f[0] = m /\ f[n] = u /\ \A j \in 1 .. n : Moves(f[j - 1], c[j], o, f[j])
  BY DEF Leads
<1>2. n \in Nat
  BY LenProperties
<1> HIDE DEF n
<1> DEFINE G == {j \in 0 .. n : f[j] = m}
<1>3. 0 \in G
  BY <1>1, <1>2
<1>4. \A j \in 1 .. n : j - 1 \in G => j \in G
  <2> TAKE j \in 1 .. n
  <2>1. Moves(f[j - 1], c[j], o, f[j])
    BY <1>1
  <2> QED
    BY <2>1 DEF Moves
<1> HIDE DEF G
<1>5. \A j \in 0 .. n : j \in G
  BY <1>2, <1>3, <1>4, Ascent
<1> QED
  BY <1>1, <1>2, <1>5 DEF G

(***************************************************************************)
(* The code of a target assigns it.                                         *)
(***************************************************************************)
(* Temporaries, and what they hold.                                         *)
LEMMA TempsAre ==
    ASSUME NEW t
    PROVE  t \in Temps <=> /\ t = [i \in DOMAIN t |-> t[i]]
                           /\ DOMAIN t \subseteq Int
                           /\ \A i \in DOMAIN t : t[i] \in Objects
<1>1. ASSUME t \in Temps
      PROVE  t = [i \in DOMAIN t |-> t[i]] /\ DOMAIN t \subseteq Int /\ \A i \in DOMAIN t : t[i] \in Objects
  <2>1. PICK D \in SUBSET Int : t \in [D -> Objects]
    BY <1>1 DEF Temps
  <2> QED
    BY <2>1
<1>2. ASSUME t = [i \in DOMAIN t |-> t[i]], DOMAIN t \subseteq Int, \A i \in DOMAIN t : t[i] \in Objects
      PROVE  t \in Temps
  <2>1. t \in [DOMAIN t -> Objects]
    BY <1>2
  <2> QED
    BY <1>2, <2>1 DEF Temps
<1> QED
  BY <1>1, <1>2

(* The temporaries there were and the new ones.                            *)
LEMMA WithDomain ==
    ASSUME NEW old, NEW ids, NEW objs
    PROVE  DOMAIN With(old, ids, objs) = DOMAIN old \cup {ids[j] : j \in DOMAIN ids}
BY DEF With

(* A temporary that is not among the new ones keeps what it holds.         *)
LEMMA WithOld ==
    ASSUME NEW old, NEW ids, NEW objs, NEW i \in DOMAIN old, \A j \in DOMAIN ids : ids[j] # i
    PROVE  i \in DOMAIN With(old, ids, objs) /\ With(old, ids, objs)[i] = old[i]
<1>1. i \in DOMAIN old \cup {ids[j] : j \in DOMAIN ids} /\ ~ \E j \in DOMAIN ids : ids[j] = i
  OBVIOUS
<1> QED
  BY <1>1, WithDomain DEF With

(* A temporary that is named once holds what it is given.                  *)
LEMMA WithNew ==
    ASSUME NEW old, NEW ids, NEW objs, NEW j \in DOMAIN ids, \A h \in DOMAIN ids : ids[h] = ids[j] => h = j
    PROVE  ids[j] \in DOMAIN With(old, ids, objs) /\ With(old, ids, objs)[ids[j]] = objs[j]
<1> DEFINE i == ids[j]
           J == CHOOSE h \in DOMAIN ids : ids[h] = i
<1>1. i \in DOMAIN old \cup {ids[h] : h \in DOMAIN ids} /\ \E h \in DOMAIN ids : ids[h] = i
  OBVIOUS
<1>2. J \in DOMAIN ids /\ ids[J] = ids[j]
  BY <1>1
<1>3. J = j
  BY <1>2
<1>4. With(old, ids, objs)[i] = objs[J]
  <2>1. With(old, ids, objs)[i] = IF \E h \in DOMAIN ids : ids[h] = i THEN objs[J] ELSE old[i]
    <3> HIDE DEF i
    <3> QED
      BY <1>1 DEF With
  <2> QED
    BY <1>1, <2>1
<1> QED
  BY <1>1, <1>3, <1>4, WithDomain

(* Every temporary is an old or a new one.                                 *)
LEMMA WithFrom ==
    ASSUME NEW old, NEW ids, NEW objs, NEW i \in DOMAIN With(old, ids, objs)
    PROVE  \/ i \in DOMAIN old /\ With(old, ids, objs)[i] = old[i] /\ \A j \in DOMAIN ids : ids[j] # i
           \/ \E j \in DOMAIN ids : ids[j] = i /\ With(old, ids, objs)[i] = objs[j]
<1> DEFINE J == CHOOSE j \in DOMAIN ids : ids[j] = i
           W == With(old, ids, objs)
           D == DOMAIN old \cup {ids[j] : j \in DOMAIN ids}
<1>1. i \in D
  BY WithDomain
<1>2. W[i] = IF \E j \in DOMAIN ids : ids[j] = i THEN objs[J] ELSE old[i]
  BY <1>1 DEF With
<1>3. (\E j \in DOMAIN ids : ids[j] = i) => J \in DOMAIN ids /\ ids[J] = i
  OBVIOUS
<1> HIDE DEF J, W
<1>4. CASE \E j \in DOMAIN ids : ids[j] = i
  BY <1>2, <1>3, <1>4 DEF W
<1>5. CASE ~ \E j \in DOMAIN ids : ids[j] = i
  BY <1>1, <1>2, <1>5 DEF W
<1> QED
  BY <1>4, <1>5

(* They hold objects.                                                      *)
LEMMA WithType ==
    ASSUME NEW old \in Temps, NEW ids \in Seq(Int), NEW objs, \A j \in DOMAIN ids : objs[j] \in Objects
    PROVE  With(old, ids, objs) \in Temps
<1>1. \A i \in DOMAIN old : old[i] \in Objects /\ i \in Int
  BY TempsAre
<1>2. \A j \in DOMAIN ids : ids[j] \in Int
  BY LenProperties, ElementOfSeq
<1>3. With(old, ids, objs) = [i \in DOMAIN With(old, ids, objs) |-> With(old, ids, objs)[i]]
  BY DEF With
<1>4. DOMAIN With(old, ids, objs) \subseteq Int
  <2>1. DOMAIN old \cup {ids[j] : j \in DOMAIN ids} \subseteq Int
    BY <1>1, <1>2
  <2> QED
    BY <2>1, WithDomain
<1>5. ASSUME NEW i \in DOMAIN With(old, ids, objs) PROVE With(old, ids, objs)[i] \in Objects
  <2>1. \/ i \in DOMAIN old /\ With(old, ids, objs)[i] = old[i]
        \/ \E j \in DOMAIN ids : With(old, ids, objs)[i] = objs[j]
    BY WithFrom
  <2> QED
    BY <1>1, <2>1
<1> QED
  BY <1>3, <1>4, <1>5, TempsAre

(* The statements that assign t.                                            *)
LEMMA TemporariesAre ==
    ASSUME NEW t \in AllTargets, NEW base \in Nat
    PROVE  /\ Temporaries(t, base) \in Seq(Int) /\ DOMAIN Temporaries(t, base) = 1 .. Len(t.leaves)
           /\ \A j \in 1 .. Len(t.leaves) : Temporaries(t, base)[j] = base + j
<1>1. Temporaries(t, base) = [j \in 1 .. Len(t.leaves) |-> base + j] /\ Len(t.leaves) \in Nat
  BY TargetIs DEF Temporaries
<1>2. Temporaries(t, base) \in [1 .. Len(t.leaves) -> Int]
  BY <1>1
<1>3. Temporaries(t, base) \in Seq(Int)
  BY <1>1, <1>2, SeqDef
<1> QED
  BY <1>1, <1>3

HideAll(t, base) == [j \in 1 .. Len(t.leaves) |-> Stmt("hide", t.leaves[j], base + j)]
BindAll(t, base) == [j \in 1 .. Len(t.leaves) |-> Stmt("bind", t.leaves[j], base + j)]
UnpackOf(t, e, base) == Stmt("unpack", [leaves |-> t.leaves, ids |-> Temporaries(t, base)], e)

(* The code of a target: one statement for a leaf alone; for a tuple what  *)
(* unpacks, hides and binds.                                               *)
LEMMA EmitIs ==
    ASSUME NEW t \in AllTargets, NEW e \in Int, NEW base \in Nat
    PROVE  /\ HideAll(t, base) \in Seq(Stmts) /\ Len(HideAll(t, base)) = Len(t.leaves)
           /\ BindAll(t, base) \in Seq(Stmts) /\ Len(BindAll(t, base)) = Len(t.leaves)
           /\ UnpackOf(t, e, base) \in Stmts
           /\ IsTuple(t) => EmitAssignTarget(t, e, base)
                              = <<UnpackOf(t, e, base)>> \o HideAll(t, base) \o BindAll(t, base)
           /\ ~ IsTuple(t) => /\ Stmt(IF t.leaves[1].k = "name" THEN "bind" ELSE "slice", t.leaves[1], e) \in Stmts
                              /\ EmitAssignTarget(t, e, base)
                                  = <<Stmt(IF t.leaves[1].k = "name" THEN "bind" ELSE "slice", t.leaves[1], e)>>
<1> DEFINE n == Len(t.leaves)
<1>1. n \in Nat /\ n >= 1 /\ DOMAIN t.leaves = 1 .. n /\ t.leaves \in Seq(TargetLeaf)
      /\ \A j \in 1 .. n : t.leaves[j] \in TargetLeaf
  BY TargetIs
<1>2. \A j \in 1 .. n : base + j \in Nat /\ base + j \in Int
  BY <1>1
<1> HIDE DEF n
<1>3. \A j \in 1 .. n : Stmt("hide", t.leaves[j], base + j) \in Stmts /\ Stmt("bind", t.leaves[j], base + j) \in Stmts
  BY <1>1, <1>2 DEF Stmt, Stmts
<1>4. HideAll(t, base) \in [1 .. n -> Stmts] /\ BindAll(t, base) \in [1 .. n -> Stmts]
  BY <1>3 DEF HideAll, BindAll, n
<1>5. /\ HideAll(t, base) \in Seq(Stmts) /\ Len(HideAll(t, base)) = n
      /\ BindAll(t, base) \in Seq(Stmts) /\ Len(BindAll(t, base)) = n
  BY <1>1, <1>4, SeqDef, LenProperties
<1>6. UnpackOf(t, e, base) \in Stmts
  <2> DEFINE g == [leaves |-> t.leaves, ids |-> Temporaries(t, base)]
  <2>1. t.leaves \in Seq(TargetLeaf) /\ Apart(t.leaves)
    BY DEF AllTargets
  <2>2. g \in Groups
    BY <1>1, <2>1, TemporariesAre DEF Groups, n
  <2> HIDE DEF g
  <2>3. Stmt("unpack", g, e) \in Stmts
    BY <2>2 DEF Stmt, Stmts
  <2> QED
    BY <2>3 DEF UnpackOf, g
<1>7. ASSUME IsTuple(t)
      PROVE  EmitAssignTarget(t, e, base) = <<UnpackOf(t, e, base)>> \o HideAll(t, base) \o BindAll(t, base)
  <2>1. \A j \in 1 .. n : Temporaries(t, base)[j] = base + j
    BY TemporariesAre DEF n
  <2>2. /\ [j \in DOMAIN t.leaves |-> Stmt("hide", t.leaves[j], Temporaries(t, base)[j])] = HideAll(t, base)
        /\ [j \in DOMAIN t.leaves |-> Stmt("bind", t.leaves[j], Temporaries(t, base)[j])] = BindAll(t, base)
    BY <1>1, <2>1 DEF HideAll, BindAll, n
  <2> QED
    BY <1>7, <2>2 DEF EmitAssignTarget, UnpackOf
<1>8. Stmt(IF t.leaves[1].k = "name" THEN "bind" ELSE "slice", t.leaves[1], e) \in Stmts
  BY <1>1 DEF Stmt, Stmts
<1> QED
  BY <1>5, <1>6, <1>7, <1>8 DEF EmitAssignTarget, n

(* The code of target t runs as Python assigns to t, and leaves the         *)
(* temporaries up to base alone.                                            *)
LEMMA EmitLeads ==
    ASSUME NEW m \in Machines, NEW t \in AllTargets, Rewrites(t), NEW o \in Objects,
           NEW base \in Nat, NEW e \in Int, e = Rhs \/ e \in DOMAIN m.t,
           NEW v \in Objects, v = IF e = Rhs THEN o ELSE m.t[e]
    PROVE  \E u \in Machines : /\ Leads(EmitAssignTarget(t, e, base), o, m, u)
                               /\ u.py = PyTarget(m.py, t, v)
                               /\ \A i \in DOMAIN m.t : i <= base => i \in DOMAIN u.t /\ u.t[i] = m.t[i]
<1> DEFINE n == Len(t.leaves)
           ids == Temporaries(t, base)
           U == UnpackOf(t, e, base)
           Hs == HideAll(t, base)
           Bs == BindAll(t, base)
           code0 == EmitAssignTarget(t, e, base)
<1>1. /\ n \in Nat /\ n >= 1 /\ DOMAIN t.leaves = 1 .. n
      /\ \A j \in 1 .. n : t.leaves[j] \in TargetLeaf /\ t.leaves[j].at \in Places
      /\ \A i, j \in 1 .. n : IsPrefix(t.leaves[i].at, t.leaves[j].at) => i = j
  BY TargetIs
<1>2. m.py \in PyStates /\ m.t \in Temps
  BY DEF Machines
<1>3. PyTarget(m.py, t, v) \in PyStates
  BY <1>2, PyTargetType
<1>4. CASE m.py.raised
  <2>1. \A st : Moves(m, st, o, m)
    BY <1>4 DEF Moves
  <2>2. code0 \in Seq(Stmts)
    <3>1. CASE IsTuple(t)
      <4>1. U \in Stmts /\ Hs \in Seq(Stmts) /\ Bs \in Seq(Stmts) /\ code0 = <<U>> \o Hs \o Bs
        BY <3>1, EmitIs
      <4> HIDE DEF U, Hs, Bs, code0
      <4>2. <<U>> \in Seq(Stmts)
        BY <4>1
      <4>3. <<U>> \o Hs \in Seq(Stmts)
        BY <4>1, <4>2, ConcatProperties
      <4>4. <<U>> \o Hs \o Bs \in Seq(Stmts)
        BY <4>1, <4>3, ConcatProperties
      <4> QED
        BY <4>1, <4>4
    <3>2. CASE ~ IsTuple(t)
      <4> DEFINE st == Stmt(IF t.leaves[1].k = "name" THEN "bind" ELSE "slice", t.leaves[1], e)
      <4>1. st \in Stmts /\ code0 = <<st>>
        BY <3>2, EmitIs
      <4> HIDE DEF st, code0
      <4> QED
        BY <4>1
    <3> QED
      BY <3>1, <3>2
  <2>3. Leads(code0, o, m, m)
    BY <2>1, <2>2, LeadsStay
  <2>4. PyTarget(m.py, t, v) = m.py
    <3>1. CASE ~ Fits(t, v)
      <4>1. PyTarget(m.py, t, v) = [m.py EXCEPT !.raised = TRUE]
        BY <3>1 DEF PyTarget
      <4> QED
        BY <1>2, <1>4, <4>1 DEF PyStates
    <3>2. CASE Fits(t, v)
      <4>1. PICK f : AssignsLeaves(f, m.py, t, v) /\ PyTarget(m.py, t, v) = f[n]
        BY <1>2, <3>2, PyTargetIs
      <4> DEFINE G == {j \in 0 .. n : f[j] = m.py}
      <4>2. 0 \in G
        BY <1>1, <4>1 DEF AssignsLeaves
      <4>3. ASSUME NEW j \in 1 .. n, j - 1 \in G PROVE j \in G
        <5>1. f[j] = PyLeaf(f[j - 1], t.leaves[j], Part(v, t.leaves[j].at)) /\ f[j - 1] = m.py
          BY <4>1, <4>3 DEF AssignsLeaves
        <5>2. Part(v, t.leaves[j].at) \in Objects
          BY <1>1, <3>2, FitsParts
        <5>3. f[j] = m.py
          BY <1>1, <1>2, <1>4, <5>1, <5>2, PyLeafType
        <5> QED
          BY <5>3
      <4> HIDE DEF G
      <4>4. \A j \in 1 .. n : j - 1 \in G => j \in G
        BY <4>3
      <4>5. \A j \in 0 .. n : j \in G
        BY <1>1, <4>2, <4>4, Ascent
      <4> QED
        BY <1>1, <4>1, <4>5 DEF G
    <3> QED
      BY <3>1, <3>2
  <2> QED
    BY <2>3, <2>4
<1>5. CASE ~ m.py.raised /\ ~ IsTuple(t)
  <2> DEFINE l == t.leaves[1]
             st == Stmt(IF l.k = "name" THEN "bind" ELSE "slice", l, e)
             u == [py |-> PyLeaf(m.py, l, v), t |-> m.t]
  <2>1. st \in Stmts /\ code0 = <<st>> /\ l \in TargetLeaf /\ l.at = <<>>
    <3>1. st \in Stmts /\ code0 = <<st>>
      BY <1>5, EmitIs
    <3>2. l \in TargetLeaf /\ l.at = <<>>
      BY <1>1, <1>5 DEF IsTuple
    <3> QED
      BY <3>1, <3>2
  <2>2. u \in Machines
    BY <1>2, <2>1, PyLeafType DEF Machines
  <2>3. st.s = (IF l.k = "name" THEN "bind" ELSE "slice") /\ st.t = l /\ st.e = e
    BY DEF Stmt
  <2>4. u.py = PyLeaf(m.py, l, v) /\ u.t = m.t
    OBVIOUS
  <2> HIDE DEF st, u, l
  <2>5. Means(m, st, o) = v
    BY <2>3 DEF Means
  <2>6. Acts(m, st, v, u)
    BY <2>3, <2>4 DEF Acts
  <2>7. Moves(m, st, o, u)
    BY <1>5, <2>3, <2>5, <2>6 DEF Moves
  <2>8. Leads(code0, o, m, u)
    BY <2>1, <2>2, <2>7, LeadsOne
  <2>9. n = 1
    <3>1. \A j \in 1 .. n : IsPrefix(<<>>, t.leaves[j].at)
      BY <1>1, WholePlace
    <3>2. 1 \in 1 .. n /\ n \in 1 .. n /\ IsPrefix(t.leaves[1].at, t.leaves[n].at)
      BY <1>1, <2>1, <3>1 DEF l
    <3> QED
      BY <1>1, <3>2
  <2>10. Fits(t, v)
    <3>1. DOMAIN v # {} /\ DOMAIN v \subseteq Places
      BY ObjectIs
    <3>2. \A p \in DOMAIN v : IsPrefix(<<>>, p)
      BY <3>1, WholePlace
    <3>3. DOMAIN t.leaves = {1} /\ t.leaves[1].at = <<>>
      BY <1>1, <2>1, <2>9 DEF l
    <3> QED
      BY <3>1, <3>2, <3>3 DEF Fits
  <2>11. PyTarget(m.py, t, v) = u.py
    <3>1. PICK f : AssignsLeaves(f, m.py, t, v) /\ PyTarget(m.py, t, v) = f[n]
      BY <1>2, <2>10, PyTargetIs
    <3>2. f[0] = m.py /\ f[1] = PyLeaf(f[1 - 1], t.leaves[1], Part(v, t.leaves[1].at))
      BY <2>9, <3>1 DEF AssignsLeaves
    <3>3. Part(v, <<>>) = v
      BY WholePart
    <3> QED
      BY <2>1, <2>4, <2>9, <3>1, <3>2, <3>3 DEF l
  <2> QED
    BY <2>2, <2>4, <2>8, <2>11
<1>6. CASE ~ m.py.raised /\ IsTuple(t)
  <2>1. <<U>> \in Seq(Stmts) /\ U \in Stmts /\ Hs \in Seq(Stmts) /\ Bs \in Seq(Stmts) /\ Len(Hs) = n /\ Len(Bs) = n
        /\ code0 = <<U>> \o Hs \o Bs
    BY <1>6, EmitIs
  <2>2. U.s = "unpack" /\ U.e = e /\ U.t.leaves = t.leaves /\ U.t.ids = ids
    BY DEF UnpackOf, Stmt
  <2>3. Means(m, U, o) = v /\ (Fits(U.t, v) <=> Fits(t, v))
    BY <2>2 DEF Means, Fits
  <2>4. <<U>> \o Hs \in Seq(Stmts)
    BY <2>1, ConcatProperties
  <2>5. CASE ~ Fits(t, v)
    <3> DEFINE u == [py |-> [m.py EXCEPT !.raised = TRUE], t |-> m.t]
    <3>1. u \in Machines /\ u.py.raised /\ u.py = [m.py EXCEPT !.raised = TRUE] /\ u.t = m.t
      BY <1>2 DEF Machines, PyStates
    <3> HIDE DEF u
    <3>2. Acts(m, U, v, u)
      BY <2>2, <2>3, <2>5, <3>1 DEF Acts
    <3>3. Moves(m, U, o, u)
      BY <1>6, <2>2, <2>3, <3>2 DEF Moves
    <3>4. Leads(<<U>>, o, m, u)
      BY <2>1, <3>1, <3>3, LeadsOne
    <3>5. \A st : Moves(u, st, o, u)
      BY <3>1 DEF Moves
    <3>6. Leads(Hs, o, u, u) /\ Leads(Bs, o, u, u)
      BY <2>1, <3>1, <3>5, LeadsStay
    <3>7. Leads(<<U>> \o Hs, o, m, u)
      BY <2>1, <3>4, <3>6, LeadsTwice
    <3>8. Leads(code0, o, m, u)
      BY <2>1, <2>4, <3>6, <3>7, LeadsTwice
    <3>9. u.py = PyTarget(m.py, t, v)
      BY <2>5, <3>1 DEF PyTarget
    <3> QED
      BY <3>1, <3>8, <3>9
  <2>6. CASE Fits(t, v)
    <3> DEFINE w == With(m.t, ids, Parts(t.leaves, v))
               u == [py |-> m.py, t |-> w]
    <3>1. ids \in Seq(Int) /\ DOMAIN ids = 1 .. n /\ \A j \in 1 .. n : ids[j] = base + j
      BY TemporariesAre
    <3>2. \A j \in 1 .. n : Parts(t.leaves, v)[j] = Part(v, t.leaves[j].at) /\ Part(v, t.leaves[j].at) \in Objects
      BY <1>1, <2>6, FitsParts DEF Parts
    <3> HIDE DEF ids
    <3>3. w \in Temps
      BY <1>2, <3>1, <3>2, WithType
    <3>4. \A j \in 1 .. n : base + j \in DOMAIN w /\ w[base + j] = Part(v, t.leaves[j].at)
      <4> TAKE j \in 1 .. n
      <4>1. \A h \in DOMAIN ids : ids[h] = ids[j] => h = j
        BY <1>1, <3>1
      <4>2. j \in DOMAIN ids
        BY <3>1
      <4>3. ids[j] \in DOMAIN w /\ w[ids[j]] = Parts(t.leaves, v)[j]
        BY <4>1, <4>2, WithNew
      <4> QED
        BY <3>1, <3>2, <4>2, <4>3
    <3>5. \A i \in DOMAIN m.t : i <= base => i \in DOMAIN w /\ w[i] = m.t[i]
      <4> TAKE i \in DOMAIN m.t
      <4> HAVE i <= base
      <4>1. i \in Int
        BY <1>2, TempsAre
      <4>2. \A j \in DOMAIN ids : ids[j] # i
        BY <1>1, <3>1, <4>1
      <4> QED
        BY <4>2, WithOld
    <3>6. u \in Machines /\ u.py = m.py /\ u.t = w
      BY <1>2, <3>3 DEF Machines
    <3> HIDE DEF u, w
    <3>7. Acts(m, U, v, u)
      BY <2>2, <2>3, <2>6, <3>6 DEF Acts, w
    <3>8. Moves(m, U, o, u)
      BY <1>6, <2>2, <2>3, <3>7 DEF Moves
    <3>9. Leads(<<U>>, o, m, u)
      BY <2>1, <3>6, <3>8, LeadsOne
    <3>10. \A j \in 1 .. n : Moves(u, Hs[j], o, u)
      <4> TAKE j \in 1 .. n
      <4>1. Hs[j].s = "hide" /\ Hs[j].e = base + j
        BY DEF HideAll, Stmt
      <4>2. Acts(u, Hs[j], Means(u, Hs[j], o), u)
        BY <4>1 DEF Acts
      <4> QED
        BY <1>6, <3>4, <3>6, <4>1, <4>2 DEF Moves
    <3>11. Leads(Hs, o, u, u)
      BY <2>1, <3>6, <3>10, LeadsStay
    <3>12. PICK f : AssignsLeaves(f, m.py, t, v) /\ PyTarget(m.py, t, v) = f[n]
      BY <1>2, <2>6, PyTargetIs
    <3> DEFINE g == [j \in 0 .. n |-> [py |-> f[j], t |-> w]]
    <3>13. g \in [0 .. n -> Machines] /\ g[0] = u /\ g[n].py = f[n] /\ g[n].t = w /\ g[n] \in Machines
      <4>1. \A j \in 0 .. n : f[j] \in PyStates
        BY <3>12 DEF AssignsLeaves
      <4>2. \A j \in 0 .. n : g[j] \in Machines /\ g[j].py = f[j] /\ g[j].t = w
        BY <3>3, <4>1 DEF Machines
      <4>3. g[0] = u
        BY <1>1, <3>12 DEF AssignsLeaves, u
      <4>4. 0 \in 0 .. n /\ n \in 0 .. n
        BY <1>1
      <4>5. g \in [0 .. n -> Machines]
        BY <4>2
      <4> HIDE DEF g
      <4> QED
        BY <4>2, <4>3, <4>4, <4>5
    <3>14. \A j \in 1 .. n : Moves(g[j - 1], Bs[j], o, g[j])
      <4> TAKE j \in 1 .. n
      <4> DEFINE st == Bs[j]
                 a == g[j - 1]
                 b == g[j]
                 l == t.leaves[j]
      <4>1. st.s = "bind" /\ st.e = base + j /\ st.t = l
        BY DEF BindAll, Stmt
      <4>2. l.k = "name"
        BY <1>1, <1>6 DEF Rewrites
      <4>3. a.py = f[j - 1] /\ a.t = w /\ b.py = f[j] /\ b.t = w
        BY <1>1
      <4>4. f[j] = PyLeaf(f[j - 1], l, Part(v, l.at)) /\ f[j - 1] \in PyStates
        <5>1. j - 1 \in 0 .. n
          BY <1>1
        <5> HIDE DEF n
        <5> QED
          BY <3>12, <5>1 DEF AssignsLeaves, n
      <4>5. st.e # Rhs
        BY <1>1, <4>1 DEF Rhs
      <4>10. base + j \in DOMAIN w /\ w[base + j] = Part(v, l.at)
        BY <3>4
      <4> SUFFICES Moves(a, st, o, b)
        OBVIOUS
      <4> HIDE DEF st, a, b, g, l
      <4>6. Means(a, st, o) = Part(v, l.at) /\ st.e \in DOMAIN a.t
        BY <4>1, <4>3, <4>5, <4>10 DEF Means
      <4>7. Acts(a, st, Part(v, l.at), b)
        BY <4>1, <4>2, <4>3, <4>4 DEF Acts
      <4>8. CASE ~ a.py.raised
        BY <4>6, <4>7, <4>8 DEF Moves
      <4>9. CASE a.py.raised
        <5>1. f[j] = f[j - 1]
          BY <4>3, <4>4, <4>9 DEF PyLeaf
        <5>2. a = b
          BY <1>1, <5>1 DEF a, b, g
        <5> QED
          BY <4>9, <5>2 DEF Moves
      <4> QED
        BY <4>8, <4>9
    <3> HIDE DEF g
    <3>15. Leads(Bs, o, u, g[n])
      BY <2>1, <3>13, <3>14 DEF Leads
    <3>16. Leads(<<U>> \o Hs, o, m, u)
      BY <2>1, <3>9, <3>11, LeadsTwice
    <3>17. Leads(code0, o, m, g[n])
      BY <2>1, <2>4, <3>15, <3>16, LeadsTwice
    <3> QED
      BY <3>5, <3>12, <3>13, <3>17
  <2> QED
    BY <2>5, <2>6
<1> QED
  BY <1>4, <1>5, <1>6

(***************************************************************************)
(* The code of a whole assignment.                                          *)
(***************************************************************************)
(* An unpacking, of the right-hand side or of temporary 0, is followed by   *)
(* what hides the temporaries it fills, and these are others than 0.        *)
Follows(c, i) ==
    c[i].s = "unpack" =>
      /\ c[i].e \in {Rhs, 0}
      /\ \A j \in DOMAIN c[i].t.ids : /\ c[i].t.ids[j] # 0 /\ i + j <= Len(c)
                                      /\ c[i + j].s = "hide" /\ c[i + j].e = c[i].t.ids[j]
Hides(c) == \A i \in 1 .. Len(c) : Follows(c, i)
NoRhs(c) == \A i \in 1 .. Len(c) : c[i].e # Rhs
RhsFirst(c) == \A i \in 2 .. Len(c) : c[i].e # Rhs

(* So is one code after another.                                           *)
LEMMA HidesBoth ==
    ASSUME NEW c \in Seq(Stmts), NEW d \in Seq(Stmts), Hides(c), Hides(d)
    PROVE  Hides(c \o d)
<1> DEFINE k == Len(c)
           n == Len(d)
<1>1. k \in Nat /\ n \in Nat /\ Len(c \o d) = k + n
      /\ \A i \in 1 .. k + n : (c \o d)[i] = IF i <= k THEN c[i] ELSE d[i - k]
  BY LenProperties, ConcatProperties
<1>2. \A st \in Stmts : st.s = "unpack" => st.t.ids \in Seq(Int)
  BY DEF Stmts, Groups
<1>3. (\A i \in 1 .. k : c[i] \in Stmts) /\ \A i \in 1 .. n : d[i] \in Stmts
  BY ElementOfSeq
<1>4. \A ids \in Seq(Int) : \A j \in DOMAIN ids : j \in Nat /\ j >= 1
  BY LenProperties
<1>5. ASSUME NEW i \in 1 .. k + n, (c \o d)[i].s = "unpack"
      PROVE  /\ (c \o d)[i].e \in {Rhs, 0}
             /\ \A j \in DOMAIN (c \o d)[i].t.ids :
                  /\ (c \o d)[i].t.ids[j] # 0 /\ i + j <= k + n
                  /\ (c \o d)[i + j].s = "hide" /\ (c \o d)[i + j].e = (c \o d)[i].t.ids[j]
  <2>1. CASE i <= k
    <3>1. i \in 1 .. k /\ (c \o d)[i] = c[i]
      BY <1>1, <2>1
    <3>2. c[i].s = "unpack" /\ Follows(c, i)
      BY <1>5, <3>1 DEF Hides
    <3>3. ASSUME NEW j \in DOMAIN c[i].t.ids
          PROVE  /\ c[i].t.ids[j] # 0 /\ i + j <= k + n
                 /\ (c \o d)[i + j].s = "hide" /\ (c \o d)[i + j].e = c[i].t.ids[j]
      <4>1. c[i].t.ids[j] # 0 /\ i + j <= k /\ c[i + j].s = "hide" /\ c[i + j].e = c[i].t.ids[j]
        BY <3>2 DEF Follows
      <4>2. j \in Nat /\ j >= 1
        BY <1>2, <1>3, <1>4, <3>1, <3>2
      <4>3. i + j \in 1 .. k + n /\ (c \o d)[i + j] = c[i + j]
        BY <1>1, <4>1, <4>2
      <4> QED
        BY <1>1, <4>1, <4>3
    <3> QED
      BY <3>1, <3>2, <3>3 DEF Follows
  <2>2. CASE ~ (i <= k)
    <3> DEFINE h == i - k
    <3>1. h \in 1 .. n /\ i = h + k /\ (c \o d)[i] = d[h]
      BY <1>1, <2>2
    <3> HIDE DEF h
    <3>2. d[h].s = "unpack" /\ Follows(d, h)
      BY <1>5, <3>1 DEF Hides
    <3>3. ASSUME NEW j \in DOMAIN d[h].t.ids
          PROVE  /\ d[h].t.ids[j] # 0 /\ i + j <= k + n
                 /\ (c \o d)[i + j].s = "hide" /\ (c \o d)[i + j].e = d[h].t.ids[j]
      <4>1. d[h].t.ids[j] # 0 /\ h + j <= n /\ d[h + j].s = "hide" /\ d[h + j].e = d[h].t.ids[j]
        BY <3>2 DEF Follows
      <4>2. j \in Nat /\ j >= 1
        BY <1>2, <1>3, <1>4, <3>1, <3>2
      <4>3. i + j \in 1 .. k + n /\ ~ (i + j <= k) /\ (i + j) - k = h + j
        <5> HIDE DEF k, n
        <5>1. h \in Nat /\ h >= 1 /\ h + j <= n /\ k \in Nat /\ n \in Nat
          BY <1>1, <3>1, <4>1 DEF n
        <5> QED
          BY <3>1, <4>2, <5>1
      <4> DEFINE x == i + j
                 y == h + j
      <4>4. x \in 1 .. k + n /\ ~ (x <= k) /\ x - k = y
        BY <4>3
      <4>5. (c \o d)[x] = d[y]
        <5> HIDE DEF x, y, k, n
        <5> QED
          BY <1>1, <4>4
      <4>6. i + j <= k + n
        BY <4>3
      <4>7. d[h].t.ids[j] # 0 /\ d[y].s = "hide" /\ d[y].e = d[h].t.ids[j]
        BY <4>1
      <4>8. (c \o d)[x].s = "hide" /\ (c \o d)[x].e = d[h].t.ids[j]
        <5> HIDE DEF x, y
        <5> QED
          BY <4>5, <4>7
      <4> QED
        BY <4>6, <4>7, <4>8
    <3> QED
      BY <3>1, <3>2, <3>3 DEF Follows
  <2> QED
    BY <2>1, <2>2
<1> HIDE DEF k, n
<1> QED
  BY <1>1, <1>5 DEF Hides, Follows

(* Neither of two codes reads the right-hand side, so both together do     *)
(* not.                                                                    *)
LEMMA NoRhsBoth ==
    ASSUME NEW c \in Seq(Stmts), NEW d \in Seq(Stmts), NoRhs(d)
    PROVE  /\ NoRhs(c) => NoRhs(c \o d)
           /\ RhsFirst(c) /\ c # <<>> => RhsFirst(c \o d) /\ (c \o d)[1] = c[1] /\ c \o d # <<>>
<1> DEFINE k == Len(c)
           n == Len(d)
<1>1. k \in Nat /\ n \in Nat /\ Len(c \o d) = k + n
      /\ \A i \in 1 .. k + n : (c \o d)[i] = IF i <= k THEN c[i] ELSE d[i - k]
  BY LenProperties, ConcatProperties
<1> HIDE DEF k, n
<1>2. \A i \in 1 .. k + n : ~ (i <= k) => (c \o d)[i].e # Rhs
  <2> TAKE i \in 1 .. k + n
  <2> HAVE ~ (i <= k)
  <2>1. i - k \in 1 .. n /\ (c \o d)[i] = d[i - k]
    BY <1>1
  <2> QED
    BY <2>1 DEF NoRhs, n
<1>3. ASSUME NoRhs(c) PROVE NoRhs(c \o d)
  <2>1. \A i \in 1 .. k + n : (c \o d)[i].e # Rhs
    BY <1>1, <1>2, <1>3 DEF NoRhs, k
  <2> QED
    BY <1>1, <2>1 DEF NoRhs
<1>4. ASSUME RhsFirst(c), c # <<>> PROVE RhsFirst(c \o d) /\ (c \o d)[1] = c[1] /\ c \o d # <<>>
  <2>1. k >= 1
    BY <1>1, <1>4, EmptySeq DEF k
  <2>2. \A i \in 2 .. k + n : (c \o d)[i].e # Rhs
    <3> TAKE i \in 2 .. k + n
    <3>1. i \in 1 .. k + n /\ (i <= k => i \in 2 .. k)
      BY <1>1
    <3> QED
      BY <1>1, <1>2, <1>4, <3>1 DEF RhsFirst, k
  <2>3. (c \o d)[1] = c[1] /\ Len(c \o d) # 0
    BY <1>1, <2>1
  <2>4. c \o d # <<>>
    BY <2>3, EmptySeq
  <2> QED
    BY <1>1, <2>2, <2>3, <2>4 DEF RhsFirst
<1> QED
  BY <1>3, <1>4

(* The code of a target reads the right-hand side first or not at all, and *)
(* hides what it unpacks.                                                  *)
LEMMA EmitShape ==
    ASSUME NEW t \in AllTargets, NEW e \in {Rhs, 0}, NEW base \in Nat
    PROVE  LET c == EmitAssignTarget(t, e, base)
           IN  /\ c \in Seq(Stmts) /\ c # <<>> /\ c[1].e = e
               /\ RhsFirst(c) /\ Hides(c)
               /\ e # Rhs => NoRhs(c)
<1> DEFINE c == EmitAssignTarget(t, e, base)
           n == Len(t.leaves)
           U == UnpackOf(t, e, base)
           Hs == HideAll(t, base)
           Bs == BindAll(t, base)
           ids == Temporaries(t, base)
<1>1. e \in Int
  BY DEF Rhs
<1>2. CASE ~ IsTuple(t)
  <2> DEFINE st == Stmt(IF t.leaves[1].k = "name" THEN "bind" ELSE "slice", t.leaves[1], e)
  <2>1. st \in Stmts /\ c = <<st>> /\ st.e = e /\ st.s # "unpack"
    BY <1>1, <1>2, EmitIs DEF Stmt
  <2> HIDE DEF st, c
  <2>2. c \in Seq(Stmts) /\ c # <<>> /\ Len(c) = 1 /\ c[1] = st
    BY <2>1
  <2>3. RhsFirst(c) /\ Hides(c) /\ (e # Rhs => NoRhs(c))
    BY <2>1, <2>2 DEF RhsFirst, Hides, Follows, NoRhs
  <2> QED
    BY <2>1, <2>2, <2>3 DEF c
<1>3. CASE IsTuple(t)
  <2>1. n \in Nat /\ n >= 1
    BY TargetIs
  <2>2. U \in Stmts /\ Hs \in Seq(Stmts) /\ Len(Hs) = n /\ Bs \in Seq(Stmts) /\ Len(Bs) = n
        /\ c = <<U>> \o Hs \o Bs
    BY <1>1, <1>3, EmitIs
  <2>3. U.s = "unpack" /\ U.e = e /\ U.t.ids = ids
    BY DEF UnpackOf, Stmt
  <2>4. DOMAIN ids = 1 .. n /\ \A j \in 1 .. n : ids[j] = base + j /\ ids[j] # 0 /\ ids[j] # Rhs
    <3>1. DOMAIN ids = 1 .. n /\ \A j \in 1 .. n : ids[j] = base + j
      BY TemporariesAre
    <3> HIDE DEF ids, n
    <3> QED
      BY <2>1, <3>1 DEF Rhs
  <2>5. \A j \in 1 .. n : Hs[j].s = "hide" /\ Hs[j].e = base + j /\ Bs[j].s = "bind" /\ Bs[j].e = base + j
    BY DEF HideAll, BindAll, Stmt
  <2> DEFINE a == <<U>> \o Hs
  <2> HIDE DEF n, U, Hs, Bs, ids, c
  <2>6. <<U>> \in Seq(Stmts) /\ Len(<<U>>) = 1 /\ <<U>>[1] = U /\ <<U>> # <<>>
    BY <2>2
  <2>7. a \in Seq(Stmts) /\ Len(a) = 1 + n /\ \A i \in 1 .. 1 + n : a[i] = IF i <= 1 THEN <<U>>[i] ELSE Hs[i - 1]
    BY <2>2, <2>6, ConcatProperties
  <2> HIDE DEF a
  <2>8. a[1] = U /\ \A j \in 1 .. n : 1 + j \in 1 .. 1 + n /\ a[1 + j] = Hs[j]
    BY <2>1, <2>6, <2>7
  <2>9. NoRhs(Hs) /\ NoRhs(Bs)
    BY <2>2, <2>4, <2>5 DEF NoRhs
  <2>10. Hides(Bs)
    BY <2>2, <2>5 DEF Hides, Follows
  <2>11. Hides(a)
    <3> SUFFICES ASSUME NEW i \in 1 .. 1 + n PROVE Follows(a, i)
      BY <2>7 DEF Hides
    <3>1. CASE i = 1
      <4>1. \A j \in 1 .. n : 1 + j <= 1 + n /\ a[1 + j].s = "hide" /\ a[1 + j].e = ids[j] /\ ids[j] # 0
        BY <2>4, <2>5, <2>8
      <4> QED
        BY <2>3, <2>4, <2>7, <2>8, <3>1, <4>1 DEF Follows
    <3>2. CASE i # 1
      <4>1. i - 1 \in 1 .. n /\ i = 1 + (i - 1)
        BY <2>1, <3>2
      <4>2. a[i].s = "hide"
        BY <2>5, <2>8, <4>1
      <4> QED
        BY <4>2 DEF Follows
    <3> QED
      BY <3>1, <3>2
  <2>12. RhsFirst(<<U>>) /\ (e # Rhs => NoRhs(<<U>>))
    BY <2>3, <2>6 DEF RhsFirst, NoRhs
  <2>13. RhsFirst(a) /\ a # <<>> /\ (e # Rhs => NoRhs(a))
    BY <2>2, <2>6, <2>9, <2>12, NoRhsBoth DEF a
  <2>14. c = a \o Bs /\ c \in Seq(Stmts)
    BY <2>2, <2>7, ConcatProperties DEF a
  <2>15. RhsFirst(c) /\ c # <<>> /\ c[1] = a[1] /\ (e # Rhs => NoRhs(c))
    <3>1. RhsFirst(a \o Bs) /\ a \o Bs # <<>> /\ (a \o Bs)[1] = a[1] /\ (NoRhs(a) => NoRhs(a \o Bs))
      BY <2>2, <2>7, <2>9, <2>13, NoRhsBoth
    <3> QED
      BY <2>13, <2>14, <3>1
  <2>16. Hides(c)
    BY <2>2, <2>7, <2>10, <2>11, <2>14, HidesBoth
  <2> QED
    BY <2>3, <2>8, <2>14, <2>15, <2>16 DEF c
<1> QED
  BY <1>2, <1>3

(* Sequences one after another, as the community modules append them.       *)
Flattens(f, ss, n, S) ==
    /\ f \in [0 .. n -> Seq(S)] /\ f[0] = <<>> /\ FlattenSeq(ss) = f[n]
    /\ \A j \in 1 .. n : f[j] = f[j - 1] \o ss[j]

(* FlattenSeq goes through such an f.                                      *)
LEMMA FlattenIs ==
    ASSUME NEW S, NEW n \in Nat, n >= 1, NEW ss \in [1 .. n -> Seq(S)]
    PROVE  \E f : Flattens(f, ss, n, S)
<1> DEFINE Q == Seq(S)
           H == [j \in 1 .. n |-> [x \in Q |-> x \o ss[j]]]
           Down(h) == h = [i \in 1 .. n |-> IF i = 1 THEN ss[i] ELSE h[i - 1] \o ss[i]]
<1>0. Len(ss) = n /\ \A j \in 1 .. n : ss[j] \in Seq(S)
  <2>1. ss \in Seq(Seq(S))
    BY SeqDef
  <2>2. DOMAIN ss = 1 .. n /\ DOMAIN ss = 1 .. Len(ss) /\ Len(ss) \in Nat
    BY <2>1, LenProperties
  <2> QED
    BY <2>2
<1>1. H \in [1 .. n -> [Q -> Q]] /\ <<>> \in Q
  <2>1. \A j \in 1 .. n : \A x \in Q : x \o ss[j] \in Q
    BY <1>0, ConcatProperties
  <2> QED
    BY <2>1, EmptySeq
<1>2. PICK f \in [0 .. n -> Q] : Iterates(f, n, <<>>, H)
  <2> HIDE DEF H, Q
  <2> QED
    BY <1>1, IteratesExists
<1>3. \A j \in 1 .. n : f[j - 1] \in Q /\ f[j] = H[j][f[j - 1]]
  <2> HIDE DEF H, Q
  <2>1. \A j \in 1 .. n : j - 1 \in 0 .. n
    OBVIOUS
  <2> QED
    BY <1>2, <2>1 DEF Iterates
<1>4. f[0] = <<>> /\ \A j \in 1 .. n : f[j] = f[j - 1] \o ss[j]
  BY <1>2, <1>3 DEF Iterates
<1>5. f[1] = ss[1]
  <2>1. 1 \in 1 .. n /\ 1 - 1 = 0
    OBVIOUS
  <2>2. f[1] = <<>> \o ss[1]
    BY <1>4, <2>1
  <2> QED
    BY <1>0, <2>1, <2>2, ConcatEmptySeq
<1> HIDE DEF H
<1>6. \E h : Down(h)
  <2> DEFINE h == [i \in 1 .. n |-> f[i]]
  <2>1. \A i \in 1 .. n : i # 1 => i - 1 \in 1 .. n /\ h[i - 1] = f[i - 1]
    OBVIOUS
  <2>2. \A i \in 1 .. n : h[i] = IF i = 1 THEN ss[i] ELSE h[i - 1] \o ss[i]
    BY <1>4, <1>5, <2>1
  <2>3. h = [i \in 1 .. n |-> h[i]]
    OBVIOUS
  <2> HIDE DEF h
  <2>4. [i \in 1 .. n |-> h[i]] = [i \in 1 .. n |-> IF i = 1 THEN ss[i] ELSE h[i - 1] \o ss[i]]
    BY <2>2
  <2>5. Down(h)
    BY <2>3, <2>4
  <2> QED
    BY <2>5
<1>7. PICK h : Down(h) /\ FlattenSeq(ss) = h[n]
  <2>1. Len(ss) # 0 /\ Len(ss) = n
    BY <1>0
  <2>2. FlattenSeq(ss) = (LET flatten[i \in 1 .. n] == IF i = 1 THEN ss[i] ELSE flatten[i - 1] \o ss[i]
                          IN  flatten[n])
    BY <2>1, Zenon DEF FlattenSeq
  <2> QED
    BY <1>6, <2>2
<1>8. \A i \in 1 .. n : h[i] = IF i = 1 THEN ss[i] ELSE h[i - 1] \o ss[i]
  BY <1>7
<1> DEFINE G == {j \in 0 .. n : j # 0 => h[j] = f[j]}
<1>9. 0 \in G
  OBVIOUS
<1>10. \A j \in 1 .. n : j - 1 \in G => j \in G
  <2> TAKE j \in 1 .. n
  <2> HAVE j - 1 \in G
  <2>1. CASE j = 1
    BY <1>5, <1>8, <2>1
  <2>2. CASE j # 1
    <3>1. h[j - 1] = f[j - 1] /\ j \in 0 .. n
      BY <2>2
    <3>2. h[j] = h[j - 1] \o ss[j]
      BY <1>8, <2>2
    <3>3. f[j] = f[j - 1] \o ss[j]
      BY <1>4
    <3>4. h[j] = f[j]
      BY <3>1, <3>2, <3>3
    <3> QED
      BY <3>1, <3>4
  <2> QED
    BY <2>1, <2>2
<1> HIDE DEF G
<1>11. \A j \in 0 .. n : j \in G
  BY <1>9, <1>10, Ascent
<1>12. h[n] = f[n]
  BY <1>11 DEF G
<1> QED
  BY <1>2, <1>4, <1>7, <1>12 DEF Flattens

(* Where the assignment starts: T.empty was called.                         *)
StartOf(s, e) == [py |-> [s EXCEPT !.empties = @ + Calls(e)], t |-> <<>>]

(* An assignment starts without temporaries.                               *)
LEMMA NoTemps ==
    <<>> \in Temps /\ DOMAIN <<>> = {}
<1>1. <<>> \in Seq(Objects) /\ Len(<<>>) = 0
  BY EmptySeq
<1>2. <<>> \in [1 .. 0 -> Objects] /\ 1 .. 0 = {}
  BY <1>1, LenProperties
<1> QED
  BY <1>2 DEF Temps

(* The rewritten assignment is what Python does, from the same state.       *)
LEMMA VisitLeads ==
    ASSUME NEW s \in PyStates, NEW ts \in Targets, NEW e \in Values, Readable(e, s.scope),
           \A j \in DOMAIN ts : Rewrites(ts[j]),
           ~ s.raised
    PROVE  /\ VisitAssign(ts) \in Seq(Stmts) /\ VisitAssign(ts) # <<>> /\ VisitAssign(ts)[1].e = Rhs
           /\ RhsFirst(VisitAssign(ts)) /\ Hides(VisitAssign(ts))
           /\ StartOf(s, e) \in Machines
           /\ \E u \in Machines : /\ Leads(VisitAssign(ts), Evaluates(e, s.scope, s.empties), StartOf(s, e), u)
                                  /\ u.py = PyAssign(s, ts, e)
<1> DEFINE n == Len(ts)
           o == Evaluates(e, s.scope, s.empties)
           m == StartOf(s, e)
<1>1. n \in Nat /\ n >= 1 /\ DOMAIN ts = 1 .. n /\ \A j \in 1 .. n : ts[j] \in AllTargets /\ Rewrites(ts[j])
  BY TargetsAre
<1>2. o \in Objects
  BY EvaluatesType DEF PyStates
<1>3. m \in Machines /\ m.py = [s EXCEPT !.empties = @ + Calls(e)] /\ m.t = <<>> /\ ~ m.py.raised
  BY CallsType, NoTemps DEF PyStates, Machines, StartOf
<1>4. PICK f : AssignsTargets(f, m.py, ts, o) /\ PyAssign(s, ts, e) = f[n]
  BY <1>3, PyAssignIs
<1>5. f \in [0 .. n -> PyStates] /\ f[0] = m.py /\ \A j \in 1 .. n : f[j] = PyTarget(f[j - 1], ts[j], o)
  BY <1>4 DEF AssignsTargets
<1> HIDE DEF n, o, m
<1>6. Rhs \in Int /\ 0 \in Int /\ 0 \in Nat /\ Rhs \in {Rhs, 0} /\ 0 \in {Rhs, 0} /\ 0 # Rhs
  BY DEF Rhs
<1>7. CASE n = 1
  <2> DEFINE c == EmitAssignTarget(ts[1], Rhs, 0)
  <2>1. VisitAssign(ts) = c /\ ts[1] \in AllTargets /\ Rewrites(ts[1])
    BY <1>1, <1>7 DEF VisitAssign, n
  <2>2. c \in Seq(Stmts) /\ c # <<>> /\ c[1].e = Rhs /\ RhsFirst(c) /\ Hides(c)
    BY <1>6, <2>1, EmitShape
  <2>3. \E u \in Machines : Leads(c, o, m, u) /\ u.py = PyTarget(m.py, ts[1], o)
    <3>1. o = IF Rhs = Rhs THEN o ELSE m.t[Rhs]
      OBVIOUS
    <3> QED
      <4>1. \E u \in Machines :
              /\ Leads(EmitAssignTarget(ts[1], Rhs, 0), o, m, u)
              /\ u.py = PyTarget(m.py, ts[1], o)
              /\ \A i \in DOMAIN m.t : i <= 0 => i \in DOMAIN u.t /\ u.t[i] = m.t[i]
        <5>1. m \in Machines /\ ts[1] \in AllTargets /\ Rewrites(ts[1]) /\ Rhs \in Int /\ 0 \in Nat /\ o \in Objects
              /\ (Rhs = Rhs \/ Rhs \in DOMAIN m.t)
          BY <1>2, <1>3, <1>6, <2>1
        <5> QED
          BY <3>1, <5>1, EmitLeads, ZenonT(60)
      <4> QED
        BY <4>1
  <2>4. PyAssign(s, ts, e) = PyTarget(m.py, ts[1], o)
    BY <1>4, <1>5, <1>7
  <2> QED
    BY <1>3, <2>1, <2>2, <2>3, <2>4 DEF o, m
<1>8. CASE n # 1
  <2> DEFINE st == Stmt("keep", ts[1], Rhs)
             ss == [j \in DOMAIN ts |-> EmitAssignTarget(ts[j], 0, Width * j)]
             w == With(m.t, <<0>>, <<o>>)
             a == [py |-> m.py, t |-> w]
  <2>1. VisitAssign(ts) = <<st>> \o FlattenSeq(ss)
    BY <1>8 DEF VisitAssign, n
  <2>2. ss = [j \in 1 .. n |-> ss[j]] /\ \A j \in 1 .. n : ss[j] = EmitAssignTarget(ts[j], 0, Width * j)
    BY <1>1
  <2>3. \A j \in 1 .. n : Width * j \in Nat /\ 0 <= Width * j
    BY <1>1 DEF Width
  <2>4. st \in Stmts /\ st.s = "keep" /\ st.e = Rhs
    BY <1>1 DEF Stmt, Stmts
  <2>5. w \in Temps /\ 0 \in DOMAIN w /\ w[0] = o
    <3> DEFINE ids == <<0>>
               objs == <<o>>
    <3>1. ids \in Seq(Int) /\ DOMAIN ids = {1} /\ ids[1] = 0 /\ objs[1] = o
      <4>1. ids \in Seq(Int) /\ Len(ids) = 1 /\ ids[1] = 0 /\ objs[1] = o
        OBVIOUS
      <4>2. DOMAIN ids = 1 .. 1
        BY <4>1, LenProperties
      <4> QED
        BY <4>1, <4>2
    <3> HIDE DEF ids, objs
    <3>2. With(m.t, ids, objs) \in Temps
      BY <1>2, <1>3, <3>1, NoTemps, WithType
    <3>3. ids[1] \in DOMAIN With(m.t, ids, objs) /\ With(m.t, ids, objs)[ids[1]] = objs[1]
      BY <3>1, WithNew
    <3> QED
      BY <3>1, <3>2, <3>3 DEF ids, objs
  <2>6. a \in Machines /\ a.py = m.py /\ a.t = w
    BY <1>3, <2>5 DEF Machines
  <2> HIDE DEF st, ss, a, w
  <2>7. Leads(<<st>>, o, m, a)
    <3>1. Means(m, st, o) = o
      BY <2>4 DEF Means
    <3>2. Acts(m, st, o, a)
      BY <2>4, <2>6 DEF Acts, w
    <3>3. Moves(m, st, o, a)
      BY <1>3, <2>4, <3>1, <3>2 DEF Moves
    <3> QED
      BY <1>3, <2>4, <2>6, <3>3, LeadsOne
  <2>8. \A j \in 1 .. n : ss[j] \in Seq(Stmts) /\ NoRhs(ss[j]) /\ Hides(ss[j])
    <3> TAKE j \in 1 .. n
    <3>1. ss[j] = EmitAssignTarget(ts[j], 0, Width * j)
      BY <2>2
    <3> QED
      BY <1>1, <1>6, <2>3, <3>1, EmitShape
  <2>9. ss \in [1 .. n -> Seq(Stmts)]
    BY <2>2, <2>8
  <2>10. PICK g : Flattens(g, ss, n, Stmts)
    BY <1>1, <2>9, FlattenIs
  <2>24. /\ g \in [0 .. n -> Seq(Stmts)] /\ g[0] = <<>> /\ FlattenSeq(ss) = g[n]
         /\ \A j \in 1 .. n : g[j] = g[j - 1] \o ss[j]
    BY <2>10 DEF Flattens
  <2> DEFINE G == {j \in 0 .. n : /\ NoRhs(g[j]) /\ Hides(g[j])
                                  /\ \E u \in Machines : /\ Leads(g[j], o, a, u) /\ u.py = f[j]
                                                          /\ 0 \in DOMAIN u.t /\ u.t[0] = o}
  <2>11. 0 \in G
    <3>1. <<>> \in Seq(Stmts) /\ Len(<<>>) = 0
      BY EmptySeq
    <3>2. NoRhs(<<>>) /\ Hides(<<>>)
      BY <3>1 DEF NoRhs, Hides
    <3>4. \A j \in 1 .. Len(<<>>) : Moves(a, <<>>[j], o, a)
      BY <3>1
    <3>3. Leads(<<>>, o, a, a)
      BY <2>6, <3>1, <3>4, LeadsStay
    <3> QED
      BY <1>1, <1>5, <2>5, <2>6, <2>24, <3>2, <3>3
  <2>12. ASSUME NEW j \in 1 .. n, j - 1 \in G PROVE j \in G
    <3>1. PICK u \in Machines : /\ Leads(g[j - 1], o, a, u) /\ u.py = f[j - 1]
                                /\ 0 \in DOMAIN u.t /\ u.t[0] = o
      BY <2>12
    <3>2. NoRhs(g[j - 1]) /\ Hides(g[j - 1]) /\ g[j - 1] \in Seq(Stmts) /\ j \in 0 .. n /\ j - 1 \in 0 .. n
      BY <1>1, <2>24, <2>12
    <3>3. g[j] = g[j - 1] \o ss[j] /\ ss[j] = EmitAssignTarget(ts[j], 0, Width * j)
      BY <2>2, <2>24
    <3>4. ts[j] \in AllTargets /\ Rewrites(ts[j]) /\ Width * j \in Nat /\ 0 <= Width * j
      BY <1>1, <2>3
    <3>5. PICK v \in Machines : /\ Leads(ss[j], o, u, v) /\ v.py = PyTarget(u.py, ts[j], o)
                                /\ \A i \in DOMAIN u.t : i <= Width * j => i \in DOMAIN v.t /\ v.t[i] = u.t[i]
      BY <1>2, <1>6, <3>1, <3>3, <3>4, EmitLeads
    <3>6. Leads(g[j], o, a, v)
      BY <2>8, <3>1, <3>2, <3>3, <3>5, LeadsTwice
    <3>7. v.py = f[j] /\ 0 \in DOMAIN v.t /\ v.t[0] = o
      BY <1>5, <3>1, <3>4, <3>5
    <3>8. NoRhs(g[j]) /\ Hides(g[j])
      BY <2>8, <3>2, <3>3, NoRhsBoth, HidesBoth
    <3> QED
      BY <3>2, <3>6, <3>7, <3>8
  <2> HIDE DEF G
  <2>13. \A j \in 1 .. n : j - 1 \in G => j \in G
    BY <2>12
  <2>14. \A j \in 0 .. n : j \in G
    BY <1>1, <2>11, <2>13, Ascent
  <2>15. n \in G /\ g[n] \in Seq(Stmts)
    BY <1>1, <2>24, <2>14
  <2>16. PICK u \in Machines : Leads(g[n], o, a, u) /\ u.py = f[n]
    BY <2>15 DEF G
  <2>17. NoRhs(g[n]) /\ Hides(g[n])
    BY <2>15 DEF G
  <2>18. <<st>> \in Seq(Stmts) /\ Len(<<st>>) = 1 /\ <<st>>[1] = st /\ <<st>> # <<>>
    BY <2>4
  <2>19. RhsFirst(<<st>>) /\ Hides(<<st>>)
    BY <2>4, <2>18 DEF RhsFirst, Hides, Follows
  <2>20. Leads(<<st>> \o g[n], o, m, u)
    BY <2>7, <2>15, <2>16, <2>18, LeadsTwice
  <2>21. RhsFirst(<<st>> \o g[n]) /\ <<st>> \o g[n] # <<>> /\ (<<st>> \o g[n])[1] = st
    BY <2>15, <2>17, <2>18, <2>19, NoRhsBoth
  <2>22. Hides(<<st>> \o g[n]) /\ <<st>> \o g[n] \in Seq(Stmts)
    BY <2>15, <2>17, <2>18, <2>19, HidesBoth, ConcatProperties
  <2>23. VisitAssign(ts) = <<st>> \o g[n]
    BY <2>1, <2>24
  <2> QED
    BY <1>3, <1>4, <2>4, <2>16, <2>20, <2>21, <2>22, <2>23 DEF o, m
<1> QED
  BY <1>7, <1>8

(***************************************************************************)
(* The invariant. While the rewritten assignment runs, there is a machine   *)
(* whose names and temporaries are the same, and from which what is left of *)
(* the code leads to where Python is already. The right-hand side counts    *)
(* only until the first statement is run.                                   *)
(***************************************************************************)
AtValue == code # <<>> /\ code[1].e = Rhs
Related(o, m) ==
    /\ o \in Objects /\ m \in Machines /\ ~ m.py.raised
    /\ SameScopes(scope, m.py.scope) /\ stores = m.py.stores
    /\ DOMAIN temps = DOMAIN m.t /\ \A i \in DOMAIN temps : Same(temps[i], m.t[i])
    /\ \E u \in Machines : Leads(code, o, m, u) /\ u.py = python
    /\ AtValue => /\ value \in Values /\ Readable(value, scope)
                  /\ Same(Evaluates(value, scope, empties), o)
                  /\ empties + Calls(value) = m.py.empties
    /\ ~ AtValue => empties = m.py.empties

TypeA ==
    /\ scope \in Scopes /\ temps \in Temps /\ stores \in Stores /\ outputs \in Seq(Int) /\ empties \in Nat
    /\ code \in Seq(Stmts) /\ RhsFirst(code) /\ Hides(code)
    /\ python \in PyStates
AInv ==
    /\ TypeA
    /\ status = "running" => \E o, m : Related(o, m)
    /\ status = "raised" => python.raised

(* What is left after a statement.                                          *)
LEMMA RestOf ==
    ASSUME NEW c \in Seq(Stmts), c # <<>>, RhsFirst(c), Hides(c)
    PROVE  /\ Head(c) = c[1] /\ c[1] \in Stmts
           /\ Tail(c) \in Seq(Stmts) /\ RhsFirst(Tail(c)) /\ Hides(Tail(c))
           /\ Tail(c) # <<>> => Tail(c)[1].e # Rhs
<1> DEFINE n == Len(c)
           d == Tail(c)
<1>1. n \in Nat /\ n >= 1 /\ \A i \in 1 .. n : c[i] \in Stmts
  BY EmptySeq, LenProperties, ElementOfSeq
<1>2. d \in Seq(Stmts) /\ Len(d) = n - 1 /\ \A i \in 1 .. n - 1 : d[i] = c[i + 1]
  BY HeadTailProperties
<1>3. Head(c) = c[1] /\ c[1] \in Stmts
  BY <1>1
<1> HIDE DEF n, d
<1>4. \A i \in 1 .. n - 1 : d[i].e # Rhs
  <2> TAKE i \in 1 .. n - 1
  <2>1. i + 1 \in 2 .. n
    BY <1>1
  <2> QED
    BY <1>2, <2>1 DEF RhsFirst, n
<1>5. RhsFirst(d)
  <2>1. \A i \in 2 .. n - 1 : i \in 1 .. n - 1
    BY <1>1
  <2> QED
    BY <1>2, <1>4, <2>1 DEF RhsFirst
<1>6. d # <<>> => d[1].e # Rhs
  <2> HAVE d # <<>>
  <2>1. Len(d) # 0
    BY <1>2, EmptySeq
  <2>2. 1 \in 1 .. n - 1
    BY <1>1, <1>2, <2>1
  <2> QED
    BY <1>4, <2>2
<1>7. ASSUME NEW i \in 1 .. n - 1 PROVE Follows(d, i)
  <2> DEFINE h == i + 1
  <2>1. h \in 1 .. n /\ d[i] = c[h] /\ h - 1 = i
    BY <1>1, <1>2
  <2>2. Follows(c, h) /\ c[h] \in Stmts
    BY <1>1, <2>1 DEF Hides, n
  <2> SUFFICES ASSUME c[h].s = "unpack"
               PROVE  /\ c[h].e \in {Rhs, 0}
                      /\ \A j \in DOMAIN c[h].t.ids : /\ c[h].t.ids[j] # 0 /\ i + j <= n - 1
                                                      /\ d[i + j].s = "hide" /\ d[i + j].e = c[h].t.ids[j]
    BY <1>2, <2>1 DEF Follows
  <2>3. c[h].t.ids \in Seq(Int)
    BY <2>2 DEF Stmts, Groups
  <2>4. c[h].e \in {Rhs, 0}
    BY <2>2 DEF Follows
  <2>5. ASSUME NEW j \in DOMAIN c[h].t.ids
        PROVE  /\ c[h].t.ids[j] # 0 /\ i + j <= n - 1
               /\ d[i + j].s = "hide" /\ d[i + j].e = c[h].t.ids[j]
    <3>1. c[h].t.ids[j] # 0 /\ h + j <= n /\ c[h + j].s = "hide" /\ c[h + j].e = c[h].t.ids[j]
      BY <2>2 DEF Follows, n
    <3>2. j \in Nat /\ j >= 1
      BY <2>3, LenProperties
    <3>3. i + j \in 1 .. n - 1 /\ (i + j) + 1 = h + j
      BY <1>1, <3>1, <3>2
    <3>4. d[i + j] = c[(i + j) + 1]
      BY <1>2, <3>3
    <3>5. d[i + j] = c[h + j]
      BY <3>3, <3>4
    <3> QED
      BY <3>1, <3>3, <3>5
  <2> QED
    BY <2>4, <2>5
<1>8. Hides(d)
  BY <1>2, <1>7 DEF Hides
<1> QED
  BY <1>2, <1>3, <1>5, <1>6, <1>8 DEF d

(* What the next statement assigns, here and in the machine.                *)
LEMMA StandsSame ==
    ASSUME TypeA, code # <<>>, NEW o, NEW m, Related(o, m), NEW e, e = Head(code).e, e = Rhs \/ e \in DOMAIN temps,
           NEW v, v = IF e = Rhs THEN o ELSE m.t[e]
    PROVE  /\ Stands(e) \in Objects /\ v \in Objects /\ Same(Stands(e), v)
           /\ Counts(e) => empties' = m.py.empties /\ empties' \in Nat
<1>1. Head(code) = code[1]
  BY DEF TypeA
<1>2. m.py \in PyStates /\ m.t \in Temps
  BY DEF Related, Machines
<1>3. CASE e = Rhs
  <2>1. /\ value \in Values /\ Readable(value, scope)
        /\ Same(Evaluates(value, scope, empties), o)
        /\ empties + Calls(value) = m.py.empties
    BY <1>1, <1>3 DEF Related, AtValue
  <2>2. Evaluates(value, scope, empties) \in Objects /\ o \in Objects
    BY <2>1, EvaluatesType DEF TypeA, Related
  <2>3. m.py.empties \in Nat
    BY <1>2 DEF PyStates
  <2>4. Stands(e) = Evaluates(value, scope, empties) /\ v = o
    BY <1>3 DEF Stands
  <2>5. Counts(e) => empties' = empties + Calls(value)
    BY <1>3 DEF Counts
  <2> QED
    BY <2>1, <2>2, <2>3, <2>4, <2>5
<1>4. CASE e # Rhs
  <2>1. e \in DOMAIN temps /\ e \in DOMAIN m.t /\ Same(temps[e], m.t[e]) /\ temps[e] \in Objects /\ m.t[e] \in Objects
    BY <1>2, <1>4, TempsAre DEF Related, TypeA
  <2>2. empties = m.py.empties
    BY <1>1, <1>4 DEF Related, AtValue
  <2>3. Stands(e) = temps[e] /\ v = m.t[e]
    BY <1>4 DEF Stands
  <2>4. Counts(e) => empties' = empties
    BY <1>4 DEF Counts
  <2> QED
    BY <2>1, <2>2, <2>3, <2>4 DEF TypeA
<1> QED
  BY <1>3, <1>4

(* The step of the machine for the next statement.                          *)
LEMMA NextMove ==
    ASSUME TypeA, code # <<>>, NEW o, NEW m, Related(o, m)
    PROVE  LET st == Head(code)
           IN  /\ st \in Stmts /\ (st.e = Rhs \/ st.e \in DOMAIN temps)
               /\ \E w \in Machines : /\ Acts(m, st, Means(m, st, o), w)
                                      /\ \E u \in Machines : Leads(Tail(code), o, w, u) /\ u.py = python
<1>1. Head(code) \in Stmts
  BY RestOf DEF TypeA
<1>2. PICK u \in Machines : Leads(code, o, m, u) /\ u.py = python
  BY DEF Related
<1>3. PICK w \in Machines : Moves(m, Head(code), o, w) /\ Leads(Tail(code), o, w, u)
  BY <1>2, LeadsFirst DEF TypeA
<1>4. ~ m.py.raised /\ DOMAIN temps = DOMAIN m.t
  BY DEF Related
<1> QED
  BY <1>1, <1>2, <1>3, <1>4 DEF Moves

(* The rest of the code, when a statement is done.                          *)
LEMMA RestRuns ==
    ASSUME TypeA, code # <<>>, code' = Tail(code), UNCHANGED python
    PROVE  /\ code' \in Seq(Stmts) /\ RhsFirst(code') /\ Hides(code') /\ python' \in PyStates
           /\ ~ AtValue'
<1>1. /\ Tail(code) \in Seq(Stmts) /\ RhsFirst(Tail(code)) /\ Hides(Tail(code))
      /\ Tail(code) # <<>> => Tail(code)[1].e # Rhs
  BY RestOf DEF TypeA
<1>2. code' \in Seq(Stmts) /\ RhsFirst(code') /\ Hides(code') /\ (code' # <<>> => code'[1].e # Rhs)
  BY <1>1
<1>3. ~ AtValue'
  BY <1>2 DEF AtValue
<1> QED
  BY <1>2, <1>3 DEF TypeA

(* A machine that raised leads to a Python that did.                        *)
LEMMA RaisedLeads ==
    ASSUME NEW c \in Seq(Stmts), NEW o, NEW w, w.py.raised, NEW u, Leads(c, o, w, u), u.py = python
    PROVE  python.raised
BY LeadsRaised

(***************************************************************************)
(* Every step keeps it.                                                     *)
(***************************************************************************)
LEMMA BoundType ==
    ASSUME NEW o \in Objects, outputs \in Seq(Int), MakesOutput(o)
    PROVE  outputs' \in Seq(Int)
<1>1. CASE ~ Is(o, "out")
  BY <1>1 DEF MakesOutput
<1>2. CASE Is(o, "out")
  <2>1. o[<<>>] \in Atoms /\ o[<<>>].k = "out"
    BY <1>2, ObjectIs DEF Is, IsSingle
  <2>2. o[<<>>].n \in Int
    BY <2>1 DEF Atoms
  <2>3. outputs' = Append(outputs, o[<<>>].n)
    BY <1>2 DEF MakesOutput
  <2> QED
    BY <2>2, <2>3, AppendProperties
<1> QED
  BY <1>1, <1>2

(* New temporaries that hold the same, next to old ones that do.           *)
LEMMA SameWith ==
    ASSUME NEW old, NEW py, NEW ids, NEW objs, NEW pys,
           DOMAIN old = DOMAIN py, \A i \in DOMAIN old : Same(old[i], py[i]),
           \A j \in DOMAIN ids : Same(objs[j], pys[j])
    PROVE  /\ DOMAIN With(old, ids, objs) = DOMAIN With(py, ids, pys)
           /\ \A i \in DOMAIN With(old, ids, objs) : Same(With(old, ids, objs)[i], With(py, ids, pys)[i])
<1> DEFINE D == DOMAIN old \cup {ids[j] : j \in DOMAIN ids}
           J(i) == CHOOSE j \in DOMAIN ids : ids[j] = i
<1>1. DOMAIN With(old, ids, objs) = D /\ DOMAIN With(py, ids, pys) = D
  BY WithDomain
<1>2. ASSUME NEW i \in D PROVE Same(With(old, ids, objs)[i], With(py, ids, pys)[i])
  <2>1. CASE \E j \in DOMAIN ids : ids[j] = i
    <3>1. With(old, ids, objs)[i] = objs[J(i)] /\ With(py, ids, pys)[i] = pys[J(i)]
      BY <1>1, <2>1 DEF With
    <3>2. J(i) \in DOMAIN ids
      BY <2>1
    <3> HIDE DEF J
    <3> QED
      BY <3>1, <3>2
  <2>2. CASE ~ \E j \in DOMAIN ids : ids[j] = i
    <3>1. With(old, ids, objs)[i] = old[i] /\ With(py, ids, pys)[i] = py[i]
      BY <1>1, <2>2 DEF With
    <3>2. i \in DOMAIN old
      BY <2>2
    <3> QED
      BY <3>1, <3>2
  <2> QED
    BY <2>1, <2>2
<1> QED
  BY <1>1, <1>2

(* Binding a name: the tensor of the call is what Python binds.            *)
LEMMA BindA ==
    ASSUME AInv, Bind
    PROVE  AInv'
<1> DEFINE st == Head(code)
           x == st.t.x
<1>1. TypeA /\ status = "running" /\ code # <<>> /\ st.s = "bind"
  BY DEF AInv, Bind, Run
<1>2. PICK o, m : Related(o, m)
  BY <1>1 DEF AInv
<1>3. /\ st \in Stmts /\ (st.e = Rhs \/ st.e \in DOMAIN temps)
      /\ \E w \in Machines : /\ Acts(m, st, Means(m, st, o), w)
                             /\ \E u \in Machines : Leads(Tail(code), o, w, u) /\ u.py = python
  BY <1>1, <1>2, NextMove
<1> DEFINE v == Means(m, st, o)
           b == Stands(st.e)
<1>4. PICK w \in Machines : Acts(m, st, v, w) /\ \E u \in Machines : Leads(Tail(code), o, w, u) /\ u.py = python
  BY <1>3
<1>5. v = IF st.e = Rhs THEN o ELSE m.t[st.e]
  BY DEF Means
<1>6. Counts(st.e) /\ scope' = [scope EXCEPT ![x] = Bound(b)] /\ MakesOutput(b)
      /\ code' = Tail(code) /\ UNCHANGED <<value, python, left, temps, stores, status>>
  BY DEF Bind, Done
<1> HIDE DEF st, v
<1>7. b \in Objects /\ v \in Objects /\ Same(b, v) /\ empties' = m.py.empties /\ empties' \in Nat
  BY <1>1, <1>2, <1>3, <1>5, <1>6, StandsSame DEF st
<1>8. st.t.k = "name" /\ w.py = PyLeaf(m.py, st.t, v) /\ w.t = m.t
  BY <1>1, <1>4 DEF Acts
<1>9. st.t \in TargetLeaf /\ x \in Names
  <2>1. st.t \in TargetLeaf
    BY <1>1, <1>3 DEF Stmts
  <2> QED
    BY <2>1 DEF TargetLeaf
<1> HIDE DEF x, b
<1>10. ~ m.py.raised /\ m \in Machines /\ m.py \in PyStates
  BY <1>2 DEF Related, Machines
<1>11. w.py = [m.py EXCEPT !.scope[x] = v]
  BY <1>8, <1>10 DEF PyLeaf, x
<1>12. /\ w.py.scope = [m.py.scope EXCEPT ![x] = v] /\ w.py.stores = m.py.stores
       /\ w.py.empties = m.py.empties /\ w.py.raised = m.py.raised /\ m.py.scope \in Scopes
  BY <1>10, <1>11 DEF PyStates
<1>13. Bound(b) \in Objects /\ Same(Bound(b), v)
  BY <1>1, <1>7, SameBound DEF TypeA
<1>14. scope' \in Scopes /\ \A y \in Names : scope'[y] = IF y = x THEN Bound(b) ELSE scope[y]
  <2>1. scope \in [Names -> Things] /\ Bound(b) \in Things
    BY <1>1, <1>13 DEF TypeA, Scopes, Things
  <2> QED
    BY <1>6, <1>9, <2>1 DEF Scopes
<1>15. SameScopes(scope', w.py.scope)
  <2>1. \A y \in Names : w.py.scope[y] = IF y = x THEN v ELSE m.py.scope[y]
    BY <1>9, <1>12 DEF Scopes
  <2>2. \A y \in Names : Same(scope[y], m.py.scope[y])
    BY <1>2 DEF Related, SameScopes
  <2> QED
    BY <1>13, <1>14, <2>1, <2>2 DEF SameScopes
<1>16. /\ code' \in Seq(Stmts) /\ RhsFirst(code') /\ Hides(code') /\ python' \in PyStates
       /\ ~ AtValue'
  BY <1>1, <1>6, RestRuns
<1>17. outputs' \in Seq(Int)
  BY <1>1, <1>6, <1>7, BoundType DEF TypeA
<1>18. TypeA'
  BY <1>1, <1>6, <1>7, <1>14, <1>16, <1>17 DEF TypeA
<1>19. Related(o, w)'
  <2>1. o \in Objects /\ stores' = w.py.stores /\ DOMAIN temps' = DOMAIN w.t
        /\ \A i \in DOMAIN temps' : Same(temps'[i], w.t[i])
    BY <1>2, <1>6, <1>8, <1>12 DEF Related
  <2>2. ~ w.py.raised /\ empties' = w.py.empties
    BY <1>7, <1>10, <1>12
  <2>3. \E u \in Machines : Leads(code', o, w, u) /\ u.py = python'
    BY <1>4, <1>6
  <2> QED
    BY <1>15, <1>16, <2>1, <2>2, <2>3 DEF Related
<1>20. status' = "running"
  BY <1>1, <1>6
<1> QED
  BY <1>18, <1>19, <1>20 DEF AInv


(* Keeping the value for several targets.                                  *)
LEMMA KeepA ==
    ASSUME AInv, Keep
    PROVE  AInv'
<1> DEFINE st == Head(code)
<1>1. TypeA /\ status = "running" /\ code # <<>> /\ st.s = "keep"
  BY DEF AInv, Keep, Run
<1>2. PICK o, m : Related(o, m)
  BY <1>1 DEF AInv
<1>3. /\ st \in Stmts /\ (st.e = Rhs \/ st.e \in DOMAIN temps)
      /\ \E w \in Machines : /\ Acts(m, st, Means(m, st, o), w)
                             /\ \E u \in Machines : Leads(Tail(code), o, w, u) /\ u.py = python
  BY <1>1, <1>2, NextMove
<1> DEFINE v == Means(m, st, o)
           b == Stands(Rhs)
<1>4. PICK w \in Machines : Acts(m, st, v, w) /\ \E u \in Machines : Leads(Tail(code), o, w, u) /\ u.py = python
  BY <1>3
<1>5. v = IF st.e = Rhs THEN o ELSE m.t[st.e]
  BY DEF Means
<1>6. /\ temps' = With(temps, <<0>>, <<Bound(b)>>) /\ MakesOutput(b) /\ Counts(Rhs)
      /\ code' = Tail(code) /\ UNCHANGED <<value, python, left, scope, stores, status>>
  BY DEF Keep, Done
<1>7. st.e = Rhs
  BY <1>1, <1>3 DEF Stmts
<1> HIDE DEF st, v
<1>8. b \in Objects /\ v \in Objects /\ Same(b, v) /\ empties' = m.py.empties /\ empties' \in Nat
  BY <1>1, <1>2, <1>5, <1>6, <1>7, StandsSame DEF st
<1> HIDE DEF b
<1>9. w.py = m.py /\ w.t = With(m.t, <<0>>, <<v>>)
  BY <1>1, <1>4 DEF Acts
<1>10. Bound(b) \in Objects /\ Same(Bound(b), v)
  BY <1>1, <1>8, SameBound DEF TypeA
<1>11. DOMAIN <<0>> = {1} /\ <<0>> \in Seq(Int)
  OBVIOUS
<1>12. temps' \in Temps
  <2>1. \A j \in DOMAIN <<0>> : <<Bound(b)>>[j] \in Objects
    BY <1>10, <1>11
  <2> QED
    BY <1>1, <1>6, <1>11, <2>1, WithType DEF TypeA
<1>13. DOMAIN temps' = DOMAIN w.t /\ \A i \in DOMAIN temps' : Same(temps'[i], w.t[i])
  <2>1. \A j \in DOMAIN <<0>> : Same(<<Bound(b)>>[j], <<v>>[j])
    BY <1>10, <1>11
  <2>2. DOMAIN temps = DOMAIN m.t /\ \A i \in DOMAIN temps : Same(temps[i], m.t[i])
    BY <1>2 DEF Related
  <2> QED
    BY <1>6, <1>9, <2>1, <2>2, SameWith
<1>14. /\ code' \in Seq(Stmts) /\ RhsFirst(code') /\ Hides(code') /\ python' \in PyStates
       /\ ~ AtValue'
  BY <1>1, <1>6, RestRuns
<1>15. outputs' \in Seq(Int)
  BY <1>1, <1>6, <1>8, BoundType DEF TypeA
<1>16. TypeA'
  BY <1>1, <1>6, <1>8, <1>12, <1>14, <1>15 DEF TypeA
<1>17. Related(o, w)'
  <2>1. /\ o \in Objects /\ ~ w.py.raised /\ SameScopes(scope', w.py.scope) /\ stores' = w.py.stores
        /\ empties' = w.py.empties
    BY <1>2, <1>6, <1>8, <1>9 DEF Related
  <2>2. \E u \in Machines : Leads(code', o, w, u) /\ u.py = python'
    BY <1>4, <1>6
  <2> QED
    BY <1>13, <1>14, <2>1, <2>2 DEF Related
<1> QED
  BY <1>1, <1>6, <1>16, <1>17 DEF AInv

(* Hiding a temporary: the machine does nothing, and the tensor means what *)
(* was there.                                                              *)
LEMMA HideA ==
    ASSUME AInv, Hide
    PROVE  AInv'
<1> DEFINE st == Head(code)
           i == st.e
<1>1. TypeA /\ status = "running" /\ code # <<>> /\ st.s = "hide"
  BY DEF AInv, Hide, Run
<1>2. PICK o, m : Related(o, m)
  BY <1>1 DEF AInv
<1>3. /\ st \in Stmts /\ (st.e = Rhs \/ st.e \in DOMAIN temps)
      /\ \E w \in Machines : /\ Acts(m, st, Means(m, st, o), w)
                             /\ \E u \in Machines : Leads(Tail(code), o, w, u) /\ u.py = python
  BY <1>1, <1>2, NextMove
<1> DEFINE v == Means(m, st, o)
<1>4. PICK w \in Machines : Acts(m, st, v, w) /\ \E u \in Machines : Leads(Tail(code), o, w, u) /\ u.py = python
  BY <1>3
<1>5. /\ temps' = [temps EXCEPT ![i] = Bound(temps[i])] /\ MakesOutput(temps[i])
      /\ code' = Tail(code) /\ UNCHANGED <<value, python, left, scope, stores, empties, status>>
  BY DEF Hide, Done
<1>6. i # Rhs /\ i \in DOMAIN temps /\ code[1].e # Rhs
  <2>1. st.e \in Nat /\ Rhs \notin Nat
    BY <1>1, <1>3 DEF Stmts, Rhs
  <2>2. st = code[1]
    BY <1>1, RestOf DEF TypeA
  <2> QED
    BY <1>3, <2>1, <2>2
<1> HIDE DEF st, v, i
<1>7. w = m
  BY <1>1, <1>4 DEF Acts
<1>8. temps[i] \in Objects /\ m.t[i] \in Objects /\ i \in DOMAIN m.t /\ Same(temps[i], m.t[i])
  BY <1>1, <1>2, <1>6, TempsAre DEF TypeA, Related, Machines
<1>9. Bound(temps[i]) \in Objects /\ Same(Bound(temps[i]), m.t[i])
  BY <1>1, <1>8, SameBound DEF TypeA
<1>10. temps' \in Temps
  <2>1. /\ temps = [j \in DOMAIN temps |-> temps[j]] /\ DOMAIN temps \subseteq Int
        /\ \A j \in DOMAIN temps : temps[j] \in Objects
    BY <1>1, TempsAre DEF TypeA
  <2>2. temps' = [j \in DOMAIN temps |-> IF j = i THEN Bound(temps[i]) ELSE temps[j]]
    BY <1>5
  <2>3. DOMAIN temps' = DOMAIN temps /\ \A j \in DOMAIN temps' : temps'[j] \in Objects
    BY <1>9, <2>1, <2>2
  <2>4. temps' = [j \in DOMAIN temps' |-> temps'[j]]
    BY <2>2
  <2> QED
    BY <2>1, <2>3, <2>4, TempsAre
<1>11. DOMAIN temps' = DOMAIN w.t /\ \A j \in DOMAIN temps' : Same(temps'[j], w.t[j])
  <2>1. DOMAIN temps = DOMAIN m.t /\ \A j \in DOMAIN temps : Same(temps[j], m.t[j])
    BY <1>2 DEF Related
  <2>2. temps' = [j \in DOMAIN temps |-> IF j = i THEN Bound(temps[i]) ELSE temps[j]]
    BY <1>5
  <2> QED
    BY <1>7, <1>9, <2>1, <2>2
<1>12. /\ code' \in Seq(Stmts) /\ RhsFirst(code') /\ Hides(code') /\ python' \in PyStates
       /\ ~ AtValue'
  BY <1>1, <1>5, RestRuns
<1>13. outputs' \in Seq(Int)
  BY <1>1, <1>5, <1>8, BoundType DEF TypeA
<1>14. TypeA'
  BY <1>1, <1>5, <1>10, <1>12, <1>13 DEF TypeA
<1>15. Related(o, w)'
  <2>1. /\ o \in Objects /\ ~ w.py.raised /\ SameScopes(scope', w.py.scope) /\ stores' = w.py.stores
        /\ empties' = w.py.empties
    BY <1>2, <1>5, <1>6, <1>7 DEF Related, AtValue
  <2>2. \E u \in Machines : Leads(code', o, w, u) /\ u.py = python'
    BY <1>4, <1>5
  <2> QED
    BY <1>11, <1>12, <2>1, <2>2 DEF Related
<1> QED
  BY <1>1, <1>5, <1>14, <1>15 DEF AInv


(* Storing: the same index and number, or raising in both.                 *)
LEMMA SliceA ==
    ASSUME AInv, Slice
    PROVE  AInv'
<1> DEFINE st == Head(code)
           x == st.t.x
<1>1. TypeA /\ status = "running" /\ code # <<>> /\ st.s = "slice"
  BY DEF AInv, Slice, Run
<1>2. PICK o, m : Related(o, m)
  BY <1>1 DEF AInv
<1>3. /\ st \in Stmts /\ (st.e = Rhs \/ st.e \in DOMAIN temps)
      /\ \E w \in Machines : /\ Acts(m, st, Means(m, st, o), w)
                             /\ \E u \in Machines : Leads(Tail(code), o, w, u) /\ u.py = python
  BY <1>1, <1>2, NextMove
<1> DEFINE v == Means(m, st, o)
           b == Stands(st.e)
<1>4. PICK w \in Machines : Acts(m, st, v, w) /\ \E u \in Machines : Leads(Tail(code), o, w, u) /\ u.py = python
  BY <1>3
<1>5. v = IF st.e = Rhs THEN o ELSE m.t[st.e]
  BY DEF Means
<1>6. /\ Counts(st.e) /\ code' = Tail(code) /\ UNCHANGED <<value, python, left, scope, temps, outputs>>
      /\ IF Storable(scope[x], b)
         THEN stores' = Append(stores, [index |-> scope[x], value |-> b]) /\ UNCHANGED status
         ELSE status' = "raised" /\ UNCHANGED stores
  BY DEF Slice, Done
<1> HIDE DEF st, v
<1>7. b \in Objects /\ v \in Objects /\ Same(b, v) /\ empties' = m.py.empties /\ empties' \in Nat
  BY <1>1, <1>2, <1>3, <1>5, <1>6, StandsSame DEF st
<1>8. st.t.k # "name" /\ w.py = PyLeaf(m.py, st.t, v) /\ w.t = m.t
  BY <1>1, <1>4 DEF Acts
<1>9. st.t \in TargetLeaf /\ x \in Names /\ st.t.k = "sub"
  <2>1. st.t \in TargetLeaf
    BY <1>1, <1>3 DEF Stmts
  <2> QED
    BY <1>8, <2>1 DEF TargetLeaf
<1> HIDE DEF x, b
<1>10. ~ m.py.raised /\ m \in Machines /\ m.py \in PyStates
  BY <1>2 DEF Related, Machines
<1>11. /\ scope[x] \in Things /\ m.py.scope[x] \in Things /\ Same(scope[x], m.py.scope[x])
       /\ stores = m.py.stores
  BY <1>1, <1>2, <1>9, <1>10 DEF TypeA, Related, SameScopes, Scopes, PyStates
<1>12. /\ Storable(scope[x], b) <=> Storable(m.py.scope[x], v)
       /\ Storable(scope[x], b) => scope[x] = m.py.scope[x] /\ b = v
  BY <1>7, <1>11, SameStorable
<1>13. /\ code' \in Seq(Stmts) /\ RhsFirst(code') /\ Hides(code') /\ python' \in PyStates
       /\ ~ AtValue'
  BY <1>1, <1>6, RestRuns
<1>14. stores' \in Stores
  <2>1. CASE Storable(scope[x], b)
    <3>1. scope[x] \in Objects
      BY <1>11, <2>1 DEF Storable, IsIndex, Things, Unbound
    <3> DEFINE a == [index |-> scope[x], value |-> b]
    <3>2. a \in [index : Objects, value : Objects]
      BY <1>7, <3>1
    <3>3. stores' = Append(stores, a) /\ stores \in Seq([index : Objects, value : Objects])
      BY <1>1, <1>6, <2>1 DEF TypeA, Stores
    <3> HIDE DEF a
    <3> QED
      BY <3>2, <3>3, AppendProperties DEF Stores
  <2>2. CASE ~ Storable(scope[x], b)
    BY <1>1, <1>6, <2>2 DEF TypeA
  <2> QED
    BY <2>1, <2>2
<1>15. TypeA'
  BY <1>1, <1>6, <1>7, <1>13, <1>14 DEF TypeA
<1>16. CASE Storable(scope[x], b)
  <2>1. w.py = [m.py EXCEPT !.stores = Append(m.py.stores, [index |-> m.py.scope[x], value |-> v])]
    BY <1>8, <1>9, <1>10, <1>12, <1>16 DEF PyLeaf, x
  <2>2. /\ w.py.stores = Append(m.py.stores, [index |-> m.py.scope[x], value |-> v]) /\ w.py.scope = m.py.scope
        /\ w.py.empties = m.py.empties /\ w.py.raised = m.py.raised
    BY <1>10, <2>1 DEF PyStates
  <2>3. stores' = w.py.stores /\ status' = status
    BY <1>6, <1>11, <1>12, <1>16, <2>2
  <2>4. Related(o, w)'
    <3>1. /\ o \in Objects /\ SameScopes(scope', w.py.scope) /\ DOMAIN temps' = DOMAIN w.t
          /\ \A i \in DOMAIN temps' : Same(temps'[i], w.t[i])
      BY <1>2, <1>6, <1>8, <2>2 DEF Related
    <3>2. ~ w.py.raised /\ empties' = w.py.empties
      BY <1>7, <1>10, <2>2
    <3>3. \E u \in Machines : Leads(code', o, w, u) /\ u.py = python'
      BY <1>4, <1>6
    <3> QED
      BY <1>13, <2>3, <3>1, <3>2, <3>3 DEF Related
  <2> QED
    BY <1>1, <1>15, <2>3, <2>4 DEF AInv
<1>17. CASE ~ Storable(scope[x], b)
  <2>1. w.py = [m.py EXCEPT !.raised = TRUE]
    BY <1>8, <1>9, <1>10, <1>12, <1>17 DEF PyLeaf, x
  <2>2. w.py.raised
    BY <1>10, <2>1 DEF PyStates
  <2>3. Tail(code) \in Seq(Stmts)
    BY <1>6, <1>13
  <2>4. python.raised
    BY <1>4, <2>2, <2>3, RaisedLeads
  <2> QED
    BY <1>6, <1>15, <1>17, <2>4 DEF AInv
<1> QED
  BY <1>16, <1>17

(* Unpacking: the same parts, or raising in both.                          *)
LEMMA UnpackA ==
    ASSUME AInv, Unpack
    PROVE  AInv'
<1> DEFINE st == Head(code)
           ids == st.t.ids
           ls == st.t.leaves
<1>1. TypeA /\ status = "running" /\ code # <<>> /\ st.s = "unpack"
  BY DEF AInv, Unpack, Run
<1>2. PICK o, m : Related(o, m)
  BY <1>1 DEF AInv
<1>3. /\ st \in Stmts /\ (st.e = Rhs \/ st.e \in DOMAIN temps)
      /\ \E w \in Machines : /\ Acts(m, st, Means(m, st, o), w)
                             /\ \E u \in Machines : Leads(Tail(code), o, w, u) /\ u.py = python
  BY <1>1, <1>2, NextMove
<1> DEFINE v == Means(m, st, o)
           b == Stands(st.e)
<1>4. PICK w \in Machines : Acts(m, st, v, w) /\ \E u \in Machines : Leads(Tail(code), o, w, u) /\ u.py = python
  BY <1>3
<1>5. v = IF st.e = Rhs THEN o ELSE m.t[st.e]
  BY DEF Means
<1>6. /\ Counts(st.e) /\ code' = Tail(code) /\ UNCHANGED <<value, python, left, scope, stores, outputs>>
      /\ IF Fits(st.t, b)
         THEN temps' = With(temps, ids, Parts(ls, b)) /\ UNCHANGED status
         ELSE status' = "raised" /\ UNCHANGED temps
  BY DEF Unpack, Done, Parts
<1> HIDE DEF st, v
<1>7. b \in Objects /\ v \in Objects /\ Same(b, v) /\ empties' = m.py.empties /\ empties' \in Nat
  BY <1>1, <1>2, <1>3, <1>5, <1>6, StandsSame DEF st
<1>8. /\ ls \in Seq(TargetLeaf) /\ ids \in Seq(Int) /\ DOMAIN ids = DOMAIN ls
      /\ \A j \in DOMAIN ls : ls[j].at \in Places
  <2>1. st.t \in Groups
    BY <1>1, <1>3 DEF Stmts
  <2>2. ls \in Seq(TargetLeaf) /\ ids \in Seq(Int) /\ DOMAIN ids = DOMAIN ls
    BY <2>1 DEF Groups
  <2>3. \A j \in DOMAIN ls : ls[j] \in TargetLeaf
    BY <2>2, LenProperties, ElementOfSeq
  <2> QED
    BY <2>2, <2>3 DEF TargetLeaf
<1>9. Fits(st.t, b) <=> Fits(st.t, v)
  BY <1>7, SameFits
<1> HIDE DEF b
<1>10. ~ m.py.raised /\ m \in Machines /\ m.py \in PyStates
  BY <1>2 DEF Related, Machines
<1>11. /\ code' \in Seq(Stmts) /\ RhsFirst(code') /\ Hides(code') /\ python' \in PyStates
       /\ ~ AtValue'
  BY <1>1, <1>6, RestRuns
<1>12. CASE Fits(st.t, b)
  <2>1. w.py = m.py /\ w.t = With(m.t, ids, Parts(ls, v))
    BY <1>1, <1>4, <1>9, <1>12 DEF Acts
  <2>2. temps' = With(temps, ids, Parts(ls, b)) /\ status' = status
    BY <1>6, <1>12
  <2>3. ASSUME NEW j \in DOMAIN ids
        PROVE  Parts(ls, b)[j] \in Objects /\ Same(Parts(ls, b)[j], Parts(ls, v)[j])
    <3>1. j \in DOMAIN st.t.leaves /\ st.t.leaves[j].at \in Places
      BY <1>8
    <3>2. Parts(ls, b)[j] = Part(b, ls[j].at) /\ Parts(ls, v)[j] = Part(v, ls[j].at)
      BY <3>1 DEF Parts
    <3>3. Part(b, ls[j].at) \in Objects
      BY <1>7, <1>12, <3>1, FitsParts
    <3>4. PICK r \in DOMAIN b : IsPrefix(ls[j].at, r)
      BY <1>7, <1>12, <3>1, FitsParts
    <3>5. Same(Part(b, ls[j].at), Part(v, ls[j].at))
      BY <1>7, <3>1, <3>4, SamePart
    <3> QED
      BY <3>2, <3>3, <3>5
  <2> HIDE DEF ids, ls
  <2>4. temps' \in Temps
    BY <1>1, <1>8, <2>2, <2>3, WithType DEF TypeA
  <2>5. DOMAIN temps' = DOMAIN w.t /\ \A i \in DOMAIN temps' : Same(temps'[i], w.t[i])
    <3>1. DOMAIN temps = DOMAIN m.t /\ \A i \in DOMAIN temps : Same(temps[i], m.t[i])
      BY <1>2 DEF Related
    <3>2. \A j \in DOMAIN ids : Same(Parts(ls, b)[j], Parts(ls, v)[j])
      BY <2>3
    <3> QED
      BY <2>1, <2>2, <3>1, <3>2, SameWith
  <2>6. TypeA'
    BY <1>1, <1>6, <1>7, <1>11, <2>4 DEF TypeA
  <2>7. Related(o, w)'
    <3>1. /\ o \in Objects /\ ~ w.py.raised /\ SameScopes(scope', w.py.scope) /\ stores' = w.py.stores
          /\ empties' = w.py.empties
      BY <1>2, <1>6, <1>7, <2>1 DEF Related
    <3>2. \E u \in Machines : Leads(code', o, w, u) /\ u.py = python'
      BY <1>4, <1>6
    <3> QED
      BY <1>11, <2>5, <3>1, <3>2 DEF Related
  <2> QED
    BY <1>1, <2>2, <2>6, <2>7 DEF AInv
<1>13. CASE ~ Fits(st.t, b)
  <2>1. w.py = [m.py EXCEPT !.raised = TRUE]
    BY <1>1, <1>4, <1>9, <1>13 DEF Acts
  <2>2. w.py.raised
    BY <1>10, <2>1 DEF PyStates
  <2>3. Tail(code) \in Seq(Stmts)
    BY <1>6, <1>11
  <2>4. python.raised
    BY <1>4, <2>2, <2>3, RaisedLeads
  <2>5. TypeA'
    BY <1>1, <1>6, <1>7, <1>11, <1>13 DEF TypeA
  <2> QED
    BY <1>6, <1>13, <2>4, <2>5 DEF AInv
<1> QED
  BY <1>12, <1>13


(* A new assignment: what the machine does from here is what Python does.  *)
LEMMA AssignA ==
    ASSUME AInv, NEW ts \in Targets, NEW e \in Values, Assign(ts, e)
    PROVE  AInv'
<1>1. /\ TypeA /\ status = "running" /\ code = <<>> /\ Readable(e, scope)
      /\ temps' = <<>> /\ UNCHANGED <<scope, stores, outputs, empties, kept>>
  BY DEF AInv, Assign, Readable
<1>2. PICK o0, m0 : Related(o0, m0)
  BY <1>1 DEF AInv
<1>3. /\ m0.py = python /\ m0 \in Machines /\ ~ python.raised /\ SameScopes(scope, python.scope)
      /\ stores = python.stores /\ empties = python.empties /\ python \in PyStates
  <2>1. ~ AtValue
    BY <1>1 DEF AtValue
  <2>2. PICK u \in Machines : Leads(<<>>, o0, m0, u) /\ u.py = python
    BY <1>1, <1>2 DEF Related
  <2>3. u = m0
    BY <2>2, LeadsNone
  <2> QED
    BY <1>1, <1>2, <2>1, <2>2, <2>3 DEF Related, TypeA
<1>4. temps' \in Temps /\ DOMAIN temps' = {}
  BY <1>1, NoTemps
<1>5. CASE \A j \in DOMAIN ts : Rewrites(ts[j])
  <2>1. code' = VisitAssign(ts) /\ value' = e /\ python' = PyAssign(python, ts, e) /\ status' = status
    BY <1>5 DEF Assign
  <2> DEFINE m == StartOf(python, e)
             o == Evaluates(e, python.scope, python.empties)
  <2>2. /\ scope \in Scopes /\ python.scope \in Scopes /\ python.empties \in Nat /\ empties \in Nat
    BY <1>1, <1>3 DEF TypeA, PyStates
  <2>3. Readable(e, python.scope) /\ Same(Evaluates(e, scope, empties), Evaluates(e, python.scope, empties))
    BY <1>1, <1>3, <2>2, SameEvaluates
  <2>4. /\ code' \in Seq(Stmts) /\ code' # <<>> /\ code'[1].e = Rhs /\ RhsFirst(code') /\ Hides(code')
        /\ m \in Machines
        /\ \E u \in Machines : Leads(code', o, m, u) /\ u.py = python'
    BY <1>3, <1>5, <2>1, <2>3, VisitLeads
  <2>5. python' \in PyStates
    BY <2>4 DEF Machines
  <2>6. /\ m.py.scope = python.scope /\ m.py.stores = python.stores /\ m.py.raised = python.raised
        /\ m.py.empties = python.empties + Calls(e) /\ m.t = <<>>
    BY <1>3 DEF StartOf, PyStates
  <2>7. o \in Objects /\ Same(Evaluates(e, scope, empties), o)
    BY <1>3, <2>2, <2>3, EvaluatesType
  <2> HIDE DEF m, o
  <2>8. AtValue'
    BY <2>4 DEF AtValue
  <2>9. TypeA'
    BY <1>1, <1>4, <2>4, <2>5 DEF TypeA
  <2>10. \E v, w : Related(v, w)'
    <3>1. PICK v, w : v = o /\ w = m
      OBVIOUS
    <3>2. /\ SameScopes(scope', w.py.scope) /\ stores' = w.py.stores /\ ~ w.py.raised
          /\ DOMAIN temps' = DOMAIN w.t /\ \A i \in DOMAIN temps' : Same(temps'[i], w.t[i])
      BY <1>1, <1>3, <1>4, <2>6, <3>1
    <3>3. /\ value' \in Values /\ Readable(value', scope')
          /\ Same(Evaluates(value', scope', empties'), v)
          /\ empties' + Calls(value') = w.py.empties
      BY <1>1, <1>3, <2>1, <2>6, <2>7, <3>1
    <3>4. v \in Objects /\ w \in Machines /\ \E u \in Machines : Leads(code', v, w, u) /\ u.py = python'
      BY <2>4, <2>7, <3>1
    <3>5. Related(v, w)'
      BY <2>8, <3>2, <3>3, <3>4 DEF Related
    <3> QED
      BY <3>5
  <2> QED
    BY <1>1, <2>1, <2>9, <2>10 DEF AInv
<1>6. CASE ~ \A j \in DOMAIN ts : Rewrites(ts[j])
  <2>1. status' = "rejected" /\ UNCHANGED <<code, value, python>>
    BY <1>6 DEF Assign
  <2>2. TypeA'
    BY <1>1, <1>4, <2>1 DEF TypeA
  <2> QED
    BY <2>1, <2>2 DEF AInv
<1> QED
  BY <1>5, <1>6

(* It holds at first.                                                      *)
LEMMA InitA ==
    ASSUME Init
    PROVE  AInv
<1>1. /\ code = <<>> /\ scope = Start /\ temps = <<>> /\ stores = <<>> /\ outputs = <<>> /\ empties = 0
      /\ status = "running"
      /\ python = [scope |-> Start, stores |-> <<>>, empties |-> 0, raised |-> FALSE]
  BY DEF Init
<1>2. Start \in Scopes /\ \A x \in Names : Start[x] = Unbound
  BY DEF Start, Scopes, Things
<1>3. <<>> \in Stores /\ python \in PyStates
  <2>1. <<>> \in Stores
    BY EmptySeq DEF Stores
  <2> QED
    BY <1>1, <1>2, <2>1 DEF PyStates
<1>4. <<>> \in Temps /\ DOMAIN <<>> = {}
  BY NoTemps
<1>5. code \in Seq(Stmts) /\ Len(code) = 0 /\ RhsFirst(code) /\ Hides(code)
  <2>1. code \in Seq(Stmts) /\ Len(code) = 0
    BY <1>1, EmptySeq
  <2> QED
    BY <2>1 DEF RhsFirst, Hides
<1>6. TypeA
  BY <1>1, <1>2, <1>3, <1>4, <1>5, EmptySeq DEF TypeA
<1> DEFINE m == [py |-> python, t |-> <<>>]
           o == Single(Num(0))
<1>7. m \in Machines
  BY <1>3, <1>4 DEF Machines
<1>8. o \in Objects
  <2>1. Num(0) \in Atoms
    BY DEF Num, Atoms
  <2> QED
    BY <2>1, SingleType
<1>9. m.py = python /\ m.t = <<>>
  OBVIOUS
<1> HIDE DEF m, o
<1>10. Leads(code, o, m, m)
  <2>1. \A j \in 1 .. Len(code) : Moves(m, code[j], o, m)
    BY <1>5
  <2> QED
    BY <1>5, <1>7, <2>1, LeadsStay
<1>11. SameScopes(scope, m.py.scope)
  <2>1. Same(Unbound, Unbound)
    BY SameItself DEF Things
  <2> QED
    BY <1>1, <1>2, <1>9, <2>1 DEF SameScopes
<1>12. ~ AtValue
  BY <1>1 DEF AtValue
<1>13. Related(o, m)
  BY <1>1, <1>4, <1>7, <1>8, <1>9, <1>10, <1>11, <1>12 DEF Related
<1> QED
  BY <1>1, <1>6, <1>13 DEF AInv

(* So it holds after every step.                                           *)
LEMMA NextA ==
    ASSUME AInv, [Next]_vars
    PROVE  AInv'
<1>1. CASE \E ts \in Targets, e \in Values : Assign(ts, e)
  BY <1>1, AssignA
<1>2. CASE Bind
  BY <1>2, BindA
<1>3. CASE Keep
  BY <1>3, KeepA
<1>4. CASE Slice
  BY <1>4, SliceA
<1>5. CASE Unpack
  BY <1>5, UnpackA
<1>6. CASE Hide
  BY <1>6, HideA
<1>7. CASE UNCHANGED vars
  <2>1. UNCHANGED <<code, value, scope, temps, stores, outputs, empties, status, python>>
    BY <1>7 DEF vars
  <2> QED
    BY <2>1 DEF AInv, TypeA, Related, AtValue
<1> QED
  BY <1>1, <1>2, <1>3, <1>4, <1>5, <1>6, <1>7 DEF Next

(* And always.                                                             *)
LEMMA AlwaysA ==
    Spec => []AInv
BY InitA, NextA, PTL DEF Spec

(* Between two assignments the rewritten kernel and Python agree on what    *)
(* the names mean, what was stored and how often T.empty was called.        *)
THEOREM RewritingIsPython == Spec => []AssignsAsPython
<1>1. ASSUME AInv PROVE AssignsAsPython
  <2> SUFFICES ASSUME status = "running", code = <<>>
               PROVE  /\ ~ python.raised
                      /\ \A x \in Names : Same(scope[x], python.scope[x])
                      /\ stores = python.stores /\ empties = python.empties
    BY <1>1 DEF AInv, AssignsAsPython
  <2>1. PICK o, m : Related(o, m)
    BY <1>1 DEF AInv
  <2>2. ~ AtValue
    BY DEF AtValue
  <2>3. PICK u \in Machines : Leads(<<>>, o, m, u) /\ u.py = python
    BY <2>1 DEF Related
  <2>4. u = m
    BY <2>3, LeadsNone
  <2> QED
    BY <2>1, <2>2, <2>3, <2>4 DEF Related, SameScopes
<1> QED
  BY <1>1, AlwaysA, PTL


(***************************************************************************)
(* OutputPerCall: the tensors in the scope and the temporaries are outputs, *)
(* and what T.empty returned, while it is in a temporary of its own, waits  *)
(* for the statement that makes it the output that it is not yet.           *)
(***************************************************************************)
Listed(a, outs) == a.k = "tensor" => a.id + 1 \in 1 .. Len(outs) /\ outs[a.id + 1] = a.n
AllListed(o, outs) == \A p \in DOMAIN o : Listed(o[p], outs)
Settled(o, outs) == AllListed(o, outs) /\ ~ \E p \in DOMAIN o : o[p].k = "out"
Once(outs, n) == /\ \A i \in 1 .. Len(outs) : outs[i] \in 0 .. n - 1
                 /\ \A i, j \in 1 .. Len(outs) : outs[i] = outs[j] => i = j
Fresh(c, outs, n) == c \in 0 .. n - 1 /\ \A i \in 1 .. Len(outs) : outs[i] # c
Pending(i, c) == \E j \in 1 .. Len(c) : c[j].s = "hide" /\ c[j].e = i /\ \A k \in 1 .. j : c[k].s = "hide"
Loose(t) == {i \in DOMAIN t : Is(t[i], "out")}

(* Of distinct calls, those in the leaves before are fewer.                 *)
LEMMA CallsGrow ==
    ASSUME NEW e, NEW i \in Nat, NEW j \in Nat, 1 <= i, i <= j, e[i].k = "empty"
    PROVE  CallsIn(e, i - 1) \in Nat /\ CallsIn(e, j) \in Nat /\ CallsIn(e, i - 1) < CallsIn(e, j)
<1> DEFINE A == {h \in 1 .. i - 1 : e[h].k = "empty"}
           B == {h \in 1 .. j : e[h].k = "empty"}
<1>1. i - 1 \in Nat
  OBVIOUS
<1>2. IsFiniteSet(B) /\ CallsIn(e, i - 1) \in Nat /\ CallsIn(e, j) \in Nat
  BY <1>1, CallsInType
<1>3. i \in B /\ i \notin A /\ A \subseteq B
  OBVIOUS
<1>4. CallsIn(e, i - 1) = Cardinality(A) /\ CallsIn(e, j) = Cardinality(B)
  BY DEF CallsIn
<1> HIDE DEF A, B
<1>5. Cardinality(A) <= Cardinality(B) /\ (Cardinality(B) = Cardinality(A) => B = A)
  BY <1>2, <1>3, FS_Subset
<1>6. Cardinality(A) # Cardinality(B)
  BY <1>3, <1>5
<1> QED
  BY <1>2, <1>4, <1>5, <1>6

(* Where what an expression evaluates to is from.                           *)
ComesFrom(a, p, e, sc, n, j) ==
    \/ a.k = "num"
    \/ e[j].k = "empty" /\ p = e[j].at /\ a = Out(n + CallsIn(e, j - 1))
    \/ e[j].k = "read" /\ e[j].x \in Names /\ \E q \in DOMAIN sc[e[j].x] : a = sc[e[j].x][q]

(* Every leaf is from one of these.                                        *)
LEMMA EvaluatesFrom ==
    ASSUME NEW e \in Values, NEW sc \in Scopes, Readable(e, sc), NEW n \in Nat, NEW p \in DOMAIN Evaluates(e, sc, n)
    PROVE  \E j \in DOMAIN e : ComesFrom(Evaluates(e, sc, n)[p], p, e, sc, n, j)
<1>1. PICK j \in DOMAIN e : /\ Holds(e, sc, n, j, p)
                            /\ Evaluates(e, sc, n)[p] = Nested(e[j].at, Yields(e, j, sc, n))[p]
  BY EvaluatesType
<1> DEFINE y == Yields(e, j, sc, n)
           at == e[j].at
<1>2. y \in Objects
  BY YieldsType
<1>3. at \in Places /\ e[j].k \in {"num", "empty", "read"} /\ (e[j].k = "read" => e[j].x \in Names)
  BY LeafIs
<1>4. Beyond(at, p) \in DOMAIN y /\ p = at \o Beyond(at, p) /\ Evaluates(e, sc, n)[p] = y[Beyond(at, p)]
  <2> HIDE DEF y
  <2> QED
    BY <1>1, <1>2, <1>3, NestedType DEF Holds, y
<1>5. CASE e[j].k = "read"
  <2>1. y = sc[e[j].x]
    BY <1>5 DEF Yields
  <2> QED
    BY <1>3, <1>4, <1>5, <2>1 DEF ComesFrom
<1>6. CASE e[j].k # "read"
  <2> DEFINE a == IF e[j].k = "num" THEN Num(e[j].n) ELSE Out(n + CallsIn(e, j - 1))
  <2>1. y = Single(a)
    BY <1>3, <1>6 DEF Yields
  <2>2. DOMAIN y = {<<>>} /\ y[<<>>] = a
    <3> HIDE DEF a
    <3> QED
      BY <2>1 DEF Single
  <2>3. Beyond(at, p) = <<>> /\ p = at
    <3>1. Beyond(at, p) = <<>>
      BY <1>4, <2>2
    <3>2. at \o <<>> = at
      BY <1>3, ConcatEmptySeq DEF Places
    <3> QED
      BY <1>4, <3>1, <3>2
  <2>4. Evaluates(e, sc, n)[p] = a
    BY <1>4, <2>2, <2>3
  <2> QED
    BY <1>3, <1>6, <2>3, <2>4 DEF ComesFrom, Num
<1> QED
  BY <1>5, <1>6

(* In a scope of outputs, the calls of an expression are new ones, and     *)
(* each is in one place.                                                   *)
LEMMA EvaluatesOuts ==
    ASSUME NEW e \in Values, NEW sc \in Scopes, Readable(e, sc), NEW n \in Nat, NEW outs,
           \A x \in Names : Settled(sc[x], outs),
           NEW v, v = Evaluates(e, sc, n)
    PROVE  /\ AllListed(v, outs)
           /\ \A p \in DOMAIN v : v[p].k = "out" => v[p].n \in n .. (n + Calls(e)) - 1
           /\ \A p, q \in DOMAIN v : v[p].k = "out" /\ v[q].k = "out" /\ v[p].n = v[q].n => p = q
<1> DEFINE From(p, j) == e[j].k = "empty" /\ p = e[j].at /\ v[p] = Out(n + CallsIn(e, j - 1))
<1>1. ASSUME NEW p \in DOMAIN v
      PROVE  Listed(v[p], outs) /\ (v[p].k = "out" => \E j \in DOMAIN e : From(p, j))
  <2>1. PICK j \in DOMAIN e : ComesFrom(v[p], p, e, sc, n, j)
    BY EvaluatesFrom
  <2>2. CASE v[p].k = "num"
    BY <2>2 DEF Listed
  <2>3. CASE From(p, j)
    <3>1. v[p].k = "out"
      BY <2>3 DEF Out
    <3> QED
      BY <2>3, <3>1 DEF Listed
  <2>4. CASE e[j].x \in Names /\ \E q \in DOMAIN sc[e[j].x] : v[p] = sc[e[j].x][q]
    BY <2>4 DEF Settled, AllListed
  <2> QED
    BY <2>1, <2>2, <2>3, <2>4 DEF ComesFrom
<1>2. Len(e) \in Nat /\ DOMAIN e = 1 .. Len(e)
  BY ValueIs
<1>3. ASSUME NEW p, NEW j \in DOMAIN e, From(p, j)
      PROVE  v[p].n = n + CallsIn(e, j - 1) /\ CallsIn(e, j - 1) \in Nat /\ CallsIn(e, j - 1) < Calls(e) /\ Calls(e) \in Nat
  <2>1. v[p].n = n + CallsIn(e, j - 1)
    BY <1>3 DEF Out
  <2> QED
    BY <1>2, <1>3, <2>1, CallsGrow DEF Calls
<1>4. ASSUME NEW p \in DOMAIN v, v[p].k = "out" PROVE v[p].n \in n .. (n + Calls(e)) - 1
  <2>1. PICK j \in DOMAIN e : From(p, j)
    BY <1>1, <1>4
  <2>2. v[p].n = n + CallsIn(e, j - 1) /\ CallsIn(e, j - 1) \in Nat /\ CallsIn(e, j - 1) < Calls(e) /\ Calls(e) \in Nat
    BY <1>3, <2>1
  <2> QED
    BY <2>2
<1>5. ASSUME NEW i \in DOMAIN e, NEW j \in DOMAIN e, e[i].k = "empty", i < j
      PROVE  CallsIn(e, i - 1) < CallsIn(e, j - 1)
  <2>1. i \in Nat /\ j - 1 \in Nat /\ 1 <= i /\ i <= j - 1
    BY <1>2, <1>5
  <2> QED
    BY <1>5, <2>1, CallsGrow
<1>6. ASSUME NEW p \in DOMAIN v, NEW q \in DOMAIN v, v[p].k = "out", v[q].k = "out", v[p].n = v[q].n PROVE p = q
  <2>1. PICK i \in DOMAIN e : From(p, i)
    BY <1>1, <1>6
  <2>2. PICK j \in DOMAIN e : From(q, j)
    BY <1>1, <1>6
  <2>3. CallsIn(e, i - 1) \in Nat /\ CallsIn(e, j - 1) \in Nat /\ n + CallsIn(e, i - 1) = n + CallsIn(e, j - 1)
    BY <1>3, <1>6, <2>1, <2>2
  <2>4. ~ (i < j) /\ ~ (j < i)
    BY <1>5, <2>1, <2>2, <2>3
  <2>5. i = j
    BY <1>2, <2>4
  <2> QED
    BY <2>1, <2>2, <2>5
<1> QED
  BY <1>1, <1>4, <1>6 DEF AllListed


(* What Builder.bind makes of an object, and of the outputs.                *)
LEMMA MakesOuts ==
    ASSUME NEW o \in Objects, outputs \in Seq(Int), MakesOutput(o),
           NEW n \in Nat, NEW n2 \in Nat, n <= n2, Once(outputs, n), AllListed(o, outputs),
           Is(o, "out") => Fresh(o[<<>>].n, outputs, n2)
    PROVE  /\ Once(outputs', n2) /\ AllListed(Bound(o), outputs') /\ ~ Is(Bound(o), "out")
           /\ IsSingle(o) \/ ~ HoldsOut(o) => Settled(Bound(o), outputs')
           /\ \A t : AllListed(t, outputs) => AllListed(t, outputs')
           /\ \A c : Fresh(c, outputs, n) /\ (Is(o, "out") => c # o[<<>>].n) => Fresh(c, outputs', n2)
<1>1. Len(outputs) \in Nat /\ DOMAIN outputs = 1 .. Len(outputs)
  BY LenProperties
<1>2. CASE ~ Is(o, "out")
  <2>1. outputs' = outputs /\ Bound(o) = o
    BY <1>2 DEF MakesOutput, Bound
  <2>2. Once(outputs', n2)
    BY <1>1, <2>1 DEF Once
  <2>3. \A c : Fresh(c, outputs, n) => Fresh(c, outputs', n2)
    BY <1>1, <2>1 DEF Fresh
  <2>4. IsSingle(o) \/ ~ HoldsOut(o) => ~ HoldsOut(o)
    BY <1>2 DEF Is, IsSingle, HoldsOut
  <2> QED
    BY <1>2, <2>1, <2>2, <2>3, <2>4 DEF Settled, HoldsOut
<1>3. CASE Is(o, "out")
  <2> DEFINE c == o[<<>>].n
             l == Len(outputs)
             a == Tensor(c, l)
  <2>1. o[<<>>] \in Atoms /\ o[<<>>].k = "out"
    BY <1>3, ObjectIs DEF Is, IsSingle
  <2>2. c \in Int
    BY <2>1 DEF Atoms
  <2>3. outputs' = Append(outputs, c) /\ Bound(o) = Single(a) /\ a \in Atoms /\ a.k = "tensor" /\ a.n = c /\ a.id = l
    BY <1>1, <1>3, <2>2 DEF MakesOutput, Bound, Tensor, Atoms
  <2> HIDE DEF c, a
  <2>4. /\ Len(outputs') = l + 1 /\ outputs'[l + 1] = c
        /\ \A i \in 1 .. l : outputs'[i] = outputs[i]
    BY <2>2, <2>3, AppendProperties
  <2>5. l \in Nat /\ \A i \in 1 .. l + 1 : i \in 1 .. l \/ i = l + 1
    BY <1>1
  <2> HIDE DEF l
  <2>6. c \in 0 .. n2 - 1 /\ \A i \in 1 .. l : outputs[i] # c
    BY <1>3 DEF Fresh, c, l
  <2>7. (\A i \in 1 .. l : outputs[i] \in 0 .. n - 1) /\ (\A i, j \in 1 .. l : outputs[i] = outputs[j] => i = j)
    BY DEF Once, l
  <2>8. \A i \in 1 .. l : outputs[i] \in 0 .. n2 - 1
    BY <2>7
  <2>9. Once(outputs', n2)
    <3>1. \A i \in 1 .. l + 1 : outputs'[i] \in 0 .. n2 - 1
      BY <2>4, <2>5, <2>6, <2>8
    <3>2. \A i, j \in 1 .. l + 1 : outputs'[i] = outputs'[j] => i = j
      BY <2>4, <2>5, <2>6, <2>7
    <3> QED
      BY <2>4, <3>1, <3>2 DEF Once
  <2>10. \A x : Listed(x, outputs) => Listed(x, outputs')
    <3> TAKE x
    <3>1. x.id + 1 \in 1 .. l => x.id + 1 \in 1 .. l + 1 /\ outputs'[x.id + 1] = outputs[x.id + 1]
      BY <2>4, <2>5
    <3> QED
      BY <2>4, <3>1 DEF Listed, l
  <2>11. \A t : AllListed(t, outputs) => AllListed(t, outputs')
    BY <2>10 DEF AllListed
  <2>12. DOMAIN Bound(o) = {<<>>} /\ Bound(o)[<<>>] = a
    BY <2>3, SingleType
  <2>13. Listed(a, outputs')
    <3>1. l + 1 \in 1 .. l + 1
      BY <2>5
    <3> QED
      BY <2>3, <2>4, <3>1 DEF Listed
  <2>14. Settled(Bound(o), outputs') /\ ~ Is(Bound(o), "out") /\ AllListed(Bound(o), outputs')
    BY <2>3, <2>12, <2>13 DEF Settled, AllListed, Is
  <2>15. ASSUME NEW d, Fresh(d, outputs, n), d # c PROVE Fresh(d, outputs', n2)
    <3>1. d \in 0 .. n - 1 /\ \A i \in 1 .. l : outputs[i] # d
      BY <2>15 DEF Fresh, l
    <3>2. d \in 0 .. n2 - 1
      BY <3>1
    <3>3. \A i \in 1 .. l + 1 : outputs'[i] # d
      BY <2>4, <2>5, <2>15, <3>1
    <3> QED
      BY <2>4, <3>2, <3>3 DEF Fresh
  <2> QED
    BY <1>3, <2>9, <2>11, <2>14, <2>15 DEF c
<1> QED
  BY <1>2, <1>3

(* A call of T.empty is once at most an output, or waits for it in one      *)
(* place.                                                                   *)
OutsKept ==
    /\ Once(outputs, empties)
    /\ \A x \in Names : Settled(scope[x], outputs)
OutsTemps ==
    /\ \A i \in DOMAIN temps : AllListed(temps[i], outputs)
    /\ 0 \in DOMAIN temps => Settled(temps[0], outputs)
OutsLoose ==
    /\ \A i \in Loose(temps) : Pending(i, code) /\ Fresh(temps[i][<<>>].n, outputs, empties)
    /\ \A i, j \in Loose(temps) : temps[i][<<>>].n = temps[j][<<>>].n => i = j
OInv == ~ kept => OutsKept /\ OutsTemps /\ OutsLoose

(* Nothing waits when the next statement is another one.                    *)
LEMMA NoneLoose ==
    ASSUME TypeA, code # <<>>, Head(code).s # "hide", OutsLoose
    PROVE  Loose(temps) = {}
<1>1. Head(code) = code[1]
  BY RestOf DEF TypeA
<1>2. \A i : ~ Pending(i, code)
  <2> SUFFICES ASSUME NEW i, Pending(i, code) PROVE FALSE
    OBVIOUS
  <2>1. PICK j \in 1 .. Len(code) : \A k \in 1 .. j : code[k].s = "hide"
    BY DEF Pending
  <2>2. 1 \in 1 .. j
    BY LenProperties DEF TypeA
  <2> QED
    BY <1>1, <2>1, <2>2
<1> QED
  BY <1>2 DEF OutsLoose

(* What the next statement assigns, as to outputs.                          *)
LEMMA StandsOuts ==
    ASSUME AInv, status = "running", code # <<>>, Head(code).s # "hide", ~ kept, OInv,
           NEW e, e = Head(code).e, Counts(e), NEW b, b = Stands(e)
    PROVE  /\ b \in Objects /\ AllListed(b, outputs) /\ empties' \in Nat /\ empties <= empties'
           /\ Is(b, "out") => Fresh(b[<<>>].n, outputs, empties')
           /\ e \in {Rhs, 0} =>
                /\ \A p \in DOMAIN b : b[p].k = "out" => Fresh(b[p].n, outputs, empties')
                /\ \A p, q \in DOMAIN b : b[p].k = "out" /\ b[q].k = "out" /\ b[p].n = b[q].n => p = q
<1>1. TypeA /\ OutsKept /\ OutsTemps /\ OutsLoose
  BY DEF AInv, OInv
<1>2. PICK o, m : Related(o, m)
  BY DEF AInv
<1>3. Head(code) = code[1] /\ (e = Rhs \/ e \in DOMAIN temps) /\ empties \in Nat
  BY <1>1, <1>2, NextMove, RestOf DEF TypeA
<1>4. CASE e = Rhs
  <2>1. value \in Values /\ Readable(value, scope) /\ scope \in Scopes
    BY <1>1, <1>2, <1>3, <1>4 DEF Related, AtValue, TypeA
  <2>2. b = Evaluates(value, scope, empties) /\ empties' = empties + Calls(value) /\ Calls(value) \in Nat
    BY <1>4, <2>1, CallsType DEF Stands, Counts
  <2>3. b \in Objects
    <3>1. Evaluates(value, scope, empties) \in Objects
      BY <1>3, <2>1, EvaluatesType
    <3> QED
      BY <2>2, <3>1
  <2>4. /\ AllListed(b, outputs)
        /\ \A p \in DOMAIN b : b[p].k = "out" => b[p].n \in empties .. (empties + Calls(value)) - 1
        /\ \A p, q \in DOMAIN b : b[p].k = "out" /\ b[q].k = "out" /\ b[p].n = b[q].n => p = q
    <3>1. \A x \in Names : Settled(scope[x], outputs)
      BY <1>1 DEF OutsKept
    <3> QED
      BY <1>3, <2>1, <2>2, <3>1, EvaluatesOuts
  <2>5. ASSUME NEW p \in DOMAIN b, b[p].k = "out" PROVE Fresh(b[p].n, outputs, empties')
    <3>1. b[p].n \in empties .. (empties + Calls(value)) - 1
      BY <2>4, <2>5
    <3>2. b[p].n \in 0 .. empties' - 1 /\ b[p].n \notin 0 .. empties - 1
      BY <1>3, <2>2, <3>1
    <3>3. \A i \in 1 .. Len(outputs) : outputs[i] \in 0 .. empties - 1
      BY <1>1 DEF OutsKept, Once
    <3> QED
      BY <3>2, <3>3 DEF Fresh
  <2>6. Is(b, "out") => <<>> \in DOMAIN b /\ b[<<>>].k = "out"
    BY DEF Is, IsSingle
  <2>7. empties' \in Nat /\ empties <= empties'
    BY <1>3, <2>2
  <2> QED
    BY <2>3, <2>4, <2>5, <2>6, <2>7
<1>5. CASE e # Rhs
  <2>1. b = temps[e] /\ empties' = empties /\ e \in DOMAIN temps
    BY <1>3, <1>5 DEF Stands, Counts
  <2>2. b \in Objects
    BY <1>1, <2>1, TempsAre DEF TypeA
  <2>3. AllListed(b, outputs) /\ (e = 0 => Settled(b, outputs))
    BY <1>1, <2>1 DEF OutsTemps
  <2>4. ~ Is(b, "out")
    BY <1>1, <2>1, NoneLoose DEF Loose
  <2> QED
    BY <1>3, <1>5, <2>1, <2>2, <2>3, <2>4 DEF Settled
<1> QED
  BY <1>4, <1>5


(* Binding a name: what is bound is an output then, and no tuple is kept.  *)
LEMMA BindO ==
    ASSUME AInv, OInv, Bind
    PROVE  OInv'
<1> DEFINE st == Head(code)
           x == st.t.x
           b == Stands(st.e)
<1>1. TypeA /\ status = "running" /\ code # <<>> /\ st.s = "bind"
  BY DEF AInv, Bind, Run
<1>2. /\ scope' = [scope EXCEPT ![x] = Bound(b)] /\ MakesOutput(b) /\ Keeps(b) /\ Counts(st.e)
      /\ UNCHANGED temps
  BY DEF Bind
<1> SUFFICES ASSUME ~ kept' PROVE OutsKept' /\ OutsTemps' /\ OutsLoose'
  BY DEF OInv
<1>3. ~ kept /\ (IsSingle(b) \/ ~ HoldsOut(b))
  BY <1>2 DEF Keeps
<1>4. OutsKept /\ OutsTemps /\ OutsLoose /\ scope \in Scopes /\ outputs \in Seq(Int) /\ empties \in Nat
  BY <1>1, <1>3 DEF OInv, TypeA
<1> HIDE DEF x
<1>5. /\ b \in Objects /\ AllListed(b, outputs) /\ empties' \in Nat /\ empties <= empties'
      /\ Is(b, "out") => Fresh(b[<<>>].n, outputs, empties')
  BY <1>1, <1>2, <1>3, StandsOuts
<1>6. Loose(temps) = {}
  BY <1>1, <1>4, NoneLoose
<1> HIDE DEF b, st
<1>7. /\ Once(outputs', empties') /\ Settled(Bound(b), outputs')
      /\ \A t : AllListed(t, outputs) => AllListed(t, outputs')
  BY <1>2, <1>3, <1>4, <1>5, MakesOuts DEF OutsKept
<1>8. \A t : Settled(t, outputs) => Settled(t, outputs')
  BY <1>7 DEF Settled
<1>9. OutsKept'
  <2>1. \A y \in Names : scope'[y] = IF y = x THEN Bound(b) ELSE scope[y]
    BY <1>2, <1>4 DEF Scopes
  <2> QED
    BY <1>4, <1>7, <1>8, <2>1 DEF OutsKept
<1>10. OutsTemps'
  BY <1>2, <1>4, <1>7, <1>8 DEF OutsTemps
<1>11. OutsLoose'
  <2>1. Loose(temps') = {}
    BY <1>2, <1>6
  <2> QED
    BY <2>1 DEF OutsLoose
<1> QED
  BY <1>9, <1>10, <1>11

(* Keeping the value: as binding does.                                     *)
LEMMA KeepO ==
    ASSUME AInv, OInv, Keep
    PROVE  OInv'
<1> DEFINE st == Head(code)
           b == Stands(Rhs)
<1>1. TypeA /\ status = "running" /\ code # <<>> /\ st.s = "keep"
  BY DEF AInv, Keep, Run
<1>2. /\ temps' = With(temps, <<0>>, <<Bound(b)>>) /\ MakesOutput(b) /\ Keeps(b) /\ Counts(Rhs)
      /\ UNCHANGED scope
  BY DEF Keep
<1> SUFFICES ASSUME ~ kept' PROVE OutsKept' /\ OutsTemps' /\ OutsLoose'
  BY DEF OInv
<1>3. ~ kept /\ (IsSingle(b) \/ ~ HoldsOut(b))
  BY <1>2 DEF Keeps
<1>4. OutsKept /\ OutsTemps /\ OutsLoose /\ outputs \in Seq(Int) /\ empties \in Nat
  BY <1>1, <1>3 DEF OInv, TypeA
<1>5. st.e = Rhs
  <2>1. st \in Stmts
    BY <1>1, RestOf DEF TypeA
  <2> QED
    BY <1>1, <2>1 DEF Stmts
<1>6. /\ b \in Objects /\ AllListed(b, outputs) /\ empties' \in Nat /\ empties <= empties'
      /\ Is(b, "out") => Fresh(b[<<>>].n, outputs, empties')
  BY <1>1, <1>2, <1>3, <1>5, StandsOuts
<1>7. Loose(temps) = {}
  BY <1>1, <1>4, NoneLoose
<1> HIDE DEF b, st
<1>8. /\ Once(outputs', empties') /\ Settled(Bound(b), outputs') /\ ~ Is(Bound(b), "out")
      /\ \A t : AllListed(t, outputs) => AllListed(t, outputs')
  BY <1>2, <1>3, <1>4, <1>6, MakesOuts DEF OutsKept
<1>9. OutsKept'
  BY <1>2, <1>4, <1>8 DEF OutsKept, Settled
<1>10. \A i \in DOMAIN temps' : (i \in DOMAIN temps /\ temps'[i] = temps[i] /\ i # 0) \/ temps'[i] = Bound(b)
  <2> TAKE i \in DOMAIN temps'
  <2>1. DOMAIN <<0>> = {1} /\ <<0>>[1] = 0 /\ <<Bound(b)>>[1] = Bound(b)
    OBVIOUS
  <2>2. \/ i \in DOMAIN temps /\ temps'[i] = temps[i] /\ \A j \in DOMAIN <<0>> : <<0>>[j] # i
        \/ \E j \in DOMAIN <<0>> : <<0>>[j] = i /\ temps'[i] = <<Bound(b)>>[j]
    BY <1>2, WithFrom
  <2> QED
    BY <2>1, <2>2
<1>11. OutsTemps'
  BY <1>4, <1>8, <1>10 DEF OutsTemps, Settled
<1>12. OutsLoose'
  <2>1. Loose(temps') = {}
    BY <1>7, <1>8, <1>10 DEF Loose
  <2> QED
    BY <2>1 DEF OutsLoose
<1> QED
  BY <1>9, <1>11, <1>12

(* When the outputs and the scope stay.                                     *)
LEMMA BelowMore ==
    ASSUME NEW n \in Nat, NEW m \in Nat, n <= m
    PROVE  0 .. n - 1 \subseteq 0 .. m - 1
OBVIOUS

(* With more calls, what was an output still is.                           *)
LEMMA KeptStays ==
    ASSUME OutsKept, UNCHANGED <<scope, outputs>>, empties \in Nat, empties' \in Nat, empties <= empties'
    PROVE  OutsKept'
<1>1. 0 .. empties - 1 \subseteq 0 .. empties' - 1
  BY BelowMore
<1> QED
  BY <1>1 DEF OutsKept, Once

(* Storing: numbers only.                                                  *)
LEMMA SliceO ==
    ASSUME AInv, OInv, Slice
    PROVE  OInv'
<1> DEFINE st == Head(code)
<1>1. TypeA /\ status = "running" /\ code # <<>> /\ st.s = "slice"
  BY DEF AInv, Slice, Run
<1>2. Counts(st.e) /\ UNCHANGED <<scope, temps, outputs, kept>>
  BY DEF Slice
<1> SUFFICES ASSUME ~ kept PROVE OutsKept' /\ OutsTemps' /\ OutsLoose'
  BY <1>2 DEF OInv
<1>3. OutsKept /\ OutsTemps /\ OutsLoose /\ outputs \in Seq(Int) /\ empties \in Nat
  BY <1>1 DEF OInv, TypeA
<1>4. empties' \in Nat /\ empties <= empties'
  BY <1>1, <1>2, StandsOuts
<1>5. Loose(temps) = {}
  BY <1>1, <1>3, NoneLoose
<1>6. OutsKept'
  BY <1>2, <1>3, <1>4, KeptStays
<1>7. OutsTemps' /\ OutsLoose'
  BY <1>2, <1>3, <1>5 DEF OutsTemps, OutsLoose
<1> QED
  BY <1>6, <1>7

(* Hiding: the call is an output now and waits no more; the others wait    *)
(* for the statements after.                                               *)
LEMMA HideO ==
    ASSUME AInv, OInv, Hide
    PROVE  OInv'
<1> DEFINE st == Head(code)
           i == st.e
           b == temps[i]
<1>1. TypeA /\ status = "running" /\ code # <<>> /\ st.s = "hide"
  BY DEF AInv, Hide, Run
<1>2. /\ temps' = [temps EXCEPT ![i] = Bound(temps[i])] /\ MakesOutput(temps[i])
      /\ code' = Tail(code) /\ UNCHANGED <<scope, empties, kept>>
  BY DEF Hide, Done
<1> SUFFICES ASSUME ~ kept PROVE OutsKept' /\ OutsTemps' /\ OutsLoose'
  BY <1>2 DEF OInv
<1>3. OutsKept /\ OutsTemps /\ OutsLoose /\ outputs \in Seq(Int) /\ empties \in Nat
  BY <1>1 DEF OInv, TypeA
<1>4. st = code[1] /\ i \in DOMAIN temps
  <2>1. PICK o, m : Related(o, m)
    BY <1>1 DEF AInv
  <2>2. st \in Stmts /\ st = code[1] /\ (i = Rhs \/ i \in DOMAIN temps)
    BY <1>1, <2>1, NextMove, RestOf DEF TypeA
  <2>3. i # Rhs
    BY <1>1, <2>2 DEF Stmts, Rhs
  <2> QED
    BY <2>2, <2>3
<1> HIDE DEF i, st
<1>5. b \in Objects /\ AllListed(b, outputs) /\ (Is(b, "out") => i \in Loose(temps))
  BY <1>1, <1>3, <1>4, TempsAre DEF TypeA, OutsTemps, Loose
<1>6. Is(b, "out") => Fresh(b[<<>>].n, outputs, empties)
  BY <1>3, <1>5 DEF OutsLoose
<1>7. MakesOutput(b) /\ Once(outputs, empties)
  BY <1>2, <1>3 DEF OutsKept
<1> HIDE DEF b
<1>8. /\ Once(outputs', empties) /\ AllListed(Bound(b), outputs') /\ ~ Is(Bound(b), "out")
      /\ IsSingle(b) \/ ~ HoldsOut(b) => Settled(Bound(b), outputs')
      /\ \A t : AllListed(t, outputs) => AllListed(t, outputs')
      /\ \A c : Fresh(c, outputs, empties) /\ (Is(b, "out") => c # b[<<>>].n) => Fresh(c, outputs', empties)
  BY <1>3, <1>5, <1>6, <1>7, MakesOuts
<1>9. OutsKept'
  BY <1>2, <1>3, <1>8 DEF OutsKept, Settled
<1>10. DOMAIN temps' = DOMAIN temps /\ \A j \in DOMAIN temps : temps'[j] = IF j = i THEN Bound(b) ELSE temps[j]
  BY <1>1, <1>2, TempsAre DEF TypeA, b
<1>11. OutsTemps'
  <2>1. 0 \in DOMAIN temps' => Settled(temps'[0], outputs')
    <3> SUFFICES ASSUME 0 \in DOMAIN temps PROVE Settled(temps'[0], outputs')
      BY <1>10
    <3>1. Settled(temps[0], outputs)
      BY <1>3 DEF OutsTemps
    <3>2. CASE i = 0
      <4>1. ~ HoldsOut(b)
        BY <3>1, <3>2 DEF Settled, HoldsOut, b
      <4> QED
        BY <1>8, <1>10, <3>2, <4>1
    <3>3. CASE i # 0
      BY <1>8, <1>10, <3>1, <3>3 DEF Settled
    <3> QED
      BY <3>2, <3>3
  <2>2. \A j \in DOMAIN temps' : AllListed(temps'[j], outputs')
    BY <1>3, <1>8, <1>10 DEF OutsTemps
  <2> QED
    BY <2>1, <2>2 DEF OutsTemps
<1>12. \A j \in Loose(temps') : j \in Loose(temps) /\ j # i /\ temps'[j] = temps[j]
  BY <1>8, <1>10 DEF Loose
<1>13. ASSUME NEW j \in Loose(temps') PROVE Pending(j, code')
  <2>1. Pending(j, code) /\ j # i
    BY <1>3, <1>12 DEF OutsLoose
  <2>2. PICK h \in 1 .. Len(code) : code[h].s = "hide" /\ code[h].e = j /\ \A k \in 1 .. h : code[k].s = "hide"
    BY <2>1 DEF Pending
  <2>3. h # 1
    BY <1>4, <2>1, <2>2 DEF i
  <2>4. Len(code) \in Nat /\ Len(Tail(code)) = Len(code) - 1 /\ \A k \in 1 .. Len(code) - 1 : Tail(code)[k] = code[k + 1]
    BY <1>1, HeadTailProperties, LenProperties DEF TypeA
  <2> DEFINE d == Tail(code)
             l == Len(code)
  <2> HIDE DEF d, l
  <2>5. h - 1 \in 1 .. l - 1 /\ (h - 1) + 1 = h /\ \A k \in 1 .. h - 1 : k \in 1 .. l - 1 /\ k + 1 \in 1 .. h
    BY <2>3, <2>4 DEF l
  <2>6. d[h - 1] = code[h] /\ \A k \in 1 .. h - 1 : d[k] = code[k + 1]
    <3>1. \A k \in 1 .. l - 1 : d[k] = code[k + 1]
      BY <2>4 DEF d, l
    <3> QED
      BY <2>5, <3>1
  <2>7. h - 1 \in 1 .. Len(d)
    BY <2>4, <2>5 DEF d, l
  <2>8. \A k \in 1 .. h - 1 : d[k].s = "hide"
    BY <2>2, <2>5, <2>6
  <2>9. d[h - 1].s = "hide" /\ d[h - 1].e = j
    BY <2>2, <2>6
  <2>10. Pending(j, d)
    BY <2>7, <2>8, <2>9 DEF Pending
  <2> QED
    BY <1>2, <2>10 DEF d
<1>14. ASSUME NEW j \in Loose(temps') PROVE Fresh(temps'[j][<<>>].n, outputs', empties')
  <2>1. j \in Loose(temps) /\ j # i /\ temps'[j] = temps[j] /\ Fresh(temps[j][<<>>].n, outputs, empties)
    BY <1>3, <1>12 DEF OutsLoose
  <2>2. Is(b, "out") => temps[j][<<>>].n # b[<<>>].n
    BY <1>3, <1>5, <2>1 DEF OutsLoose, b
  <2> QED
    BY <1>2, <1>8, <2>1, <2>2
<1>15. OutsLoose'
  <2>1. \A j, h \in Loose(temps') : temps'[j][<<>>].n = temps'[h][<<>>].n => j = h
    BY <1>3, <1>12 DEF OutsLoose
  <2> QED
    BY <1>13, <1>14, <2>1 DEF OutsLoose
<1> QED
  BY <1>9, <1>11, <1>15


(* A part that is what T.empty returned is at the place of the part.        *)
LEMMA LoosePart ==
    ASSUME NEW o \in Objects, NEW at \in Places, NEW r \in DOMAIN o, IsPrefix(at, r)
    PROVE  /\ Is(Part(o, at), "out") => at \in DOMAIN o /\ o[at].k = "out" /\ Part(o, at)[<<>>] = o[at]
           /\ \A outs : AllListed(o, outs) => AllListed(Part(o, at), outs)
<1>1. \A q \in DOMAIN Part(o, at) : at \o q \in DOMAIN o /\ Part(o, at)[q] = o[at \o q]
  BY PartType
<1>2. at \o <<>> = at
  BY ConcatEmptySeq DEF Places
<1> QED
  BY <1>1, <1>2 DEF Is, IsSingle, AllListed

(* Unpacking the right-hand side: each new call is in one temporary, and   *)
(* its statement follows.                                                  *)
LEMMA UnpackO ==
    ASSUME AInv, OInv, Unpack
    PROVE  OInv'
<1> DEFINE st == Head(code)
           ids == st.t.ids
           ls == st.t.leaves
           b == Stands(st.e)
<1>1. TypeA /\ status = "running" /\ code # <<>> /\ st.s = "unpack"
  BY DEF AInv, Unpack, Run
<1>2. /\ Counts(st.e) /\ code' = Tail(code) /\ UNCHANGED <<scope, outputs, kept>>
      /\ IF Fits(st.t, b) THEN temps' = With(temps, ids, Parts(ls, b)) ELSE UNCHANGED temps
  BY DEF Unpack, Done, Parts
<1> SUFFICES ASSUME ~ kept PROVE OutsKept' /\ OutsTemps' /\ OutsLoose'
  BY <1>2 DEF OInv
<1>3. OutsKept /\ OutsTemps /\ OutsLoose /\ outputs \in Seq(Int) /\ empties \in Nat
  BY <1>1 DEF OInv, TypeA
<1>4. /\ code \in Seq(Stmts) /\ st = code[1] /\ st \in Stmts /\ st.t \in Groups
      /\ st.e \in {Rhs, 0} /\ Follows(code, 1) /\ Len(code) \in Nat /\ Len(code) >= 1
  <2>1. code \in Seq(Stmts) /\ st = code[1] /\ st \in Stmts
    BY <1>1, RestOf DEF TypeA
  <2>2. Len(code) \in Nat /\ Len(code) >= 1
    BY <1>1, <2>1, EmptySeq, LenProperties
  <2>3. Follows(code, 1)
    BY <1>1, <2>2 DEF TypeA, Hides
  <2> QED
    BY <1>1, <2>1, <2>2, <2>3 DEF Stmts, Follows
<1>5. /\ b \in Objects /\ AllListed(b, outputs) /\ empties' \in Nat /\ empties <= empties'
      /\ \A p \in DOMAIN b : b[p].k = "out" => Fresh(b[p].n, outputs, empties')
      /\ \A p, q \in DOMAIN b : b[p].k = "out" /\ b[q].k = "out" /\ b[p].n = b[q].n => p = q
  BY <1>1, <1>2, <1>4, StandsOuts
<1>6. Loose(temps) = {}
  BY <1>1, <1>3, NoneLoose
<1>7. OutsKept'
  BY <1>2, <1>3, <1>5, KeptStays
<1>8. /\ ls \in Seq(TargetLeaf) /\ ids \in Seq(Int) /\ DOMAIN ids = DOMAIN ls
      /\ \A i, j \in DOMAIN ls : IsPrefix(ls[i].at, ls[j].at) => i = j
  BY <1>4 DEF Groups, Apart
<1>9. \A j \in DOMAIN ls : ls[j].at \in Places
  <2>1. \A j \in DOMAIN ls : ls[j] \in TargetLeaf
    BY <1>8, LenProperties, ElementOfSeq
  <2> QED
    BY <2>1 DEF TargetLeaf
<1>10. /\ DOMAIN ids = 1 .. Len(ids) /\ Len(ids) \in Nat
       /\ \A j \in DOMAIN ids : /\ ids[j] # 0 /\ 1 + j <= Len(code)
                                /\ code[1 + j].s = "hide" /\ code[1 + j].e = ids[j]
  BY <1>1, <1>4, <1>8, LenProperties DEF Follows
<1> HIDE DEF b, st
<1>11. CASE ~ Fits(st.t, b)
  BY <1>2, <1>3, <1>6, <1>7, <1>11 DEF OutsTemps, OutsLoose
<1>12. CASE Fits(st.t, b)
  <2> DEFINE at(j) == ls[j].at
  <2>1. \A j \in DOMAIN ids : /\ Parts(ls, b)[j] = Part(b, at(j)) /\ at(j) \in Places
                              /\ \E r \in DOMAIN b : IsPrefix(at(j), r)
    BY <1>8, <1>9, <1>12 DEF Fits, Parts
  <2>2. ASSUME NEW j \in DOMAIN ids
        PROVE  /\ AllListed(Parts(ls, b)[j], outputs)
               /\ Is(Parts(ls, b)[j], "out") => /\ at(j) \in DOMAIN b /\ b[at(j)].k = "out"
                                                /\ Parts(ls, b)[j][<<>>].n = b[at(j)].n
    <3>1. PICK r \in DOMAIN b : IsPrefix(at(j), r)
      BY <2>1
    <3>2. /\ Is(Part(b, at(j)), "out") => at(j) \in DOMAIN b /\ b[at(j)].k = "out" /\ Part(b, at(j))[<<>>] = b[at(j)]
          /\ AllListed(Part(b, at(j)), outputs)
      <4> HIDE DEF at, ls
      <4> QED
        BY <1>5, <2>1, <3>1, LoosePart
    <3> HIDE DEF at, ls, ids
    <3> QED
      BY <2>1, <3>2
  <2> HIDE DEF at
  <2>3. ASSUME NEW i \in DOMAIN temps'
        PROVE  \/ i \in DOMAIN temps /\ temps'[i] = temps[i]
               \/ \E j \in DOMAIN ids : ids[j] = i /\ temps'[i] = Parts(ls, b)[j]
    BY <1>2, <1>12, <2>3, WithFrom
  <2>4. 0 \in DOMAIN temps' => 0 \in DOMAIN temps /\ temps'[0] = temps[0]
    BY <1>10, <2>3
  <2>5. OutsTemps'
    BY <1>2, <1>3, <2>2, <2>3, <2>4 DEF OutsTemps
  <2>6. \A i \in Loose(temps') : \E j \in DOMAIN ids : /\ ids[j] = i /\ at(j) \in DOMAIN b /\ b[at(j)].k = "out"
                                                       /\ temps'[i][<<>>].n = b[at(j)].n
    <3> TAKE i \in Loose(temps')
    <3>1. i \in DOMAIN temps' /\ Is(temps'[i], "out")
      BY DEF Loose
    <3>2. ~ (i \in DOMAIN temps /\ temps'[i] = temps[i])
      BY <1>6, <3>1 DEF Loose
    <3>3. PICK j \in DOMAIN ids : ids[j] = i /\ temps'[i] = Parts(ls, b)[j]
      BY <2>3, <3>1, <3>2
    <3> QED
      BY <2>2, <3>1, <3>3
  <2>7. ASSUME NEW j \in DOMAIN ids PROVE Pending(ids[j], code')
    <3> DEFINE d == Tail(code)
               l == Len(code)
    <3>1. Len(d) = l - 1 /\ \A k \in 1 .. l - 1 : d[k] = code[k + 1]
      BY <1>1, <1>4, HeadTailProperties
    <3> HIDE DEF d, l, ids
    <3>2. l \in Nat /\ j \in 1 .. l - 1 /\ \A k \in 1 .. j : k \in DOMAIN ids /\ k \in 1 .. l - 1 /\ k + 1 = 1 + k
      BY <1>4, <1>10 DEF l
    <3>3. \A k \in 1 .. j : d[k].s = "hide" /\ d[k].e = ids[k]
      BY <1>10, <3>1, <3>2
    <3>4. j \in 1 .. j /\ j \in 1 .. Len(d)
      BY <3>1, <3>2
    <3>5. Pending(ids[j], d)
      BY <3>3, <3>4 DEF Pending
    <3> QED
      BY <1>2, <3>5 DEF d
  <2>8. \A i, j \in DOMAIN ids : at(i) = at(j) => i = j
    <3> TAKE i, j \in DOMAIN ids
    <3>1. at(i) \in Places => IsPrefix(at(i), at(i))
      BY LenProperties DEF IsPrefix, Places
    <3> QED
      BY <1>8, <1>9, <3>1 DEF at
  <2>9. \A i \in Loose(temps') : Pending(i, code') /\ Fresh(temps'[i][<<>>].n, outputs', empties')
    BY <1>2, <1>5, <2>6, <2>7
  <2>10. \A i, j \in Loose(temps') : temps'[i][<<>>].n = temps'[j][<<>>].n => i = j
    BY <1>5, <2>6, <2>8
  <2>11. OutsLoose'
    BY <2>9, <2>10 DEF OutsLoose
  <2> QED
    BY <1>7, <2>5, <2>11
<1> QED
  BY <1>11, <1>12

(* A new assignment has no temporaries.                                    *)
LEMMA AssignO ==
    ASSUME AInv, OInv, NEW ts \in Targets, NEW e \in Values, Assign(ts, e)
    PROVE  OInv'
<1>1. temps' = <<>> /\ UNCHANGED <<scope, stores, outputs, empties, kept>>
  BY DEF Assign
<1>2. DOMAIN temps' = {}
  BY <1>1, NoTemps
<1> QED
  BY <1>1, <1>2 DEF OInv, OutsKept, OutsTemps, OutsLoose, Loose

(* At first there is none to tell.                                         *)
LEMMA InitO ==
    ASSUME Init
    PROVE  OInv
<1>1. scope = Start /\ temps = <<>> /\ outputs = <<>> /\ DOMAIN temps = {} /\ Len(outputs) = 0
  BY NoTemps, EmptySeq DEF Init
<1>2. \A x \in Names : scope[x] = Unbound
  BY <1>1 DEF Start
<1>3. DOMAIN Unbound = {}
  BY DEF Unbound
<1>4. \A x \in Names : Settled(scope[x], outputs)
  BY <1>2, <1>3 DEF Settled, AllListed
<1>5. Once(outputs, empties)
  BY <1>1 DEF Once
<1> QED
  BY <1>1, <1>4, <1>5 DEF OInv, OutsKept, OutsTemps, OutsLoose, Loose

(* So every step keeps it.                                                 *)
LEMMA NextO ==
    ASSUME AInv, OInv, [Next]_vars
    PROVE  OInv'
<1>1. CASE \E ts \in Targets, e \in Values : Assign(ts, e)
  BY <1>1, AssignO
<1>2. CASE Bind
  BY <1>2, BindO
<1>3. CASE Keep
  BY <1>3, KeepO
<1>4. CASE Slice
  BY <1>4, SliceO
<1>5. CASE Unpack
  BY <1>5, UnpackO
<1>6. CASE Hide
  BY <1>6, HideO
<1>7. CASE UNCHANGED vars
  <2>1. UNCHANGED <<code, scope, temps, outputs, empties, kept>>
    BY <1>7 DEF vars
  <2> QED
    BY <2>1 DEF OInv, OutsKept, OutsTemps, OutsLoose
<1> QED
  BY <1>1, <1>2, <1>3, <1>4, <1>5, <1>6, <1>7 DEF Next

(* And it holds always.                                                    *)
LEMMA AlwaysO ==
    Spec => []OInv
BY AlwaysA, InitO, NextO, PTL DEF Spec

(* Every output is another call of T.empty, so there are no more of them.   *)
LEMMA OnceIsFew ==
    ASSUME NEW outs \in Seq(Int), NEW n \in Nat, Once(outs, n)
    PROVE  Len(outs) <= n
<1>1. Len(outs) \in Nat /\ outs \in [1 .. Len(outs) -> Int]
  BY LenProperties
<1>2. outs \in [1 .. Len(outs) -> 0 .. n - 1]
  BY <1>1 DEF Once
<1>3. outs \in Injection(1 .. Len(outs), 0 .. n - 1)
  BY <1>2 DEF Once, Injection, IsInjective
<1>4. IsFiniteSet(0 .. n - 1) /\ Cardinality(0 .. n - 1) = n /\ Cardinality(1 .. Len(outs)) = Len(outs)
  <2> DEFINE l == Len(outs)
  <2>1. l \in Int /\ l >= 0 /\ n - 1 \in Int /\ 0 \in Int /\ 1 \in Int
    BY <1>1
  <2> HIDE DEF l
  <2>2. IsFiniteSet(0 .. n - 1) /\ Cardinality(0 .. n - 1) = IF 0 > n - 1 THEN 0 ELSE (n - 1) - 0 + 1
    BY <2>1, FS_Interval
  <2>3. Cardinality(1 .. l) = IF 1 > l THEN 0 ELSE (l - 1) + 1
    BY <2>1, FS_Interval
  <2> QED
    BY <2>1, <2>2, <2>3 DEF l
<1>5. Cardinality(1 .. Len(outs)) <= Cardinality(0 .. n - 1)
  BY <1>3, <1>4, FS_Injection
<1> QED
  BY <1>4, <1>5

(* While no tuple that holds what T.empty returned was kept, every call of  *)
(* it made one output at most: a tensor in scope is the output that it says *)
(* it is, and two for one call are one.                                     *)
THEOREM CallsMakeOneOutput == Spec => []OutputPerCall
<1>1. ASSUME AInv, OInv PROVE OutputPerCall
  <2> SUFFICES ASSUME ~ kept
               PROVE  /\ Len(outputs) <= empties
                      /\ \A x \in Names : \A o \in TensorsOf(scope[x]) : outputs[o.id + 1] = o.n
                      /\ \A x, y \in Names : \A o \in TensorsOf(scope[x]), p \in TensorsOf(scope[y]) : o.n = p.n => o = p
    BY DEF OutputPerCall
  <2>1. OutsKept /\ outputs \in Seq(Int) /\ empties \in Nat /\ scope \in Scopes
    BY <1>1 DEF OInv, AInv, TypeA
  <2>2. Len(outputs) <= empties
    BY <2>1, OnceIsFew DEF OutsKept
  <2>3. ASSUME NEW x \in Names, NEW o \in TensorsOf(scope[x])
        PROVE  /\ o.id + 1 \in 1 .. Len(outputs) /\ outputs[o.id + 1] = o.n
               /\ o \in [k : {"tensor"}, n : Int, id : Nat]
    <3>1. PICK q \in DOMAIN scope[x] : o = scope[x][q] /\ o.k = "tensor"
      BY DEF TensorsOf
    <3>2. scope[x] \in Things /\ scope[x] # Unbound
      <4>1. DOMAIN Unbound = {}
        BY DEF Unbound
      <4> QED
        BY <2>1, <3>1, <4>1 DEF Scopes
    <3>3. o \in Atoms
      BY <3>1, <3>2, ThingIs, ObjectIs
    <3>4. Listed(o, outputs)
      BY <2>1, <3>1 DEF OutsKept, Settled, AllListed
    <3> QED
      BY <3>1, <3>3, <3>4 DEF Listed, Atoms
  <2>4. ASSUME NEW x \in Names, NEW y \in Names, NEW o \in TensorsOf(scope[x]), NEW p \in TensorsOf(scope[y]), o.n = p.n
        PROVE  o = p
    <3>1. /\ o.id + 1 \in 1 .. Len(outputs) /\ outputs[o.id + 1] = o.n /\ o \in [k : {"tensor"}, n : Int, id : Nat]
          /\ p.id + 1 \in 1 .. Len(outputs) /\ outputs[p.id + 1] = p.n /\ p \in [k : {"tensor"}, n : Int, id : Nat]
      BY <2>3
    <3>2. o.id + 1 = p.id + 1
      BY <2>1, <2>4, <3>1 DEF OutsKept, Once
    <3>3. o.id \in Nat /\ p.id \in Nat
      BY <3>1
    <3>4. o.id = p.id
      BY <3>2, <3>3
    <3> QED
      BY <2>4, <3>1, <3>4
  <2> QED
    BY <2>2, <2>3, <2>4
<1> QED
  BY <1>1, AlwaysA, AlwaysO, PTL
=============================================================================
