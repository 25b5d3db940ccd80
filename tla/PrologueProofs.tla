--------------------------- MODULE PrologueProofs ---------------------------
(***************************************************************************)
(* Whatever a kernel is called with and declares: every tensor it names has *)
(* one place, and the emitter refuses just the nested declarations.         *)
(***************************************************************************)
EXTENDS Prologue, TLAPS, SequenceTheorems, FiniteSetTheorems

(***************************************************************************)
(* The invariant.                                                           *)
(***************************************************************************)
EntryBlock == 1 \in DOMAIN blocks /\ blocks[1].op = "func"

(* A body that has an index has it as an argument, and another one besides  *)
(* just when a tensor was declared in one.                                  *)
NestedGrows ==
    /\ \A b \in DOMAIN blocks : blocks[b].op \in Indexed => Len(blocks[b].args) >= 1
    /\ nested <=> \E b \in DOMAIN blocks : ~BodyEmits(b)

(* The signature lists a value once, at the place its index says.           *)
ListedOnce ==
    /\ \A j, l \in DOMAIN params : params[j].value = params[l].value => j = l
    /\ \A j, l \in DOMAIN outputs : outputs[j].value = outputs[l].value => j = l
    /\ \A j \in DOMAIN params, l \in DOMAIN outputs : params[j].value # outputs[l].value
Indices ==
    /\ \A j \in DOMAIN params : params[j].index = j - 1
    /\ \A j \in DOMAIN outputs : outputs[j].index = j - 1

(* What it lists is an argument of one block.                               *)
Listed == {params[j].value : j \in DOMAIN params} \cup {outputs[j].value : j \in DOMAIN outputs}
Owns(b, v) == \E j \in DOMAIN blocks[b].args : blocks[b].args[j] = v
OwnedOnce ==
    \A v \in Listed : \E b \in DOMAIN blocks :
        Owns(b, v) /\ \A c \in DOMAIN blocks : Owns(c, v) => c = b

(* What a name stands for and what is used is listed.                       *)
NamesListed == \A x \in Names : at[x].k = "tensor" => at[x].v \in Listed
UsesListed == uses \subseteq Listed

Layout == EntryBlock /\ ListedOnce /\ Indices /\ OwnedOnce
IInv == TypeOK /\ Layout /\ NestedGrows /\ NamesListed /\ UsesListed /\ RefusesNested

(***************************************************************************)
(* Sequences, and the types that grow with next.                            *)
(***************************************************************************)
BlocksTo(n) == [op : {"func", "for", "kernel", "if", "while"}, args : Seq(0 .. n - 1)]
EntriesTo(n) == [name : Names \cup {"tmp"}, index : Nat, value : 0 .. n - 1]
ObjectsTo(n) == Passable \cup {Unbound} \cup {Tensor(v) : v \in 0 .. n - 1}

LEMMA Cat ==
    ASSUME NEW S, NEW s \in Seq(S), NEW r \in Seq(S)
    PROVE  /\ s \o r \in Seq(S) /\ Len(s \o r) = Len(s) + Len(r)
           /\ DOMAIN (s \o r) = 1 .. Len(s) + Len(r) /\ Len(s) \in Nat /\ Len(r) \in Nat
           /\ DOMAIN s = 1 .. Len(s) /\ DOMAIN r = 1 .. Len(r)
           /\ \A j \in 1 .. Len(s) : (s \o r)[j] = s[j]
           /\ \A j \in 1 .. Len(r) : (s \o r)[Len(s) + j] = r[j]
    BY SMT

LEMMA App ==
    ASSUME NEW S, NEW s \in Seq(S), NEW x \in S
    PROVE  /\ Append(s, x) \in Seq(S) /\ Len(Append(s, x)) = Len(s) + 1
           /\ DOMAIN Append(s, x) = 1 .. Len(s) + 1 /\ Len(s) \in Nat
           /\ DOMAIN s = 1 .. Len(s)
           /\ \A j \in 1 .. Len(s) : Append(s, x)[j] = s[j]
           /\ Append(s, x)[Len(s) + 1] = x
    BY SMT

LEMMA SeqGrows ==
    ASSUME NEW S, NEW T, S \subseteq T, NEW s \in Seq(S)
    PROVE  s \in Seq(T)
    BY SMT

LEMMA Monotone ==
    ASSUME NEW m \in Nat, NEW n \in Nat, m <= n
    PROVE  /\ ObjectsTo(m) \subseteq ObjectsTo(n)
           /\ \A s \in Seq(EntriesTo(m)) : s \in Seq(EntriesTo(n))
           /\ \A s \in Seq(BlocksTo(m)) : s \in Seq(BlocksTo(n))
<1>1. 0 .. m - 1 \subseteq 0 .. n - 1
    OBVIOUS
<1>2. ObjectsTo(m) \subseteq ObjectsTo(n)
    BY <1>1 DEF ObjectsTo
<1>3. EntriesTo(m) \subseteq EntriesTo(n)
    BY <1>1 DEF EntriesTo
<1>4. \A s \in Seq(0 .. m - 1) : s \in Seq(0 .. n - 1)
    BY <1>1, SeqGrows
<1>5. BlocksTo(m) \subseteq BlocksTo(n)
    BY <1>4 DEF BlocksTo
<1> QED
    BY <1>2, <1>3, <1>5, SeqGrows

(* The types of what a declaration changes.                                 *)
LEMMA Typed ==
    ASSUME TypeOK
    PROVE  /\ next \in Nat /\ blocks \in Seq(BlocksTo(next)) /\ at \in [Names -> ObjectsTo(next)]
           /\ params \in Seq(EntriesTo(next)) /\ outputs \in Seq(EntriesTo(next))
           /\ Here \in DOMAIN blocks
           /\ Len(blocks) \in Nat /\ DOMAIN blocks = 1 .. Len(blocks)
           /\ \A b \in DOMAIN blocks : blocks[b] \in BlocksTo(next)
           /\ Listed \subseteq 0 .. next - 1
<1>1. /\ next \in Nat /\ blocks \in Seq(BlocksTo(next)) /\ at \in [Names -> ObjectsTo(next)]
      /\ params \in Seq(EntriesTo(next)) /\ outputs \in Seq(EntriesTo(next))
    BY DEF TypeOK, BlocksTo, EntriesTo, ObjectsTo, Objects, Entries
<1>2. Here \in DOMAIN blocks
    BY EmptySeq, LenProperties, ElementOfSeq DEF TypeOK, Here
<1>3. /\ Len(blocks) \in Nat /\ DOMAIN blocks = 1 .. Len(blocks)
      /\ \A b \in DOMAIN blocks : blocks[b] \in BlocksTo(next)
    BY <1>1, LenProperties, ElementOfSeq
<1>4. /\ \A j \in DOMAIN params : params[j] \in EntriesTo(next)
      /\ \A j \in DOMAIN outputs : outputs[j] \in EntriesTo(next)
    BY <1>1, LenProperties, ElementOfSeq
<1>5. Listed \subseteq 0 .. next - 1
    BY <1>4 DEF Listed, EntriesTo
<1> QED
    BY <1>1, <1>2, <1>3, <1>5

(* The signature lists what is listed.                                      *)
LEMMA SignatureLists ==
    ASSUME TypeOK
    PROVE  /\ Emitted = Listed
           /\ ListedOnce => \A v \in Listed : Cardinality(Places(v)) = 1
<1> DEFINE p == Len(params)
           o == Len(outputs)
<1>1. /\ p \in Nat /\ o \in Nat /\ DOMAIN params = 1 .. p /\ DOMAIN outputs = 1 .. o
      /\ DOMAIN Signature = 1 .. p + o
      /\ \A j \in 1 .. p : Signature[j] = params[j]
      /\ \A j \in 1 .. o : Signature[p + j] = outputs[j]
    BY Typed, Cat DEF Signature
<1>2. \A j \in 1 .. p + o : j \in 1 .. p \/ \E l \in 1 .. o : j = p + l
    <2> TAKE j \in 1 .. p + o
    <2>1. CASE j > p
        <3>1. j - p \in 1 .. o /\ j = p + (j - p)
            BY <1>1, <2>1
        <3> QED
            BY <3>1
    <2> QED
        BY <1>1, <2>1
<1>3. \A l \in 1 .. o : p + l \in 1 .. p + o
    BY <1>1
<1>4. \A j \in 1 .. p : j \in 1 .. p + o
    BY <1>1
<1> HIDE DEF p, o
<1>5. Emitted = Listed
    <2>1. ASSUME NEW v \in Emitted
          PROVE  v \in Listed
        <3>1. PICK j \in 1 .. p + o : v = Signature[j].value
            BY <1>1 DEF Emitted
        <3> QED
            BY <1>1, <1>2, <3>1 DEF Listed
    <2>2. ASSUME NEW v \in Listed
          PROVE  v \in Emitted
        <3>1. CASE \E j \in 1 .. p : v = params[j].value
            BY <1>1, <1>4, <3>1 DEF Emitted
        <3>2. CASE \E j \in 1 .. o : v = outputs[j].value
            BY <1>1, <1>3, <3>2 DEF Emitted
        <3> QED
            BY <1>1, <3>1, <3>2 DEF Listed
    <2> QED
        BY <2>1, <2>2
<1>6. ASSUME ListedOnce, NEW v \in Listed
      PROVE  Cardinality(Places(v)) = 1
    <2>1. PICK j \in 1 .. p + o : Signature[j].value = v
        BY <1>1, <1>5 DEF Emitted
    <2>2. ASSUME NEW l \in 1 .. p + o, Signature[l].value = v
          PROVE  l = j
        <3>1. CASE j \in 1 .. p /\ l \in 1 .. p
            BY <1>1, <1>6, <2>1, <2>2, <3>1 DEF ListedOnce
        <3>2. ASSUME j \in 1 .. p, NEW m \in 1 .. o, l = p + m
              PROVE  FALSE
            <4>1. params[j].value = outputs[m].value
                BY <1>1, <2>1, <2>2, <3>2
            <4> QED
                BY <1>1, <1>6, <3>2, <4>1 DEF ListedOnce
        <3>3. ASSUME l \in 1 .. p, NEW m \in 1 .. o, j = p + m
              PROVE  FALSE
            <4>1. params[l].value = outputs[m].value
                BY <1>1, <2>1, <2>2, <3>3
            <4> QED
                BY <1>1, <1>6, <3>3, <4>1 DEF ListedOnce
        <3>4. ASSUME NEW m \in 1 .. o, NEW i \in 1 .. o, j = p + m, l = p + i
              PROVE  l = j
            <4>1. outputs[m].value = outputs[i].value
                BY <1>1, <2>1, <2>2, <3>4
            <4>2. m = i
                BY <1>1, <1>6, <4>1 DEF ListedOnce
            <4> QED
                BY <3>4, <4>2
        <3> QED
            BY <1>2, <3>1, <3>2, <3>3, <3>4
    <2>3. Places(v) = {j}
        BY <1>1, <2>1, <2>2 DEF Places
    <2> QED
        BY <2>3, FS_Singleton
<1> QED
    BY <1>5, <1>6

(***************************************************************************)
(* The ways in which the layout changes.                                    *)
(***************************************************************************)

(* A value that is in the layout keeps its owners, whatever the rest.       *)
LayoutVars == <<blocks, params, outputs, next>>
LEMMA LayoutStays ==
    ASSUME Layout, UNCHANGED LayoutVars
    PROVE  Layout' /\ Listed' = Listed
    BY DEF Layout, LayoutVars, EntryBlock, ListedOnce, Indices, OwnedOnce, Owns, Listed

(* An argument of the current block becomes a param.                        *)
LEMMA ArgumentLayout ==
    ASSUME TypeOK, Layout, NEW x \in Names, Argument(x), UNCHANGED outputs
    PROVE  /\ Layout' /\ Listed' = Listed \cup {next} /\ next' = next + 1
           /\ blocks' \in Seq(BlocksTo(next')) /\ DOMAIN blocks' = DOMAIN blocks
           /\ params' \in Seq(EntriesTo(next')) /\ outputs' \in Seq(EntriesTo(next'))
           /\ \A b \in DOMAIN blocks : blocks'[b].op = blocks[b].op
           /\ Len(blocks'[Here].args) = Len(blocks[Here].args) + 1
           /\ \A b \in DOMAIN blocks : b # Here => blocks'[b] = blocks[b]
<1> DEFINE h == Here
           e == Entry(x, params)
           f == [blocks[h] EXCEPT !.args = Append(@, next)]
           n == Len(params)
<1>1. /\ next \in Nat /\ blocks \in Seq(BlocksTo(next)) /\ params \in Seq(EntriesTo(next))
      /\ outputs \in Seq(EntriesTo(next)) /\ h \in DOMAIN blocks
      /\ DOMAIN blocks = 1 .. Len(blocks) /\ Len(blocks) \in Nat
      /\ \A b \in DOMAIN blocks : blocks[b] \in BlocksTo(next)
      /\ Listed \subseteq 0 .. next - 1
    BY Typed
<1>2. /\ next' = next + 1 /\ params' = Append(params, e) /\ outputs' = outputs
      /\ blocks' = [blocks EXCEPT ![h] = f]
    BY DEF Argument
<1>3. /\ e \in EntriesTo(next + 1) /\ e.value = next /\ e.index = n
    BY <1>1, LenProperties DEF Entry, EntriesTo
<1> HIDE DEF e
<1>4. /\ blocks \in Seq(BlocksTo(next + 1)) /\ params \in Seq(EntriesTo(next + 1))
      /\ outputs \in Seq(EntriesTo(next + 1))
    <2>1. next + 1 \in Nat /\ next <= next + 1
        BY <1>1
    <2> QED
        BY <1>1, <2>1, Monotone
<1>5. /\ params' \in Seq(EntriesTo(next')) /\ DOMAIN params' = 1 .. n + 1 /\ n \in Nat
      /\ DOMAIN params = 1 .. n /\ params'[n + 1] = e
      /\ \A j \in 1 .. n : params'[j] = params[j]
    BY <1>2, <1>3, <1>4, App
<1>6. /\ f \in BlocksTo(next + 1) /\ f.op = blocks[h].op
      /\ f.args = Append(blocks[h].args, next)
    <2>1. blocks[h] \in BlocksTo(next + 1)
        BY <1>1, <1>4, ElementOfSeq
    <2>2. blocks[h].args \in Seq(0 .. next) /\ next \in 0 .. next
        BY <1>1, <2>1 DEF BlocksTo
    <2>3. Append(blocks[h].args, next) \in Seq(0 .. next)
        BY <2>2, App
    <2>4. next + 1 - 1 = next
        BY <1>1
    <2>5. f = [op |-> blocks[h].op, args |-> Append(blocks[h].args, next)]
        BY <2>1 DEF BlocksTo
    <2>6. blocks[h].op \in {"func", "for", "kernel", "if", "while"}
        BY <2>1 DEF BlocksTo
    <2> HIDE DEF f
    <2> QED
        BY <2>3, <2>4, <2>5, <2>6 DEF BlocksTo
<1>7. blocks[h].args \in Seq(0 .. next - 1)
    BY <1>1 DEF BlocksTo
<1> DEFINE m == Len(blocks[h].args)
<1>8. /\ m \in Nat /\ DOMAIN f.args = 1 .. m + 1 /\ Len(f.args) = m + 1
      /\ DOMAIN blocks[h].args = 1 .. m /\ f.args[m + 1] = next
      /\ \A j \in 1 .. m : f.args[j] = blocks[h].args[j]
    <2>1. blocks[h].args \in Seq(Int) /\ next \in Int
        BY <1>1, <1>7, SeqGrows
    <2> QED
        BY <1>6, <2>1, App
<1> HIDE DEF f, m
<1>9. /\ blocks' \in Seq(BlocksTo(next')) /\ DOMAIN blocks' = DOMAIN blocks
      /\ blocks'[h] = f /\ \A b \in DOMAIN blocks : b # h => blocks'[b] = blocks[b]
    BY <1>1, <1>2, <1>4, <1>6, ExceptSeq
<1>10. Listed' = Listed \cup {next}
    BY <1>2, <1>3, <1>5 DEF Listed
<1>11. \A b \in DOMAIN blocks : \A v \in 0 .. next - 1 : Owns(b, v)' <=> Owns(b, v)
    <2> SUFFICES ASSUME NEW b \in DOMAIN blocks, NEW v \in 0 .. next - 1
                 PROVE  Owns(b, v)' <=> Owns(b, v)
        OBVIOUS
    <2>1. CASE b = h
        <3>1. Owns(b, v) <=> \E j \in 1 .. m : blocks[h].args[j] = v
            BY <1>8, <2>1 DEF Owns
        <3>2. Owns(b, v)' <=> \E j \in 1 .. m + 1 : f.args[j] = v
            BY <1>8, <1>9, <2>1 DEF Owns
        <3>3. \A j \in 1 .. m + 1 : j \in 1 .. m \/ j = m + 1
            BY <1>8
        <3>4. \A j \in 1 .. m : j \in 1 .. m + 1
            BY <1>8
        <3>5. v # next
            BY <1>1
        <3> QED
            BY <1>8, <3>1, <3>2, <3>3, <3>4, <3>5
    <2>2. CASE b # h
        BY <1>9, <2>2 DEF Owns
    <2> QED
        BY <2>1, <2>2
<1>12. \A b \in DOMAIN blocks : \A v : v = next => (Owns(b, v)' <=> b = h)
    <2> SUFFICES ASSUME NEW b \in DOMAIN blocks, NEW v, v = next
                 PROVE  Owns(b, v)' <=> b = h
        OBVIOUS
    <2>1. ~Owns(b, v)
        <3>1. blocks[b].args \in Seq(0 .. next - 1)
            BY <1>1 DEF BlocksTo
        <3>2. \A j \in DOMAIN blocks[b].args : blocks[b].args[j] \in 0 .. next - 1
            BY <3>1, LenProperties, ElementOfSeq
        <3> QED
            BY <1>1, <3>2 DEF Owns
    <2>2. CASE b = h
        <3>1. m + 1 \in DOMAIN f.args /\ f.args[m + 1] = next
            BY <1>8
        <3> QED
            BY <1>8, <1>9, <2>2, <3>1 DEF Owns
    <2>3. CASE b # h
        BY <1>9, <2>1, <2>3 DEF Owns
    <2> QED
        BY <2>2, <2>3
<1>13. OwnedOnce'
    <2> SUFFICES ASSUME NEW v \in Listed'
                 PROVE  \E b \in DOMAIN blocks :
                            Owns(b, v)' /\ \A c \in DOMAIN blocks : Owns(c, v)' => c = b
        BY <1>9 DEF OwnedOnce
    <2>1. CASE v \in Listed
        <3>1. v \in 0 .. next - 1
            BY <1>1, <2>1
        <3>2. PICK b \in DOMAIN blocks : Owns(b, v) /\ \A c \in DOMAIN blocks : Owns(c, v) => c = b
            BY <2>1 DEF Layout, OwnedOnce
        <3> QED
            BY <1>11, <3>1, <3>2
    <2>2. CASE v = next
        <3>1. PICK b \in DOMAIN blocks : b = h
            BY <1>1
        <3>2. Owns(b, v)' /\ \A c \in DOMAIN blocks : Owns(c, v)' => c = b
            BY <1>12, <2>2, <3>1
        <3> QED
            BY <3>2
    <2> QED
        BY <1>10, <2>1, <2>2
<1>14. ListedOnce' /\ Indices'
    <2>0. next \notin Listed
        BY <1>1
    <2>1. \A j \in 1 .. n : params[j].value # next
        BY <1>5, <2>0 DEF Listed
    <2>2. \A j \in DOMAIN outputs : outputs[j].value # next
        BY <2>0 DEF Listed
    <2>3. \A j \in 1 .. n + 1 : j \in 1 .. n \/ j = n + 1
        BY <1>5
    <2>4. n + 1 - 1 = n
        BY <1>5
    <2> HIDE DEF n
    <2>5. ListedOnce'
        BY <1>2, <1>3, <1>5, <2>1, <2>2, <2>3 DEF Layout, ListedOnce
    <2>6. Indices'
        BY <1>2, <1>3, <1>5, <2>3, <2>4 DEF Layout, Indices
    <2> QED
        BY <2>5, <2>6
<1>15. EntryBlock' /\ \A b \in DOMAIN blocks : blocks'[b].op = blocks[b].op
    BY <1>6, <1>9 DEF Layout, EntryBlock
<1> HIDE DEF h
<1> QED
    BY <1>2, <1>4, <1>5, <1>8, <1>9, <1>10, <1>13, <1>14, <1>15 DEF Layout, h

(* Outputs become arguments of the entry block.                             *)
LEMMA OutputsLayout ==
    ASSUME TypeOK, Layout, NEW k \in Nat, NEW new \in Seq(EntriesTo(next + k)), Len(new) = k,
           \A j \in 1 .. k : new[j].value = next + j - 1 /\ new[j].index = Len(outputs) + j - 1,
           AppendOutputs(new), UNCHANGED params
    PROVE  /\ Layout' /\ Listed' = Listed \cup {new[j].value : j \in 1 .. k} /\ next' = next + k
           /\ blocks' \in Seq(BlocksTo(next')) /\ DOMAIN blocks' = DOMAIN blocks
           /\ params' \in Seq(EntriesTo(next')) /\ outputs' \in Seq(EntriesTo(next'))
           /\ \A b \in DOMAIN blocks : blocks'[b].op = blocks[b].op
           /\ \A b \in DOMAIN blocks : b # 1 => blocks'[b] = blocks[b]
<1> DEFINE vals == [j \in DOMAIN new |-> new[j].value]
           f == [blocks[1] EXCEPT !.args = @ \o vals]
           n == Len(outputs)
           m == Len(blocks[1].args)
<1>1. /\ next \in Nat /\ blocks \in Seq(BlocksTo(next)) /\ params \in Seq(EntriesTo(next))
      /\ outputs \in Seq(EntriesTo(next)) /\ 1 \in DOMAIN blocks
      /\ \A b \in DOMAIN blocks : blocks[b] \in BlocksTo(next)
      /\ Listed \subseteq 0 .. next - 1 /\ blocks[1].op = "func"
    BY Typed DEF Layout, EntryBlock
<1>2. DOMAIN new = 1 .. k /\ \A j \in 1 .. k : new[j] \in EntriesTo(next + k)
    BY LenProperties, ElementOfSeq
<1>3. /\ next' = next + k /\ outputs' = outputs \o new /\ params' = params
      /\ blocks' = [blocks EXCEPT ![1] = f]
    BY DEF AppendOutputs
<1>4. /\ blocks \in Seq(BlocksTo(next + k)) /\ params \in Seq(EntriesTo(next + k))
      /\ outputs \in Seq(EntriesTo(next + k))
    <2>1. next + k \in Nat /\ next <= next + k
        BY <1>1
    <2> QED
        BY <1>1, <2>1, Monotone
<1>5. /\ outputs' \in Seq(EntriesTo(next')) /\ DOMAIN outputs' = 1 .. n + k /\ n \in Nat
      /\ DOMAIN outputs = 1 .. n
      /\ \A j \in 1 .. n : outputs'[j] = outputs[j]
      /\ \A j \in 1 .. k : outputs'[n + j] = new[j]
    <2> DEFINE E == EntriesTo(next + k)
    <2>1. outputs \in Seq(E) /\ new \in Seq(E)
        BY <1>4
    <2> HIDE DEF E
    <2>2. /\ outputs \o new \in Seq(E) /\ Len(outputs \o new) = Len(outputs) + Len(new)
          /\ DOMAIN (outputs \o new) = 1 .. Len(outputs) + Len(new)
          /\ Len(outputs) \in Nat /\ Len(new) \in Nat
          /\ DOMAIN outputs = 1 .. Len(outputs) /\ DOMAIN new = 1 .. Len(new)
          /\ \A j \in 1 .. Len(outputs) : (outputs \o new)[j] = outputs[j]
          /\ \A j \in 1 .. Len(new) : (outputs \o new)[Len(outputs) + j] = new[j]
        BY ONLY <2>1, Cat
    <2> QED
        BY <1>3, <2>2 DEF E
<1>6. /\ vals \in Seq(0 .. (next + k) - 1) /\ Len(vals) = k
      /\ DOMAIN vals = 1 .. k /\ \A j \in 1 .. k : vals[j] = next + j - 1
    <2>1. \A j \in 1 .. k : vals[j] = next + j - 1 /\ vals[j] \in 0 .. (next + k) - 1
        BY <1>1, <1>2
    <2> DEFINE T == 0 .. (next + k) - 1
    <2>2. vals \in [1 .. k -> T]
        BY <1>2, <2>1
    <2> HIDE DEF vals, T
    <2>3. vals \in Seq(T)
        BY <2>2, SeqDef
    <2> USE DEF T
    <2> QED
        BY <2>1, <2>2, <2>3, LenProperties
<1> HIDE DEF vals
<1>7. blocks[1].args \in Seq(0 .. next - 1) /\ blocks[1] \in BlocksTo(next + k)
      /\ blocks[1].args \in Seq(0 .. (next + k) - 1)
    <2>1. blocks[1] \in BlocksTo(next + k)
        BY <1>1, <1>4, ElementOfSeq, LenProperties
    <2> QED
        BY <1>1, <2>1 DEF BlocksTo
<1>8. /\ f \in BlocksTo(next + k) /\ f.op = blocks[1].op
      /\ f.args = blocks[1].args \o vals
    <2>1. blocks[1].args \o vals \in Seq(0 .. (next + k) - 1)
        <3> DEFINE T == 0 .. (next + k) - 1
        <3>1. blocks[1].args \in Seq(T) /\ vals \in Seq(T)
            BY <1>6, <1>7
        <3> HIDE DEF T
        <3>2. blocks[1].args \o vals \in Seq(T)
            BY ONLY <3>1
        <3> QED
            BY <3>2 DEF T
    <2>2. f = [op |-> blocks[1].op, args |-> blocks[1].args \o vals]
        <3>1. blocks[1] \in [op : {"func", "for", "kernel", "if", "while"}, args : Seq(0 .. next - 1)]
            BY <1>1 DEF BlocksTo
        <3> DEFINE g == blocks[1]
                   a == blocks[1].args \o vals
        <3>2. f = [g EXCEPT !.args = a]
            OBVIOUS
        <3> HIDE DEF a, f, g
        <3>3. [g EXCEPT !.args = a] = [op |-> g.op, args |-> a]
            BY ONLY <3>1 DEF g
        <3> QED
            BY <3>2, <3>3 DEF a, g
    <2>3. blocks[1].op \in {"func", "for", "kernel", "if", "while"}
        BY <1>1
    <2>4. /\ f.op = blocks[1].op /\ f.args = blocks[1].args \o vals
          /\ f \in [op : {"func", "for", "kernel", "if", "while"}, args : Seq(0 .. (next + k) - 1)]
        <3> HIDE DEF f
        <3> DEFINE a == blocks[1].args \o vals
                   T == Seq(0 .. (next + k) - 1)
        <3>1. a \in T /\ f = [op |-> blocks[1].op, args |-> a]
            BY <2>1, <2>2
        <3> HIDE DEF a, T
        <3>2. f.op = blocks[1].op /\ f.args = a
              /\ f \in [op : {"func", "for", "kernel", "if", "while"}, args : T]
            BY <2>3, <3>1
        <3> QED
            BY <3>2 DEF a, T
    <2> HIDE DEF f
    <2> QED
        BY ONLY <2>4 DEF BlocksTo
<1>9. /\ m \in Nat /\ DOMAIN f.args = 1 .. m + k /\ DOMAIN blocks[1].args = 1 .. m
      /\ \A j \in 1 .. m : f.args[j] = blocks[1].args[j]
      /\ \A j \in 1 .. k : f.args[m + j] = next + j - 1
    <2> DEFINE a == blocks[1].args
    <2>1. a \in Seq(Int) /\ vals \in Seq(Int)
        BY <1>1, <1>6, <1>7, SeqGrows
    <2>2. f.args = a \o vals
        BY <1>8
    <2> HIDE DEF a, f
    <2>3. /\ DOMAIN (a \o vals) = 1 .. Len(a) + Len(vals) /\ Len(a) \in Nat
          /\ DOMAIN a = 1 .. Len(a)
          /\ \A j \in 1 .. Len(a) : (a \o vals)[j] = a[j]
          /\ \A j \in 1 .. Len(vals) : (a \o vals)[Len(a) + j] = vals[j]
        BY <2>1, Cat
    <2>4. Len(vals) = k /\ \A j \in 1 .. k : vals[j] = next + j - 1
        BY <1>6
    <2> QED
        BY <2>2, <2>3, <2>4 DEF a
<1> HIDE DEF f, m, n
<1>10. /\ blocks' \in Seq(BlocksTo(next')) /\ DOMAIN blocks' = DOMAIN blocks
       /\ blocks'[1] = f /\ \A b \in DOMAIN blocks : b # 1 => blocks'[b] = blocks[b]
    BY <1>1, <1>3, <1>4, <1>8, ExceptSeq
<1>11. \A j \in 1 .. n + k : j \in 1 .. n \/ \E l \in 1 .. k : j = n + l
    <2> TAKE j \in 1 .. n + k
    <2>1. CASE j > n
        <3>1. j - n \in 1 .. k /\ j = n + (j - n)
            BY <1>5, <2>1
        <3> QED
            BY <3>1
    <2> QED
        BY <1>5, <2>1
<1>12. Listed' = Listed \cup {new[j].value : j \in 1 .. k}
    <2> DEFINE A == {outputs[i].value : i \in 1 .. n}
               B == {new[i].value : i \in 1 .. k}
               C == {outputs'[i].value : i \in 1 .. n + k}
    <2>1. C = A \cup B
        <3>1. \A j \in 1 .. n : j \in 1 .. n + k
            BY <1>5
        <3>2. \A j \in 1 .. k : n + j \in 1 .. n + k
            BY <1>5
        <3>3. ASSUME NEW j \in 1 .. n + k
              PROVE  outputs'[j].value \in A \cup B
            <4>1. CASE j \in 1 .. n
                BY <1>5, <4>1
            <4>2. ASSUME NEW l \in 1 .. k, j = n + l
                  PROVE  outputs'[j].value \in B
                BY <1>5, <4>2
            <4> QED
                BY <1>11, <4>1, <4>2
        <3>4. ASSUME NEW j \in 1 .. n
              PROVE  outputs[j].value \in C
            BY <1>5, <3>1
        <3>5. ASSUME NEW j \in 1 .. k
              PROVE  new[j].value \in C
            BY <1>5, <3>2
        <3>6. /\ \A v \in A : v \in C
              /\ \A v \in B : v \in C
            BY <3>4, <3>5
        <3>7. \A v \in C : v \in A \cup B
            BY <3>3
        <3> HIDE DEF A, B, C
        <3> QED
            BY <3>6, <3>7
    <2> QED
        BY <1>3, <1>5, <2>1 DEF Listed
<1>13. \A b \in DOMAIN blocks : \A v \in 0 .. next - 1 : Owns(b, v)' <=> Owns(b, v)
    <2> SUFFICES ASSUME NEW b \in DOMAIN blocks, NEW v \in 0 .. next - 1
                 PROVE  Owns(b, v)' <=> Owns(b, v)
        OBVIOUS
    <2>1. CASE b = 1
        <3>1. Owns(b, v) <=> \E j \in 1 .. m : blocks[1].args[j] = v
            BY <1>9, <2>1 DEF Owns
        <3>2. Owns(b, v)' <=> \E j \in 1 .. m + k : f.args[j] = v
            BY <1>9, <1>10, <2>1 DEF Owns
        <3>3. \A j \in 1 .. m + k : f.args[j] = v => j \in 1 .. m
            <4> SUFFICES ASSUME NEW j \in 1 .. m + k, f.args[j] = v, j \notin 1 .. m
                         PROVE  FALSE
                OBVIOUS
            <4>1. j - m \in 1 .. k /\ m + (j - m) = j
                BY <1>9
            <4>2. f.args[j] = next + (j - m) - 1
                BY <1>9, <4>1
            <4>3. f.args[j] >= next
                BY <1>1, <1>9, <4>1, <4>2
            <4> QED
                BY <1>1, <4>3
        <3>4. \A j \in 1 .. m : j \in 1 .. m + k
            BY <1>9
        <3> QED
            BY <1>9, <3>1, <3>2, <3>3, <3>4
    <2>2. CASE b # 1
        BY <1>10, <2>2 DEF Owns
    <2> QED
        BY <2>1, <2>2
<1>14. \A b \in DOMAIN blocks : \A j \in 1 .. k : Owns(b, next + j - 1) => FALSE
    <2> SUFFICES ASSUME NEW b \in DOMAIN blocks, NEW j \in 1 .. k, Owns(b, next + j - 1)
                 PROVE  FALSE
        OBVIOUS
    <2>1. blocks[b].args \in Seq(0 .. next - 1)
        BY <1>1 DEF BlocksTo
    <2>2. \A i \in DOMAIN blocks[b].args : blocks[b].args[i] \in 0 .. next - 1
        BY <2>1, LenProperties, ElementOfSeq
    <2> QED
        BY <1>1, <2>2 DEF Owns
<1>15. ASSUME NEW v, NEW j \in 1 .. k, v = next + j - 1, NEW b \in DOMAIN blocks
       PROVE  Owns(b, v)' <=> b = 1
    <2>1. CASE b = 1
        <3>1. m + j \in DOMAIN f.args /\ f.args[m + j] = v
            BY <1>9, <1>15
        <3> QED
            BY <1>10, <2>1, <3>1 DEF Owns
    <2>2. CASE b # 1
        <3>1. ~Owns(b, v)
            BY <1>14, <1>15
        <3> QED
            BY <1>10, <2>2, <3>1 DEF Owns
    <2> QED
        BY <2>1, <2>2
<1>16. OwnedOnce'
    <2> SUFFICES ASSUME NEW v \in Listed'
                 PROVE  \E b \in DOMAIN blocks :
                            Owns(b, v)' /\ \A c \in DOMAIN blocks : Owns(c, v)' => c = b
        BY <1>10 DEF OwnedOnce
    <2>1. CASE v \in Listed
        <3>1. v \in 0 .. next - 1
            BY <1>1, <2>1
        <3>2. PICK b \in DOMAIN blocks : Owns(b, v) /\ \A c \in DOMAIN blocks : Owns(c, v) => c = b
            BY <2>1 DEF Layout, OwnedOnce
        <3> QED
            BY <1>13, <3>1, <3>2
    <2>2. CASE \E j \in 1 .. k : v = new[j].value
        <3>1. PICK j \in 1 .. k : v = next + j - 1
            BY <2>2
        <3>2. Owns(1, v)' /\ \A c \in DOMAIN blocks : Owns(c, v)' => c = 1
            BY <1>1, <1>15, <3>1
        <3> QED
            BY <1>1, <3>2
    <2> QED
        BY <1>12, <2>1, <2>2
<1>17. \A j \in 1 .. k : new[j].value \notin Listed
    BY <1>1
<1>18. ListedOnce'
    <2>1. \A j \in DOMAIN params, l \in 1 .. k : params[j].value # new[l].value
        BY <1>17 DEF Listed
    <2>2. \A j \in 1 .. n, l \in 1 .. k : outputs[j].value # new[l].value
        BY <1>5, <1>17 DEF Listed
    <2>3. \A j, l \in 1 .. k : new[j].value = new[l].value => j = l
        BY <1>1
    <2>4. ASSUME NEW j \in 1 .. n + k, NEW l \in 1 .. n + k, outputs'[j].value = outputs'[l].value
          PROVE  j = l
        <3>1. CASE j \in 1 .. n /\ l \in 1 .. n
            BY <1>5, <2>4, <3>1 DEF Layout, ListedOnce
        <3>2. ASSUME j \in 1 .. n, NEW i \in 1 .. k, l = n + i
              PROVE  FALSE
            BY <1>5, <2>2, <2>4, <3>2
        <3>3. ASSUME l \in 1 .. n, NEW i \in 1 .. k, j = n + i
              PROVE  FALSE
            BY <1>5, <2>2, <2>4, <3>3
        <3>4. ASSUME NEW h \in 1 .. k, NEW i \in 1 .. k, j = n + h, l = n + i
              PROVE  j = l
            BY <1>5, <2>3, <2>4, <3>4
        <3> QED
            BY <1>11, <3>1, <3>2, <3>3, <3>4
    <2>5. ASSUME NEW j \in DOMAIN params, NEW l \in 1 .. n + k
          PROVE  params[j].value # outputs'[l].value
        <3>1. CASE l \in 1 .. n
            BY <1>5, <3>1 DEF Layout, ListedOnce
        <3>2. ASSUME NEW i \in 1 .. k, l = n + i
              PROVE  params[j].value # outputs'[l].value
            BY <1>5, <2>1, <3>2
        <3> QED
            BY <1>11, <3>1, <3>2
    <2>6. \A j, l \in DOMAIN params : params[j].value = params[l].value => j = l
        BY DEF Layout, ListedOnce
    <2> QED
        <3>1. params' = params /\ DOMAIN outputs' = 1 .. n + k
            BY <1>3, <1>5
        <3>2. \A j, l \in 1 .. n + k : outputs'[j].value = outputs'[l].value => j = l
            BY <2>4
        <3>3. \A j \in DOMAIN params, l \in 1 .. n + k : params[j].value # outputs'[l].value
            BY <2>5
        <3> QED
            BY <2>6, <3>1, <3>2, <3>3 DEF ListedOnce
<1>19. Indices'
    <2>1. ASSUME NEW j \in 1 .. n + k
          PROVE  outputs'[j].index = j - 1
        <3>1. CASE j \in 1 .. n
            BY <1>5, <3>1 DEF Layout, Indices
        <3>2. ASSUME NEW i \in 1 .. k, j = n + i
              PROVE  outputs'[j].index = j - 1
            <4>1. outputs'[j] = new[i] /\ new[i].index = n + i - 1
                BY <1>5, <3>2 DEF n
            <4> QED
                BY <1>5, <3>2, <4>1
        <3> QED
            BY <1>11, <3>1, <3>2
    <2>2. \A j \in DOMAIN params : params[j].index = j - 1
        BY DEF Layout, Indices
    <2> QED
        BY <1>3, <1>5, <2>1, <2>2 DEF Indices
<1>20. EntryBlock' /\ \A b \in DOMAIN blocks : blocks'[b].op = blocks[b].op
    BY <1>1, <1>8, <1>10 DEF EntryBlock
<1> QED
    BY <1>3, <1>4, <1>5, <1>10, <1>12, <1>16, <1>18, <1>19, <1>20 DEF Layout

(* A loop, a launch, a branch or a while body has its index, if anything.   *)
LEMMA EnterLayout ==
    ASSUME TypeOK, Layout, NestedGrows, NEW op \in {"for", "kernel", "if", "while"}, Enter(op)
    PROVE  /\ Layout' /\ NestedGrows' /\ Listed' = Listed /\ next' \in Nat /\ next <= next'
           /\ blocks' \in Seq(BlocksTo(next')) /\ DOMAIN blocks' = 1 .. Len(blocks) + 1
           /\ params' \in Seq(EntriesTo(next')) /\ outputs' \in Seq(EntriesTo(next'))
           /\ at' \in [Names -> ObjectsTo(next')]
<1> DEFINE index == IF op \in Indexed THEN <<next>> ELSE <<>>
           f == [op |-> op, args |-> index]
           n == Len(blocks)
<1>1. /\ next \in Nat /\ blocks \in Seq(BlocksTo(next)) /\ params \in Seq(EntriesTo(next))
      /\ outputs \in Seq(EntriesTo(next)) /\ at \in [Names -> ObjectsTo(next)]
      /\ n \in Nat /\ DOMAIN blocks = 1 .. n
      /\ \A b \in DOMAIN blocks : blocks[b] \in BlocksTo(next)
      /\ Listed \subseteq 0 .. next - 1
    BY Typed
<1>2. /\ blocks' = Append(blocks, f) /\ next' = next + Len(index)
      /\ params' = params /\ outputs' = outputs /\ at' = at /\ nested' = nested
    BY DEF Enter
<1>3. /\ Len(index) \in {0, 1} /\ DOMAIN index = 1 .. Len(index)
      /\ \A j \in DOMAIN index : index[j] = next
      /\ op \in Indexed => Len(index) = 1
      /\ index \in Seq(0 .. (next + Len(index)) - 1)
    <2>1. CASE op \in Indexed
        <3>1. index = <<next>> /\ Len(<<next>>) = 1 /\ DOMAIN <<next>> = 1 .. 1
              /\ <<next>>[1] = next
            BY <2>1
        <3>2. <<next>> \in Seq(0 .. (next + 1) - 1)
            <4>1. next \in 0 .. (next + 1) - 1
                BY <1>1
            <4> QED
                BY <4>1
        <3> HIDE DEF index
        <3> QED
            BY <3>1, <3>2
    <2>2. CASE op \notin Indexed
        <3>1. index = <<>> /\ Len(<<>>) = 0 /\ DOMAIN <<>> = 1 .. 0
              /\ <<>> \in Seq(0 .. (next + 0) - 1)
            BY <2>2
        <3> HIDE DEF index
        <3> QED
            BY <2>2, <3>1
    <2> QED
        BY <2>1, <2>2
<1> HIDE DEF index
<1>4. next' \in Nat /\ next <= next' /\ index \in Seq(0 .. next' - 1)
    BY <1>1, <1>2, <1>3
<1>5. /\ blocks \in Seq(BlocksTo(next')) /\ params \in Seq(EntriesTo(next'))
      /\ outputs \in Seq(EntriesTo(next')) /\ at \in [Names -> ObjectsTo(next')]
    <2>1. ObjectsTo(next) \subseteq ObjectsTo(next')
        BY <1>1, <1>4, Monotone
    <2>2. /\ blocks \in Seq(BlocksTo(next')) /\ params \in Seq(EntriesTo(next'))
          /\ outputs \in Seq(EntriesTo(next'))
        BY <1>1, <1>4, Monotone
    <2> QED
        BY <1>1, <2>1, <2>2
<1>6. f \in BlocksTo(next') /\ f.op = op /\ f.args = index
    BY <1>4 DEF BlocksTo
<1> HIDE DEF f
<1>7. /\ blocks' \in Seq(BlocksTo(next')) /\ DOMAIN blocks' = 1 .. n + 1
      /\ blocks'[n + 1] = f /\ \A b \in 1 .. n : blocks'[b] = blocks[b]
    BY <1>2, <1>5, <1>6, App
<1>8. \A b \in 1 .. n + 1 : b \in 1 .. n \/ b = n + 1
    BY <1>1
<1>9. Listed' = Listed
    BY <1>2 DEF Listed
<1>10. \A v \in 0 .. next - 1 : /\ \A b \in 1 .. n : Owns(b, v)' <=> Owns(b, v)
                                /\ \A b \in DOMAIN blocks' : b = n + 1 => ~Owns(b, v)'
    <2> SUFFICES ASSUME NEW v \in 0 .. next - 1
                 PROVE  /\ \A b \in 1 .. n : Owns(b, v)' <=> Owns(b, v)
                        /\ \A b \in DOMAIN blocks' : b = n + 1 => ~Owns(b, v)'
        OBVIOUS
    <2>1. \A b \in 1 .. n : Owns(b, v)' <=> Owns(b, v)
        BY <1>7 DEF Owns
    <2>2. v # next
        BY <1>1
    <2>3. ASSUME NEW b \in DOMAIN blocks', b = n + 1
          PROVE  ~Owns(b, v)'
        BY <1>3, <1>6, <1>7, <2>2, <2>3 DEF Owns
    <2> QED
        BY <2>1, <2>3
<1>11. OwnedOnce'
    <2> SUFFICES ASSUME NEW v \in Listed
                 PROVE  \E b \in DOMAIN blocks' :
                            Owns(b, v)' /\ \A c \in DOMAIN blocks' : Owns(c, v)' => c = b
        BY <1>9 DEF OwnedOnce
    <2>1. v \in 0 .. next - 1
        BY <1>1
    <2>2. PICK b \in 1 .. n : Owns(b, v) /\ \A c \in 1 .. n : Owns(c, v) => c = b
        BY <1>1 DEF Layout, OwnedOnce
    <2>3. b \in DOMAIN blocks'
        BY <1>1, <1>7
    <2>4. Owns(b, v)'
        BY <1>10, <2>1, <2>2
    <2>5. ASSUME NEW c \in DOMAIN blocks', Owns(c, v)'
          PROVE  c = b
        BY <1>7, <1>8, <1>10, <2>1, <2>2, <2>5
    <2> QED
        BY <2>3, <2>4, <2>5
<1>12. ListedOnce' /\ Indices'
    BY <1>2 DEF Layout, ListedOnce, Indices
<1>13. EntryBlock'
    <2>1. 1 \in 1 .. n /\ 1 \in 1 .. n + 1
        BY <1>1 DEF Layout, EntryBlock
    <2> QED
        BY <1>7, <2>1 DEF Layout, EntryBlock
<1>14. NestedGrows'
    <2>1. \A b \in 1 .. n : BodyEmits(b)' <=> BodyEmits(b)
        BY <1>7 DEF BodyEmits
    <2>2. \A b \in DOMAIN blocks' : b = n + 1 => BodyEmits(b)'
        BY <1>3, <1>6, <1>7 DEF BodyEmits
    <2>3. \A b \in 1 .. n : b \in 1 .. n + 1
        BY <1>1
    <2>4. nested' <=> \E b \in DOMAIN blocks' : ~BodyEmits(b)'
        <3>1. nested <=> \E b \in 1 .. n : ~BodyEmits(b)
            BY <1>1 DEF NestedGrows
        <3> QED
            BY <1>2, <1>7, <1>8, <2>1, <2>2, <2>3, <3>1
    <2>5. ASSUME NEW b \in DOMAIN blocks', blocks'[b].op \in Indexed
          PROVE  Len(blocks'[b].args) >= 1
        <3>1. CASE b \in 1 .. n
            BY <1>1, <1>7, <2>5, <3>1 DEF NestedGrows
        <3>2. CASE b = n + 1
            BY <1>3, <1>6, <1>7, <2>5, <3>2
        <3> QED
            BY <1>7, <1>8, <3>1, <3>2
    <2> QED
        BY <2>4, <2>5 DEF NestedGrows
<1> QED
    BY <1>2, <1>4, <1>5, <1>7, <1>9, <1>11, <1>12, <1>13, <1>14 DEF Layout

(***************************************************************************)
(* Steps.                                                                   *)
(***************************************************************************)

(* What a step that declares, binds or enters keeps.                        *)
Extended ==
    /\ Layout' /\ NestedGrows' /\ NamesListed' /\ Listed \subseteq Listed'
    /\ next' \in Nat /\ blocks' \in Seq(BlocksTo(next')) /\ DOMAIN blocks \subseteq DOMAIN blocks'
    /\ params' \in Seq(EntriesTo(next')) /\ outputs' \in Seq(EntriesTo(next'))
    /\ at' \in [Names -> ObjectsTo(next')]

LEMMA ExtendedKeeps ==
    ASSUME IInv, Extended,
           call' \in Calls \cup {NoCall}, bound' \in 0 .. Len(ArgNames),
           stack' \in Seq(DOMAIN blocks'), stack' # <<>>, uses' \subseteq Listed',
           nested' \in BOOLEAN, result' \in {"tracing", "raised"}
    PROVE  IInv'
<1>1. uses' \subseteq 0 .. next' - 1
    <2>1. /\ \A j \in DOMAIN params' : params'[j] \in EntriesTo(next')
          /\ \A j \in DOMAIN outputs' : outputs'[j] \in EntriesTo(next')
        BY LenProperties, ElementOfSeq DEF Extended
    <2>2. Listed' \subseteq 0 .. next' - 1
        BY <2>1 DEF Listed, EntriesTo
    <2> QED
        BY <2>2
<1>2. TypeOK'
    BY <1>1 DEF Extended, TypeOK, BlocksTo, EntriesTo, ObjectsTo, Objects, Entries
<1>3. UsesListed' /\ RefusesNested'
    BY DEF UsesListed, RefusesNested
<1> QED
    BY <1>2, <1>3 DEF IInv, Extended

(* Declarations at the top leave nested as it is.                           *)
LEMMA TopDeclares ==
    ASSUME NestedGrows, EntryBlock, UNCHANGED nested, DOMAIN blocks' = DOMAIN blocks,
           \A b \in DOMAIN blocks : blocks'[b].op = blocks[b].op,
           \A b \in DOMAIN blocks : b # 1 => blocks'[b] = blocks[b]
    PROVE  NestedGrows'
<1>1. blocks[1].op \notin Indexed
    BY DEF EntryBlock, Indexed
<1>2. \A b \in DOMAIN blocks : /\ BodyEmits(b)' <=> BodyEmits(b)
                               /\ blocks'[b].op \in Indexed => blocks'[b] = blocks[b]
    BY <1>1 DEF BodyEmits, EntryBlock
<1> QED
    BY <1>2 DEF NestedGrows

(* A step that declares, binds and enters nothing, and one that raises.     *)
LEMMA SameExtends ==
    ASSUME IInv, UNCHANGED <<at, blocks, params, outputs, next, nested>>
    PROVE  Extended
<1>1. /\ at' = at /\ blocks' = blocks /\ params' = params /\ outputs' = outputs
      /\ next' = next /\ nested' = nested
    OBVIOUS
<1>2. Layout' /\ Listed' = Listed
    BY <1>1, LayoutStays DEF IInv, LayoutVars
<1>3. NestedGrows'
    BY <1>1, TopDeclares DEF IInv, Layout
<1>4. NamesListed'
    BY <1>1, <1>2 DEF IInv, NamesListed
<1> QED
    BY <1>1, <1>2, <1>3, <1>4, Typed DEF IInv, Extended

LEMMA RaiseKeeps ==
    ASSUME IInv, result' = "raised",
           UNCHANGED <<call, bound, at, blocks, stack, params, outputs, next, uses, nested>>
    PROVE  IInv'
<1>1. Extended
    BY SameExtends
<1>2. /\ call' = call /\ bound' = bound /\ stack' = stack /\ uses' = uses /\ nested' = nested
      /\ blocks' = blocks
    OBVIOUS
<1>3. /\ call' \in Calls \cup {NoCall} /\ bound' \in 0 .. Len(ArgNames)
      /\ stack' \in Seq(DOMAIN blocks') /\ stack' # <<>> /\ uses' \subseteq Listed'
      /\ nested' \in BOOLEAN /\ result' \in {"tracing", "raised"}
    BY <1>1, <1>2 DEF IInv, TypeOK, UsesListed, Extended
<1> QED
    BY <1>1, <1>3, ExtendedKeeps

(* A name is given a tensor that is listed.                                 *)
LEMMA NameGiven ==
    ASSUME TypeOK, NamesListed, NEW x \in Names, NEW o, Listed \subseteq Listed',
           next' \in Nat, next <= next', o \in ObjectsTo(next'),
           o.k = "tensor" => o.v \in Listed',
           at' = [at EXCEPT ![x] = o]
    PROVE  at' \in [Names -> ObjectsTo(next')] /\ NamesListed'
<1>1. at \in [Names -> ObjectsTo(next)] /\ next \in Nat
    BY Typed
<1>2. ObjectsTo(next) \subseteq ObjectsTo(next')
    BY <1>1, Monotone
<1>3. \A y \in Names : at'[y] = IF y = x THEN o ELSE at[y]
    BY <1>1
<1> QED
    BY <1>1, <1>2, <1>3 DEF NamesListed

(* What Builder.bind appends for an OutTensor.                              *)
LEMMA OutputsTyped ==
    ASSUME TypeOK, NEW n \in Nat
    PROVE  /\ Outputs(n) \in Seq(EntriesTo(next + n)) /\ Len(Outputs(n)) = n
           /\ \A j \in 1 .. n : /\ Outputs(n)[j].value = next + j - 1
                                 /\ Outputs(n)[j].index = Len(outputs) + j - 1
                                 /\ Outputs(n)[j] \in EntriesTo(next + n)
<1>1. next \in Nat /\ Len(outputs) \in Nat
    BY Typed, LenProperties
<1>2. ASSUME NEW j \in 1 .. n
      PROVE  /\ Outputs(n)[j].value = next + j - 1 /\ Outputs(n)[j].index = Len(outputs) + j - 1
             /\ Outputs(n)[j] \in EntriesTo(next + n)
    <2>1. Outputs(n)[j] = [name |-> "tmp", index |-> Len(outputs) + j - 1, value |-> next + j - 1]
        BY DEF Outputs
    <2>2. Len(outputs) + j - 1 \in Nat /\ next + j - 1 \in 0 .. (next + n) - 1
        BY <1>1
    <2> QED
        BY <2>1, <2>2 DEF EntriesTo
<1>3. Outputs(n) \in Seq(EntriesTo(next + n)) /\ Len(Outputs(n)) = n
    <2> DEFINE E == EntriesTo(next + n)
               q == Outputs(n)
    <2>1. q = [j \in 1 .. n |-> q[j]] /\ \A j \in 1 .. n : q[j] \in E
        BY <1>2 DEF Outputs
    <2> HIDE DEF E, q
    <2>2. q \in [1 .. n -> E]
        BY <2>1
    <2>3. q \in Seq(E)
        BY <2>2, SeqDef
    <2>4. Len(q) = n
        BY <2>2, <2>3, LenProperties
    <2> QED
        BY <2>3, <2>4 DEF E, q
<1> QED
    BY <1>2, <1>3

(* A value is bound to a name: an OutTensor is an output from then on.      *)
LEMMA BindExtends ==
    ASSUME IInv, NEW x \in Names, NEW o \in ObjectsTo(next), o.k = "tensor" => o.v \in Listed,
           BindValue(x, o), UNCHANGED <<params, nested>>
    PROVE  Extended /\ DOMAIN blocks' = DOMAIN blocks
<1>1. /\ next \in Nat /\ blocks \in Seq(BlocksTo(next)) /\ at \in [Names -> ObjectsTo(next)]
      /\ params \in Seq(EntriesTo(next)) /\ outputs \in Seq(EntriesTo(next))
      /\ TypeOK /\ Layout /\ NestedGrows /\ NamesListed /\ EntryBlock
    BY Typed DEF IInv, Layout
<1>2. CASE o # Out
    <2>1. /\ at' = [at EXCEPT ![x] = o] /\ blocks' = blocks /\ outputs' = outputs
          /\ next' = next /\ params' = params /\ nested' = nested
        BY <1>2 DEF BindValue
    <2>2. Layout' /\ Listed' = Listed
        BY <1>1, <2>1, LayoutStays DEF LayoutVars
    <2>3. NestedGrows'
        BY <1>1, <2>1, TopDeclares
    <2>4. at' \in [Names -> ObjectsTo(next')] /\ NamesListed'
        <3>1. /\ next' \in Nat /\ next <= next' /\ Listed \subseteq Listed'
              /\ o \in ObjectsTo(next') /\ (o.k = "tensor" => o.v \in Listed')
            BY <1>1, <2>1, <2>2
        <3> QED
            BY <1>1, <2>1, <3>1, NameGiven
    <2> QED
        BY <1>1, <2>1, <2>2, <2>3, <2>4 DEF Extended
<1>3. CASE o = Out
    <2> DEFINE e == [Outputs(1)[1] EXCEPT !.name = x]
               new == <<e>>
    <2>1. AppendOutputs(new) /\ at' = [at EXCEPT ![x] = Tensor(next)]
          /\ params' = params /\ nested' = nested
        BY <1>3 DEF BindValue
    <2>2. e \in EntriesTo(next + 1) /\ e.value = next + 1 - 1 /\ e.index = Len(outputs) + 1 - 1
        <3>1. /\ Outputs(1)[1].value = next + 1 - 1 /\ Outputs(1)[1].index = Len(outputs) + 1 - 1
              /\ Outputs(1)[1] \in EntriesTo(next + 1)
            <4>1. \A j \in 1 .. 1 : /\ Outputs(1)[j].value = next + j - 1
                                    /\ Outputs(1)[j].index = Len(outputs) + j - 1
                                    /\ Outputs(1)[j] \in EntriesTo(next + 1)
                BY <1>1, OutputsTyped
            <4>2. 1 \in 1 .. 1
                OBVIOUS
            <4> HIDE DEF e
            <4> QED
                BY <4>1, <4>2, Zenon
        <3> QED
            BY <3>1 DEF EntriesTo
    <2> HIDE DEF e
    <2>3. new \in Seq(EntriesTo(next + 1)) /\ Len(new) = 1 /\ new[1] = e
        BY <2>2
    <2>4. \A j \in 1 .. 1 : new[j].value = next + j - 1 /\ new[j].index = Len(outputs) + j - 1
        BY <2>2, <2>3
    <2>5. new[1].value = next
        BY <1>1, <2>2, <2>3
    <2> HIDE DEF new
    <2>6. /\ Layout' /\ Listed' = Listed \cup {new[j].value : j \in 1 .. 1} /\ next' = next + 1
          /\ blocks' \in Seq(BlocksTo(next')) /\ DOMAIN blocks' = DOMAIN blocks
          /\ params' \in Seq(EntriesTo(next')) /\ outputs' \in Seq(EntriesTo(next'))
          /\ \A b \in DOMAIN blocks : blocks'[b].op = blocks[b].op
          /\ \A b \in DOMAIN blocks : b # 1 => blocks'[b] = blocks[b]
        BY <1>1, <2>1, <2>3, <2>4, OutputsLayout
    <2>7. next \in Listed' /\ Listed \subseteq Listed'
        BY <2>5, <2>6
    <2>8. NestedGrows'
        BY <1>1, <2>1, <2>6, TopDeclares
    <2>9. at' \in [Names -> ObjectsTo(next')] /\ NamesListed'
        <3>1. next' \in Nat /\ next <= next' /\ next \in 0 .. next' - 1
            BY <1>1, <2>6
        <3>2. Tensor(next) \in ObjectsTo(next') /\ Tensor(next).v = next
            BY <3>1 DEF ObjectsTo, Tensor, Obj
        <3> QED
            BY <1>1, <2>1, <2>7, <3>1, <3>2, NameGiven
    <2> QED
        BY <1>1, <2>6, <2>7, <2>8, <2>9 DEF Extended
<1> QED
    BY <1>2, <1>3

(* What a call passes.                                                      *)
LEMMA ArgumentsTyped ==
    ASSUME TypeOK
    PROVE  /\ \A j \in DOMAIN call.args : call.args[j] \in Passable
           /\ \A x \in DOMAIN call.kwargs : call.kwargs[x] \in Passable
<1>1. call.args \in Seq(Passable) /\ call.kwargs \in Keywords
    <2>1. CASE call \in Calls
        BY <2>1, CallsAssumption
    <2>2. CASE call = NoCall
        <3>1. <<>> \in Seq(Passable)
            BY EmptySeq
        <3>2. [y \in {} |-> None] \in [{} -> Passable] /\ {} \in SUBSET Names
            OBVIOUS
        <3>3. [y \in {} |-> None] \in Keywords
            BY <3>2 DEF Keywords
        <3> QED
            BY <2>2, <3>1, <3>3 DEF NoCall
    <2> QED
        BY <2>1, <2>2 DEF TypeOK
<1>2. \A j \in DOMAIN call.args : call.args[j] \in Passable
    BY <1>1, LenProperties, ElementOfSeq
<1>3. \A x \in DOMAIN call.kwargs : call.kwargs[x] \in Passable
    BY <1>1 DEF Keywords
<1> QED
    BY <1>2, <1>3

(* A parameter is bound to what it is called with.                          *)
LEMMA BindParameterKeeps == ASSUME IInv, BindParameter PROVE IInv'
<1> DEFINE x == ArgNames[bound + 1]
           o == CallKwargs(call, x)
<1>1. /\ result = "tracing" /\ bound < Len(ArgNames) /\ BindValue(x, o) /\ bound' = bound + 1
      /\ call' \in {call, NoCall} /\ UNCHANGED <<stack, params, uses, nested, result>>
    BY DEF BindParameter
<1>2. bound + 1 \in 1 .. Len(ArgNames) /\ bound' \in 0 .. Len(ArgNames)
    BY <1>1, ArgNamesAssumption, LenProperties DEF IInv, TypeOK
<1>3. x \in Names
    BY <1>2, ArgNamesAssumption, LenProperties, ElementOfSeq
<1> HIDE DEF x
<1>4. o \in Passable
    <2>2. \A j \in DOMAIN call.args : call.args[j] \in Passable
        BY ArgumentsTyped DEF IInv
    <2>3. x \in DOMAIN call.kwargs => call.kwargs[x] \in Passable
        BY ArgumentsTyped DEF IInv
    <2>4. None \in Passable
        BY DEF Passable
    <2> QED
        BY <2>2, <2>3, <2>4 DEF CallKwargs
<1>5. o \in ObjectsTo(next) /\ o.k # "tensor"
    BY <1>4 DEF ObjectsTo, Passable, None, Out, Annotation, Obj
<1> HIDE DEF o
<1>6. Extended /\ DOMAIN blocks' = DOMAIN blocks
    BY <1>1, <1>3, <1>5, BindExtends
<1>7. /\ call' \in Calls \cup {NoCall} /\ stack' \in Seq(DOMAIN blocks') /\ stack' # <<>>
      /\ uses' \subseteq Listed' /\ nested' \in BOOLEAN /\ result' \in {"tracing", "raised"}
    BY <1>1, <1>6 DEF IInv, TypeOK, UsesListed, Extended
<1> QED
    BY <1>2, <1>6, <1>7, ExtendedKeeps

(* x: T.Tensor(...) in the current block.                                   *)
LEMMA DeclareKeeps == ASSUME IInv, NEW x \in Names, Declare(x) PROVE IInv'
<1> DEFINE h == Here
<1>1. /\ TypeOK /\ Layout /\ NestedGrows /\ NamesListed /\ UsesListed /\ EntryBlock
      /\ nested \in BOOLEAN
    BY DEF IInv, Layout, TypeOK
<1>2. /\ Argument(x) /\ at' = [at EXCEPT ![x] = Tensor(next)] /\ result' = result
      /\ nested' = (nested \/ blocks[h].op \in Indexed) /\ outputs' = outputs
      /\ call' = call /\ bound' = bound /\ stack' = stack /\ uses' = uses /\ result = "tracing"
    BY DEF Declare, Tracing
<1>3. /\ Layout' /\ Listed' = Listed \cup {next} /\ next' = next + 1
      /\ blocks' \in Seq(BlocksTo(next')) /\ DOMAIN blocks' = DOMAIN blocks
      /\ params' \in Seq(EntriesTo(next')) /\ outputs' \in Seq(EntriesTo(next'))
      /\ \A b \in DOMAIN blocks : blocks'[b].op = blocks[b].op
      /\ Len(blocks'[h].args) = Len(blocks[h].args) + 1
      /\ \A b \in DOMAIN blocks : b # h => blocks'[b] = blocks[b]
    BY <1>1, <1>2, ArgumentLayout
<1>4. next \in Nat /\ h \in DOMAIN blocks /\ Len(blocks[h].args) \in Nat
    <2>1. next \in Nat /\ h \in DOMAIN blocks /\ blocks[h] \in BlocksTo(next)
        BY <1>1, Typed
    <2> QED
        BY <2>1, LenProperties DEF BlocksTo
<1> HIDE DEF h
<1>5. at' \in [Names -> ObjectsTo(next')] /\ NamesListed'
    <2>1. next' \in Nat /\ next <= next' /\ next \in 0 .. next' - 1
        BY <1>3, <1>4
    <2>2. Tensor(next) \in ObjectsTo(next') /\ Tensor(next).v = next
        BY <2>1 DEF ObjectsTo, Tensor, Obj
    <2>3. Listed \subseteq Listed' /\ next \in Listed'
        BY <1>3
    <2> QED
        BY <1>1, <1>2, <2>1, <2>2, <2>3, NameGiven
<1>6. NestedGrows'
    <2>1. \A b \in DOMAIN blocks : b # h => (BodyEmits(b)' <=> BodyEmits(b))
        BY <1>3 DEF BodyEmits
    <2>2. ASSUME NEW b \in DOMAIN blocks, b = h
          PROVE  BodyEmits(b)' <=> blocks[h].op \notin Indexed
        <3>1. blocks[h].op \in Indexed => Len(blocks[h].args) >= 1
            BY <1>1, <1>4 DEF NestedGrows
        <3> QED
            <4>1. /\ blocks'[b].op = blocks[h].op
                  /\ Len(blocks'[b].args) = Len(blocks[h].args) + 1
                BY <1>3, <1>4, <2>2
            <4>2. blocks[h].op \in Indexed => Len(blocks'[b].args) # 1
                BY <1>4, <3>1, <4>1
            <4> QED
                BY <4>1, <4>2 DEF BodyEmits
    <2>3. ~BodyEmits(h) => blocks[h].op \in Indexed
        BY DEF BodyEmits
    <2>4. nested' <=> \E b \in DOMAIN blocks : ~BodyEmits(b)'
        <3>1. nested <=> \E b \in DOMAIN blocks : ~BodyEmits(b)
            BY <1>1 DEF NestedGrows
        <3>2. CASE blocks[h].op \in Indexed
            <4>1. nested'
                BY <1>2, <3>2
            <4>2. PICK b \in DOMAIN blocks : b = h
                BY <1>4
            <4>3. ~BodyEmits(b)'
                BY <2>2, <3>2, <4>2
            <4> QED
                BY <4>1, <4>3
        <3>3. CASE blocks[h].op \notin Indexed
            <4>1. nested' <=> nested
                BY <1>1, <1>2, <3>3
            <4>2. \A b \in DOMAIN blocks : BodyEmits(b)' <=> BodyEmits(b)
                <5> TAKE b \in DOMAIN blocks
                <5>1. CASE b = h
                    BY <2>2, <2>3, <3>3, <5>1
                <5> QED
                    BY <2>1, <5>1
            <4> QED
                BY <3>1, <4>1, <4>2
        <3> QED
            BY <3>2, <3>3
    <2>5. ASSUME NEW b \in DOMAIN blocks, blocks'[b].op \in Indexed
          PROVE  Len(blocks'[b].args) >= 1
        <3>1. CASE b = h
            BY <1>3, <1>4, <3>1
        <3>2. CASE b # h
            BY <1>1, <1>3, <2>5, <3>2 DEF NestedGrows
        <3> QED
            BY <3>1, <3>2
    <2> QED
        BY <1>3, <2>4, <2>5 DEF NestedGrows
<1>7. Extended
    BY <1>3, <1>4, <1>5, <1>6 DEF Extended
<1>8. /\ call' \in Calls \cup {NoCall} /\ bound' \in 0 .. Len(ArgNames)
      /\ stack' \in Seq(DOMAIN blocks') /\ stack' # <<>> /\ uses' \subseteq Listed'
      /\ result' \in {"tracing", "raised"}
    BY <1>1, <1>2, <1>3 DEF TypeOK, UsesListed
<1>9. nested' \in BOOLEAN
    BY <1>1, <1>2, Zenon
<1> QED
    BY <1>7, <1>8, <1>9, ExtendedKeeps

(* x = T.empty(...)                                                         *)
LEMMA EmptyKeeps == ASSUME IInv, NEW x \in Names, Empty(x) PROVE IInv'
<1>1. /\ result = "tracing" /\ UNCHANGED <<call, bound, stack, params, uses, nested>>
    BY DEF Empty, Tracing
<1>2. CASE BindValue(x, Out) /\ UNCHANGED result
    <2>1. Out \in ObjectsTo(next) /\ Out.k # "tensor"
        BY DEF ObjectsTo, Passable, Out, Obj
    <2>2. Extended /\ DOMAIN blocks' = DOMAIN blocks
        BY <1>1, <1>2, <2>1, BindExtends
    <2>3. /\ call' \in Calls \cup {NoCall} /\ bound' \in 0 .. Len(ArgNames)
          /\ stack' \in Seq(DOMAIN blocks') /\ stack' # <<>> /\ uses' \subseteq Listed'
          /\ nested' \in BOOLEAN /\ result' \in {"tracing", "raised"}
        BY <1>1, <1>2, <2>2 DEF IInv, TypeOK, UsesListed, Extended
    <2> QED
        BY <2>2, <2>3, ExtendedKeeps
<1>3. CASE result' = "raised" /\ UNCHANGED <<at, blocks, outputs, next>>
    BY <1>1, <1>3, RaiseKeeps
<1> QED
    BY <1>2, <1>3 DEF Empty

(* x, y = T.empty(...), T.empty(...)                                        *)
LEMMA EmptyPairKeeps == ASSUME IInv, NEW x \in Names, NEW y \in Names, EmptyPair(x, y) PROVE IInv'
<1>1. /\ result = "tracing" /\ UNCHANGED <<call, bound, stack, params, uses, nested>> /\ x # y
      /\ TypeOK /\ Layout /\ NestedGrows /\ NamesListed /\ EntryBlock
    BY DEF EmptyPair, Tracing, IInv, Layout
<1>2. CASE /\ AppendOutputs(Outputs(2)) /\ UNCHANGED result
           /\ at' = [at EXCEPT ![x] = Tensor(next), ![y] = Tensor(next + 1)]
    <2> DEFINE new == Outputs(2)
    <2>1. /\ new \in Seq(EntriesTo(next + 2)) /\ Len(new) = 2
          /\ \A j \in 1 .. 2 : /\ new[j].value = next + j - 1
                               /\ new[j].index = Len(outputs) + j - 1
                               /\ new[j] \in EntriesTo(next + 2)
        BY <1>1, OutputsTyped
    <2>2. /\ next \in Nat /\ params' = params /\ nested' = nested
          /\ at \in [Names -> ObjectsTo(next)]
        BY <1>1, Typed
    <2> HIDE DEF new
    <2>3. /\ Layout' /\ Listed' = Listed \cup {new[j].value : j \in 1 .. 2} /\ next' = next + 2
          /\ blocks' \in Seq(BlocksTo(next')) /\ DOMAIN blocks' = DOMAIN blocks
          /\ params' \in Seq(EntriesTo(next')) /\ outputs' \in Seq(EntriesTo(next'))
          /\ \A b \in DOMAIN blocks : blocks'[b].op = blocks[b].op
          /\ \A b \in DOMAIN blocks : b # 1 => blocks'[b] = blocks[b]
        BY <1>1, <1>2, <2>1, <2>2, OutputsLayout DEF new
    <2>4. next \in Listed' /\ next + 1 \in Listed' /\ Listed \subseteq Listed'
        <3>1. new[1].value = next /\ new[2].value = next + 1 /\ 1 \in 1 .. 2 /\ 2 \in 1 .. 2
            BY <2>1, <2>2
        <3> QED
            BY <2>3, <3>1
    <2>5. NestedGrows'
        BY <1>1, <2>2, <2>3, TopDeclares
    <2>6. at' \in [Names -> ObjectsTo(next')] /\ NamesListed'
        <3>1. next' \in Nat /\ next <= next' /\ next \in 0 .. next' - 1 /\ next + 1 \in 0 .. next' - 1
            BY <2>2, <2>3
        <3>2. /\ Tensor(next) \in ObjectsTo(next') /\ Tensor(next).v = next
              /\ Tensor(next + 1) \in ObjectsTo(next') /\ Tensor(next + 1).v = next + 1
            BY <3>1 DEF ObjectsTo, Tensor, Obj
        <3>3. ObjectsTo(next) \subseteq ObjectsTo(next')
            BY <2>2, <3>1, Monotone
        <3>4. \A z \in Names : at'[z] = IF z = y THEN Tensor(next + 1)
                                        ELSE IF z = x THEN Tensor(next) ELSE at[z]
            BY <1>2, <2>2
        <3>5. at' \in [Names -> ObjectsTo(next')]
            BY <1>2, <2>2, <3>2, <3>3, <3>4
        <3>6. \A z \in Names : at[z].k = "tensor" => at[z].v \in Listed'
            BY <1>1, <2>4 DEF NamesListed
        <3>7. NamesListed'
            BY <2>4, <3>2, <3>4, <3>6 DEF NamesListed
        <3> QED
            BY <3>5, <3>7
    <2>7. Extended
        BY <2>2, <2>3, <2>4, <2>5, <2>6 DEF Extended
    <2>8. /\ call' \in Calls \cup {NoCall} /\ bound' \in 0 .. Len(ArgNames)
          /\ stack' \in Seq(DOMAIN blocks') /\ stack' # <<>> /\ uses' \subseteq Listed'
          /\ nested' \in BOOLEAN /\ result' \in {"tracing", "raised"}
        BY <1>1, <1>2, <2>3, <2>7 DEF IInv, TypeOK, UsesListed, Extended
    <2> QED
        BY <2>7, <2>8, ExtendedKeeps
<1>3. CASE result' = "raised" /\ UNCHANGED <<at, blocks, outputs, next>>
    BY <1>1, <1>3, RaiseKeeps
<1> QED
    BY <1>2, <1>3 DEF EmptyPair

(* x = y                                                                    *)
LEMMA AliasKeeps == ASSUME IInv, NEW x \in Names, NEW y \in Names, Alias(x, y) PROVE IInv'
<1>1. /\ result = "tracing" /\ BindValue(x, at[y])
      /\ UNCHANGED <<call, bound, stack, params, uses, nested, result>>
    BY DEF Alias, Tracing
<1>2. at[y] \in ObjectsTo(next) /\ (at[y].k = "tensor" => at[y].v \in Listed)
    BY Typed DEF IInv, NamesListed
<1>3. Extended /\ DOMAIN blocks' = DOMAIN blocks
    BY <1>1, <1>2, BindExtends
<1>4. /\ call' \in Calls \cup {NoCall} /\ bound' \in 0 .. Len(ArgNames)
      /\ stack' \in Seq(DOMAIN blocks') /\ stack' # <<>> /\ uses' \subseteq Listed'
      /\ nested' \in BOOLEAN /\ result' \in {"tracing", "raised"}
    BY <1>1, <1>3 DEF IInv, TypeOK, UsesListed, Extended
<1> QED
    BY <1>3, <1>4, ExtendedKeeps

(* x[i], in whatever block.                                                 *)
LEMMA UseKeeps == ASSUME IInv, NEW x \in Names, Use(x) PROVE IInv'
<1>1. /\ result = "tracing" /\ uses' = uses \cup {at[x].v} /\ at[x].k = "tensor"
      /\ UNCHANGED <<call, bound, at, blocks, stack, params, outputs, next, nested, result>>
    BY DEF Use, Tracing
<1>2. at[x].v \in Listed
    BY <1>1 DEF IInv, NamesListed
<1>3. Extended
    BY <1>1, SameExtends
<1>4. /\ call' \in Calls \cup {NoCall} /\ bound' \in 0 .. Len(ArgNames)
      /\ stack' \in Seq(DOMAIN blocks') /\ stack' # <<>> /\ uses' \subseteq Listed'
      /\ nested' \in BOOLEAN /\ result' \in {"tracing", "raised"}
    BY <1>1, <1>2, <1>3 DEF IInv, TypeOK, UsesListed, Extended
<1> QED
    BY <1>3, <1>4, ExtendedKeeps

(* A body is entered, and left.                                             *)
LEMMA EnterKeeps == ASSUME IInv, NEW op \in {"for", "kernel", "if", "while"}, Enter(op) PROVE IInv'
<1>1. /\ result = "tracing" /\ stack' = Append(stack, Len(blocks) + 1)
      /\ UNCHANGED <<call, bound, at, params, outputs, uses, nested, result>>
      /\ TypeOK /\ Layout /\ NestedGrows
    BY DEF Enter, Tracing, IInv
<1>2. /\ Layout' /\ NestedGrows' /\ Listed' = Listed /\ next' \in Nat /\ next <= next'
      /\ blocks' \in Seq(BlocksTo(next')) /\ DOMAIN blocks' = 1 .. Len(blocks) + 1
      /\ params' \in Seq(EntriesTo(next')) /\ outputs' \in Seq(EntriesTo(next'))
      /\ at' \in [Names -> ObjectsTo(next')]
    BY <1>1, EnterLayout
<1>3. Len(blocks) \in Nat /\ DOMAIN blocks = 1 .. Len(blocks)
    BY <1>1, Typed
<1>4. DOMAIN blocks \subseteq DOMAIN blocks' /\ Len(blocks) + 1 \in DOMAIN blocks'
    BY <1>2, <1>3
<1>5. NamesListed'
    BY <1>1, <1>2 DEF IInv, NamesListed
<1>6. stack' \in Seq(DOMAIN blocks') /\ stack' # <<>>
    <2>1. stack \in Seq(DOMAIN blocks')
        BY <1>1, <1>4, SeqGrows DEF TypeOK
    <2> QED
        BY <1>1, <1>4, <2>1
<1>7. Extended
    BY <1>2, <1>4, <1>5 DEF Extended
<1>8. /\ call' \in Calls \cup {NoCall} /\ bound' \in 0 .. Len(ArgNames)
      /\ uses' \subseteq Listed' /\ nested' \in BOOLEAN /\ result' \in {"tracing", "raised"}
    BY <1>1, <1>2 DEF IInv, TypeOK, UsesListed
<1> QED
    BY <1>6, <1>7, <1>8, ExtendedKeeps

LEMMA LeaveKeeps == ASSUME IInv, Leave PROVE IInv'
<1>1. /\ result = "tracing" /\ Len(stack) > 1 /\ stack' = SubSeq(stack, 1, Len(stack) - 1)
      /\ UNCHANGED <<call, bound, at, blocks, params, outputs, next, uses, nested, result>>
    BY DEF Leave, Tracing
<1>2. stack' \in Seq(DOMAIN blocks) /\ stack' # <<>>
    <2>1. stack \in Seq(DOMAIN blocks) /\ Len(stack) \in Nat
        BY LenProperties DEF IInv, TypeOK
    <2>2. stack' \in Seq(DOMAIN blocks) /\ Len(stack') = Len(stack) - 1
        BY <1>1, <2>1
    <2>3. Len(stack') # 0
        BY <1>1, <2>1, <2>2
    <2> QED
        BY <2>2, <2>3, EmptySeq
<1>3. Extended
    BY <1>1, SameExtends
<1>4. /\ call' \in Calls \cup {NoCall} /\ bound' \in 0 .. Len(ArgNames)
      /\ uses' \subseteq Listed' /\ nested' \in BOOLEAN /\ result' \in {"tracing", "raised"}
      /\ blocks' = blocks
    BY <1>1, <1>3 DEF IInv, TypeOK, UsesListed, Extended
<1> QED
    BY <1>2, <1>3, <1>4, ExtendedKeeps

(* The kernel is emitted, or refused.                                       *)
LEMMA EmitKeeps == ASSUME IInv, Emit PROVE IInv'
<1>1. /\ result' = IF (\A b \in DOMAIN blocks : BodyEmits(b)) /\ uses \subseteq Emitted
                   THEN "emitted" ELSE "refused"
      /\ call' = call /\ bound' = bound /\ at' = at /\ blocks' = blocks /\ stack' = stack
      /\ params' = params /\ outputs' = outputs /\ next' = next /\ uses' = uses
      /\ nested' = nested
    BY DEF Emit
<1>2. Extended
    BY <1>1, SameExtends
<1>3. TypeOK'
    BY <1>1 DEF IInv, TypeOK, Objects, Entries
<1>4. uses \subseteq Emitted
    BY SignatureLists DEF IInv, UsesListed
<1>5. nested <=> \E b \in DOMAIN blocks : ~BodyEmits(b)
    BY DEF IInv, NestedGrows
<1>6. result' = "refused" <=> nested
    BY <1>1, <1>4, <1>5
<1>7. RefusesNested'
    <2>1. nested \in BOOLEAN
        BY DEF IInv, TypeOK
    <2>2. nested' <=> nested
        BY <1>1, <2>1
    <2> QED
        BY <1>6, <2>2 DEF RefusesNested
<1>8. UsesListed'
    BY <1>1, <1>2 DEF IInv, UsesListed, Extended
<1> QED
    BY <1>2, <1>3, <1>7, <1>8 DEF IInv, Extended

LEMMA InitIInv == Init => IInv
<1> SUFFICES ASSUME Init
             PROVE  IInv
    OBVIOUS
<1>1. /\ call \in Calls /\ bound = 0 /\ at = [x \in Names |-> Unbound]
      /\ blocks = <<[op |-> "func", args |-> <<>>]>> /\ stack = <<1>>
      /\ params = <<>> /\ outputs = <<>> /\ next = 0 /\ uses = {} /\ nested = FALSE
      /\ result = "tracing"
    BY DEF Init
<1>2. /\ DOMAIN blocks = {1} /\ blocks[1] = [op |-> "func", args |-> <<>>]
      /\ DOMAIN params = {} /\ DOMAIN outputs = {}
    BY <1>1
<1>3. TypeOK
    <2>1. <<>> \in Seq(Entries) /\ <<>> \in Seq(0 .. next - 1)
        BY EmptySeq
    <2>2. blocks \in Seq([op : {"func", "for", "kernel", "if", "while"}, args : Seq(0 .. next - 1)])
        <3> DEFINE f == [op |-> "func", args |-> <<>>]
                   B == [op : {"func", "for", "kernel", "if", "while"}, args : Seq(0 .. next - 1)]
        <3>1. f \in B
            BY <2>1
        <3>2. blocks = <<f>>
            BY <1>1
        <3> HIDE DEF f, B
        <3>3. blocks \in Seq(B)
            BY <3>1, <3>2
        <3> QED
            BY <3>3 DEF B
    <2>3. stack \in Seq(DOMAIN blocks) /\ stack # <<>>
        BY <1>1, <1>2
    <2>4. at \in [Names -> Objects]
        BY <1>1 DEF Objects
    <2>5. bound \in 0 .. Len(ArgNames)
        BY <1>1, ArgNamesAssumption, LenProperties
    <2> QED
        BY <1>1, <2>1, <2>2, <2>3, <2>4, <2>5 DEF TypeOK
<1>4. Layout
    BY <1>2 DEF Layout, EntryBlock, ListedOnce, Indices, OwnedOnce, Listed
<1>5. NestedGrows
    BY <1>1, <1>2 DEF NestedGrows, BodyEmits, Indexed
<1>6. NamesListed /\ UsesListed /\ RefusesNested
    BY <1>1 DEF NamesListed, UsesListed, RefusesNested, Unbound, Obj
<1> QED
    BY <1>3, <1>4, <1>5, <1>6 DEF IInv

LEMMA NextIInv == IInv /\ [Next]_vars => IInv'
<1> SUFFICES ASSUME IInv, [Next]_vars
             PROVE  IInv'
    OBVIOUS
<1>1. CASE UNCHANGED vars
    <2>1. /\ call' = call /\ bound' = bound /\ at' = at /\ blocks' = blocks /\ stack' = stack
          /\ params' = params /\ outputs' = outputs /\ next' = next /\ uses' = uses
          /\ nested' = nested /\ result' = result
        BY <1>1 DEF vars
    <2>2. Extended
        BY <2>1, SameExtends
    <2>3. TypeOK'
        BY <2>1 DEF IInv, TypeOK, Objects, Entries
    <2>4. UsesListed' /\ RefusesNested'
        BY <2>1, <2>2 DEF IInv, UsesListed, RefusesNested, Extended
    <2> QED
        BY <2>2, <2>3, <2>4 DEF IInv, Extended
<1>2. CASE Next
    BY <1>2, BindParameterKeeps, DeclareKeeps, EmptyKeeps, UseKeeps, EmptyPairKeeps, AliasKeeps,
       EnterKeeps, LeaveKeeps, EmitKeeps DEF Next
<1> QED
    BY <1>1, <1>2

(* The types of the state, whatever the kernel and its calls.               *)
THEOREM PrologueTypeCorrect == Spec => []TypeOK
<1>1. IInv => TypeOK
    BY DEF IInv
<1> QED
    BY InitIInv, NextIInv, <1>1, PTL DEF Spec

(* However tensors are passed, declared, aliased and rebound, each has one  *)
(* place in the signature, at its index, and one block that it belongs to.  *)
THEOREM EveryTensorHasOnePlace == Spec => []OnePlace
<1>1. IInv => OnePlace
    <2> SUFFICES ASSUME IInv
                 PROVE  OnePlace
        OBVIOUS
    <2>1. TypeOK /\ ListedOnce /\ Indices /\ OwnedOnce
        BY DEF IInv, Layout
    <2>2. Tensors \subseteq Listed
        BY DEF Tensors, IInv, NamesListed, UsesListed
    <2>3. ASSUME NEW v \in Listed
          PROVE  Cardinality(Owners(v)) = 1
        <3>1. PICK b \in DOMAIN blocks : Owns(b, v) /\ \A c \in DOMAIN blocks : Owns(c, v) => c = b
            BY <2>1 DEF OwnedOnce
        <3>2. Owners(v) = {b}
            BY <3>1 DEF Owners, Owns
        <3> QED
            BY <3>2, FS_Singleton
    <2> QED
        BY <2>1, <2>2, <2>3, SignatureLists DEF OnePlace, Indices
<1> QED
    BY InitIInv, NextIInv, <1>1, PTL DEF Spec

(* The emitter refuses the kernels that declare a tensor in the body of a   *)
(* loop or of a launch, and no others.                                      *)
THEOREM OnlyNestedAreRefused == Spec => []RefusesNested
<1>1. IInv => RefusesNested
    BY DEF IInv
<1> QED
    BY InitIInv, NextIInv, <1>1, PTL DEF Spec

(* A parameter that Python would bind is bound to the same.                 *)
LEMMA ParameterAsPython ==
    ASSUME IInv, BindParameter, PythonAccepts(call)
    PROVE  LET x == ArgNames[bound'] IN StandsFor(at'[x], PythonBinds(call, x))
<1> DEFINE j == bound + 1
           x == ArgNames[j]
           passed == PythonBinds(call, x)
<1>1. /\ bound < Len(ArgNames) /\ BindValue(x, CallKwargs(call, x)) /\ bound' = j
    BY DEF BindParameter
<1>2. j \in DOMAIN ArgNames /\ x \in Names
    <2>1. j \in 1 .. Len(ArgNames)
        BY <1>1, ArgNamesAssumption, LenProperties DEF IInv, TypeOK
    <2> QED
        BY <2>1, ArgNamesAssumption, LenProperties, ElementOfSeq
<1> HIDE DEF j
<1>3. Position(x) = j
    BY <1>2, ArgNamesAssumption DEF Position
<1>4. IsParameter(x)
    BY <1>2 DEF IsParameter
<1> HIDE DEF x
<1>5. CallKwargs(call, x) = (IF passed = Annotation THEN None ELSE passed) /\ passed \in Passable
    <2>1. (x \in Positional(call)) # (x \in DOMAIN call.kwargs)
        BY <1>2, <1>4 DEF PythonAccepts
    <2>2. x \in Positional(call) <=> j \in DOMAIN call.args
        BY <1>2, ArgNamesAssumption DEF Positional, x
    <2>3. CASE x \in DOMAIN call.kwargs
        BY <1>3, <2>1, <2>2, <2>3, ArgumentsTyped DEF CallKwargs, PythonBinds, IInv
    <2>4. CASE x \notin DOMAIN call.kwargs
        BY <1>3, <2>1, <2>2, <2>4, ArgumentsTyped DEF CallKwargs, PythonBinds, IInv
    <2> QED
        BY <2>3, <2>4
<1>6. at \in [Names -> ObjectsTo(next)] /\ next \in Nat
    BY Typed DEF IInv
<1> HIDE DEF passed
<1>7. CASE passed = Out
    <2>1. CallKwargs(call, x) = Out
        BY <1>5, <1>7 DEF Out, Annotation, Obj
    <2>2. at' = [at EXCEPT ![x] = Tensor(next)]
        BY <1>1, <2>1 DEF BindValue
    <2>3. at'[x] = Tensor(next) /\ Tensor(next).k = "tensor" /\ passed.k # "scalar"
        BY <1>2, <1>6, <1>7, <2>2 DEF Tensor, Obj, Out
    <2>4. \A o \in ObjectsTo(next) : o # Tensor(next)
        BY <1>6 DEF ObjectsTo, Passable, None, Out, Annotation, Unbound, Tensor, Obj
    <2> QED
        BY <1>1, <1>6, <1>7, <2>3, <2>4 DEF StandsFor, passed, x
<1>8. CASE passed # Out
    <2>1. CallKwargs(call, x) # Out
        BY <1>5, <1>8 DEF None, Out, Obj
    <2>2. at'[x] = CallKwargs(call, x)
        BY <1>1, <1>2, <1>6, <2>1 DEF BindValue
    <2>3. /\ passed.k = "scalar" => passed # Annotation
          /\ passed.k # "scalar" => passed \in {None, Annotation}
        BY <1>5, <1>8 DEF Passable, None, Annotation, Out, Obj
    <2>4. StandsFor(at'[x], passed)
        BY <1>5, <1>8, <2>2, <2>3 DEF StandsFor
    <2> QED
        BY <1>1, <2>4 DEF passed, x
<1> QED
    BY <1>7, <1>8

(* The parameters of a kernel stand for what Python would have bound them   *)
(* to, in every call that Python accepts.                                   *)
THEOREM ParametersAsPython == Spec => BindsAsPython
<1>1. ASSUME IInv, [Next]_vars, bound' > bound, PythonAccepts(call)
      PROVE  LET x == ArgNames[bound'] IN StandsFor(at'[x], PythonBinds(call, x))
    <2>1. bound \in Int
        BY <1>1 DEF IInv, TypeOK
    <2>2. bound' # bound
        BY <1>1, <2>1
    <2>3. BindParameter
        BY <1>1, <2>2 DEF Next, vars, Declare, Empty, Use, EmptyPair, Alias, Enter, Leave, Emit
    <2> QED
        BY <1>1, <2>3, ParameterAsPython
<1>2. IInv /\ [Next]_vars =>
        [bound' > bound /\ PythonAccepts(call) =>
           LET x == ArgNames[bound'] IN StandsFor(at'[x], PythonBinds(call, x))]_vars
    BY <1>1
<1> QED
    BY InitIInv, NextIInv, <1>2, PTL DEF Spec, BindsAsPython
=============================================================================
