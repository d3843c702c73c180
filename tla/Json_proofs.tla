------------------------------- MODULE Json_proofs -------------------------------
(******************************************************************************)
(* Proofs about the JSON library for every text: that its two parsers agree,  *)
(* and that a document that is read is written as the same text.              *)
(*                                                                            *)
(* The parsers.  The iterative parser is a function After of its state and    *)
(* the next token; a history M of it is kept beside the text (Traced).  The   *)
(* recursive parser is followed from the inside out, by induction on the      *)
(* tokens left: wherever a reading stands where the machine is in a state     *)
(* that begins a value, a member or an element, the value it comes to is      *)
(* where the machine has left the container again, or both are in error       *)
(* (LoopsAgree).  The induction needs that no loop ever reads backwards       *)
(* (LoopsFurther).                                                            *)
(*                                                                            *)
(* Reading and writing.  An invariant of the history (Explained) ties the     *)
(* text to the calls made, the values on the handler's stack and the levels   *)
(* of a Writer that is given the same calls: in a container, all of them are  *)
(* what they were where it was opened, with the items read since and, for the *)
(* Writer, without the comma or colon it puts down only before the next item. *)
(* At the end of a container the items are one value, for which Accept makes  *)
(* just the calls made since the opening, and which arrives in the container  *)
(* around it or is the document.                                              *)
(*                                                                            *)
(* What the recursive functions and the folds compute is shown by induction   *)
(* over sets of numbers.                                                      *)
(******************************************************************************)
EXTENDS Json, WellFoundedInduction, SequenceTheorems, TLAPS

-------------------------------------------------------------------------------
(* Numbers, and the function of the loops                                     *)

(* The numbers in their order. *)
NatLess == {pair \in Nat \X Nat : pair[1] < pair[2]}

(* A set of numbers that is not empty has a least one. *)
LEMMA LeastNumber ==
  ASSUME NEW T \in SUBSET Nat, T # {}
  PROVE  \E m \in T : \A k \in T : m <= k
<1>1. IsWellFoundedOn(NatLess, Nat)
  BY NatLessThanWellFounded DEF OpToRel, NatLess
<1>2. PICK m \in T : \A k \in T : <<k, m>> \notin NatLess
  BY <1>1, WFMin, Zenon
<1>3. ASSUME NEW k \in T PROVE m <= k
  <2>1. <<k, m>> \in Nat \X Nat /\ <<k, m>>[1] = k /\ <<k, m>>[2] = m
    OBVIOUS
  <2>2. ~(k < m)
    BY <1>2, <2>1 DEF NatLess
  <2> QED
    BY <2>2
<1> QED
  BY <1>3

(* A set with 0 and with the successor of each of its numbers has all of      *)
(* them.                                                                      *)
LEMMA Induction ==
  ASSUME NEW S \in SUBSET Nat, 0 \in S, \A n \in S : n + 1 \in S
  PROVE  S = Nat
<1> SUFFICES ASSUME Nat \ S # {} PROVE FALSE
  OBVIOUS
<1>1. PICK m \in Nat \ S : \A k \in Nat \ S : m <= k
  BY LeastNumber
<1>2. m # 0 /\ m - 1 \in Nat
  BY <1>1
<1>3. m - 1 \in S
  BY <1>1, <1>2
<1>4. (m - 1) + 1 = m
  BY <1>1
<1> QED
  BY <1>1, <1>3, <1>4

(* The loops at left, given those at left - 1. *)
LoopsAt(t, left, p) ==
  [members  |-> [n \in Nat |-> [r \in Readings |->
                  IF left = 0 THEN Fail(r, "MissName") ELSE Members(t, r, n, p)]],
   elements |-> [n \in Nat |-> [r \in Readings |->
                  IF left = 0 THEN Fail(r, "ValueInvalid") ELSE Elements(t, r, n, p)]]]

(* Where no token is left nothing depends on what is deeper. *)
LEMMA LoopsAtZero ==
  ASSUME NEW t, NEW p, NEW q
  PROVE  LoopsAt(t, 0, p) = LoopsAt(t, 0, q)
BY DEF LoopsAt

(* There is such a function, up to every number of tokens left. *)
LEMMA LoopsExist ==
  ASSUME NEW t, NEW N \in Nat
  PROVE  \E f : f = [left \in 0 .. N |-> LoopsAt(t, left, f[left - 1])]
<1> DEFINE Upto(f, n) == f = [left \in 0 .. n |-> LoopsAt(t, left, f[left - 1])]
           S == {n \in Nat : \E f : Upto(f, n)}
<1>1. 0 \in S
  <2> DEFINE f == [left \in 0 .. 0 |-> LoopsAt(t, 0, 0)]
  <2>1. \A left \in 0 .. 0 : LoopsAt(t, 0, 0) = LoopsAt(t, left, f[left - 1])
    BY LoopsAtZero
  <2>2. Upto(f, 0)
    BY <2>1
  <2> QED
    BY <2>2
<1>2. ASSUME NEW n \in S PROVE n + 1 \in S
  <2>1. n \in Nat /\ n + 1 \in Nat
    OBVIOUS
  <2>2. PICK f : Upto(f, n)
    BY <2>1
  <2> DEFINE g == [left \in 0 .. n + 1 |-> LoopsAt(t, left, f[left - 1])]
  <2>3. \A left \in 0 .. n : g[left] = f[left]
    <3>1. \A left \in 0 .. n : f[left] = LoopsAt(t, left, f[left - 1])
      BY <2>2
    <3>2. \A left \in 0 .. n : g[left] = LoopsAt(t, left, f[left - 1])
      BY <2>1
    <3> QED
      BY <3>1, <3>2
  <2>4. \A left \in 0 .. n + 1 : LoopsAt(t, left, f[left - 1]) = LoopsAt(t, left, g[left - 1])
    <3> TAKE left \in 0 .. n + 1
    <3>1. CASE left = 0
      BY <3>1, LoopsAtZero
    <3>2. CASE left # 0
      <4>1. left - 1 \in 0 .. n
        BY <2>1, <3>2
      <4> QED
        BY <2>3, <4>1, Zenon
    <3> QED
      BY <3>1, <3>2
  <2>5. Upto(g, n + 1)
    BY <2>4
  <2> HIDE DEF g
  <2> QED
    BY <2>1, <2>5
<1>3. S \in SUBSET Nat
  OBVIOUS
<1>4. N \in S
  <2> HIDE DEF S
  <2> QED
    BY <1>1, <1>2, <1>3, Induction
<1> QED
  BY <1>4

(* Loops is what its definition says. *)
LEMMA LoopsRec ==
  ASSUME NEW t, Len(t) \in Nat
  PROVE  \A left \in 0 .. Len(t) : Loops(t)[left] = LoopsAt(t, left, Loops(t)[left - 1])
<1>1. Loops(t) = CHOOSE f : f = [left \in 0 .. Len(t) |-> LoopsAt(t, left, f[left - 1])]
  BY DEF Loops, LoopsAt
<1>2. Loops(t) = [left \in 0 .. Len(t) |-> LoopsAt(t, left, Loops(t)[left - 1])]
  BY <1>1, LoopsExist
<1> QED
  BY <1>2

-------------------------------------------------------------------------------
(* The other recursive functions: Nested, Visit and the folds                 *)

(* The types of values, and the parts of Nested and Visit. *)
Types == {"null", "object", "array"} \cup Scalars

(* Nested and Visit at d, given them at d - 1, and a fold after i elements,   *)
(* given it after i - 1.                                                      *)
NestedAt(d, q) == [type : Types, items : IF d = 0 THEN {<<>>} ELSE Seq(q)]

(* The calls made for the i-th item of v, given those made for values. *)
ItemCalls(v, i, calls) ==
  IF v.type = "object" /\ i % 2 = 1 THEN <<Event("Key", 0)>> ELSE calls[v.items[i]]

(* The calls made for v, where calls[x] are those for an item x. *)
ValueCalls(v, calls) ==
  LET n      == Len(v.items)
      Inside == FlattenSeq([i \in 1 .. n |-> ItemCalls(v, i, calls)])
  IN  CASE v.type = "object" ->
             <<Event("StartObject", 0)>> \o Inside \o <<Event("EndObject", n \div 2)>>
        [] v.type = "array" ->
             <<Event("StartArray", 0)>> \o Inside \o <<Event("EndArray", n)>>
        [] OTHER -> <<Event(v.type, 0)>>

(* The values at depth d, given the calls at depth d - 1. *)
VisitAt(d, calls) == [v \in Nested[d] |-> ValueCalls(v, calls)]

(* The parts of the folds: what is left after i members of s, given q after i *)
(* - 1.                                                                       *)
BuildAt(s, i, q) == IF i = 0 THEN <<>> ELSE Build(q, s[i])

(* The Writer before the first call. *)
NoOutput == [levels |-> <<>>, out |-> <<>>]

(* The output after i calls. *)
WriterAt(s, i, q) == IF i = 0 THEN NoOutput ELSE Writer(q, s[i])

(* The text without white space after i tokens. *)
SqueezeAt(s, i, q) == IF i = 0 THEN <<>> ELSE Squeeze(q, s[i])

(* The first i members of s one after the other. *)
FlatAt(s, i, q) == IF i <= 1 THEN s[i] ELSE q \o s[i]

(* At depth 0 nothing depends on what is deeper. *)
LEMMA NestedAtZero == ASSUME NEW p, NEW q PROVE NestedAt(0, p) = NestedAt(0, q)
BY DEF NestedAt

(* The same of the first member. *)
LEMMA FlatAtZero == ASSUME NEW s, NEW p, NEW q PROVE FlatAt(s, 0, p) = FlatAt(s, 0, q)
BY DEF FlatAt

(* There is such a function, to every depth. *)
LEMMA NestedExist ==
  ASSUME NEW N \in Nat
  PROVE  \E f : f = [i \in 0 .. N |-> NestedAt(i, f[i - 1])]
<1> DEFINE Upto(f, n) == f = [i \in 0 .. n |-> NestedAt(i, f[i - 1])]
           S == {n \in Nat : \E f : Upto(f, n)}
<1>1. 0 \in S
  <2> DEFINE f == [i \in 0 .. 0 |-> NestedAt(0, 0)]
  <2>1. \A i \in 0 .. 0 : NestedAt(0, 0) = NestedAt(i, f[i - 1])
    BY NestedAtZero
  <2>2. Upto(f, 0)
    BY <2>1
  <2> QED
    BY <2>2
<1>2. ASSUME NEW n \in S PROVE n + 1 \in S
  <2>1. n \in Nat /\ n + 1 \in Nat
    OBVIOUS
  <2>2. PICK f : Upto(f, n)
    BY <2>1
  <2> DEFINE g == [i \in 0 .. n + 1 |-> NestedAt(i, f[i - 1])]
  <2>3. \A i \in 0 .. n : g[i] = f[i]
    <3>1. \A i \in 0 .. n : f[i] = NestedAt(i, f[i - 1])
      BY <2>2
    <3>2. \A i \in 0 .. n : g[i] = NestedAt(i, f[i - 1])
      BY <2>1
    <3> QED
      BY <3>1, <3>2
  <2>4. \A i \in 0 .. n + 1 : NestedAt(i, f[i - 1]) = NestedAt(i, g[i - 1])
    <3> TAKE i \in 0 .. n + 1
    <3>1. CASE i = 0
      BY <3>1, NestedAtZero
    <3>2. CASE i # 0
      <4>1. i - 1 \in 0 .. n
        BY <2>1, <3>2
      <4> QED
        BY <2>3, <4>1, Zenon
    <3> QED
      BY <3>1, <3>2
  <2>5. Upto(g, n + 1)
    BY <2>4
  <2> HIDE DEF g
  <2> QED
    BY <2>1, <2>5
<1>3. S \in SUBSET Nat
  OBVIOUS
<1>4. N \in S
  <2> HIDE DEF S
  <2> QED
    BY <1>1, <1>2, <1>3, Induction
<1> QED
  BY <1>4

(* There is such a function, up to every length. *)
LEMMA FlatExist ==
  ASSUME NEW s, NEW N \in Nat
  PROVE  \E f : f = [i \in 0 .. N |-> FlatAt(s, i, f[i - 1])]
<1> DEFINE Upto(f, n) == f = [i \in 0 .. n |-> FlatAt(s, i, f[i - 1])]
           S == {n \in Nat : \E f : Upto(f, n)}
<1>1. 0 \in S
  <2> DEFINE f == [i \in 0 .. 0 |-> FlatAt(s, 0, 0)]
  <2>1. \A i \in 0 .. 0 : FlatAt(s, 0, 0) = FlatAt(s, i, f[i - 1])
    BY FlatAtZero
  <2>2. Upto(f, 0)
    BY <2>1
  <2> QED
    BY <2>2
<1>2. ASSUME NEW n \in S PROVE n + 1 \in S
  <2>1. n \in Nat /\ n + 1 \in Nat
    OBVIOUS
  <2>2. PICK f : Upto(f, n)
    BY <2>1
  <2> DEFINE g == [i \in 0 .. n + 1 |-> FlatAt(s, i, f[i - 1])]
  <2>3. \A i \in 0 .. n : g[i] = f[i]
    <3>1. \A i \in 0 .. n : f[i] = FlatAt(s, i, f[i - 1])
      BY <2>2
    <3>2. \A i \in 0 .. n : g[i] = FlatAt(s, i, f[i - 1])
      BY <2>1
    <3> QED
      BY <3>1, <3>2
  <2>4. \A i \in 0 .. n + 1 : FlatAt(s, i, f[i - 1]) = FlatAt(s, i, g[i - 1])
    <3> TAKE i \in 0 .. n + 1
    <3>1. CASE i = 0
      BY <3>1, FlatAtZero
    <3>2. CASE i # 0
      <4>1. i - 1 \in 0 .. n
        BY <2>1, <3>2
      <4> QED
        BY <2>3, <4>1, Zenon
    <3> QED
      BY <3>1, <3>2
  <2>5. Upto(g, n + 1)
    BY <2>4
  <2> HIDE DEF g
  <2> QED
    BY <2>1, <2>5
<1>3. S \in SUBSET Nat
  OBVIOUS
<1>4. N \in S
  <2> HIDE DEF S
  <2> QED
    BY <1>1, <1>2, <1>3, Induction
<1> QED
  BY <1>4

(* Nested is what its definition says. *)
LEMMA NestedRec ==
  \A d \in 0 .. MaxTokens : Nested[d] = NestedAt(d, Nested[d - 1])
<1>1. MaxTokens \in Nat
  BY JsonAssumption
<1>2. Nested = CHOOSE f : f = [d \in 0 .. MaxTokens |-> NestedAt(d, f[d - 1])]
  BY DEF Nested, NestedAt, Types
<1>3. Nested = [d \in 0 .. MaxTokens |-> NestedAt(d, Nested[d - 1])]
  BY <1>1, <1>2, NestedExist
<1> QED
  BY <1>3

(* At depth 0 no calls are made for items. *)
LEMMA VisitAtZero ==
  ASSUME NEW p, NEW q PROVE VisitAt(0, p) = VisitAt(0, q)
<1>1. MaxTokens \in Nat
  BY JsonAssumption
<1>2. \A v \in Nested[0] : v.items = <<>>
  <2>1. Nested[0] = [type : Types, items : {<<>>}]
    <3>1. Nested[0] = NestedAt(0, Nested[0 - 1])
      BY <1>1, NestedRec
    <3> QED
      BY <3>1 DEF NestedAt
  <2> QED
    BY <2>1
<1>3. \A v \in Nested[0] : ValueCalls(v, p) = ValueCalls(v, q)
  <2> TAKE v \in Nested[0]
  <2>1. Len(v.items) = 0
    BY <1>2
  <2>2. [i \in 1 .. Len(v.items) |-> ItemCalls(v, i, p)]
        = [i \in 1 .. Len(v.items) |-> ItemCalls(v, i, q)]
    BY <2>1
  <2> QED
    BY <2>2, Zenon DEF ValueCalls
<1> QED
  BY <1>3 DEF VisitAt

(* There is such a function, to every depth. *)
LEMMA VisitExist ==
  ASSUME NEW N \in Nat
  PROVE  \E f : f = [i \in 0 .. N |-> VisitAt(i, f[i - 1])]
<1> DEFINE Upto(f, n) == f = [i \in 0 .. n |-> VisitAt(i, f[i - 1])]
           S == {n \in Nat : \E f : Upto(f, n)}
<1>1. 0 \in S
  <2> DEFINE f == [i \in 0 .. 0 |-> VisitAt(0, 0)]
  <2>1. \A i \in 0 .. 0 : VisitAt(0, 0) = VisitAt(i, f[i - 1])
    BY VisitAtZero
  <2>2. Upto(f, 0)
    BY <2>1
  <2> QED
    BY <2>2
<1>2. ASSUME NEW n \in S PROVE n + 1 \in S
  <2>1. n \in Nat /\ n + 1 \in Nat
    OBVIOUS
  <2>2. PICK f : Upto(f, n)
    BY <2>1
  <2> DEFINE g == [i \in 0 .. n + 1 |-> VisitAt(i, f[i - 1])]
  <2>3. \A i \in 0 .. n : g[i] = f[i]
    <3>1. \A i \in 0 .. n : f[i] = VisitAt(i, f[i - 1])
      BY <2>2
    <3>2. \A i \in 0 .. n : g[i] = VisitAt(i, f[i - 1])
      BY <2>1
    <3> QED
      BY <3>1, <3>2
  <2>4. \A i \in 0 .. n + 1 : VisitAt(i, f[i - 1]) = VisitAt(i, g[i - 1])
    <3> TAKE i \in 0 .. n + 1
    <3>1. CASE i = 0
      BY <3>1, VisitAtZero
    <3>2. CASE i # 0
      <4>1. i - 1 \in 0 .. n
        BY <2>1, <3>2
      <4> QED
        BY <2>3, <4>1, Zenon
    <3> QED
      BY <3>1, <3>2
  <2>5. Upto(g, n + 1)
    BY <2>4
  <2> HIDE DEF g
  <2> QED
    BY <2>1, <2>5
<1>3. S \in SUBSET Nat
  OBVIOUS
<1>4. N \in S
  <2> HIDE DEF S
  <2> QED
    BY <1>1, <1>2, <1>3, Induction
<1> QED
  BY <1>4

(* Visit is what its definition says. *)
LEMMA VisitRec ==
  \A d \in 0 .. MaxTokens : Visit[d] = VisitAt(d, Visit[d - 1])
<1>1. MaxTokens \in Nat
  BY JsonAssumption
<1>2. Visit = CHOOSE f : f = [d \in 0 .. MaxTokens |-> VisitAt(d, f[d - 1])]
  BY Zenon DEF Visit, VisitAt, ValueCalls, ItemCalls
<1>3. Visit = [d \in 0 .. MaxTokens |-> VisitAt(d, Visit[d - 1])]
  BY <1>1, <1>2, VisitExist
<1> QED
  BY <1>3

-------------------------------------------------------------------------------
(* The folds, member by member                                                *)

(* Max of a set of numbers up to n is the greatest of them. *)
LEMMA MaxOf ==
  ASSUME NEW n \in Nat, NEW T \in SUBSET (1 .. n), T # {}
  PROVE  Max(T) \in T /\ \A y \in T : Max(T) >= y
<1> DEFINE M == {k \in Nat : n - k \in T}
<1>1. PICK y \in T : TRUE
  OBVIOUS
<1>2. n - y \in Nat /\ n - (n - y) = y
  BY <1>1
<1>3. M \in SUBSET Nat /\ M # {}
  BY <1>2
<1>4. PICK m \in M : \A k \in M : m <= k
  BY <1>3, LeastNumber
<1>5. n - m \in T
  OBVIOUS
<1>6. \A z \in T : n - m >= z
  <2> TAKE z \in T
  <2>1. n - z \in Nat /\ n - (n - z) = z
    OBVIOUS
  <2>2. n - z \in M
    BY <2>1
  <2>3. m <= n - z
    BY <1>4, <2>2
  <2>4. m \in Nat /\ z \in Nat
    OBVIOUS
  <2> HIDE DEF M
  <2> QED
    BY <2>1, <2>3, <2>4
<1>7. \E x \in T : \A z \in T : x >= z
  <2> HIDE DEF M
  <2> QED
    BY <1>5, <1>6
<1> QED
  BY <1>7 DEF Max

(* The last of the first numbers, and those before it. *)
LEMMA MaxOfInterval ==
  ASSUME NEW j \in Nat
  PROVE  Max(1 .. j + 1) = j + 1 /\ (1 .. j + 1) \ {j + 1} = 1 .. j
<1>1. j + 1 \in Nat /\ (1 .. j + 1) \in SUBSET (1 .. j + 1) /\ j + 1 \in 1 .. j + 1
  OBVIOUS
<1> DEFINE m == Max(1 .. j + 1)
<1>2. m \in 1 .. j + 1 /\ \A y \in 1 .. j + 1 : m >= y
  BY <1>1, MaxOf
<1> HIDE DEF m
<1>3. m = j + 1
  BY <1>1, <1>2
<1>4. (1 .. j + 1) \ {j + 1} = 1 .. j
  OBVIOUS
<1> QED
  BY <1>3, <1>4 DEF m

(* FoldLeft folds over the set of places: what is left after those in T. *)
BuildSetAt(s, T, g) == IF T = {} THEN <<>> ELSE Build(g[T \ {Max(T)}], s[Max(T)])

(* There is such a function of the sets of places. *)
LEMMA BuildSetExist ==
  ASSUME NEW s, NEW N \in Nat
  PROVE  \E g : g = [T \in SUBSET (1 .. N) |-> BuildSetAt(s, T, g)]
<1> DEFINE Upto(g, n) == g = [T \in SUBSET (1 .. n) |-> BuildSetAt(s, T, g)]
           S == {n \in Nat : \E g : Upto(g, n)}
<1>1. 0 \in S
  <2> DEFINE g == [T \in SUBSET (1 .. 0) |-> <<>>]
  <2>1. \A T \in SUBSET (1 .. 0) : BuildSetAt(s, T, g) = <<>>
    BY DEF BuildSetAt
  <2>2. Upto(g, 0)
    BY <2>1
  <2> QED
    BY <2>2
<1>2. ASSUME NEW n \in S PROVE n + 1 \in S
  <2>1. n \in Nat /\ n + 1 \in Nat
    OBVIOUS
  <2>2. PICK f : Upto(f, n)
    BY <2>1
  <2> DEFINE g == [T \in SUBSET (1 .. n + 1) |-> BuildSetAt(s, T, f)]
  <2>3. \A T \in SUBSET (1 .. n) : g[T] = f[T]
    <3>1. \A T \in SUBSET (1 .. n) : f[T] = BuildSetAt(s, T, f)
      BY <2>2
    <3>2. SUBSET (1 .. n) \in SUBSET (SUBSET (1 .. n + 1))
      BY <2>1
    <3>3. \A T \in SUBSET (1 .. n) : g[T] = BuildSetAt(s, T, f)
      BY <3>2
    <3> QED
      BY <3>1, <3>3
  <2>4. \A T \in SUBSET (1 .. n + 1) : BuildSetAt(s, T, f) = BuildSetAt(s, T, g)
    <3> TAKE T \in SUBSET (1 .. n + 1)
    <3>1. CASE T = {}
      BY <3>1 DEF BuildSetAt
    <3>2. CASE T # {}
      <4>1. Max(T) \in T /\ \A y \in T : Max(T) >= y
        BY <2>1, <3>2, MaxOf
      <4>2. T \ {Max(T)} \in SUBSET (1 .. n)
        <5> DEFINE m == Max(T)
        <5>1. m \in 1 .. n + 1 /\ \A y \in T : m >= y
          BY <4>1
        <5> HIDE DEF m
        <5>2. \A y \in T \ {m} : y \in 1 .. n
          BY <2>1, <5>1
        <5> QED
          BY <5>2 DEF m
      <4>3. g[T \ {Max(T)}] = f[T \ {Max(T)}]
        BY <2>3, <4>2, Zenon
      <4> QED
        BY <4>3, Zenon DEF BuildSetAt
    <3> QED
      BY <3>1, <3>2
  <2>5. Upto(g, n + 1)
    BY <2>4, Zenon
  <2> HIDE DEF g
  <2> QED
    BY <2>1, <2>5
<1>3. S \in SUBSET Nat
  OBVIOUS
<1>4. N \in S
  <2> HIDE DEF S
  <2> QED
    BY <1>1, <1>2, <1>3, Induction
<1> QED
  BY <1>4

(* The fold of Build, one event after the other. *)
LEMMA BuildFold ==
  ASSUME NEW s, NEW N \in Nat, DOMAIN s = 1 .. N
  PROVE  \E f : /\ f = [i \in 0 .. N |-> BuildAt(s, i, f[i - 1])]
                /\ FoldLeft(Build, <<>>, s) = f[N]
<1> DEFINE g == CHOOSE g : g = [T \in SUBSET (1 .. N) |-> BuildSetAt(s, T, g)]
<1>1. FoldLeft(Build, <<>>, s) = g[1 .. N]
  BY Zenon DEF FoldLeft, MapThenFoldSet, BuildSetAt
<1>2. g = [T \in SUBSET (1 .. N) |-> BuildSetAt(s, T, g)]
  BY BuildSetExist
<1> HIDE DEF g
<1>3. \A T \in SUBSET (1 .. N) : g[T] = BuildSetAt(s, T, g)
  BY <1>2, Zenon
<1> DEFINE f == [i \in 0 .. N |-> g[1 .. i]]
<1>4. ASSUME NEW i \in 0 .. N PROVE f[i] = BuildAt(s, i, f[i - 1])
  <2>1. CASE i = 0
    <3>1. f[i] = g[{}]
      BY <2>1
    <3> QED
      BY <1>3, <2>1, <3>1 DEF BuildSetAt, BuildAt
  <2>2. CASE i # 0
    <3> DEFINE j == i - 1
    <3>1. j \in Nat /\ i = j + 1 /\ j \in 0 .. N
      BY <2>2
    <3>2. 1 .. i \in SUBSET (1 .. N) /\ 1 .. i # {}
      BY <2>2
    <3>3. f[i] = g[1 .. i] /\ f[j] = g[1 .. j]
      BY <3>1
    <3> HIDE DEF f, j
    <3>4. Max(1 .. i) = i /\ (1 .. i) \ {i} = 1 .. j
      BY <3>1, MaxOfInterval
    <3>5. g[1 .. i] = Build(g[1 .. j], s[i])
      BY <1>3, <3>2, <3>4, Zenon DEF BuildSetAt
    <3>6. f[i] = BuildAt(s, i, f[j])
      BY <2>2, <3>3, <3>5, Zenon DEF BuildAt
    <3> QED
      BY <3>6 DEF j
  <2> QED
    BY <2>1, <2>2
<1>5. f = [i \in 0 .. N |-> BuildAt(s, i, f[i - 1])]
  <2>1. f = [i \in 0 .. N |-> f[i]]
    OBVIOUS
  <2> HIDE DEF f
  <2> QED
    BY <1>4, <2>1
<1>6. f[N] = g[1 .. N]
  OBVIOUS
<1> HIDE DEF f
<1> QED
  BY <1>1, <1>5, <1>6, Zenon

(* The same for Writer. *)
WriterSetAt(s, T, g) == IF T = {} THEN NoOutput ELSE Writer(g[T \ {Max(T)}], s[Max(T)])

(* There is such a function of the sets of places. *)
LEMMA WriterSetExist ==
  ASSUME NEW s, NEW N \in Nat
  PROVE  \E g : g = [T \in SUBSET (1 .. N) |-> WriterSetAt(s, T, g)]
<1> DEFINE Upto(g, n) == g = [T \in SUBSET (1 .. n) |-> WriterSetAt(s, T, g)]
           S == {n \in Nat : \E g : Upto(g, n)}
<1>1. 0 \in S
  <2> DEFINE g == [T \in SUBSET (1 .. 0) |-> NoOutput]
  <2>1. \A T \in SUBSET (1 .. 0) : WriterSetAt(s, T, g) = NoOutput
    BY DEF WriterSetAt
  <2>2. Upto(g, 0)
    BY <2>1
  <2> QED
    BY <2>2
<1>2. ASSUME NEW n \in S PROVE n + 1 \in S
  <2>1. n \in Nat /\ n + 1 \in Nat
    OBVIOUS
  <2>2. PICK f : Upto(f, n)
    BY <2>1
  <2> DEFINE g == [T \in SUBSET (1 .. n + 1) |-> WriterSetAt(s, T, f)]
  <2>3. \A T \in SUBSET (1 .. n) : g[T] = f[T]
    <3>1. \A T \in SUBSET (1 .. n) : f[T] = WriterSetAt(s, T, f)
      BY <2>2
    <3>2. SUBSET (1 .. n) \in SUBSET (SUBSET (1 .. n + 1))
      BY <2>1
    <3>3. \A T \in SUBSET (1 .. n) : g[T] = WriterSetAt(s, T, f)
      BY <3>2
    <3> QED
      BY <3>1, <3>3
  <2>4. \A T \in SUBSET (1 .. n + 1) : WriterSetAt(s, T, f) = WriterSetAt(s, T, g)
    <3> TAKE T \in SUBSET (1 .. n + 1)
    <3>1. CASE T = {}
      BY <3>1 DEF WriterSetAt
    <3>2. CASE T # {}
      <4>1. Max(T) \in T /\ \A y \in T : Max(T) >= y
        BY <2>1, <3>2, MaxOf
      <4>2. T \ {Max(T)} \in SUBSET (1 .. n)
        <5> DEFINE m == Max(T)
        <5>1. m \in 1 .. n + 1 /\ \A y \in T : m >= y
          BY <4>1
        <5> HIDE DEF m
        <5>2. \A y \in T \ {m} : y \in 1 .. n
          BY <2>1, <5>1
        <5> QED
          BY <5>2 DEF m
      <4>3. g[T \ {Max(T)}] = f[T \ {Max(T)}]
        BY <2>3, <4>2, Zenon
      <4> QED
        BY <4>3, Zenon DEF WriterSetAt
    <3> QED
      BY <3>1, <3>2
  <2>5. Upto(g, n + 1)
    BY <2>4, Zenon
  <2> HIDE DEF g
  <2> QED
    BY <2>1, <2>5
<1>3. S \in SUBSET Nat
  OBVIOUS
<1>4. N \in S
  <2> HIDE DEF S
  <2> QED
    BY <1>1, <1>2, <1>3, Induction
<1> QED
  BY <1>4

(* The fold of Writer, one event after the other. *)
LEMMA WriterFold ==
  ASSUME NEW s, NEW N \in Nat, DOMAIN s = 1 .. N
  PROVE  \E f : /\ f = [i \in 0 .. N |-> WriterAt(s, i, f[i - 1])]
                /\ FoldLeft(Writer, NoOutput, s) = f[N]
<1> DEFINE g == CHOOSE g : g = [T \in SUBSET (1 .. N) |-> WriterSetAt(s, T, g)]
<1>1. FoldLeft(Writer, NoOutput, s) = g[1 .. N]
  BY Zenon DEF FoldLeft, MapThenFoldSet, WriterSetAt
<1>2. g = [T \in SUBSET (1 .. N) |-> WriterSetAt(s, T, g)]
  BY WriterSetExist
<1> HIDE DEF g
<1>3. \A T \in SUBSET (1 .. N) : g[T] = WriterSetAt(s, T, g)
  BY <1>2, Zenon
<1> DEFINE f == [i \in 0 .. N |-> g[1 .. i]]
<1>4. ASSUME NEW i \in 0 .. N PROVE f[i] = WriterAt(s, i, f[i - 1])
  <2>1. CASE i = 0
    <3>1. f[i] = g[{}]
      BY <2>1
    <3> QED
      BY <1>3, <2>1, <3>1 DEF WriterSetAt, WriterAt
  <2>2. CASE i # 0
    <3> DEFINE j == i - 1
    <3>1. j \in Nat /\ i = j + 1 /\ j \in 0 .. N
      BY <2>2
    <3>2. 1 .. i \in SUBSET (1 .. N) /\ 1 .. i # {}
      BY <2>2
    <3>3. f[i] = g[1 .. i] /\ f[j] = g[1 .. j]
      BY <3>1
    <3> HIDE DEF f, j
    <3>4. Max(1 .. i) = i /\ (1 .. i) \ {i} = 1 .. j
      BY <3>1, MaxOfInterval
    <3>5. g[1 .. i] = Writer(g[1 .. j], s[i])
      BY <1>3, <3>2, <3>4, Zenon DEF WriterSetAt
    <3>6. f[i] = WriterAt(s, i, f[j])
      BY <2>2, <3>3, <3>5, Zenon DEF WriterAt
    <3> QED
      BY <3>6 DEF j
  <2> QED
    BY <2>1, <2>2
<1>5. f = [i \in 0 .. N |-> WriterAt(s, i, f[i - 1])]
  <2>1. f = [i \in 0 .. N |-> f[i]]
    OBVIOUS
  <2> HIDE DEF f
  <2> QED
    BY <1>4, <2>1
<1>6. f[N] = g[1 .. N]
  OBVIOUS
<1> HIDE DEF f
<1> QED
  BY <1>1, <1>5, <1>6, Zenon

(* The same for Squeeze. *)
SqueezeSetAt(s, T, g) == IF T = {} THEN <<>> ELSE Squeeze(g[T \ {Max(T)}], s[Max(T)])

(* There is such a function of the sets of places. *)
LEMMA SqueezeSetExist ==
  ASSUME NEW s, NEW N \in Nat
  PROVE  \E g : g = [T \in SUBSET (1 .. N) |-> SqueezeSetAt(s, T, g)]
<1> DEFINE Upto(g, n) == g = [T \in SUBSET (1 .. n) |-> SqueezeSetAt(s, T, g)]
           S == {n \in Nat : \E g : Upto(g, n)}
<1>1. 0 \in S
  <2> DEFINE g == [T \in SUBSET (1 .. 0) |-> <<>>]
  <2>1. \A T \in SUBSET (1 .. 0) : SqueezeSetAt(s, T, g) = <<>>
    BY DEF SqueezeSetAt
  <2>2. Upto(g, 0)
    BY <2>1
  <2> QED
    BY <2>2
<1>2. ASSUME NEW n \in S PROVE n + 1 \in S
  <2>1. n \in Nat /\ n + 1 \in Nat
    OBVIOUS
  <2>2. PICK f : Upto(f, n)
    BY <2>1
  <2> DEFINE g == [T \in SUBSET (1 .. n + 1) |-> SqueezeSetAt(s, T, f)]
  <2>3. \A T \in SUBSET (1 .. n) : g[T] = f[T]
    <3>1. \A T \in SUBSET (1 .. n) : f[T] = SqueezeSetAt(s, T, f)
      BY <2>2
    <3>2. SUBSET (1 .. n) \in SUBSET (SUBSET (1 .. n + 1))
      BY <2>1
    <3>3. \A T \in SUBSET (1 .. n) : g[T] = SqueezeSetAt(s, T, f)
      BY <3>2
    <3> QED
      BY <3>1, <3>3
  <2>4. \A T \in SUBSET (1 .. n + 1) : SqueezeSetAt(s, T, f) = SqueezeSetAt(s, T, g)
    <3> TAKE T \in SUBSET (1 .. n + 1)
    <3>1. CASE T = {}
      BY <3>1 DEF SqueezeSetAt
    <3>2. CASE T # {}
      <4>1. Max(T) \in T /\ \A y \in T : Max(T) >= y
        BY <2>1, <3>2, MaxOf
      <4>2. T \ {Max(T)} \in SUBSET (1 .. n)
        <5> DEFINE m == Max(T)
        <5>1. m \in 1 .. n + 1 /\ \A y \in T : m >= y
          BY <4>1
        <5> HIDE DEF m
        <5>2. \A y \in T \ {m} : y \in 1 .. n
          BY <2>1, <5>1
        <5> QED
          BY <5>2 DEF m
      <4>3. g[T \ {Max(T)}] = f[T \ {Max(T)}]
        BY <2>3, <4>2, Zenon
      <4> QED
        BY <4>3, Zenon DEF SqueezeSetAt
    <3> QED
      BY <3>1, <3>2
  <2>5. Upto(g, n + 1)
    BY <2>4, Zenon
  <2> HIDE DEF g
  <2> QED
    BY <2>1, <2>5
<1>3. S \in SUBSET Nat
  OBVIOUS
<1>4. N \in S
  <2> HIDE DEF S
  <2> QED
    BY <1>1, <1>2, <1>3, Induction
<1> QED
  BY <1>4

(* The fold of Squeeze, one token after the other. *)
LEMMA SqueezeFold ==
  ASSUME NEW s, NEW N \in Nat, DOMAIN s = 1 .. N
  PROVE  \E f : /\ f = [i \in 0 .. N |-> SqueezeAt(s, i, f[i - 1])]
                /\ FoldLeft(Squeeze, <<>>, s) = f[N]
<1> DEFINE g == CHOOSE g : g = [T \in SUBSET (1 .. N) |-> SqueezeSetAt(s, T, g)]
<1>1. FoldLeft(Squeeze, <<>>, s) = g[1 .. N]
  BY Zenon DEF FoldLeft, MapThenFoldSet, SqueezeSetAt
<1>2. g = [T \in SUBSET (1 .. N) |-> SqueezeSetAt(s, T, g)]
  BY SqueezeSetExist
<1> HIDE DEF g
<1>3. \A T \in SUBSET (1 .. N) : g[T] = SqueezeSetAt(s, T, g)
  BY <1>2, Zenon
<1> DEFINE f == [i \in 0 .. N |-> g[1 .. i]]
<1>4. ASSUME NEW i \in 0 .. N PROVE f[i] = SqueezeAt(s, i, f[i - 1])
  <2>1. CASE i = 0
    <3>1. f[i] = g[{}]
      BY <2>1
    <3> QED
      BY <1>3, <2>1, <3>1 DEF SqueezeSetAt, SqueezeAt
  <2>2. CASE i # 0
    <3> DEFINE j == i - 1
    <3>1. j \in Nat /\ i = j + 1 /\ j \in 0 .. N
      BY <2>2
    <3>2. 1 .. i \in SUBSET (1 .. N) /\ 1 .. i # {}
      BY <2>2
    <3>3. f[i] = g[1 .. i] /\ f[j] = g[1 .. j]
      BY <3>1
    <3> HIDE DEF f, j
    <3>4. Max(1 .. i) = i /\ (1 .. i) \ {i} = 1 .. j
      BY <3>1, MaxOfInterval
    <3>5. g[1 .. i] = Squeeze(g[1 .. j], s[i])
      BY <1>3, <3>2, <3>4, Zenon DEF SqueezeSetAt
    <3>6. f[i] = SqueezeAt(s, i, f[j])
      BY <2>2, <3>3, <3>5, Zenon DEF SqueezeAt
    <3> QED
      BY <3>6 DEF j
  <2> QED
    BY <2>1, <2>2
<1>5. f = [i \in 0 .. N |-> SqueezeAt(s, i, f[i - 1])]
  <2>1. f = [i \in 0 .. N |-> f[i]]
    OBVIOUS
  <2> HIDE DEF f
  <2> QED
    BY <1>4, <2>1
<1>6. f[N] = g[1 .. N]
  OBVIOUS
<1> HIDE DEF f
<1> QED
  BY <1>1, <1>5, <1>6, Zenon

(* FlattenSeq appends one sequence after the other. *)
LEMMA FlattenParts ==
  ASSUME NEW s, NEW N \in Nat, N # 0, Len(s) = N
  PROVE  \E f : /\ f[1] = s[1]
                /\ \A i \in 1 .. N : i # 1 => f[i] = f[i - 1] \o s[i]
                /\ FlattenSeq(s) = f[N]
<1> DEFINE F == CHOOSE f : f = [i \in 1 .. N |-> IF i = 1 THEN s[i] ELSE f[i - 1] \o s[i]]
<1>1. PICK h : h = [i \in 0 .. N |-> FlatAt(s, i, h[i - 1])]
  BY FlatExist
<1> DEFINE f == [i \in 1 .. N |-> h[i]]
<1>2. \A i \in 1 .. N : f[i] = FlatAt(s, i, h[i - 1])
  BY <1>1
<1>3. \A i \in 1 .. N : f[i] = IF i = 1 THEN s[i] ELSE f[i - 1] \o s[i]
  <2> TAKE i \in 1 .. N
  <2>1. CASE i = 1
    BY <1>2, <2>1 DEF FlatAt
  <2>2. CASE i # 1
    <3>1. i - 1 \in 1 .. N /\ ~(i <= 1)
      BY <2>2
    <3>2. f[i - 1] = h[i - 1]
      BY <3>1
    <3>3. f[i] = FlatAt(s, i, f[i - 1])
      BY <1>2, <3>2, Zenon
    <3> HIDE DEF f
    <3> QED
      BY <2>2, <3>1, <3>3 DEF FlatAt
  <2> QED
    BY <2>1, <2>2
<1>4. f = [i \in 1 .. N |-> IF i = 1 THEN s[i] ELSE f[i - 1] \o s[i]]
  <2>1. f = [i \in 1 .. N |-> f[i]]
    OBVIOUS
  <2> HIDE DEF f
  <2> QED
    BY <1>3, <2>1
<1> HIDE DEF f
<1>5. F = [i \in 1 .. N |-> IF i = 1 THEN s[i] ELSE F[i - 1] \o s[i]]
  BY <1>4, Zenon
<1>6. FlattenSeq(s) = F[N]
  BY Zenon DEF FlattenSeq
<1> HIDE DEF F
<1>7. F[1] = s[1] /\ \A i \in 1 .. N : i # 1 => F[i] = F[i - 1] \o s[i]
  <2>1. \A i \in 1 .. N : F[i] = IF i = 1 THEN s[i] ELSE F[i - 1] \o s[i]
    BY <1>5, Zenon
  <2>2. 1 \in 1 .. N
    OBVIOUS
  <2> QED
    BY <2>1, <2>2, Zenon
<1> QED
  BY <1>6, <1>7, Zenon

(* FlattenSeq of a sequence with one more sequence. *)
LEMMA FlattenAppend ==
  ASSUME NEW E, NEW s \in Seq(Seq(E)), NEW x \in Seq(E)
  PROVE  /\ FlattenSeq(<<>>) = <<>>
         /\ FlattenSeq(s) \in Seq(E)
         /\ FlattenSeq(Append(s, x)) = FlattenSeq(s) \o x
<1>1. FlattenSeq(<<>>) = <<>>
  BY DEF FlattenSeq
<1> DEFINE N == Len(s)
           u == Append(s, x)
<1>2. N \in Nat /\ Len(u) = N + 1 /\ N + 1 \in Nat /\ N + 1 # 0
  BY LenProperties, AppendProperties
<1>3. u[N + 1] = x /\ \A i \in 1 .. N : u[i] = s[i] /\ s[i] \in Seq(E)
  BY AppendProperties, ElementOfSeq
<1> HIDE DEF u
<1>4. PICK g : /\ g[1] = u[1]
               /\ \A i \in 1 .. N + 1 : i # 1 => g[i] = g[i - 1] \o u[i]
               /\ FlattenSeq(u) = g[N + 1]
  BY <1>2, FlattenParts, Zenon
<1>5. CASE N = 0
  <2>1. s = <<>>
    BY <1>5, EmptySeq
  <2>2. FlattenSeq(u) = x
    BY <1>3, <1>4, <1>5
  <2> QED
    <3>1. <<>> \o x = x /\ <<>> \in Seq(E)
      BY EmptySeq, ConcatEmptySeq
    <3> QED
      BY <1>1, <2>1, <2>2, <3>1, Zenon DEF u
<1>6. CASE N # 0
  <2>1. PICK f : /\ f[1] = s[1]
                 /\ \A i \in 1 .. N : i # 1 => f[i] = f[i - 1] \o s[i]
                 /\ FlattenSeq(s) = f[N]
    BY <1>2, <1>6, FlattenParts, Zenon
  <2> DEFINE S == {j \in Nat : j + 1 <= N => f[j + 1] = g[j + 1] /\ f[j + 1] \in Seq(E)}
  <2>2. 0 \in S
    <3>1. 1 \in 1 .. N
      BY <1>2, <1>6
    <3> QED
      BY <1>3, <1>4, <2>1, <3>1
  <2>3. ASSUME NEW j \in S PROVE j + 1 \in S
    <3> DEFINE m == j + 1
    <3>1. j \in Nat /\ m \in Nat
      OBVIOUS
    <3> SUFFICES ASSUME m + 1 <= N PROVE f[m + 1] = g[m + 1] /\ f[m + 1] \in Seq(E)
      BY <3>1
    <3>2. m <= N /\ m + 1 \in 1 .. N /\ m + 1 \in 1 .. N + 1 /\ m + 1 # 1 /\ (m + 1) - 1 = m
      BY <1>2, <3>1
    <3>3. f[m] = g[m] /\ f[m] \in Seq(E)
      BY <3>1, <3>2
    <3> HIDE DEF m
    <3>4. f[m + 1] = f[m] \o s[m + 1] /\ g[m + 1] = g[m] \o u[m + 1]
      BY <1>4, <2>1, <3>2
    <3>5. u[m + 1] = s[m + 1] /\ s[m + 1] \in Seq(E)
      BY <1>3, <3>2, Zenon
    <3>6. f[m] \o s[m + 1] \in Seq(E)
      BY <3>3, <3>5, ConcatProperties
    <3> QED
      BY <3>3, <3>4, <3>5, <3>6, Zenon
  <2>4. S \in SUBSET Nat
    OBVIOUS
  <2>5. N - 1 \in Nat /\ (N - 1) + 1 = N
    BY <1>2, <1>6
  <2>6. N - 1 \in S
    <3> HIDE DEF S
    <3> QED
      BY <2>2, <2>3, <2>4, <2>5, Induction
  <2>7. f[N] = g[N] /\ f[N] \in Seq(E)
    BY <1>2, <2>5, <2>6
  <2>8. g[N + 1] = g[N] \o x
    <3>1. N + 1 \in 1 .. N + 1 /\ N + 1 # 1 /\ (N + 1) - 1 = N
      BY <1>2, <1>6
    <3> QED
      BY <1>3, <1>4, <3>1, Zenon
  <2> QED
    BY <1>1, <1>4, <2>1, <2>7, <2>8, Zenon DEF u
<1> QED
  BY <1>5, <1>6

-------------------------------------------------------------------------------
(* Readings of the recursive parser                                           *)

(* The steps of a round of the loop of ParseObject: the name has been read,   *)
(* the value is about to be read, it has been read.                           *)
Named(t, r) == Skip(t, Emit(Take(r), "Key", 0))

(* What stands before the value of a member, and behind it. *)
Colon(t, r) == Skip(t, Take(Named(t, r)))

(* The white space behind the value is skipped. *)
Valued(t, r, p) == Skip(t, ParseValue(t, Colon(t, r), p))

(* Elements, case by case. *)
LEMMA ElementsCases ==
  ASSUME NEW t, NEW r, NEW n, NEW p
  PROVE
    LET value == ParseValue(t, r, p)
        after == Skip(t, value)
    IN  /\ value.error # None => Elements(t, r, n, p) = value
        /\ value.error = None =>
             /\ Peek(t, after) = "Comma" =>
                  Elements(t, r, n, p) = p.elements[n + 1][Skip(t, Take(after))]
             /\ Peek(t, after) = "RightBracket" =>
                  Elements(t, r, n, p) = Emit(Take(after), "EndArray", n + 1)
             /\ Peek(t, after) \notin {"Comma", "RightBracket"} =>
                  Elements(t, r, n, p) = Fail(after, "MissCommaOrSquareBracket")
BY DEF Elements

(* A reading has read something more of t. *)
ReadingsOf(t) == {r \in Readings : r.at \in 1 .. Len(t) + 1}

(* The calls u are the first of w. *)
Begins(u, w) == Len(u) <= Len(w) /\ \A i \in 1 .. Len(u) : w[i] = u[i]

(* v has read what r has read, and perhaps more. *)
Further(t, r, v) == v \in ReadingsOf(t) /\ r.at <= v.at /\ Begins(r.events, v.events)

(* What is called. *)
Evs == [call : Calls, n : Nat]

(* A reading is its three fields. *)
LEMMA ReadingFields ==
  ASSUME NEW r \in Readings
  PROVE  /\ r = [at |-> r.at, error |-> r.error, events |-> r.events]
         /\ r.at \in Nat /\ r.error \in Errors /\ r.events \in Seq(Evs) /\ Len(r.events) \in Nat
BY DEF Readings, Evs

(* Three fields make a reading. *)
LEMMA ReadingMade ==
  ASSUME NEW a \in Nat, NEW e \in Errors, NEW w \in Seq(Evs)
  PROVE  [at |-> a, error |-> e, events |-> w] \in Readings
BY DEF Readings, Evs

(* Take moves one token on. *)
LEMMA TakeMade ==
  ASSUME NEW r \in Readings
  PROVE  /\ Take(r) \in Readings
         /\ Take(r).at = r.at + 1 /\ Take(r).error = r.error /\ Take(r).events = r.events
BY DEF Readings, Take

(* Fail changes the error only. *)
LEMMA FailMade ==
  ASSUME NEW r \in Readings, NEW code \in Errors
  PROVE  /\ Fail(r, code) \in Readings
         /\ Fail(r, code).at = r.at /\ Fail(r, code).error = code
         /\ Fail(r, code).events = r.events
BY DEF Readings, Fail

(* The calls w and another call. *)
Noted(w, call, n) == Append(w, Event(call, n))

(* Emit adds one call. *)
LEMMA EmitMade ==
  ASSUME NEW r \in Readings, NEW call \in Calls, NEW n \in Nat
  PROVE  /\ Emit(r, call, n) \in Readings
         /\ Emit(r, call, n).at = r.at /\ Emit(r, call, n).error = r.error
         /\ Emit(r, call, n).events = Noted(r.events, call, n)
<1>1. Event(call, n) \in Evs
  BY DEF Evs, Event
<1>2. Append(r.events, Event(call, n)) \in Seq(Evs)
  BY <1>1, ReadingFields, AppendProperties
<1> DEFINE w == Append(r.events, Event(call, n))
<1>3. Emit(r, call, n) = [at |-> r.at, error |-> r.error, events |-> w]
  BY DEF Emit, Readings
<1>4. w \in Seq(Evs) /\ Noted(r.events, call, n) = w
  BY <1>2 DEF Noted
<1> HIDE DEF w
<1>5. [at |-> r.at, error |-> r.error, events |-> w] \in Readings
  BY <1>4, ReadingFields, ReadingMade
<1> QED
  BY <1>3, <1>4, <1>5

(* Skip moves to the next token that is not white space, or to the end. *)
LEMMA SkipMade ==
  ASSUME NEW t, Len(t) \in Nat, NEW r \in ReadingsOf(t)
  PROVE  /\ Skip(t, r) \in ReadingsOf(t)
         /\ Skip(t, r).error = r.error /\ Skip(t, r).events = r.events
         /\ r.at <= Skip(t, r).at
         /\ \A j \in r.at .. Skip(t, r).at - 1 : t[j] = "space"
         /\ Skip(t, r).at = Len(t) + 1 \/ t[Skip(t, r).at] # "space"
<1> DEFINE N == Len(t)
           a == r.at
           Stops(i) == i = N + 1 \/ t[i] # "space"
           S == {i \in a .. N + 1 : Stops(i)}
           Right(i) == i \in a .. N + 1 /\ (\A j \in a .. i - 1 : t[j] = "space") /\ Stops(i)
           k == CHOOSE i \in a .. N + 1 : (\A j \in a .. i - 1 : t[j] = "space") /\ Stops(i)
<1>1. a \in Nat /\ a >= 1 /\ a <= N + 1 /\ N \in Nat /\ r \in Readings
  BY DEF ReadingsOf
<1>2. PICK m \in S : \A i \in S : m <= i
  <2>1. N + 1 \in S /\ S \in SUBSET Nat
    BY <1>1
  <2> HIDE DEF S
  <2> QED
    BY <2>1, LeastNumber
<1>3. Right(m)
  <2>1. m \in a .. N + 1 /\ Stops(m)
    OBVIOUS
  <2>2. ASSUME NEW j \in a .. m - 1 PROVE t[j] = "space"
    <3>1. j \in a .. N + 1 /\ ~(m <= j)
      BY <1>1, <2>1
    <3>2. j \notin S
      BY <1>2, <3>1
    <3> QED
      BY <3>1, <3>2
  <2> QED
    BY <2>1, <2>2
<1>4. Right(k)
  <2> HIDE DEF Stops
  <2> QED
    BY <1>3
<1>5. Skip(t, r) = [r EXCEPT !.at = k]
  BY DEF Skip
<1> HIDE DEF k
<1>6. Skip(t, r) = [at |-> k, error |-> r.error, events |-> r.events]
  BY <1>1, <1>5 DEF Readings
<1>7. k \in Nat
  BY <1>1, <1>4
<1>8. Skip(t, r) \in Readings
  BY <1>1, <1>6, <1>7, ReadingMade, ReadingFields
<1> QED
  BY <1>4, <1>6, <1>8 DEF ReadingsOf

(* What a sequence begins with it begins with when it is longer. *)
LEMMA BeginsAppend ==
  ASSUME NEW E, NEW u \in Seq(E), NEW x \in E
  PROVE  Begins(u, u) /\ Begins(u, Append(u, x))
BY AppendProperties, LenProperties DEF Begins

(* Further and further is further. *)
LEMMA FurtherTransitive ==
  ASSUME NEW t, Len(t) \in Nat, NEW q \in ReadingsOf(t), NEW r \in ReadingsOf(t), NEW v,
         Further(t, q, r), Further(t, r, v)
  PROVE  Further(t, q, v)
<1>1. q.at \in Nat /\ r.at \in Nat /\ v.at \in Nat /\ Len(q.events) \in Nat
      /\ Len(r.events) \in Nat /\ Len(v.events) \in Nat
  BY ReadingFields DEF Further, ReadingsOf
<1>2. q.at <= v.at
  BY <1>1 DEF Further
<1>3. Begins(q.events, v.events)
  <2>1. Begins(q.events, r.events) /\ Begins(r.events, v.events)
    BY DEF Further
  <2> QED
    BY <1>1, <2>1 DEF Begins
<1> QED
  BY <1>2, <1>3 DEF Further

(* Where there is a token it can be taken. *)
LEMMA PeekHere ==
  ASSUME NEW t, Len(t) \in Nat, NEW r \in ReadingsOf(t), Peek(t, r) # "end"
  PROVE  /\ r.at \in 1 .. Len(t) /\ Peek(t, r) = t[r.at]
         /\ Take(r) \in ReadingsOf(t) /\ Further(t, r, Take(r)) /\ Take(r).at = r.at + 1
         /\ Take(r).error = r.error /\ Take(r).events = r.events
<1>1. r \in Readings /\ r.at \in 1 .. Len(t) + 1
  BY DEF ReadingsOf
<1>2. r.at <= Len(t) /\ Peek(t, r) = t[r.at]
  BY <1>1 DEF Peek
<1>3. Take(r) \in Readings /\ Take(r).at = r.at + 1 /\ Take(r).error = r.error
      /\ Take(r).events = r.events
  BY <1>1, TakeMade
<1>4. Take(r) \in ReadingsOf(t)
  BY <1>1, <1>2, <1>3 DEF ReadingsOf
<1>5. Begins(r.events, Take(r).events)
  BY <1>1, <1>3, ReadingFields DEF Begins
<1> QED
  BY <1>1, <1>2, <1>3, <1>4, <1>5 DEF Further

(* Skip reads on. *)
LEMMA SkipFurther ==
  ASSUME NEW t, Len(t) \in Nat, NEW r \in ReadingsOf(t)
  PROVE  Further(t, r, r) /\ Further(t, r, Skip(t, r))
<1>1. r \in Readings /\ r.at \in Nat /\ r.at <= r.at
  BY ReadingFields DEF ReadingsOf
<1>2. Begins(r.events, r.events)
  BY <1>1, ReadingFields DEF Begins
<1> QED
  BY <1>1, <1>2, SkipMade DEF Further

(* Emit reads on. *)
LEMMA EmitFurther ==
  ASSUME NEW t, NEW r \in ReadingsOf(t), NEW call \in Calls, NEW n \in Nat
  PROVE  Emit(r, call, n) \in ReadingsOf(t) /\ Further(t, r, Emit(r, call, n))
<1>1. r \in Readings
  BY DEF ReadingsOf
<1>2. Begins(r.events, Append(r.events, Event(call, n)))
  <2>1. Event(call, n) \in Evs
    BY DEF Evs, Event
  <2> QED
    BY <1>1, <2>1, ReadingFields, BeginsAppend
<1>3. r.at <= r.at
  BY <1>1, ReadingFields
<1> QED
  BY <1>1, <1>2, <1>3, EmitMade DEF Further, ReadingsOf, Noted

(* Fail reads on. *)
LEMMA FailFurther ==
  ASSUME NEW t, NEW r \in ReadingsOf(t), NEW code \in Errors
  PROVE  Fail(r, code) \in ReadingsOf(t) /\ Further(t, r, Fail(r, code))
<1>1. r \in Readings
  BY DEF ReadingsOf
<1>2. Begins(r.events, r.events) /\ r.at <= r.at
  BY <1>1, ReadingFields DEF Begins
<1> QED
  BY <1>1, <1>2, FailMade DEF Further, ReadingsOf

-------------------------------------------------------------------------------
(* The recursive parser reads on                                              *)

(* Taking a token and skipping the white space behind it, with a call between *)
(* the two.                                                                   *)
LEMMA Taken ==
  ASSUME NEW t, Len(t) \in Nat, NEW r \in ReadingsOf(t), Peek(t, r) # "end"
  PROVE  LET u == Skip(t, Take(r))
         IN  /\ u \in ReadingsOf(t) /\ Further(t, r, u) /\ r.at + 1 <= u.at
             /\ u.error = r.error /\ u.events = r.events
<1> DEFINE q == Take(r)
           u == Skip(t, q)
<1>1. q \in ReadingsOf(t) /\ Further(t, r, q) /\ q.at = r.at + 1 /\ q.error = r.error
      /\ q.events = r.events
  BY PeekHere
<1> HIDE DEF q
<1>2. u \in ReadingsOf(t) /\ Further(t, q, u) /\ u.error = q.error /\ u.events = q.events
      /\ q.at <= u.at
  BY <1>1, SkipMade, SkipFurther
<1> HIDE DEF u
<1>3. Further(t, r, u)
  BY <1>1, <1>2, FurtherTransitive
<1> QED
  BY <1>1, <1>2, <1>3, Zenon DEF q, u

(* A token is taken and a call is made for it. *)
LEMMA Called ==
  ASSUME NEW t, Len(t) \in Nat, NEW r \in ReadingsOf(t), Peek(t, r) # "end",
         NEW call \in Calls, NEW n \in Nat
  PROVE  LET u == Emit(Take(r), call, n)
         IN  /\ u \in ReadingsOf(t) /\ Further(t, r, u) /\ u.at = r.at + 1
             /\ u.error = r.error /\ u.events = Noted(r.events, call, n)
<1> DEFINE q == Take(r)
           u == Emit(q, call, n)
<1>1. q \in ReadingsOf(t) /\ Further(t, r, q) /\ q.at = r.at + 1 /\ q.error = r.error
      /\ q.events = r.events
  BY PeekHere
<1> HIDE DEF q
<1>2. q \in Readings
  BY <1>1 DEF ReadingsOf
<1>3. u \in ReadingsOf(t) /\ Further(t, q, u) /\ u.error = q.error /\ u.at = q.at
      /\ u.events = Noted(q.events, call, n)
  BY <1>1, <1>2, EmitMade, EmitFurther
<1> HIDE DEF u
<1>4. Further(t, r, u)
  BY <1>1, <1>3, FurtherTransitive
<1> QED
  BY <1>1, <1>3, <1>4, Zenon DEF q, u

(* A token is taken, a call is made for it and white space is skipped. *)
LEMMA CalledAndSkipped ==
  ASSUME NEW t, Len(t) \in Nat, NEW r \in ReadingsOf(t), Peek(t, r) # "end",
         NEW call \in Calls, NEW n \in Nat
  PROVE  LET u == Skip(t, Emit(Take(r), call, n))
         IN  /\ u \in ReadingsOf(t) /\ Further(t, r, u) /\ r.at + 1 <= u.at
             /\ u.error = r.error /\ u.events = Noted(r.events, call, n)
<1> DEFINE q == Emit(Take(r), call, n)
           u == Skip(t, q)
<1>1. q \in ReadingsOf(t) /\ Further(t, r, q) /\ q.at = r.at + 1 /\ q.error = r.error
      /\ q.events = Noted(r.events, call, n)
  BY Called
<1> HIDE DEF q
<1>2. u \in ReadingsOf(t) /\ Further(t, q, u) /\ u.error = q.error /\ u.events = q.events
      /\ q.at <= u.at
  BY <1>1, SkipMade, SkipFurther
<1> HIDE DEF u
<1>3. Further(t, r, u)
  BY <1>1, <1>2, FurtherTransitive
<1> QED
  BY <1>1, <1>2, <1>3, Zenon DEF q, u

(* Every loop reads on. *)
LoopsFurther(t, p) ==
  \A r \in ReadingsOf(t), n \in Nat :
    Further(t, r, p.members[n][r]) /\ Further(t, r, p.elements[n][r])

(* ParseValue reads on if the loops do. *)
LEMMA ValueFurther ==
  ASSUME NEW t, Len(t) \in Nat, NEW p, LoopsFurther(t, p), NEW r \in ReadingsOf(t)
  PROVE  Further(t, r, ParseValue(t, r, p))
<1>0. 0 \in Nat /\ "StartObject" \in Calls /\ "EndObject" \in Calls /\ "StartArray" \in Calls
      /\ "EndArray" \in Calls /\ \A s \in Scalars : s \in Calls
  BY DEF Calls
<1>1. CASE Peek(t, r) = "LeftCurlyBracket"
  <2> DEFINE u == Skip(t, Emit(Take(r), "StartObject", 0))
  <2>1. u \in ReadingsOf(t) /\ Further(t, r, u)
    BY <1>0, <1>1, CalledAndSkipped
  <2> HIDE DEF u
  <2>2. ParseValue(t, r, p) = IF Peek(t, u) = "RightCurlyBracket" THEN Emit(Take(u), "EndObject", 0)
                              ELSE p.members[0][u]
    BY <1>1 DEF ParseValue, ParseObject, Scalars, u
  <2>3. CASE Peek(t, u) = "RightCurlyBracket"
    <3>1. Further(t, u, Emit(Take(u), "EndObject", 0))
      BY <1>0, <2>1, <2>3, Called
    <3> QED
      BY <2>1, <2>2, <2>3, <3>1, FurtherTransitive
  <2>4. CASE Peek(t, u) # "RightCurlyBracket"
    <3>1. Further(t, u, p.members[0][u])
      BY <1>0, <2>1 DEF LoopsFurther
    <3> QED
      BY <2>1, <2>2, <2>4, <3>1, FurtherTransitive
  <2> QED
    BY <2>3, <2>4
<1>2. CASE Peek(t, r) = "LeftBracket"
  <2> DEFINE u == Skip(t, Emit(Take(r), "StartArray", 0))
  <2>1. u \in ReadingsOf(t) /\ Further(t, r, u)
    BY <1>0, <1>2, CalledAndSkipped
  <2> HIDE DEF u
  <2>2. ParseValue(t, r, p) = IF Peek(t, u) = "RightBracket" THEN Emit(Take(u), "EndArray", 0)
                              ELSE p.elements[0][u]
    BY <1>2 DEF ParseValue, ParseArray, Scalars, u
  <2>3. CASE Peek(t, u) = "RightBracket"
    <3>1. Further(t, u, Emit(Take(u), "EndArray", 0))
      BY <1>0, <2>1, <2>3, Called
    <3> QED
      BY <2>1, <2>2, <2>3, <3>1, FurtherTransitive
  <2>4. CASE Peek(t, u) # "RightBracket"
    <3>1. Further(t, u, p.elements[0][u])
      BY <1>0, <2>1 DEF LoopsFurther
    <3> QED
      BY <2>1, <2>2, <2>4, <3>1, FurtherTransitive
  <2> QED
    BY <2>3, <2>4
<1>3. CASE Peek(t, r) \in Scalars
  <2>1. ParseValue(t, r, p) = Emit(Take(r), Peek(t, r), 0) /\ Peek(t, r) # "end"
    BY <1>3 DEF ParseValue, Scalars
  <2> QED
    BY <1>0, <1>3, <2>1, Called
<1>4. CASE Peek(t, r) \notin {"LeftCurlyBracket", "LeftBracket"} \cup Scalars
  <2>1. ParseValue(t, r, p) = Fail(r, "ValueInvalid") /\ "ValueInvalid" \in Errors
    BY <1>4 DEF ParseValue, Errors
  <2> QED
    BY <2>1, FailFurther
<1> QED
  BY <1>1, <1>2, <1>3, <1>4

(* A round of the loop of ParseObject reads on if the loops do. *)
LEMMA MembersFurther ==
  ASSUME NEW t, Len(t) \in Nat, NEW p, LoopsFurther(t, p), NEW r \in ReadingsOf(t), NEW n \in Nat
  PROVE  Further(t, r, Members(t, r, n, p))
<1> DEFINE name == Named(t, r)
           colon == Colon(t, r)
           value == ParseValue(t, colon, p)
           after == Valued(t, r, p)
           result == Members(t, r, n, p)
<1>0. 0 \in Nat /\ n + 1 \in Nat /\ "Key" \in Calls /\ "EndObject" \in Calls
      /\ {"MissName", "MissColon", "MissCommaOrCurlyBracket"} \subseteq Errors
  BY DEF Calls, Errors
<1>3. /\ Peek(t, r) # "string" => result = Fail(r, "MissName")
      /\ Peek(t, r) = "string" /\ Peek(t, name) # "Colon" => result = Fail(name, "MissColon")
      /\ Peek(t, r) = "string" /\ Peek(t, name) = "Colon" =>
           /\ value.error # None => result = value
           /\ value.error = None =>
                /\ Peek(t, after) = "Comma" => result = p.members[n + 1][Skip(t, Take(after))]
                /\ Peek(t, after) = "RightCurlyBracket" =>
                     result = Emit(Take(after), "EndObject", n + 1)
                /\ Peek(t, after) \notin {"Comma", "RightCurlyBracket"} =>
                     result = Fail(after, "MissCommaOrCurlyBracket")
  BY DEF Members, Named, Colon, Valued
<1> HIDE DEF result
<1>1. CASE Peek(t, r) # "string"
  <2>1. Further(t, r, result)
    BY <1>0, <1>1, <1>3, FailFurther
  <2> QED
    BY <2>1 DEF result
<1>2. CASE Peek(t, r) = "string"
  <2>1. name \in ReadingsOf(t) /\ Further(t, r, name)
    BY <1>0, <1>2, CalledAndSkipped DEF Named
  <2>2. CASE Peek(t, name) # "Colon"
    <3>1. Further(t, name, Fail(name, "MissColon"))
      BY <1>0, <2>1, FailFurther
    <3> QED
      BY <1>2, <1>3, <2>1, <2>2, <3>1, FurtherTransitive DEF result
  <2>3. CASE Peek(t, name) = "Colon"
    <3>1. colon \in ReadingsOf(t) /\ Further(t, name, colon)
      BY <2>1, <2>3, Taken DEF Colon
    <3>2. Further(t, r, colon)
      BY <2>1, <3>1, FurtherTransitive
    <3> HIDE DEF colon, name
    <3>3. value \in ReadingsOf(t) /\ Further(t, colon, value)
      BY <3>1, ValueFurther DEF Further
    <3>4. Further(t, r, value)
      BY <3>1, <3>2, <3>3, FurtherTransitive
    <3> HIDE DEF value
    <3>5. after \in ReadingsOf(t) /\ Further(t, value, after)
      BY <3>3, SkipMade, SkipFurther DEF Valued, value, colon
    <3> HIDE DEF after
    <3>6. Further(t, r, after)
      BY <3>3, <3>4, <3>5, FurtherTransitive
    <3>7. /\ value.error # None => result = value
          /\ value.error = None =>
               /\ Peek(t, after) = "Comma" => result = p.members[n + 1][Skip(t, Take(after))]
               /\ Peek(t, after) = "RightCurlyBracket" =>
                    result = Emit(Take(after), "EndObject", n + 1)
               /\ Peek(t, after) \notin {"Comma", "RightCurlyBracket"} =>
                    result = Fail(after, "MissCommaOrCurlyBracket")
      BY <1>2, <1>3, <2>3, Zenon DEF name, colon, value, after
    <3>8. CASE value.error # None
      BY <3>4, <3>7, <3>8 DEF result
    <3>9. CASE value.error = None /\ Peek(t, after) = "Comma"
      <4> DEFINE next == Skip(t, Take(after))
      <4>1. next \in ReadingsOf(t) /\ Further(t, after, next)
        BY <3>5, <3>9, Taken
      <4>2. result = p.members[n + 1][next]
        BY <3>7, <3>9
      <4> HIDE DEF next
      <4>3. Further(t, next, result)
        BY <1>0, <4>1, <4>2 DEF LoopsFurther
      <4>4. Further(t, r, next)
        BY <3>5, <3>6, <4>1, FurtherTransitive
      <4> QED
        BY <4>1, <4>3, <4>4, FurtherTransitive DEF result
    <3>10. CASE value.error = None /\ Peek(t, after) = "RightCurlyBracket"
      <4>0. Peek(t, after) # "end" /\ result = Emit(Take(after), "EndObject", n + 1)
        BY <3>7, <3>10
      <4>1. Further(t, after, result)
        BY <1>0, <3>5, <4>0, Called
      <4> QED
        BY <3>5, <3>6, <4>1, FurtherTransitive DEF result
    <3>11. CASE value.error = None /\ Peek(t, after) \notin {"Comma", "RightCurlyBracket"}
      <4>1. Further(t, after, result)
        BY <1>0, <3>5, <3>7, <3>11, FailFurther
      <4> QED
        BY <3>5, <3>6, <4>1, FurtherTransitive DEF result
    <3> QED
      BY <3>8, <3>9, <3>10, <3>11 DEF result
  <2> QED
    BY <2>2, <2>3
<1> QED
  BY <1>1, <1>2

(* A round of the loop of ParseArray reads on if the loops do. *)
LEMMA ElementsFurther ==
  ASSUME NEW t, Len(t) \in Nat, NEW p, LoopsFurther(t, p), NEW r \in ReadingsOf(t), NEW n \in Nat
  PROVE  Further(t, r, Elements(t, r, n, p))
<1> DEFINE value == ParseValue(t, r, p)
           after == Skip(t, value)
           result == Elements(t, r, n, p)
<1>0. n + 1 \in Nat /\ "EndArray" \in Calls /\ "MissCommaOrSquareBracket" \in Errors
  BY DEF Calls, Errors
<1>1. value \in ReadingsOf(t) /\ Further(t, r, value)
  BY ValueFurther DEF Further
<1>2. /\ value.error # None => result = value
      /\ value.error = None =>
           /\ Peek(t, after) = "Comma" => result = p.elements[n + 1][Skip(t, Take(after))]
           /\ Peek(t, after) = "RightBracket" => result = Emit(Take(after), "EndArray", n + 1)
           /\ Peek(t, after) \notin {"Comma", "RightBracket"} =>
                result = Fail(after, "MissCommaOrSquareBracket")
  BY ElementsCases, Zenon
<1> HIDE DEF value, result
<1>3. after \in ReadingsOf(t) /\ Further(t, value, after)
  BY <1>1, SkipMade, SkipFurther
<1> HIDE DEF after
<1>4. Further(t, r, after)
  BY <1>1, <1>3, FurtherTransitive
<1>5. CASE value.error # None
  BY <1>1, <1>2, <1>5 DEF result
<1>6. CASE value.error = None /\ Peek(t, after) = "Comma"
  <2> DEFINE next == Skip(t, Take(after))
  <2>1. next \in ReadingsOf(t) /\ Further(t, after, next)
    BY <1>3, <1>6, Taken
  <2>2. result = p.elements[n + 1][next]
    BY <1>2, <1>6
  <2> HIDE DEF next
  <2>3. Further(t, next, result)
    BY <1>0, <2>1, <2>2 DEF LoopsFurther
  <2>4. Further(t, r, next)
    BY <1>3, <1>4, <2>1, FurtherTransitive
  <2> QED
    BY <2>1, <2>3, <2>4, FurtherTransitive DEF result
<1>7. CASE value.error = None /\ Peek(t, after) = "RightBracket"
  <2>1. Further(t, after, result)
    BY <1>0, <1>2, <1>3, <1>7, Called
  <2> QED
    BY <1>3, <1>4, <2>1, FurtherTransitive DEF result
<1>8. CASE value.error = None /\ Peek(t, after) \notin {"Comma", "RightBracket"}
  <2>1. Further(t, after, result)
    BY <1>0, <1>2, <1>3, <1>8, FailFurther
  <2> QED
    BY <1>3, <1>4, <2>1, FurtherTransitive DEF result
<1> QED
  BY <1>5, <1>6, <1>7, <1>8

(* What the loops are, level by level. *)
LEMMA LoopsStep ==
  ASSUME NEW t, Len(t) \in Nat, NEW left \in 0 .. Len(t), NEW r \in Readings, NEW n \in Nat
  PROVE  /\ left = 0 =>
              /\ Loops(t)[left].members[n][r] = Fail(r, "MissName")
              /\ Loops(t)[left].elements[n][r] = Fail(r, "ValueInvalid")
         /\ left # 0 =>
              /\ Loops(t)[left].members[n][r] = Members(t, r, n, Loops(t)[left - 1])
              /\ Loops(t)[left].elements[n][r] = Elements(t, r, n, Loops(t)[left - 1])
<1> DEFINE q == Loops(t)[left - 1]
<1>1. Loops(t)[left] = LoopsAt(t, left, q)
  BY LoopsRec
<1> HIDE DEF q
<1>2. /\ LoopsAt(t, left, q).members[n][r] =
           IF left = 0 THEN Fail(r, "MissName") ELSE Members(t, r, n, q)
      /\ LoopsAt(t, left, q).elements[n][r] =
           IF left = 0 THEN Fail(r, "ValueInvalid") ELSE Elements(t, r, n, q)
  BY DEF LoopsAt
<1> QED
  BY <1>1, <1>2, Zenon DEF q

(* The loops read on, with any number of tokens left. *)
LEMMA AllLoopsFurther ==
  ASSUME NEW t, Len(t) \in Nat
  PROVE  \A left \in 0 .. Len(t) : LoopsFurther(t, Loops(t)[left])
<1> DEFINE S == {left \in Nat : left <= Len(t) => LoopsFurther(t, Loops(t)[left])}
<1>1. 0 \in S
  <2>1. 0 \in 0 .. Len(t) /\ {"MissName", "ValueInvalid"} \subseteq Errors
    BY DEF Errors
  <2>2. ASSUME NEW r \in ReadingsOf(t), NEW n \in Nat
        PROVE  Further(t, r, Loops(t)[0].members[n][r])
        /\ Further(t, r, Loops(t)[0].elements[n][r])
    <3>1. r \in Readings
      BY DEF ReadingsOf
    <3>2. /\ Loops(t)[0].members[n][r] = Fail(r, "MissName")
          /\ Loops(t)[0].elements[n][r] = Fail(r, "ValueInvalid")
      BY <2>1, <3>1, LoopsStep
    <3> QED
      BY <2>1, <3>2, FailFurther
  <2> QED
    BY <2>2 DEF LoopsFurther
<1>2. ASSUME NEW left \in S PROVE left + 1 \in S
  <2> SUFFICES ASSUME left + 1 <= Len(t) PROVE LoopsFurther(t, Loops(t)[left + 1])
    OBVIOUS
  <2>1. left \in Nat /\ left <= Len(t) /\ left + 1 \in 0 .. Len(t) /\ left + 1 # 0
        /\ (left + 1) - 1 = left
    OBVIOUS
  <2> DEFINE p == Loops(t)[left]
             q == Loops(t)[left + 1]
  <2>2. LoopsFurther(t, p)
    BY <2>1
  <2>3. ASSUME NEW r \in ReadingsOf(t), NEW n \in Nat
        PROVE  Further(t, r, q.members[n][r]) /\ Further(t, r, q.elements[n][r])
    <3>1. r \in Readings
      BY DEF ReadingsOf
    <3>2. q.members[n][r] = Members(t, r, n, p) /\ q.elements[n][r] = Elements(t, r, n, p)
      BY <2>1, <3>1, LoopsStep
    <3> HIDE DEF p, q
    <3>3. Further(t, r, Members(t, r, n, p)) /\ Further(t, r, Elements(t, r, n, p))
      BY <2>2, MembersFurther, ElementsFurther
    <3> QED
      BY <3>2, <3>3
  <2> HIDE DEF q
  <2>4. LoopsFurther(t, q)
    BY <2>3 DEF LoopsFurther
  <2> QED
    BY <2>4 DEF q
<1>3. S \in SUBSET Nat
  OBVIOUS
<1>4. S = Nat
  <2> HIDE DEF S
  <2> QED
    BY <1>1, <1>2, <1>3, Induction
<1> QED
  BY <1>4

-------------------------------------------------------------------------------
(* The iterative parser as a function                                         *)

(* The iterative parser as a function of the token it reads. *)
Machine(s, k, e, w) == [state |-> s, stack |-> k, error |-> e, events |-> w]

(* The machine without an error. *)
Cfg(s, k, w) == Machine(s, k, None, w)

(* The machine refuses a token. *)
Refusing(c, code) == Machine(c.state, c.stack, code, c.events)

(* The states that a value leads to. *)
Holdings == {"Finish", "MemberValue", "Element"}

(* What is on the stack for one object or array. *)
Frames == [to : Holdings, n : Nat]

(* The stacks there can be. *)
Stacks == Seq(Frames)

(* Where to return to, and the items so far. *)
Frame(h, n) == [to |-> h, n |-> n]

(* The stack k with one more object or array. *)
Pushed(k, h, n) == Append(k, Frame(h, n))

(* Open. *)
Opening(c, d, call) ==
  Cfg(d, Pushed(c.stack, Holding(c.state), 0), Noted(c.events, call, 0))

(* Close. *)
Closing(c, call, delimiter, holding) ==
  IF c.state = delimiter THEN Refusing(c, ErrorIn(c.state))
  ELSE Cfg(Last(c.stack).to, Front(c.stack),
           Noted(c.events, call,
                 IF c.state = holding THEN Last(c.stack).n + 1 ELSE Last(c.stack).n))

(* Transit. *)
AfterToken(c, t) ==
  LET d == Predict(c.state, t)
  IN  CASE d = "Error" -> Refusing(c, ErrorIn(c.state))
        [] d = "ObjectInitial" -> Opening(c, d, "StartObject")
        [] d = "ArrayInitial" -> Opening(c, d, "StartArray")
        [] d = "MemberKey" -> Cfg(d, c.stack, Noted(c.events, "Key", 0))
        [] d = "KeyValueDelimiter" -> Cfg(d, c.stack, c.events)
        [] d \in {"MemberDelimiter", "ElementDelimiter"} ->
             Cfg(d, [c.stack EXCEPT ![Len(c.stack)].n = @ + 1], c.events)
        [] d = "ObjectFinish" -> Closing(c, "EndObject", "MemberDelimiter", "MemberValue")
        [] d = "ArrayFinish" -> Closing(c, "EndArray", "ElementDelimiter", "Element")
        [] d \in {"MemberValue", "Element", "Finish"} ->
             IF t = "word" THEN Refusing(c, "ValueInvalid")
             ELSE Cfg(d, c.stack, Noted(c.events, t, 0))

(* ReadToken: an error stays, and white space changes nothing. *)
After(c, t) == IF c.error # None \/ t = "space" THEN c ELSE AfterToken(c, t)

(* The token is an error in the state. *)
Refuses(s, k, w, t) ==
  \E code \in Errors \ {None} :
    /\ After(Cfg(s, k, w), t) = Machine(s, k, code, w)
    /\ s # "Start" => code = ErrorIn(s)

(* The states that the machine rests in. *)
States ==
  Expecting \cup Holdings
    \cup {"ObjectInitial", "MemberKey", "MemberDelimiter"}

(* The top of a stack, what is below it, and one more item counted on it. *)
LEMMA TopOfStack ==
  ASSUME NEW s \in Seq(Frames), NEW f \in Frames
  PROVE  /\ Last(Append(s, f)) = f /\ Front(Append(s, f)) = s
         /\ [Append(s, f) EXCEPT ![Len(Append(s, f))].n = @ + 1] = Append(s, Frame(f.to, f.n + 1))
<1> DEFINE k == Append(s, f)
           g == Frame(f.to, f.n + 1)
<1>1. /\ Len(s) \in Nat /\ k \in Seq(Frames) /\ Len(k) = Len(s) + 1 /\ k[Len(s) + 1] = f
      /\ \A i \in 1 .. Len(s) : k[i] = s[i]
  BY AppendProperties, LenProperties
<1>2. Last(k) = f
  BY <1>1 DEF Last
<1>3. Front(k) = s
  <2> HIDE DEF k
  <2>1. Front(k) = SubSeq(k, 1, Len(s))
    BY <1>1 DEF Front
  <2>2. SubSeq(k, 1, Len(s)) \in Seq(Frames) /\ Len(SubSeq(k, 1, Len(s))) = Len(s)
        /\ \A i \in 1 .. Len(s) : SubSeq(k, 1, Len(s))[i] = k[i]
    BY <1>1, SubSeqProperties
  <2> QED
    BY <1>1, <2>1, <2>2, SeqEqual
<1>4. g \in Frames
  BY DEF Frames, Frame
<1>5. [k EXCEPT ![Len(k)].n = @ + 1] = Append(s, g)
  <2> DEFINE u == Append(s, g)
             x == [f EXCEPT !.n = @ + 1]
             w == [k EXCEPT ![Len(s) + 1] = x]
  <2>1. x = g
    BY DEF Frames, Frame
  <2>2. u \in Seq(Frames) /\ Len(u) = Len(s) + 1 /\ u[Len(s) + 1] = g
        /\ \A i \in 1 .. Len(s) : u[i] = s[i]
    BY <1>4, AppendProperties
  <2>3. [k EXCEPT ![Len(k)].n = @ + 1] = w
    BY <1>1
  <2> HIDE DEF k, u, x
  <2>4. w \in Seq(Frames) /\ Len(w) = Len(k) /\ w[Len(s) + 1] = g
        /\ \A i \in 1 .. Len(s) : w[i] = k[i]
    BY <1>1, <1>4, <2>1, ExceptSeq
  <2> HIDE DEF w
  <2>5. \A i \in 1 .. Len(s) + 1 : w[i] = u[i]
    BY <1>1, <2>2, <2>4
  <2>6. w = u
    BY <1>1, <2>2, <2>4, <2>5, SeqEqual
  <2> QED
    BY <2>3, <2>6 DEF u
<1> QED
  BY <1>2, <1>3, <1>5 DEF k

(* The same where the top is a frame. *)
LEMMA PushedTop ==
  ASSUME NEW k \in Stacks, NEW h \in Holdings, NEW n \in Nat, NEW K, K = Pushed(k, h, n)
  PROVE  /\ K \in Stacks /\ Last(K).to = h /\ Last(K).n = n /\ Front(K) = k
         /\ [K EXCEPT ![Len(K)].n = @ + 1] = Pushed(k, h, n + 1)
<1> DEFINE f == Frame(h, n)
<1>1. f \in Frames /\ f.to = h /\ f.n = n
  BY DEF Frame, Frames
<1> HIDE DEF f
<1>2. K = Append(k, f) /\ k \in Seq(Frames)
  BY DEF Pushed, f, Stacks
<1>3. K \in Stacks
  BY <1>1, <1>2, AppendProperties DEF Stacks
<1>4. Last(K) = f /\ Front(K) = k /\ [K EXCEPT ![Len(K)].n = @ + 1] = Append(k, Frame(h, n + 1))
  BY <1>1, <1>2, TopOfStack
<1> QED
  BY <1>1, <1>3, <1>4 DEF Pushed

(* The fields of the machine. *)
LEMMA MachineFields ==
  ASSUME NEW s, NEW k, NEW e, NEW w
  PROVE  /\ Machine(s, k, e, w).state = s /\ Machine(s, k, e, w).stack = k
         /\ Machine(s, k, e, w).error = e /\ Machine(s, k, e, w).events = w
BY DEF Machine

(* The fields of the machine without an error. *)
LEMMA CfgFields ==
  ASSUME NEW s, NEW k, NEW w
  PROVE  /\ Cfg(s, k, w).state = s /\ Cfg(s, k, w).stack = k
         /\ Cfg(s, k, w).error = None /\ Cfg(s, k, w).events = w
BY DEF Machine, Cfg

(* What Predict has no entry for is refused. *)
LEMMA RefusingStep ==
  ASSUME NEW s \in States, NEW k, NEW w, NEW t, t # "space", Predict(s, t) = "Error"
  PROVE  Refuses(s, k, w, t)
<1> DEFINE c == Cfg(s, k, w)
<1>1. c.state = s /\ c.stack = k /\ c.error = None /\ c.events = w
  BY CfgFields
<1> HIDE DEF c
<1>2. After(c, t) = AfterToken(c, t)
  BY <1>1 DEF After
<1>3. AfterToken(c, t) = Machine(s, k, ErrorIn(s), w)
  BY <1>1 DEF AfterToken, Refusing
<1>4. ErrorIn(s) \in Errors \ {None}
  BY DEF ErrorIn, Errors, None
<1> QED
  BY <1>2, <1>3, <1>4 DEF Refuses, c

(* An object begins where a value is expected. *)
LEMMA ObjectSteps ==
  ASSUME NEW s \in Expecting, NEW k, NEW w
  PROVE  After(Cfg(s, k, w), "LeftCurlyBracket") =
           Cfg("ObjectInitial", Pushed(k, Holding(s), 0), Noted(w, "StartObject", 0))
<1> DEFINE c == Cfg(s, k, w)
<1>1. c.state = s /\ c.stack = k /\ c.error = None /\ c.events = w
  BY CfgFields
<1> HIDE DEF c
<1>2. Predict(s, "LeftCurlyBracket") = "ObjectInitial"
  BY DEF Predict, Values, Scalars, Expecting
<1>3. After(c, "LeftCurlyBracket") = Opening(c, "ObjectInitial", "StartObject")
  BY <1>1, <1>2 DEF After, AfterToken
<1> QED
  BY <1>1, <1>3 DEF Opening, Frame, c

(* An array begins where a value is expected. *)
LEMMA ArraySteps ==
  ASSUME NEW s \in Expecting, NEW k, NEW w
  PROVE  After(Cfg(s, k, w), "LeftBracket") =
           Cfg("ArrayInitial", Pushed(k, Holding(s), 0), Noted(w, "StartArray", 0))
<1> DEFINE c == Cfg(s, k, w)
<1>1. c.state = s /\ c.stack = k /\ c.error = None /\ c.events = w
  BY CfgFields
<1> HIDE DEF c
<1>2. Predict(s, "LeftBracket") = "ArrayInitial"
  BY DEF Predict, Values, Scalars, Expecting
<1>3. After(c, "LeftBracket") = Opening(c, "ArrayInitial", "StartArray")
  BY <1>1, <1>2 DEF After, AfterToken
<1> QED
  BY <1>1, <1>3 DEF Opening, Frame, c

(* A scalar is read where a value is expected. *)
LEMMA ScalarSteps ==
  ASSUME NEW s \in Expecting, NEW k, NEW w, NEW t \in Scalars
  PROVE  After(Cfg(s, k, w), t) = Cfg(Holding(s), k, Noted(w, t, 0))
<1> DEFINE c == Cfg(s, k, w)
<1>1. c.state = s /\ c.stack = k /\ c.error = None /\ c.events = w
  BY CfgFields
<1> HIDE DEF c
<1>2. Predict(s, t) = Holding(s) /\ Holding(s) \in Holdings /\ t # "word" /\ t # "space"
  BY DEF Predict, Holding, Holdings, Scalars, Values, Expecting
<1>3. AfterToken(c, t) = Cfg(Holding(s), k, Noted(w, t, 0))
  BY <1>1, <1>2 DEF AfterToken, Holdings
<1> QED
  BY <1>1, <1>2, <1>3 DEF After, c

(* Nothing else begins a value. *)
LEMMA InvalidSteps ==
  ASSUME NEW s \in Expecting, NEW k, NEW w, NEW t
  PROVE  /\ t \notin {"LeftCurlyBracket", "LeftBracket", "space"} \cup Scalars
         /\ s = "ArrayInitial" => t # "RightBracket"
         => Refuses(s, k, w, t)
<1> DEFINE c == Cfg(s, k, w)
<1>1. c.state = s /\ c.stack = k /\ c.error = None /\ c.events = w
  BY CfgFields
<1> HIDE DEF c
<1>0. HAVE t \notin {"LeftCurlyBracket", "LeftBracket", "space"} \cup Scalars
           /\ (s = "ArrayInitial" => t # "RightBracket")
<1>2. After(c, t) = AfterToken(c, t)
  BY <1>0, <1>1 DEF After
<1>3. ErrorIn(s) \in Errors \ {None} /\ "ValueInvalid" \in Errors \ {None}
      /\ (s # "Start" => ErrorIn(s) = "ValueInvalid")
  BY DEF ErrorIn, Expecting, Errors, None
<1>4. CASE t = "word"
  <2>1. Predict(s, t) = Holding(s) /\ Holding(s) \in Holdings
    BY <1>4 DEF Predict, Holding, Holdings, Scalars, Values, Expecting
  <2>2. AfterToken(c, t) = Refusing(c, "ValueInvalid")
    BY <1>1, <1>4, <2>1 DEF AfterToken, Holdings
  <2> QED
    BY <1>1, <1>2, <1>3, <2>2 DEF Refusing, Refuses, c
<1>5. CASE s = "ElementDelimiter" /\ t = "RightBracket"
  <2>1. Predict(s, t) = "ArrayFinish"
    BY <1>5 DEF Predict, Values, Scalars, Expecting
  <2>2. AfterToken(c, t) = Refusing(c, ErrorIn(s))
    BY <1>1, <1>5, <2>1 DEF AfterToken, Closing
  <2> QED
    BY <1>1, <1>2, <1>3, <2>2 DEF Refusing, Refuses, c
<1>6. CASE t # "word" /\ ~(s = "ElementDelimiter" /\ t = "RightBracket")
  <2>1. Predict(s, t) = "Error"
    BY <1>0, <1>6 DEF Predict, Values, Scalars, Expecting
  <2>2. s \in States
    BY DEF States
  <2> QED
    BY <1>0, <2>1, <2>2, RefusingStep
<1> QED
  BY <1>4, <1>5, <1>6

(* A name is read where one is expected, and nothing else but an end. *)
LEMMA NameSteps ==
  ASSUME NEW s \in {"ObjectInitial", "MemberDelimiter"}, NEW k, NEW w, NEW t
  PROVE  /\ t = "string" => After(Cfg(s, k, w), t) =
                              Cfg("MemberKey", k, Noted(w, "Key", 0))
         /\ t \notin {"string", "space"} /\ (s = "ObjectInitial" => t # "RightCurlyBracket") =>
              Refuses(s, k, w, t)
<1> DEFINE c == Cfg(s, k, w)
<1>1. c.state = s /\ c.stack = k /\ c.error = None /\ c.events = w
  BY CfgFields
<1> HIDE DEF c
<1>2. t # "space" => After(c, t) = AfterToken(c, t)
  BY <1>1 DEF After
<1>3. CASE t = "string"
  <2>1. Predict(s, t) = "MemberKey"
    BY <1>3 DEF Predict, Values, Scalars, Expecting
  <2>2. AfterToken(c, t) = Cfg("MemberKey", k, Noted(w, "Key", 0))
    BY <1>1, <2>1 DEF AfterToken
  <2> QED
    BY <1>2, <1>3, <2>2 DEF c
<1>4. CASE s = "MemberDelimiter" /\ t = "RightCurlyBracket"
  <2>1. Predict(s, t) = "ObjectFinish"
    BY <1>4 DEF Predict, Values, Scalars, Expecting
  <2>2. AfterToken(c, t) = Refusing(c, ErrorIn(s))
    BY <1>1, <1>4, <2>1 DEF AfterToken, Closing
  <2>3. ErrorIn(s) \in Errors \ {None}
    BY DEF ErrorIn, Errors, None
  <2> QED
    BY <1>1, <1>2, <1>4, <2>2, <2>3 DEF Refusing, Refuses, c
<1>5. CASE t \notin {"string", "space", "RightCurlyBracket"}
  <2>1. Predict(s, t) = "Error"
    BY <1>5 DEF Predict, Values, Scalars, Expecting
  <2>2. s \in States
    BY DEF States
  <2> QED
    BY <1>5, <2>1, <2>2, RefusingStep
<1>6. CASE t = "space" \/ (s = "ObjectInitial" /\ t = "RightCurlyBracket")
  BY <1>6
<1> QED
  BY <1>3, <1>4, <1>5, <1>6 DEF c

(* A colon follows a name. *)
LEMMA KeySteps ==
  ASSUME NEW k, NEW w, NEW t
  PROVE  /\ t = "Colon" => After(Cfg("MemberKey", k, w), t) = Cfg("KeyValueDelimiter", k, w)
         /\ t \notin {"Colon", "space"} => Refuses("MemberKey", k, w, t)
<1> DEFINE c == Cfg("MemberKey", k, w)
<1>1. c.state = "MemberKey" /\ c.stack = k /\ c.error = None /\ c.events = w
  BY CfgFields
<1> HIDE DEF c
<1>3. ASSUME t = "Colon" PROVE After(c, t) = Cfg("KeyValueDelimiter", k, w)
  <2>1. Predict("MemberKey", t) = "KeyValueDelimiter"
    BY <1>3 DEF Predict, Values, Scalars, Expecting
  <2> QED
    BY <1>1, <1>3, <2>1 DEF After, AfterToken
<1>4. ASSUME t \notin {"Colon", "space"} PROVE Refuses("MemberKey", k, w, t)
  <2>1. Predict("MemberKey", t) = "Error" /\ "MemberKey" \in States
    BY <1>4 DEF Predict, Values, Scalars, Expecting, States
  <2> QED
    BY <1>4, <2>1, RefusingStep
<1> QED
  BY <1>3, <1>4 DEF c

(* An empty object or array ends. *)
LEMMA EmptySteps ==
  ASSUME NEW k \in Stacks, NEW h \in Holdings, NEW n \in Nat, NEW w
  PROVE  /\ After(Cfg("ObjectInitial", Pushed(k, h, n), w), "RightCurlyBracket") =
              Cfg(h, k, Noted(w, "EndObject", n))
         /\ After(Cfg("ArrayInitial", Pushed(k, h, n), w), "RightBracket") =
              Cfg(h, k, Noted(w, "EndArray", n))
<1> DEFINE K == Pushed(k, h, n)
           c == Cfg("ObjectInitial", K, w)
           d == Cfg("ArrayInitial", K, w)
<1>1. Last(K).to = h /\ Last(K).n = n /\ Front(K) = k
      /\ [K EXCEPT ![Len(K)].n = @ + 1] = Pushed(k, h, n + 1)
  BY PushedTop
<1> HIDE DEF K
<1>2. c.state = "ObjectInitial" /\ c.stack = K /\ c.error = None /\ c.events = w
  BY CfgFields
<1>3. d.state = "ArrayInitial" /\ d.stack = K /\ d.error = None /\ d.events = w
  BY CfgFields
<1>4. Predict("ObjectInitial", "RightCurlyBracket") = "ObjectFinish"
      /\ Predict("ArrayInitial", "RightBracket") = "ArrayFinish"
  BY DEF Predict, Values, Scalars, Expecting
<1> HIDE DEF c, d
<1>5. After(c, "RightCurlyBracket") = Closing(c, "EndObject", "MemberDelimiter", "MemberValue")
  BY <1>2, <1>4 DEF After, AfterToken
<1>6. After(d, "RightBracket") = Closing(d, "EndArray", "ElementDelimiter", "Element")
  BY <1>3, <1>4 DEF After, AfterToken
<1>7. After(c, "RightCurlyBracket") = Cfg(h, k, Noted(w, "EndObject", n))
  BY <1>1, <1>2, <1>5 DEF Closing
<1>8. After(d, "RightBracket") = Cfg(h, k, Noted(w, "EndArray", n))
  BY <1>1, <1>3, <1>6 DEF Closing
<1> QED
  BY <1>7, <1>8 DEF c, d, K

(* A comma or the end of the object follows a member. *)
LEMMA MemberValueSteps ==
  ASSUME NEW k \in Stacks, NEW h \in Holdings, NEW n \in Nat, NEW w, NEW t
  PROVE  /\ t = "Comma" => After(Cfg("MemberValue", Pushed(k, h, n), w), t) =
                         Cfg("MemberDelimiter", Pushed(k, h, n + 1), w)
         /\ t = "RightCurlyBracket" => After(Cfg("MemberValue", Pushed(k, h, n), w), t) =
                         Cfg(h, k, Noted(w, "EndObject", n + 1))
         /\ t \notin {"Comma", "RightCurlyBracket", "space"} =>
              Refuses("MemberValue", Pushed(k, h, n), w, t)
<1> DEFINE K == Pushed(k, h, n)
           c == Cfg("MemberValue", K, w)
<1>1. Last(K).to = h /\ Last(K).n = n /\ Front(K) = k
      /\ [K EXCEPT ![Len(K)].n = @ + 1] = Pushed(k, h, n + 1)
  BY PushedTop
<1> HIDE DEF K
<1>2. c.state = "MemberValue" /\ c.stack = K /\ c.error = None /\ c.events = w
  BY CfgFields
<1> HIDE DEF c
<1>3. ASSUME t = "Comma" PROVE After(c, t) = Cfg("MemberDelimiter", Pushed(k, h, n + 1), w)
  <2>1. Predict("MemberValue", t) = "MemberDelimiter"
    BY <1>3 DEF Predict, Values, Scalars, Expecting
  <2>2. AfterToken(c, t) = Cfg("MemberDelimiter", [K EXCEPT ![Len(K)].n = @ + 1], w)
    BY <1>2, <2>1 DEF AfterToken
  <2>3. After(c, t) = AfterToken(c, t)
    BY <1>2, <1>3 DEF After
  <2> QED
    BY <1>1, <2>2, <2>3
<1>4. ASSUME t = "RightCurlyBracket" PROVE After(c, t) = Cfg(h, k, Noted(w, "EndObject", n + 1))
  <2>1. Predict("MemberValue", t) = "ObjectFinish"
    BY <1>4 DEF Predict, Values, Scalars, Expecting
  <2>2. After(c, t) = Closing(c, "EndObject", "MemberDelimiter", "MemberValue")
    BY <1>2, <1>4, <2>1 DEF After, AfterToken
  <2> QED
    BY <1>1, <1>2, <2>2 DEF Closing
<1>5. ASSUME t \notin {"Comma", "RightCurlyBracket", "space"}
      PROVE  Refuses("MemberValue", K, w, t)
  <2>1. Predict("MemberValue", t) = "Error" /\ "MemberValue" \in States
    BY <1>5 DEF Predict, Values, Scalars, Expecting, States, Holdings
  <2> QED
    BY <1>5, <2>1, RefusingStep
<1> QED
  BY <1>3, <1>4, <1>5 DEF c, K

(* A comma or the end of the array follows an element. *)
LEMMA ElementSteps ==
  ASSUME NEW k \in Stacks, NEW h \in Holdings, NEW n \in Nat, NEW w, NEW t
  PROVE  /\ t = "Comma" => After(Cfg("Element", Pushed(k, h, n), w), t) =
                         Cfg("ElementDelimiter", Pushed(k, h, n + 1), w)
         /\ t = "RightBracket" => After(Cfg("Element", Pushed(k, h, n), w), t) =
                         Cfg(h, k, Noted(w, "EndArray", n + 1))
         /\ t \notin {"Comma", "RightBracket", "space"} =>
              Refuses("Element", Pushed(k, h, n), w, t)
<1> DEFINE K == Pushed(k, h, n)
           c == Cfg("Element", K, w)
<1>1. Last(K).to = h /\ Last(K).n = n /\ Front(K) = k
      /\ [K EXCEPT ![Len(K)].n = @ + 1] = Pushed(k, h, n + 1)
  BY PushedTop
<1> HIDE DEF K
<1>2. c.state = "Element" /\ c.stack = K /\ c.error = None /\ c.events = w
  BY CfgFields
<1> HIDE DEF c
<1>3. ASSUME t = "Comma" PROVE After(c, t) = Cfg("ElementDelimiter", Pushed(k, h, n + 1), w)
  <2>1. Predict("Element", t) = "ElementDelimiter"
    BY <1>3 DEF Predict, Values, Scalars, Expecting
  <2>2. AfterToken(c, t) = Cfg("ElementDelimiter", [K EXCEPT ![Len(K)].n = @ + 1], w)
    BY <1>2, <2>1 DEF AfterToken
  <2>3. After(c, t) = AfterToken(c, t)
    BY <1>2, <1>3 DEF After
  <2> QED
    BY <1>1, <2>2, <2>3
<1>4. ASSUME t = "RightBracket" PROVE After(c, t) = Cfg(h, k, Noted(w, "EndArray", n + 1))
  <2>1. Predict("Element", t) = "ArrayFinish"
    BY <1>4 DEF Predict, Values, Scalars, Expecting
  <2>2. After(c, t) = Closing(c, "EndArray", "ElementDelimiter", "Element")
    BY <1>2, <1>4, <2>1 DEF After, AfterToken
  <2> QED
    BY <1>1, <1>2, <2>2 DEF Closing
<1>5. ASSUME t \notin {"Comma", "RightBracket", "space"} PROVE Refuses("Element", K, w, t)
  <2>1. Predict("Element", t) = "Error" /\ "Element" \in States
    BY <1>5 DEF Predict, Values, Scalars, Expecting, States, Holdings
  <2> QED
    BY <1>5, <2>1, RefusingStep
<1> QED
  BY <1>3, <1>4, <1>5 DEF c, K

(* Nothing follows the document. *)
LEMMA FinishSteps ==
  ASSUME NEW k, NEW w, NEW t, t # "space"
  PROVE  Refuses("Finish", k, w, t)
<1>1. Predict("Finish", t) = "Error" /\ "Finish" \in States
  BY DEF Predict, Values, Scalars, Expecting, States, Holdings
<1> QED
  BY <1>1, RefusingStep

(* One lemma for each of these steps, as the provers instantiate them. *)
LEMMA NameStep ==
  ASSUME NEW s \in {"ObjectInitial", "MemberDelimiter"}, NEW k, NEW w
  PROVE  After(Cfg(s, k, w), "string") = Cfg("MemberKey", k, Noted(w, "Key", 0))
BY NameSteps

(* What is not a name is refused. *)
LEMMA NameRefused ==
  ASSUME NEW s \in {"ObjectInitial", "MemberDelimiter"}, NEW k, NEW w,
         NEW t, t \notin {"string", "space"}, s = "ObjectInitial" => t # "RightCurlyBracket"
  PROVE  Refuses(s, k, w, t)
BY NameSteps

(* A colon leads to the value. *)
LEMMA ColonStep ==
  ASSUME NEW k, NEW w
  PROVE  After(Cfg("MemberKey", k, w), "Colon") = Cfg("KeyValueDelimiter", k, w)
BY KeySteps

(* What is not a colon is refused. *)
LEMMA ColonRefused ==
  ASSUME NEW k, NEW w, NEW t, t \notin {"Colon", "space"}
  PROVE  Refuses("MemberKey", k, w, t)
BY KeySteps

(* An object may end at once. *)
LEMMA EmptyObjectStep ==
  ASSUME NEW k \in Stacks, NEW h \in Holdings, NEW n \in Nat, NEW w
  PROVE  After(Cfg("ObjectInitial", Pushed(k, h, n), w), "RightCurlyBracket") =
           Cfg(h, k, Noted(w, "EndObject", n))
BY EmptySteps

(* An array may end at once. *)
LEMMA EmptyArrayStep ==
  ASSUME NEW k \in Stacks, NEW h \in Holdings, NEW n \in Nat, NEW w
  PROVE  After(Cfg("ArrayInitial", Pushed(k, h, n), w), "RightBracket") =
           Cfg(h, k, Noted(w, "EndArray", n))
BY EmptySteps

(* A comma counts a member. *)
LEMMA MemberCommaStep ==
  ASSUME NEW k \in Stacks, NEW h \in Holdings, NEW n \in Nat, NEW w
  PROVE  After(Cfg("MemberValue", Pushed(k, h, n), w), "Comma") =
           Cfg("MemberDelimiter", Pushed(k, h, n + 1), w)
BY MemberValueSteps

(* The end counts the last member. *)
LEMMA MemberEndStep ==
  ASSUME NEW k \in Stacks, NEW h \in Holdings, NEW n \in Nat, NEW w
  PROVE  After(Cfg("MemberValue", Pushed(k, h, n), w), "RightCurlyBracket") =
           Cfg(h, k, Noted(w, "EndObject", n + 1))
BY MemberValueSteps

(* What follows a member is a comma or the end. *)
LEMMA MemberRefused ==
  ASSUME NEW k \in Stacks, NEW h \in Holdings, NEW n \in Nat, NEW w,
         NEW t, t \notin {"Comma", "RightCurlyBracket", "space"}
  PROVE  Refuses("MemberValue", Pushed(k, h, n), w, t)
BY MemberValueSteps

(* A comma counts an element. *)
LEMMA ElementCommaStep ==
  ASSUME NEW k \in Stacks, NEW h \in Holdings, NEW n \in Nat, NEW w
  PROVE  After(Cfg("Element", Pushed(k, h, n), w), "Comma") =
           Cfg("ElementDelimiter", Pushed(k, h, n + 1), w)
BY ElementSteps

(* The end counts the last element. *)
LEMMA ElementEndStep ==
  ASSUME NEW k \in Stacks, NEW h \in Holdings, NEW n \in Nat, NEW w
  PROVE  After(Cfg("Element", Pushed(k, h, n), w), "RightBracket") =
           Cfg(h, k, Noted(w, "EndArray", n + 1))
BY ElementSteps

(* What follows an element is a comma or the end. *)
LEMMA ElementRefused ==
  ASSUME NEW k \in Stacks, NEW h \in Holdings, NEW n \in Nat, NEW w,
         NEW t, t \notin {"Comma", "RightBracket", "space"}
  PROVE  Refuses("Element", Pushed(k, h, n), w, t)
BY ElementSteps

-------------------------------------------------------------------------------
(* The two parsers at one place of the text                                   *)

(* M holds the iterative parser before each token of t, and behind the last. *)
Runs(t, M) ==
  /\ M[1] = Cfg("Start", <<>>, <<>>)
  /\ \A i \in 1 .. Len(t) : t[i] # "end" /\ M[i + 1] = After(M[i], t[i])

(* Verdict of the machine. *)
Verd(c) == IF c.error = None /\ c.state # "Finish" THEN ErrorIn(c.state) ELSE c.error

(* Behind the text the machine has called w and gives the error code. *)
Failed(t, M, w, code) ==
  LET c == M[Len(t) + 1]
  IN  /\ Verd(c) # None /\ c.events = w
      /\ c.state # "Start" => Verd(c) = code

(* A value that has been read is what the machine has read, where it returns  *)
(* to state h and stack k; an error is the error of the machine.              *)
Outcome(t, M, v, h, k) ==
  /\ v.error = None => M[v.at] = Cfg(h, k, v.events)
  /\ v.error # None => Failed(t, M, v.events, v.error)

(* What does not change from one place to the next does not change. *)
LEMMA StaysAt ==
  ASSUME NEW a \in Nat, NEW b \in Nat, NEW M, NEW x, M[a] = x,
         \A i \in a .. b - 1 : M[i] = x => M[i + 1] = x
  PROVE  \A i \in a .. b : M[i] = x
<1> DEFINE S == {n \in Nat : a + n <= b => M[a + n] = x}
<1>1. 0 \in S
  OBVIOUS
<1>2. ASSUME NEW n \in S PROVE n + 1 \in S
  <2> SUFFICES ASSUME a + (n + 1) <= b PROVE M[a + (n + 1)] = x
    OBVIOUS
  <2>1. n \in Nat /\ a + n \in a .. b - 1 /\ M[a + n] = x /\ (a + n) + 1 = a + (n + 1)
    OBVIOUS
  <2> QED
    BY <2>1
<1>3. S \in SUBSET Nat
  OBVIOUS
<1>4. S = Nat
  <2> HIDE DEF S
  <2> QED
    BY <1>1, <1>2, <1>3, Induction
<1>5. ASSUME NEW i \in a .. b PROVE M[i] = x
  <2>1. i - a \in Nat /\ a + (i - a) = i
    OBVIOUS
  <2>2. i - a \in S
    <3> HIDE DEF S
    <3> QED
      BY <1>4, <2>1
  <2> QED
    BY <2>1, <2>2
<1> QED
  BY <1>5

(* After an error nothing changes. *)
LEMMA Frozen ==
  ASSUME NEW t, Len(t) \in Nat, NEW M, Runs(t, M), NEW i \in 1 .. Len(t) + 1, M[i].error # None
  PROVE  M[Len(t) + 1] = M[i]
<1> DEFINE x == M[i]
<1>1. \A j \in i .. (Len(t) + 1) - 1 : M[j] = x => M[j + 1] = x
  <2> SUFFICES ASSUME NEW j \in i .. (Len(t) + 1) - 1, M[j] = x PROVE M[j + 1] = x
    OBVIOUS
  <2>1. j \in 1 .. Len(t)
    OBVIOUS
  <2>2. M[j + 1] = After(M[j], t[j])
    BY <2>1 DEF Runs
  <2> QED
    BY <2>2 DEF After
<1>2. i \in Nat /\ Len(t) + 1 \in Nat /\ Len(t) + 1 \in i .. Len(t) + 1
  OBVIOUS
<1> HIDE DEF x
<1>3. M[i] = x
  BY DEF x
<1>4. \A j \in i .. Len(t) + 1 : M[j] = x
  BY <1>1, <1>2, <1>3, StaysAt
<1> QED
  BY <1>2, <1>3, <1>4

(* White space does not change the machine. *)
LEMMA Skips ==
  ASSUME NEW t, Len(t) \in Nat, NEW M, Runs(t, M), NEW r \in ReadingsOf(t)
  PROVE  M[Skip(t, r).at] = M[r.at]
<1> DEFINE x == M[r.at]
           b == Skip(t, r).at
<1>1. r.at \in 1 .. Len(t) + 1 /\ b \in 1 .. Len(t) + 1 /\ r.at <= b
      /\ \A j \in r.at .. b - 1 : t[j] = "space"
  BY SkipMade DEF ReadingsOf
<1> HIDE DEF b
<1>2. \A j \in r.at .. b - 1 : M[j] = x => M[j + 1] = x
  <2> SUFFICES ASSUME NEW j \in r.at .. b - 1, M[j] = x PROVE M[j + 1] = x
    OBVIOUS
  <2>1. j \in 1 .. Len(t) /\ t[j] = "space"
    BY <1>1
  <2>2. M[j + 1] = After(M[j], t[j])
    BY <2>1 DEF Runs
  <2> QED
    BY <2>1, <2>2 DEF After
<1>3. r.at \in Nat /\ b \in Nat /\ b \in r.at .. b
  BY <1>1
<1> HIDE DEF x
<1>4. M[r.at] = x
  BY DEF x
<1>5. \A j \in r.at .. b : M[j] = x
  BY <1>2, <1>3, <1>4, StaysAt
<1> QED
  BY <1>3, <1>4, <1>5 DEF b

(* A token is taken and the white space behind it skipped. *)
LEMMA Moves ==
  ASSUME NEW t, Len(t) \in Nat, NEW M, Runs(t, M), NEW r \in ReadingsOf(t), Peek(t, r) # "end",
         NEW u \in ReadingsOf(t), u.at = r.at + 1
  PROVE  /\ M[u.at] = After(M[r.at], Peek(t, r))
         /\ M[Skip(t, u).at] = After(M[r.at], Peek(t, r))
<1>1. r.at \in 1 .. Len(t) /\ Peek(t, r) = t[r.at]
  BY PeekHere
<1>2. M[u.at] = After(M[r.at], Peek(t, r))
  BY <1>1 DEF Runs
<1> QED
  BY <1>2, Skips

(* A token that is refused, or the end of the text, is an error of the        *)
(* machine.                                                                   *)
LEMMA Fails ==
  ASSUME NEW t, Len(t) \in Nat, NEW M, Runs(t, M), NEW r \in ReadingsOf(t),
         NEW s \in States, NEW k, M[r.at] = Cfg(s, k, r.events),
         s = "Finish" => Peek(t, r) # "end",
         Peek(t, r) # "end" => Refuses(s, k, r.events, Peek(t, r)),
         NEW code, s # "Start" => code = ErrorIn(s)
  PROVE  Failed(t, M, r.events, code)
<1> DEFINE c == M[Len(t) + 1]
<1>1. CASE Peek(t, r) = "end" /\ r.at = Len(t) + 1
  <2>1. c.state = s /\ c.error = None /\ c.events = r.events
    BY <1>1, CfgFields
  <2>2. ErrorIn(s) # None
    BY DEF ErrorIn, None
  <2> QED
    BY <1>1, <2>1, <2>2 DEF Failed, Verd
<1>2. CASE Peek(t, r) # "end"
  <2>1. PICK made \in Errors \ {None} :
          /\ After(Cfg(s, k, r.events), Peek(t, r)) = Machine(s, k, made, r.events)
          /\ s # "Start" => made = ErrorIn(s)
    BY <1>2 DEF Refuses
  <2>2. r.at \in 1 .. Len(t) /\ Take(r) \in ReadingsOf(t) /\ Take(r).at = r.at + 1
    BY <1>2, PeekHere
  <2>3. M[r.at + 1] = Machine(s, k, made, r.events)
    BY <1>2, <2>1, <2>2, Moves
  <2>4. M[r.at + 1].error # None
    BY <2>3, MachineFields
  <2>5. c = Machine(s, k, made, r.events)
    BY <2>2, <2>3, <2>4, Frozen
  <2>6. c.state = s /\ c.error = made /\ c.events = r.events
    BY <2>5, MachineFields
  <2> QED
    BY <2>1, <2>6 DEF Failed, Verd
<1>3. CASE Peek(t, r) = "end" /\ r.at # Len(t) + 1
  <2>1. r.at \in 1 .. Len(t) /\ t[r.at] = "end"
    BY <1>3 DEF Peek, ReadingsOf
  <2> QED
    BY <2>1 DEF Runs
<1> QED
  BY <1>1, <1>2, <1>3

(* A reading stands where the machine is in a state, without an error, and    *)
(* white space has been skipped.                                              *)
Stands(t, M, r, s, k) ==
  /\ r \in ReadingsOf(t) /\ r.error = None /\ Peek(t, r) # "space"
  /\ M[r.at] = Cfg(s, k, r.events)

(* So many tokens are left at the most. *)
Within(t, r, left) == Len(t) + 1 - r.at <= left

(* The loops read what the machine reads, from a name or value that is next   *)
(* and with so many tokens left at the most.                                  *)
MembersRight(t, M, p, left) ==
  \A r \in ReadingsOf(t), n \in Nat, h \in Holdings, k \in Stacks,
     s \in {"ObjectInitial", "MemberDelimiter"} :
    /\ Stands(t, M, r, s, Pushed(k, h, n)) /\ Within(t, r, left)
    /\ s = "ObjectInitial" => Peek(t, r) # "RightCurlyBracket"
    => Outcome(t, M, p.members[n][r], h, k)

(* The same for the loop of ParseArray. *)
ElementsRight(t, M, p, left) ==
  \A r \in ReadingsOf(t), n \in Nat, h \in Holdings, k \in Stacks,
     s \in {"ArrayInitial", "ElementDelimiter"} :
    /\ Stands(t, M, r, s, Pushed(k, h, n)) /\ Within(t, r, left)
    /\ s = "ArrayInitial" => Peek(t, r) # "RightBracket"
    => Outcome(t, M, p.elements[n][r], h, k)

(* Both loops. *)
LoopsAgree(t, M, p, left) == MembersRight(t, M, p, left) /\ ElementsRight(t, M, p, left)

(* What follows skipped white space is not white space. *)
LEMMA NoSpace ==
  ASSUME NEW t, Len(t) \in Nat, NEW r \in ReadingsOf(t)
  PROVE  Peek(t, Skip(t, r)) # "space"
<1>1. Skip(t, r).at = Len(t) + 1 \/ t[Skip(t, r).at] # "space"
  BY SkipMade
<1>2. Skip(t, r).at = Len(t) + 1 => ~(Skip(t, r).at <= Len(t))
  OBVIOUS
<1> QED
  BY <1>1, <1>2 DEF Peek

(* The outcome of an error. *)
LEMMA FailureOutcome ==
  ASSUME NEW t, NEW M, NEW r \in ReadingsOf(t), NEW code \in Errors \ {None}, NEW h, NEW k,
         Failed(t, M, r.events, code)
  PROVE  Outcome(t, M, Fail(r, code), h, k)
<1>1. r \in Readings
  BY DEF ReadingsOf
<1>2. Fail(r, code).error = code /\ Fail(r, code).events = r.events
  BY <1>1, FailMade
<1> QED
  BY <1>2 DEF Outcome

-------------------------------------------------------------------------------
(* What one round of a loop reads                                             *)

(* A reading is in the text or right behind it. *)
LEMMA ReadingAt ==
  ASSUME NEW t, Len(t) \in Nat, NEW r \in ReadingsOf(t)
  PROVE  r.at \in Nat /\ 1 <= r.at /\ r.at <= Len(t) + 1
BY DEF ReadingsOf

(* Where a token has been taken one less is left. *)
LEMMA WithinNext ==
  ASSUME NEW t, Len(t) \in Nat, NEW left \in Nat, NEW r \in ReadingsOf(t), NEW u \in ReadingsOf(t)
  PROVE  /\ Within(t, r, left) /\ r.at <= u.at => Within(t, u, left)
         /\ Within(t, r, left + 1) /\ r.at + 1 <= u.at => Within(t, u, left)
<1>1. r.at \in Nat /\ u.at \in Nat
  BY ReadingAt
<1> QED
  BY <1>1 DEF Within

(* A reading stands where white space has been skipped. *)
LEMMA StandsSkips ==
  ASSUME NEW t, Len(t) \in Nat, NEW M, Runs(t, M), NEW v \in ReadingsOf(t), v.error = None,
         NEW s, NEW k, M[v.at] = Cfg(s, k, v.events), NEW u, u = Skip(t, v)
  PROVE  Stands(t, M, u, s, k) /\ v.at <= u.at
<1>1. u \in ReadingsOf(t) /\ u.error = v.error /\ u.events = v.events /\ v.at <= u.at
      /\ Peek(t, u) # "space" /\ M[u.at] = M[v.at]
  BY SkipMade, NoSpace, Skips
<1> QED
  BY <1>1 DEF Stands

(* A token is taken with a call, or without. *)
LEMMA CallEnds ==
  ASSUME NEW t, Len(t) \in Nat, NEW M, Runs(t, M), NEW r, NEW s, NEW k, Stands(t, M, r, s, k),
         NEW x, Peek(t, r) = x, x # "end", NEW call \in Calls, NEW n \in Nat, NEW d, NEW q,
         After(Cfg(s, k, r.events), x) = Cfg(d, q, Noted(r.events, call, n)),
         NEW v, v = Emit(Take(r), call, n)
  PROVE  /\ v \in ReadingsOf(t) /\ v.at = r.at + 1 /\ v.error = None
         /\ M[v.at] = Cfg(d, q, v.events)
<1>1. r \in ReadingsOf(t) /\ r.error = None /\ M[r.at] = Cfg(s, k, r.events)
  BY DEF Stands
<1>2. v \in ReadingsOf(t) /\ v.at = r.at + 1 /\ v.error = r.error
      /\ v.events = Noted(r.events, call, n)
  BY <1>1, Called
<1>3. M[v.at] = After(M[r.at], Peek(t, r))
  BY <1>1, <1>2, Moves
<1> QED
  BY <1>1, <1>2, <1>3

(* The same, with the white space behind the token. *)
LEMMA CallMoves ==
  ASSUME NEW t, Len(t) \in Nat, NEW M, Runs(t, M), NEW r, NEW s, NEW k, Stands(t, M, r, s, k),
         NEW x, Peek(t, r) = x, x # "end", NEW call \in Calls, NEW n \in Nat, NEW d, NEW q,
         After(Cfg(s, k, r.events), x) = Cfg(d, q, Noted(r.events, call, n)),
         NEW u, u = Skip(t, Emit(Take(r), call, n))
  PROVE  Stands(t, M, u, d, q) /\ r.at + 1 <= u.at
<1> DEFINE v == Emit(Take(r), call, n)
<1>1. u = Skip(t, v) /\ v = Emit(Take(r), call, n)
  OBVIOUS
<1> HIDE DEF v
<1>2. /\ v \in ReadingsOf(t) /\ v.at = r.at + 1 /\ v.error = None
      /\ M[v.at] = Cfg(d, q, v.events)
  BY <1>1, CallEnds
<1> QED
  BY <1>1, <1>2, StandsSkips

(* The same without a call. *)
LEMMA TokenMoves ==
  ASSUME NEW t, Len(t) \in Nat, NEW M, Runs(t, M), NEW r, NEW s, NEW k, Stands(t, M, r, s, k),
         NEW x, Peek(t, r) = x, x # "end", NEW d, NEW q, After(Cfg(s, k, r.events), x) =
           Cfg(d, q, r.events),
         NEW u, u = Skip(t, Take(r))
  PROVE  Stands(t, M, u, d, q) /\ r.at + 1 <= u.at
<1> DEFINE v == Take(r)
<1>0. r \in ReadingsOf(t) /\ r.error = None /\ M[r.at] = Cfg(s, k, r.events)
  BY DEF Stands
<1>1. u = Skip(t, v)
  OBVIOUS
<1>2. v \in ReadingsOf(t) /\ v.at = r.at + 1 /\ v.error = r.error /\ v.events = r.events
  BY <1>0, PeekHere
<1> HIDE DEF v
<1>3. M[v.at] = After(M[r.at], Peek(t, r))
  BY <1>0, <1>2, Moves
<1>4. v.error = None /\ M[v.at] = Cfg(d, q, v.events)
  BY <1>0, <1>2, <1>3
<1> QED
  BY <1>1, <1>2, <1>4, StandsSkips

(* The outcome of a call that ends a value, and of a token that is an error.  *)
LEMMA CallOutcome ==
  ASSUME NEW t, Len(t) \in Nat, NEW M, Runs(t, M), NEW r, NEW s, NEW k, Stands(t, M, r, s, k),
         NEW x, Peek(t, r) = x, x # "end", NEW call \in Calls, NEW n \in Nat, NEW h, NEW q,
         After(Cfg(s, k, r.events), x) = Cfg(h, q, Noted(r.events, call, n))
  PROVE  Outcome(t, M, Emit(Take(r), call, n), h, q)
<1> DEFINE v == Emit(Take(r), call, n)
<1>0. v = Emit(Take(r), call, n)
  OBVIOUS
<1> HIDE DEF v
<1>1. v.error = None /\ M[v.at] = Cfg(h, q, v.events)
  BY <1>0, CallEnds
<1>2. Outcome(t, M, v, h, q)
  BY <1>1 DEF Outcome
<1> QED
  BY <1>2 DEF v

(* The outcome of a token that is refused. *)
LEMMA FailsHere ==
  ASSUME NEW t, Len(t) \in Nat, NEW M, Runs(t, M), NEW r, NEW s, NEW k, Stands(t, M, r, s, k),
         s \in States \ {"Finish"},
         Peek(t, r) # "end" => Refuses(s, k, r.events, Peek(t, r)),
         NEW code \in Errors \ {None}, s # "Start" => code = ErrorIn(s), NEW h, NEW q
  PROVE  Outcome(t, M, Fail(r, code), h, q)
<1>1. r \in ReadingsOf(t) /\ M[r.at] = Cfg(s, k, r.events)
  BY DEF Stands
<1> QED
  BY <1>1, Fails, FailureOutcome

(* MembersRight for one reading. *)
LEMMA MembersRightAt ==
  ASSUME NEW t, NEW M, NEW p, NEW left, MembersRight(t, M, p, left),
         NEW r, NEW n \in Nat, NEW h \in Holdings, NEW k \in Stacks,
         NEW s \in {"ObjectInitial", "MemberDelimiter"},
         Stands(t, M, r, s, Pushed(k, h, n)), Within(t, r, left),
         s = "ObjectInitial" => Peek(t, r) # "RightCurlyBracket"
  PROVE  Outcome(t, M, p.members[n][r], h, k)
BY DEF MembersRight, Stands

(* ElementsRight for one reading. *)
LEMMA ElementsRightAt ==
  ASSUME NEW t, NEW M, NEW p, NEW left, ElementsRight(t, M, p, left),
         NEW r, NEW n \in Nat, NEW h \in Holdings, NEW k \in Stacks,
         NEW s \in {"ArrayInitial", "ElementDelimiter"},
         Stands(t, M, r, s, Pushed(k, h, n)), Within(t, r, left),
         s = "ArrayInitial" => Peek(t, r) # "RightBracket"
  PROVE  Outcome(t, M, p.elements[n][r], h, k)
BY DEF ElementsRight, Stands

(* A value that is expected leads to one of Holdings. *)
LEMMA HoldingIn ==
  ASSUME NEW s \in Expecting
  PROVE  Holding(s) \in Holdings
BY DEF Holding, Holdings, Expecting

(* ParseObject reads what the machine reads, if the loops do. *)
LEMMA ObjectAgrees ==
  ASSUME NEW t, Len(t) \in Nat, NEW M, Runs(t, M), NEW p, NEW left \in Nat,
         LoopsAgree(t, M, p, left),
         NEW s \in Expecting, NEW k \in Stacks, NEW r, Stands(t, M, r, s, k),
         Within(t, r, left + 1), Peek(t, r) = "LeftCurlyBracket"
  PROVE  Outcome(t, M, ParseObject(t, r, p), Holding(s), k)
<1> DEFINE h == Holding(s)
           q == Pushed(k, h, 0)
           u == Skip(t, Emit(Take(r), "StartObject", 0))
<1>1. 0 \in Nat /\ "StartObject" \in Calls /\ "EndObject" \in Calls /\ h \in Holdings
  BY HoldingIn DEF Calls
<1>2. After(Cfg(s, k, r.events), "LeftCurlyBracket") =
        Cfg("ObjectInitial", q, Noted(r.events, "StartObject", 0))
  BY ObjectSteps
<1>3. ParseObject(t, r, p) = IF Peek(t, u) = "RightCurlyBracket" THEN Emit(Take(u), "EndObject", 0)
                            ELSE p.members[0][u]
  BY DEF ParseObject
<1>4. Stands(t, M, u, "ObjectInitial", q) /\ r.at + 1 <= u.at
  <2>1. "LeftCurlyBracket" # "end" /\ u = Skip(t, Emit(Take(r), "StartObject", 0))
    OBVIOUS
  <2> HIDE DEF u, q
  <2> QED
    BY <1>1, <1>2, <2>1, CallMoves
<1> HIDE DEF u, h
<1>5. CASE Peek(t, u) = "RightCurlyBracket"
  <2>1. After(Cfg("ObjectInitial", q, u.events), "RightCurlyBracket") =
          Cfg(h, k, Noted(u.events, "EndObject", 0))
    BY <1>1, EmptyObjectStep
  <2> HIDE DEF q
  <2>2. Outcome(t, M, Emit(Take(u), "EndObject", 0), h, k)
    <3>1. "RightCurlyBracket" # "end"
      OBVIOUS
    <3> QED
      BY <1>1, <1>4, <1>5, <2>1, <3>1, CallOutcome
  <2> QED
    BY <1>3, <1>5, <2>2 DEF h
<1>6. CASE Peek(t, u) # "RightCurlyBracket"
  <2>1. r \in ReadingsOf(t) /\ u \in ReadingsOf(t)
    BY <1>4 DEF Stands
  <2>2. Within(t, u, left)
    BY <1>4, <2>1, WithinNext
  <2>3. Outcome(t, M, p.members[0][u], h, k)
    <3>1. MembersRight(t, M, p, left)
          /\ "ObjectInitial" \in {"ObjectInitial", "MemberDelimiter"}
      BY DEF LoopsAgree
    <3> QED
      BY <1>1, <1>4, <1>6, <2>2, <3>1, MembersRightAt
  <2> QED
    BY <1>3, <1>6, <2>3 DEF h
<1> QED
  BY <1>5, <1>6

(* ParseArray reads what the machine reads, if the loops do. *)
LEMMA ArrayAgrees ==
  ASSUME NEW t, Len(t) \in Nat, NEW M, Runs(t, M), NEW p, NEW left \in Nat,
         LoopsAgree(t, M, p, left),
         NEW s \in Expecting, NEW k \in Stacks, NEW r, Stands(t, M, r, s, k),
         Within(t, r, left + 1), Peek(t, r) = "LeftBracket"
  PROVE  Outcome(t, M, ParseArray(t, r, p), Holding(s), k)
<1> DEFINE h == Holding(s)
           q == Pushed(k, h, 0)
           u == Skip(t, Emit(Take(r), "StartArray", 0))
<1>1. 0 \in Nat /\ "StartArray" \in Calls /\ "EndArray" \in Calls /\ h \in Holdings
  BY HoldingIn DEF Calls
<1>2. After(Cfg(s, k, r.events), "LeftBracket") =
        Cfg("ArrayInitial", q, Noted(r.events, "StartArray", 0))
  BY ArraySteps
<1>3. ParseArray(t, r, p) = IF Peek(t, u) = "RightBracket" THEN Emit(Take(u), "EndArray", 0)
                            ELSE p.elements[0][u]
  BY DEF ParseArray
<1>4. Stands(t, M, u, "ArrayInitial", q) /\ r.at + 1 <= u.at
  <2>1. "LeftBracket" # "end" /\ u = Skip(t, Emit(Take(r), "StartArray", 0))
    OBVIOUS
  <2> HIDE DEF u, q
  <2> QED
    BY <1>1, <1>2, <2>1, CallMoves
<1> HIDE DEF u, h
<1>5. CASE Peek(t, u) = "RightBracket"
  <2>1. After(Cfg("ArrayInitial", q, u.events), "RightBracket") =
          Cfg(h, k, Noted(u.events, "EndArray", 0))
    BY <1>1, EmptyArrayStep
  <2> HIDE DEF q
  <2>2. Outcome(t, M, Emit(Take(u), "EndArray", 0), h, k)
    <3>1. "RightBracket" # "end"
      OBVIOUS
    <3> QED
      BY <1>1, <1>4, <1>5, <2>1, <3>1, CallOutcome
  <2> QED
    BY <1>3, <1>5, <2>2 DEF h
<1>6. CASE Peek(t, u) # "RightBracket"
  <2>1. r \in ReadingsOf(t) /\ u \in ReadingsOf(t)
    BY <1>4 DEF Stands
  <2>2. Within(t, u, left)
    BY <1>4, <2>1, WithinNext
  <2>3. Outcome(t, M, p.elements[0][u], h, k)
    <3>1. ElementsRight(t, M, p, left)
          /\ "ArrayInitial" \in {"ArrayInitial", "ElementDelimiter"}
      BY DEF LoopsAgree
    <3> QED
      BY <1>1, <1>4, <1>6, <2>2, <3>1, ElementsRightAt
  <2> QED
    BY <1>3, <1>6, <2>3 DEF h
<1> QED
  BY <1>5, <1>6

(* ParseValue reads what the machine reads, if the loops do. *)
LEMMA ValueAgrees ==
  ASSUME NEW t, Len(t) \in Nat, NEW M, Runs(t, M), NEW p, NEW left \in Nat,
         LoopsAgree(t, M, p, left),
         NEW s \in Expecting, NEW k \in Stacks, NEW r, Stands(t, M, r, s, k),
         Within(t, r, left + 1), s = "ArrayInitial" => Peek(t, r) # "RightBracket"
  PROVE  Outcome(t, M, ParseValue(t, r, p), Holding(s), k)
<1>1. CASE Peek(t, r) = "LeftCurlyBracket"
  <2>1. ParseValue(t, r, p) = ParseObject(t, r, p)
    BY <1>1 DEF ParseValue, Scalars
  <2> QED
    BY <1>1, <2>1, ObjectAgrees
<1>2. CASE Peek(t, r) = "LeftBracket"
  <2>1. ParseValue(t, r, p) = ParseArray(t, r, p)
    BY <1>2 DEF ParseValue, Scalars
  <2> QED
    BY <1>2, <2>1, ArrayAgrees
<1>3. CASE Peek(t, r) \in Scalars
  <2> DEFINE x == Peek(t, r)
  <2>1. ParseValue(t, r, p) = Emit(Take(r), x, 0)
    BY <1>3 DEF ParseValue, Scalars
  <2>2. x \in Scalars /\ x \in Calls /\ 0 \in Nat /\ x # "end" /\ Peek(t, r) = x
    BY <1>3 DEF Scalars, Calls
  <2> HIDE DEF x
  <2>3. After(Cfg(s, k, r.events), x) = Cfg(Holding(s), k, Noted(r.events, x, 0))
    BY <2>2, ScalarSteps
  <2> QED
    BY <2>1, <2>2, <2>3, CallOutcome
<1>4. CASE Peek(t, r) \notin {"LeftCurlyBracket", "LeftBracket"} \cup Scalars
  <2>1. ParseValue(t, r, p) = Fail(r, "ValueInvalid")
    BY <1>4 DEF ParseValue
  <2>2. Peek(t, r) \notin {"LeftCurlyBracket", "LeftBracket", "space"} \cup Scalars
    BY <1>4 DEF Stands
  <2>3. Refuses(s, k, r.events, Peek(t, r))
    BY <2>2, InvalidSteps
  <2>4. s \in States \ {"Finish"} /\ "ValueInvalid" \in Errors \ {None}
        /\ (s # "Start" => ErrorIn(s) = "ValueInvalid")
    BY DEF States, Expecting, ErrorIn, Errors, None
  <2> QED
    BY <2>1, <2>3, <2>4, FailsHere
<1> QED
  BY <1>1, <1>2, <1>3, <1>4

(* A round of the loop of ParseObject reads what the machine reads, if the    *)
(* next rounds and the loops inside do.                                       *)
LEMMA MembersAgree ==
  ASSUME NEW t, Len(t) \in Nat, NEW M, Runs(t, M), NEW p, NEW left \in Nat,
         LoopsAgree(t, M, p, left), LoopsFurther(t, p),
         NEW n \in Nat, NEW h \in Holdings, NEW k \in Stacks,
         NEW s \in {"ObjectInitial", "MemberDelimiter"},
         NEW r, Stands(t, M, r, s, Pushed(k, h, n)), Within(t, r, left + 1),
         s = "ObjectInitial" => Peek(t, r) # "RightCurlyBracket"
  PROVE  Outcome(t, M, Members(t, r, n, p), h, k)
<1> DEFINE name == Named(t, r)
           colon == Colon(t, r)
           value == ParseValue(t, colon, p)
           after == Valued(t, r, p)
           result == Members(t, r, n, p)
           K == Pushed(k, h, n)
<1>1. 0 \in Nat /\ n + 1 \in Nat /\ "Key" \in Calls /\ "EndObject" \in Calls
      /\ "MissName" \in Errors \ {None} /\ "MissColon" \in Errors \ {None}
      /\ "MissCommaOrCurlyBracket" \in Errors \ {None}
  BY DEF Calls, Errors, None
<1>2. s \in States \ {"Finish"} /\ ErrorIn(s) = "MissName"
      /\ "MemberKey" \in States \ {"Finish"} /\ ErrorIn("MemberKey") = "MissColon"
      /\ "MemberValue" \in States \ {"Finish"}
      /\ ErrorIn("MemberValue") = "MissCommaOrCurlyBracket"
      /\ "KeyValueDelimiter" \in Expecting /\ Holding("KeyValueDelimiter") = "MemberValue"
  BY DEF States, Expecting, Holdings, ErrorIn, Holding
<1>3. K \in Stacks
  BY PushedTop
<1>4. /\ Peek(t, r) # "string" => result = Fail(r, "MissName")
      /\ Peek(t, r) = "string" /\ Peek(t, name) # "Colon" => result = Fail(name, "MissColon")
      /\ Peek(t, r) = "string" /\ Peek(t, name) = "Colon" =>
           /\ value.error # None => result = value
           /\ value.error = None =>
                /\ Peek(t, after) = "Comma" => result = p.members[n + 1][Skip(t, Take(after))]
                /\ Peek(t, after) = "RightCurlyBracket" =>
                     result = Emit(Take(after), "EndObject", n + 1)
                /\ Peek(t, after) \notin {"Comma", "RightCurlyBracket"} =>
                     result = Fail(after, "MissCommaOrCurlyBracket")
  BY DEF Members, Named, Colon, Valued
<1> HIDE DEF result
<1>5. Stands(t, M, r, s, K)
  OBVIOUS
<1> HIDE DEF K
<1>6. CASE Peek(t, r) # "string"
  <2>1. Peek(t, r) # "space"
    BY DEF Stands
  <2>2. Refuses(s, K, r.events, Peek(t, r))
    BY <1>6, <2>1, NameRefused
  <2>3. Outcome(t, M, Fail(r, "MissName"), h, k)
    BY <1>1, <1>2, <1>5, <2>2, FailsHere
  <2> QED
    BY <1>4, <1>6, <2>3 DEF result
<1>7. CASE Peek(t, r) = "string"
  <2>1. Stands(t, M, name, "MemberKey", K) /\ r.at + 1 <= name.at
    <3>1. After(Cfg(s, K, r.events), "string") = Cfg("MemberKey", K, Noted(r.events, "Key", 0))
      BY NameStep
    <3>2. "string" # "end" /\ name = Skip(t, Emit(Take(r), "Key", 0))
      BY DEF Named
    <3> HIDE DEF name
    <3> QED
      BY <1>1, <1>5, <1>7, <3>1, <3>2, CallMoves
  <2> HIDE DEF name
  <2>2. CASE Peek(t, name) # "Colon"
    <3>1. Peek(t, name) # "space"
      BY <2>1 DEF Stands
    <3>2. Refuses("MemberKey", K, name.events, Peek(t, name))
      BY <2>2, <3>1, ColonRefused
    <3>3. Outcome(t, M, Fail(name, "MissColon"), h, k)
      BY <1>1, <1>2, <2>1, <3>2, FailsHere
    <3>4. result = Fail(name, "MissColon")
      BY <1>4, <1>7, <2>2
    <3> QED
      BY <3>3, <3>4 DEF result
  <2>3. CASE Peek(t, name) = "Colon"
    <3>1. Stands(t, M, colon, "KeyValueDelimiter", K) /\ name.at + 1 <= colon.at
      <4>1. After(Cfg("MemberKey", K, name.events), "Colon") =
              Cfg("KeyValueDelimiter", K, name.events)
        BY ColonStep
      <4>2. "Colon" # "end" /\ colon = Skip(t, Take(name))
        BY DEF Colon, name
      <4> HIDE DEF colon
      <4> QED
        BY <2>1, <2>3, <4>1, <4>2, TokenMoves
    <3> HIDE DEF colon
    <3>2. r \in ReadingsOf(t) /\ name \in ReadingsOf(t) /\ colon \in ReadingsOf(t)
      BY <2>1, <3>1 DEF Stands
    <3>3. r.at \in Nat /\ name.at \in Nat /\ colon.at \in Nat
      BY <3>2, ReadingAt
    <3>4. r.at + 1 <= colon.at /\ r.at <= colon.at
      BY <2>1, <3>1, <3>3
    <3>5. Within(t, colon, left + 1)
      <4>1. left + 1 \in Nat
        OBVIOUS
      <4> QED
        BY <3>2, <3>4, <4>1, WithinNext
    <3>6. Outcome(t, M, value, "MemberValue", K)
      BY <1>2, <1>3, <3>1, <3>5, ValueAgrees
    <3>7. value \in ReadingsOf(t) /\ colon.at <= value.at
      BY <3>2, ValueFurther DEF Further
    <3> HIDE DEF value
    <3>8. after = Skip(t, value)
      BY DEF Valued, value, colon
    <3> HIDE DEF after
    <3>9. r.at + 1 <= value.at
      <4>1. value.at \in Nat
        BY <3>7, ReadingAt
      <4> QED
        BY <3>3, <3>4, <3>7, <4>1
    <3>10. /\ value.error # None => result = value
           /\ value.error = None =>
                /\ Peek(t, after) = "Comma" => result = p.members[n + 1][Skip(t, Take(after))]
                /\ Peek(t, after) = "RightCurlyBracket" =>
                     result = Emit(Take(after), "EndObject", n + 1)
                /\ Peek(t, after) \notin {"Comma", "RightCurlyBracket"} =>
                     result = Fail(after, "MissCommaOrCurlyBracket")
      BY <1>4, <1>7, <2>3
    <3>11. CASE value.error # None
      <4>1. Outcome(t, M, value, h, k)
        BY <3>6, <3>11 DEF Outcome
      <4> QED
        BY <3>10, <3>11, <4>1 DEF result
    <3>12. CASE value.error = None
      <4>1. Stands(t, M, after, "MemberValue", K) /\ value.at <= after.at
        <5>1. M[value.at] = Cfg("MemberValue", K, value.events)
          BY <3>6, <3>12 DEF Outcome
        <5> QED
          BY <3>12, <3>7, <3>8, <5>1, StandsSkips
      <4>2. CASE Peek(t, after) = "Comma"
        <5> DEFINE next == Skip(t, Take(after))
        <5>1. After(Cfg("MemberValue", K, after.events), "Comma") =
                Cfg("MemberDelimiter", Pushed(k, h, n + 1), after.events)
          BY MemberCommaStep DEF K
        <5>2. "Comma" # "end" /\ next = Skip(t, Take(after))
          OBVIOUS
        <5>3. result = p.members[n + 1][next]
          BY <3>10, <3>12, <4>2
        <5> HIDE DEF next
        <5>4. Stands(t, M, next, "MemberDelimiter", Pushed(k, h, n + 1))
              /\ after.at + 1 <= next.at
          BY <4>1, <4>2, <5>1, <5>2, TokenMoves
        <5>5. Within(t, next, left)
          <6>1. next \in ReadingsOf(t) /\ after \in ReadingsOf(t) /\ value \in ReadingsOf(t)
                /\ r \in ReadingsOf(t)
            BY <4>1, <5>4, <3>7, <3>8 DEF Stands
          <6>2. r.at \in Nat /\ value.at \in Nat /\ after.at \in Nat /\ next.at \in Nat
            BY <6>1, ReadingAt
          <6>3. r.at + 1 <= next.at
            BY <4>1, <5>4, <3>9, <6>2
          <6> QED
            BY <6>1, <6>3, WithinNext
        <5>6. Outcome(t, M, p.members[n + 1][next], h, k)
          <6>1. MembersRight(t, M, p, left)
                /\ "MemberDelimiter" \in {"ObjectInitial", "MemberDelimiter"}
            BY DEF LoopsAgree
          <6> QED
            BY <1>1, <5>4, <5>5, <6>1, MembersRightAt
        <5> QED
          BY <5>3, <5>6 DEF result
      <4>3. CASE Peek(t, after) = "RightCurlyBracket"
        <5>1. After(Cfg("MemberValue", K, after.events), "RightCurlyBracket") =
                Cfg(h, k, Noted(after.events, "EndObject", n + 1))
          BY MemberEndStep DEF K
        <5>2. "RightCurlyBracket" # "end" /\ result = Emit(Take(after), "EndObject", n + 1)
          BY <3>10, <3>12, <4>3
        <5>3. Outcome(t, M, Emit(Take(after), "EndObject", n + 1), h, k)
          BY <1>1, <4>1, <4>3, <5>1, <5>2, CallOutcome
        <5> QED
          BY <5>2, <5>3 DEF result
      <4>4. CASE Peek(t, after) \notin {"Comma", "RightCurlyBracket"}
        <5>1. Peek(t, after) \notin {"Comma", "RightCurlyBracket", "space"}
          BY <4>1, <4>4 DEF Stands
        <5>2. Refuses("MemberValue", K, after.events, Peek(t, after))
          BY <5>1, MemberRefused DEF K
        <5>3. Outcome(t, M, Fail(after, "MissCommaOrCurlyBracket"), h, k)
          BY <1>1, <1>2, <4>1, <5>2, FailsHere
        <5>4. result = Fail(after, "MissCommaOrCurlyBracket")
          BY <3>10, <3>12, <4>4
        <5> QED
          BY <5>3, <5>4 DEF result
      <4> QED
        BY <4>2, <4>3, <4>4
    <3> QED
      BY <3>11, <3>12
  <2> QED
    BY <2>2, <2>3
<1> QED
  BY <1>6, <1>7

(* A round of the loop of ParseArray reads what the machine reads, if the     *)
(* next rounds and the loops inside do.                                       *)
LEMMA ElementsAgree ==
  ASSUME NEW t, Len(t) \in Nat, NEW M, Runs(t, M), NEW p, NEW left \in Nat,
         LoopsAgree(t, M, p, left), LoopsFurther(t, p),
         NEW n \in Nat, NEW h \in Holdings, NEW k \in Stacks,
         NEW s \in {"ArrayInitial", "ElementDelimiter"},
         NEW r, Stands(t, M, r, s, Pushed(k, h, n)), Within(t, r, left + 1),
         s = "ArrayInitial" => Peek(t, r) # "RightBracket"
  PROVE  Outcome(t, M, Elements(t, r, n, p), h, k)
<1> DEFINE value == ParseValue(t, r, p)
           after == Skip(t, value)
           result == Elements(t, r, n, p)
           K == Pushed(k, h, n)
<1>1. n + 1 \in Nat /\ "EndArray" \in Calls /\ "MissCommaOrSquareBracket" \in Errors \ {None}
  BY DEF Calls, Errors, None
<1>2. "Element" \in States \ {"Finish"} /\ ErrorIn("Element") = "MissCommaOrSquareBracket"
      /\ s \in Expecting /\ Holding(s) = "Element"
  BY DEF States, Expecting, Holdings, ErrorIn, Holding
<1>3. K \in Stacks
  BY PushedTop
<1>4. /\ value.error # None => result = value
      /\ value.error = None =>
           /\ Peek(t, after) = "Comma" => result = p.elements[n + 1][Skip(t, Take(after))]
           /\ Peek(t, after) = "RightBracket" => result = Emit(Take(after), "EndArray", n + 1)
           /\ Peek(t, after) \notin {"Comma", "RightBracket"} =>
                result = Fail(after, "MissCommaOrSquareBracket")
  BY ElementsCases, ZenonT(40)
<1>5. Stands(t, M, r, s, K) /\ r \in ReadingsOf(t)
  BY DEF Stands
<1> HIDE DEF result, K
<1>6. Outcome(t, M, value, "Element", K)
  BY <1>2, <1>3, <1>5, ValueAgrees
<1>7. value \in ReadingsOf(t) /\ r.at <= value.at
  BY <1>5, ValueFurther DEF Further
<1> HIDE DEF value
<1>8. after = Skip(t, value)
  OBVIOUS
<1> HIDE DEF after
<1>11. CASE value.error # None
  <2>1. Outcome(t, M, value, h, k)
    BY <1>6, <1>11 DEF Outcome
  <2> QED
    BY <1>4, <1>11, <2>1 DEF result
<1>12. CASE value.error = None
  <2>1. Stands(t, M, after, "Element", K) /\ value.at <= after.at
    <3>1. M[value.at] = Cfg("Element", K, value.events)
      BY <1>6, <1>12 DEF Outcome
    <3> QED
      BY <1>12, <1>5, <1>7, <1>8, <3>1, StandsSkips
  <2>2. CASE Peek(t, after) = "Comma"
    <3> DEFINE next == Skip(t, Take(after))
    <3>1. After(Cfg("Element", K, after.events), "Comma") =
            Cfg("ElementDelimiter", Pushed(k, h, n + 1), after.events)
      BY ElementCommaStep DEF K
    <3>2. "Comma" # "end" /\ next = Skip(t, Take(after))
      OBVIOUS
    <3>3. result = p.elements[n + 1][next]
      BY <1>4, <1>12, <2>2
    <3> HIDE DEF next
    <3>4. Stands(t, M, next, "ElementDelimiter", Pushed(k, h, n + 1)) /\ after.at + 1 <= next.at
      BY <2>1, <2>2, <3>1, <3>2, TokenMoves
    <3>5. Within(t, next, left)
      <4>1. next \in ReadingsOf(t) /\ after \in ReadingsOf(t) /\ value \in ReadingsOf(t)
            /\ r \in ReadingsOf(t)
        BY <2>1, <3>4, <1>5, <1>7, <1>8 DEF Stands
      <4>2. r.at \in Nat /\ value.at \in Nat /\ after.at \in Nat /\ next.at \in Nat
        BY <4>1, ReadingAt
      <4>3. r.at + 1 <= next.at
        BY <2>1, <3>4, <1>7, <4>2
      <4> QED
        BY <4>1, <4>3, WithinNext
    <3>6. Outcome(t, M, p.elements[n + 1][next], h, k)
      <4>1. ElementsRight(t, M, p, left)
            /\ "ElementDelimiter" \in {"ArrayInitial", "ElementDelimiter"}
        BY DEF LoopsAgree
      <4> QED
        BY <1>1, <3>4, <3>5, <4>1, ElementsRightAt
    <3> QED
      BY <3>3, <3>6 DEF result
  <2>3. CASE Peek(t, after) = "RightBracket"
    <3>1. After(Cfg("Element", K, after.events), "RightBracket") =
            Cfg(h, k, Noted(after.events, "EndArray", n + 1))
      BY ElementEndStep DEF K
    <3>2. "RightBracket" # "end" /\ result = Emit(Take(after), "EndArray", n + 1)
      BY <1>4, <1>12, <2>3
    <3>3. Outcome(t, M, Emit(Take(after), "EndArray", n + 1), h, k)
      BY <1>1, <2>1, <2>3, <3>1, <3>2, CallOutcome
    <3> QED
      BY <3>2, <3>3 DEF result
  <2>4. CASE Peek(t, after) \notin {"Comma", "RightBracket"}
    <3>1. Peek(t, after) \notin {"Comma", "RightBracket", "space"}
      BY <2>1, <2>4 DEF Stands
    <3>2. Refuses("Element", K, after.events, Peek(t, after))
      BY <3>1, ElementRefused DEF K
    <3>3. Outcome(t, M, Fail(after, "MissCommaOrSquareBracket"), h, k)
      BY <1>1, <1>2, <2>1, <3>2, FailsHere
    <3>4. result = Fail(after, "MissCommaOrSquareBracket")
      BY <1>4, <1>12, <2>4
    <3> QED
      BY <3>3, <3>4 DEF result
  <2> QED
    BY <2>2, <2>3, <2>4
<1> QED
  BY <1>11, <1>12

-------------------------------------------------------------------------------
(* What the whole text is read as                                             *)

(* At the end no token is left. *)
LEMMA AtEnd ==
  ASSUME NEW t, Len(t) \in Nat, NEW M, Runs(t, M), NEW r \in ReadingsOf(t), Peek(t, r) = "end"
  PROVE  r.at = Len(t) + 1
<1> SUFFICES ASSUME r.at # Len(t) + 1 PROVE FALSE
  OBVIOUS
<1>1. r.at \in 1 .. Len(t)
  BY ReadingAt
<1>2. Peek(t, r) = t[r.at]
  BY <1>1 DEF Peek
<1> QED
  BY <1>1, <1>2 DEF Runs

(* Where no token is left the end has been reached. *)
LEMMA NothingLeft ==
  ASSUME NEW t, Len(t) \in Nat, NEW r \in ReadingsOf(t), Within(t, r, 0)
  PROVE  Peek(t, r) = "end"
<1>1. r.at \in Nat /\ ~(r.at <= Len(t))
  BY ReadingAt DEF Within
<1> QED
  BY <1>1 DEF Peek

(* The loops read what the machine reads, with any number of tokens left. *)
LEMMA AllLoopsAgree ==
  ASSUME NEW t, Len(t) \in Nat, NEW M, Runs(t, M)
  PROVE  \A left \in 0 .. Len(t) : LoopsAgree(t, M, Loops(t)[left], left)
<1> DEFINE Right(left) == LoopsAgree(t, M, Loops(t)[left], left)
           S == {left \in Nat : left <= Len(t) => Right(left)}
<1>1. 0 \in S
  <2> DEFINE p == Loops(t)[0]
  <2>1. ASSUME NEW r \in ReadingsOf(t), NEW n \in Nat
        PROVE  p.members[n][r] = Fail(r, "MissName")
        /\ p.elements[n][r] = Fail(r, "ValueInvalid")
    <3>1. r \in Readings /\ 0 \in 0 .. Len(t)
      BY DEF ReadingsOf
    <3> QED
      BY <3>1, LoopsStep
  <2> HIDE DEF p
  <2>2. {"MissName", "ValueInvalid"} \subseteq Errors \ {None}
    BY DEF Errors, None
  <2>3. ASSUME NEW r \in ReadingsOf(t), NEW n \in Nat, NEW h \in Holdings, NEW k \in Stacks,
               NEW s \in {"ObjectInitial", "MemberDelimiter"},
               Stands(t, M, r, s, Pushed(k, h, n)), Within(t, r, 0)
        PROVE  Outcome(t, M, p.members[n][r], h, k)
    <3>1. s \in States \ {"Finish"} /\ ErrorIn(s) = "MissName"
      BY DEF States, ErrorIn
    <3>2. Peek(t, r) = "end"
      BY <2>3, NothingLeft
    <3>3. Outcome(t, M, Fail(r, "MissName"), h, k)
      BY <2>2, <2>3, <3>1, <3>2, FailsHere
    <3> QED
      BY <2>1, <3>3
  <2>4. ASSUME NEW r \in ReadingsOf(t), NEW n \in Nat, NEW h \in Holdings, NEW k \in Stacks,
               NEW s \in {"ArrayInitial", "ElementDelimiter"},
               Stands(t, M, r, s, Pushed(k, h, n)), Within(t, r, 0)
        PROVE  Outcome(t, M, p.elements[n][r], h, k)
    <3>1. s \in States \ {"Finish"} /\ ErrorIn(s) = "ValueInvalid"
      BY DEF States, ErrorIn, Expecting
    <3>2. Peek(t, r) = "end"
      BY <2>4, NothingLeft
    <3>3. Outcome(t, M, Fail(r, "ValueInvalid"), h, k)
      BY <2>2, <2>4, <3>1, <3>2, FailsHere
    <3> QED
      BY <2>1, <3>3
  <2>5. LoopsAgree(t, M, p, 0)
    BY <2>3, <2>4 DEF LoopsAgree, MembersRight, ElementsRight
  <2> QED
    BY <2>5 DEF p
<1>2. ASSUME NEW left \in S PROVE left + 1 \in S
  <2> SUFFICES ASSUME left + 1 <= Len(t) PROVE Right(left + 1)
    OBVIOUS
  <2>1. left \in Nat /\ left \in 0 .. Len(t) /\ left + 1 \in 0 .. Len(t) /\ left + 1 # 0
        /\ (left + 1) - 1 = left
    OBVIOUS
  <2> DEFINE p == Loops(t)[left]
             q == Loops(t)[left + 1]
  <2>2. LoopsAgree(t, M, p, left) /\ LoopsFurther(t, p)
    BY <2>1, AllLoopsFurther
  <2>3. ASSUME NEW r \in ReadingsOf(t), NEW n \in Nat
        PROVE  q.members[n][r] = Members(t, r, n, p) /\ q.elements[n][r] = Elements(t, r, n, p)
    <3>1. r \in Readings
      BY DEF ReadingsOf
    <3> QED
      BY <2>1, <3>1, LoopsStep
  <2> HIDE DEF p, q
  <2>4. ASSUME NEW r \in ReadingsOf(t), NEW n \in Nat, NEW h \in Holdings, NEW k \in Stacks,
               NEW s \in {"ObjectInitial", "MemberDelimiter"},
               Stands(t, M, r, s, Pushed(k, h, n)), Within(t, r, left + 1),
               s = "ObjectInitial" => Peek(t, r) # "RightCurlyBracket"
        PROVE  Outcome(t, M, q.members[n][r], h, k)
    <3>1. Outcome(t, M, Members(t, r, n, p), h, k)
      BY <2>1, <2>2, <2>4, MembersAgree
    <3> QED
      BY <2>3, <3>1
  <2>5. ASSUME NEW r \in ReadingsOf(t), NEW n \in Nat, NEW h \in Holdings, NEW k \in Stacks,
               NEW s \in {"ArrayInitial", "ElementDelimiter"},
               Stands(t, M, r, s, Pushed(k, h, n)), Within(t, r, left + 1),
               s = "ArrayInitial" => Peek(t, r) # "RightBracket"
        PROVE  Outcome(t, M, q.elements[n][r], h, k)
    <3>1. Outcome(t, M, Elements(t, r, n, p), h, k)
      BY <2>1, <2>2, <2>5, ElementsAgree
    <3> QED
      BY <2>3, <3>1
  <2>6. MembersRight(t, M, q, left + 1)
    BY <2>4 DEF MembersRight
  <2>7. ElementsRight(t, M, q, left + 1)
    BY <2>5 DEF ElementsRight
  <2> QED
    BY <2>6, <2>7 DEF LoopsAgree, q
<1>3. S \in SUBSET Nat
  OBVIOUS
<1>4. S = Nat
  <2> HIDE DEF S
  <2> QED
    BY <1>1, <1>2, <1>3, Induction
<1> QED
  BY <1>4

(* Parse reads what the machine reads. *)
LEMMA ParseAgrees ==
  ASSUME NEW t, Len(t) \in Nat, NEW M, Runs(t, M)
  PROVE  /\ (Parse(t).error = None) = (Verd(M[Len(t) + 1]) = None)
         /\ Parse(t).events = M[Len(t) + 1].events
         /\ M[Len(t) + 1].state # "Start" => Parse(t).error = Verd(M[Len(t) + 1])
<1> DEFINE c == M[Len(t) + 1]
           start == Skip(t, [at |-> 1, error |-> None, events |-> <<>>])
           p == Loops(t)[Len(t)]
           value == ParseValue(t, start, p)
           after == Skip(t, value)
           result == Parse(t)
           Right(v) == /\ (v.error = None) = (Verd(c) = None)
                       /\ v.events = c.events
                       /\ c.state # "Start" => v.error = Verd(c)
<1>1. /\ Peek(t, start) = "end" => result = Fail(start, "DocumentEmpty")
      /\ Peek(t, start) # "end" =>
           /\ value.error = None /\ Peek(t, after) # "end" =>
                result = Fail(value, "RootNotSingular")
           /\ ~(value.error = None /\ Peek(t, after) # "end") => result = value
  BY DEF Parse
<1> HIDE DEF result
<1>2. Stands(t, M, start, "Start", <<>>)
  <2> DEFINE first == [at |-> 1, error |-> None, events |-> <<>>]
  <2>1. first \in ReadingsOf(t)
    <3>1. first \in Readings
      BY EmptySeq DEF Readings, Errors, None
    <3> QED
      BY <3>1 DEF ReadingsOf
  <2>2. first.at = 1 /\ first.error = None /\ first.events = <<>> /\ start = Skip(t, first)
    OBVIOUS
  <2> HIDE DEF first, start
  <2>3. M[first.at] = Cfg("Start", <<>>, first.events)
    BY <2>2 DEF Runs
  <2> QED
    BY <2>1, <2>2, <2>3, StandsSkips
<1>3. <<>> \in Stacks /\ "Start" \in Expecting /\ Holding("Start") = "Finish"
      /\ "Start" \in States /\ "Finish" \in States /\ ErrorIn("Finish") = "RootNotSingular"
      /\ {"DocumentEmpty", "RootNotSingular"} \subseteq Errors \ {None}
  BY EmptySeq DEF Stacks, Expecting, Holding, States, Holdings, ErrorIn, Errors, None
<1> HIDE DEF start
<1>4. ASSUME NEW v, v.error # None, Failed(t, M, v.events, v.error) PROVE Right(v)
  BY <1>4 DEF Failed
<1>5. start \in ReadingsOf(t)
  BY <1>2 DEF Stands
<1>6. CASE Peek(t, start) = "end"
  <2>1. Outcome(t, M, Fail(start, "DocumentEmpty"), "Finish", <<>>)
    BY <1>2, <1>3, <1>6, FailsHere
  <2>2. start \in Readings
    BY <1>5 DEF ReadingsOf
  <2>3. Fail(start, "DocumentEmpty").error # None
    BY <1>3, <2>2, FailMade
  <2> DEFINE v == Fail(start, "DocumentEmpty")
  <2> HIDE DEF v, Right
  <2>4. Right(v)
    BY <1>4, <2>1, <2>3 DEF Outcome, v
  <2> QED
    BY <1>1, <1>6, <2>4 DEF v, Right, result
<1>7. CASE Peek(t, start) # "end"
  <2>1. LoopsAgree(t, M, p, Len(t)) /\ LoopsFurther(t, p)
    BY AllLoopsAgree, AllLoopsFurther
  <2> HIDE DEF p
  <2>2. Within(t, start, Len(t) + 1)
    BY <1>5, ReadingAt DEF Within
  <2>3. Outcome(t, M, value, "Finish", <<>>)
    BY <1>2, <1>3, <2>1, <2>2, ValueAgrees
  <2>4. value \in ReadingsOf(t)
    BY <1>5, <2>1, ValueFurther DEF Further
  <2> HIDE DEF value
  <2>5. CASE value.error # None
    <3>1. Failed(t, M, value.events, value.error)
      BY <2>3, <2>5 DEF Outcome
    <3> HIDE DEF Right
    <3>2. Right(value)
      BY <1>4, <2>5, <3>1
    <3> QED
      BY <1>1, <1>7, <2>5, <3>2 DEF Right, result
  <2>6. CASE value.error = None
    <3>1. Stands(t, M, after, "Finish", <<>>)
      <4>1. M[value.at] = Cfg("Finish", <<>>, value.events)
        BY <2>3, <2>6 DEF Outcome
      <4> QED
        BY <2>4, <2>6, <4>1, StandsSkips
    <3>2. after \in ReadingsOf(t) /\ after.events = value.events
      BY <2>4, SkipMade
    <3> HIDE DEF after
    <3>3. M[after.at] = Cfg("Finish", <<>>, value.events)
      BY <3>1, <3>2 DEF Stands
    <3>4. CASE Peek(t, after) = "end"
      <4>1. c = Cfg("Finish", <<>>, value.events)
        BY <3>2, <3>3, <3>4, AtEnd
      <4>2. c.state = "Finish" /\ c.error = None /\ c.events = value.events
        BY <4>1, CfgFields
      <4> HIDE DEF c
      <4>3. Verd(c) = None
        BY <4>2 DEF Verd
      <4> QED
        BY <1>1, <1>7, <2>6, <3>4, <4>2, <4>3 DEF c, result
    <3>5. CASE Peek(t, after) # "end"
      <4>1. Peek(t, after) # "space"
        BY <3>1 DEF Stands
      <4>2. Refuses("Finish", <<>>, after.events, Peek(t, after))
        BY <4>1, FinishSteps
      <4>3. Failed(t, M, after.events, "RootNotSingular")
        BY <1>3, <3>2, <3>3, <3>5, <4>2, Fails
      <4> DEFINE v == Fail(value, "RootNotSingular")
      <4>4. v.error = "RootNotSingular" /\ v.events = value.events
        <5>1. value \in Readings
          BY <2>4 DEF ReadingsOf
        <5> QED
          BY <1>3, <5>1, FailMade
      <4>5. result = v
        BY <1>1, <1>7, <2>6, <3>5
      <4> HIDE DEF v, Right
      <4>6. Right(v)
        BY <1>3, <1>4, <3>2, <4>3, <4>4
      <4> QED
        BY <4>5, <4>6 DEF Right, result
    <3> QED
      BY <3>4, <3>5
  <2> QED
    BY <2>5, <2>6
<1> QED
  BY <1>6, <1>7

-------------------------------------------------------------------------------
(* The parsers agree                                                          *)

(* The text read so far and a history of the machine that ends in its state. *)
Traced ==
  /\ text \in Seq(Tokens)
  /\ \E M : Runs(text, M) /\ M[Len(text) + 1] = Machine(state, stack, error, events)

(* A round of IterativeParse is the function AfterToken. *)
LEMMA TransitIsAfter ==
  ASSUME NEW t, t # "space", error = None, Transit(t, Predict(state, t))
  PROVE  Machine(state', stack', error', events') = After(Machine(state, stack, error, events), t)
<1> DEFINE c == Machine(state, stack, error, events)
           d == Predict(state, t)
           next == Machine(state', stack', error', events')
<1>1. c.state = state /\ c.stack = stack /\ c.error = None /\ c.events = events
  BY MachineFields
<1>2. After(c, t) = AfterToken(c, t)
  BY <1>1 DEF After
<1>3. d = Predict(c.state, t)
  BY <1>1
<1>4. Transit(t, d)
  OBVIOUS
<1> HIDE DEF c, d
<1>5. ASSUME d = "Error" /\ Refuse(ErrorIn(state)) PROVE next = After(c, t)
  <2>1. AfterToken(c, t) = Refusing(c, ErrorIn(state))
    BY <1>1, <1>3, <1>5 DEF AfterToken
  <2> QED
    BY <1>1, <1>2, <1>5, <2>1 DEF Refuse, Refusing
<1>6. ASSUME d = "ObjectInitial" /\ Open(d, "StartObject") PROVE next = After(c, t)
  <2>1. AfterToken(c, t) = Opening(c, d, "StartObject")
    BY <1>1, <1>3, <1>6 DEF AfterToken
  <2> QED
    BY <1>1, <1>2, <1>6, <2>1 DEF Open, Opening, Goto, Call, Cfg, Pushed, Noted, Frame
<1>7. ASSUME d = "ArrayInitial" /\ Open(d, "StartArray") PROVE next = After(c, t)
  <2>1. AfterToken(c, t) = Opening(c, d, "StartArray")
    BY <1>1, <1>3, <1>7 DEF AfterToken
  <2> QED
    BY <1>1, <1>2, <1>7, <2>1 DEF Open, Opening, Goto, Call, Cfg, Pushed, Noted, Frame
<1>8. ASSUME d = "MemberKey" /\ Goto(d) /\ Call("Key", 0) /\ UNCHANGED stack
      PROVE  next = After(c, t)
  <2>1. AfterToken(c, t) = Cfg(d, stack, Noted(events, "Key", 0))
    BY <1>1, <1>3, <1>8 DEF AfterToken
  <2> QED
    BY <1>1, <1>2, <1>8, <2>1 DEF Goto, Call, Cfg, Noted
<1>9. ASSUME d = "KeyValueDelimiter" /\ Goto(d) /\ UNCHANGED <<stack, events>>
      PROVE  next = After(c, t)
  <2>1. AfterToken(c, t) = Cfg(d, stack, events)
    BY <1>1, <1>3, <1>9 DEF AfterToken
  <2> QED
    BY <1>1, <1>2, <1>9, <2>1 DEF Goto, Cfg
<1>10. ASSUME d \in {"MemberDelimiter", "ElementDelimiter"} /\ Delimit(d)
       PROVE  next = After(c, t)
  <2>1. AfterToken(c, t) = Cfg(d, [stack EXCEPT ![Len(stack)].n = @ + 1], events)
    BY <1>1, <1>3, <1>10 DEF AfterToken
  <2> QED
    BY <1>1, <1>2, <1>10, <2>1 DEF Delimit, Goto, Cfg
<1>11. ASSUME d = "ObjectFinish" /\ Close("EndObject", "MemberDelimiter", "MemberValue")
       PROVE  next = After(c, t)
  <2>1. AfterToken(c, t) = Closing(c, "EndObject", "MemberDelimiter", "MemberValue")
    BY <1>1, <1>3, <1>11 DEF AfterToken
  <2> QED
    BY <1>1, <1>2, <1>11, <2>1 DEF Close, Closing, Refuse, Refusing, Goto, Call, Cfg, Noted
<1>12. ASSUME d = "ArrayFinish" /\ Close("EndArray", "ElementDelimiter", "Element")
       PROVE  next = After(c, t)
  <2>1. AfterToken(c, t) = Closing(c, "EndArray", "ElementDelimiter", "Element")
    BY <1>1, <1>3, <1>12 DEF AfterToken
  <2> QED
    BY <1>1, <1>2, <1>12, <2>1 DEF Close, Closing, Refuse, Refusing, Goto, Call, Cfg, Noted
<1>13. ASSUME d \in {"MemberValue", "Element", "Finish"} /\ Hold(d, t) PROVE next = After(c, t)
  <2>1. AfterToken(c, t) = IF t = "word" THEN Refusing(c, "ValueInvalid")
                           ELSE Cfg(d, stack, Noted(events, t, 0))
    BY <1>1, <1>3, <1>13 DEF AfterToken
  <2> QED
    BY <1>1, <1>2, <1>13, <2>1 DEF Hold, Refuse, Refusing, Goto, Call, Cfg, Noted
<1>14. next = After(c, t)
  BY <1>4, <1>5, <1>6, <1>7, <1>8, <1>9, <1>10, <1>11, <1>12, <1>13 DEF Transit
<1> QED
  BY <1>14 DEF c

(* ReadToken is the function After. *)
LEMMA ReadIsAfter ==
  ASSUME ReadToken
  PROVE  \E t \in Tokens :
           /\ text' = Append(text, t)
           /\ Machine(state, stack, error, events)' = After(Machine(state, stack, error, events), t)
<1>1. PICK t \in Tokens :
        /\ text' = Append(text, t)
        /\ IF t = "space" THEN UNCHANGED <<state, stack, error, events>>
           ELSE Transit(t, Predict(state, t))
  BY DEF ReadToken
<1>2. error = None
  BY DEF ReadToken
<1>3. CASE t = "space"
  BY <1>1, <1>3 DEF After, Machine
<1>4. CASE t # "space"
  BY <1>1, <1>2, <1>4, TransitIsAfter DEF Machine
<1> QED
  BY <1>1, <1>3, <1>4

(* Nothing has been read. *)
LEMMA TracedInit == JsonInit => Traced
<1> SUFFICES ASSUME JsonInit PROVE Traced
  OBVIOUS
<1> DEFINE M == [i \in {1} |-> Cfg("Start", <<>>, <<>>)]
<1>1. text = <<>> /\ text \in Seq(Tokens) /\ Len(text) = 0
  BY EmptySeq DEF JsonInit
<1>2. Machine(state, stack, error, events) = Cfg("Start", <<>>, <<>>)
  BY DEF JsonInit, Cfg
<1>3. M[1] = Cfg("Start", <<>>, <<>>)
  OBVIOUS
<1> HIDE DEF M
<1>4. Runs(text, M)
  BY <1>1, <1>3 DEF Runs
<1>5. M[Len(text) + 1] = Machine(state, stack, error, events)
  BY <1>1, <1>2, <1>3
<1> QED
  BY <1>1, <1>4, <1>5 DEF Traced

(* ReadToken makes the history longer. *)
LEMMA TracedStep == Traced /\ [ReadToken]_jsonVars => Traced'
<1> SUFFICES ASSUME Traced, [ReadToken]_jsonVars PROVE Traced'
  OBVIOUS
<1>1. CASE ReadToken
  <2>1. PICK t \in Tokens :
          /\ text' = Append(text, t)
          /\ Machine(state, stack, error, events)' = After(Machine(state, stack, error, events), t)
    BY <1>1, ReadIsAfter
  <2>2. PICK M : Runs(text, M) /\ M[Len(text) + 1] = Machine(state, stack, error, events)
    BY DEF Traced
  <2> DEFINE n == Len(text)
             c == Machine(state, stack, error, events)
             m == [i \in 1 .. n + 2 |-> IF i <= n + 1 THEN M[i] ELSE After(c, t)]
  <2>3. n \in Nat /\ text' \in Seq(Tokens) /\ Len(text') = n + 1 /\ text'[n + 1] = t
        /\ \A i \in 1 .. n : text'[i] = text[i]
    BY <2>1, AppendProperties, LenProperties DEF Traced
  <2> HIDE DEF n, c
  <2>4. (\A i \in 1 .. n + 1 : m[i] = M[i]) /\ m[n + 2] = After(c, t) /\ M[n + 1] = c
    BY <2>2, <2>3 DEF n, c
  <2> HIDE DEF m
  <2>5. m[1] = Cfg("Start", <<>>, <<>>)
    <3>1. 1 \in 1 .. n + 1
      BY <2>3
    <3> QED
      BY <2>2, <2>4, <3>1 DEF Runs
  <2>6. ASSUME NEW i \in 1 .. n + 1
        PROVE  text'[i] # "end" /\ m[i + 1] = After(m[i], text'[i])
    <3>1. CASE i \in 1 .. n
      <4>1. i \in 1 .. n + 1 /\ i + 1 \in 1 .. n + 1
        BY <2>3, <3>1
      <4>2. text[i] # "end" /\ M[i + 1] = After(M[i], text[i])
        BY <2>2, <3>1 DEF Runs, n
      <4> QED
        BY <2>3, <2>4, <3>1, <4>1, <4>2
    <3>2. CASE i = n + 1
      <4>1. t # "end"
        BY JsonAssumption
      <4>2. (n + 1) + 1 = n + 2 /\ n + 1 \in 1 .. n + 1
        BY <2>3
      <4> QED
        BY <2>3, <2>4, <3>2, <4>1, <4>2
    <3> QED
      BY <2>3, <3>1, <3>2
  <2>7. Runs(text', m)
    BY <2>3, <2>5, <2>6 DEF Runs
  <2>8. m[Len(text') + 1] = c'
    <3>1. (n + 1) + 1 = n + 2
      BY <2>3
    <3>2. c' = After(c, t)
      BY <2>1 DEF c
    <3> QED
      BY <2>3, <2>4, <3>1, <3>2
  <2> QED
    BY <2>3, <2>7, <2>8 DEF Traced, c
<1>2. CASE UNCHANGED jsonVars
  BY <1>2 DEF Traced, jsonVars, Machine
<1> QED
  BY <1>1, <1>2

(* The history says what Parse does. *)
LEMMA TracedAgrees == Traced => ParsersAgree
<1> SUFFICES ASSUME Traced PROVE ParsersAgree
  OBVIOUS
<1>1. PICK M : Runs(text, M) /\ M[Len(text) + 1] = Machine(state, stack, error, events)
  BY DEF Traced
<1> DEFINE c == M[Len(text) + 1]
<1>2. Len(text) \in Nat
  BY LenProperties DEF Traced
<1>3. c.state = state /\ c.error = error /\ c.events = events
  BY <1>1, MachineFields
<1>4. /\ (Parse(text).error = None) = (Verd(c) = None)
      /\ Parse(text).events = c.events
      /\ c.state # "Start" => Parse(text).error = Verd(c)
  BY <1>1, <1>2, ParseAgrees
<1> HIDE DEF c
<1>5. Verd(c) = Verdict
  BY <1>3 DEF Verd, Verdict
<1> QED
  BY <1>3, <1>4, <1>5 DEF ParsersAgree

(* For every text, of any length and nested to any depth, the recursive       *)
(* parser that Parse runs and IterativeParse accept the same, make the same   *)
(* calls with the same counts up to the first error, and name the same error. *)
THEOREM ParsersAlwaysAgree == JsonInit /\ [][ReadToken]_jsonVars => []ParsersAgree
<1>1. JsonInit => Traced
  BY TracedInit
<1>2. Traced /\ [ReadToken]_jsonVars => Traced'
  BY TracedStep
<1>3. Traced => ParsersAgree
  BY TracedAgrees
<1> QED
  BY <1>1, <1>2, <1>3, PTL

-------------------------------------------------------------------------------
(* Documents one event longer, and deeper ones                                *)

(* One more event built. *)
LEMMA BuildSnoc ==
  ASSUME NEW E, NEW s \in Seq(E), NEW x \in E
  PROVE  FoldLeft(Build, <<>>, Append(s, x)) = Build(FoldLeft(Build, <<>>, s), x)
<1> DEFINE N == Len(s)
           u == Append(s, x)
<1>1. /\ N \in Nat /\ N + 1 \in Nat /\ DOMAIN s = 1 .. N
      /\ u \in Seq(E) /\ Len(u) = N + 1 /\ u[N + 1] = x /\ \A i \in 1 .. N : u[i] = s[i]
  BY LenProperties, AppendProperties
<1> HIDE DEF u
<1>2. DOMAIN u = 1 .. N + 1
  BY <1>1, LenProperties
<1>3. PICK f : /\ f = [i \in 0 .. N |-> BuildAt(s, i, f[i - 1])]
               /\ FoldLeft(Build, <<>>, s) = f[N]
  BY <1>1, BuildFold
<1>4. PICK g : /\ g = [i \in 0 .. N + 1 |-> BuildAt(u, i, g[i - 1])]
               /\ FoldLeft(Build, <<>>, u) = g[N + 1]
  BY <1>1, <1>2, BuildFold
<1> HIDE DEF N
<1>5. \A i \in 0 .. N : f[i] = BuildAt(s, i, f[i - 1])
  BY <1>3, Zenon
<1>6. \A i \in 0 .. N + 1 : g[i] = BuildAt(u, i, g[i - 1])
  BY <1>4, Zenon
<1> DEFINE S == {j \in Nat : j <= N => f[j] = g[j]}
<1>7. 0 \in S
  <2>1. 0 \in 0 .. N /\ 0 \in 0 .. N + 1
    BY <1>1
  <2>2. f[0] = BuildAt(s, 0, f[0 - 1]) /\ g[0] = BuildAt(u, 0, g[0 - 1])
    BY <1>5, <1>6, <2>1, Zenon
  <2> QED
    BY <2>2 DEF BuildAt
<1>8. ASSUME NEW j \in S PROVE j + 1 \in S
  <2> SUFFICES ASSUME j + 1 <= N PROVE f[j + 1] = g[j + 1]
    OBVIOUS
  <2>1. /\ j + 1 \in 0 .. N /\ j + 1 \in 0 .. N + 1 /\ j + 1 \in 1 .. N /\ j + 1 # 0
        /\ (j + 1) - 1 = j /\ f[j] = g[j]
    BY <1>1
  <2>2. u[j + 1] = s[j + 1]
    BY <1>1, <2>1, Zenon
  <2>3. f[j + 1] = Build(f[j], s[j + 1])
    <3>1. f[j + 1] = BuildAt(s, j + 1, f[(j + 1) - 1])
      BY <1>5, <2>1, Zenon
    <3> QED
      BY <2>1, <3>1, Zenon DEF BuildAt
  <2>4. g[j + 1] = Build(g[j], u[j + 1])
    <3>1. g[j + 1] = BuildAt(u, j + 1, g[(j + 1) - 1])
      BY <1>6, <2>1, Zenon
    <3> QED
      BY <2>1, <3>1, Zenon DEF BuildAt
  <2> QED
    BY <2>1, <2>2, <2>3, <2>4, Zenon
<1>9. S \in SUBSET Nat
  OBVIOUS
<1>10. f[N] = g[N]
  <2>1. N \in S
    <3> HIDE DEF S
    <3> QED
      BY <1>1, <1>7, <1>8, <1>9, Induction
  <2> QED
    BY <1>1, <2>1
<1>11. g[N + 1] = Build(g[N], x)
  <2>1. N + 1 \in 0 .. N + 1 /\ N + 1 # 0 /\ (N + 1) - 1 = N
    BY <1>1
  <2>2. g[N + 1] = BuildAt(u, N + 1, g[(N + 1) - 1])
    BY <1>6, <2>1, Zenon
  <2> QED
    BY <1>1, <2>1, <2>2, Zenon DEF BuildAt
<1> QED
  BY <1>3, <1>4, <1>10, <1>11, Zenon DEF u

(* Nothing built. *)
LEMMA BuildNil ==
  FoldLeft(Build, <<>>, <<>>) = <<>>
<1>1. DOMAIN <<>> = 1 .. 0 /\ 0 \in Nat
  OBVIOUS
<1>2. PICK f : /\ f = [i \in 0 .. 0 |-> BuildAt(<<>>, i, f[i - 1])]
               /\ FoldLeft(Build, <<>>, <<>>) = f[0]
  BY <1>1, BuildFold
<1>3. 0 \in 0 .. 0
  OBVIOUS
<1>4. f[0] = BuildAt(<<>>, 0, f[0 - 1])
  BY <1>2, <1>3, Zenon
<1> QED
  BY <1>2, <1>4 DEF BuildAt

(* One more event written. *)
LEMMA WriterSnoc ==
  ASSUME NEW E, NEW s \in Seq(E), NEW x \in E
  PROVE  FoldLeft(Writer, NoOutput, Append(s, x)) = Writer(FoldLeft(Writer, NoOutput, s), x)
<1> DEFINE N == Len(s)
           u == Append(s, x)
<1>1. /\ N \in Nat /\ N + 1 \in Nat /\ DOMAIN s = 1 .. N
      /\ u \in Seq(E) /\ Len(u) = N + 1 /\ u[N + 1] = x /\ \A i \in 1 .. N : u[i] = s[i]
  BY LenProperties, AppendProperties
<1> HIDE DEF u
<1>2. DOMAIN u = 1 .. N + 1
  BY <1>1, LenProperties
<1>3. PICK f : /\ f = [i \in 0 .. N |-> WriterAt(s, i, f[i - 1])]
               /\ FoldLeft(Writer, NoOutput, s) = f[N]
  BY <1>1, WriterFold
<1>4. PICK g : /\ g = [i \in 0 .. N + 1 |-> WriterAt(u, i, g[i - 1])]
               /\ FoldLeft(Writer, NoOutput, u) = g[N + 1]
  BY <1>1, <1>2, WriterFold
<1> HIDE DEF N
<1>5. \A i \in 0 .. N : f[i] = WriterAt(s, i, f[i - 1])
  BY <1>3, Zenon
<1>6. \A i \in 0 .. N + 1 : g[i] = WriterAt(u, i, g[i - 1])
  BY <1>4, Zenon
<1> DEFINE S == {j \in Nat : j <= N => f[j] = g[j]}
<1>7. 0 \in S
  <2>1. 0 \in 0 .. N /\ 0 \in 0 .. N + 1
    BY <1>1
  <2>2. f[0] = WriterAt(s, 0, f[0 - 1]) /\ g[0] = WriterAt(u, 0, g[0 - 1])
    BY <1>5, <1>6, <2>1, Zenon
  <2> QED
    BY <2>2 DEF WriterAt
<1>8. ASSUME NEW j \in S PROVE j + 1 \in S
  <2> SUFFICES ASSUME j + 1 <= N PROVE f[j + 1] = g[j + 1]
    OBVIOUS
  <2>1. /\ j + 1 \in 0 .. N /\ j + 1 \in 0 .. N + 1 /\ j + 1 \in 1 .. N /\ j + 1 # 0
        /\ (j + 1) - 1 = j /\ f[j] = g[j]
    BY <1>1
  <2>2. u[j + 1] = s[j + 1]
    BY <1>1, <2>1, Zenon
  <2>3. f[j + 1] = Writer(f[j], s[j + 1])
    <3>1. f[j + 1] = WriterAt(s, j + 1, f[(j + 1) - 1])
      BY <1>5, <2>1, Zenon
    <3> QED
      BY <2>1, <3>1, Zenon DEF WriterAt
  <2>4. g[j + 1] = Writer(g[j], u[j + 1])
    <3>1. g[j + 1] = WriterAt(u, j + 1, g[(j + 1) - 1])
      BY <1>6, <2>1, Zenon
    <3> QED
      BY <2>1, <3>1, Zenon DEF WriterAt
  <2> QED
    BY <2>1, <2>2, <2>3, <2>4, Zenon
<1>9. S \in SUBSET Nat
  OBVIOUS
<1>10. f[N] = g[N]
  <2>1. N \in S
    <3> HIDE DEF S
    <3> QED
      BY <1>1, <1>7, <1>8, <1>9, Induction
  <2> QED
    BY <1>1, <2>1
<1>11. g[N + 1] = Writer(g[N], x)
  <2>1. N + 1 \in 0 .. N + 1 /\ N + 1 # 0 /\ (N + 1) - 1 = N
    BY <1>1
  <2>2. g[N + 1] = WriterAt(u, N + 1, g[(N + 1) - 1])
    BY <1>6, <2>1, Zenon
  <2> QED
    BY <1>1, <2>1, <2>2, Zenon DEF WriterAt
<1> QED
  BY <1>3, <1>4, <1>10, <1>11, Zenon DEF u

(* Nothing written. *)
LEMMA WriterNil ==
  FoldLeft(Writer, NoOutput, <<>>) = NoOutput
<1>1. DOMAIN <<>> = 1 .. 0 /\ 0 \in Nat
  OBVIOUS
<1>2. PICK f : /\ f = [i \in 0 .. 0 |-> WriterAt(<<>>, i, f[i - 1])]
               /\ FoldLeft(Writer, NoOutput, <<>>) = f[0]
  BY <1>1, WriterFold
<1>3. 0 \in 0 .. 0
  OBVIOUS
<1>4. f[0] = WriterAt(<<>>, 0, f[0 - 1])
  BY <1>2, <1>3, Zenon
<1> QED
  BY <1>2, <1>4 DEF WriterAt

(* Records with more items to choose from. *)
LEMMA ItemsOfMore ==
  ASSUME NEW A, NEW B, A \subseteq B
  PROVE  [type : Types, items : A] \subseteq [type : Types, items : B]
OBVIOUS

(* A value nested at most d deep is also nested at most e deep, where d <= e. *)
LEMMA NestedDeeper ==
  ASSUME NEW d \in 0 .. MaxTokens, NEW e \in d .. MaxTokens
  PROVE  Nested[d] \subseteq Nested[e]
<1>1. MaxTokens \in Nat
  BY JsonAssumption
<1> DEFINE S == {k \in Nat : k + 1 <= MaxTokens => Nested[k] \subseteq Nested[k + 1]}
<1>2. 0 \in S
  <2> SUFFICES ASSUME 0 + 1 <= MaxTokens PROVE Nested[0] \subseteq Nested[0 + 1]
    OBVIOUS
  <2>1. Nested[0] = NestedAt(0, Nested[0 - 1]) /\ Nested[1] = NestedAt(1, Nested[1 - 1])
    BY <1>1, NestedRec
  <2>2. Nested[0] = [type : Types, items : {<<>>}]
        /\ Nested[1] = [type : Types, items : Seq(Nested[1 - 1])]
    BY <2>1 DEF NestedAt
  <2>3. {<<>>} \subseteq Seq(Nested[1 - 1]) /\ 0 + 1 = 1
    BY EmptySeq
  <2> QED
    BY <2>2, <2>3, ItemsOfMore, Zenon
<1>3. ASSUME NEW k \in S PROVE k + 1 \in S
  <2> SUFFICES ASSUME (k + 1) + 1 <= MaxTokens PROVE Nested[k + 1] \subseteq Nested[(k + 1) + 1]
    OBVIOUS
  <2>1. Nested[k] \subseteq Nested[k + 1]
    BY <1>1
  <2>2. k + 1 \in 0 .. MaxTokens /\ (k + 1) + 1 \in 0 .. MaxTokens /\ (k + 1) - 1 = k
        /\ ((k + 1) + 1) - 1 = k + 1 /\ k + 1 # 0 /\ (k + 1) + 1 # 0
    BY <1>1
  <2>3. Nested[k + 1] = [type : Types, items : Seq(Nested[k])]
    <3>1. Nested[k + 1] = NestedAt(k + 1, Nested[(k + 1) - 1])
      BY <2>2, NestedRec, Zenon
    <3> QED
      BY <2>2, <3>1 DEF NestedAt
  <2>4. Nested[(k + 1) + 1] = [type : Types, items : Seq(Nested[k + 1])]
    <3>1. Nested[(k + 1) + 1] = NestedAt((k + 1) + 1, Nested[((k + 1) + 1) - 1])
      BY <2>2, NestedRec, Zenon
    <3> QED
      BY <2>2, <3>1 DEF NestedAt
  <2>5. Seq(Nested[k]) \subseteq Seq(Nested[k + 1])
    BY <2>1, SeqMonotonic
  <2> QED
    BY <2>3, <2>4, <2>5, ItemsOfMore, Zenon
<1>4. S = Nat
  <2>1. S \in SUBSET Nat
    OBVIOUS
  <2> HIDE DEF S
  <2> QED
    BY <1>2, <1>3, <2>1, Induction
<1>5. \A k \in Nat : k + 1 <= MaxTokens => Nested[k] \subseteq Nested[k + 1]
  BY <1>4
<1> DEFINE U == {k \in Nat : d + k <= MaxTokens => Nested[d] \subseteq Nested[d + k]}
<1>6. 0 \in U
  OBVIOUS
<1>7. ASSUME NEW k \in U PROVE k + 1 \in U
  <2> SUFFICES ASSUME d + (k + 1) <= MaxTokens PROVE Nested[d] \subseteq Nested[d + (k + 1)]
    OBVIOUS
  <2>1. d + k \in Nat /\ (d + k) + 1 = d + (k + 1) /\ (d + k) + 1 <= MaxTokens
    BY <1>1
  <2>2. Nested[d] \subseteq Nested[d + k]
    BY <1>1, <2>1
  <2>3. Nested[d + k] \subseteq Nested[d + (k + 1)]
    BY <1>5, <2>1
  <2> QED
    BY <2>2, <2>3
<1>8. U = Nat
  <2>1. U \in SUBSET Nat
    OBVIOUS
  <2> HIDE DEF U
  <2> QED
    BY <1>6, <1>7, <2>1, Induction
<1>9. e - d \in Nat /\ d + (e - d) = e
  BY <1>1
<1>10. e - d \in U
  <2> HIDE DEF U
  <2> QED
    BY <1>8, <1>9
<1> QED
  BY <1>9, <1>10

(* A value whose items are nested at most d deep is nested at most d + 1 deep. *)
LEMMA NestedValue ==
  ASSUME NEW d \in Nat, d + 1 <= MaxTokens, NEW type \in Types, NEW items \in Seq(Nested[d])
  PROVE  [type |-> type, items |-> items] \in Nested[d + 1]
<1>1. d + 1 \in 0 .. MaxTokens /\ (d + 1) - 1 = d /\ d + 1 # 0
  BY JsonAssumption
<1>2. Nested[d + 1] = NestedAt(d + 1, Nested[(d + 1) - 1])
  BY <1>1, NestedRec, Zenon
<1>3. Nested[d + 1] = [type : Types, items : Seq(Nested[d])]
  BY <1>1, <1>2 DEF NestedAt
<1> QED
  BY <1>3

(* A value without items is nested however deep. *)
LEMMA NestedScalar ==
  ASSUME NEW d \in 0 .. MaxTokens, NEW type \in Types
  PROVE  Scalar(type) \in Nested[d]
<1>1. 0 \in 0 .. MaxTokens /\ d \in 0 .. MaxTokens
  BY JsonAssumption
<1>2. Nested[0] = NestedAt(0, Nested[0 - 1])
  BY <1>1, NestedRec, Zenon
<1>3. Scalar(type) \in Nested[0]
  BY <1>2 DEF NestedAt, Scalar
<1> QED
  BY <1>1, <1>3, NestedDeeper

(* The calls made for a value do not depend on the bound on its depth. *)
LEMMA VisitDeeper ==
  ASSUME NEW d \in Nat, d + 1 <= MaxTokens, NEW v \in Nested[d]
  PROVE  Visit[d + 1][v] = Visit[d][v]
<1>1. MaxTokens \in Nat
  BY JsonAssumption
<1> DEFINE S == {k \in Nat : k + 1 <= MaxTokens =>
                               \A x \in Nested[k] : Visit[k + 1][x] = Visit[k][x]}
<1>2. 0 \in S
  <2> SUFFICES ASSUME 0 + 1 <= MaxTokens, NEW x \in Nested[0]
               PROVE  Visit[0 + 1][x] = Visit[0][x]
    OBVIOUS
  <2>1. 0 \in 0 .. MaxTokens /\ 1 \in 0 .. MaxTokens /\ 1 \in 0 .. MaxTokens
    BY <1>1
  <2>2. Visit[0] = VisitAt(0, Visit[0 - 1]) /\ Visit[1] = VisitAt(1, Visit[1 - 1])
    BY <2>1, VisitRec
  <2>3. VisitAt(0, Visit[0 - 1]) = VisitAt(0, Visit[0])
    BY VisitAtZero
  <2>4. x \in Nested[1]
    <3>1. 1 \in 0 .. MaxTokens /\ 0 \in 0 .. MaxTokens
      BY <2>1
    <3> QED
      BY <3>1, NestedDeeper
  <2>5. Visit[0][x] = ValueCalls(x, Visit[0])
    BY <2>2, <2>3 DEF VisitAt
  <2>6. Visit[1][x] = ValueCalls(x, Visit[1 - 1])
    BY <2>2, <2>4 DEF VisitAt
  <2> QED
    BY <2>5, <2>6
<1>3. ASSUME NEW k \in S PROVE k + 1 \in S
  <2> SUFFICES ASSUME (k + 1) + 1 <= MaxTokens, NEW x \in Nested[k + 1]
               PROVE  Visit[(k + 1) + 1][x] = Visit[k + 1][x]
    OBVIOUS
  <2>1. \A y \in Nested[k] : Visit[k + 1][y] = Visit[k][y]
    BY <1>1
  <2>2. k + 1 \in 0 .. MaxTokens /\ (k + 1) + 1 \in 0 .. MaxTokens /\ (k + 1) - 1 = k
        /\ ((k + 1) + 1) - 1 = k + 1 /\ k + 1 # 0
    BY <1>1
  <2>3. Visit[k + 1] = VisitAt(k + 1, Visit[(k + 1) - 1])
        /\ Visit[(k + 1) + 1] = VisitAt((k + 1) + 1, Visit[((k + 1) + 1) - 1])
    BY <2>2, VisitRec, Zenon
  <2>4. x \in Nested[(k + 1) + 1]
    <3>1. (k + 1) + 1 \in (k + 1) .. MaxTokens
      BY <1>1, <2>2
    <3> QED
      BY <2>2, <3>1, NestedDeeper
  <2>5. Visit[k + 1][x] = ValueCalls(x, Visit[k])
    BY <2>2, <2>3 DEF VisitAt
  <2>6. Visit[(k + 1) + 1][x] = ValueCalls(x, Visit[k + 1])
    BY <2>2, <2>3, <2>4 DEF VisitAt
  <2>7. x.items \in Seq(Nested[k])
    <3>1. Nested[k + 1] = NestedAt(k + 1, Nested[(k + 1) - 1])
      BY <2>2, NestedRec, Zenon
    <3> QED
      BY <2>2, <3>1 DEF NestedAt
  <2>8. \A i \in 1 .. Len(x.items) : x.items[i] \in Nested[k]
    BY <2>7, ElementOfSeq
  <2>9. \A i \in 1 .. Len(x.items) : ItemCalls(x, i, Visit[k + 1]) = ItemCalls(x, i, Visit[k])
    BY <2>1, <2>8, Zenon DEF ItemCalls
  <2>10. [i \in 1 .. Len(x.items) |-> ItemCalls(x, i, Visit[k + 1])]
         = [i \in 1 .. Len(x.items) |-> ItemCalls(x, i, Visit[k])]
    BY <2>9, Zenon
  <2>11. ValueCalls(x, Visit[k + 1]) = ValueCalls(x, Visit[k])
    BY <2>10, Zenon DEF ValueCalls
  <2> QED
    BY <2>5, <2>6, <2>11, Zenon
<1>4. S = Nat
  <2>1. S \in SUBSET Nat
    OBVIOUS
  <2> HIDE DEF S
  <2> QED
    BY <1>2, <1>3, <2>1, Induction
<1> QED
  BY <1>4

(* Accept is Visit at any depth that the value has. *)
LEMMA AcceptAt ==
  ASSUME NEW d \in 0 .. MaxTokens, NEW v \in Nested[d]
  PROVE  Accept(v) = Visit[d][v]
<1>1. MaxTokens \in Nat
  BY JsonAssumption
<1> DEFINE S == {k \in Nat : d + k <= MaxTokens => Visit[d + k][v] = Visit[d][v]}
<1>2. 0 \in S
  OBVIOUS
<1>3. ASSUME NEW k \in S PROVE k + 1 \in S
  <2> SUFFICES ASSUME d + (k + 1) <= MaxTokens PROVE Visit[d + (k + 1)][v] = Visit[d][v]
    OBVIOUS
  <2>1. d + k \in Nat /\ (d + k) + 1 = d + (k + 1) /\ (d + k) + 1 <= MaxTokens
        /\ d + k \in d .. MaxTokens
    BY <1>1
  <2>2. v \in Nested[d + k]
    BY <2>1, NestedDeeper
  <2>3. Visit[(d + k) + 1][v] = Visit[d + k][v]
    BY <2>1, <2>2, VisitDeeper
  <2>4. Visit[d + k][v] = Visit[d][v]
    BY <1>1, <2>1
  <2> QED
    BY <2>1, <2>3, <2>4
<1>4. S = Nat
  <2>1. S \in SUBSET Nat
    OBVIOUS
  <2> HIDE DEF S
  <2> QED
    BY <1>2, <1>3, <2>1, Induction
<1>5. MaxTokens - d \in Nat /\ d + (MaxTokens - d) = MaxTokens
  BY <1>1
<1>6. MaxTokens - d \in S
  <2> HIDE DEF S
  <2> QED
    BY <1>4, <1>5
<1> QED
  BY <1>5, <1>6 DEF Accept

(* The calls made for a value are those for its items, with its own around    *)
(* them.                                                                      *)
LEMMA AcceptValue ==
  ASSUME NEW d \in Nat, d + 1 <= MaxTokens, NEW v \in Nested[d + 1], v.items \in Seq(Nested[d])
  PROVE  Accept(v) = ValueCalls(v, Visit[MaxTokens])
<1>1. d + 1 \in 0 .. MaxTokens /\ d \in 0 .. MaxTokens /\ (d + 1) - 1 = d /\ d + 1 # 0
  BY JsonAssumption
<1>2. Accept(v) = Visit[d + 1][v]
  BY <1>1, AcceptAt
<1>3. Visit[d + 1] = VisitAt(d + 1, Visit[(d + 1) - 1])
  BY <1>1, VisitRec, Zenon
<1>4. Visit[d + 1][v] = ValueCalls(v, Visit[d])
  BY <1>1, <1>3 DEF VisitAt
<1>5. \A i \in 1 .. Len(v.items) : v.items[i] \in Nested[d]
  BY ElementOfSeq
<1>6. \A x \in Nested[d] : Visit[MaxTokens][x] = Visit[d][x]
  BY <1>1, AcceptAt DEF Accept
<1>7. \A i \in 1 .. Len(v.items) : ItemCalls(v, i, Visit[MaxTokens]) = ItemCalls(v, i, Visit[d])
  BY <1>5, <1>6, Zenon DEF ItemCalls
<1>8. [i \in 1 .. Len(v.items) |-> ItemCalls(v, i, Visit[MaxTokens])]
      = [i \in 1 .. Len(v.items) |-> ItemCalls(v, i, Visit[d])]
  BY <1>7, Zenon
<1>9. ValueCalls(v, Visit[MaxTokens]) = ValueCalls(v, Visit[d])
  BY <1>8, Zenon DEF ValueCalls
<1> QED
  BY <1>2, <1>4, <1>9, Zenon

-------------------------------------------------------------------------------
(* What the Writer has written                                                *)

(* What Writer has written, and the calls that Accept can make. *)
Marks ==
  {"LeftCurlyBracket", "RightCurlyBracket", "LeftBracket", "RightBracket", "Comma", "Colon"}
    \cup Scalars

(* The levels of the Writer: a count and whether it is an array. *)
Levels == [n : Nat, inArray : BOOLEAN]

(* The Writer as it can be. *)
Outputs == [levels : Seq(Levels), out : Seq(Marks)]

(* The calls that Accept can make, also for a value that no text has. *)
AnyEvs == [call : Calls \cup Types, n : Nat]

(* The document and the text made by calls w. *)
Built(w) == FoldLeft(Build, <<>>, w)

(* What the Writer has made of the calls w. *)
Output(w) == FoldLeft(Writer, NoOutput, w)

(* The states inside an array. *)
InArray(s) == s \in {"ArrayInitial", "Element", "ElementDelimiter"}

(* The names and values read of an object, or the elements of an array, in    *)
(* state s where n members or elements are complete up to a comma.            *)
Count(s, n) ==
  CASE s \in {"ObjectInitial", "MemberDelimiter"} -> 2 * n
    [] s \in {"MemberKey", "KeyValueDelimiter"} -> 2 * n + 1
    [] s = "MemberValue" -> 2 * n + 2
    [] s = "Element" -> n + 1
    [] OTHER -> n

(* What has been read and is written only before the next value. *)
Pending(s) ==
  CASE s \in {"MemberDelimiter", "ElementDelimiter"} -> <<"Comma">>
    [] s = "KeyValueDelimiter" -> <<"Colon">>
    [] OTHER -> <<>>

(* The level of the Writer in state s. *)
Level(s, n) == [n |-> Count(s, n), inArray |-> InArray(s)]

(* The states inside an object or an array, and those that wait for a name or *)
(* a value there.                                                             *)
Inner ==
  {"ObjectInitial", "MemberKey", "KeyValueDelimiter", "MemberValue", "MemberDelimiter",
   "ArrayInitial", "Element", "ElementDelimiter"}

(* A delimiter has been read in the states behind one, and none at the        *)
(* beginning.                                                                 *)
Placed(s, n) ==
  /\ s \in Inner
  /\ s \in {"ObjectInitial", "ArrayInitial"} => n = 0
  /\ s \in {"MemberDelimiter", "ElementDelimiter"} => n > 0

(* A name or a value in state s leads to s1. *)
Takes(s, s1) ==
  \/ s \in {"ObjectInitial", "MemberDelimiter"} /\ s1 = "MemberKey"
  \/ s = "KeyValueDelimiter" /\ s1 = "MemberValue"
  \/ s \in {"ArrayInitial", "ElementDelimiter"} /\ s1 = "Element"

(* It is counted, and nothing is pending behind it. *)
LEMMA TakesCounts ==
  ASSUME NEW s, NEW s1, Takes(s, s1), NEW n \in Nat
  PROVE  /\ Count(s1, n) = Count(s, n) + 1 /\ InArray(s1) = InArray(s) /\ Pending(s1) = <<>>
         /\ Count(s, n) \in Nat
BY DEF Takes, Count, InArray, Pending

(* The top of the levels. *)
LEMMA TopLevel ==
  ASSUME NEW L \in Seq(Levels), NEW l \in Levels
  PROVE  /\ Append(L, l) # <<>> /\ Append(L, l) \in Seq(Levels)
         /\ Last(Append(L, l)) = l /\ Front(Append(L, l)) = L
<1> DEFINE k == Append(L, l)
<1>1. /\ Len(L) \in Nat /\ k \in Seq(Levels) /\ Len(k) = Len(L) + 1 /\ k[Len(L) + 1] = l
      /\ k # <<>> /\ \A i \in 1 .. Len(L) : k[i] = L[i]
  BY AppendProperties, LenProperties
<1>2. Last(k) = l
  BY <1>1 DEF Last
<1>3. Front(k) = L
  <2> HIDE DEF k
  <2>1. Front(k) = SubSeq(k, 1, Len(L))
    BY <1>1 DEF Front
  <2>2. SubSeq(k, 1, Len(L)) \in Seq(Levels) /\ Len(SubSeq(k, 1, Len(L))) = Len(L)
        /\ \A i \in 1 .. Len(L) : SubSeq(k, 1, Len(L))[i] = k[i]
    BY <1>1, SubSeqProperties
  <2> QED
    BY <1>1, <2>1, <2>2, SeqEqual
<1> QED
  BY <1>1, <1>2, <1>3

(* Before a name or a value Prefix writes what is pending and counts it. *)
LEMMA PrefixInside ==
  ASSUME NEW L \in Seq(Levels), NEW u \in Seq(Marks), NEW s, NEW s1, NEW n \in Nat,
         Takes(s, s1), Placed(s, n)
  PROVE  Prefix([levels |-> Append(L, Level(s, n)), out |-> u]) =
           [levels |-> Append(L, Level(s1, n)), out |-> u \o Pending(s)]
<1> DEFINE l == Level(s, n)
           o == [levels |-> Append(L, l), out |-> u]
<1>1. l \in Levels /\ l.n = Count(s, n) /\ l.inArray = InArray(s)
  BY TakesCounts DEF Level, Levels, InArray
<1>2. [l EXCEPT !.n = @ + 1] = Level(s1, n)
  BY <1>1, TakesCounts DEF Level
<1> HIDE DEF l
<1>3. o.levels # <<>> /\ Last(o.levels) = l /\ Front(o.levels) = L /\ o.out = u
  BY <1>1, TopLevel
<1> DEFINE Before == CASE l.n = 0 -> <<>>
                       [] l.n > 0 /\ (l.inArray \/ l.n % 2 = 0) -> <<"Comma">>
                       [] OTHER -> <<"Colon">>
<1> HIDE DEF o
<1>4. Prefix(o) = [levels |-> Append(L, [l EXCEPT !.n = @ + 1]), out |-> u \o Before]
  BY <1>3, Zenon DEF Prefix
<1>5. Before = Pending(s)
  <2>1. CASE s \in {"ObjectInitial", "ArrayInitial"}
    <3>1. n = 0
      BY <2>1 DEF Placed
    <3>2. l.n = 0
      BY <1>1, <2>1, <3>1 DEF Count
    <3> QED
      BY <2>1, <3>2 DEF Pending
  <2>2. CASE s = "MemberDelimiter"
    <3>1. n > 0
      BY <2>2 DEF Placed
    <3>2. l.n = 2 * n
      BY <1>1, <2>2 DEF Count
    <3>3. l.n > 0 /\ l.n % 2 = 0 /\ l.n # 0
      BY <3>1, <3>2
    <3> QED
      BY <2>2, <3>3 DEF Pending
  <2>3. CASE s = "ElementDelimiter"
    <3>1. n > 0
      BY <2>3 DEF Placed
    <3>2. l.n = n /\ l.inArray
      BY <1>1, <2>3 DEF Count, InArray
    <3> QED
      BY <2>3, <3>1, <3>2 DEF Pending
  <2>4. CASE s = "KeyValueDelimiter"
    <3>1. l.n = 2 * n + 1 /\ ~l.inArray
      BY <1>1, <2>4 DEF Count, InArray
    <3>2. l.n # 0 /\ l.n % 2 # 0
      BY <3>1
    <3> QED
      BY <2>4, <3>1, <3>2 DEF Pending
  <2> QED
    BY <2>1, <2>2, <2>3, <2>4 DEF Takes
<1> HIDE DEF Before
<1> QED
  BY <1>2, <1>4, <1>5 DEF o, l

(* Outside of all containers Prefix does nothing. *)
LEMMA PrefixOutside ==
  ASSUME NEW u
  PROVE  Prefix([levels |-> <<>>, out |-> u]) = [levels |-> <<>>, out |-> u]
BY DEF Prefix

(* Nothing has been written. *)
LEMMA OutputNil == Output(<<>>) = NoOutput
BY WriterNil DEF Output

(* The Writer is its two fields. *)
LEMMA OutputFields ==
  ASSUME NEW P \in Outputs
  PROVE  /\ P = [levels |-> P.levels, out |-> P.out]
         /\ P.levels \in Seq(Levels) /\ P.out \in Seq(Marks)
BY DEF Outputs

(* Put adds to the text only. *)
LEMMA PutOut ==
  ASSUME NEW L, NEW u, NEW o, o = [levels |-> L, out |-> u], NEW x
  PROVE  Put(o, x) = [levels |-> L, out |-> Append(u, x)]
BY DEF Put

(* A level more. *)
LEMMA LevelOpened ==
  ASSUME NEW L, NEW u, NEW q, q = [levels |-> L, out |-> u], NEW K
  PROVE  [q EXCEPT !.levels = Append(@, K)] = [levels |-> Append(L, K), out |-> u]
OBVIOUS

(* A level less. *)
LEMMA LevelClosed ==
  ASSUME NEW L, NEW u, NEW q, q = [levels |-> L, out |-> u]
  PROVE  [q EXCEPT !.levels = Front(@)] = [levels |-> Front(L), out |-> u]
OBVIOUS

(* StartObject. *)
LEMMA WriterOpensObject ==
  ASSUME NEW o, NEW L, NEW u, Prefix(o) = [levels |-> L, out |-> u], NEW e, e.call = "StartObject",
         NEW l, l = [n |-> 0, inArray |-> FALSE]
  PROVE  Writer(o, e) = [levels |-> Append(L, l), out |-> Append(u, "LeftCurlyBracket")]
<1> DEFINE q == Put(Prefix(o), "LeftCurlyBracket")
           v == Append(u, "LeftCurlyBracket")
<1>1. q = [levels |-> L, out |-> v]
  BY PutOut
<1>2. Writer(o, e) = [q EXCEPT !.levels = Append(@, l)]
  BY Zenon DEF Writer
<1> HIDE DEF q, v
<1>3. [q EXCEPT !.levels = Append(@, l)] = [levels |-> Append(L, l), out |-> v]
  BY <1>1, LevelOpened
<1> QED
  BY <1>2, <1>3, Zenon DEF v

(* StartArray. *)
LEMMA WriterOpensArray ==
  ASSUME NEW o, NEW L, NEW u, Prefix(o) = [levels |-> L, out |-> u], NEW e, e.call = "StartArray",
         NEW l, l = [n |-> 0, inArray |-> TRUE]
  PROVE  Writer(o, e) = [levels |-> Append(L, l), out |-> Append(u, "LeftBracket")]
<1> DEFINE q == Put(Prefix(o), "LeftBracket")
           v == Append(u, "LeftBracket")
<1>1. q = [levels |-> L, out |-> v]
  BY PutOut
<1>2. Writer(o, e) = [q EXCEPT !.levels = Append(@, l)]
  BY Zenon DEF Writer
<1> HIDE DEF q, v
<1>3. [q EXCEPT !.levels = Append(@, l)] = [levels |-> Append(L, l), out |-> v]
  BY <1>1, LevelOpened
<1> QED
  BY <1>2, <1>3, Zenon DEF v

(* EndObject. *)
LEMMA WriterClosesObject ==
  ASSUME NEW o, NEW L, NEW u, o = [levels |-> L, out |-> u], NEW e, e.call = "EndObject"
  PROVE  Writer(o, e) = [levels |-> Front(L), out |-> Append(u, "RightCurlyBracket")]
<1> DEFINE q == Put(o, "RightCurlyBracket")
           v == Append(u, "RightCurlyBracket")
<1>1. q = [levels |-> L, out |-> v]
  BY PutOut
<1>2. Writer(o, e) = [q EXCEPT !.levels = Front(@)]
  BY Zenon DEF Writer
<1> HIDE DEF q, v
<1>3. [q EXCEPT !.levels = Front(@)] = [levels |-> Front(L), out |-> v]
  BY <1>1, LevelClosed
<1> QED
  BY <1>2, <1>3, Zenon DEF v

(* EndArray. *)
LEMMA WriterClosesArray ==
  ASSUME NEW o, NEW L, NEW u, o = [levels |-> L, out |-> u], NEW e, e.call = "EndArray"
  PROVE  Writer(o, e) = [levels |-> Front(L), out |-> Append(u, "RightBracket")]
<1> DEFINE q == Put(o, "RightBracket")
           v == Append(u, "RightBracket")
<1>1. q = [levels |-> L, out |-> v]
  BY PutOut
<1>2. Writer(o, e) = [q EXCEPT !.levels = Front(@)]
  BY Zenon DEF Writer
<1> HIDE DEF q, v
<1>3. [q EXCEPT !.levels = Front(@)] = [levels |-> Front(L), out |-> v]
  BY <1>1, LevelClosed
<1> QED
  BY <1>2, <1>3, Zenon DEF v

(* The output of a container that begins. *)
LEMMA OutputStart ==
  ASSUME NEW w \in Seq(AnyEvs), Prefix(Output(w)) \in Outputs, NEW P, P = Prefix(Output(w))
  PROVE  /\ Output(Noted(w, "StartObject", 0)) =
              [levels |-> Append(P.levels, Level("ObjectInitial", 0)),
               out    |-> Append(P.out, "LeftCurlyBracket")]
         /\ Output(Noted(w, "StartArray", 0)) =
              [levels |-> Append(P.levels, Level("ArrayInitial", 0)),
               out    |-> Append(P.out, "LeftBracket")]
<1>1. Event("StartObject", 0) \in AnyEvs /\ Event("StartArray", 0) \in AnyEvs
  BY DEF Event, AnyEvs, Calls
<1>2. Output(Noted(w, "StartObject", 0)) = Writer(Output(w), Event("StartObject", 0))
      /\ Output(Noted(w, "StartArray", 0)) = Writer(Output(w), Event("StartArray", 0))
  BY <1>1, WriterSnoc, Zenon DEF Output, Noted
<1>3. P = [levels |-> P.levels, out |-> P.out]
  BY OutputFields
<1>4. Event("StartObject", 0).call = "StartObject" /\ Event("StartArray", 0).call = "StartArray"
  BY DEF Event
<1>5. [n |-> 0, inArray |-> FALSE] = Level("ObjectInitial", 0)
      /\ [n |-> 0, inArray |-> TRUE] = Level("ArrayInitial", 0)
  <2>1. Count("ObjectInitial", 0) = 0 /\ Count("ArrayInitial", 0) = 0
    BY DEF Count
  <2>2. InArray("ObjectInitial") = FALSE /\ InArray("ArrayInitial") = TRUE
    BY DEF InArray
  <2> QED
    BY <2>1, <2>2, Zenon DEF Level
<1> DEFINE L == P.levels
           u == P.out
<1>6. Prefix(Output(w)) = [levels |-> L, out |-> u]
  BY <1>3, Zenon
<1> HIDE DEF L, u
<1>7. Writer(Output(w), Event("StartObject", 0)) =
        [levels |-> Append(L, Level("ObjectInitial", 0)), out |-> Append(u, "LeftCurlyBracket")]
  <2> DEFINE e == Event("StartObject", 0)
             l == Level("ObjectInitial", 0)
             o == Output(w)
  <2>1. e.call = "StartObject" /\ l = [n |-> 0, inArray |-> FALSE]
        /\ Prefix(o) = [levels |-> L, out |-> u]
    BY <1>4, <1>5, <1>6
  <2> HIDE DEF e, l, o
  <2>2. Writer(o, e) = [levels |-> Append(L, l), out |-> Append(u, "LeftCurlyBracket")]
    BY <2>1, WriterOpensObject
  <2> QED
    BY <2>2, Zenon DEF e, l, o
<1>8. Writer(Output(w), Event("StartArray", 0)) =
        [levels |-> Append(L, Level("ArrayInitial", 0)), out |-> Append(u, "LeftBracket")]
  <2> DEFINE e == Event("StartArray", 0)
             l == Level("ArrayInitial", 0)
             o == Output(w)
  <2>1. e.call = "StartArray" /\ l = [n |-> 0, inArray |-> TRUE]
        /\ Prefix(o) = [levels |-> L, out |-> u]
    BY <1>4, <1>5, <1>6
  <2> HIDE DEF e, l, o
  <2>2. Writer(o, e) = [levels |-> Append(L, l), out |-> Append(u, "LeftBracket")]
    BY <2>1, WriterOpensArray
  <2> QED
    BY <2>2, Zenon DEF e, l, o
<1> QED
  BY <1>2, <1>7, <1>8, Zenon DEF L, u

(* The output of a scalar. *)
LEMMA OutputScalar ==
  ASSUME NEW w \in Seq(AnyEvs), Prefix(Output(w)) \in Outputs, NEW P, P = Prefix(Output(w)),
         NEW t \in Scalars
  PROVE  Output(Noted(w, t, 0)) = [levels |-> P.levels, out |-> Append(P.out, t)]
<1>1. Event(t, 0) \in AnyEvs
  BY DEF Event, AnyEvs, Calls
<1>2. Output(Noted(w, t, 0)) = Writer(Output(w), Event(t, 0))
  BY <1>1, WriterSnoc, Zenon DEF Output, Noted
<1>3. P = [levels |-> P.levels, out |-> P.out]
  BY OutputFields
<1>4. Event(t, 0).call = t
  BY DEF Event
<1>5. Writer(Output(w), Event(t, 0)) = Put(P, t)
  BY <1>4 DEF Writer, Scalars
<1>6. Put(P, t) = [levels |-> P.levels, out |-> Append(P.out, t)]
  BY <1>3, PutOut
<1> QED
  BY <1>2, <1>5, <1>6, Zenon

(* The output of a name. *)
LEMMA OutputKey ==
  ASSUME NEW w \in Seq(AnyEvs), Prefix(Output(w)) \in Outputs, NEW P, P = Prefix(Output(w))
  PROVE  Output(Noted(w, "Key", 0)) = [levels |-> P.levels, out |-> Append(P.out, "string")]
<1>1. Event("Key", 0) \in AnyEvs
  BY DEF Event, AnyEvs, Calls
<1>2. Output(Noted(w, "Key", 0)) = Writer(Output(w), Event("Key", 0))
  BY <1>1, WriterSnoc, Zenon DEF Output, Noted
<1>3. P = [levels |-> P.levels, out |-> P.out]
  BY OutputFields
<1>4. Event("Key", 0).call = "Key"
  BY DEF Event
<1>5. Writer(Output(w), Event("Key", 0)) = Put(P, "string")
  BY <1>4 DEF Writer
<1>6. Put(P, "string") = [levels |-> P.levels, out |-> Append(P.out, "string")]
  BY <1>3, PutOut
<1> QED
  BY <1>2, <1>5, <1>6, Zenon

(* The output of a container that ends. *)
LEMMA OutputEnd ==
  ASSUME NEW w \in Seq(AnyEvs), NEW L \in Seq(Levels), NEW l \in Levels, NEW u, NEW n \in Nat,
         Output(w) = [levels |-> Append(L, l), out |-> u]
  PROVE 
  /\ Output(Noted(w, "EndObject", n)) = [levels |-> L, out |-> Append(u, "RightCurlyBracket")]
         /\ Output(Noted(w, "EndArray", n)) = [levels |-> L, out |-> Append(u, "RightBracket")]
<1>1. Event("EndObject", n) \in AnyEvs /\ Event("EndArray", n) \in AnyEvs
  BY DEF Event, AnyEvs, Calls
<1>2. Output(Noted(w, "EndObject", n)) = Writer(Output(w), Event("EndObject", n))
      /\ Output(Noted(w, "EndArray", n)) = Writer(Output(w), Event("EndArray", n))
  BY <1>1, WriterSnoc, Zenon DEF Output, Noted
<1>3. Front(Append(L, l)) = L
  BY TopLevel
<1>4. Event("EndObject", n).call = "EndObject" /\ Event("EndArray", n).call = "EndArray"
  BY DEF Event
<1>5. Writer(Output(w), Event("EndObject", n)) =
        [levels |-> Front(Append(L, l)), out |-> Append(u, "RightCurlyBracket")]
  <2> DEFINE e == Event("EndObject", n)
             o == Output(w)
             K == Append(L, l)
  <2>1. e.call = "EndObject" /\ o = [levels |-> K, out |-> u]
    BY <1>4
  <2> HIDE DEF e, K, o
  <2>2. Writer(o, e) = [levels |-> Front(K), out |-> Append(u, "RightCurlyBracket")]
    BY <2>1, WriterClosesObject
  <2> QED
    BY <2>2, Zenon DEF e, K, o
<1>6. Writer(Output(w), Event("EndArray", n)) =
        [levels |-> Front(Append(L, l)), out |-> Append(u, "RightBracket")]
  <2> DEFINE e == Event("EndArray", n)
             o == Output(w)
             K == Append(L, l)
  <2>1. e.call = "EndArray" /\ o = [levels |-> K, out |-> u]
    BY <1>4
  <2> HIDE DEF e, K, o
  <2>2. Writer(o, e) = [levels |-> Front(K), out |-> Append(u, "RightBracket")]
    BY <2>1, WriterClosesArray
  <2> QED
    BY <2>2, Zenon DEF e, K, o
<1> QED
  BY <1>2, <1>3, <1>5, <1>6, Zenon

-------------------------------------------------------------------------------
(* What the handler has built                                                 *)

(* No value has been built. *)
LEMMA BuiltNil == Built(<<>>) = <<>>
BY BuildNil DEF Built

(* A scalar is a value on the stack. *)
LEMMA BuiltScalar ==
  ASSUME NEW w \in Seq(AnyEvs), NEW t \in Scalars
  PROVE  Built(Noted(w, t, 0)) = Append(Built(w), Scalar(t))
<1>1. Event(t, 0) \in AnyEvs /\ Event(t, 0).call = t
  BY DEF Event, AnyEvs, Calls
<1>2. Built(Noted(w, t, 0)) = Build(Built(w), Event(t, 0))
  BY <1>1, BuildSnoc, Zenon DEF Built, Noted
<1> QED
  BY <1>1, <1>2 DEF Build, Scalars

(* A name is a value on the stack. *)
LEMMA BuiltKey ==
  ASSUME NEW w \in Seq(AnyEvs)
  PROVE  Built(Noted(w, "Key", 0)) = Append(Built(w), Scalar("string"))
<1>1. Event("Key", 0) \in AnyEvs /\ Event("Key", 0).call = "Key"
  BY DEF Event, AnyEvs, Calls
<1>2. Built(Noted(w, "Key", 0)) = Build(Built(w), Event("Key", 0))
  BY <1>1, BuildSnoc, Zenon DEF Built, Noted
<1> QED
  BY <1>1, <1>2 DEF Build, Scalars

(* A container without its items is a value on the stack. *)
LEMMA BuiltStart ==
  ASSUME NEW w \in Seq(AnyEvs)
  PROVE  /\ Built(Noted(w, "StartObject", 0)) = Append(Built(w), Scalar("object"))
         /\ Built(Noted(w, "StartArray", 0)) = Append(Built(w), Scalar("array"))
<1>1. /\ Event("StartObject", 0) \in AnyEvs /\ Event("StartObject", 0).call = "StartObject"
      /\ Event("StartArray", 0) \in AnyEvs /\ Event("StartArray", 0).call = "StartArray"
  BY DEF Event, AnyEvs, Calls
<1>2. /\ Built(Noted(w, "StartObject", 0)) = Build(Built(w), Event("StartObject", 0))
      /\ Built(Noted(w, "StartArray", 0)) = Build(Built(w), Event("StartArray", 0))
  BY <1>1, BuildSnoc, Zenon DEF Built, Noted
<1> QED
  BY <1>1, <1>2 DEF Build, Scalars

(* A value with these items. *)
Container(type, items) == [type |-> type, items |-> items]

(* A sequence is cut where it was put together. *)
LEMMA CutItems ==
  ASSUME NEW V, NEW b \in Seq(V), NEW items \in Seq(V), NEW s \in Seq(V),
         Len(s) = (Len(b) + 1) + Len(items),
         \A i \in 1 .. Len(b) : s[i] = b[i],
         \A i \in 1 .. Len(items) : s[(Len(b) + 1) + i] = items[i]
  PROVE  SubSeq(s, 1, Len(b)) = b /\ SubSeq(s, Len(b) + 2, (Len(b) + 1) + Len(items)) = items
<1> DEFINE m == Len(b)
           k == Len(items)
<1>0. /\ m \in Nat /\ k \in Nat /\ m = Len(b) /\ k = Len(items) /\ Len(s) = (m + 1) + k
      /\ (\A i \in 1 .. m : s[i] = b[i]) /\ \A i \in 1 .. k : s[(m + 1) + i] = items[i]
  BY LenProperties
<1> HIDE DEF m, k
<1>1. SubSeq(s, 1, m) = b
  <2>1. \A i \in 1 .. m : s[i] \in V
    BY <1>0, ElementOfSeq
  <2>2. SubSeq(s, 1, m) \in Seq(V) /\ Len(SubSeq(s, 1, m)) = m
        /\ \A i \in 1 .. m : SubSeq(s, 1, m)[i] = s[i]
    BY <1>0, <2>1, SubSeqProperties
  <2> QED
    BY <1>0, <2>2, SeqEqual
<1>2. SubSeq(s, m + 2, (m + 1) + k) = items
  <2> DEFINE u == SubSeq(s, m + 2, (m + 1) + k)
  <2>1. \A i \in m + 2 .. (m + 1) + k : s[i] \in V
    <3> TAKE i \in m + 2 .. (m + 1) + k
    <3>1. i \in 1 .. Len(s)
      BY <1>0
    <3> QED
      BY <3>1, ElementOfSeq
  <2>2. m + 2 \in Int /\ (m + 1) + k \in Int
    BY <1>0
  <2>3. u \in Seq(V) /\ Len(u) = k /\ \A i \in 1 .. k : u[i] = s[(m + 1) + i]
    BY <1>0, <2>1, <2>2, SubSeqProperties
  <2> HIDE DEF u
  <2>4. u = items
    BY <1>0, <2>3, SeqEqual
  <2> QED
    BY <2>4 DEF u
<1> QED
  BY <1>1, <1>2 DEF m, k

(* A stack of values, a container without its items, and the items. *)
LEMMA JoinItems ==
  ASSUME NEW V, NEW b \in Seq(V), NEW x \in V, NEW items \in Seq(V)
  PROVE  /\ (b \o <<x>>) \o items \in Seq(V)
         /\ Len((b \o <<x>>) \o items) = (Len(b) + 1) + Len(items)
         /\ ((b \o <<x>>) \o items)[Len(b) + 1] = x
         /\ \A i \in 1 .. Len(b) : ((b \o <<x>>) \o items)[i] = b[i]
         /\ \A i \in 1 .. Len(items) : ((b \o <<x>>) \o items)[(Len(b) + 1) + i] = items[i]
<1> DEFINE m == Len(b)
           k == Len(items)
           h == b \o <<x>>
<1>0. m \in Nat /\ k \in Nat /\ m = Len(b) /\ k = Len(items)
  BY LenProperties
<1>1. h = Append(b, x)
  BY AppendIsConcat
<1>2. h \in Seq(V) /\ Len(h) = m + 1 /\ h[m + 1] = x /\ \A i \in 1 .. m : h[i] = b[i]
  BY <1>1, AppendProperties
<1> HIDE DEF h, m, k
<1> DEFINE u == h \o items
<1>3. /\ u \in Seq(V) /\ Len(u) = (m + 1) + k
      /\ \A i \in 1 .. (m + 1) + k : u[i] = IF i <= m + 1 THEN h[i] ELSE items[i - (m + 1)]
  <2>1. /\ u \in Seq(V) /\ Len(u) = Len(h) + Len(items)
        /\ \A i \in 1 .. Len(h) + Len(items) : u[i] = IF i <= Len(h) THEN h[i] ELSE items[i - Len(h)]
    BY <1>2, ConcatProperties
  <2> HIDE DEF u
  <2>2. Len(h) = m + 1 /\ Len(items) = k
    BY <1>0, <1>2
  <2> QED
    BY <2>1, <2>2, Zenon
<1> HIDE DEF u
<1>4. u[m + 1] = x /\ \A i \in 1 .. m : u[i] = b[i]
  BY <1>0, <1>2, <1>3
<1>5. \A i \in 1 .. k : u[(m + 1) + i] = items[i]
  <2> TAKE i \in 1 .. k
  <2>1. (m + 1) + i \in 1 .. (m + 1) + k /\ ~((m + 1) + i <= m + 1)
        /\ ((m + 1) + i) - (m + 1) = i
    BY <1>0
  <2> QED
    BY <1>3, <2>1
<1> QED
  BY <1>3, <1>4, <1>5, Zenon DEF u, h, m, k

(* At its end an object or an array takes its items from the stack of values. *)
LEMMA BuildEnds ==
  ASSUME NEW V, NEW b \in Seq(V), NEW type, Scalar(type) \in V, NEW items \in Seq(V),
         NEW e, e.call \in {"EndObject", "EndArray"},
         Len(items) = IF e.call = "EndObject" THEN 2 * e.n ELSE e.n
  PROVE  Build((b \o <<Scalar(type)>>) \o items, e) = Append(b, Container(type, items))
<1> DEFINE x == Scalar(type)
           s == (b \o <<x>>) \o items
           m == Len(b)
           k == Len(items)
           count == IF e.call = "EndObject" THEN 2 * e.n ELSE e.n
           base == Len(s) - count
<1>1. m \in Nat /\ k \in Nat
  BY LenProperties
<1>2. count = k
  OBVIOUS
<1>3. Build(s, e) = Append(SubSeq(s, 1, base - 1),
                           [s[base] EXCEPT !.items = SubSeq(s, base + 1, Len(s))])
  <2>1. e.call \notin Scalars /\ e.call \notin {"Key", "StartObject", "StartArray"}
    BY DEF Scalars
  <2> QED
    BY <2>1, Zenon DEF Build
<1> HIDE DEF count
<1>4. s \in Seq(V) /\ Len(s) = (m + 1) + k /\ s[m + 1] = x
  BY JoinItems
<1>9. \A i \in 1 .. m : s[i] = b[i]
  BY JoinItems
<1>10. \A i \in 1 .. k : s[(m + 1) + i] = items[i]
  BY JoinItems
<1>0. m = Len(b) /\ k = Len(items)
  OBVIOUS
<1> HIDE DEF s, base
<1>5. base = m + 1 /\ base - 1 = m /\ base + 1 = m + 2
  <2> HIDE DEF m, k, x
  <2> QED
    BY <1>1, <1>2, <1>4 DEF base
<1>6. SubSeq(s, 1, m) = b /\ SubSeq(s, m + 2, (m + 1) + k) = items
  <2> HIDE DEF x
  <2> QED
    BY <1>4, <1>9, <1>10, CutItems
<1>7. Build(s, e) = Append(b, [x EXCEPT !.items = items])
  BY <1>3, <1>4, <1>5, <1>6, Zenon
<1>8. [x EXCEPT !.items = items] = Container(type, items)
  BY DEF Scalar, Container
<1> QED
  BY <1>7, <1>8, Zenon DEF s

(* The calls made for an object or an array so far. *)
Opener(type) == IF type = "object" THEN "StartObject" ELSE "StartArray"

(* The calls made for a container so far: its opening and its items. *)
Inside(type, items) ==
  <<Event(Opener(type), 0)>>
    \o FlattenSeq([i \in 1 .. Len(items) |->
                     ItemCalls(Container(type, items), i, Visit[MaxTokens])])

(* A function on 1..n is a sequence. *)
LEMMA CallSequences ==
  ASSUME NEW n \in Nat, NEW f, NEW S, f = [i \in 1 .. n |-> f[i]], \A i \in 1 .. n : f[i] \in S
  PROVE  f \in Seq(S) /\ Len(f) = n
OBVIOUS

(* The members of the sequences in a sequence. *)
LEMMA FlattenType ==
  ASSUME NEW E, NEW s \in Seq(Seq(E))
  PROVE  FlattenSeq(s) \in Seq(E)
<1>1. <<>> \in Seq(E)
  BY EmptySeq
<1> QED
  BY <1>1, FlattenAppend

(* Visit makes calls. *)
LEMMA VisitType ==
  ASSUME NEW d \in 0 .. MaxTokens, NEW v \in Nested[d]
  PROVE  Visit[d][v] \in Seq(AnyEvs)
<1>1. MaxTokens \in Nat
  BY JsonAssumption
<1> DEFINE S == {k \in Nat : k <= MaxTokens => \A x \in Nested[k] : Visit[k][x] \in Seq(AnyEvs)}
<1>2. ASSUME NEW k \in Nat, k <= MaxTokens, NEW x \in Nested[k], NEW calls,
             \A i \in 1 .. Len(x.items) : calls[x.items[i]] \in Seq(AnyEvs)
      PROVE  ValueCalls(x, calls) \in Seq(AnyEvs)
  <2>1. Nested[k] = NestedAt(k, Nested[k - 1])
    BY <1>1, <1>2, NestedRec
  <2>2. x.type \in Types /\ Len(x.items) \in Nat
    <3>1. CASE k = 0
      BY <2>1, <3>1, EmptySeq DEF NestedAt
    <3>2. CASE k # 0
      <4>1. x.type \in Types /\ x.items \in Seq(Nested[k - 1])
        BY <2>1, <3>2 DEF NestedAt
      <4> QED
        BY <4>1, LenProperties
    <3> QED
      BY <3>1, <3>2
  <2> DEFINE n == Len(x.items)
             f == [i \in 1 .. n |-> ItemCalls(x, i, calls)]
  <2>3. Event("Key", 0) \in AnyEvs
    BY DEF Event, AnyEvs, Calls
  <2>4. \A i \in 1 .. n : ItemCalls(x, i, calls) \in Seq(AnyEvs)
    BY <1>2, <2>3 DEF ItemCalls
  <2>5. f \in Seq(Seq(AnyEvs))
    <3>1. f = [i \in 1 .. n |-> f[i]] /\ \A i \in 1 .. n : f[i] \in Seq(AnyEvs)
      BY <2>4
    <3> HIDE DEF f
    <3> QED
      BY <2>2, <3>1, CallSequences
  <2>6. FlattenSeq(f) \in Seq(AnyEvs)
    BY <2>5, FlattenType
  <2> HIDE DEF f
  <2>7. \A m \in Nat, c \in Calls \cup Types : <<Event(c, m)>> \in Seq(AnyEvs)
    <3> TAKE m \in Nat, c \in Calls \cup Types
    <3>1. Event(c, m) \in AnyEvs
      BY DEF Event, AnyEvs
    <3> QED
      BY <3>1
  <2>8. n \in Nat /\ n \div 2 \in Nat
    <3>1. n \in Nat
      BY <2>2
    <3> HIDE DEF n
    <3> QED
      BY <3>1
  <2>9. /\ "StartObject" \in Calls \cup Types /\ "EndObject" \in Calls \cup Types
        /\ "StartArray" \in Calls \cup Types /\ "EndArray" \in Calls \cup Types
        /\ x.type \in Calls \cup Types /\ 0 \in Nat
    BY <2>2 DEF Calls
  <2>10. CASE x.type = "object"
    <3>1. ValueCalls(x, calls) =
            <<Event("StartObject", 0)>> \o FlattenSeq(f) \o <<Event("EndObject", n \div 2)>>
      BY <2>10, Zenon DEF ValueCalls, f
    <3>2. <<Event("StartObject", 0)>> \in Seq(AnyEvs)
          /\ <<Event("EndObject", n \div 2)>> \in Seq(AnyEvs)
      BY <2>7, <2>8, <2>9
    <3> HIDE DEF n
    <3> QED
      BY <2>6, <3>1, <3>2, ConcatProperties
  <2>11. CASE x.type = "array"
    <3>1. ValueCalls(x, calls) =
            <<Event("StartArray", 0)>> \o FlattenSeq(f) \o <<Event("EndArray", n)>>
      BY <2>11 DEF ValueCalls, f
    <3>2. <<Event("StartArray", 0)>> \in Seq(AnyEvs) /\ <<Event("EndArray", n)>> \in Seq(AnyEvs)
      BY <2>7, <2>8, <2>9
    <3> HIDE DEF n
    <3> QED
      BY <2>6, <3>1, <3>2, ConcatProperties
  <2>12. CASE x.type \notin {"object", "array"}
    <3>1. ValueCalls(x, calls) = <<Event(x.type, 0)>>
      BY <2>12 DEF ValueCalls
    <3> QED
      BY <2>7, <2>9, <3>1
  <2> QED
    BY <2>10, <2>11, <2>12
<1>3. 0 \in S
  <2> SUFFICES ASSUME NEW x \in Nested[0] PROVE Visit[0][x] \in Seq(AnyEvs)
    OBVIOUS
  <2>1. 0 \in 0 .. MaxTokens
    BY <1>1
  <2>2. Nested[0] = NestedAt(0, Nested[0 - 1]) /\ Visit[0] = VisitAt(0, Visit[0 - 1])
    BY <2>1, NestedRec, VisitRec
  <2>3. Len(x.items) = 0
    BY <2>2, EmptySeq DEF NestedAt
  <2>4. Visit[0][x] = ValueCalls(x, Visit[0 - 1])
    BY <2>2 DEF VisitAt
  <2>5. \A i \in 1 .. Len(x.items) : Visit[0 - 1][x.items[i]] \in Seq(AnyEvs)
    BY <2>3
  <2> QED
    BY <1>1, <1>2, <2>4, <2>5
<1>4. ASSUME NEW k \in S PROVE k + 1 \in S
  <2> SUFFICES ASSUME k + 1 <= MaxTokens, NEW x \in Nested[k + 1]
               PROVE  Visit[k + 1][x] \in Seq(AnyEvs)
    OBVIOUS
  <2>1. \A y \in Nested[k] : Visit[k][y] \in Seq(AnyEvs)
    BY <1>1
  <2>2. k + 1 \in 0 .. MaxTokens /\ (k + 1) - 1 = k /\ k + 1 # 0 /\ k + 1 \in Nat
    BY <1>1
  <2>3. Nested[k + 1] = NestedAt(k + 1, Nested[(k + 1) - 1])
        /\ Visit[k + 1] = VisitAt(k + 1, Visit[(k + 1) - 1])
    BY <2>2, NestedRec, VisitRec, Zenon
  <2>4. x.items \in Seq(Nested[k])
    BY <2>2, <2>3 DEF NestedAt
  <2>5. Visit[k + 1][x] = ValueCalls(x, Visit[k])
    BY <2>2, <2>3 DEF VisitAt
  <2>6. \A i \in 1 .. Len(x.items) : Visit[k][x.items[i]] \in Seq(AnyEvs)
    BY <2>1, <2>4, ElementOfSeq
  <2> HIDE DEF S
  <2> QED
    BY <1>2, <2>2, <2>5, <2>6
<1>5. S = Nat
  <2>1. S \in SUBSET Nat
    OBVIOUS
  <2> HIDE DEF S
  <2> QED
    BY <1>3, <1>4, <2>1, Induction
<1> QED
  BY <1>1, <1>5

(* Accept makes calls. *)
LEMMA AcceptType ==
  ASSUME NEW v \in Nested[MaxTokens]
  PROVE  Accept(v) \in Seq(AnyEvs)
<1>1. MaxTokens \in 0 .. MaxTokens
  BY JsonAssumption
<1> QED
  BY <1>1, VisitType DEF Accept

-------------------------------------------------------------------------------
(* The calls made for a container                                             *)

(* The items of a value that a text can have. *)
ItemsOf == Seq(Nested[MaxTokens])

(* The calls made for a further item of an object or an array. *)
ItemOf(type, items, v) ==
  IF type = "object" /\ (Len(items) + 1) % 2 = 1 THEN <<Event("Key", 0)>> ELSE Accept(v)

(* The calls made for each of the items. *)
Parts(type, items) ==
  [i \in 1 .. Len(items) |-> ItemCalls(Container(type, items), i, Visit[MaxTokens])]

(* They are calls, for as many items. *)
LEMMA PartsType ==
  ASSUME NEW type, NEW items \in ItemsOf
  PROVE  Parts(type, items) \in Seq(Seq(AnyEvs)) /\ Len(Parts(type, items)) = Len(items)
<1>1. Event("Key", 0) \in AnyEvs
  BY DEF Event, AnyEvs, Calls
<1>2. <<Event("Key", 0)>> \in Seq(AnyEvs)
  BY <1>1
<1>3. ASSUME NEW i \in 1 .. Len(items)
      PROVE  ItemCalls(Container(type, items), i, Visit[MaxTokens]) \in Seq(AnyEvs)
  <2>1. items[i] \in Nested[MaxTokens]
    BY ElementOfSeq DEF ItemsOf
  <2>2. Visit[MaxTokens][items[i]] \in Seq(AnyEvs)
    BY <2>1, AcceptType DEF Accept
  <2>3. Container(type, items).items = items
    BY DEF Container
  <2> QED
    BY <1>2, <2>2, <2>3 DEF ItemCalls
<1> DEFINE f == Parts(type, items)
           n == Len(items)
<1>4. n \in Nat /\ f = [i \in 1 .. n |-> f[i]] /\ \A i \in 1 .. n : f[i] \in Seq(AnyEvs)
  BY <1>3, LenProperties DEF Parts, ItemsOf
<1> HIDE DEF f, n
<1>5. f \in Seq(Seq(AnyEvs)) /\ Len(f) = n
  BY <1>4, CallSequences
<1> QED
  BY <1>5 DEF f, n

(* One more item has its own calls. *)
LEMMA PartsGrow ==
  ASSUME NEW type, NEW items \in ItemsOf, NEW v \in Nested[MaxTokens]
  PROVE  Parts(type, Append(items, v)) = Append(Parts(type, items), ItemOf(type, items, v))
<1> DEFINE more == Append(items, v)
           n == Len(items)
           x == ItemOf(type, items, v)
           f == Parts(type, items)
           g == Parts(type, more)
<1>1. n \in Nat /\ more \in ItemsOf /\ Len(more) = n + 1 /\ more[n + 1] = v
      /\ \A i \in 1 .. n : more[i] = items[i]
  BY AppendProperties, LenProperties DEF ItemsOf
<1>2. Container(type, items).type = type /\ Container(type, items).items = items
      /\ Container(type, more).type = type /\ Container(type, more).items = more
  BY DEF Container
<1>3. f \in Seq(Seq(AnyEvs)) /\ Len(f) = n /\ g \in Seq(Seq(AnyEvs)) /\ Len(g) = n + 1
  BY <1>1, PartsType
<1>4. \A i \in 1 .. n : g[i] = f[i]
  <2> TAKE i \in 1 .. n
  <2>1. i \in 1 .. n + 1 /\ more[i] = items[i]
    BY <1>1
  <2>2. g[i] = ItemCalls(Container(type, more), i, Visit[MaxTokens])
    BY <1>1, <2>1 DEF Parts
  <2>3. f[i] = ItemCalls(Container(type, items), i, Visit[MaxTokens])
    BY DEF Parts
  <2> QED
    BY <1>2, <2>1, <2>2, <2>3, Zenon DEF ItemCalls
<1>5. g[n + 1] = x
  <2>1. n + 1 \in 1 .. n + 1
    BY <1>1
  <2>2. g[n + 1] = ItemCalls(Container(type, more), n + 1, Visit[MaxTokens])
    BY <1>1, <2>1 DEF Parts
  <2> QED
    BY <1>1, <1>2, <2>2, Zenon DEF ItemCalls, ItemOf, Accept
<1> HIDE DEF f, g, x, n
<1>6. x \in Seq(AnyEvs)
  <2>1. n + 1 \in 1 .. Len(g)
    BY <1>1, <1>3
  <2> QED
    BY <1>3, <1>5, <2>1, ElementOfSeq
<1> DEFINE h == Append(f, x)
<1>7. h \in Seq(Seq(AnyEvs)) /\ Len(h) = n + 1 /\ h[n + 1] = x /\ \A i \in 1 .. n : h[i] = f[i]
  BY <1>3, <1>6, AppendProperties
<1> HIDE DEF h
<1>8. \A i \in 1 .. n + 1 : g[i] = h[i]
  BY <1>1, <1>4, <1>5, <1>7
<1>9. g = h
  BY <1>3, <1>7, <1>8, SeqEqual
<1> QED
  BY <1>9 DEF f, g, h, x

(* The opening of a container is a call. *)
LEMMA OpenerCall ==
  ASSUME NEW type
  PROVE  <<Event(Opener(type), 0)>> \in Seq(AnyEvs)
<1>1. Event(Opener(type), 0) \in AnyEvs
  BY DEF Event, AnyEvs, Opener, Calls
<1> QED
  BY <1>1

(* A container without items so far. *)
LEMMA InsideNil ==
  ASSUME NEW type
  PROVE  Inside(type, <<>>) = <<Event(Opener(type), 0)>>
<1>1. Parts(type, <<>>) = <<>>
  BY DEF Parts
<1>2. FlattenSeq(<<>>) = <<>>
  BY DEF FlattenSeq
<1>3. Inside(type, <<>>) = <<Event(Opener(type), 0)>> \o <<>>
  BY <1>1, <1>2, Zenon DEF Inside, Parts
<1> QED
  BY <1>3, OpenerCall, ConcatEmptySeq

(* The calls inside a container are calls. *)
LEMMA InsideType ==
  ASSUME NEW type, NEW items \in ItemsOf
  PROVE  Inside(type, items) \in Seq(AnyEvs)
<1>1. FlattenSeq(Parts(type, items)) \in Seq(AnyEvs)
  BY PartsType, FlattenType
<1> QED
  BY <1>1, OpenerCall, ConcatProperties DEF Inside, Parts

(* The calls of an item are calls. *)
LEMMA ItemOfType ==
  ASSUME NEW type, NEW items \in ItemsOf, NEW v \in Nested[MaxTokens]
  PROVE  ItemOf(type, items, v) \in Seq(AnyEvs)
<1>1. Event("Key", 0) \in AnyEvs
  BY DEF Event, AnyEvs, Calls
<1> QED
  BY <1>1, AcceptType DEF ItemOf

(* One more item in a container. *)
LEMMA InsideGrows ==
  ASSUME NEW type, NEW items \in ItemsOf, NEW v \in Nested[MaxTokens]
  PROVE  Inside(type, Append(items, v)) = Inside(type, items) \o ItemOf(type, items, v)
<1> DEFINE f == Parts(type, items)
           x == ItemOf(type, items, v)
           o == <<Event(Opener(type), 0)>>
           F == FlattenSeq(f)
<1>1. Parts(type, Append(items, v)) = Append(f, x)
  BY PartsGrow
<1>2. f \in Seq(Seq(AnyEvs)) /\ x \in Seq(AnyEvs) /\ o \in Seq(AnyEvs)
  BY PartsType, ItemOfType, OpenerCall
<1>3. Inside(type, Append(items, v)) = o \o FlattenSeq(Parts(type, Append(items, v)))
  BY Zenon DEF Inside, Parts
<1>4. Inside(type, items) = o \o F
  BY Zenon DEF Inside, Parts
<1> HIDE DEF f, x, o
<1>5. FlattenSeq(Append(f, x)) = F \o x
  BY <1>2, FlattenAppend
<1>6. F \in Seq(AnyEvs)
  BY <1>2, FlattenType
<1> HIDE DEF F
<1>7. o \o (F \o x) = (o \o F) \o x
  BY <1>2, <1>6, ConcatAssociative, SMTT(30)
<1> QED
  BY <1>1, <1>3, <1>4, <1>5, <1>7, Zenon DEF x

(* At its end the calls made for an object or an array are the ones Accept    *)
(* makes for it.                                                              *)
LEMMA InsideDone ==
  ASSUME NEW d \in Nat, d + 1 <= MaxTokens, NEW items \in Seq(Nested[d])
  PROVE  /\ Accept(Container("object", items)) =
              Inside("object", items) \o <<Event("EndObject", Len(items) \div 2)>>
         /\ Accept(Container("array", items)) =
              Inside("array", items) \o <<Event("EndArray", Len(items))>>
<1>1. "object" \in Types /\ "array" \in Types
  BY DEF Types
<1>2. Container("object", items) \in Nested[d + 1]
      /\ Container("array", items) \in Nested[d + 1]
  BY <1>1, NestedValue DEF Container
<1>3. /\ Container("object", items).type = "object" /\ Container("object", items).items = items
      /\ Container("array", items).type = "array" /\ Container("array", items).items = items
  BY DEF Container
<1>4. Accept(Container("object", items)) = ValueCalls(Container("object", items), Visit[MaxTokens])
      /\ Accept(Container("array", items)) = ValueCalls(Container("array", items), Visit[MaxTokens])
  BY <1>2, <1>3, AcceptValue
<1>5. Opener("object") = "StartObject" /\ Opener("array") = "StartArray"
  BY DEF Opener
<1>6. ValueCalls(Container("object", items), Visit[MaxTokens]) =
        (<<Event("StartObject", 0)>> \o FlattenSeq(Parts("object", items)))
          \o <<Event("EndObject", Len(items) \div 2)>>
  BY <1>3, Zenon DEF ValueCalls, Parts
<1>7. ValueCalls(Container("array", items), Visit[MaxTokens]) =
        (<<Event("StartArray", 0)>> \o FlattenSeq(Parts("array", items)))
          \o <<Event("EndArray", Len(items))>>
  BY <1>3 DEF ValueCalls, Parts
<1>8. Inside("object", items) = <<Event("StartObject", 0)>> \o FlattenSeq(Parts("object", items))
      /\ Inside("array", items) = <<Event("StartArray", 0)>> \o FlattenSeq(Parts("array", items))
  BY <1>5, Zenon DEF Inside, Parts
<1> QED
  BY <1>4, <1>6, <1>7, <1>8, Zenon

(* The call made for a scalar. *)
LEMMA AcceptScalar ==
  ASSUME NEW t \in Scalars, NEW d \in 0 .. MaxTokens
  PROVE  Scalar(t) \in Nested[d] /\ Accept(Scalar(t)) = <<Event(t, 0)>>
<1>1. t \in Types /\ 0 \in 0 .. MaxTokens
  BY JsonAssumption DEF Types
<1>2. Scalar(t) \in Nested[d] /\ Scalar(t) \in Nested[0]
  BY <1>1, NestedScalar
<1>3. Accept(Scalar(t)) = Visit[0][Scalar(t)]
  BY <1>1, <1>2, AcceptAt
<1>4. Visit[0] = VisitAt(0, Visit[0 - 1])
  BY <1>1, VisitRec
<1>5. Visit[0][Scalar(t)] = ValueCalls(Scalar(t), Visit[0 - 1])
  BY <1>2, <1>4 DEF VisitAt
<1>6. Scalar(t).type = t /\ t # "object" /\ t # "array"
  BY DEF Scalar, Scalars
<1>7. ValueCalls(Scalar(t), Visit[0 - 1]) = <<Event(t, 0)>>
  BY <1>6 DEF ValueCalls
<1> QED
  BY <1>2, <1>3, <1>5, <1>7

-------------------------------------------------------------------------------
(* The invariant of reading and writing                                       *)

(* The machine c has made calls for a document: c is in no error, and what    *)
(* it has called makes values.                                                *)
Sound(c) ==
  /\ c = Cfg(c.state, c.stack, c.events)
  /\ c.stack \in Stacks
  /\ c.events \in Seq(AnyEvs)
  /\ Built(c.events) \in ItemsOf

(* Nothing has been read, or one value that has no container, q is the text. *)
Rooted(c, d, q) ==
  /\ c.stack = <<>>
  /\ \/ c.state = "Start" /\ c.events = <<>> /\ q = <<>>
     \/ /\ c.state = "Finish"
        /\ \E v \in Nested[d] : /\ Built(c.events) = <<v>>
                                /\ c.events = Accept(v)
                                /\ Output(c.events) = [levels |-> <<>>, out |-> q]

(* The type of the container that state s is in. *)
Kind(s) == IF InArray(s) THEN "array" ELSE "object"

(* The container that was opened in c0 has these items in c, u is written. *)
Fills(c0, c, n, type, items, u) ==
  /\ c.stack = Pushed(c0.stack, Holding(c0.state), n)
  /\ Placed(c.state, n)
  /\ type = Kind(c.state)
  /\ Len(items) = Count(c.state, n)
  /\ Built(c.events) = (Built(c0.events) \o <<Scalar(type)>>) \o items
  /\ c.events = c0.events \o Inside(type, items)
  /\ Prefix(Output(c0.events)) \in Outputs
  /\ Output(c.events) = [levels |-> Append(Prefix(Output(c0.events)).levels, Level(c.state, n)),
                         out    |-> u]

(* The machine M[i], which has read the text q without its white space, is    *)
(* sound, and what it has called belongs to a document that is complete or is *)
(* empty, or to a container that was opened at j and has these items.         *)
Explained(M, i, q) ==
  /\ Sound(M[i])
  /\ \/ Rooted(M[i], i - 1, q)
     \/ \E j \in 1 .. i - 1, n \in Nat, items \in Seq(Nested[i - 1]), u \in Seq(Marks) :
          /\ Sound(M[j]) /\ M[j].state \in Expecting
          /\ Fills(M[j], M[i], n, Kind(M[i].state), items, u)
          /\ q = u \o Pending(M[i].state)

(* The type of a container is a type. *)
LEMMA KindTypes ==
  ASSUME NEW s
  PROVE  Kind(s) \in Types /\ Kind(s) \in {"object", "array"}
  /\ Scalar(Kind(s)) \in Nested[MaxTokens]
<1>1. Kind(s) \in Types /\ Kind(s) \in {"object", "array"}
  BY DEF Kind, Types
<1>2. MaxTokens \in 0 .. MaxTokens
  BY JsonAssumption
<1> QED
  BY <1>1, <1>2, NestedScalar

(* Items nested at most d deep are also nested at most e deep. *)
LEMMA DeeperItems ==
  ASSUME NEW d \in 0 .. MaxTokens, NEW e \in d .. MaxTokens, NEW items \in Seq(Nested[d])
  PROVE  items \in Seq(Nested[e])
BY NestedDeeper, SeqMonotonic

(* Items nested at most d deep are items. *)
LEMMA AllItems ==
  ASSUME NEW d \in 0 .. MaxTokens, NEW items \in Seq(Nested[d])
  PROVE  items \in ItemsOf
<1>1. MaxTokens \in d .. MaxTokens
  BY JsonAssumption
<1> QED
  BY <1>1, DeeperItems DEF ItemsOf

(* Where c takes a name or a value Prefix writes what is pending. *)
LEMMA FillsReady ==
  ASSUME NEW c0, NEW c, NEW n \in Nat, NEW type, NEW items, NEW u \in Seq(Marks),
         Fills(c0, c, n, type, items, u), NEW s1, Takes(c.state, s1)
  PROVE  /\ Prefix(Output(c.events)) =
              [levels |-> Append(Prefix(Output(c0.events)).levels, Level(s1, n)),
               out    |-> u \o Pending(c.state)]
         /\ Prefix(Output(c.events)) \in Outputs
<1> DEFINE L == Prefix(Output(c0.events)).levels
           s == c.state
<1>1. L \in Seq(Levels) /\ Placed(s, n) /\ Takes(s, s1)
      /\ Output(c.events) = [levels |-> Append(L, Level(s, n)), out |-> u]
  BY OutputFields DEF Fills
<1>0. Takes(s, s1) /\ Placed(s, n) /\ L \in Seq(Levels)
  BY <1>1
<1> HIDE DEF L, s
<1>2. Prefix(Output(c.events)) = [levels |-> Append(L, Level(s1, n)), out |-> u \o Pending(s)]
  <2>1. Prefix([levels |-> Append(L, Level(s, n)), out |-> u]) =
          [levels |-> Append(L, Level(s1, n)), out |-> u \o Pending(s)]
    BY <1>0, PrefixInside, ZenonT(40)
  <2> QED
    BY <1>1, <2>1, Zenon
<1>3. Level(s1, n) \in Levels
  <2>1. Count(s1, n) \in Nat
    <3>1. Count(s1, n) = Count(s, n) + 1 /\ Count(s, n) \in Nat
      BY <1>0, TakesCounts
    <3> QED
      BY <3>1
  <2> QED
    BY <2>1 DEF Level, Levels, InArray
<1>4. Append(L, Level(s1, n)) \in Seq(Levels)
  BY <1>1, <1>3, AppendProperties
<1>5. u \o Pending(s) \in Seq(Marks)
  <2>1. "Comma" \in Marks /\ "Colon" \in Marks
    BY DEF Marks
  <2>2. Pending(s) \in Seq(Marks)
    BY <2>1 DEF Pending
  <2> QED
    BY <2>2, ConcatProperties
<1>6. Prefix(Output(c.events)) \in Outputs
  BY <1>2, <1>4, <1>5 DEF Outputs
<1> QED
  BY <1>2, <1>6, Zenon DEF L, s

(* A value is taken where one is expected. *)
LEMMA ExpectingTakes ==
  ASSUME NEW s \in Expecting, s # "Start"
  PROVE  Takes(s, Holding(s))
BY DEF Expecting, Takes, Holding

(* Where a value is expected Prefix has written all the text. *)
LEMMA Ready ==
  ASSUME NEW M, NEW i, NEW q, Explained(M, i, q), M[i].state \in Expecting
  PROVE  Prefix(Output(M[i].events)) \in Outputs /\ Prefix(Output(M[i].events)).out = q
<1> DEFINE c == M[i]
<1>1. CASE Rooted(c, i - 1, q)
  <2>1. c.events = <<>> /\ q = <<>>
    BY <1>1 DEF Rooted, Expecting
  <2>2. Prefix(Output(c.events)) = NoOutput
    BY <2>1, OutputNil, PrefixOutside DEF NoOutput
  <2>3. NoOutput \in Outputs /\ NoOutput.out = <<>>
    BY EmptySeq DEF NoOutput, Outputs
  <2> QED
    BY <2>1, <2>2, <2>3
<1>2. CASE ~Rooted(c, i - 1, q)
  <2>1. PICK j \in 1 .. i - 1, n \in Nat, items \in Seq(Nested[i - 1]), u \in Seq(Marks) :
          /\ Fills(M[j], M[i], n, Kind(M[i].state), items, u)
          /\ q = u \o Pending(M[i].state)
    BY <1>2, Zenon DEF Explained
  <2>2. c.state # "Start"
    BY <2>1 DEF Fills, Placed, Inner
  <2>3. Takes(c.state, Holding(c.state))
    BY <2>2, ExpectingTakes
  <2>4. Prefix(Output(c.events)) =
              [levels |-> Append(Prefix(Output(M[j].events)).levels, Level(Holding(c.state), n)),
               out    |-> u \o Pending(c.state)]
         /\ Prefix(Output(c.events)) \in Outputs
    BY <2>1, <2>3, FillsReady
  <2> QED
    BY <2>1, <2>4
<1> QED
  BY <1>1, <1>2

(* A sequence of one member. *)
LEMMA Single ==
  ASSUME NEW S, NEW x \in S
  PROVE  <<x>> \in Seq(S)
OBVIOUS

(* A value that arrives in the container of c is its next item. *)
LEMMA ValueFills ==
  ASSUME NEW c0, NEW c, NEW c1, NEW n \in Nat, NEW items \in ItemsOf, NEW u \in Seq(Marks),
         Sound(c0), Sound(c), Fills(c0, c, n, Kind(c.state), items, u), NEW s1, Takes(c.state, s1),
         NEW v \in Nested[MaxTokens], NEW q1,
         c1.state = s1, c1.stack = c.stack,
         c1.events = c.events \o ItemOf(Kind(c.state), items, v),
         Built(c1.events) = Append(Built(c.events), v),
         Output(c1.events) = [levels |-> Prefix(Output(c.events)).levels, out |-> q1]
  PROVE  Fills(c0, c1, n, Kind(c1.state), Append(items, v), q1)
<1> DEFINE type == Kind(c.state)
           more == Append(items, v)
<1>1. Kind(c1.state) = type /\ Placed(c1.state, n)
  BY DEF Fills, Takes, Kind, InArray, Placed, Inner
<1>2. Len(more) = Count(c1.state, n)
  <2>1. Len(more) = Len(items) + 1
    BY AppendProperties DEF ItemsOf
  <2>2. Count(c1.state, n) = Count(c.state, n) + 1
    BY TakesCounts
  <2>3. Len(items) = Count(c.state, n)
    BY DEF Fills
  <2> QED
    BY <2>1, <2>2, <2>3
<1>3. Built(c1.events) = (Built(c0.events) \o <<Scalar(type)>>) \o more
  <2> DEFINE b == Built(c0.events) \o <<Scalar(type)>>
  <2>1. b \in ItemsOf
    <3>1. Built(c0.events) \in ItemsOf /\ Scalar(type) \in Nested[MaxTokens]
      BY KindTypes DEF Sound
    <3>2. <<Scalar(type)>> \in ItemsOf
      BY <3>1, Single DEF ItemsOf
    <3> QED
      BY <3>1, <3>2, ConcatProperties DEF ItemsOf
  <2>2. Built(c1.events) = Append(b \o items, v)
    BY DEF Fills
  <2> HIDE DEF b
  <2>3. Append(b \o items, v) = b \o Append(items, v)
    <3> DEFINE S == Nested[MaxTokens]
    <3>1. b \in Seq(S) /\ items \in Seq(S) /\ v \in S
      BY <2>1 DEF ItemsOf
    <3> HIDE DEF S
    <3>2. Append(items, v) = items \o <<v>> /\ <<v>> \in Seq(S)
      BY <3>1, AppendIsConcat
    <3>3. b \o items \in Seq(S)
      BY <3>1, ConcatProperties
    <3>4. Append(b \o items, v) = (b \o items) \o <<v>>
      BY <3>1, <3>3, AppendIsConcat
    <3>5. (b \o items) \o <<v>> = b \o (items \o <<v>>)
      BY <3>1, <3>2, ConcatAssociative, SMTT(30)
    <3> QED
      BY <3>2, <3>4, <3>5, Zenon
  <2> QED
    BY <2>2, <2>3, Zenon DEF b
<1>4. c1.events = c0.events \o Inside(type, more)
  <2> DEFINE I == Inside(type, items)
             x == ItemOf(type, items, v)
             e == c0.events
  <2>1. c1.events = (e \o I) \o x
    BY DEF Fills
  <2>2. Inside(type, more) = I \o x
    BY InsideGrows
  <2>3. e \in Seq(AnyEvs) /\ I \in Seq(AnyEvs) /\ x \in Seq(AnyEvs)
    BY InsideType, ItemOfType DEF Sound
  <2> HIDE DEF I, x, e
  <2>4. (e \o I) \o x = e \o (I \o x)
    BY <2>3, ConcatAssociative
  <2> QED
    BY <2>1, <2>2, <2>4, Zenon DEF e
<1>5. /\ Prefix(Output(c0.events)) \in Outputs
      /\ Output(c1.events) = [levels |-> Append(Prefix(Output(c0.events)).levels, Level(c1.state, n)),
                              out    |-> q1]
  <2>1. Prefix(Output(c.events)) =
          [levels |-> Append(Prefix(Output(c0.events)).levels, Level(s1, n)),
           out    |-> u \o Pending(c.state)]
    BY FillsReady
  <2>2. Prefix(Output(c.events)).levels = Append(Prefix(Output(c0.events)).levels, Level(s1, n))
    BY <2>1
  <2>3. Prefix(Output(c0.events)) \in Outputs
    BY DEF Fills
  <2> QED
    BY <2>2, <2>3, Zenon
<1>6. c1.stack = Pushed(c0.stack, Holding(c0.state), n)
  BY DEF Fills
<1> HIDE DEF type, more
<1>7. Fills(c0, c1, n, type, more, q1)
  BY <1>1, <1>2, <1>3, <1>4, <1>5, <1>6, Zenon DEF Fills
<1> QED
  BY <1>1, <1>7, Zenon DEF more

(* The calls made for a value in the place of a value. *)
LEMMA ValueItem ==
  ASSUME NEW s \in Expecting, s # "Start", NEW n \in Nat, NEW items, Len(items) = Count(s, n), NEW v
  PROVE  ItemOf(Kind(s), items, v) = Accept(v)
<1>1. CASE s = "KeyValueDelimiter"
  <2>1. (2 * n + 1 + 1) % 2 # 1
    OBVIOUS
  <2>2. Len(items) = 2 * n + 1
    BY <1>1 DEF Count
  <2>3. (Len(items) + 1) % 2 # 1
    BY <2>1, <2>2
  <2> QED
    BY <2>3 DEF ItemOf
<1>2. CASE s \in {"ArrayInitial", "ElementDelimiter"}
  <2>1. Kind(s) = "array"
    BY <1>2 DEF Kind, InArray
  <2> QED
    BY <2>1 DEF ItemOf
<1> QED
  BY <1>1, <1>2 DEF Expecting

(* The call made for a value in the place of a name. *)
LEMMA KeyItem ==
  ASSUME NEW s \in {"ObjectInitial", "MemberDelimiter"}, NEW n \in Nat, NEW items,
         Len(items) = Count(s, n), NEW v
  PROVE  ItemOf(Kind(s), items, v) = <<Event("Key", 0)>>
<1>1. (2 * n + 1) % 2 = 1
  OBVIOUS
<1>2. Len(items) = 2 * n
  BY DEF Count
<1>3. (Len(items) + 1) % 2 = 1
  BY <1>1, <1>2
<1>4. Kind(s) = "object"
  BY DEF Kind, InArray
<1> QED
  BY <1>3, <1>4 DEF ItemOf

-------------------------------------------------------------------------------
(* A value arrives                                                            *)

(* A value nested at most d deep is one. *)
LEMMA DeeperValue ==
  ASSUME NEW d \in 0 .. MaxTokens, NEW v \in Nested[d]
  PROVE  v \in Nested[MaxTokens]
<1>1. MaxTokens \in d .. MaxTokens
  BY JsonAssumption
<1> QED
  BY <1>1, NestedDeeper

(* A value read where one is expected is the root of the document or the next *)
(* item of its container.                                                     *)
LEMMA Arrives ==
  ASSUME NEW M, NEW i \in 2 .. MaxTokens + 1, NEW j \in 1 .. i - 1, NEW q, Explained(M, j, q),
         M[j].state \in Expecting, NEW v \in Nested[i - 1], NEW q1 \in Seq(Marks),
         M[i] = Cfg(Holding(M[j].state), M[j].stack, M[j].events \o Accept(v)),
         Built(M[i].events) = Append(Built(M[j].events), v),
         Output(M[i].events) = [levels |-> Prefix(Output(M[j].events)).levels, out |-> q1]
  PROVE  Explained(M, i, q1)
<1> DEFINE c == M[j]
           c1 == M[i]
<1>0. MaxTokens \in Nat /\ i - 1 \in 0 .. MaxTokens /\ j - 1 \in 0 .. MaxTokens
      /\ i - 1 \in (j - 1) .. MaxTokens
  BY JsonAssumption
<1>1. v \in Nested[MaxTokens]
  BY <1>0, DeeperValue
<1>2. Sound(c) /\ c.state \in Expecting /\ Explained(M, j, q)
  BY DEF Explained
<1>3. /\ c1.state = Holding(c.state) /\ c1.stack = c.stack /\ c1.events = c.events \o Accept(v)
      /\ c1 = Cfg(c1.state, c1.stack, c1.events)
  <2> DEFINE w == c.events \o Accept(v)
  <2>1. c1 = Cfg(Holding(c.state), c.stack, w)
    OBVIOUS
  <2> HIDE DEF w, c1
  <2>2. c1.state = Holding(c.state) /\ c1.stack = c.stack /\ c1.events = w
    BY <2>1, CfgFields
  <2> QED
    BY <2>1, <2>2, Zenon DEF w
<1>4. Sound(c1)
  <2>1. c1.events \in Seq(AnyEvs)
    <3>1. Accept(v) \in Seq(AnyEvs) /\ c.events \in Seq(AnyEvs)
      BY <1>1, <1>2, AcceptType DEF Sound
    <3>2. c.events \o Accept(v) \in Seq(AnyEvs)
      BY <3>1, ConcatProperties
    <3> QED
      BY <1>3, <3>2, Zenon
  <2>2. Built(c1.events) \in ItemsOf
    <3>1. Built(c.events) \in ItemsOf
      BY <1>2 DEF Sound
    <3>2. Append(Built(c.events), v) \in ItemsOf
      BY <1>1, <3>1, AppendProperties DEF ItemsOf
    <3> QED
      BY <3>2, Zenon
  <2>3. c1.stack \in Stacks
    BY <1>2, <1>3 DEF Sound
  <2> QED
    BY <1>3, <2>1, <2>2, <2>3, Zenon DEF Sound
<1>5. CASE Rooted(c, j - 1, q)
  <2>1. c.state = "Start" /\ c.events = <<>> /\ c.stack = <<>>
    BY <1>2, <1>5 DEF Rooted, Expecting
  <2>2. c1.state = "Finish" /\ c1.stack = <<>>
    BY <1>3, <2>1 DEF Holding
  <2>3. c1.events = Accept(v)
    <3>1. Accept(v) \in Seq(AnyEvs)
      BY <1>1, AcceptType
    <3>2. <<>> \o Accept(v) = Accept(v)
      BY <3>1, ConcatEmptySeq
    <3> QED
      BY <1>3, <2>1, <3>2, Zenon
  <2>4. Built(c1.events) = <<v>>
    <3>1. Built(c1.events) = Append(<<>>, v)
      BY <2>1, BuiltNil, Zenon
    <3>2. Append(<<>>, v) = <<v>>
      OBVIOUS
    <3> QED
      BY <3>1, <3>2, Zenon
  <2>5. Output(c1.events) = [levels |-> <<>>, out |-> q1]
    <3>1. Prefix(NoOutput) = NoOutput
      BY PrefixOutside DEF NoOutput
    <3>2. Prefix(Output(c.events)).levels = <<>>
      BY <2>1, <3>1, OutputNil DEF NoOutput
    <3> QED
      BY <3>2, Zenon
  <2>6. Rooted(c1, i - 1, q1)
    BY <2>2, <2>3, <2>4, <2>5, Zenon DEF Rooted
  <2> QED
    BY <1>4, <2>6, Zenon DEF Explained
<1>6. CASE ~Rooted(c, j - 1, q)
  <2>1. PICK k \in 1 .. j - 1, n \in Nat, items \in Seq(Nested[j - 1]), u \in Seq(Marks) :
          /\ Sound(M[k]) /\ M[k].state \in Expecting
          /\ Fills(M[k], M[j], n, Kind(M[j].state), items, u)
          /\ q = u \o Pending(M[j].state)
    BY <1>2, <1>6, Zenon DEF Explained
  <2> DEFINE more == Append(items, v)
  <2>2. c.state # "Start" /\ Len(items) = Count(c.state, n)
    BY <2>1 DEF Fills, Placed, Inner
  <2>3. Takes(c.state, Holding(c.state))
    BY <1>2, <2>2, ExpectingTakes
  <2>4. items \in ItemsOf
    BY <1>0, AllItems
  <2>5. ItemOf(Kind(c.state), items, v) = Accept(v)
    BY <1>2, <2>2, ValueItem
  <2>6. Fills(M[k], c1, n, Kind(c1.state), more, q1)
    <3>1. c1.events = c.events \o ItemOf(Kind(c.state), items, v)
      BY <1>3, <2>5, Zenon
    <3> HIDE DEF c, c1, more
    <3>2. Built(c1.events) = Append(Built(c.events), v)
      BY Zenon DEF c, c1
    <3>3. Output(c1.events) = [levels |-> Prefix(Output(c.events)).levels, out |-> q1]
      BY Zenon DEF c, c1
    <3>4. Fills(M[k], c, n, Kind(c.state), items, u)
      BY <2>1, Zenon DEF c
    <3> QED
      BY <1>1, <1>2, <1>3, <2>1, <2>3, <2>4, <3>1, <3>2, <3>3, <3>4, ValueFills DEF more
  <2>7. more \in Seq(Nested[i - 1])
    <3>1. items \in Seq(Nested[i - 1])
      BY <1>0, DeeperItems
    <3> QED
      BY <3>1, AppendProperties
  <2>8. q1 = q1 \o Pending(c1.state)
    <3>1. Pending(c1.state) = <<>>
      BY <1>3, <2>3, TakesCounts
    <3> QED
      BY <3>1, ConcatEmptySeq
  <2>9. k \in 1 .. i - 1
    BY <2>1
  <2> HIDE DEF more
  <2> QED
    BY <1>4, <2>1, <2>6, <2>7, <2>8, <2>9, Zenon DEF Explained
<1> QED
  BY <1>5, <1>6

-------------------------------------------------------------------------------
(* Values and openings                                                        *)

(* What makes the machine sound. *)
LEMMA SoundMade ==
  ASSUME NEW c1, NEW s1, NEW k \in Stacks, NEW w \in Seq(AnyEvs), Built(w) \in ItemsOf,
         c1 = Cfg(s1, k, w)
  PROVE  Sound(c1) /\ c1.state = s1 /\ c1.stack = k /\ c1.events = w
<1>1. c1.state = s1 /\ c1.stack = k /\ c1.events = w
  BY CfgFields
<1> QED
  BY <1>1, Zenon DEF Sound

(* Holding is one of Holdings. *)
LEMMA HoldingIsHolding ==
  ASSUME NEW s PROVE Holding(s) \in Holdings
BY DEF Holding, Holdings

(* Pushed makes a stack. *)
LEMMA PushedStack ==
  ASSUME NEW k \in Stacks, NEW h \in Holdings, NEW n \in Nat
  PROVE  Pushed(k, h, n) \in Stacks
<1> DEFINE K == Pushed(k, h, n)
<1> HIDE DEF K
<1>1. K = Pushed(k, h, n)
  BY DEF K
<1> QED
  BY <1>1, PushedTop DEF K

(* One more call as a sequence of one call. *)
LEMMA NotedConcat ==
  ASSUME NEW w \in Seq(AnyEvs), NEW call \in Calls, NEW n \in Nat
  PROVE  /\ Noted(w, call, n) = w \o <<Event(call, n)>>
         /\ Noted(w, call, n) \in Seq(AnyEvs)
         /\ <<Event(call, n)>> \in Seq(AnyEvs)
<1>1. Event(call, n) \in AnyEvs
  BY DEF Event, AnyEvs
<1> QED
  BY <1>1, AppendIsConcat, AppendProperties, Single DEF Noted

(* The next state of the machine, in the container that was opened at j. *)
LEMMA Continues ==
  ASSUME NEW M, NEW i \in 1 .. MaxTokens, NEW j \in 1 .. i, NEW n \in Nat,
         NEW items \in Seq(Nested[i]), NEW u \in Seq(Marks), NEW q1,
         Sound(M[i + 1]), Sound(M[j]), M[j].state \in Expecting,
         Fills(M[j], M[i + 1], n, Kind(M[i + 1].state), items, u),
         q1 = u \o Pending(M[i + 1].state)
  PROVE  Explained(M, i + 1, q1)
<1>1. (i + 1) - 1 = i
  OBVIOUS
<1> QED
  BY <1>1, Zenon DEF Explained

(* A scalar is read. *)
LEMMA ScalarReads ==
  ASSUME NEW M, NEW i \in 1 .. MaxTokens, NEW q \in Seq(Marks), Explained(M, i, q),
         M[i].state \in Expecting, NEW t \in Scalars, M[i + 1] = After(M[i], t)
  PROVE  Explained(M, i + 1, Append(q, t))
<1> DEFINE c == M[i]
           w == c.events
           q1 == Append(q, t)
           v == Scalar(t)
<1>0. MaxTokens \in Nat /\ i \in 0 .. MaxTokens /\ i + 1 \in 2 .. MaxTokens + 1
      /\ i \in 1 .. (i + 1) - 1 /\ (i + 1) - 1 = i
  BY JsonAssumption
<1>1. Sound(c) /\ Prefix(Output(w)) \in Outputs /\ Prefix(Output(w)).out = q
  BY Ready DEF Explained
<1>2. c = Cfg(c.state, c.stack, w) /\ w \in Seq(AnyEvs)
  BY <1>1, Zenon DEF Sound
<1>3. M[i + 1] = Cfg(Holding(c.state), c.stack, Noted(w, t, 0))
  <2>1. After(Cfg(c.state, c.stack, w), t) = Cfg(Holding(c.state), c.stack, Noted(w, t, 0))
    BY ScalarSteps
  <2> QED
    BY <1>2, <2>1, Zenon
<1>4. v \in Nested[(i + 1) - 1] /\ Accept(v) = <<Event(t, 0)>>
  BY <1>0, AcceptScalar
<1>5. Noted(w, t, 0) = w \o Accept(v)
  <2>1. t \in Calls /\ 0 \in Nat
    BY DEF Calls
  <2> QED
    BY <1>2, <1>4, <2>1, NotedConcat
<1>6. Built(Noted(w, t, 0)) = Append(Built(w), v)
  BY <1>2, BuiltScalar
<1>7. Output(Noted(w, t, 0)) = [levels |-> Prefix(Output(w)).levels, out |-> q1]
  <2>1. Output(Noted(w, t, 0)) =
          [levels |-> Prefix(Output(w)).levels, out |-> Append(Prefix(Output(w)).out, t)]
    BY <1>1, <1>2, OutputScalar
  <2> QED
    BY <1>1, <2>1, Zenon
<1>8. q1 \in Seq(Marks)
  <2>1. t \in Marks
    BY DEF Marks
  <2> QED
    BY <2>1, AppendProperties
<1>9. M[i + 1].events = Noted(w, t, 0)
  <2> DEFINE W == Noted(w, t, 0)
             c1 == M[i + 1]
  <2>1. c1 = Cfg(Holding(c.state), c.stack, W)
    BY <1>3
  <2> HIDE DEF W, c1
  <2>2. c1.events = W
    BY <2>1, CfgFields
  <2> QED
    BY <2>2, Zenon DEF W, c1
<1>10. /\ M[i + 1] = Cfg(Holding(M[i].state), M[i].stack, M[i].events \o Accept(v))
       /\ Built(M[i + 1].events) = Append(Built(M[i].events), v)
       /\ Output(M[i + 1].events) = [levels |-> Prefix(Output(M[i].events)).levels, out |-> q1]
  BY <1>3, <1>5, <1>6, <1>7, <1>9, Zenon
<1> HIDE DEF q1, v
<1>11. Explained(M, i + 1, q1)
  BY <1>0, <1>4, <1>8, <1>10, Arrives
<1> QED
  BY <1>11 DEF q1

(* An object is opened. *)
LEMMA ObjectOpens ==
  ASSUME NEW M, NEW i \in 1 .. MaxTokens, NEW q \in Seq(Marks), Explained(M, i, q),
         M[i].state \in Expecting, M[i + 1] = After(M[i], "LeftCurlyBracket")
  PROVE  Explained(M, i + 1, Append(q, "LeftCurlyBracket"))
<1> DEFINE c == M[i]
           w == c.events
           W == Noted(w, "StartObject", 0)
           c1 == M[i + 1]
           q1 == Append(q, "LeftCurlyBracket")
           h == Holding(c.state)
           P == Prefix(Output(w))
<1>0. MaxTokens \in Nat /\ i \in 1 .. i /\ i \in 0 .. MaxTokens
  BY JsonAssumption
<1>1. Sound(c) /\ P \in Outputs /\ P.out = q
  BY Ready DEF Explained
<1>2. c = Cfg(c.state, c.stack, w) /\ w \in Seq(AnyEvs) /\ c.stack \in Stacks
  BY <1>1, Zenon DEF Sound
<1>3. c1 = Cfg("ObjectInitial", Pushed(c.stack, h, 0), W)
  <2>1. After(Cfg(c.state, c.stack, w), "LeftCurlyBracket") =
          Cfg("ObjectInitial", Pushed(c.stack, h, 0), W)
    BY ObjectSteps
  <2> QED
    BY <1>2, <2>1, Zenon
<1>4. W = w \o Inside("object", <<>>) /\ W \in Seq(AnyEvs)
  <2>1. "StartObject" \in Calls /\ 0 \in Nat
    BY DEF Calls
  <2>2. W = w \o <<Event("StartObject", 0)>> /\ W \in Seq(AnyEvs)
    BY <1>2, <2>1, NotedConcat
  <2>3. Opener("object") = "StartObject"
    BY DEF Opener
  <2>4. Inside("object", <<>>) = <<Event("StartObject", 0)>>
    BY <2>3, InsideNil
  <2> QED
    BY <2>2, <2>4, Zenon
<1>5. Scalar("object") \in Nested[MaxTokens] /\ Kind("ObjectInitial") = "object"
  BY <1>0, NestedScalar DEF Types, Kind, InArray
<1>6. Built(W) = (Built(w) \o <<Scalar("object")>>) \o <<>> /\ Built(W) \in ItemsOf
  <2> DEFINE b == Built(w)
             x == Scalar("object")
             S == Nested[MaxTokens]
  <2>1. Built(W) = Append(b, x)
    BY <1>2, BuiltStart
  <2>2. b \in Seq(S) /\ x \in S
    BY <1>1, <1>5 DEF Sound, ItemsOf
  <2> HIDE DEF b, x, S
  <2>3. Append(b, x) = b \o <<x>> /\ Append(b, x) \in Seq(S)
    BY <2>2, AppendIsConcat, AppendProperties
  <2>4. (b \o <<x>>) \o <<>> = b \o <<x>>
    BY <2>3, ConcatEmptySeq
  <2>5. ItemsOf = Seq(S)
    BY DEF ItemsOf, S
  <2> QED
    BY <2>1, <2>3, <2>4, <2>5, Zenon DEF b, x
<1>7. Output(W) = [levels |-> Append(P.levels, Level("ObjectInitial", 0)), out |-> q1]
  <2>1. Output(W) = [levels |-> Append(P.levels, Level("ObjectInitial", 0)),
                     out |-> Append(P.out, "LeftCurlyBracket")]
    BY <1>1, <1>2, OutputStart
  <2> QED
    BY <1>1, <2>1, Zenon
<1>8. q1 \in Seq(Marks)
  <2>1. "LeftCurlyBracket" \in Marks
    BY DEF Marks
  <2> QED
    BY <2>1, AppendProperties
<1>9. Pushed(c.stack, h, 0) \in Stacks
  BY <1>2, HoldingIsHolding, PushedStack
<1>10. Sound(c1) /\ c1.state = "ObjectInitial" /\ c1.stack = Pushed(c.stack, h, 0)
       /\ c1.events = W
  <2> DEFINE K == Pushed(c.stack, h, 0)
  <2>1. c1 =
          Cfg("ObjectInitial", K, W) /\ W \in Seq(AnyEvs) /\ Built(W) \in ItemsOf
          /\ K \in Stacks
    BY <1>3, <1>4, <1>6, <1>9
  <2> HIDE DEF W, c1, K
  <2>2. Sound(c1) /\ c1.state = "ObjectInitial" /\ c1.stack = K /\ c1.events = W
    BY <2>1, SoundMade
  <2> QED
    BY <2>2, Zenon DEF K
<1>11. Placed("ObjectInitial", 0) /\ Count("ObjectInitial", 0) = 0
       /\ Pending("ObjectInitial") = <<>>
  BY DEF Placed, Inner, Count, Pending
<1>12. Len(<<>>) = 0 /\ <<>> \in Seq(Nested[i])
  OBVIOUS
<1>13. Fills(c, c1, 0, Kind(c1.state), <<>>, q1)
  BY <1>1, <1>4, <1>5, <1>6, <1>7, <1>10, <1>11, <1>12, Zenon DEF Fills
<1>14. q1 = q1 \o Pending(c1.state)
  <2>1. Pending(c1.state) = <<>>
    BY <1>10, <1>11, Zenon
  <2> HIDE DEF q1
  <2>2. q1 \o <<>> = q1
    BY <1>8, ConcatEmptySeq
  <2> QED
    BY <2>1, <2>2, Zenon
<1> HIDE DEF q1
<1>15. Explained(M, i + 1, q1)
  BY <1>0, <1>1, <1>8, <1>10, <1>12, <1>13, <1>14, Continues
<1> QED
  BY <1>15 DEF q1

(* An array is opened. *)
LEMMA ArrayOpens ==
  ASSUME NEW M, NEW i \in 1 .. MaxTokens, NEW q \in Seq(Marks), Explained(M, i, q),
         M[i].state \in Expecting, M[i + 1] = After(M[i], "LeftBracket")
  PROVE  Explained(M, i + 1, Append(q, "LeftBracket"))
<1> DEFINE c == M[i]
           w == c.events
           W == Noted(w, "StartArray", 0)
           c1 == M[i + 1]
           q1 == Append(q, "LeftBracket")
           h == Holding(c.state)
           P == Prefix(Output(w))
<1>0. MaxTokens \in Nat /\ i \in 1 .. i /\ i \in 0 .. MaxTokens
  BY JsonAssumption
<1>1. Sound(c) /\ P \in Outputs /\ P.out = q
  BY Ready DEF Explained
<1>2. c = Cfg(c.state, c.stack, w) /\ w \in Seq(AnyEvs) /\ c.stack \in Stacks
  BY <1>1, Zenon DEF Sound
<1>3. c1 = Cfg("ArrayInitial", Pushed(c.stack, h, 0), W)
  <2>1. After(Cfg(c.state, c.stack, w), "LeftBracket") =
          Cfg("ArrayInitial", Pushed(c.stack, h, 0), W)
    BY ArraySteps
  <2> QED
    BY <1>2, <2>1, Zenon
<1>4. W = w \o Inside("array", <<>>) /\ W \in Seq(AnyEvs)
  <2>1. "StartArray" \in Calls /\ 0 \in Nat
    BY DEF Calls
  <2>2. W = w \o <<Event("StartArray", 0)>> /\ W \in Seq(AnyEvs)
    BY <1>2, <2>1, NotedConcat
  <2>3. Opener("array") = "StartArray"
    BY DEF Opener
  <2>4. Inside("array", <<>>) = <<Event("StartArray", 0)>>
    BY <2>3, InsideNil
  <2> QED
    BY <2>2, <2>4, Zenon
<1>5. Scalar("array") \in Nested[MaxTokens] /\ Kind("ArrayInitial") = "array"
  BY <1>0, NestedScalar DEF Types, Kind, InArray
<1>6. Built(W) = (Built(w) \o <<Scalar("array")>>) \o <<>> /\ Built(W) \in ItemsOf
  <2> DEFINE b == Built(w)
             x == Scalar("array")
             S == Nested[MaxTokens]
  <2>1. Built(W) = Append(b, x)
    BY <1>2, BuiltStart
  <2>2. b \in Seq(S) /\ x \in S
    BY <1>1, <1>5 DEF Sound, ItemsOf
  <2> HIDE DEF b, x, S
  <2>3. Append(b, x) = b \o <<x>> /\ Append(b, x) \in Seq(S)
    BY <2>2, AppendIsConcat, AppendProperties
  <2>4. (b \o <<x>>) \o <<>> = b \o <<x>>
    BY <2>3, ConcatEmptySeq
  <2>5. ItemsOf = Seq(S)
    BY DEF ItemsOf, S
  <2> QED
    BY <2>1, <2>3, <2>4, <2>5, Zenon DEF b, x
<1>7. Output(W) = [levels |-> Append(P.levels, Level("ArrayInitial", 0)), out |-> q1]
  <2>1. Output(W) = [levels |-> Append(P.levels, Level("ArrayInitial", 0)),
                     out |-> Append(P.out, "LeftBracket")]
    BY <1>1, <1>2, OutputStart
  <2> QED
    BY <1>1, <2>1, Zenon
<1>8. q1 \in Seq(Marks)
  <2>1. "LeftBracket" \in Marks
    BY DEF Marks
  <2> QED
    BY <2>1, AppendProperties
<1>9. Pushed(c.stack, h, 0) \in Stacks
  BY <1>2, HoldingIsHolding, PushedStack
<1>10. Sound(c1) /\ c1.state = "ArrayInitial" /\ c1.stack = Pushed(c.stack, h, 0)
       /\ c1.events = W
  <2> DEFINE K == Pushed(c.stack, h, 0)
  <2>1. c1 =
          Cfg("ArrayInitial", K, W) /\ W \in Seq(AnyEvs) /\ Built(W) \in ItemsOf /\ K \in Stacks
    BY <1>3, <1>4, <1>6, <1>9
  <2> HIDE DEF W, c1, K
  <2>2. Sound(c1) /\ c1.state = "ArrayInitial" /\ c1.stack = K /\ c1.events = W
    BY <2>1, SoundMade
  <2> QED
    BY <2>2, Zenon DEF K
<1>11. Placed("ArrayInitial", 0) /\ Count("ArrayInitial", 0) = 0
       /\ Pending("ArrayInitial") = <<>>
  BY DEF Placed, Inner, Count, Pending
<1>12. Len(<<>>) = 0 /\ <<>> \in Seq(Nested[i])
  OBVIOUS
<1>13. Fills(c, c1, 0, Kind(c1.state), <<>>, q1)
  BY <1>1, <1>4, <1>5, <1>6, <1>7, <1>10, <1>11, <1>12, Zenon DEF Fills
<1>14. q1 = q1 \o Pending(c1.state)
  <2>1. Pending(c1.state) = <<>>
    BY <1>10, <1>11, Zenon
  <2> HIDE DEF q1
  <2>2. q1 \o <<>> = q1
    BY <1>8, ConcatEmptySeq
  <2> QED
    BY <2>1, <2>2, Zenon
<1> HIDE DEF q1
<1>15. Explained(M, i + 1, q1)
  BY <1>0, <1>1, <1>8, <1>10, <1>12, <1>13, <1>14, Continues
<1> QED
  BY <1>15 DEF q1

-------------------------------------------------------------------------------
(* Between the items                                                          *)

(* Inside a container the value is not complete. *)
LEMMA InsideOne ==
  ASSUME NEW M, NEW i, NEW q, Explained(M, i, q), M[i].state \in Inner
  PROVE  \E j \in 1 .. i - 1, n \in Nat, items \in Seq(Nested[i - 1]), u \in Seq(Marks) :
           /\ Sound(M[j]) /\ M[j].state \in Expecting
           /\ Fills(M[j], M[i], n, Kind(M[i].state), items, u)
           /\ q = u \o Pending(M[i].state)
<1>1. "Start" \notin Inner /\ "Finish" \notin Inner
  BY DEF Inner
<1>2. ~Rooted(M[i], i - 1, q)
  BY <1>1, Zenon DEF Rooted
<1> QED
  BY <1>2, Zenon DEF Explained

(* What is read between the items of a container. *)
LEMMA Separates ==
  ASSUME NEW M, NEW i \in 1 .. MaxTokens, NEW j \in 1 .. i - 1, NEW n \in Nat,
         NEW items \in Seq(Nested[i - 1]), NEW u \in Seq(Marks),
         Sound(M[i]), Sound(M[j]), M[j].state \in Expecting,
         Fills(M[j], M[i], n, Kind(M[i].state), items, u),
         NEW s1, NEW m \in Nat, Placed(s1, m), Count(s1, m) = Count(M[i].state, n),
         InArray(s1) = InArray(M[i].state),
         M[i + 1] = Cfg(s1, Pushed(M[j].stack, Holding(M[j].state), m), M[i].events),
         NEW q1, q1 = u \o Pending(s1)
  PROVE  Explained(M, i + 1, q1)
<1> DEFINE c0 == M[j]
           c == M[i]
           c1 == M[i + 1]
           K == Pushed(c0.stack, Holding(c0.state), m)
           w == c.events
<1>0. MaxTokens \in Nat /\ j \in 1 .. i /\ i - 1 \in 0 .. MaxTokens
      /\ i \in (i - 1) .. MaxTokens
  BY JsonAssumption
<1>1. K \in Stacks
  <2>1. c0.stack \in Stacks
    BY Zenon DEF Sound
  <2> QED
    BY <2>1, HoldingIsHolding, PushedStack
<1>2. w \in Seq(AnyEvs) /\ Built(w) \in ItemsOf
  BY Zenon DEF Sound
<1>3. Sound(c1) /\ c1.state = s1 /\ c1.stack = K /\ c1.events = w
  <2>1. c1 = Cfg(s1, K, w)
    OBVIOUS
  <2> HIDE DEF w, c1, K
  <2> QED
    BY <1>1, <1>2, <2>1, SoundMade
<1>4. Kind(s1) = Kind(c.state) /\ Level(s1, m) = Level(c.state, n)
  BY Zenon DEF Kind, Level
<1>5. Fills(c0, c1, m, Kind(c1.state), items, u)
  BY <1>3, <1>4, Zenon DEF Fills
<1>6. items \in Seq(Nested[i])
  BY <1>0, DeeperItems
<1>7. q1 = u \o Pending(c1.state)
  BY <1>3, Zenon
<1> QED
  BY <1>0, <1>3, <1>5, <1>6, <1>7, Continues

(* Where nothing is pending all the text is written. *)
LEMMA PendingNone ==
  ASSUME NEW u \in Seq(Marks), NEW s, Pending(s) = <<>>
  PROVE  u \o Pending(s) = u
<1>1. u \o <<>> = u
  BY ConcatEmptySeq
<1> QED
  BY <1>1, Zenon

(* One more token as a sequence of one token. *)
LEMMA MarkConcat ==
  ASSUME NEW u \in Seq(Marks), NEW t \in Marks
  PROVE  Append(u, t) = u \o <<t>> /\ Append(u, t) \in Seq(Marks)
BY AppendIsConcat, AppendProperties

(* A colon is read. *)
LEMMA ColonReads ==
  ASSUME NEW M, NEW i \in 1 .. MaxTokens, NEW q \in Seq(Marks), Explained(M, i, q),
         M[i].state = "MemberKey", M[i + 1] = After(M[i], "Colon")
  PROVE  Explained(M, i + 1, Append(q, "Colon"))
<1>1. "MemberKey" \in Inner /\ Pending("MemberKey") = <<>>
  BY DEF Inner, Pending
<1>2. PICK j \in 1 .. i - 1, n \in Nat, items \in Seq(Nested[i - 1]), u \in Seq(Marks) :
        /\ Sound(M[j]) /\ M[j].state \in Expecting
        /\ Fills(M[j], M[i], n, Kind(M[i].state), items, u)
        /\ q = u \o Pending(M[i].state)
  BY <1>1, InsideOne
<1>3. q = u
  BY <1>1, <1>2, PendingNone, Zenon
<1> DEFINE s1 == "KeyValueDelimiter"
           q1 == Append(q, "Colon")
<1>4. Sound(M[i])
  BY Zenon DEF Explained
<1>5. M[i].stack = Pushed(M[j].stack, Holding(M[j].state), n)
  BY <1>2, Zenon DEF Fills
<1>6. M[i + 1] = Cfg(s1, Pushed(M[j].stack, Holding(M[j].state), n), M[i].events)
  <2>1. M[i] = Cfg("MemberKey", M[i].stack, M[i].events)
    BY <1>4, Zenon DEF Sound
  <2>2. After(Cfg("MemberKey", M[i].stack, M[i].events), "Colon") =
          Cfg(s1, M[i].stack, M[i].events)
    BY ColonStep
  <2> QED
    BY <1>5, <2>1, <2>2, Zenon
<1>7. /\ Placed(s1, n) /\ Count(s1, n) = Count(M[i].state, n)
      /\ InArray(s1) = InArray(M[i].state)
  BY DEF Placed, Inner, Count, InArray
<1>8. q1 = u \o Pending(s1)
  <2>1. Pending(s1) = <<"Colon">> /\ "Colon" \in Marks
    BY DEF Pending, Marks
  <2>2. Append(u, "Colon") = u \o <<"Colon">>
    BY <2>1, MarkConcat
  <2> QED
    BY <1>3, <2>1, <2>2, Zenon
<1> HIDE DEF q1, s1
<1>9. Explained(M, i + 1, q1)
  BY <1>2, <1>4, <1>6, <1>7, <1>8, Separates
<1> QED
  BY <1>9 DEF q1

(* A comma is read. *)
LEMMA CommaReads ==
  ASSUME NEW M, NEW i \in 1 .. MaxTokens, NEW q \in Seq(Marks), Explained(M, i, q),
         M[i].state \in {"MemberValue", "Element"}, M[i + 1] = After(M[i], "Comma")
  PROVE  Explained(M, i + 1, Append(q, "Comma"))
<1>1. M[i].state \in Inner /\ Pending(M[i].state) = <<>>
  BY DEF Inner, Pending
<1>2. PICK j \in 1 .. i - 1, n \in Nat, items \in Seq(Nested[i - 1]), u \in Seq(Marks) :
        /\ Sound(M[j]) /\ M[j].state \in Expecting
        /\ Fills(M[j], M[i], n, Kind(M[i].state), items, u)
        /\ q = u \o Pending(M[i].state)
  BY <1>1, InsideOne
<1>3. q = u
  BY <1>1, <1>2, PendingNone, Zenon
<1> DEFINE s1 == IF M[i].state = "Element" THEN "ElementDelimiter" ELSE "MemberDelimiter"
           q1 == Append(q, "Comma")
           K0 == M[j].stack
           h == Holding(M[j].state)
           w == M[i].events
<1>4. Sound(M[i]) /\ K0 \in Stacks /\ h \in Holdings
  BY <1>2, HoldingIsHolding, Zenon DEF Explained, Sound
<1>5. M[i].stack = Pushed(K0, h, n)
  BY <1>2, Zenon DEF Fills
<1>6. M[i + 1] = Cfg(s1, Pushed(K0, h, n + 1), w)
  <2> HIDE DEF K0, h, w
  <2>1. M[i] = Cfg(M[i].state, Pushed(K0, h, n), w)
    BY <1>4, <1>5, Zenon DEF Sound, w
  <2>2. CASE M[i].state = "Element"
    <3>1. After(Cfg("Element", Pushed(K0, h, n), w), "Comma") =
            Cfg("ElementDelimiter", Pushed(K0, h, n + 1), w)
      BY <1>4, ElementCommaStep
    <3> QED
      BY <2>1, <2>2, <3>1, Zenon
  <2>3. CASE M[i].state = "MemberValue"
    <3>1. After(Cfg("MemberValue", Pushed(K0, h, n), w), "Comma") =
            Cfg("MemberDelimiter", Pushed(K0, h, n + 1), w)
      BY <1>4, MemberCommaStep
    <3>2. s1 = "MemberDelimiter"
      BY <2>3
    <3> HIDE DEF s1
    <3> QED
      BY <2>1, <2>3, <3>1, <3>2, Zenon
  <2> QED
    BY <2>2, <2>3
<1>7. /\ Placed(s1, n + 1) /\ Count(s1, n + 1) = Count(M[i].state, n)
      /\ InArray(s1) = InArray(M[i].state) /\ n + 1 \in Nat
  BY DEF Placed, Inner, Count, InArray
<1>8. q1 = u \o Pending(s1)
  <2>1. Pending(s1) = <<"Comma">> /\ "Comma" \in Marks
    BY DEF Pending, Marks
  <2>2. Append(u, "Comma") = u \o <<"Comma">>
    BY <2>1, MarkConcat
  <2> HIDE DEF s1
  <2> QED
    BY <1>3, <2>1, <2>2, Zenon
<1> HIDE DEF q1, s1
<1>9. Explained(M, i + 1, q1)
  BY <1>2, <1>4, <1>6, <1>7, <1>8, Separates
<1> QED
  BY <1>9 DEF q1

-------------------------------------------------------------------------------
(* Names and ends                                                             *)

(* The same without an equality. *)
LEMMA SoundCfg ==
  ASSUME NEW s1, NEW k \in Stacks, NEW w \in Seq(AnyEvs), Built(w) \in ItemsOf
  PROVE  Sound(Cfg(s1, k, w))
<1> DEFINE c1 == Cfg(s1, k, w)
<1>1. c1 = Cfg(s1, k, w)
  OBVIOUS
<1> HIDE DEF c1
<1>2. Sound(c1)
  BY <1>1, SoundMade
<1> QED
  BY <1>2, Zenon DEF c1

(* One more call behind two sequences of calls. *)
LEMMA NotedJoin ==
  ASSUME NEW e \in Seq(AnyEvs), NEW I \in Seq(AnyEvs), NEW call \in Calls, NEW m \in Nat
  PROVE  Noted(e \o I, call, m) = e \o (I \o <<Event(call, m)>>)
<1> DEFINE w == e \o I
           x == <<Event(call, m)>>
<1>1. w \in Seq(AnyEvs)
  BY ConcatProperties
<1> HIDE DEF w
<1>2. Noted(w, call, m) = w \o x /\ x \in Seq(AnyEvs)
  BY <1>1, NotedConcat
<1> HIDE DEF x
<1>3. (e \o I) \o x = e \o (I \o x)
  BY <1>2, ConcatAssociative
<1> QED
  BY <1>2, <1>3, Zenon DEF w, x

(* A name is read. *)
LEMMA KeyReads ==
  ASSUME NEW M, NEW i \in 1 .. MaxTokens, NEW q \in Seq(Marks), Explained(M, i, q),
         M[i].state \in {"ObjectInitial", "MemberDelimiter"}, M[i + 1] = After(M[i], "string")
  PROVE  Explained(M, i + 1, Append(q, "string"))
<1>1. M[i].state \in Inner /\ Takes(M[i].state, "MemberKey")
  BY DEF Inner, Takes
<1>2. PICK j \in 1 .. i - 1, n \in Nat, items \in Seq(Nested[i - 1]), u \in Seq(Marks) :
        /\ Sound(M[j]) /\ M[j].state \in Expecting
        /\ Fills(M[j], M[i], n, Kind(M[i].state), items, u)
        /\ q = u \o Pending(M[i].state)
  BY <1>1, InsideOne
<1> DEFINE c0 == M[j]
           c == M[i]
           c1 == M[i + 1]
           w == c.events
           W == Noted(w, "Key", 0)
           v == Scalar("string")
           q1 == Append(q, "string")
           P == Prefix(Output(w))
<1>0. MaxTokens \in Nat /\ j \in 1 .. i /\ i - 1 \in 0 .. MaxTokens /\ i \in 0 .. MaxTokens
      /\ i \in (i - 1) .. MaxTokens
  BY JsonAssumption
<1>3. Sound(c)
  BY Zenon DEF Explained
<1>4. c =
        Cfg(c.state, c.stack, w) /\ w \in Seq(AnyEvs) /\ c.stack \in Stacks
        /\ Built(w) \in ItemsOf
  BY <1>3, Zenon DEF Sound
<1>5. P \in Outputs /\ P.out = q
  <2>1. /\ Prefix(Output(c.events)) =
             [levels |-> Append(Prefix(Output(c0.events)).levels, Level("MemberKey", n)),
              out    |-> u \o Pending(c.state)]
        /\ Prefix(Output(c.events)) \in Outputs
    BY <1>1, <1>2, FillsReady
  <2> QED
    BY <1>2, <2>1
<1>6. c1 = Cfg("MemberKey", c.stack, W)
  <2>1. After(Cfg(c.state, c.stack, w), "string") = Cfg("MemberKey", c.stack, W)
    BY NameStep
  <2> QED
    BY <1>4, <2>1, Zenon
<1>7. v \in Nested[MaxTokens] /\ v \in Nested[i] /\ items \in ItemsOf
      /\ items \in Seq(Nested[i])
  <2>1. "string" \in Types /\ MaxTokens \in 0 .. MaxTokens
    BY <1>0 DEF Types, Scalars
  <2> QED
    BY <1>0, <2>1, NestedScalar, AllItems, DeeperItems
<1>8. Built(W) = Append(Built(w), v) /\ Built(W) \in ItemsOf
  <2>1. Built(W) = Append(Built(w), v)
    BY <1>4, BuiltKey
  <2>2. Append(Built(w), v) \in ItemsOf
    BY <1>4, <1>7, AppendProperties DEF ItemsOf
  <2> QED
    BY <2>1, <2>2, Zenon
<1>9. W = w \o <<Event("Key", 0)>> /\ W \in Seq(AnyEvs)
  <2>1. "Key" \in Calls /\ 0 \in Nat
    BY DEF Calls
  <2> QED
    BY <1>4, <2>1, NotedConcat
<1>10. Output(W) = [levels |-> P.levels, out |-> q1]
  <2>1. Output(W) = [levels |-> P.levels, out |-> Append(P.out, "string")]
    BY <1>4, <1>5, OutputKey
  <2> QED
    BY <1>5, <2>1, Zenon
<1>11. Sound(c1) /\ c1.state = "MemberKey" /\ c1.stack = c.stack /\ c1.events = W
  <2> DEFINE K == c.stack
  <2>1. c1 = Cfg("MemberKey", K, W) /\ W \in Seq(AnyEvs) /\ Built(W) \in ItemsOf /\ K \in Stacks
    BY <1>4, <1>6, <1>8, <1>9
  <2> HIDE DEF W, c1, K
  <2>3. Sound(Cfg("MemberKey", K, W))
    BY <2>1, SoundCfg, Zenon
  <2>4. /\ Cfg("MemberKey", K, W).state = "MemberKey" /\ Cfg("MemberKey", K, W).stack = K
        /\ Cfg("MemberKey", K, W).events = W
    BY CfgFields
  <2>2. Sound(c1) /\ c1.state = "MemberKey" /\ c1.stack = K /\ c1.events = W
    BY <2>1, <2>3, <2>4, Zenon
  <2> QED
    BY <2>2, Zenon DEF K
<1>12. ItemOf(Kind(c.state), items, v) = <<Event("Key", 0)>>
  <2>1. Len(items) = Count(c.state, n)
    BY <1>2, Zenon DEF Fills
  <2> QED
    BY <2>1, KeyItem
<1>13. q1 \in Seq(Marks)
  <2>1. "string" \in Marks
    BY DEF Marks, Scalars
  <2> QED
    BY <2>1, AppendProperties
<1> DEFINE more == Append(items, v)
<1>14. Fills(c0, c1, n, Kind(c1.state), more, q1)
  <2>1. c1.events = c.events \o ItemOf(Kind(c.state), items, v)
    BY <1>9, <1>11, <1>12, Zenon
  <2>2. Built(c1.events) = Append(Built(c.events), v)
    BY <1>8, <1>11, Zenon
  <2>3. Output(c1.events) = [levels |-> Prefix(Output(c.events)).levels, out |-> q1]
    BY <1>10, <1>11, Zenon
  <2>4. Sound(c0) /\ Fills(c0, c, n, Kind(c.state), items, u)
    BY <1>2
  <2>5. c1.state = "MemberKey" /\ c1.stack = c.stack /\ Takes(c.state, "MemberKey")
        /\ v \in Nested[MaxTokens] /\ items \in ItemsOf /\ Sound(c)
    BY <1>1, <1>3, <1>7, <1>11
  <2> HIDE DEF c0, c, c1, v, q1
  <2>6. Fills(c0, c1, n, Kind(c1.state), Append(items, v), q1)
    BY <2>1, <2>2, <2>3, <2>4, <2>5, ValueFills
  <2> QED
    BY <2>6, Zenon DEF more
<1>15. more \in Seq(Nested[i])
  BY <1>7, AppendProperties
<1>16. q1 = q1 \o Pending(c1.state)
  <2>1. Pending(c1.state) = <<>>
    BY <1>11 DEF Pending
  <2> HIDE DEF q1
  <2> QED
    BY <1>13, <2>1, PendingNone
<1> HIDE DEF q1, more
<1>17. Explained(M, i + 1, q1)
  BY <1>0, <1>2, <1>11, <1>13, <1>14, <1>15, <1>16, Continues
<1> QED
  BY <1>17 DEF q1

(* The value that an object leaves on the stack of values. *)
LEMMA ObjectBuilt ==
  ASSUME NEW b \in ItemsOf, NEW items \in ItemsOf, NEW w \in Seq(AnyEvs),
         Built(w) = (b \o <<Scalar("object")>>) \o items, NEW n \in Nat, Len(items) = 2 * n
  PROVE  Built(Noted(w, "EndObject", n)) = Append(b, Container("object", items))
<1> DEFINE V == Nested[MaxTokens]
           type == "object"
<1>1. b \in Seq(V) /\ items \in Seq(V)
  BY DEF ItemsOf
<1>2. Scalar(type) \in V
  <2>1. type \in Types /\ MaxTokens \in 0 .. MaxTokens
    BY JsonAssumption DEF Types
  <2> QED
    BY <2>1, NestedScalar
<1> DEFINE e == Event("EndObject", n)
           s == (b \o <<Scalar(type)>>) \o items
<1>3. e \in AnyEvs /\ e.call = "EndObject" /\ e.n = n
  BY DEF Event, AnyEvs, Calls
<1>4. Built(Noted(w, "EndObject", n)) = Build(s, e)
  <2>1. Built(Noted(w, "EndObject", n)) = Build(Built(w), e)
    BY <1>3, BuildSnoc, Zenon DEF Built, Noted
  <2> QED
    BY <2>1, Zenon
<1> HIDE DEF e
<1>5. e.call \in {"EndObject", "EndArray"}
      /\ Len(items) = IF e.call = "EndObject" THEN 2 * e.n ELSE e.n
  BY <1>3
<1> HIDE DEF V, type
<1>6. Build(s, e) = Append(b, Container(type, items))
  BY <1>1, <1>2, <1>5, BuildEnds
<1> QED
  BY <1>4, <1>6, Zenon DEF type

(* An object that is closed is a value that arrives where the object was      *)
(* opened.                                                                    *)
LEMMA ObjectEnds ==
  ASSUME NEW M, NEW i \in 1 .. MaxTokens, NEW j \in 1 .. i - 1, NEW n \in Nat,
         NEW items \in Seq(Nested[i - 1]), NEW u \in Seq(Marks),
         Sound(M[i]), Sound(M[j]), M[j].state \in Expecting,
         Fills(M[j], M[i], n, "object", items, u),
         NEW p, Explained(M, j, p),
         NEW m \in Nat, Len(items) = 2 * m,
         M[i + 1] = Cfg(Holding(M[j].state), M[j].stack, Noted(M[i].events, "EndObject", m))
  PROVE  Explained(M, i + 1, Append(u, "RightCurlyBracket"))
<1> DEFINE c0 == M[j]
           c == M[i]
           c1 == M[i + 1]
           w == c.events
           W == Noted(w, "EndObject", m)
           v == Container("object", items)
           q1 == Append(u, "RightCurlyBracket")
           P == Prefix(Output(c0.events))
           b == Built(c0.events)
<1>0. /\ MaxTokens \in Nat /\ i + 1 \in 2 .. MaxTokens + 1 /\ j \in 1 .. (i + 1) - 1
      /\ i - 1 \in Nat /\ (i - 1) + 1 <= MaxTokens /\ i - 1 \in 0 .. MaxTokens
      /\ (i + 1) - 1 = (i - 1) + 1
  BY JsonAssumption
<1>1. w \in Seq(AnyEvs) /\ b \in ItemsOf /\ c0.events \in Seq(AnyEvs)
  BY Zenon DEF Sound
<1>2. "object" \in Types /\ Scalar("object") \in Nested[MaxTokens] /\ items \in ItemsOf
  <2>1. "object" \in Types /\ MaxTokens \in 0 .. MaxTokens
    BY <1>0 DEF Types
  <2> QED
    BY <1>0, <2>1, NestedScalar, AllItems
<1>3. v \in Nested[(i + 1) - 1]
  <2>1. [type |-> "object", items |-> items] \in Nested[(i - 1) + 1]
    BY <1>0, <1>2, NestedValue
  <2> QED
    BY <1>0, <2>1, Zenon DEF Container
<1>4. Built(W) = Append(b, v)
  <2>1. Built(w) = (b \o <<Scalar("object")>>) \o items
    BY Zenon DEF Fills
  <2> HIDE DEF b, w
  <2>2. Built(Noted(w, "EndObject", m)) = Append(b, Container("object", items))
    BY <1>1, <1>2, <2>1, ObjectBuilt, Zenon
  <2> QED
    BY <2>2, Zenon DEF b
<1>5. Output(W) = [levels |-> P.levels, out |-> q1]
  <2> DEFINE L == P.levels
             l == Level(c.state, n)
  <2>1. Output(w) = [levels |-> Append(L, l), out |-> u] /\ P \in Outputs
    BY Zenon DEF Fills
  <2>2. L \in Seq(Levels)
    BY <2>1, OutputFields
  <2>3. l \in Levels
    <3>1. Placed(c.state, n)
      BY Zenon DEF Fills
    <3> QED
      BY <3>1 DEF Level, Levels, InArray, Count
  <2> HIDE DEF L, l, w
  <2>4. Output(Noted(w, "EndObject", m)) = [levels |-> L, out |-> Append(u, "RightCurlyBracket")]
    BY <1>1, <2>1, <2>2, <2>3, OutputEnd, SMTT(30)
  <2> QED
    BY <2>4, Zenon DEF L
<1>6. W = c0.events \o Accept(v)
  <2> DEFINE e == c0.events
  <2>1. w = e \o Inside("object", items)
    BY Zenon DEF Fills
  <2>2. Accept(v) = Inside("object", items) \o <<Event("EndObject", m)>>
    <3>1. Accept(v) = Inside("object", items) \o <<Event("EndObject", Len(items) \div 2)>>
      BY <1>0, InsideDone
    <3>2. Len(items) \div 2 = m
      OBVIOUS
    <3> QED
      BY <3>1, <3>2, Zenon
  <2>3. "EndObject" \in Calls
    BY DEF Calls
  <2> DEFINE I == Inside("object", items)
  <2>4. e \in Seq(AnyEvs) /\ I \in Seq(AnyEvs)
    BY <1>1, <1>2, InsideType
  <2> HIDE DEF e, I
  <2>5. Noted(e \o I, "EndObject", m) = e \o (I \o <<Event("EndObject", m)>>)
    BY <2>3, <2>4, NotedJoin
  <2> QED
    BY <2>1, <2>2, <2>5, Zenon DEF e, I
<1>7. c1.events = W
  <2> HIDE DEF W
  <2>1. c1 = Cfg(Holding(c0.state), c0.stack, W)
    BY DEF W
  <2> HIDE DEF c1
  <2> QED
    BY <2>1, CfgFields
<1>8. q1 \in Seq(Marks)
  <2>1. "RightCurlyBracket" \in Marks
    BY DEF Marks
  <2> QED
    BY <2>1, AppendProperties
<1>9. /\ M[i + 1] = Cfg(Holding(M[j].state), M[j].stack, M[j].events \o Accept(v))
      /\ Built(M[i + 1].events) = Append(Built(M[j].events), v)
      /\ Output(M[i + 1].events) = [levels |-> Prefix(Output(M[j].events)).levels, out |-> q1]
  BY <1>4, <1>5, <1>6, <1>7, Zenon
<1> HIDE DEF q1, v
<1>10. Explained(M, i + 1, q1)
  BY <1>0, <1>3, <1>8, <1>9, Arrives
<1> QED
  BY <1>10 DEF q1

(* The value that an array leaves on the stack of values. *)
LEMMA ArrayBuilt ==
  ASSUME NEW b \in ItemsOf, NEW items \in ItemsOf, NEW w \in Seq(AnyEvs),
         Built(w) = (b \o <<Scalar("array")>>) \o items, NEW n \in Nat, Len(items) = n
  PROVE  Built(Noted(w, "EndArray", n)) = Append(b, Container("array", items))
<1> DEFINE V == Nested[MaxTokens]
           type == "array"
<1>1. b \in Seq(V) /\ items \in Seq(V)
  BY DEF ItemsOf
<1>2. Scalar(type) \in V
  <2>1. type \in Types /\ MaxTokens \in 0 .. MaxTokens
    BY JsonAssumption DEF Types
  <2> QED
    BY <2>1, NestedScalar
<1> DEFINE e == Event("EndArray", n)
           s == (b \o <<Scalar(type)>>) \o items
<1>3. e \in AnyEvs /\ e.call = "EndArray" /\ e.n = n
  BY DEF Event, AnyEvs, Calls
<1>4. Built(Noted(w, "EndArray", n)) = Build(s, e)
  <2>1. Built(Noted(w, "EndArray", n)) = Build(Built(w), e)
    BY <1>3, BuildSnoc, Zenon DEF Built, Noted
  <2> QED
    BY <2>1, Zenon
<1> HIDE DEF e
<1>5. e.call \in {"EndObject", "EndArray"}
      /\ Len(items) = IF e.call = "EndObject" THEN 2 * e.n ELSE e.n
  BY <1>3
<1> HIDE DEF V, type
<1>6. Build(s, e) = Append(b, Container(type, items))
  BY <1>1, <1>2, <1>5, BuildEnds
<1> QED
  BY <1>4, <1>6, Zenon DEF type

(* An array that is closed is a value that arrives where the array was        *)
(* opened.                                                                    *)
LEMMA ArrayEnds ==
  ASSUME NEW M, NEW i \in 1 .. MaxTokens, NEW j \in 1 .. i - 1, NEW n \in Nat,
         NEW items \in Seq(Nested[i - 1]), NEW u \in Seq(Marks),
         Sound(M[i]), Sound(M[j]), M[j].state \in Expecting,
         Fills(M[j], M[i], n, "array", items, u),
         NEW p, Explained(M, j, p),
         NEW m \in Nat, Len(items) = m,
         M[i + 1] = Cfg(Holding(M[j].state), M[j].stack, Noted(M[i].events, "EndArray", m))
  PROVE  Explained(M, i + 1, Append(u, "RightBracket"))
<1> DEFINE c0 == M[j]
           c == M[i]
           c1 == M[i + 1]
           w == c.events
           W == Noted(w, "EndArray", m)
           v == Container("array", items)
           q1 == Append(u, "RightBracket")
           P == Prefix(Output(c0.events))
           b == Built(c0.events)
<1>0. /\ MaxTokens \in Nat /\ i + 1 \in 2 .. MaxTokens + 1 /\ j \in 1 .. (i + 1) - 1
      /\ i - 1 \in Nat /\ (i - 1) + 1 <= MaxTokens /\ i - 1 \in 0 .. MaxTokens
      /\ (i + 1) - 1 = (i - 1) + 1
  BY JsonAssumption
<1>1. w \in Seq(AnyEvs) /\ b \in ItemsOf /\ c0.events \in Seq(AnyEvs)
  BY Zenon DEF Sound
<1>2. "array" \in Types /\ Scalar("array") \in Nested[MaxTokens] /\ items \in ItemsOf
  <2>1. "array" \in Types /\ MaxTokens \in 0 .. MaxTokens
    BY <1>0 DEF Types
  <2> QED
    BY <1>0, <2>1, NestedScalar, AllItems
<1>3. v \in Nested[(i + 1) - 1]
  <2>1. [type |-> "array", items |-> items] \in Nested[(i - 1) + 1]
    BY <1>0, <1>2, NestedValue
  <2> QED
    BY <1>0, <2>1, Zenon DEF Container
<1>4. Built(W) = Append(b, v)
  <2>1. Built(w) = (b \o <<Scalar("array")>>) \o items
    BY Zenon DEF Fills
  <2> HIDE DEF b, w
  <2>2. Built(Noted(w, "EndArray", m)) = Append(b, Container("array", items))
    BY <1>1, <1>2, <2>1, ArrayBuilt, Zenon
  <2> QED
    BY <2>2, Zenon DEF b
<1>5. Output(W) = [levels |-> P.levels, out |-> q1]
  <2> DEFINE L == P.levels
             l == Level(c.state, n)
  <2>1. Output(w) = [levels |-> Append(L, l), out |-> u] /\ P \in Outputs
    BY Zenon DEF Fills
  <2>2. L \in Seq(Levels)
    BY <2>1, OutputFields
  <2>3. l \in Levels
    <3>1. Placed(c.state, n)
      BY Zenon DEF Fills
    <3> QED
      BY <3>1 DEF Level, Levels, InArray, Count
  <2> HIDE DEF L, l, w
  <2>4. Output(Noted(w, "EndArray", m)) = [levels |-> L, out |-> Append(u, "RightBracket")]
    BY <1>1, <2>1, <2>2, <2>3, OutputEnd
  <2> QED
    BY <2>4, Zenon DEF L
<1>6. W = c0.events \o Accept(v)
  <2> DEFINE e == c0.events
  <2>1. w = e \o Inside("array", items)
    BY Zenon DEF Fills
  <2>2. Accept(v) = Inside("array", items) \o <<Event("EndArray", m)>>
    <3>1. Accept(v) = Inside("array", items) \o <<Event("EndArray", Len(items))>>
      BY <1>0, InsideDone
    <3>2. Len(items) = m
      OBVIOUS
    <3> QED
      BY <3>1, <3>2, Zenon
  <2>3. "EndArray" \in Calls
    BY DEF Calls
  <2> DEFINE I == Inside("array", items)
  <2>4. e \in Seq(AnyEvs) /\ I \in Seq(AnyEvs)
    BY <1>1, <1>2, InsideType
  <2> HIDE DEF e, I
  <2>5. Noted(e \o I, "EndArray", m) = e \o (I \o <<Event("EndArray", m)>>)
    BY <2>3, <2>4, NotedJoin
  <2> QED
    BY <2>1, <2>2, <2>5, Zenon DEF e, I
<1>7. c1.events = W
  <2> HIDE DEF W
  <2>1. c1 = Cfg(Holding(c0.state), c0.stack, W)
    BY DEF W
  <2> HIDE DEF c1
  <2> QED
    BY <2>1, CfgFields
<1>8. q1 \in Seq(Marks)
  <2>1. "RightBracket" \in Marks
    BY DEF Marks
  <2> QED
    BY <2>1, AppendProperties
<1>9. /\ M[i + 1] = Cfg(Holding(M[j].state), M[j].stack, M[j].events \o Accept(v))
      /\ Built(M[i + 1].events) = Append(Built(M[j].events), v)
      /\ Output(M[i + 1].events) = [levels |-> Prefix(Output(M[j].events)).levels, out |-> q1]
  BY <1>4, <1>5, <1>6, <1>7, Zenon
<1> HIDE DEF q1, v
<1>10. Explained(M, i + 1, q1)
  BY <1>0, <1>3, <1>8, <1>9, Arrives
<1> QED
  BY <1>10 DEF q1

-------------------------------------------------------------------------------
(* Every token                                                                *)

(* The bracket of an object is read, with or without members before it. *)
LEMMA ObjectCloses ==
  ASSUME NEW M, NEW i \in 1 .. MaxTokens, NEW q \in Seq(Marks), Explained(M, i, q),
         \A j \in 1 .. i - 1 : \E p : Explained(M, j, p),
         M[i].state \in {"ObjectInitial", "MemberValue"},
         M[i + 1] = After(M[i], "RightCurlyBracket")
  PROVE  Explained(M, i + 1, Append(q, "RightCurlyBracket"))
<1>1. M[i].state \in Inner /\ Pending(M[i].state) = <<>> /\ Kind(M[i].state) = "object"
  BY DEF Inner, Pending, Kind, InArray
<1>2. PICK j \in 1 .. i - 1, n \in Nat, items \in Seq(Nested[i - 1]), u \in Seq(Marks) :
        /\ Sound(M[j]) /\ M[j].state \in Expecting
        /\ Fills(M[j], M[i], n, Kind(M[i].state), items, u)
        /\ q = u \o Pending(M[i].state)
  BY <1>1, InsideOne
<1>3. q = u
  BY <1>1, <1>2, PendingNone, Zenon
<1> DEFINE K0 == M[j].stack
           h == Holding(M[j].state)
           w == M[i].events
           m == IF M[i].state = "MemberValue" THEN n + 1 ELSE n
<1>4. Sound(M[i]) /\ K0 \in Stacks /\ h \in Holdings
  BY <1>2, HoldingIsHolding, Zenon DEF Explained, Sound
<1>5. M[i].stack = Pushed(K0, h, n) /\ Fills(M[j], M[i], n, "object", items, u)
  BY <1>1, <1>2, Zenon DEF Fills
<1>6. Len(items) = 2 * m /\ m \in Nat
  <2>1. Len(items) = Count(M[i].state, n)
    BY <1>5, Zenon DEF Fills
  <2>2. Count(M[i].state, n) = 2 * m /\ m \in Nat
    BY DEF Count
  <2> QED
    BY <2>1, <2>2, Zenon
<1>7. M[i + 1] = Cfg(h, K0, Noted(w, "EndObject", m))
  <2> HIDE DEF K0, h, w
  <2>1. M[i] = Cfg(M[i].state, Pushed(K0, h, n), w)
    BY <1>4, <1>5, Zenon DEF Sound, w
  <2>2. CASE M[i].state = "MemberValue"
    <3>1. After(Cfg("MemberValue", Pushed(K0, h, n), w), "RightCurlyBracket") =
            Cfg(h, K0, Noted(w, "EndObject", n + 1))
      BY <1>4, MemberEndStep
    <3> QED
      BY <2>1, <2>2, <3>1, Zenon
  <2>3. CASE M[i].state = "ObjectInitial"
    <3>1. After(Cfg("ObjectInitial", Pushed(K0, h, n), w), "RightCurlyBracket") =
            Cfg(h, K0, Noted(w, "EndObject", n))
      BY <1>4, EmptyObjectStep
    <3>2. m = n
      BY <2>3
    <3> HIDE DEF m
    <3> QED
      BY <2>1, <2>3, <3>1, <3>2, Zenon
  <2> QED
    BY <2>2, <2>3
<1>8. PICK p : Explained(M, j, p)
  BY <1>2, Zenon
<1> HIDE DEF m
<1>9. Explained(M, i + 1, Append(u, "RightCurlyBracket"))
  BY <1>2, <1>4, <1>5, <1>6, <1>7, <1>8, ObjectEnds
<1> QED
  BY <1>3, <1>9, Zenon

(* The bracket of an array is read, with or without elements before it. *)
LEMMA ArrayCloses ==
  ASSUME NEW M, NEW i \in 1 .. MaxTokens, NEW q \in Seq(Marks), Explained(M, i, q),
         \A j \in 1 .. i - 1 : \E p : Explained(M, j, p),
         M[i].state \in {"ArrayInitial", "Element"}, M[i + 1] = After(M[i], "RightBracket")
  PROVE  Explained(M, i + 1, Append(q, "RightBracket"))
<1>1. M[i].state \in Inner /\ Pending(M[i].state) = <<>> /\ Kind(M[i].state) = "array"
  BY DEF Inner, Pending, Kind, InArray
<1>2. PICK j \in 1 .. i - 1, n \in Nat, items \in Seq(Nested[i - 1]), u \in Seq(Marks) :
        /\ Sound(M[j]) /\ M[j].state \in Expecting
        /\ Fills(M[j], M[i], n, Kind(M[i].state), items, u)
        /\ q = u \o Pending(M[i].state)
  BY <1>1, InsideOne
<1>3. q = u
  BY <1>1, <1>2, PendingNone, Zenon
<1> DEFINE K0 == M[j].stack
           h == Holding(M[j].state)
           w == M[i].events
           m == IF M[i].state = "Element" THEN n + 1 ELSE n
<1>4. Sound(M[i]) /\ K0 \in Stacks /\ h \in Holdings
  BY <1>2, HoldingIsHolding, Zenon DEF Explained, Sound
<1>5. M[i].stack = Pushed(K0, h, n) /\ Fills(M[j], M[i], n, "array", items, u)
  BY <1>1, <1>2, Zenon DEF Fills
<1>6. Len(items) = m /\ m \in Nat
  <2>1. Len(items) = Count(M[i].state, n)
    BY <1>5, Zenon DEF Fills
  <2>2. Count(M[i].state, n) = m /\ m \in Nat
    BY DEF Count
  <2> QED
    BY <2>1, <2>2, Zenon
<1>7. M[i + 1] = Cfg(h, K0, Noted(w, "EndArray", m))
  <2> HIDE DEF K0, h, w
  <2>1. M[i] = Cfg(M[i].state, Pushed(K0, h, n), w)
    BY <1>4, <1>5, Zenon DEF Sound, w
  <2>2. CASE M[i].state = "Element"
    <3>1. After(Cfg("Element", Pushed(K0, h, n), w), "RightBracket") =
            Cfg(h, K0, Noted(w, "EndArray", n + 1))
      BY <1>4, ElementEndStep
    <3> QED
      BY <2>1, <2>2, <3>1, Zenon
  <2>3. CASE M[i].state = "ArrayInitial"
    <3>1. After(Cfg("ArrayInitial", Pushed(K0, h, n), w), "RightBracket") =
            Cfg(h, K0, Noted(w, "EndArray", n))
      BY <1>4, EmptyArrayStep
    <3>2. m = n
      BY <2>3
    <3> HIDE DEF m
    <3> QED
      BY <2>1, <2>3, <3>1, <3>2, Zenon
  <2> QED
    BY <2>2, <2>3
<1>8. PICK p : Explained(M, j, p)
  BY <1>2, Zenon
<1> HIDE DEF m
<1>9. Explained(M, i + 1, Append(u, "RightBracket"))
  BY <1>2, <1>4, <1>5, <1>6, <1>7, <1>8, ArrayEnds
<1> QED
  BY <1>3, <1>9, Zenon

(* White space changes nothing. *)
LEMMA SpaceReads ==
  ASSUME NEW M, NEW i \in 1 .. MaxTokens, NEW q, Explained(M, i, q), M[i + 1] = M[i]
  PROVE  Explained(M, i + 1, q)
<1>0. /\ MaxTokens \in Nat /\ i - 1 \in 0 .. MaxTokens /\ i \in (i - 1) .. MaxTokens
      /\ (i + 1) - 1 = i
  BY JsonAssumption
<1>1. Sound(M[i + 1])
  BY Zenon DEF Explained
<1>2. CASE Rooted(M[i], i - 1, q)
  <2>1. Nested[i - 1] \subseteq Nested[i]
    BY <1>0, NestedDeeper
  <2>2. Rooted(M[i], i, q)
    BY <1>2, <2>1, Zenon DEF Rooted
  <2> QED
    BY <1>0, <1>1, <2>2, Zenon DEF Explained
<1>3. CASE ~Rooted(M[i], i - 1, q)
  <2>1. PICK j \in 1 .. i - 1, n \in Nat, items \in Seq(Nested[i - 1]), u \in Seq(Marks) :
          /\ Sound(M[j]) /\ M[j].state \in Expecting
          /\ Fills(M[j], M[i], n, Kind(M[i].state), items, u)
          /\ q = u \o Pending(M[i].state)
    BY <1>3, Zenon DEF Explained
  <2>2. j \in 1 .. i /\ items \in Seq(Nested[i])
    BY <1>0, DeeperItems
  <2> QED
    BY <1>1, <2>1, <2>2, Continues
<1> QED
  BY <1>2, <1>3

(* The states there are without an error. *)
LEMMA StatesOf ==
  ASSUME NEW M, NEW i, NEW q, Explained(M, i, q)
  PROVE  M[i].state \in Expecting \cup {"ObjectInitial", "MemberDelimiter"}
           \cup {"MemberKey", "MemberValue", "Element", "Finish"}
<1>1. CASE Rooted(M[i], i - 1, q)
  BY <1>1 DEF Rooted, Expecting
<1>2. CASE ~Rooted(M[i], i - 1, q)
  <2>1. M[i].state \in Inner
    BY <1>2, Zenon DEF Explained, Fills, Placed
  <2> QED
    BY <2>1 DEF Inner, Expecting
<1> QED
  BY <1>1, <1>2

(* The stack inside a container. *)
LEMMA StackOf ==
  ASSUME NEW M, NEW i, NEW q, Explained(M, i, q), M[i].state \in Inner
  PROVE  \E k \in Stacks, h \in Holdings, n \in Nat : M[i].stack = Pushed(k, h, n)
<1>2. PICK j \in 1 .. i - 1, n \in Nat, items \in Seq(Nested[i - 1]), u \in Seq(Marks) :
        /\ Sound(M[j]) /\ M[j].state \in Expecting
        /\ Fills(M[j], M[i], n, Kind(M[i].state), items, u)
        /\ q = u \o Pending(M[i].state)
  BY InsideOne
<1>3. M[j].stack \in Stacks /\ Holding(M[j].state) \in Holdings
  BY <1>2, HoldingIsHolding, Zenon DEF Sound
<1>4. M[i].stack = Pushed(M[j].stack, Holding(M[j].state), n)
  BY <1>2, Zenon DEF Fills
<1> QED
  BY <1>3, <1>4, Zenon

(* Where there is no error the token was not refused. *)
LEMMA NotRefused ==
  ASSUME NEW M, NEW i, NEW t, Sound(M[i]), M[i + 1] = After(M[i], t), M[i + 1].error = None
  PROVE  ~Refuses(M[i].state, M[i].stack, M[i].events, t)
<1> SUFFICES ASSUME Refuses(M[i].state, M[i].stack, M[i].events, t) PROVE FALSE
  OBVIOUS
<1> DEFINE s == M[i].state
           k == M[i].stack
           w == M[i].events
<1>1. M[i] = Cfg(s, k, w)
  BY Zenon DEF Sound
<1>2. PICK code \in Errors \ {None} : After(Cfg(s, k, w), t) = Machine(s, k, code, w)
  BY Zenon DEF Refuses
<1>3. M[i + 1] = Machine(s, k, code, w)
  BY <1>1, <1>2, Zenon
<1>4. Machine(s, k, code, w).error = code
  BY MachineFields
<1>5. code # None
  BY <1>2
<1> QED
  BY <1>3, <1>4, <1>5, Zenon

(* A token that was read is white space or is written. *)
LEMMA SqueezeType ==
  ASSUME NEW q \in Seq(Marks), NEW t, t \in Marks \cup {"space"}
  PROVE  Squeeze(q, t) \in Seq(Marks)
<1>1. CASE t = "space"
  BY <1>1 DEF Squeeze
<1>2. CASE t # "space"
  BY <1>2, AppendProperties DEF Squeeze
<1> QED
  BY <1>1, <1>2

(* One more token. *)
LEMMA TokenReads ==
  ASSUME NEW M, NEW i \in 1 .. MaxTokens, NEW q \in Seq(Marks), Explained(M, i, q),
         \A j \in 1 .. i - 1 : \E p : Explained(M, j, p),
         NEW t, M[i + 1] = After(M[i], t), M[i + 1].error = None
  PROVE  Explained(M, i + 1, Squeeze(q, t)) /\ t \in Marks \cup {"space"}
<1> DEFINE s == M[i].state
           k == M[i].stack
           w == M[i].events
<1>1. Sound(M[i])
  BY Zenon DEF Explained
<1>2. M[i] = Cfg(s, k, w)
  BY <1>1, Zenon DEF Sound
<1>3. ~Refuses(s, k, w, t)
  BY <1>1, NotRefused
<1>4. CASE t = "space"
  <2>1. M[i + 1] = M[i] /\ Squeeze(q, t) = q
    BY <1>4 DEF After, Squeeze
  <2> QED
    BY <1>4, <2>1, SpaceReads
<1>5. CASE t # "space"
  <2>0. Squeeze(q, t) = Append(q, t)
    BY <1>5 DEF Squeeze
  <2> SUFFICES Explained(M, i + 1, Append(q, t)) /\ t \in Marks
    BY <2>0
  <2>1. CASE s \in Expecting
    <3>1. t \in Scalars \cup {"LeftCurlyBracket", "LeftBracket"}
          \/ (s = "ArrayInitial" /\ t = "RightBracket")
      <4> SUFFICES ASSUME t \notin {"LeftCurlyBracket", "LeftBracket", "space"} \cup Scalars,
                          s = "ArrayInitial" => t # "RightBracket"
                   PROVE  FALSE
        BY <1>5
      <4> HIDE DEF s, k, w
      <4>1. Refuses(s, k, w, t)
        BY <2>1, InvalidSteps
      <4> QED
        BY <1>3, <4>1
    <3>2. t \in Marks
      BY <3>1 DEF Marks
    <3>3. CASE t \in Scalars
      BY <2>1, <3>2, <3>3, ScalarReads
    <3>4. CASE t = "LeftCurlyBracket"
      BY <2>1, <3>2, <3>4, ObjectOpens
    <3>5. CASE t = "LeftBracket"
      BY <2>1, <3>2, <3>5, ArrayOpens
    <3>6. CASE s = "ArrayInitial" /\ t = "RightBracket"
      BY <3>2, <3>6, ArrayCloses
    <3> QED
      BY <3>1, <3>3, <3>4, <3>5, <3>6
  <2>2. CASE s \in {"ObjectInitial", "MemberDelimiter"}
    <3>1. t = "string" \/ (s = "ObjectInitial" /\ t = "RightCurlyBracket")
      <4> SUFFICES ASSUME t # "string", s = "ObjectInitial" => t # "RightCurlyBracket"
                   PROVE  FALSE
        OBVIOUS
      <4> HIDE DEF s, k, w
      <4>1. Refuses(s, k, w, t)
        BY <1>5, <2>2, NameRefused
      <4> QED
        BY <1>3, <4>1
    <3>2. t \in Marks
      BY <3>1 DEF Marks, Scalars
    <3>3. CASE t = "string"
      BY <2>2, <3>2, <3>3, KeyReads
    <3>4. CASE s = "ObjectInitial" /\ t = "RightCurlyBracket"
      BY <3>2, <3>4, ObjectCloses
    <3> QED
      BY <3>1, <3>3, <3>4
  <2>3. CASE s = "MemberKey"
    <3>1. t = "Colon"
      <4> SUFFICES ASSUME t # "Colon" PROVE FALSE
        OBVIOUS
      <4> HIDE DEF k, w
      <4>1. Refuses("MemberKey", k, w, t)
        BY <1>5, ColonRefused
      <4> QED
        BY <1>3, <2>3, <4>1, Zenon
    <3> QED
      BY <2>3, <3>1, ColonReads DEF Marks
  <2>4. CASE s \in {"MemberValue", "Element"}
    <3>1. PICK K \in Stacks, h \in Holdings, n \in Nat : k = Pushed(K, h, n)
      <4>1. s \in Inner
        BY <2>4 DEF Inner
      <4> QED
        BY <4>1, StackOf
    <3>2. t = "Comma" \/ (s = "MemberValue" /\ t = "RightCurlyBracket")
          \/ (s = "Element" /\ t = "RightBracket")
      <4> SUFFICES ASSUME t # "Comma", s = "MemberValue" => t # "RightCurlyBracket",
                          s = "Element" => t # "RightBracket"
                   PROVE  FALSE
        OBVIOUS
      <4> HIDE DEF s, k, w
      <4>1. CASE s = "MemberValue"
        <5>1. Refuses("MemberValue", Pushed(K, h, n), w, t)
          BY <1>5, <4>1, MemberRefused
        <5> QED
          BY <1>3, <3>1, <4>1, <5>1, Zenon
      <4>2. CASE s = "Element"
        <5>1. Refuses("Element", Pushed(K, h, n), w, t)
          BY <1>5, <4>2, ElementRefused
        <5> QED
          BY <1>3, <3>1, <4>2, <5>1, Zenon
      <4> QED
        BY <2>4, <4>1, <4>2
    <3>3. t \in Marks
      BY <3>2 DEF Marks
    <3>4. CASE t = "Comma"
      BY <2>4, <3>3, <3>4, CommaReads
    <3>5. CASE s = "MemberValue" /\ t = "RightCurlyBracket"
      BY <3>3, <3>5, ObjectCloses
    <3>6. CASE s = "Element" /\ t = "RightBracket"
      BY <3>3, <3>6, ArrayCloses
    <3> QED
      BY <3>2, <3>4, <3>5, <3>6
  <2>5. CASE s = "Finish"
    <3> HIDE DEF k, w
    <3>1. Refuses("Finish", k, w, t)
      BY <1>5, FinishSteps
    <3> QED
      BY <1>3, <2>5, <3>1, Zenon
  <2>6. s \in Expecting \cup {"ObjectInitial", "MemberDelimiter"}
           \cup {"MemberKey", "MemberValue", "Element", "Finish"}
    BY StatesOf
  <2> QED
    BY <2>1, <2>2, <2>3, <2>4, <2>5, <2>6
<1> QED
  BY <1>4, <1>5

-------------------------------------------------------------------------------
(* Writing undoes reading                                                     *)

(* The beginning is explained. *)
LEMMA StartExplained ==
  ASSUME NEW M, M[1] = Cfg("Start", <<>>, <<>>)
  PROVE  Explained(M, 1, <<>>)
<1> DEFINE c == M[1]
<1>1. c.state = "Start" /\ c.stack = <<>> /\ c.events = <<>>
  BY CfgFields
<1>2. <<>> \in Stacks /\ <<>> \in Seq(AnyEvs) /\ <<>> \in ItemsOf
  BY EmptySeq DEF Stacks, ItemsOf
<1>3. Built(<<>>) = <<>>
  BY BuiltNil
<1>4. Sound(c)
  BY <1>1, <1>2, <1>3, Zenon DEF Sound
<1>5. Rooted(c, 1 - 1, <<>>)
  BY <1>1, Zenon DEF Rooted
<1> QED
  BY <1>4, <1>5, Zenon DEF Explained

(* As long as no error is met what has been read is explained. *)
LEMMA TextExplained ==
  ASSUME NEW t, Len(t) \in Nat, Len(t) <= MaxTokens, DOMAIN t = 1 .. Len(t),
         NEW M, Runs(t, M), M[Len(t) + 1].error = None
  PROVE  Explained(M, Len(t) + 1, FoldLeft(Squeeze, <<>>, t))
<1> DEFINE N == Len(t)
<1>0. N \in Nat /\ N <= MaxTokens /\ MaxTokens \in Nat
  BY JsonAssumption
<1>1. PICK f : /\ f = [i \in 0 .. N |-> SqueezeAt(t, i, f[i - 1])]
               /\ FoldLeft(Squeeze, <<>>, t) = f[N]
  BY SqueezeFold
<1>2. \A i \in 0 .. N : f[i] = SqueezeAt(t, i, f[i - 1])
  BY <1>1, Zenon
<1>3. \A i \in 1 .. N + 1 : M[i].error = None
  BY Frozen
<1>4. M[1] = Cfg("Start", <<>>, <<>>) /\ \A i \in 1 .. N : M[i + 1] = After(M[i], t[i])
  BY DEF Runs
<1> HIDE DEF N
<1> DEFINE Known(k) == f[k] \in Seq(Marks) /\ Explained(M, k + 1, f[k])
           S == {n \in Nat : n <= N => \A k \in 0 .. n : Known(k)}
<1>5. 0 \in S
  <2>1. f[0] = <<>>
    <3>1. 0 \in 0 .. N
      BY <1>0
    <3>2. f[0] = SqueezeAt(t, 0, f[0 - 1])
      BY <1>2, <3>1, Zenon
    <3> QED
      BY <3>2 DEF SqueezeAt
  <2>2. Known(0)
    <3>1. Explained(M, 1, <<>>) /\ <<>> \in Seq(Marks) /\ 0 + 1 = 1
      BY <1>4, StartExplained
    <3> QED
      BY <2>1, <3>1, Zenon
  <2> HIDE DEF Known
  <2>3. \A k \in 0 .. 0 : Known(k)
    BY <2>2
  <2> QED
    BY <2>3
<1>6. ASSUME NEW n \in S PROVE n + 1 \in S
  <2> SUFFICES ASSUME n + 1 <= N PROVE \A k \in 0 .. n + 1 : Known(k)
    OBVIOUS
  <2>0. n \in Nat /\ \A k \in 0 .. n : Known(k)
    <3> HIDE DEF Known
    <3> QED
      BY <1>0
  <2> DEFINE i == n + 1
             q == f[n]
             x == t[i]
  <2>1. i \in 1 .. MaxTokens /\ i \in 1 .. N /\ i \in 0 .. N /\ i + 1 \in 1 .. N + 1 /\ i # 0
        /\ i - 1 = n /\ n \in 0 .. n
    BY <1>0, <2>0
  <2>2. q \in Seq(Marks) /\ Explained(M, i, q)
    BY <2>0, <2>1, Zenon
  <2>3. \A j \in 1 .. i - 1 : \E p : Explained(M, j, p)
    <3> SUFFICES ASSUME NEW j \in 1 .. i - 1 PROVE \E p : Explained(M, j, p)
      OBVIOUS
    <3>1. j - 1 \in 0 .. n /\ (j - 1) + 1 = j
      BY <2>0
    <3>2. Explained(M, (j - 1) + 1, f[j - 1])
      BY <2>0, <3>1, Zenon
    <3> QED
      BY <3>1, <3>2
  <2>4. M[i + 1] = After(M[i], x) /\ M[i + 1].error = None
    BY <1>3, <1>4, <2>1
  <2>5. f[i] = Squeeze(q, x)
    <3>1. f[i] = SqueezeAt(t, i, f[i - 1])
      BY <1>2, <2>1, Zenon
    <3> QED
      BY <2>1, <3>1, Zenon DEF SqueezeAt
  <2>6. Explained(M, i + 1, Squeeze(q, x)) /\ x \in Marks \cup {"space"}
    <3> HIDE DEF i, q, x
    <3> QED
      BY <2>1, <2>2, <2>3, <2>4, TokenReads
  <2>7. Squeeze(q, x) \in Seq(Marks)
    <3> HIDE DEF q, x
    <3> QED
      BY <2>2, <2>6, SqueezeType
  <2>8. Known(n + 1)
    BY <2>5, <2>6, <2>7, Zenon
  <2> HIDE DEF Known
  <2> SUFFICES ASSUME NEW k \in 0 .. n + 1 PROVE Known(k)
    OBVIOUS
  <2>9. k = n + 1 \/ k \in 0 .. n
    BY <2>0
  <2> QED
    BY <2>0, <2>8, <2>9
<1>7. S \in SUBSET Nat
  OBVIOUS
<1>8. Known(N)
  <2>1. N \in S
    <3> HIDE DEF S
    <3> QED
      BY <1>0, <1>5, <1>6, <1>7, Induction
  <2> HIDE DEF Known
  <2>2. N \in 0 .. N
    BY <1>0
  <2> QED
    BY <1>0, <2>1, <2>2
<1> QED
  BY <1>1, <1>8, Zenon DEF N

(* A text that is accepted is written again from its document. *)
LEMMA WrittenAgain ==
  ASSUME NEW t, Len(t) \in Nat, Len(t) <= MaxTokens, DOMAIN t = 1 .. Len(t),
         NEW M, Runs(t, M), Parse(t).error = None
  PROVE  Written(Document(Parse(t))) = FoldLeft(Squeeze, <<>>, t)
<1> DEFINE c == M[Len(t) + 1]
           q == FoldLeft(Squeeze, <<>>, t)
           r == Parse(t)
<1>1. Verd(c) = None /\ r.events = c.events
  BY ParseAgrees
<1>2. c.error = None /\ c.state = "Finish"
  <2>1. c.state # "Finish" => ErrorIn(c.state) # None
    BY DEF ErrorIn, None
  <2> QED
    BY <1>1, <2>1 DEF Verd
<1>3. Explained(M, Len(t) + 1, q)
  BY <1>2, TextExplained
<1>4. Rooted(c, (Len(t) + 1) - 1, q)
  <2>1. "Finish" \notin Inner
    BY DEF Inner
  <2>2. ~Placed(c.state, 0) /\ \A n : ~Placed(c.state, n)
    BY <1>2, <2>1, Zenon DEF Placed
  <2> QED
    BY <1>3, <2>2, Zenon DEF Explained, Fills
<1>5. PICK v : /\ Built(c.events) = <<v>>
               /\ c.events = Accept(v)
               /\ Output(c.events) = [levels |-> <<>>, out |-> q]
  <2>1. c.state # "Start"
    BY <1>2
  <2> QED
    BY <1>4, <2>1, Zenon DEF Rooted
<1>6. Document(r) = v
  <2>1. Document(r) = Head(Built(c.events))
    BY <1>1, Zenon DEF Document, Built
  <2>2. Head(<<v>>) = v
    OBVIOUS
  <2> QED
    BY <1>5, <2>1, <2>2, Zenon
<1>7. Written(v) = Output(c.events).out
  BY <1>5, Zenon DEF Written, Output, NoOutput
<1>8. Output(c.events).out = q
  <2> HIDE DEF q
  <2>1. [levels |-> <<>>, out |-> q].out = q
    OBVIOUS
  <2> QED
    BY <1>5, <2>1, Zenon
<1> QED
  BY <1>6, <1>7, <1>8, Zenon

(* The history, and the bound on the text. *)
Bounded == Traced /\ Len(text) <= MaxTokens

(* ReadToken stays within the bound. *)
LEMMA BoundedStep == Bounded /\ [ReadToken]_jsonVars => Bounded'
<1> SUFFICES ASSUME Bounded, [ReadToken]_jsonVars PROVE Bounded'
  OBVIOUS
<1>1. Traced'
  BY TracedStep DEF Bounded
<1>2. Len(text)' <= MaxTokens
  <2>1. CASE ReadToken
    <3>1. PICK t \in Tokens : text' = Append(text, t)
      BY <2>1, ReadIsAfter
    <3>2. Len(text') = Len(text) + 1 /\ Len(text) \in Nat
      BY <3>1, AppendProperties, LenProperties DEF Bounded, Traced
    <3>3. Len(text) < MaxTokens
      BY <2>1 DEF ReadToken
    <3> QED
      BY <3>2, <3>3, JsonAssumption
  <2>2. CASE UNCHANGED jsonVars
    BY <2>2 DEF jsonVars, Bounded
  <2> QED
    BY <2>1, <2>2
<1> QED
  BY <1>1, <1>2 DEF Bounded

(* The history says what is written. *)
LEMMA BoundedUndoes == Bounded => WritingUndoesReading
<1> SUFFICES ASSUME Bounded, Parse(text).error = None
             PROVE  Written(Document(Parse(text))) = FoldLeft(Squeeze, <<>>, text)
  BY DEF WritingUndoesReading
<1>1. PICK M : Runs(text, M)
  BY DEF Bounded, Traced
<1>2. Len(text) \in Nat /\ DOMAIN text = 1 .. Len(text) /\ Len(text) <= MaxTokens
  BY LenProperties DEF Bounded, Traced
<1> QED
  BY <1>1, <1>2, WrittenAgain

(* For every text that Parse accepts, of any length up to the bound and       *)
(* nested to any depth, the document that the handler builds is written, by   *)
(* Accept with a Writer, as the same text without its white space.            *)
THEOREM WritingAlwaysUndoesReading ==
  JsonInit /\ [][ReadToken]_jsonVars => []WritingUndoesReading
<1>1. JsonInit => Bounded
  <2>1. JsonInit => Len(text) <= MaxTokens
    BY JsonAssumption DEF JsonInit
  <2> QED
    BY <2>1, TracedInit DEF Bounded
<1>2. Bounded /\ [ReadToken]_jsonVars => Bounded'
  BY BoundedStep
<1>3. Bounded => WritingUndoesReading
  BY BoundedUndoes
<1> QED
  BY <1>1, <1>2, <1>3, PTL
===============================================================================
