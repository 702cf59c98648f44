----------------------- MODULE ConditionGrammarProofs -----------------------
(***************************************************************************)
(* The parser of ConditionGrammar against its grammar, for conditions of   *)
(* any length, any selectors and any limit of nesting, with proofs checked *)
(* by TLAPS.                                                               *)
(***************************************************************************)
EXTENDS ConditionGrammar, FiniteSetTheorems, WellFoundedInduction, TLAPS

(* Induction.  What is to be shown of a number is put as a set of numbers,  *)
(* and the least number outside leads to a contradiction.                   *)

\* Every nonempty set of numbers has a least one.
LEMMA LeastNumber ==
    ASSUME NEW T \in SUBSET Nat, T # {}
    PROVE  \E n \in T : \A m \in T : n <= m
<1> DEFINE Less == OpToRel(<, Nat)
<1>1. IsWellFoundedOn(Less, Nat)
  BY NatLessThanWellFounded
<1>2. \A x, y \in Nat : x < y => <<x, y>> \in Less
  BY DEF OpToRel
<1> HIDE DEF Less
<1>3. PICK n \in T : \A m \in T : ~(<<m, n>> \in Less)
  BY <1>1, WFMin
<1>4. ASSUME NEW m \in T PROVE n <= m
  <2>1. m \in Nat /\ n \in Nat /\ ~(m < n)
    BY <1>2, <1>3
  <2> QED BY <2>1
<1> QED BY <1>4

\* A set with every number whose predecessors are all in it has all numbers.
LEMMA StrongInduction ==
    ASSUME NEW S, \A n \in Nat : (\A m \in Nat : m < n => m \in S) => n \in S
    PROVE  Nat \subseteq S
<1> SUFFICES ASSUME Nat \ S # {} PROVE FALSE
  OBVIOUS
<1>1. PICK n \in Nat \ S : \A m \in Nat \ S : n <= m
  BY LeastNumber
<1> QED BY <1>1

-----------------------------------------------------------------------------
(* The parser.  Each of its recursive calls is of a smaller Level: further  *)
(* on in the condition, or at the same place a production further down.     *)

Places(s) == Productions \X (1..(Len(s) + 1))
Rank(p) == CASE p = "atom" -> 0 [] p = "conjunction" -> 1 [] p = "disjunction" -> 2
Level(s, x) == 3 * (Len(s) + 1 - x[2]) + Rank(x[1])

\* A production fails or consumes something.
Advances(s, x, e) == e = Failed \/ e \in (x[2] + 1)..(Len(s) + 1)

\* Every place has its level.
LEMMA Levels ==
    ASSUME NEW s, Len(s) \in Nat
    PROVE  /\ \A x \in Places(s) : Level(s, x) \in Nat
           /\ \A p \in Productions, i \in 1..(Len(s) + 1) :
                 /\ <<p, i>> \in Places(s)
                 /\ Level(s, <<p, i>>) = 3 * (Len(s) + 1 - i) + Rank(p)
BY DEF Places, Level, Rank, Productions

\* An atom is part of a conjunction, a conjunction of a disjunction.
LEMMA Ranks ==
    /\ Rank("atom") = 0 /\ Rank("conjunction") = 1 /\ Rank("disjunction") = 2
    /\ "atom" \in Productions /\ "conjunction" \in Productions /\ "disjunction" \in Productions
BY DEF Rank, Productions

\* What a production reads of other ends has a smaller level, if those advance.
LEMMA ProductionReads ==
    ASSUME NEW s, Len(s) \in Nat, NEW x \in Places(s), NEW f, NEW g,
           \A y \in Places(s) : Level(s, y) < Level(s, x) =>
               f[y] = g[y] /\ Advances(s, y, f[y])
    PROVE  /\ ProductionEnd(s, f, x[1], x[2]) = ProductionEnd(s, g, x[1], x[2])
           /\ Advances(s, x, ProductionEnd(s, f, x[1], x[2]))
<1> DEFINE N == Len(s)
           i == x[2]
<1>1. i \in 1..(N + 1) /\ x[1] \in Productions /\ x = <<x[1], i>>
  BY DEF Places
<1>2. \A p \in Productions, k \in 1..(N + 1) :
        3 * (N + 1 - k) + Rank(p) < 3 * (N + 1 - i) + Rank(x[1]) =>
            f[<<p, k>>] = g[<<p, k>>] /\ Advances(s, <<p, k>>, f[<<p, k>>])
  BY <1>1, Levels
<1>3. CASE x[1] = "atom"
  <2>1. CASE i > N
    BY <1>3, <2>1 DEF ProductionEnd, AtomEnd, Advances
  <2>2. CASE i <= N
    <3>1. /\ f[<<"atom", i + 1>>] = g[<<"atom", i + 1>>]
          /\ Advances(s, <<"atom", i + 1>>, f[<<"atom", i + 1>>])
      BY <1>1, <1>2, <1>3, <2>2, Ranks
    <3>2. /\ f[<<"disjunction", i + 1>>] = g[<<"disjunction", i + 1>>]
          /\ Advances(s, <<"disjunction", i + 1>>, f[<<"disjunction", i + 1>>])
      BY <1>1, <1>2, <1>3, <2>2, Ranks
    <3>3. /\ ProductionEnd(s, f, x[1], x[2]) = AtomEnd(s, f, i)
          /\ ProductionEnd(s, g, x[1], x[2]) = AtomEnd(s, g, i)
      BY <1>3 DEF ProductionEnd
    <3>4. AtomEnd(s, f, i) = AtomEnd(s, g, i)
      BY <3>1, <3>2 DEF AtomEnd
    <3>5. Advances(s, x, AtomEnd(s, f, i))
      <4>1. CASE AtomEnd(s, f, i) = f[<<"atom", i + 1>>]
        BY <1>1, <2>2, <3>1, <4>1 DEF Advances, Failed
      <4>2. CASE /\ f[<<"disjunction", i + 1>>] # Failed
                 /\ Has(s, f[<<"disjunction", i + 1>>], ")")
                 /\ AtomEnd(s, f, i) = f[<<"disjunction", i + 1>>] + 1
        BY <1>1, <2>2, <3>2, <4>2 DEF Advances, Has, Failed
      <4>3. CASE AtomEnd(s, f, i) = QuantifierEnd(s, i)
        BY <1>1, <2>2, <4>3 DEF Advances, QuantifierEnd, Has, Failed
      <4>4. CASE AtomEnd(s, f, i) \in {i + 1, Failed}
        BY <1>1, <2>2, <4>4 DEF Advances, Failed
      <4> QED BY <2>2, <4>1, <4>2, <4>3, <4>4 DEF AtomEnd
    <3> QED BY <3>3, <3>4, <3>5
  <2> QED BY <1>1, <2>1, <2>2
<1>4. CASE x[1] = "conjunction"
  <2>1. /\ f[<<"atom", i>>] = g[<<"atom", i>>]
        /\ Advances(s, <<"atom", i>>, f[<<"atom", i>>])
    BY <1>1, <1>2, <1>4, Ranks
  <2>2. ASSUME NEW j \in (i + 1)..N
        PROVE  /\ f[<<"conjunction", j + 1>>] = g[<<"conjunction", j + 1>>]
               /\ Advances(s, <<"conjunction", j + 1>>, f[<<"conjunction", j + 1>>])
    <3>1. j + 1 \in 1..(N + 1) /\ N + 1 - (j + 1) < N + 1 - i
      BY <1>1
    <3>2. Rank("conjunction") = 1 /\ Rank(x[1]) = 1 /\ "conjunction" \in Productions
      BY <1>4, Ranks
    <3>3. N + 1 - (j + 1) \in Int /\ N + 1 - i \in Int
      BY <1>1
    <3>4. 3 * (N + 1 - (j + 1)) + Rank("conjunction") < 3 * (N + 1 - i) + Rank(x[1])
      BY <3>1, <3>2, <3>3
    <3> QED BY <1>2, <3>1, <3>2, <3>4
  <2>3. /\ ProductionEnd(s, f, x[1], x[2]) = ConjunctionEnd(s, f, i)
        /\ ProductionEnd(s, g, x[1], x[2]) = ConjunctionEnd(s, g, i)
    BY <1>4 DEF ProductionEnd
  <2>4. CASE f[<<"atom", i>>] # Failed /\ Has(s, f[<<"atom", i>>], "and")
    <3>1. f[<<"atom", i>>] \in (i + 1)..N
      BY <1>1, <2>1, <2>4 DEF Advances, Has
    <3>2. /\ ConjunctionEnd(s, f, i) = f[<<"conjunction", f[<<"atom", i>>] + 1>>]
          /\ ConjunctionEnd(s, g, i) = g[<<"conjunction", f[<<"atom", i>>] + 1>>]
      BY <2>1, <2>4 DEF ConjunctionEnd
    <3> QED BY <1>1, <2>2, <2>3, <3>1, <3>2 DEF Advances
  <2>5. CASE ~(f[<<"atom", i>>] # Failed /\ Has(s, f[<<"atom", i>>], "and"))
    <3>1. ConjunctionEnd(s, f, i) = f[<<"atom", i>>] /\ ConjunctionEnd(s, g, i) = f[<<"atom", i>>]
      BY <2>1, <2>5 DEF ConjunctionEnd
    <3> QED BY <1>1, <2>1, <2>3, <3>1 DEF Advances
  <2> QED BY <2>4, <2>5
<1>5. CASE x[1] = "disjunction"
  <2>1. /\ f[<<"conjunction", i>>] = g[<<"conjunction", i>>]
        /\ Advances(s, <<"conjunction", i>>, f[<<"conjunction", i>>])
    BY <1>1, <1>2, <1>5, Ranks
  <2>2. ASSUME NEW j \in (i + 1)..N
        PROVE  /\ f[<<"disjunction", j + 1>>] = g[<<"disjunction", j + 1>>]
               /\ Advances(s, <<"disjunction", j + 1>>, f[<<"disjunction", j + 1>>])
    <3>1. j + 1 \in 1..(N + 1) /\ N + 1 - (j + 1) < N + 1 - i
      BY <1>1
    <3>2. Rank("disjunction") = 2 /\ Rank(x[1]) = 2 /\ "disjunction" \in Productions
      BY <1>5, Ranks
    <3>3. N + 1 - (j + 1) \in Int /\ N + 1 - i \in Int
      BY <1>1
    <3>4. 3 * (N + 1 - (j + 1)) + Rank("disjunction") < 3 * (N + 1 - i) + Rank(x[1])
      BY <3>1, <3>2, <3>3
    <3> QED BY <1>2, <3>1, <3>2, <3>4
  <2>3. /\ ProductionEnd(s, f, x[1], x[2]) = DisjunctionEnd(s, f, i)
        /\ ProductionEnd(s, g, x[1], x[2]) = DisjunctionEnd(s, g, i)
    BY <1>5 DEF ProductionEnd
  <2>4. CASE f[<<"conjunction", i>>] # Failed /\ Has(s, f[<<"conjunction", i>>], "or")
    <3>1. f[<<"conjunction", i>>] \in (i + 1)..N
      BY <1>1, <2>1, <2>4 DEF Advances, Has
    <3>2. /\ DisjunctionEnd(s, f, i) = f[<<"disjunction", f[<<"conjunction", i>>] + 1>>]
          /\ DisjunctionEnd(s, g, i) = g[<<"disjunction", f[<<"conjunction", i>>] + 1>>]
      BY <2>1, <2>4 DEF DisjunctionEnd
    <3> QED BY <1>1, <2>2, <2>3, <3>1, <3>2 DEF Advances
  <2>5. CASE ~(f[<<"conjunction", i>>] # Failed /\ Has(s, f[<<"conjunction", i>>], "or"))
    <3>1. DisjunctionEnd(s, f, i) = f[<<"conjunction", i>>] /\ DisjunctionEnd(s, g, i) = f[<<"conjunction", i>>]
      BY <2>1, <2>5 DEF DisjunctionEnd
    <3> QED BY <1>1, <2>1, <2>3, <3>1 DEF Advances
  <2> QED BY <2>4, <2>5
<1> QED BY <1>1, <1>3, <1>4, <1>5 DEF Productions

\* There is a function with the equation of Ends.
LEMMA EndsExist ==
    ASSUME NEW s, Len(s) \in Nat
    PROVE  \E f : f = [x \in Places(s) |-> ProductionEnd(s, f, x[1], x[2])]
<1> DEFINE Below(n) == {x \in Places(s) : Level(s, x) < n}
           Upto(n, f) == /\ f = [x \in Below(n) |-> ProductionEnd(s, f, x[1], x[2])]
                         /\ \A x \in Below(n) : Advances(s, x, f[x])
           Good == {n \in Nat : \E f : Upto(n, f)}
<1>1. ASSUME NEW n \in Nat, \A m \in Nat : m < n => m \in Good
      PROVE  n \in Good
  <2>1. CASE n = 0
    <3>1. Below(0) = {}
      BY Levels
    <3>2. Upto(0, [x \in Below(0) |-> 0])
      BY <3>1
    <3> QED BY <2>1, <3>2
  <2>2. CASE n # 0
    <3>1. n - 1 \in Nat /\ n - 1 < n
      BY <2>2
    <3>2. PICK f : Upto(n - 1, f)
      BY <1>1, <3>1
    <3> DEFINE g == [x \in Below(n) |-> ProductionEnd(s, f, x[1], x[2])]
    <3>3. \A x \in Below(n - 1) : x \in Below(n) /\ g[x] = f[x] /\ Advances(s, x, f[x])
      BY <3>1, <3>2, Levels
    <3>4. ASSUME NEW x \in Below(n)
          PROVE  /\ ProductionEnd(s, f, x[1], x[2]) = ProductionEnd(s, g, x[1], x[2])
                 /\ Advances(s, x, ProductionEnd(s, f, x[1], x[2]))
      <4>1. \A y \in Places(s) : Level(s, y) < Level(s, x) => y \in Below(n - 1)
        BY Levels
      <4>2. \A y \in Places(s) : Level(s, y) < Level(s, x) => f[y] = g[y] /\ Advances(s, y, f[y])
        BY <3>3, <4>1
      <4> HIDE DEF g
      <4> QED BY <4>2, ProductionReads
    <3>5. Upto(n, g)
      BY <3>4
    <3> QED BY <3>5
  <2> QED BY <2>1, <2>2
<1> HIDE DEF Good
<1>2. Nat \subseteq Good
  BY <1>1, StrongInduction
<1> USE DEF Good
<1>3. 3 * Len(s) + 6 \in Nat /\ \A x \in Places(s) : Level(s, x) < 3 * Len(s) + 6
  BY DEF Places, Level, Rank, Productions
<1>4. PICK f : Upto(3 * Len(s) + 6, f)
  BY <1>2, <1>3
<1>5. Below(3 * Len(s) + 6) = Places(s)
  BY <1>3
<1> QED BY <1>4, <1>5

\* Ends has its equation, and every production fails or consumes something.
LEMMA EndsAre ==
    ASSUME NEW s, Len(s) \in Nat
    PROVE  \A x \in Places(s) : /\ Ends(s)[x] = ProductionEnd(s, Ends(s), x[1], x[2])
                                /\ Advances(s, x, Ends(s)[x])
<1>1. Ends(s) = [x \in Places(s) |-> ProductionEnd(s, Ends(s), x[1], x[2])]
  BY EndsExist DEF Ends, Places
<1> DEFINE f == Ends(s)
           Good == {n \in Nat : \A x \in Places(s) : Level(s, x) = n => Advances(s, x, f[x])}
<1>2. ASSUME NEW n \in Nat, \A m \in Nat : m < n => m \in Good
      PROVE  n \in Good
  <2> SUFFICES ASSUME NEW x \in Places(s), Level(s, x) = n
               PROVE  Advances(s, x, f[x])
    OBVIOUS
  <2>1. \A y \in Places(s) : Level(s, y) < Level(s, x) => f[y] = f[y] /\ Advances(s, y, f[y])
    BY <1>2, Levels
  <2>2. f[x] = ProductionEnd(s, f, x[1], x[2])
    BY <1>1
  <2> HIDE DEF f
  <2> QED BY <2>1, <2>2, ProductionReads
<1> HIDE DEF Good
<1>3. Nat \subseteq Good
  BY <1>2, StrongInduction
<1> USE DEF Good
<1>4. \A x \in Places(s) : Advances(s, x, f[x])
  BY <1>3, Levels
<1> QED BY <1>1, <1>4

End(s, p, i) == Ends(s)[<<p, i>>]

\* What the productions return, in terms of one another.
LEMMA Parsing ==
    ASSUME NEW s, Len(s) \in Nat, NEW i \in 1..(Len(s) + 1)
    PROVE  /\ End(s, "atom", i) = AtomEnd(s, Ends(s), i)
           /\ End(s, "conjunction", i) = ConjunctionEnd(s, Ends(s), i)
           /\ End(s, "disjunction", i) = DisjunctionEnd(s, Ends(s), i)
           /\ \A p \in Productions :
                 End(s, p, i) = Failed \/ End(s, p, i) \in (i + 1)..(Len(s) + 1)
<1>1. \A p \in Productions : /\ End(s, p, i) = ProductionEnd(s, Ends(s), p, i)
                             /\ Advances(s, <<p, i>>, End(s, p, i))
  BY EndsAre DEF End, Places
<1>2. \A p \in Productions :
        End(s, p, i) = Failed \/ End(s, p, i) \in (i + 1)..(Len(s) + 1)
  BY <1>1 DEF Advances
<1> QED BY <1>1, <1>2, Ranks DEF ProductionEnd

-----------------------------------------------------------------------------
(* The grammar.  What a part is derived from is shorter. *)

Pieces(s, depth) == {"atom", "expr"} \X (DOMAIN s) \X (DOMAIN s) \X (0..depth)
Span(s, x) == x[3] - x[2] + Len(s)

\* What a derivation reads of others are shorter parts of the condition.
LEMMA DerivedReads ==
    ASSUME NEW s \in Seq(Lexemes), NEW depth \in Nat, NEW resolved \in BOOLEAN,
           NEW x \in Pieces(s, depth), NEW f, NEW g,
           \A y \in Pieces(s, depth) : Span(s, y) < Span(s, x) => f[y] = g[y]
    PROVE  Derived(s, f, x[1], x[2], x[3], x[4], resolved)
              = Derived(s, g, x[1], x[2], x[3], x[4], resolved)
<1> DEFINE i == x[2]
           j == x[3]
           d == x[4]
<1>1. /\ i \in 1..Len(s) /\ j \in 1..Len(s) /\ d \in 0..depth /\ x[1] \in {"atom", "expr"}
      /\ Len(s) \in Nat /\ DOMAIN s = 1..Len(s)
  BY DEF Pieces
<1>2. ASSUME NEW n \in {"atom", "expr"}, NEW a \in 1..Len(s), NEW b \in 1..Len(s), NEW e \in 0..depth,
             b - a < j - i
      PROVE  f[<<n, a, b, e>>] = g[<<n, a, b, e>>]
  <2>1. <<n, a, b, e>> \in Pieces(s, depth)
    BY <1>1 DEF Pieces
  <2>2. Span(s, <<n, a, b, e>>) < Span(s, x)
    BY <1>1, <1>2 DEF Span
  <2> QED BY <2>1, <2>2
<1> HIDE DEF i, j, d
<1>3. Atom(s, f, i, j, d, resolved) <=> Atom(s, g, i, j, d, resolved)
  <2>1. ASSUME i < j PROVE f[<<"atom", i + 1, j, d>>] = g[<<"atom", i + 1, j, d>>]
    <3>1. i + 1 \in 1..Len(s) /\ j - (i + 1) < j - i
      BY <1>1, <2>1
    <3> QED BY <1>1, <1>2, <3>1
  <2>2. ASSUME i + 1 < j, d > 0
        PROVE  f[<<"expr", i + 1, j - 1, d - 1>>] = g[<<"expr", i + 1, j - 1, d - 1>>]
    <3>1. i + 1 \in 1..Len(s) /\ j - 1 \in 1..Len(s) /\ d - 1 \in 0..depth
      BY <1>1, <2>2
    <3>2. (j - 1) - (i + 1) < j - i
      BY <1>1, <2>2
    <3> QED BY <1>2, <3>1, <3>2
  <2> QED BY <2>1, <2>2 DEF Atom
<1>4. ASSUME NEW k \in (i + 1)..(j - 1)
      PROVE  /\ f[<<"expr", i, k - 1, d>>] = g[<<"expr", i, k - 1, d>>]
             /\ f[<<"expr", k + 1, j, d>>] = g[<<"expr", k + 1, j, d>>]
  <2>1. k - 1 \in 1..Len(s) /\ k + 1 \in 1..Len(s)
    BY <1>1
  <2>2. (k - 1) - i < j - i /\ j - (k + 1) < j - i
    BY <1>1
  <2> QED BY <1>1, <1>2, <2>1, <2>2
<1>5. Derived(s, f, x[1], i, j, d, resolved) <=> Derived(s, g, x[1], i, j, d, resolved)
  BY <1>3, <1>4 DEF Derived
<1>6. Derived(s, f, x[1], i, j, d, resolved) = Derived(s, g, x[1], i, j, d, resolved)
  BY <1>5 DEF Derived
<1> QED BY <1>6 DEF i, j, d

\* There is a function with the equation of Derivations.
LEMMA DerivationsExist ==
    ASSUME NEW s \in Seq(Lexemes), NEW depth \in Nat, NEW resolved \in BOOLEAN
    PROVE  \E f : f = [x \in Pieces(s, depth) |-> Derived(s, f, x[1], x[2], x[3], x[4], resolved)]
<1> DEFINE Below(n) == {x \in Pieces(s, depth) : Span(s, x) < n}
           Upto(n, f) == f = [x \in Below(n) |-> Derived(s, f, x[1], x[2], x[3], x[4], resolved)]
           Good == {n \in Nat : \E f : Upto(n, f)}
<1>0. \A x \in Pieces(s, depth) : Span(s, x) \in Nat /\ Span(s, x) < 2 * Len(s)
  BY DEF Pieces, Span
<1>1. ASSUME NEW n \in Nat, \A m \in Nat : m < n => m \in Good
      PROVE  n \in Good
  <2>1. CASE n = 0
    <3>1. Below(0) = {}
      BY <1>0
    <3>2. Upto(0, [x \in Below(0) |-> 0])
      BY <3>1
    <3> QED BY <2>1, <3>2
  <2>2. CASE n # 0
    <3>1. n - 1 \in Nat /\ n - 1 < n
      BY <2>2
    <3>2. PICK f : Upto(n - 1, f)
      BY <1>1, <3>1
    <3> DEFINE g == [x \in Below(n) |-> Derived(s, f, x[1], x[2], x[3], x[4], resolved)]
    <3>3. \A x \in Below(n - 1) : x \in Below(n) /\ g[x] = f[x]
      BY <1>0, <3>1, <3>2
    <3>4. ASSUME NEW x \in Below(n)
          PROVE  Derived(s, f, x[1], x[2], x[3], x[4], resolved)
                    = Derived(s, g, x[1], x[2], x[3], x[4], resolved)
      <4>1. \A y \in Pieces(s, depth) : Span(s, y) < Span(s, x) => y \in Below(n - 1)
        BY <1>0
      <4>2. \A y \in Pieces(s, depth) : Span(s, y) < Span(s, x) => f[y] = g[y]
        BY <3>3, <4>1
      <4> HIDE DEF g
      <4> QED BY <4>2, DerivedReads
    <3>5. Upto(n, g)
      BY <3>4
    <3> QED BY <3>5
  <2> QED BY <2>1, <2>2
<1> HIDE DEF Good
<1>2. Nat \subseteq Good
  BY <1>1, StrongInduction
<1> USE DEF Good
<1>3. PICK f : Upto(2 * Len(s), f)
  <2>1. 2 * Len(s) \in Nat
    OBVIOUS
  <2>2. 2 * Len(s) \in Good
    BY <1>2, <2>1 DEF Good
  <2> QED BY <2>2
<1>4. Below(2 * Len(s)) = Pieces(s, depth)
  BY <1>0
<1> QED BY <1>3, <1>4

IsA(s, n, i, j, d, resolved) == Derivations(s, MaxNesting, resolved)[<<n, i, j, d>>]

\* What is derived, in terms of shorter derivations.
LEMMA Deriving ==
    ASSUME NEW s \in Seq(Lexemes), NEW resolved \in BOOLEAN,
           NEW i \in 1..Len(s), NEW j \in 1..Len(s), NEW d \in 0..MaxNesting
    PROVE  /\ IsA(s, "atom", i, j, d, resolved)
                <=> Atom(s, Derivations(s, MaxNesting, resolved), i, j, d, resolved)
           /\ IsA(s, "expr", i, j, d, resolved)
                <=> \/ IsA(s, "atom", i, j, d, resolved)
                    \/ \E k \in (i + 1)..(j - 1) :
                          /\ s[k] \in {"and", "or"}
                          /\ IsA(s, "expr", i, k - 1, d, resolved)
                          /\ IsA(s, "expr", k + 1, j, d, resolved)
<1> DEFINE f == Derivations(s, MaxNesting, resolved)
<1>0. MaxNesting \in Nat
  BY GrammarAssumption
<1>1. f = [x \in Pieces(s, MaxNesting) |-> Derived(s, f, x[1], x[2], x[3], x[4], resolved)]
  <2>1. \E h : h = [x \in Pieces(s, MaxNesting) |-> Derived(s, h, x[1], x[2], x[3], x[4], resolved)]
    BY <1>0, DerivationsExist
  <2> QED BY <2>1 DEF Derivations, Pieces
<1>2. <<"atom", i, j, d>> \in Pieces(s, MaxNesting) /\ <<"expr", i, j, d>> \in Pieces(s, MaxNesting)
  BY DEF Pieces
<1> HIDE DEF f
<1>3. /\ f[<<"atom", i, j, d>>] = Derived(s, f, "atom", i, j, d, resolved)
      /\ f[<<"expr", i, j, d>>] = Derived(s, f, "expr", i, j, d, resolved)
  BY <1>1, <1>2
<1> QED BY <1>3 DEF f, Derived, IsA

\* The forms of an atom, in terms of shorter derivations.
LEMMA AtomForms ==
    ASSUME NEW s \in Seq(Lexemes), NEW resolved \in BOOLEAN,
           NEW i \in 1..Len(s), NEW j \in 1..Len(s), NEW d \in 0..MaxNesting
    PROVE  IsA(s, "atom", i, j, d, resolved) <=>
              \/ i = j /\ s[i] \in Names /\ (resolved => s[i] \in Selectors)
              \/ i < j /\ s[i] = "not" /\ IsA(s, "atom", i + 1, j, d, resolved)
              \/ /\ i + 1 < j /\ d > 0 /\ s[i] = "(" /\ s[j] = ")"
                 /\ IsA(s, "expr", i + 1, j - 1, d - 1, resolved)
              \/ /\ i + 2 = j /\ Quantified(s, i, Identifiers)
                 /\ resolved => Available(s[j]) >= (IF s[i] = "all" THEN 1 ELSE CountOf[s[i]])
<1> DEFINE f == Derivations(s, MaxNesting, resolved)
<1>1. IsA(s, "atom", i, j, d, resolved) <=> Atom(s, f, i, j, d, resolved)
  BY Deriving
<1>2. /\ IsA(s, "atom", i + 1, j, d, resolved) = f[<<"atom", i + 1, j, d>>]
      /\ IsA(s, "expr", i + 1, j - 1, d - 1, resolved) = f[<<"expr", i + 1, j - 1, d - 1>>]
  BY DEF IsA
<1> HIDE DEF f
<1> QED BY <1>1, <1>2, Zenon DEF Atom

\* The same where names need not be declared.
LEMMA UnresolvedAtoms ==
    ASSUME NEW s \in Seq(Lexemes),
           NEW i \in 1..Len(s), NEW j \in 1..Len(s), NEW d \in 0..MaxNesting
    PROVE  IsA(s, "atom", i, j, d, FALSE) <=>
              \/ i = j /\ s[i] \in Names
              \/ i < j /\ s[i] = "not" /\ IsA(s, "atom", i + 1, j, d, FALSE)
              \/ /\ i + 1 < j /\ d > 0 /\ s[i] = "(" /\ s[j] = ")"
                 /\ IsA(s, "expr", i + 1, j - 1, d - 1, FALSE)
              \/ i + 2 = j /\ Quantified(s, i, Identifiers)
<1>1. FALSE \in BOOLEAN
  OBVIOUS
<1> DEFINE Resolved == Available(s[j]) >= (IF s[i] = "all" THEN 1 ELSE CountOf[s[i]])
<1>2. IsA(s, "atom", i, j, d, FALSE) <=>
              \/ i = j /\ s[i] \in Names /\ (FALSE => s[i] \in Selectors)
              \/ i < j /\ s[i] = "not" /\ IsA(s, "atom", i + 1, j, d, FALSE)
              \/ /\ i + 1 < j /\ d > 0 /\ s[i] = "(" /\ s[j] = ")"
                 /\ IsA(s, "expr", i + 1, j - 1, d - 1, FALSE)
              \/ /\ i + 2 = j /\ Quantified(s, i, Identifiers)
                 /\ FALSE => Resolved
  BY <1>1, AtomForms
<1> QED BY <1>2

\* What holds of a part if it holds of all shorter ones holds of every part.
LEMMA PartInduction ==
    ASSUME NEW s \in Seq(Lexemes), NEW S,
           \A i, j \in 1..Len(s), d \in 0..MaxNesting :
              (\A a, b \in 1..Len(s), e \in 0..MaxNesting : b - a < j - i => <<a, b, e>> \in S)
                 => <<i, j, d>> \in S
    PROVE  \A i, j \in 1..Len(s), d \in 0..MaxNesting : <<i, j, d>> \in S
<1> DEFINE Good == {n \in Nat : \A i, j \in 1..Len(s), d \in 0..MaxNesting :
                                   j - i + Len(s) = n => <<i, j, d>> \in S}
<1>1. ASSUME NEW n \in Nat, \A m \in Nat : m < n => m \in Good
      PROVE  n \in Good
  <2> SUFFICES ASSUME NEW i \in 1..Len(s), NEW j \in 1..Len(s), NEW d \in 0..MaxNesting,
                      j - i + Len(s) = n
               PROVE  <<i, j, d>> \in S
    OBVIOUS
  <2>1. ASSUME NEW a \in 1..Len(s), NEW b \in 1..Len(s), NEW e \in 0..MaxNesting, b - a < j - i
        PROVE  <<a, b, e>> \in S
    <3>1. b - a + Len(s) \in Nat /\ b - a + Len(s) < n
      BY <2>1
    <3> QED BY <1>1, <3>1
  <2> QED BY <2>1
<1> HIDE DEF Good
<1>2. Nat \subseteq Good
  BY <1>1, StrongInduction
<1>3. ASSUME NEW i \in 1..Len(s), NEW j \in 1..Len(s), NEW d \in 0..MaxNesting
      PROVE  <<i, j, d>> \in S
  <2>1. j - i + Len(s) \in Nat
    OBVIOUS
  <2>2. j - i + Len(s) \in Good
    BY <1>2, <2>1
  <2> QED BY <2>2 DEF Good
<1> QED BY <1>3

\* A part that is derived is not empty.
LEMMA DerivedParts ==
    ASSUME NEW s \in Seq(Lexemes), NEW resolved \in BOOLEAN,
           NEW i \in 1..Len(s), NEW j \in 1..Len(s), NEW d \in 0..MaxNesting,
           NEW n \in {"atom", "expr"}, IsA(s, n, i, j, d, resolved)
    PROVE  i <= j
<1>1. IsA(s, "atom", i, j, d, resolved) => i <= j
  BY AtomForms
<1>2. (\E k \in (i + 1)..(j - 1) : TRUE) => i <= j
  OBVIOUS
<1> QED BY <1>1, <1>2, Deriving

\* The grammar splits an expression anywhere, the parser after its first atom.
LEMMA FirstAtom ==
    ASSUME NEW s \in Seq(Lexemes), NEW resolved \in BOOLEAN
    PROVE  \A i, j \in 1..Len(s), d \in 0..MaxNesting :
              IsA(s, "expr", i, j, d, resolved) =>
                 \E m \in i..j :
                    /\ IsA(s, "atom", i, m, d, resolved)
                    /\ \/ m = j
                       \/ /\ m + 2 <= j
                          /\ s[m + 1] \in {"and", "or"}
                          /\ IsA(s, "expr", m + 2, j, d, resolved)
<1> DEFINE First(i, j, d) ==
              IsA(s, "expr", i, j, d, resolved) =>
                 \E m \in i..j :
                    /\ IsA(s, "atom", i, m, d, resolved)
                    /\ \/ m = j
                       \/ /\ m + 2 <= j
                          /\ s[m + 1] \in {"and", "or"}
                          /\ IsA(s, "expr", m + 2, j, d, resolved)
           S == {x \in (1..Len(s)) \X (1..Len(s)) \X (0..MaxNesting) : First(x[1], x[2], x[3])}
<1> HIDE DEF First
<1>0. \A i, j \in 1..Len(s), d \in 0..MaxNesting : <<i, j, d>> \in S <=> First(i, j, d)
  OBVIOUS
<1> HIDE DEF S
<1> USE DEF First
<1>1. ASSUME NEW i \in 1..Len(s), NEW j \in 1..Len(s), NEW d \in 0..MaxNesting,
             \A a, b \in 1..Len(s), e \in 0..MaxNesting : b - a < j - i => <<a, b, e>> \in S,
             IsA(s, "expr", i, j, d, resolved)
      PROVE  \E m \in i..j :
                    /\ IsA(s, "atom", i, m, d, resolved)
                    /\ \/ m = j
                       \/ /\ m + 2 <= j
                          /\ s[m + 1] \in {"and", "or"}
                          /\ IsA(s, "expr", m + 2, j, d, resolved)
  <2>1. CASE IsA(s, "atom", i, j, d, resolved)
    <3>1. i <= j
      BY <2>1, DerivedParts
    <3> QED BY <2>1, <3>1
  <2>2. CASE ~IsA(s, "atom", i, j, d, resolved)
    <3>1. PICK k \in (i + 1)..(j - 1) : /\ s[k] \in {"and", "or"}
                                        /\ IsA(s, "expr", i, k - 1, d, resolved)
                                        /\ IsA(s, "expr", k + 1, j, d, resolved)
      BY <1>1, <2>2, Deriving
    <3>2. k - 1 \in 1..Len(s) /\ k + 1 \in 1..Len(s) /\ (k - 1) - i < j - i
      OBVIOUS
    <3>3. First(i, k - 1, d)
      BY <1>0, <1>1, <3>2
    <3>4. PICK m \in i..(k - 1) :
                    /\ IsA(s, "atom", i, m, d, resolved)
                    /\ \/ m = k - 1
                       \/ /\ m + 2 <= k - 1
                          /\ s[m + 1] \in {"and", "or"}
                          /\ IsA(s, "expr", m + 2, k - 1, d, resolved)
      BY <3>1, <3>3
    <3>5. m \in i..j /\ m + 2 <= j
      OBVIOUS
    <3>6. CASE m = k - 1
      <4>1. m + 1 = k /\ m + 2 = k + 1
        BY <3>6
      <4> QED BY <3>1, <3>4, <3>5, <4>1
    <3>7. CASE /\ m + 2 <= k - 1
               /\ s[m + 1] \in {"and", "or"}
               /\ IsA(s, "expr", m + 2, k - 1, d, resolved)
      <4>1. m + 2 \in 1..Len(s) /\ k \in (m + 2 + 1)..(j - 1)
        BY <3>7
      <4>2. IsA(s, "expr", m + 2, j, d, resolved)
        BY <3>1, <3>7, <4>1, Deriving
      <4> QED BY <3>4, <3>5, <3>7, <4>2
    <3> QED BY <3>4, <3>6, <3>7
  <2> QED BY <2>1, <2>2
<1>2. \A i, j \in 1..Len(s), d \in 0..MaxNesting : <<i, j, d>> \in S
  <2>1. ASSUME NEW i \in 1..Len(s), NEW j \in 1..Len(s), NEW d \in 0..MaxNesting,
               \A a, b \in 1..Len(s), e \in 0..MaxNesting : b - a < j - i => <<a, b, e>> \in S
        PROVE  <<i, j, d>> \in S
    BY <1>0, <1>1, <2>1
  <2> QED BY <2>1, PartInduction
<1> QED BY <1>0, <1>2

-----------------------------------------------------------------------------
(* Lexemes and parentheses. *)

\* Every lexeme is of one kind, and a count is a number.
LEMMA LexemeKinds ==
    /\ \A t \in Names : /\ t \notin Numerals \cup Keywords \cup Patterns
                        /\ t \notin {"(", ")", "|", Junk}
    /\ \A t \in Numerals : /\ t \notin Identifiers
                           /\ t \notin {"(", ")", "|", Junk}
                           /\ CountOf[t] \in Nat
    /\ \A t \in Identifiers : t \notin {"(", ")", "|", Junk}
    /\ Keywords = {"and", "or", "not", "of", "all", "them"}
    /\ \A t \in Identifiers : t \in Keywords \cup Names \cup Patterns
    /\ Keywords \cup Names \cup Patterns \subseteq Identifiers
    /\ Junk \notin {"(", ")", "|"}
BY GrammarAssumption DEF Identifiers, Keywords

\* One position more counts its lexeme.
LEMMA Counting ==
    ASSUME NEW s \in Seq(Lexemes), NEW t, NEW i \in 1..Len(s)
    PROVE  /\ Cardinality({j \in 1..i : s[j] = t}) \in Nat
           /\ Cardinality({j \in 1..(i - 1) : s[j] = t}) \in Nat
           /\ Cardinality({j \in 1..i : s[j] = t})
                = Cardinality({j \in 1..(i - 1) : s[j] = t}) + (IF s[i] = t THEN 1 ELSE 0)
<1> DEFINE T == {j \in 1..(i - 1) : s[j] = t}
           U == {j \in 1..i : s[j] = t}
<1>1. IsFiniteSet(1..(i - 1))
  BY FS_Interval
<1>2. IsFiniteSet(T)
  BY <1>1, FS_Subset
<1>3. Cardinality(T) \in Nat
  BY <1>2, FS_CardinalityType
<1>4. U = IF s[i] = t THEN T \cup {i} ELSE T
  OBVIOUS
<1>5. i \notin T
  OBVIOUS
<1> HIDE DEF T, U
<1>6. Cardinality(T \cup {i}) = Cardinality(T) + 1
  BY <1>2, <1>5, FS_AddElement
<1>7. Cardinality(U) = Cardinality(T) + (IF s[i] = t THEN 1 ELSE 0)
  BY <1>3, <1>4, <1>6
<1> QED BY <1>3, <1>7 DEF T, U

\* How a lexeme changes the number of open parentheses.
LEMMA Depths ==
    ASSUME NEW s \in Seq(Lexemes)
    PROVE  /\ Depth(s, 0) = 0
           /\ \A i \in 1..Len(s) :
                 /\ Depth(s, i) \in Int /\ Depth(s, i - 1) \in Int
                 /\ s[i] = "(" => Depth(s, i) = Depth(s, i - 1) + 1
                 /\ s[i] = ")" => Depth(s, i) = Depth(s, i - 1) - 1
                 /\ s[i] \notin {"(", ")"} => Depth(s, i) = Depth(s, i - 1)
<1>0. Len(s) \in Nat
  OBVIOUS
<1>1. Depth(s, 0) = 0
  <2>1. {j \in 1..0 : s[j] = "("} = {} /\ {j \in 1..0 : s[j] = ")"} = {}
    OBVIOUS
  <2>2. Cardinality({}) = 0
    BY FS_EmptySet
  <2> QED BY <2>1, <2>2 DEF Depth
<1>2. ASSUME NEW i \in 1..Len(s)
      PROVE  /\ Depth(s, i) \in Int /\ Depth(s, i - 1) \in Int
             /\ s[i] = "(" => Depth(s, i) = Depth(s, i - 1) + 1
             /\ s[i] = ")" => Depth(s, i) = Depth(s, i - 1) - 1
             /\ s[i] \notin {"(", ")"} => Depth(s, i) = Depth(s, i - 1)
  <2> DEFINE C(t, k) == Cardinality({j \in 1..k : s[j] = t})
  <2>1. \A t : /\ C(t, i) \in Nat /\ C(t, i - 1) \in Nat
               /\ C(t, i) = C(t, i - 1) + (IF s[i] = t THEN 1 ELSE 0)
    BY Counting
  <2>2. /\ Depth(s, i) = C("(", i) - C(")", i)
        /\ Depth(s, i - 1) = C("(", i - 1) - C(")", i - 1)
    BY DEF Depth
  <2> HIDE DEF C
  <2>3. /\ C("(", i) \in Nat /\ C("(", i - 1) \in Nat /\ C(")", i) \in Nat /\ C(")", i - 1) \in Nat
        /\ C("(", i) = C("(", i - 1) + (IF s[i] = "(" THEN 1 ELSE 0)
        /\ C(")", i) = C(")", i - 1) + (IF s[i] = ")" THEN 1 ELSE 0)
    BY <2>1
  <2>4. Depth(s, i) \in Int /\ Depth(s, i - 1) \in Int
    BY <2>2, <2>3
  <2>5. CASE s[i] = "("
    BY <2>2, <2>3, <2>5
  <2>6. CASE s[i] = ")"
    BY <2>2, <2>3, <2>6
  <2>7. CASE s[i] \notin {"(", ")"}
    <3>1. C("(", i) = C("(", i - 1) /\ C(")", i) = C(")", i - 1)
      BY <2>3, <2>7
    <3> QED BY <2>2, <2>4, <2>7, <3>1
  <2> QED BY <2>4, <2>5, <2>6, <2>7
<1> QED BY <1>1, <1>2

-----------------------------------------------------------------------------
(* The productions, case by case. *)

\* What an atom consumes, by its first lexeme.
LEMMA AtomEnds ==
    ASSUME NEW s \in Seq(Lexemes), NEW i \in 1..Len(s)
    PROVE  /\ s[i] = "not" => End(s, "atom", i) = End(s, "atom", i + 1)
           /\ s[i] = "(" =>
                 IF End(s, "disjunction", i + 1) # 0 /\ Has(s, End(s, "disjunction", i + 1), ")")
                 THEN End(s, "atom", i) = End(s, "disjunction", i + 1) + 1
                 ELSE End(s, "atom", i) = 0
           /\ s[i] \in Numerals \cup {"all"} => End(s, "atom", i) = QuantifierEnd(s, i)
           /\ s[i] \in Names => End(s, "atom", i) = i + 1
           /\ s[i] \notin {"not", "(", "all"} \cup Numerals \cup Names => End(s, "atom", i) = 0
<1>1. End(s, "atom", i) = AtomEnd(s, Ends(s), i)
  BY Parsing
<1>2. /\ End(s, "atom", i + 1) = Ends(s)[<<"atom", i + 1>>]
      /\ End(s, "disjunction", i + 1) = Ends(s)[<<"disjunction", i + 1>>]
  BY DEF End
<1>3. ~(i > Len(s))
  OBVIOUS
<1> QED BY <1>1, <1>2, <1>3, LexemeKinds DEF AtomEnd, Failed

\* Nothing can be read at the end of the condition.
LEMMA NothingLeft ==
    ASSUME NEW s \in Seq(Lexemes), NEW p \in Productions
    PROVE  End(s, p, Len(s) + 1) = 0
<1>1. Len(s) \in Nat /\ Len(s) + 1 \in 1..(Len(s) + 1)
  OBVIOUS
<1>2. End(s, p, Len(s) + 1) \notin (Len(s) + 1 + 1)..(Len(s) + 1)
  BY <1>1
<1> QED BY <1>1, <1>2, Parsing DEF Failed

\* The loops over "and" and over "or".
LEMMA LoopEnds ==
    ASSUME NEW s \in Seq(Lexemes), NEW i \in 1..(Len(s) + 1)
    PROVE  /\ IF End(s, "atom", i) # 0 /\ Has(s, End(s, "atom", i), "and")
              THEN End(s, "conjunction", i) = End(s, "conjunction", End(s, "atom", i) + 1)
              ELSE End(s, "conjunction", i) = End(s, "atom", i)
           /\ IF End(s, "conjunction", i) # 0 /\ Has(s, End(s, "conjunction", i), "or")
              THEN End(s, "disjunction", i) = End(s, "disjunction", End(s, "conjunction", i) + 1)
              ELSE End(s, "disjunction", i) = End(s, "conjunction", i)
<1>1. /\ End(s, "conjunction", i) = ConjunctionEnd(s, Ends(s), i)
      /\ End(s, "disjunction", i) = DisjunctionEnd(s, Ends(s), i)
  BY Parsing
<1> QED BY <1>1 DEF ConjunctionEnd, DisjunctionEnd, End, Failed

-----------------------------------------------------------------------------
(* What the grammar derives, the parser reads. *)

\* A derived atom is consumed whole, and so is a derived expression that no "and"
\* or "or" follows.
LEMMA ReadsDerived ==
    ASSUME NEW s \in Seq(Lexemes)
    PROVE  \A i, j \in 1..Len(s), d \in 0..MaxNesting :
              /\ IsA(s, "atom", i, j, d, FALSE) => End(s, "atom", i) = j + 1
              /\ IsA(s, "expr", i, j, d, FALSE) /\ ~Has(s, j + 1, "and") /\ ~Has(s, j + 1, "or") =>
                    End(s, "disjunction", i) = j + 1
<1> DEFINE AtomRead(i, j, d) == IsA(s, "atom", i, j, d, FALSE) => End(s, "atom", i) = j + 1
           ExprRead(i, j, d) ==
              IsA(s, "expr", i, j, d, FALSE) /\ ~Has(s, j + 1, "and") /\ ~Has(s, j + 1, "or") =>
                 End(s, "disjunction", i) = j + 1
           S == {x \in (1..Len(s)) \X (1..Len(s)) \X (0..MaxNesting) :
                    AtomRead(x[1], x[2], x[3]) /\ ExprRead(x[1], x[2], x[3])}
<1> HIDE DEF AtomRead, ExprRead
<1>0. \A i, j \in 1..Len(s), d \in 0..MaxNesting :
         <<i, j, d>> \in S <=> AtomRead(i, j, d) /\ ExprRead(i, j, d)
  OBVIOUS
<1> HIDE DEF S
<1> USE DEF AtomRead, ExprRead
<1>m. MaxNesting \in Nat /\ Len(s) \in Nat
  BY GrammarAssumption
<1>1. ASSUME NEW i \in 1..Len(s), NEW j \in 1..Len(s), NEW d \in 0..MaxNesting,
             \A a, b \in 1..Len(s), e \in 0..MaxNesting :
                b - a < j - i => AtomRead(a, b, e) /\ ExprRead(a, b, e)
      PROVE  AtomRead(i, j, d)
  <2> SUFFICES ASSUME IsA(s, "atom", i, j, d, FALSE)
               PROVE  End(s, "atom", i) = j + 1
    OBVIOUS
  <2>1. CASE i = j /\ s[i] \in Names
    BY <2>1, AtomEnds
  <2>2. CASE i < j /\ s[i] = "not" /\ IsA(s, "atom", i + 1, j, d, FALSE)
    <3>1. i + 1 \in 1..Len(s) /\ j - (i + 1) < j - i
      BY <2>2
    <3>2. End(s, "atom", i + 1) = j + 1
      BY <1>1, <2>2, <3>1
    <3> QED BY <2>2, <3>2, AtomEnds
  <2>3. CASE /\ i + 1 < j /\ d > 0 /\ s[i] = "(" /\ s[j] = ")"
             /\ IsA(s, "expr", i + 1, j - 1, d - 1, FALSE)
    <3>1. /\ i + 1 \in 1..Len(s) /\ j - 1 \in 1..Len(s) /\ d - 1 \in 0..MaxNesting
          /\ (j - 1) - (i + 1) < j - i
      BY <1>m, <2>3
    <3>2. ExprRead(i + 1, j - 1, d - 1)
      BY <1>1, <3>1
    <3>3. (j - 1) + 1 = j /\ j <= Len(s) /\ j # 0
      OBVIOUS
    <3>4. ~Has(s, j, "and") /\ ~Has(s, j, "or") /\ Has(s, j, ")")
      BY <2>3, <3>3 DEF Has
    <3>5. End(s, "disjunction", i + 1) = j
      BY <2>3, <3>2, <3>3, <3>4
    <3> QED BY <2>3, <3>3, <3>4, <3>5, AtomEnds
  <2>4. CASE i + 2 = j /\ Quantified(s, i, Identifiers)
    <3>1. End(s, "atom", i) = QuantifierEnd(s, i)
      BY <2>4, AtomEnds DEF Quantified
    <3>2. s[i] \in Numerals => CountOf[s[i]] >= 1
      BY <2>4, LexemeKinds DEF Quantified
    <3>3. i + 1 <= Len(s) /\ i + 2 <= Len(s)
      BY <2>4
    <3>4. s[i + 1] = "of" /\ s[i + 2] \in Identifiers
      BY <2>4 DEF Quantified
    <3>5. QuantifierEnd(s, i) = i + 3
      BY <3>2, <3>3, <3>4 DEF QuantifierEnd, Has
    <3> QED BY <2>4, <3>1, <3>5
  <2>5. \/ i = j /\ s[i] \in Names
        \/ i < j /\ s[i] = "not" /\ IsA(s, "atom", i + 1, j, d, FALSE)
        \/ /\ i + 1 < j /\ d > 0 /\ s[i] = "(" /\ s[j] = ")"
           /\ IsA(s, "expr", i + 1, j - 1, d - 1, FALSE)
        \/ i + 2 = j /\ Quantified(s, i, Identifiers)
    BY UnresolvedAtoms
  <2> HIDE DEF AtomRead, ExprRead
  <2> QED BY <2>1, <2>2, <2>3, <2>4, <2>5, Zenon
<1>2. ASSUME NEW i \in 1..Len(s), NEW j \in 1..Len(s), NEW d \in 0..MaxNesting,
             \A a, b \in 1..Len(s), e \in 0..MaxNesting :
                b - a < j - i => AtomRead(a, b, e) /\ ExprRead(a, b, e)
      PROVE  ExprRead(i, j, d)
  <2> SUFFICES ASSUME IsA(s, "expr", i, j, d, FALSE),
                      ~Has(s, j + 1, "and"), ~Has(s, j + 1, "or")
               PROVE  End(s, "disjunction", i) = j + 1
    OBVIOUS
  <2>1. PICK m \in i..j : /\ IsA(s, "atom", i, m, d, FALSE)
                          /\ \/ m = j
                             \/ /\ m + 2 <= j
                                /\ s[m + 1] \in {"and", "or"}
                                /\ IsA(s, "expr", m + 2, j, d, FALSE)
    BY FirstAtom
  <2>2. m \in 1..Len(s) /\ m + 1 # 0 /\ j + 1 # 0
    OBVIOUS
  <2>3. m < j => End(s, "atom", i) = m + 1
    <3>1. m < j => m - i < j - i
      OBVIOUS
    <3> QED BY <1>2, <2>1, <2>2, <3>1
  <2>4. CASE m = j
    <3>1. End(s, "atom", i) = j + 1
      BY <1>1, <1>2, <2>1, <2>4
    <3>2. End(s, "conjunction", i) = j + 1
      BY <3>1, LoopEnds
    <3> QED BY <3>2, LoopEnds
  <2>5. CASE /\ m + 2 <= j
             /\ s[m + 1] \in {"and", "or"}
             /\ IsA(s, "expr", m + 2, j, d, FALSE)
    <3>1. m + 2 \in 1..Len(s) /\ j - (m + 2) < j - i /\ (m + 1) + 1 = m + 2 /\ m < j /\ m + 1 <= Len(s)
      BY <2>5
    <3>2. End(s, "disjunction", m + 2) = j + 1
      BY <1>2, <2>5, <3>1
    <3>3. End(s, "atom", i) = m + 1
      BY <2>3, <3>1
    <3>4. CASE s[m + 1] = "or"
      <4>1. ~Has(s, m + 1, "and") /\ Has(s, m + 1, "or")
        BY <3>1, <3>4 DEF Has
      <4>2. End(s, "conjunction", i) = m + 1
        BY <3>3, <4>1, LoopEnds
      <4> QED BY <2>2, <3>1, <3>2, <4>1, <4>2, LoopEnds
    <3>5. CASE s[m + 1] = "and"
      <4>1. Has(s, m + 1, "and")
        BY <3>1, <3>5 DEF Has
      <4>2. End(s, "conjunction", i) = End(s, "conjunction", m + 2)
        BY <2>2, <3>1, <3>3, <4>1, LoopEnds
      <4>3. End(s, "disjunction", i) = End(s, "disjunction", m + 2)
        BY <3>1, <4>2, LoopEnds
      <4> QED BY <3>2, <4>3
    <3> QED BY <2>5, <3>4, <3>5
  <2> QED BY <2>1, <2>4, <2>5
<1>3. \A i, j \in 1..Len(s), d \in 0..MaxNesting : <<i, j, d>> \in S
  <2>1. ASSUME NEW i \in 1..Len(s), NEW j \in 1..Len(s), NEW d \in 0..MaxNesting,
               \A a, b \in 1..Len(s), e \in 0..MaxNesting : b - a < j - i => <<a, b, e>> \in S
        PROVE  <<i, j, d>> \in S
    <3>1. \A a, b \in 1..Len(s), e \in 0..MaxNesting :
                b - a < j - i => AtomRead(a, b, e) /\ ExprRead(a, b, e)
      BY <1>0, <2>1
    <3>2. AtomRead(i, j, d) /\ ExprRead(i, j, d)
      BY <1>1, <1>2, <3>1
    <3> QED BY <1>0, <3>2
  <2> HIDE DEF AtomRead, ExprRead
  <2> QED BY <2>1, PartInduction
<1> QED BY <1>0, <1>3

\* What the scans ask of the lexemes from i to j: parentheses that match and are d
\* deep at most, no unknown characters, blanks after the counts.
Covered(s, i, j, d) ==
    /\ Depth(s, j) = Depth(s, i - 1)
    /\ \A k \in i..j : /\ Depth(s, i - 1) <= Depth(s, k)
                       /\ Depth(s, k) <= Depth(s, i - 1) + d
                       /\ s[k] # Junk
                       /\ s[k] \in Numerals => k \notin glued

\* Lexemes that are neither parentheses, nor unknown, nor counts.
Ordinary(t) == t \notin {"(", ")", Junk} \cup Numerals

\* Identifiers are.
LEMMA OrdinaryIdentifiers ==
    \A t \in Identifiers : Ordinary(t)
<1>1. \A t \in Identifiers : t \notin Numerals
  BY LexemeKinds
<1> QED BY <1>1, LexemeKinds DEF Ordinary

\* An ordinary lexeme in front changes nothing.
LEMMA CoveredBehind ==
    ASSUME NEW s \in Seq(Lexemes), NEW i \in 1..Len(s), NEW j \in 1..Len(s), NEW d \in Nat,
           i < j, Ordinary(s[i]), Covered(s, i + 1, j, d)
    PROVE  Covered(s, i, j, d)
<1>1. Depth(s, i) = Depth(s, i - 1) /\ Depth(s, i) \in Int
  BY Depths DEF Ordinary
<1>2. i..j = {i} \cup (i + 1)..j /\ (i + 1) - 1 = i
  OBVIOUS
<1>3. /\ Depth(s, j) = Depth(s, i)
      /\ \A k \in (i + 1)..j : /\ Depth(s, i) <= Depth(s, k)
                               /\ Depth(s, k) <= Depth(s, i) + d
                               /\ s[k] # Junk
                               /\ s[k] \in Numerals => k \notin glued
  BY <1>2 DEF Covered
<1>4. s[i] # Junk /\ s[i] \notin Numerals /\ Depth(s, i) <= Depth(s, i) + d
  BY <1>1 DEF Ordinary
<1> QED BY <1>1, <1>2, <1>3, <1>4 DEF Covered

\* A pair of parentheses around it makes it deeper.
LEMMA CoveredBetween ==
    ASSUME NEW s \in Seq(Lexemes), NEW i \in 1..Len(s), NEW j \in 1..Len(s), NEW d \in Nat \ {0},
           i + 1 < j, s[i] = "(", s[j] = ")", Covered(s, i + 1, j - 1, d - 1)
    PROVE  Covered(s, i, j, d)
<1>1. Depth(s, i) = Depth(s, i - 1) + 1 /\ Depth(s, i - 1) \in Int
  BY Depths
<1>2. Depth(s, j) = Depth(s, j - 1) - 1
  BY Depths
<1>3. i..j = {i} \cup (i + 1)..(j - 1) \cup {j} /\ (i + 1) - 1 = i
  OBVIOUS
<1>4. \A k \in 1..Len(s) : Depth(s, k) \in Int
  BY Depths
<1>5. /\ Depth(s, j - 1) = Depth(s, i)
      /\ \A k \in (i + 1)..(j - 1) : /\ k \in 1..Len(s)
                                     /\ Depth(s, i) <= Depth(s, k)
                                     /\ Depth(s, k) <= Depth(s, i) + (d - 1)
                                     /\ s[k] # Junk
                                     /\ s[k] \in Numerals => k \notin glued
  BY <1>3 DEF Covered
<1>6. ASSUME NEW k \in (i + 1)..(j - 1)
      PROVE  Depth(s, i - 1) <= Depth(s, k) /\ Depth(s, k) <= Depth(s, i - 1) + d
  <2>1. /\ Depth(s, k) \in Int /\ Depth(s, i) <= Depth(s, k)
        /\ Depth(s, k) <= Depth(s, i) + (d - 1)
    BY <1>4, <1>5
  <2> QED BY <1>1, <2>1
<1>7. s[i] # Junk /\ s[i] \notin Numerals /\ s[j] # Junk /\ s[j] \notin Numerals
  BY LexemeKinds
<1>8. Depth(s, j) = Depth(s, i - 1)
  BY <1>1, <1>2, <1>5
<1>9. ASSUME NEW k \in {i, j}
      PROVE  Depth(s, i - 1) <= Depth(s, k) /\ Depth(s, k) <= Depth(s, i - 1) + d
  BY <1>1, <1>8
<1> QED BY <1>3, <1>5, <1>6, <1>7, <1>8, <1>9 DEF Covered

\* Two parts joined by a ordinary lexeme.
LEMMA CoveredAround ==
    ASSUME NEW s \in Seq(Lexemes), NEW i \in 1..Len(s), NEW j \in 1..Len(s), NEW d \in Nat,
           NEW k \in (i + 1)..(j - 1), Ordinary(s[k]),
           Covered(s, i, k - 1, d), Covered(s, k + 1, j, d)
    PROVE  Covered(s, i, j, d)
<1>1. Depth(s, k) = Depth(s, k - 1)
  BY Depths DEF Ordinary
<1>2. i..j = i..(k - 1) \cup {k} \cup (k + 1)..j /\ (k + 1) - 1 = k
  OBVIOUS
<1>3. Depth(s, k) = Depth(s, i - 1) /\ Depth(s, j) = Depth(s, i - 1) /\ Depth(s, i - 1) \in Int
  BY <1>1, <1>2, Depths DEF Covered
<1>4. \A l \in i..(k - 1) : /\ Depth(s, i - 1) <= Depth(s, l)
                            /\ Depth(s, l) <= Depth(s, i - 1) + d
                            /\ s[l] # Junk
                            /\ s[l] \in Numerals => l \notin glued
  BY DEF Covered
<1>5. \A l \in (k + 1)..j : /\ Depth(s, i - 1) <= Depth(s, l)
                            /\ Depth(s, l) <= Depth(s, i - 1) + d
                            /\ s[l] # Junk
                            /\ s[l] \in Numerals => l \notin glued
  BY <1>2, <1>3 DEF Covered
<1>6. /\ Depth(s, i - 1) <= Depth(s, k) /\ Depth(s, k) <= Depth(s, i - 1) + d
      /\ s[k] # Junk /\ s[k] \notin Numerals
  BY <1>3 DEF Ordinary
<1> QED BY <1>2, <1>3, <1>4, <1>5, <1>6 DEF Covered

\* A quantifier has no parentheses.
LEMMA CoveredQuantifier ==
    ASSUME NEW s \in Seq(Lexemes), NEW i \in 1..Len(s), NEW j \in 1..Len(s), NEW d \in Nat,
           i + 2 = j, Quantified(s, i, Identifiers)
    PROVE  Covered(s, i, j, d)
<1>1. /\ s[i] \in Numerals \cup Identifiers /\ s[i + 1] \in Identifiers /\ s[i + 2] \in Identifiers
      /\ i \notin glued
  BY LexemeKinds DEF Quantified
<1>2. \A t \in Numerals \cup Identifiers : t \notin {"(", ")", Junk}
  BY LexemeKinds
<1>3. s[i + 1] \notin Numerals /\ s[i + 2] \notin Numerals
  BY <1>1, LexemeKinds
<1>4. /\ i + 1 \in 1..Len(s) /\ i + 2 \in 1..Len(s) /\ (i + 1) - 1 = i /\ (i + 2) - 1 = i + 1
      /\ i..j = {i, i + 1, i + 2}
  OBVIOUS
<1>5. Depth(s, i) = Depth(s, i - 1) /\ Depth(s, i - 1) \in Int
  BY <1>1, <1>2, Depths
<1>6. Depth(s, i + 1) = Depth(s, i)
  BY <1>1, <1>2, <1>4, Depths
<1>7. Depth(s, i + 2) = Depth(s, i + 1)
  BY <1>1, <1>2, <1>4, Depths
<1>8. \A k \in i..j : Depth(s, k) = Depth(s, i - 1) /\ Depth(s, k) <= Depth(s, i - 1) + d
  BY <1>4, <1>5, <1>6, <1>7
<1>9. \A k \in i..j : s[k] # Junk /\ (s[k] \in Numerals => k \notin glued)
  BY <1>1, <1>2, <1>3, <1>4
<1>10. Depth(s, j) = Depth(s, i - 1)
  BY <1>4, <1>8
<1>11. \A k \in i..j : Depth(s, i - 1) <= Depth(s, k)
  BY <1>5, <1>8
<1> QED BY <1>8, <1>9, <1>10, <1>11 DEF Covered

\* What is derived passes the scans.
LEMMA DerivedIsCovered ==
    ASSUME NEW s \in Seq(Lexemes)
    PROVE  \A i, j \in 1..Len(s), d \in 0..MaxNesting :
              IsA(s, "atom", i, j, d, FALSE) \/ IsA(s, "expr", i, j, d, FALSE) =>
                 Covered(s, i, j, d)
<1> DEFINE Either(i, j, d) == IsA(s, "atom", i, j, d, FALSE) \/ IsA(s, "expr", i, j, d, FALSE)
           S == {x \in (1..Len(s)) \X (1..Len(s)) \X (0..MaxNesting) :
                    Either(x[1], x[2], x[3]) => Covered(s, x[1], x[2], x[3])}
<1> HIDE DEF Either
<1>0. \A i, j \in 1..Len(s), d \in 0..MaxNesting :
         <<i, j, d>> \in S <=> (Either(i, j, d) => Covered(s, i, j, d))
  OBVIOUS
<1> HIDE DEF S
<1> USE DEF Either
<1>m. MaxNesting \in Nat /\ Len(s) \in Nat
  BY GrammarAssumption
<1>k. Ordinary("not") /\ Ordinary("and") /\ Ordinary("or")
  BY OrdinaryIdentifiers, LexemeKinds
<1>1. ASSUME NEW i \in 1..Len(s), NEW j \in 1..Len(s), NEW d \in 0..MaxNesting,
             \A a, b \in 1..Len(s), e \in 0..MaxNesting :
                b - a < j - i => (Either(a, b, e) => Covered(s, a, b, e)),
             IsA(s, "atom", i, j, d, FALSE)
      PROVE  Covered(s, i, j, d)
  <2>0. d \in Nat
    BY <1>m
  <2>1. CASE i = j /\ s[i] \in Names
    <3>1. s[i] \notin {"(", ")", Junk} \cup Numerals
      BY <2>1, LexemeKinds
    <3>2. Depth(s, i) = Depth(s, i - 1) /\ Depth(s, i) \in Int
      BY <3>1, Depths
    <3>3. i..j = {i}
      BY <2>1
    <3> QED BY <2>0, <2>1, <3>1, <3>2, <3>3 DEF Covered
  <2>2. CASE i < j /\ s[i] = "not" /\ IsA(s, "atom", i + 1, j, d, FALSE)
    <3>1. i + 1 \in 1..Len(s) /\ j - (i + 1) < j - i
      BY <2>2
    <3>2. Covered(s, i + 1, j, d)
      BY <1>1, <2>2, <3>1
    <3> QED BY <1>k, <2>0, <2>2, <3>2, CoveredBehind
  <2>3. CASE /\ i + 1 < j /\ d > 0 /\ s[i] = "(" /\ s[j] = ")"
             /\ IsA(s, "expr", i + 1, j - 1, d - 1, FALSE)
    <3>1. i + 1 \in 1..Len(s) /\ j - 1 \in 1..Len(s)
      BY <2>3
    <3>2. d - 1 \in 0..MaxNesting /\ d \in Nat \ {0}
      BY <1>m, <2>3
    <3>3. (j - 1) - (i + 1) < j - i
      OBVIOUS
    <3>4. Covered(s, i + 1, j - 1, d - 1)
      BY <1>1, <2>3, <3>1, <3>2, <3>3
    <3> QED BY <2>3, <3>2, <3>4, CoveredBetween
  <2>4. CASE i + 2 = j /\ Quantified(s, i, Identifiers)
    BY <2>0, <2>4, CoveredQuantifier
  <2>5. \/ i = j /\ s[i] \in Names
        \/ i < j /\ s[i] = "not" /\ IsA(s, "atom", i + 1, j, d, FALSE)
        \/ /\ i + 1 < j /\ d > 0 /\ s[i] = "(" /\ s[j] = ")"
           /\ IsA(s, "expr", i + 1, j - 1, d - 1, FALSE)
        \/ i + 2 = j /\ Quantified(s, i, Identifiers)
    BY <1>1, UnresolvedAtoms
  <2> QED BY <2>1, <2>2, <2>3, <2>4, <2>5, Zenon
<1>2. ASSUME NEW i \in 1..Len(s), NEW j \in 1..Len(s), NEW d \in 0..MaxNesting,
             \A a, b \in 1..Len(s), e \in 0..MaxNesting :
                b - a < j - i => (Either(a, b, e) => Covered(s, a, b, e)),
             Either(i, j, d)
      PROVE  Covered(s, i, j, d)
  <2>1. CASE IsA(s, "atom", i, j, d, FALSE)
    BY <1>1, <1>2, <2>1
  <2>2. CASE ~IsA(s, "atom", i, j, d, FALSE)
    <3>1. PICK k \in (i + 1)..(j - 1) : /\ s[k] \in {"and", "or"}
                                        /\ IsA(s, "expr", i, k - 1, d, FALSE)
                                        /\ IsA(s, "expr", k + 1, j, d, FALSE)
      BY <1>2, <2>2, Deriving
    <3>2. k - 1 \in 1..Len(s) /\ k + 1 \in 1..Len(s) /\ d \in Nat
      BY <1>m
    <3>3. (k - 1) - i < j - i /\ j - (k + 1) < j - i
      OBVIOUS
    <3>4. Covered(s, i, k - 1, d) /\ Covered(s, k + 1, j, d)
      BY <1>2, <3>1, <3>2, <3>3
    <3>5. Ordinary(s[k])
      BY <1>k, <3>1
    <3> QED BY <3>2, <3>4, <3>5, CoveredAround
  <2> QED BY <2>1, <2>2
<1>3. \A i, j \in 1..Len(s), d \in 0..MaxNesting : <<i, j, d>> \in S
  <2>1. ASSUME NEW i \in 1..Len(s), NEW j \in 1..Len(s), NEW d \in 0..MaxNesting,
               \A a, b \in 1..Len(s), e \in 0..MaxNesting : b - a < j - i => <<a, b, e>> \in S
        PROVE  <<i, j, d>> \in S
    <3> HIDE DEF Either
    <3>1. \A a, b \in 1..Len(s), e \in 0..MaxNesting :
                b - a < j - i => (Either(a, b, e) => Covered(s, a, b, e))
      BY <1>0, <2>1
    <3>2. Either(i, j, d) => Covered(s, i, j, d)
      BY <1>2, <3>1
    <3> QED BY <1>0, <3>2
  <2> HIDE DEF Either
  <2> QED BY <2>1, PartInduction
<1> QED BY <1>0, <1>3

-----------------------------------------------------------------------------
(* What the parser reads, the grammar derives. *)

Kind(p) == IF p = "atom" THEN "atom" ELSE "expr"

\* What production p consumes from position i on, if its parentheses are d deep at
\* most, is derived, and closes what it opens.
Derives(s, p, i, d) ==
    LET e == End(s, p, i)
    IN e # 0 /\ (\A k \in i..(e - 1) : Depth(s, k) <= Depth(s, i - 1) + d) =>
          /\ Depth(s, e - 1) = Depth(s, i - 1)
          /\ IsA(s, Kind(p), i, e - 1, d, FALSE)

\* Blanks are only remembered of counts.
GluedCounts(s) == \A k \in DOMAIN s : k \in glued => s[k] \in Numerals

\* An atom, if the productions further on consume what is derived.
LEMMA AtomDerives ==
    ASSUME NEW s \in Seq(Lexemes), Separated(s), GluedCounts(s),
           NEW i \in 1..Len(s), NEW d \in 0..MaxNesting,
           i < Len(s) => \A p \in Productions, e \in 0..MaxNesting : Derives(s, p, i + 1, e)
    PROVE  Derives(s, "atom", i, d)
<1> DEFINE e == End(s, "atom", i)
<1>0. e = End(s, "atom", i) /\ Len(s) \in Nat /\ MaxNesting \in Nat
  BY GrammarAssumption
<1> HIDE DEF e
<1> SUFFICES ASSUME e # 0, \A k \in i..(e - 1) : Depth(s, k) <= Depth(s, i - 1) + d
             PROVE  Depth(s, e - 1) = Depth(s, i - 1) /\ IsA(s, "atom", i, e - 1, d, FALSE)
  BY <1>0 DEF Derives, Kind
<1>1. e \in (i + 1)..(Len(s) + 1)
  BY <1>0, Ranks, Parsing DEF Failed
<1>2. \A k \in 1..Len(s) : Depth(s, k) \in Int /\ Depth(s, k - 1) \in Int
  BY Depths
<1>3. CASE s[i] = "not"
  <2>1. e = End(s, "atom", i + 1)
    BY <1>0, <1>3, AtomEnds
  <2>2. i < Len(s)
    BY <1>0, <2>1, Ranks, NothingLeft
  <2>3. i + 1 \in 1..(Len(s) + 1) /\ e \in (i + 2)..(Len(s) + 1) /\ (i + 1) - 1 = i
    BY <1>0, <2>1, <2>2, Ranks, Parsing DEF Failed
  <2>4. Depth(s, i) = Depth(s, i - 1)
    BY <1>3, Depths
  <2>5. \A k \in (i + 1)..(e - 1) : Depth(s, k) <= Depth(s, i) + d
    BY <1>1, <2>4
  <2>6. Depth(s, e - 1) = Depth(s, i) /\ IsA(s, "atom", i + 1, e - 1, d, FALSE)
    BY <2>1, <2>2, <2>3, <2>5, Ranks DEF Derives, Kind
  <2>7. e - 1 \in 1..Len(s) /\ i < e - 1
    BY <1>0, <2>3
  <2> QED BY <1>3, <2>4, <2>6, <2>7, UnresolvedAtoms
<1>4. CASE s[i] = "("
  <2> DEFINE j == End(s, "disjunction", i + 1)
  <2>0. j = End(s, "disjunction", i + 1)
    OBVIOUS
  <2> HIDE DEF j
  <2>1. j # 0 /\ Has(s, j, ")") /\ e = j + 1
    BY <1>0, <1>4, <2>0, AtomEnds
  <2>2. i < Len(s)
    BY <1>0, <2>0, <2>1, Ranks, NothingLeft
  <2>3. j \in (i + 2)..Len(s) /\ s[j] = ")" /\ (i + 1) - 1 = i
    <3>1. i + 1 \in 1..(Len(s) + 1)
      BY <2>2
    <3>2. j \in (i + 1 + 1)..(Len(s) + 1)
      BY <2>0, <2>1, <3>1, Ranks, Parsing DEF Failed
    <3> QED BY <1>0, <2>1, <3>2 DEF Has
  <2>4. Depth(s, i) = Depth(s, i - 1) + 1
    BY <1>4, Depths
  <2>5. d > 0 /\ d - 1 \in 0..MaxNesting
    <3>1. i \in i..(e - 1)
      BY <1>1
    <3>2. Depth(s, i) <= Depth(s, i - 1) + d
      BY <3>1
    <3> QED BY <1>0, <1>2, <2>4, <3>2
  <2>6. \A k \in (i + 1)..(j - 1) : Depth(s, k) <= Depth(s, i) + (d - 1)
    <3>1. ASSUME NEW k \in (i + 1)..(j - 1) PROVE Depth(s, k) <= Depth(s, i) + (d - 1)
      <4>1. k \in i..(e - 1) /\ k \in 1..Len(s)
        BY <2>1, <2>3
      <4>2. Depth(s, k) <= Depth(s, i - 1) + d
        BY <4>1
      <4> QED BY <1>2, <2>4, <4>1, <4>2
    <3> QED BY <3>1
  <2>7. Depth(s, j - 1) = Depth(s, i) /\ IsA(s, "expr", i + 1, j - 1, d - 1, FALSE)
    BY <2>0, <2>1, <2>2, <2>3, <2>5, <2>6, Ranks DEF Derives, Kind
  <2>8. Depth(s, j) = Depth(s, j - 1) - 1
    BY <2>3, Depths
  <2>9. e - 1 = j /\ j \in 1..Len(s) /\ i + 1 < j
    BY <2>1, <2>3
  <2>10. Depth(s, j) = Depth(s, i - 1)
    BY <1>2, <2>4, <2>7, <2>8
  <2>11. IsA(s, "atom", i, j, d, FALSE)
    BY <1>4, <2>3, <2>5, <2>7, <2>9, UnresolvedAtoms
  <2> QED BY <2>9, <2>10, <2>11
<1>5. CASE s[i] \in Numerals \cup {"all"}
  <2>1. e = QuantifierEnd(s, i)
    BY <1>0, <1>5, AtomEnds
  <2>2. /\ s[i] \in Numerals => CountOf[s[i]] >= 1
        /\ i + 2 <= Len(s) /\ s[i + 1] = "of" /\ s[i + 2] \in Identifiers /\ e = i + 3
    BY <2>1 DEF QuantifierEnd, Has, Failed
  <2>3. i \notin glued
    <3>1. i \in DOMAIN s /\ "all" \notin Numerals
      BY LexemeKinds
    <3> QED BY <1>5, <2>2, <3>1 DEF Separated, GluedCounts
  <2>4. Quantified(s, i, Identifiers)
    <3>1. s[i] \in Numerals => CountOf[s[i]] > 0
      BY <2>2, LexemeKinds
    <3> QED BY <1>5, <2>2, <2>3, <3>1 DEF Quantified
  <2>5. i + 2 \in 1..Len(s) /\ e - 1 = i + 2 /\ d \in Nat
    BY <2>2
  <2>6. Covered(s, i, i + 2, d)
    BY <2>4, <2>5, CoveredQuantifier
  <2>7. IsA(s, "atom", i, i + 2, d, FALSE)
    BY <2>4, <2>5, UnresolvedAtoms
  <2> QED BY <2>5, <2>6, <2>7 DEF Covered
<1>6. CASE s[i] \in Names
  <2>1. e = i + 1
    BY <1>0, <1>6, AtomEnds
  <2>2. e - 1 = i
    BY <2>1
  <2>3. Depth(s, i) = Depth(s, i - 1)
    <3>1. s[i] \notin {"(", ")"}
      BY <1>6, LexemeKinds
    <3> QED BY <3>1, Depths
  <2>4. IsA(s, "atom", i, i, d, FALSE)
    BY <1>6, UnresolvedAtoms
  <2> QED BY <2>2, <2>3, <2>4
<1>7. s[i] \in {"not", "("} \cup (Numerals \cup {"all"}) \cup Names
  BY <1>0, AtomEnds
<1> QED BY <1>3, <1>4, <1>5, <1>6, <1>7

\* A loop, given its first operand and what the production reads further on: p is a
\* loop over t of productions q.
LEMMA LoopDerives ==
    ASSUME NEW s \in Seq(Lexemes), NEW i \in 1..Len(s), NEW d \in 0..MaxNesting,
           NEW p \in {"conjunction", "disjunction"}, NEW q \in Productions, NEW t \in {"and", "or"},
           Derives(s, q, i, d),
           IF End(s, q, i) # 0 /\ Has(s, End(s, q, i), t)
           THEN End(s, p, i) = End(s, p, End(s, q, i) + 1)
           ELSE End(s, p, i) = End(s, q, i),
           \A k \in (i + 1)..Len(s) : Derives(s, p, k, d)
    PROVE  Derives(s, p, i, d)
<1> DEFINE e == End(s, p, i)
           j == End(s, q, i)
<1>0. e = End(s, p, i) /\ j = End(s, q, i) /\ Len(s) \in Nat /\ Kind(p) = "expr" /\ p \in Productions
  BY DEF Kind, Productions
<1>1. IF j # 0 /\ Has(s, j, t) THEN e = End(s, p, j + 1) ELSE e = j
  BY <1>0
<1> HIDE DEF e, j
<1> SUFFICES ASSUME e # 0, \A k \in i..(e - 1) : Depth(s, k) <= Depth(s, i - 1) + d
             PROVE  Depth(s, e - 1) = Depth(s, i - 1) /\ IsA(s, "expr", i, e - 1, d, FALSE)
  BY <1>0 DEF Derives
<1>2. e \in (i + 1)..(Len(s) + 1)
  BY <1>0, Parsing DEF Failed
<1>3. j \in (i + 1)..(Len(s) + 1)
  <2>1. j # 0
    BY <1>1
  <2> QED BY <1>0, <2>1, Parsing DEF Failed
<1>4. ASSUME j <= e
      PROVE  /\ Depth(s, j - 1) = Depth(s, i - 1)
             /\ IsA(s, "expr", i, j - 1, d, FALSE)
  <2>1. \A k \in i..(j - 1) : Depth(s, k) <= Depth(s, i - 1) + d
    BY <1>2, <1>3, <1>4
  <2>2. Depth(s, j - 1) = Depth(s, i - 1) /\ IsA(s, Kind(q), i, j - 1, d, FALSE)
    BY <1>0, <1>3, <2>1 DEF Derives
  <2>3. j - 1 \in 1..Len(s)
    BY <1>3
  <2> QED BY <2>2, <2>3, Deriving DEF Kind
<1>5. CASE ~Has(s, j, t)
  <2>1. e = j
    BY <1>1, <1>5
  <2>2. j <= e /\ e - 1 = j - 1
    BY <1>3, <2>1
  <2> QED BY <1>4, <2>2
<1>6. CASE Has(s, j, t)
  <2>1. j \in 1..Len(s) /\ s[j] = t /\ j # 0
    BY <1>3, <1>6 DEF Has
  <2>2. e = End(s, p, j + 1)
    BY <1>1, <1>6, <2>1
  <2>3. j < Len(s)
    BY <1>0, <2>1, <2>2, NothingLeft
  <2>4. j + 1 \in (i + 1)..Len(s) /\ (j + 1) - 1 = j /\ j + 1 \in 1..(Len(s) + 1)
    BY <1>3, <2>3
  <2>5. e \in (j + 1 + 1)..(Len(s) + 1)
    BY <1>0, <2>2, <2>4, Parsing DEF Failed
  <2>6. j <= e /\ e - 1 \in 1..Len(s) /\ j \in (i + 1)..((e - 1) - 1)
    BY <1>3, <2>5
  <2>7. Depth(s, j) = Depth(s, j - 1)
    BY <2>1, Depths
  <2>8. Depth(s, j) = Depth(s, i - 1)
    BY <1>4, <2>6, <2>7
  <2>9. \A k \in (j + 1)..(e - 1) : Depth(s, k) <= Depth(s, j) + d
    BY <1>3, <2>8
  <2>10. Depth(s, e - 1) = Depth(s, j) /\ IsA(s, "expr", j + 1, e - 1, d, FALSE)
    <3>1. Derives(s, p, j + 1, d)
      BY <2>4
    <3> QED BY <1>0, <2>2, <2>4, <2>9, <3>1 DEF Derives
  <2>11. IsA(s, "expr", i, e - 1, d, FALSE)
    BY <1>4, <2>1, <2>6, <2>10, Deriving
  <2> QED BY <2>8, <2>10, <2>11
<1> QED BY <1>5, <1>6

\* Every production, at every position, consumes what the grammar derives.
LEMMA ReadIsDerived ==
    ASSUME NEW s \in Seq(Lexemes), Separated(s), GluedCounts(s)
    PROVE  \A p \in Productions, i \in 1..Len(s), d \in 0..MaxNesting : Derives(s, p, i, d)
<1> DEFINE At(i) == \A p \in Productions, d \in 0..MaxNesting : Derives(s, p, i, d)
           Good == {n \in Nat : \A i \in 1..Len(s) : Len(s) - i = n => At(i)}
<1>1. ASSUME NEW i \in 1..Len(s), \A k \in (i + 1)..Len(s) : At(k)
      PROVE  At(i)
  <2> SUFFICES ASSUME NEW d \in 0..MaxNesting
               PROVE  \A p \in Productions : Derives(s, p, i, d)
    OBVIOUS
  <2>1. Derives(s, "atom", i, d)
    <3>1. i < Len(s) => i + 1 \in (i + 1)..Len(s)
      OBVIOUS
    <3>2. i < Len(s) => At(i + 1)
      BY <1>1, <3>1
    <3> QED BY <3>2, AtomDerives
  <2>2. \A p \in Productions : \A k \in (i + 1)..Len(s) : Derives(s, p, k, d)
    BY <1>1
  <2>3. i \in 1..(Len(s) + 1)
    OBVIOUS
  <2> HIDE DEF At
  <2>4. Derives(s, "conjunction", i, d)
    BY <2>1, <2>2, <2>3, Ranks, LoopEnds, LoopDerives
  <2>5. Derives(s, "disjunction", i, d)
    BY <2>4, <2>2, <2>3, Ranks, LoopEnds, LoopDerives
  <2> QED BY <2>1, <2>4, <2>5 DEF Productions
<1> HIDE DEF At
<1>2. ASSUME NEW n \in Nat, \A m \in Nat : m < n => m \in Good
      PROVE  n \in Good
  <2>1. ASSUME NEW i \in 1..Len(s), Len(s) - i = n
        PROVE  At(i)
    <3>1. ASSUME NEW k \in (i + 1)..Len(s)
          PROVE  At(k)
      <4>1. Len(s) - k \in Nat /\ Len(s) - k < n /\ k \in 1..Len(s)
        BY <2>1
      <4> QED BY <1>2, <4>1
    <3> QED BY <1>1, <3>1
  <2> QED BY <2>1
<1> HIDE DEF Good
<1>3. Nat \subseteq Good
  BY <1>2, StrongInduction
<1>4. ASSUME NEW i \in 1..Len(s) PROVE At(i)
  <2>1. Len(s) - i \in Nat
    OBVIOUS
  <2>2. Len(s) - i \in Good
    BY <1>3, <2>1
  <2> QED BY <2>2 DEF Good
<1> QED BY <1>4 DEF At

\* For any sequence of lexemes, the parser with its scans accepts what is an expression
\* of the grammar, and nothing else.
THEOREM ParserCorrect ==
    ASSUME NEW s \in Seq(Lexemes), GluedCounts(s)
    PROVE  WellFormedBooleanCondition(s) <=> Expr(s, MaxNesting, FALSE)
<1>0. MaxNesting \in Nat /\ MaxNesting \in 0..MaxNesting /\ Len(s) \in Nat
  BY GrammarAssumption
<1>1. Expr(s, MaxNesting, FALSE) <=> s # <<>> /\ IsA(s, "expr", 1, Len(s), MaxNesting, FALSE)
  BY DEF Expr, IsA
<1>2. Parse(s) = End(s, "disjunction", 1)
  BY DEF Parse, End
<1>3. s # <<>> => 1 \in 1..Len(s) /\ Len(s) \in 1..Len(s)
  OBVIOUS
<1>4. Depth(s, 0) = 0 /\ DOMAIN s = 1..Len(s)
  BY Depths
<1>5. ASSUME NEW i \in 1..Len(s)
      PROVE  /\ Cardinality({j \in 1..i : s[j] = ")"}) <= Cardinality({j \in 1..i : s[j] = "("})
                    <=> 0 <= Depth(s, i)
             /\ Depth(s, i) \in Int
  <2>1. /\ Cardinality({j \in 1..i : s[j] = ")"}) \in Nat
        /\ Cardinality({j \in 1..i : s[j] = "("}) \in Nat
    BY Counting
  <2> QED BY <2>1 DEF Depth
<1>6. ASSUME WellFormedBooleanCondition(s)
      PROVE  s # <<>> /\ IsA(s, "expr", 1, Len(s), MaxNesting, FALSE)
  <2>1. s # <<>> /\ Separated(s) /\ End(s, "disjunction", 1) = Len(s) + 1
    BY <1>2, <1>6 DEF WellFormedBooleanCondition
  <2>2. \A k \in 1..Len(s) : Depth(s, k) <= MaxNesting
    BY <1>4, <1>6 DEF WellFormedBooleanCondition, Balanced
  <2>3. Derives(s, "disjunction", 1, MaxNesting)
    BY <1>0, <1>3, <2>1, Ranks, ReadIsDerived
  <2>4. Len(s) + 1 # 0 /\ (Len(s) + 1) - 1 = Len(s) /\ 1 - 1 = 0 /\ Depth(s, 1 - 1) = 0
    BY <1>4
  <2>5. \A k \in 1..((Len(s) + 1) - 1) : Depth(s, k) <= Depth(s, 1 - 1) + MaxNesting
    BY <1>0, <2>2, <2>4
  <2> QED BY <2>1, <2>3, <2>4, <2>5 DEF Derives, Kind
<1>7. ASSUME s # <<>>, IsA(s, "expr", 1, Len(s), MaxNesting, FALSE)
      PROVE  WellFormedBooleanCondition(s)
  <2>1. Covered(s, 1, Len(s), MaxNesting)
    BY <1>0, <1>3, <1>7, DerivedIsCovered
  <2>2. 1 - 1 = 0 /\ Depth(s, 1 - 1) = 0
    BY <1>4
  <2>3. /\ Depth(s, Len(s)) = 0
        /\ \A k \in 1..Len(s) : /\ 0 <= Depth(s, k) /\ Depth(s, k) <= MaxNesting
                                /\ s[k] # Junk
                                /\ s[k] \in Numerals => k \notin glued
    BY <1>0, <2>1, <2>2 DEF Covered
  <2>4. Balanced(s)
    BY <1>4, <1>5, <2>3 DEF Balanced
  <2>5. Separated(s)
    BY <2>3 DEF Separated
  <2>6. ~Has(s, Len(s) + 1, "and") /\ ~Has(s, Len(s) + 1, "or")
    BY <1>0 DEF Has
  <2>7. End(s, "disjunction", 1) = Len(s) + 1
    BY <1>0, <1>3, <1>7, <2>6, ReadsDerived
  <2> QED BY <1>2, <1>4, <1>7, <2>3, <2>4, <2>5, <2>7 DEF WellFormedBooleanCondition
<1> QED BY <1>1, <1>6, <1>7

-----------------------------------------------------------------------------
(* The condition as it is written. *)

\* A condition is made of lexemes, and blanks are only remembered of its counts.
WrittenInv == condition \in Seq(Lexemes) /\ GluedCounts(condition) /\ glued \subseteq DOMAIN condition

\* The expression is what the condition has before its first pipe.
LEMMA Expressions ==
    ASSUME NEW c \in Seq(Lexemes)
    PROVE  /\ Expression(c) \in Seq(Lexemes)
           /\ \A k \in DOMAIN Expression(c) : k \in DOMAIN c /\ Expression(c)[k] = c[k]
<1>1. CASE Pipes(c) = {}
  BY <1>1 DEF Expression
<1>2. CASE Pipes(c) # {}
  <2>1. Pipes(c) \in SUBSET Nat /\ Pipes(c) \subseteq 1..Len(c)
    BY DEF Pipes
  <2>2. \E i \in Pipes(c) : \A j \in Pipes(c) : i <= j
    BY <1>2, <2>1, LeastNumber
  <2>3. FirstPipe(c) \in 1..Len(c)
    BY <2>1, <2>2 DEF FirstPipe
  <2> DEFINE n == FirstPipe(c) - 1
  <2>4. n \in Nat /\ n <= Len(c)
    BY <2>3
  <2>5. Expression(c) = SubSeq(c, 1, n)
    BY <1>2 DEF Expression
  <2> HIDE DEF n
  <2> QED BY <2>4, <2>5
<1> QED BY <1>1, <1>2

\* The author only appends.
LEMMA WriteKeepsWritten ==
    ASSUME WrittenInv, NEW t \in Lexemes, NEW blank \in BOOLEAN, Write(t, blank)
    PROVE  WrittenInv'
<1>1. /\ condition \in Seq(Lexemes) /\ condition' = Append(condition, t)
      /\ \A k \in DOMAIN condition : k \in glued => condition[k] \in Numerals
      /\ glued \subseteq DOMAIN condition
  BY DEF Write, WrittenInv, GluedCounts
<1>2. condition' \in Seq(Lexemes) /\ Len(condition) \in Nat
  BY <1>1
<1>3. /\ DOMAIN condition \subseteq DOMAIN condition'
      /\ \A k \in DOMAIN condition : condition'[k] = condition[k]
  BY <1>1
<1>4. CASE glued' = glued
  BY <1>1, <1>2, <1>3, <1>4 DEF WrittenInv, GluedCounts
<1>5. CASE /\ Len(condition) > 0 /\ condition[Len(condition)] \in Numerals
           /\ glued' = glued \cup {Len(condition)}
  <2>1. Len(condition) \in DOMAIN condition
    BY <1>1, <1>5
  <2> QED BY <1>1, <1>2, <1>3, <1>5, <2>1 DEF WrittenInv, GluedCounts
<1> QED BY <1>4, <1>5 DEF Write

\* Every state has the invariant.
THEOREM WrittenHolds == Spec => []WrittenInv
<1>1. Init => WrittenInv
  BY DEF Init, WrittenInv, GluedCounts
<1>2. WrittenInv /\ [Next]_vars => WrittenInv'
  <2> SUFFICES ASSUME WrittenInv, [Next]_vars PROVE WrittenInv'
    OBVIOUS
  <2>1. CASE Next
    BY <2>1, WriteKeepsWritten DEF Next
  <2>2. CASE UNCHANGED vars
    BY <2>2 DEF vars, WrittenInv, GluedCounts
  <2> QED BY <2>1, <2>2
<1> QED BY <1>1, <1>2, PTL DEF Spec

\* In a written condition, what follows from its expression.
LEMMA WrittenExpression ==
    ASSUME WrittenInv
    PROVE  Expression(condition) \in Seq(Lexemes) /\ GluedCounts(Expression(condition))
BY Expressions DEF WrittenInv, GluedCounts

\* The parser and the grammar agree on whatever the author writes.
LEMMA ParserMatchesWritten ==
    ASSUME WrittenInv PROVE ParserMatchesGrammar
BY WrittenExpression, ParserCorrect DEF ParserMatchesGrammar

\* Conditions of any length: the recursive descent of _well_formed_boolean_condition
\* accepts what the grammar derives, and nothing else.
THEOREM ParserMatchesGrammarHolds == Spec => []ParserMatchesGrammar
BY WrittenHolds, ParserMatchesWritten, PTL

-----------------------------------------------------------------------------
(* Names and quantifiers that denote. *)

\* What a quantifier over an identifier has to choose from.
LEMMA Availability ==
    /\ \A t \in Identifiers : Available(t) \in Nat
    /\ \A t \in Names : Available(t) > 0 <=> t \in Selectors
    /\ Available("them") > 0
    /\ \A t \in Keywords \ {"them"} : Available(t) = 0
<1>1. Cardinality(Selectors) \in Nat /\ Cardinality(Selectors) > 0
  <2>1. IsFiniteSet(Selectors) /\ Selectors # {}
    BY GrammarAssumption
  <2>2. Cardinality(Selectors) \in Nat /\ Cardinality(Selectors) # 0
    BY <2>1, FS_CardinalityType, FS_EmptySet
  <2> QED BY <2>2
<1>2. ASSUME NEW t \in Patterns PROVE Cardinality(MatchesOf[t]) \in Nat
  <2>1. MatchesOf[t] \subseteq Selectors /\ IsFiniteSet(Selectors)
    BY GrammarAssumption
  <2>2. IsFiniteSet(MatchesOf[t])
    BY <2>1, FS_Subset
  <2> QED BY <2>2, FS_CardinalityType
<1>3. Available("them") = Cardinality(Selectors)
  <2>1. "them" \notin Patterns
    BY GrammarAssumption DEF Keywords
  <2> QED BY <2>1 DEF Available
<1>4. ASSUME NEW t \in Patterns PROVE Available(t) = Cardinality(MatchesOf[t])
  <2>1. t # "them"
    BY GrammarAssumption DEF Keywords
  <2> QED BY <2>1 DEF Available
<1>5. ASSUME NEW t \in Names \cup (Keywords \ {"them"})
      PROVE  Available(t) = IF t \in Selectors THEN 1 ELSE 0
  <2>1. t # "them" /\ t \notin Patterns
    BY GrammarAssumption DEF Keywords
  <2> QED BY <2>1 DEF Available
<1>6. \A t \in Keywords : t \notin Selectors
  BY GrammarAssumption
<1>7. \A t \in Identifiers : Available(t) \in Nat
  <2>1. \A t \in Identifiers : t = "them" \/ t \in Patterns \/ t \in Names \cup (Keywords \ {"them"})
    BY LexemeKinds
  <2> QED BY <1>1, <1>2, <1>3, <1>4, <1>5, <2>1
<1> QED BY <1>1, <1>3, <1>5, <1>6, <1>7

\* What the passes over the tokens ask of the names and the quantifiers of s.
Resolvable(s) ==
    /\ \A k \in 1..Len(s) : s[k] \in Names \cup Patterns => Available(s[k]) > 0
    /\ \A k \in 1..Len(s) : k + 2 <= Len(s) /\ s[k] \in Numerals /\ s[k + 1] = "of" =>
                               CountOf[s[k]] <= Available(s[k + 2])
    /\ \A k \in 1..Len(s) : k + 2 <= Len(s) => ~Quantified(s, k, Keywords \ {"them"})

\* Then what can be read denotes.
LEMMA ResolvableDenotes ==
    ASSUME NEW s \in Seq(Lexemes), Resolvable(s)
    PROVE  \A i, j \in 1..Len(s), d \in 0..MaxNesting :
              /\ IsA(s, "atom", i, j, d, FALSE) => IsA(s, "atom", i, j, d, TRUE)
              /\ IsA(s, "expr", i, j, d, FALSE) => IsA(s, "expr", i, j, d, TRUE)
<1> DEFINE A(i, j, d) == IsA(s, "atom", i, j, d, FALSE) => IsA(s, "atom", i, j, d, TRUE)
           X(i, j, d) == IsA(s, "expr", i, j, d, FALSE) => IsA(s, "expr", i, j, d, TRUE)
           S == {x \in (1..Len(s)) \X (1..Len(s)) \X (0..MaxNesting) :
                    A(x[1], x[2], x[3]) /\ X(x[1], x[2], x[3])}
<1> HIDE DEF A, X
<1>0. \A i, j \in 1..Len(s), d \in 0..MaxNesting : <<i, j, d>> \in S <=> A(i, j, d) /\ X(i, j, d)
  OBVIOUS
<1> HIDE DEF S
<1> USE DEF A, X
<1>m. MaxNesting \in Nat /\ Len(s) \in Nat /\ TRUE \in BOOLEAN /\ FALSE \in BOOLEAN
  BY GrammarAssumption
<1>1. ASSUME NEW i \in 1..Len(s), NEW j \in 1..Len(s), NEW d \in 0..MaxNesting,
             \A a, b \in 1..Len(s), e \in 0..MaxNesting : b - a < j - i => A(a, b, e) /\ X(a, b, e),
             IsA(s, "atom", i, j, d, FALSE)
      PROVE  IsA(s, "atom", i, j, d, TRUE)
  <2> DEFINE Enough == Available(s[j]) >= (IF s[i] = "all" THEN 1 ELSE CountOf[s[i]])
  <2>0. IsA(s, "atom", i, j, d, TRUE) <=>
              \/ i = j /\ s[i] \in Names /\ (TRUE => s[i] \in Selectors)
              \/ i < j /\ s[i] = "not" /\ IsA(s, "atom", i + 1, j, d, TRUE)
              \/ /\ i + 1 < j /\ d > 0 /\ s[i] = "(" /\ s[j] = ")"
                 /\ IsA(s, "expr", i + 1, j - 1, d - 1, TRUE)
              \/ /\ i + 2 = j /\ Quantified(s, i, Identifiers)
                 /\ TRUE => Enough
    BY <1>m, AtomForms
  <2> HIDE DEF Enough
  <2>1. CASE i = j /\ s[i] \in Names
    <3>1. s[i] \in Selectors
      BY <2>1, Availability DEF Resolvable
    <3> QED BY <2>0, <2>1, <3>1
  <2>2. CASE i < j /\ s[i] = "not" /\ IsA(s, "atom", i + 1, j, d, FALSE)
    <3>1. i + 1 \in 1..Len(s) /\ j - (i + 1) < j - i
      BY <2>2
    <3>2. IsA(s, "atom", i + 1, j, d, TRUE)
      BY <1>1, <2>2, <3>1
    <3> QED BY <2>0, <2>2, <3>2
  <2>3. CASE /\ i + 1 < j /\ d > 0 /\ s[i] = "(" /\ s[j] = ")"
             /\ IsA(s, "expr", i + 1, j - 1, d - 1, FALSE)
    <3>1. i + 1 \in 1..Len(s) /\ j - 1 \in 1..Len(s)
      BY <2>3
    <3>2. d - 1 \in 0..MaxNesting
      BY <1>m, <2>3
    <3>3. (j - 1) - (i + 1) < j - i
      OBVIOUS
    <3>4. IsA(s, "expr", i + 1, j - 1, d - 1, TRUE)
      BY <1>1, <2>3, <3>1, <3>2, <3>3
    <3> QED BY <2>0, <2>3, <3>4
  <2>4. CASE i + 2 = j /\ Quantified(s, i, Identifiers)
    <3>1. /\ s[i] \in Numerals \cup {"all"} /\ i \notin glued /\ s[i + 1] = "of"
          /\ s[i] \in Numerals => CountOf[s[i]] > 0
          /\ s[j] \in Identifiers /\ i + 2 <= Len(s)
      BY <2>4 DEF Quantified
    <3>2. s[j] \notin Keywords \ {"them"}
      <4>1. ~Quantified(s, i, Keywords \ {"them"})
        BY <3>1 DEF Resolvable
      <4> QED BY <2>4, <4>1 DEF Quantified
    <3>3. Available(s[j]) \in Nat /\ Available(s[j]) > 0
      <4>1. s[j] = "them" \/ s[j] \in Names \cup Patterns
        BY <3>1, <3>2, LexemeKinds
      <4> QED BY <3>1, <4>1, Availability DEF Resolvable
    <3>4. s[i] \in Numerals => CountOf[s[i]] <= Available(s[j])
      BY <2>4, <3>1 DEF Resolvable
    <3>5. s[i] # "all" => CountOf[s[i]] \in Nat
      BY <3>1, LexemeKinds
    <3>6. Enough
      BY <3>1, <3>3, <3>4, <3>5 DEF Enough
    <3> QED BY <2>0, <2>4, <3>6
  <2>5. \/ i = j /\ s[i] \in Names
        \/ i < j /\ s[i] = "not" /\ IsA(s, "atom", i + 1, j, d, FALSE)
        \/ /\ i + 1 < j /\ d > 0 /\ s[i] = "(" /\ s[j] = ")"
           /\ IsA(s, "expr", i + 1, j - 1, d - 1, FALSE)
        \/ i + 2 = j /\ Quantified(s, i, Identifiers)
    BY <1>1, UnresolvedAtoms
  <2> QED BY <2>1, <2>2, <2>3, <2>4, <2>5, Zenon
<1>2. ASSUME NEW i \in 1..Len(s), NEW j \in 1..Len(s), NEW d \in 0..MaxNesting,
             \A a, b \in 1..Len(s), e \in 0..MaxNesting : b - a < j - i => A(a, b, e) /\ X(a, b, e),
             IsA(s, "expr", i, j, d, FALSE)
      PROVE  IsA(s, "expr", i, j, d, TRUE)
  <2>1. CASE IsA(s, "atom", i, j, d, FALSE)
    <3>1. IsA(s, "atom", i, j, d, TRUE)
      BY <1>1, <1>2, <2>1
    <3> QED BY <3>1, Deriving
  <2>2. CASE ~IsA(s, "atom", i, j, d, FALSE)
    <3>1. PICK k \in (i + 1)..(j - 1) : /\ s[k] \in {"and", "or"}
                                        /\ IsA(s, "expr", i, k - 1, d, FALSE)
                                        /\ IsA(s, "expr", k + 1, j, d, FALSE)
      BY <1>2, <2>2, Deriving
    <3>2. k - 1 \in 1..Len(s) /\ k + 1 \in 1..Len(s)
      OBVIOUS
    <3>3. (k - 1) - i < j - i /\ j - (k + 1) < j - i
      OBVIOUS
    <3>4. IsA(s, "expr", i, k - 1, d, TRUE) /\ IsA(s, "expr", k + 1, j, d, TRUE)
      BY <1>2, <3>1, <3>2, <3>3
    <3> QED BY <3>1, <3>4, Deriving
  <2> QED BY <2>1, <2>2
<1>3. \A i, j \in 1..Len(s), d \in 0..MaxNesting : <<i, j, d>> \in S
  <2>1. ASSUME NEW i \in 1..Len(s), NEW j \in 1..Len(s), NEW d \in 0..MaxNesting,
               \A a, b \in 1..Len(s), e \in 0..MaxNesting : b - a < j - i => <<a, b, e>> \in S
        PROVE  <<i, j, d>> \in S
    <3>1. \A a, b \in 1..Len(s), e \in 0..MaxNesting : b - a < j - i => A(a, b, e) /\ X(a, b, e)
      BY <1>0, <2>1
    <3>2. A(i, j, d) /\ X(i, j, d)
      BY <1>1, <1>2, <3>1
    <3> QED BY <1>0, <3>2
  <2> HIDE DEF A, X
  <2> QED BY <2>1, PartInduction
<1> QED BY <1>0, <1>3

\* What the lexemes from i to j refer to exists, there is enough of it, and there is
\* something they refer to.
Denotes(s, i, j) ==
    /\ \A k \in i..j : s[k] \in Names \cup Patterns => Available(s[k]) > 0
    /\ \A k \in i..j : s[k] \in Numerals => k + 2 <= j /\ CountOf[s[k]] <= Available(s[k + 2])
    /\ \A k \in i..j : s[k] = "all" => k + 2 <= j /\ Available(s[k + 2]) > 0
    /\ \E k \in i..j : s[k] \in Names \cup Patterns \cup {"them"}

\* A part denotes if a smaller one in it does, and nothing else in it refers to anything.
LEMMA DenotesAround ==
    ASSUME NEW s \in Seq(Lexemes), NEW i \in 1..Len(s), NEW j \in 1..Len(s),
           NEW a \in i..j, NEW b \in i..j, Denotes(s, a, b),
           \A k \in i..j : k < a \/ b < k => s[k] \notin Names \cup Patterns \cup Numerals \cup {"all"}
    PROVE  Denotes(s, i, j)
<1>1. \A k \in i..j : k < a \/ b < k \/ k \in a..b
  OBVIOUS
<1>2. a..b \subseteq i..j
  OBVIOUS
<1>3. ASSUME NEW k \in i..j, s[k] \in Numerals
      PROVE  k + 2 <= j /\ CountOf[s[k]] <= Available(s[k + 2])
  <2>1. k \in a..b
    BY <1>1, <1>3
  <2>2. k + 2 <= b /\ CountOf[s[k]] <= Available(s[k + 2])
    BY <1>3, <2>1 DEF Denotes
  <2> QED BY <2>2
<1>4. ASSUME NEW k \in i..j, s[k] = "all"
      PROVE  k + 2 <= j /\ Available(s[k + 2]) > 0
  <2>1. k \in a..b
    BY <1>1, <1>4
  <2>2. k + 2 <= b /\ Available(s[k + 2]) > 0
    BY <1>4, <2>1 DEF Denotes
  <2> QED BY <2>2
<1>5. \A k \in i..j : s[k] \in Names \cup Patterns => Available(s[k]) > 0
  BY <1>1 DEF Denotes
<1>6. \E k \in i..j : s[k] \in Names \cup Patterns \cup {"them"}
  BY <1>2 DEF Denotes
<1> QED BY <1>3, <1>4, <1>5, <1>6 DEF Denotes

\* An expression denotes if what it joins does.
LEMMA DenotesJoined ==
    ASSUME NEW s \in Seq(Lexemes), NEW i \in 1..Len(s), NEW j \in 1..Len(s),
           NEW k \in (i + 1)..(j - 1), s[k] \in {"and", "or"},
           Denotes(s, i, k - 1), Denotes(s, k + 1, j)
    PROVE  Denotes(s, i, j)
<1>1. s[k] \notin Names \cup Patterns \cup Numerals
  BY LexemeKinds, GrammarAssumption
<1>2. \A l \in i..j : l \in i..(k - 1) \/ l = k \/ l \in (k + 1)..j
  OBVIOUS
<1>3. i..(k - 1) \subseteq i..j
  OBVIOUS
<1>4. ASSUME NEW l \in i..j, s[l] \in Numerals
      PROVE  l + 2 <= j /\ CountOf[s[l]] <= Available(s[l + 2])
  <2>1. CASE l \in i..(k - 1)
    <3>1. l + 2 <= k - 1 /\ CountOf[s[l]] <= Available(s[l + 2])
      BY <1>4, <2>1 DEF Denotes
    <3> QED BY <3>1
  <2>2. CASE l \in (k + 1)..j
    BY <1>4, <2>2 DEF Denotes
  <2> QED BY <1>1, <1>2, <1>4, <2>1, <2>2
<1>5. ASSUME NEW l \in i..j, s[l] = "all"
      PROVE  l + 2 <= j /\ Available(s[l + 2]) > 0
  <2>1. CASE l \in i..(k - 1)
    <3>1. l + 2 <= k - 1 /\ Available(s[l + 2]) > 0
      BY <1>5, <2>1 DEF Denotes
    <3> QED BY <3>1
  <2>2. CASE l \in (k + 1)..j
    BY <1>5, <2>2 DEF Denotes
  <2> QED BY <1>2, <1>5, <2>1, <2>2
<1>6. \A l \in i..j : s[l] \in Names \cup Patterns => Available(s[l]) > 0
  BY <1>1, <1>2 DEF Denotes
<1>7. \E l \in i..j : s[l] \in Names \cup Patterns \cup {"them"}
  BY <1>3 DEF Denotes
<1> QED BY <1>4, <1>5, <1>6, <1>7 DEF Denotes

\* A quantifier denotes if it has enough to choose from.
LEMMA DenotesQuantifier ==
    ASSUME NEW s \in Seq(Lexemes), NEW i \in 1..Len(s), NEW j \in 1..Len(s),
           i + 2 = j, Quantified(s, i, Identifiers),
           Available(s[j]) >= (IF s[i] = "all" THEN 1 ELSE CountOf[s[i]])
    PROVE  Denotes(s, i, j)
<1>1. /\ s[i] \in Numerals \cup {"all"} /\ s[i + 1] = "of" /\ s[j] \in Identifiers
      /\ s[i] \in Numerals => CountOf[s[i]] > 0
  BY DEF Quantified
<1>2. /\ "all" \notin Numerals /\ "of" \notin Numerals /\ s[j] \notin Numerals
      /\ s[i] \notin Names \cup Patterns /\ s[i + 1] \notin Names \cup Patterns
  BY <1>1, LexemeKinds, GrammarAssumption
<1>3. Available(s[j]) \in Nat
  BY <1>1, Availability
<1>4. s[i] \in Numerals => CountOf[s[i]] \in Nat /\ CountOf[s[i]] <= Available(s[j])
  BY <1>1, <1>2, <1>3, LexemeKinds
<1>5. Available(s[j]) > 0
  BY <1>1, <1>2, <1>3, <1>4
<1>6. s[j] \in Names \cup Patterns \cup {"them"}
  <2>1. s[j] \notin Keywords \ {"them"}
    BY <1>3, <1>5, Availability
  <2> QED BY <1>1, <2>1, LexemeKinds
<1>7. \A k \in i..j : k = i \/ k = i + 1 \/ k = j
  OBVIOUS
<1>8. i + 2 <= j /\ j \in i..j
  OBVIOUS
<1>9. \A k \in i..j : s[k] \in Names \cup Patterns => Available(s[k]) > 0
  BY <1>2, <1>5, <1>7
<1>10. \A k \in i..j : s[k] \in Numerals => k + 2 <= j /\ CountOf[s[k]] <= Available(s[k + 2])
  BY <1>1, <1>2, <1>4, <1>7, <1>8
<1>11. s[j] # "all"
  BY <1>6, LexemeKinds, GrammarAssumption
<1>12. \A k \in i..j : s[k] = "all" => k + 2 <= j /\ Available(s[k + 2]) > 0
  BY <1>1, <1>5, <1>7, <1>8, <1>11
<1> QED BY <1>6, <1>8, <1>9, <1>10, <1>12 DEF Denotes

\* What is derived with every name and quantifier resolved can be read, and denotes.
LEMMA ResolvedDenotes ==
    ASSUME NEW s \in Seq(Lexemes)
    PROVE  \A i, j \in 1..Len(s), d \in 0..MaxNesting :
              /\ IsA(s, "atom", i, j, d, TRUE) => IsA(s, "atom", i, j, d, FALSE) /\ Denotes(s, i, j)
              /\ IsA(s, "expr", i, j, d, TRUE) => IsA(s, "expr", i, j, d, FALSE) /\ Denotes(s, i, j)
<1> DEFINE A(i, j, d) ==
              IsA(s, "atom", i, j, d, TRUE) => IsA(s, "atom", i, j, d, FALSE) /\ Denotes(s, i, j)
           X(i, j, d) ==
              IsA(s, "expr", i, j, d, TRUE) => IsA(s, "expr", i, j, d, FALSE) /\ Denotes(s, i, j)
           S == {x \in (1..Len(s)) \X (1..Len(s)) \X (0..MaxNesting) :
                    A(x[1], x[2], x[3]) /\ X(x[1], x[2], x[3])}
<1> HIDE DEF A, X
<1>0. \A i, j \in 1..Len(s), d \in 0..MaxNesting : <<i, j, d>> \in S <=> A(i, j, d) /\ X(i, j, d)
  OBVIOUS
<1> HIDE DEF S
<1> USE DEF A, X
<1>m. MaxNesting \in Nat /\ Len(s) \in Nat /\ TRUE \in BOOLEAN /\ FALSE \in BOOLEAN
  BY GrammarAssumption
<1>k. \A t \in {"not", "(", ")"} : t \notin Names \cup Patterns \cup Numerals \cup {"all"}
  BY LexemeKinds, GrammarAssumption
<1>1. ASSUME NEW i \in 1..Len(s), NEW j \in 1..Len(s), NEW d \in 0..MaxNesting,
             \A a, b \in 1..Len(s), e \in 0..MaxNesting : b - a < j - i => A(a, b, e) /\ X(a, b, e),
             IsA(s, "atom", i, j, d, TRUE)
      PROVE  IsA(s, "atom", i, j, d, FALSE) /\ Denotes(s, i, j)
  <2> DEFINE Enough == Available(s[j]) >= (IF s[i] = "all" THEN 1 ELSE CountOf[s[i]])
  <2>0. \/ i = j /\ s[i] \in Names /\ (TRUE => s[i] \in Selectors)
        \/ i < j /\ s[i] = "not" /\ IsA(s, "atom", i + 1, j, d, TRUE)
        \/ /\ i + 1 < j /\ d > 0 /\ s[i] = "(" /\ s[j] = ")"
           /\ IsA(s, "expr", i + 1, j - 1, d - 1, TRUE)
        \/ /\ i + 2 = j /\ Quantified(s, i, Identifiers)
           /\ TRUE => Enough
    BY <1>1, <1>m, AtomForms
  <2> HIDE DEF Enough
  <2>1. CASE i = j /\ s[i] \in Names /\ s[i] \in Selectors
    <3>1. Available(s[i]) > 0 /\ s[i] \notin Numerals /\ s[i] # "all"
      BY <2>1, Availability, LexemeKinds
    <3>2. \A k \in i..j : k = i
      BY <2>1
    <3>3. i \in i..j
      BY <2>1
    <3>4. Denotes(s, i, j)
      BY <2>1, <3>1, <3>2, <3>3 DEF Denotes
    <3> QED BY <2>1, <3>4, UnresolvedAtoms
  <2>2. CASE i < j /\ s[i] = "not" /\ IsA(s, "atom", i + 1, j, d, TRUE)
    <3>1. i + 1 \in 1..Len(s) /\ j - (i + 1) < j - i /\ i + 1 \in i..j /\ j \in i..j
      BY <2>2
    <3>2. IsA(s, "atom", i + 1, j, d, FALSE) /\ Denotes(s, i + 1, j)
      BY <1>1, <2>2, <3>1
    <3>3. \A k \in i..j : k < i + 1 \/ j < k => k = i
      OBVIOUS
    <3>4. \A k \in i..j : k < i + 1 \/ j < k => s[k] \notin Names \cup Patterns \cup Numerals \cup {"all"}
      BY <1>k, <2>2, <3>3
    <3>5. Denotes(s, i, j)
      BY <3>1, <3>2, <3>4, DenotesAround
    <3> QED BY <2>2, <3>2, <3>5, UnresolvedAtoms
  <2>3. CASE /\ i + 1 < j /\ d > 0 /\ s[i] = "(" /\ s[j] = ")"
             /\ IsA(s, "expr", i + 1, j - 1, d - 1, TRUE)
    <3>1. i + 1 \in 1..Len(s) /\ j - 1 \in 1..Len(s) /\ i + 1 \in i..j /\ j - 1 \in i..j
      BY <2>3
    <3>2. d - 1 \in 0..MaxNesting
      BY <1>m, <2>3
    <3>3. (j - 1) - (i + 1) < j - i
      OBVIOUS
    <3>4. IsA(s, "expr", i + 1, j - 1, d - 1, FALSE) /\ Denotes(s, i + 1, j - 1)
      BY <1>1, <2>3, <3>1, <3>2, <3>3
    <3>5. \A k \in i..j : k < i + 1 \/ j - 1 < k => k = i \/ k = j
      OBVIOUS
    <3>6. \A k \in i..j : k < i + 1 \/ j - 1 < k => s[k] \notin Names \cup Patterns \cup Numerals \cup {"all"}
      BY <1>k, <2>3, <3>5
    <3>7. Denotes(s, i, j)
      BY <3>1, <3>4, <3>6, DenotesAround
    <3> QED BY <2>3, <3>4, <3>7, UnresolvedAtoms
  <2>4. CASE i + 2 = j /\ Quantified(s, i, Identifiers) /\ Enough
    <3>1. Denotes(s, i, j)
      BY <2>4, DenotesQuantifier DEF Enough
    <3> QED BY <2>4, <3>1, UnresolvedAtoms
  <2> QED BY <2>0, <2>1, <2>2, <2>3, <2>4, Zenon
<1>2. ASSUME NEW i \in 1..Len(s), NEW j \in 1..Len(s), NEW d \in 0..MaxNesting,
             \A a, b \in 1..Len(s), e \in 0..MaxNesting : b - a < j - i => A(a, b, e) /\ X(a, b, e),
             IsA(s, "expr", i, j, d, TRUE)
      PROVE  IsA(s, "expr", i, j, d, FALSE) /\ Denotes(s, i, j)
  <2>1. CASE IsA(s, "atom", i, j, d, TRUE)
    <3>1. IsA(s, "atom", i, j, d, FALSE) /\ Denotes(s, i, j)
      BY <1>1, <1>2, <2>1
    <3> QED BY <3>1, Deriving
  <2>2. CASE ~IsA(s, "atom", i, j, d, TRUE)
    <3>1. PICK k \in (i + 1)..(j - 1) : /\ s[k] \in {"and", "or"}
                                        /\ IsA(s, "expr", i, k - 1, d, TRUE)
                                        /\ IsA(s, "expr", k + 1, j, d, TRUE)
      BY <1>2, <2>2, Deriving
    <3>2. k - 1 \in 1..Len(s) /\ k + 1 \in 1..Len(s)
      OBVIOUS
    <3>3. (k - 1) - i < j - i /\ j - (k + 1) < j - i
      OBVIOUS
    <3>4. /\ IsA(s, "expr", i, k - 1, d, FALSE) /\ Denotes(s, i, k - 1)
          /\ IsA(s, "expr", k + 1, j, d, FALSE) /\ Denotes(s, k + 1, j)
      BY <1>2, <3>1, <3>2, <3>3
    <3>5. Denotes(s, i, j)
      BY <3>1, <3>4, DenotesJoined
    <3> QED BY <3>1, <3>4, <3>5, Deriving
  <2> QED BY <2>1, <2>2
<1>3. \A i, j \in 1..Len(s), d \in 0..MaxNesting : <<i, j, d>> \in S
  <2>1. ASSUME NEW i \in 1..Len(s), NEW j \in 1..Len(s), NEW d \in 0..MaxNesting,
               \A a, b \in 1..Len(s), e \in 0..MaxNesting : b - a < j - i => <<a, b, e>> \in S
        PROVE  <<i, j, d>> \in S
    <3>1. \A a, b \in 1..Len(s), e \in 0..MaxNesting : b - a < j - i => A(a, b, e) /\ X(a, b, e)
      BY <1>0, <2>1
    <3>2. A(i, j, d) /\ X(i, j, d)
      BY <1>1, <1>2, <3>1
    <3> QED BY <1>0, <3>2
  <2> HIDE DEF A, X
  <2> QED BY <2>1, PartInduction
<1> QED BY <1>0, <1>3

-----------------------------------------------------------------------------
(* Acceptance. *)

\* The passes over the tokens, position by position.
LEMMA TokenPasses ==
    ASSUME NEW s \in Seq(Lexemes)
    PROVE  ReferencesKnownSelectors(s) <=>
              /\ \E k \in 1..Len(s) : s[k] \in Names \cup Patterns \cup {"them"}
              /\ \A k \in 1..Len(s) : s[k] \in Names \cup Patterns => Available(s[k]) > 0
<1> DEFINE words == {s[i] : i \in {j \in DOMAIN s : s[j] \in Identifiers}}
<1>1. \A w : w \in words <=> w \in Identifiers /\ \E k \in 1..Len(s) : s[k] = w
  OBVIOUS
<1>2. ReferencesKnownSelectors(s) <=>
         /\ words \ Keywords # {} \/ "them" \in words
         /\ \A w \in words \ Keywords : Available(w) > 0
  BY DEF ReferencesKnownSelectors
<1>3. \A t : t \in Identifiers /\ t \notin Keywords <=> t \in Names \cup Patterns
  BY LexemeKinds, GrammarAssumption
<1>4. "them" \in Identifiers
  BY LexemeKinds
<1> HIDE DEF words
<1>5. words \ Keywords # {} <=> \E k \in 1..Len(s) : s[k] \in Names \cup Patterns
  BY <1>1, <1>3
<1>6. "them" \in words <=> \E k \in 1..Len(s) : s[k] = "them"
  BY <1>1, <1>4
<1>7. (\A w \in words \ Keywords : Available(w) > 0) <=>
         \A k \in 1..Len(s) : s[k] \in Names \cup Patterns => Available(s[k]) > 0
  BY <1>1, <1>3
<1> QED BY <1>2, <1>5, <1>6, <1>7

\* For any sequence of lexemes: it can be read and denotes if and only if the passes
\* together accept it and no quantifier ranges over a keyword.
THEOREM AcceptanceCorrect ==
    ASSUME NEW s \in Seq(Lexemes), GluedCounts(s)
    PROVE  Expr(s, MaxNesting, TRUE) <=>
              /\ ReferencesKnownSelectors(s) /\ WellFormedBooleanCondition(s) /\ FeasibleQuantifiers(s)
              /\ \A k \in 1..(Len(s) - 2) : ~Quantified(s, k, Keywords \ {"them"})
<1>0. MaxNesting \in Nat /\ MaxNesting \in 0..MaxNesting /\ Len(s) \in Nat
  BY GrammarAssumption
<1>1. /\ Expr(s, MaxNesting, FALSE) <=> s # <<>> /\ IsA(s, "expr", 1, Len(s), MaxNesting, FALSE)
      /\ Expr(s, MaxNesting, TRUE) <=> s # <<>> /\ IsA(s, "expr", 1, Len(s), MaxNesting, TRUE)
  BY DEF Expr, IsA
<1>2. s # <<>> => 1 \in 1..Len(s) /\ Len(s) \in 1..Len(s)
  OBVIOUS
<1>3. FeasibleQuantifiers(s) <=>
         \A k \in 1..Len(s) : k + 2 <= Len(s) /\ s[k] \in Numerals /\ s[k + 1] = "of" =>
                                 CountOf[s[k]] <= Available(s[k + 2])
  BY DEF FeasibleQuantifiers, Feasible
<1>4. ASSUME ReferencesKnownSelectors(s), WellFormedBooleanCondition(s), FeasibleQuantifiers(s),
             \A k \in 1..(Len(s) - 2) : ~Quantified(s, k, Keywords \ {"them"})
      PROVE  Expr(s, MaxNesting, TRUE)
  <2>1. s # <<>> /\ IsA(s, "expr", 1, Len(s), MaxNesting, FALSE)
    BY <1>1, <1>4, ParserCorrect
  <2>2. \A k \in 1..Len(s) : k + 2 <= Len(s) => ~Quantified(s, k, Keywords \ {"them"})
    <3>1. \A k \in 1..Len(s) : k + 2 <= Len(s) => k \in 1..(Len(s) - 2)
      BY <1>0
    <3> QED BY <1>4, <3>1
  <2>3. Resolvable(s)
    BY <1>3, <1>4, <2>2, TokenPasses DEF Resolvable
  <2> QED BY <1>0, <1>1, <1>2, <2>1, <2>3, ResolvableDenotes
<1>5. ASSUME Expr(s, MaxNesting, TRUE)
      PROVE  /\ ReferencesKnownSelectors(s) /\ WellFormedBooleanCondition(s) /\ FeasibleQuantifiers(s)
             /\ \A k \in 1..(Len(s) - 2) : ~Quantified(s, k, Keywords \ {"them"})
  <2>1. s # <<>> /\ IsA(s, "expr", 1, Len(s), MaxNesting, TRUE)
    BY <1>1, <1>5
  <2>2. IsA(s, "expr", 1, Len(s), MaxNesting, FALSE) /\ Denotes(s, 1, Len(s))
    BY <1>0, <1>2, <2>1, ResolvedDenotes
  <2>3. WellFormedBooleanCondition(s)
    BY <1>1, <2>1, <2>2, ParserCorrect
  <2>4. ReferencesKnownSelectors(s)
    BY <2>2, TokenPasses DEF Denotes
  <2>5. FeasibleQuantifiers(s)
    BY <1>3, <2>2 DEF Denotes
  <2>6. ASSUME NEW k \in 1..(Len(s) - 2), Quantified(s, k, Keywords \ {"them"})
        PROVE  FALSE
    <3>1. Available(s[k + 2]) = 0 /\ s[k] \in Numerals \cup {"all"} /\ k \in 1..Len(s)
      BY <2>6, Availability DEF Quantified
    <3>2. s[k] \in Numerals => CountOf[s[k]] \in Nat /\ CountOf[s[k]] > 0
      BY <2>6, LexemeKinds DEF Quantified
    <3>3. /\ s[k] \in Numerals => CountOf[s[k]] <= Available(s[k + 2])
          /\ s[k] = "all" => Available(s[k + 2]) > 0
      BY <2>2, <3>1 DEF Denotes
    <3> QED BY <3>1, <3>2, <3>3
  <2> QED BY <2>3, <2>4, <2>5, <2>6
<1> QED BY <1>4, <1>5

\* What is accepted of the author's conditions.
LEMMA AcceptanceOfWritten ==
    ASSUME WrittenInv PROVE AcceptanceIsExact
<1> DEFINE s == Expression(condition)
<1>1. s \in Seq(Lexemes) /\ GluedCounts(s)
  BY WrittenExpression
<1>2. ~QuantifiesKeyword <=> \A k \in 1..(Len(s) - 2) : ~Quantified(s, k, Keywords \ {"them"})
  BY DEF QuantifiesKeyword
<1>3. Accepted <=> /\ ReferencesKnownSelectors(s) /\ WellFormedBooleanCondition(s) /\ FeasibleQuantifiers(s)
                   /\ ValidAggregationBoundary(condition)
  BY DEF Accepted
<1>4. Meaningful <=> /\ Expr(s, MaxNesting, TRUE)
                     /\ Pipes(condition) # {} => /\ Aggregation(condition) # <<>>
                                                 /\ Pipes(Aggregation(condition)) = {}
  BY DEF Meaningful
<1>5. ValidAggregationBoundary(condition) <=>
         (Pipes(condition) # {} => /\ s # <<>>
                                   /\ Aggregation(condition) # <<>>
                                   /\ Pipes(Aggregation(condition)) = {})
  BY DEF ValidAggregationBoundary
<1>6. WellFormedBooleanCondition(s) => s # <<>>
  BY DEF WellFormedBooleanCondition
<1> HIDE DEF s
<1>7. Expr(s, MaxNesting, TRUE) <=>
         /\ ReferencesKnownSelectors(s) /\ WellFormedBooleanCondition(s) /\ FeasibleQuantifiers(s)
         /\ ~QuantifiesKeyword
  BY <1>1, <1>2, AcceptanceCorrect
<1> QED BY <1>3, <1>4, <1>5, <1>6, <1>7 DEF AcceptanceIsExact

\* Conditions of any length, selectors and patterns of any number: what can be read and
\* denotes is exactly what validate_structure accepts without a quantifier over a keyword.
THEOREM AcceptanceIsExactHolds == Spec => []AcceptanceIsExact
BY WrittenHolds, AcceptanceOfWritten, PTL
=============================================================================
