-------------------------- MODULE ConditionGrammar --------------------------
(***************************************************************************)
(* The conditions of a Sigma rule draft (app/detection/validation.py):     *)
(* four passes over the text of a condition decide, each on its own,       *)
(* whether its names are declared, its aggregation pipe is in place, its   *)
(* boolean expression parses and its quantifiers can be met.  Here they    *)
(* meet one grammar that says what a condition is and what it denotes.     *)
(*                                                                         *)
(* A condition is a sequence of lexemes, keywords in lower case.  Blanks   *)
(* matter in one place: "2of" is two lexemes, so `glued` says after which  *)
(* counts no blank comes.  A draft has up to eight conditions, each judged *)
(* alone, so one is modelled.                                              *)
(***************************************************************************)
EXTENDS Naturals, Sequences, FiniteSets

CONSTANTS
    Selectors,     \* the selectors the draft declares
    Names,         \* identifiers without a wildcard, declared or not
    Patterns,      \* identifiers with one
    MatchesOf,     \* the declared selectors each pattern matches (fnmatchcase)
    CountOf,       \* the value of each numeral
    Junk,          \* anything the token expression does not match
    MaxNesting,    \* _MAX_CONDITION_NESTING
    Lexemes,       \* bound: the lexemes conditions are made of
    MaxLength      \* bound: how many of them

Keywords == {"and", "or", "not", "of", "all", "them"}
Numerals == DOMAIN CountOf
Identifiers == Keywords \cup Names \cup Patterns

\* Every lexeme is of one kind.  validate_structure wants a selector at least, and
\* refuses one named like a keyword.
ASSUME GrammarAssumption ==
    /\ Selectors \subseteq Names /\ Selectors # {} /\ IsFiniteSet(Selectors)
    /\ (Names \cup Patterns) \cap Keywords = {} /\ Names \cap Patterns = {}
    /\ Numerals \cap Identifiers = {}
    /\ {"(", ")", "|"} \cap (Identifiers \cup Numerals) = {}
    /\ Junk \notin Identifiers \cup Numerals \cup {"(", ")", "|"}
    /\ MatchesOf \in [Patterns -> SUBSET Selectors]
    /\ \A n \in Numerals : CountOf[n] \in Nat
    /\ MaxNesting \in Nat
    /\ MaxLength \in Nat

VARIABLES
    condition,   \* the condition as far as it is written
    glued        \* the places of numerals an identifier follows without a blank

vars == <<condition, glued>>

Init == condition = <<>> /\ glued = {}

\* The author writes one more lexeme.
Write(t, blank) ==
    LET n == Len(condition)
    IN /\ n < MaxLength
       /\ condition' = Append(condition, t)
       /\ IF n > 0 /\ ~blank
          THEN /\ condition[n] \in Numerals
               /\ t \in Identifiers
               /\ glued' = glued \cup {n}
          ELSE UNCHANGED glued

Next == \E t \in Lexemes, blank \in BOOLEAN : Write(t, blank)

Spec == Init /\ [][Next]_vars

-----------------------------------------------------------------------------
(* Faulty variants of definitions below, for mutation runs. *)

\* The blanks of a quantifier are not looked at.
Separated_Never(s) == TRUE

\* One selector more than there is.
Feasible_OffByOne(available, n) == n <= available + 1

-----------------------------------------------------------------------------
\* condition.split("|", 1)[0], and the text after the first pipe.
Pipes(s) == {i \in DOMAIN s : s[i] = "|"}
FirstPipe(s) == CHOOSE i \in Pipes(s) : \A j \in Pipes(s) : i <= j
Expression(s) == IF Pipes(s) = {} THEN s ELSE SubSeq(s, 1, FirstPipe(s) - 1)
Aggregation(s) == IF Pipes(s) = {} THEN <<>> ELSE SubSeq(s, FirstPipe(s) + 1, Len(s))

Has(s, i, t) == i <= Len(s) /\ s[i] = t

\* How many selectors a quantifier over t has to choose from.
Available(t) ==
    CASE t = "them" -> Cardinality(Selectors)
      [] t \in Patterns -> Cardinality(MatchesOf[t])
      [] OTHER -> IF t \in Selectors THEN 1 ELSE 0

\* _references_known_selectors
ReferencesKnownSelectors(s) ==
    LET words == {s[i] : i \in {j \in DOMAIN s : s[j] \in Identifiers}}
        references == words \ Keywords
    IN /\ references # {} \/ "them" \in words
       /\ \A w \in references : Available(w) > 0

\* _valid_aggregation_boundary; what is after the pipe is not parsed.
ValidAggregationBoundary(s) ==
    Pipes(s) # {} => /\ Expression(s) # <<>>
                     /\ Aggregation(s) # <<>>
                     /\ Pipes(Aggregation(s)) = {}

-----------------------------------------------------------------------------
(* _well_formed_boolean_condition: the parser.  What a production returns is *)
(* the index after what it consumed, or Failed.                              *)

Failed == 0

\* The parentheses open by position i.
Depth(s, i) ==
    Cardinality({j \in 1..i : s[j] = "("}) - Cardinality({j \in 1..i : s[j] = ")"})

Balanced(s) ==
    /\ \A i \in DOMAIN s : Cardinality({j \in 1..i : s[j] = ")"})
                             <= Cardinality({j \in 1..i : s[j] = "("})
    /\ \A i \in DOMAIN s : Depth(s, i) <= MaxNesting
    /\ Depth(s, Len(s)) = 0

\* No three lexemes of a quantifier without blanks.  Only a numeral can touch its
\* "of": "allof", or a target after "of", would be one identifier.
Separated(s) ==
    \A i \in 1..Len(s) : i + 2 <= Len(s) /\ s[i] \in Numerals /\ s[i + 1] = "of" => i \notin glued

QuantifierEnd(s, i) ==
    IF /\ s[i] \in Numerals => CountOf[s[i]] >= 1
       /\ Has(s, i + 1, "of")
       /\ i + 2 <= Len(s)
       /\ s[i + 2] \in Identifiers
    THEN i + 3
    ELSE Failed

\* end gives the ends of the productions at other positions.
AtomEnd(s, end, i) ==
    IF i > Len(s) THEN Failed
    ELSE CASE s[i] = "not" -> end[<<"atom", i + 1>>]
           [] s[i] = "(" ->
                LET j == end[<<"disjunction", i + 1>>]
                IN IF j # Failed /\ Has(s, j, ")") THEN j + 1 ELSE Failed
           [] s[i] \in Numerals \cup {"all"} -> QuantifierEnd(s, i)
           [] s[i] \in Names -> i + 1
           [] OTHER -> Failed

\* The two loops, as recursion on the rest.
ConjunctionEnd(s, end, i) ==
    LET j == end[<<"atom", i>>]
    IN IF j # Failed /\ Has(s, j, "and") THEN end[<<"conjunction", j + 1>>] ELSE j

DisjunctionEnd(s, end, i) ==
    LET j == end[<<"conjunction", i>>]
    IN IF j # Failed /\ Has(s, j, "or") THEN end[<<"disjunction", j + 1>>] ELSE j

Productions == {"atom", "conjunction", "disjunction"}

ProductionEnd(s, end, p, i) ==
    CASE p = "atom" -> AtomEnd(s, end, i)
      [] p = "conjunction" -> ConjunctionEnd(s, end, i)
      [] p = "disjunction" -> DisjunctionEnd(s, end, i)

Ends(s) ==
    LET end[x \in Productions \X (1..(Len(s) + 1))] == ProductionEnd(s, end, x[1], x[2])
    IN end

Parse(s) == Ends(s)[<<"disjunction", 1>>]

WellFormedBooleanCondition(s) ==
    /\ s # <<>>
    /\ Balanced(s)
    /\ \A i \in DOMAIN s : s[i] # Junk
    /\ Separated(s)
    /\ Parse(s) = Len(s) + 1

-----------------------------------------------------------------------------
Feasible(available, n) == n <= available

\* _feasible_quantifiers: any three lexemes in a row.
FeasibleQuantifiers(s) ==
    \A i \in 1..Len(s) :
        i + 2 <= Len(s) /\ s[i] \in Numerals /\ s[i + 1] = "of" =>
            Feasible(Available(s[i + 2]), CountOf[s[i]])

\* What validate_structure asks of a condition.
Accepted ==
    LET expression == Expression(condition)
    IN /\ ReferencesKnownSelectors(expression)
       /\ ValidAggregationBoundary(condition)
       /\ WellFormedBooleanCondition(expression)
       /\ FeasibleQuantifiers(expression)

-----------------------------------------------------------------------------
(* The reference: a condition is derived from                                *)
(*    expr ::= atom | expr and expr | expr or expr                           *)
(*    atom ::= name | not atom | ( expr ) | (all | count) of target          *)
(* with parentheses d deep at most; with `resolved`, its names must be        *)
(* declared and its quantifiers have enough selectors to choose from.        *)

Quantified(s, i, target) ==
    /\ s[i] \in Numerals \cup {"all"}
    /\ i \notin glued
    /\ s[i + 1] = "of"
    /\ s[i] \in Numerals => CountOf[s[i]] > 0
    /\ s[i + 2] \in target

\* The lexemes from i to j are an atom; derives tells which other parts of s are what.
Atom(s, derives, i, j, d, resolved) ==
    \/ /\ i = j
       /\ s[i] \in Names
       /\ resolved => s[i] \in Selectors
    \/ /\ i < j
       /\ s[i] = "not"
       /\ derives[<<"atom", i + 1, j, d>>]
    \/ /\ i + 1 < j
       /\ d > 0
       /\ s[i] = "(" /\ s[j] = ")"
       /\ derives[<<"expr", i + 1, j - 1, d - 1>>]
    \/ /\ i + 2 = j
       /\ Quantified(s, i, Identifiers)
       /\ resolved => Available(s[j]) >= (IF s[i] = "all" THEN 1 ELSE CountOf[s[i]])

\* They are an n.
Derived(s, derives, n, i, j, d, resolved) ==
    \/ Atom(s, derives, i, j, d, resolved)
    \/ /\ n = "expr"
       /\ \E k \in (i + 1)..(j - 1) :
             /\ s[k] \in {"and", "or"}
             /\ derives[<<"expr", i, k - 1, d>>]
             /\ derives[<<"expr", k + 1, j, d>>]

Derivations(s, depth, resolved) ==
    LET derives[x \in {"atom", "expr"} \X (DOMAIN s) \X (DOMAIN s) \X (0..depth)] ==
            Derived(s, derives, x[1], x[2], x[3], x[4], resolved)
    IN derives

\* The whole of s is an expression.
Expr(s, depth, resolved) ==
    s # <<>> /\ Derivations(s, depth, resolved)[<<"expr", 1, Len(s), depth>>]

\* The condition can be read, and every name and quantifier in it denotes.
Meaningful ==
    /\ Expr(Expression(condition), MaxNesting, TRUE)
    /\ Pipes(condition) # {} => /\ Aggregation(condition) # <<>>
                                /\ Pipes(Aggregation(condition)) = {}

\* A quantifier over a keyword other than them, in the expression.
QuantifiesKeyword ==
    LET s == Expression(condition)
    IN \E i \in 1..(Len(s) - 2) : Quantified(s, i, Keywords \ {"them"})

-----------------------------------------------------------------------------
(* Properties *)

\* The recursive descent of _well_formed_boolean_condition, with its scans for
\* parentheses, blanks and unknown characters, accepts what the grammar derives
\* and nothing else.
ParserMatchesGrammar ==
    LET s == Expression(condition)
    IN WellFormedBooleanCondition(s) <=> Expr(s, MaxNesting, FALSE)

\* Four passes that do not know of each other decide together what a condition
\* means: what can be read and denotes, in every name and quantifier, is exactly
\* what validate_structure accepts without a quantifier over a keyword.
AcceptanceIsExact == Meaningful <=> Accepted /\ ~QuantifiesKeyword

\* An accepted condition references no undefined selector (the message of
\* validate_structure, line 339, and the docstring of _references_known_selectors).
AcceptedConditionsDenote == Accepted => Meaningful
=============================================================================
