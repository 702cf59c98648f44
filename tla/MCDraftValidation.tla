------------------------- MODULE MCDraftValidation --------------------------
(* Small conditions and drafts for TLC: two declared selectors and a name    *)
(* that is not, and the parts of a draft at and beyond every limit.          *)
EXTENDS DraftValidation

MCMatchesOf == [p \in {"sel*", "x*"} |-> IF p = "sel*" THEN {"sel1", "sel2"} ELSE {}]
MCCountOf == [n \in {"0", "2"} |-> IF n = "0" THEN 0 ELSE 2]

\* One name of each kind is written; "sel2" only counts.
MCLexemes == Keywords \cup {"(", ")", "|", "?", "sel1", "missing", "sel*", "x*", "0", "2"}

Text(e, c, n) == [edge |-> e, inner |-> c, length |-> n]
Word(n) == Text("letter", "letter", n)

\* Words of these lengths, and texts with each other character at the edge or
\* inside.
TextsOf(lengths) ==
    {Word(n) : n \in lengths} \cup {NoText, Text("mark", "mark", 3)}
    \cup {Text(c, "letter", 5) : c \in {"space", "tab", "nbsp"}}
    \cup {Text("letter", c, 5) : c \in {"space", "tab", "nbsp", "hidden", "control", "surrogate"}}

Scalar(k) == [kind |-> k, text |-> NoText, bits |-> 0]
Integer(n) == [Scalar("int") EXCEPT !.bits = n]
String(t) == [Scalar("string") EXCEPT !.text = t]

MCPlain ==
    [title |-> Word(20), logsource |-> [product |-> Word(7)], timeframe |-> "none",
     selectors |-> 2, names |-> "names", conditions |-> 1, suffix |-> NoText,
     selections |-> 1, fields |-> 1, key |-> [field |-> Word(11), modifiers |-> <<"contains">>],
     values |-> 1, scalar |-> String(Word(10))]

MCOptions ==
    [title |-> TextsOf({200, 201}),
     logsource |-> {[product |-> t] : t \in TextsOf({100, 101})}
                   \cup {[definition |-> Word(9)], [vendor |-> Word(9)],
                         [service |-> Word(101)], [category |-> Word(9), definition |-> Word(200)],
                         [product |-> Word(9), category |-> Word(101)],
                         [service |-> Word(9), definition |-> Word(201)]},
     timeframe |-> {"10m", "10x", "number"},
     selectors |-> {0, 1, 64, 65},
     names |-> {"keyword", "punctuated"},
     conditions |-> {0, 8, 9},
     suffix |-> TextsOf({505, 506}) \cup {Text("astral", "mark", 505)},
     selections |-> {0, 64, 65},
     fields |-> {0, 4},
     key |-> {[field |-> t, modifiers |-> <<>>] : t \in TextsOf({200, 201})}
             \cup {[field |-> Word(9), modifiers |-> <<m>>] : m \in {"", "odd modifier"}},
     values |-> {0, 7, 8, 31, 32, 64, 65},
     scalar |-> {Scalar(k) : k \in {"none", "bool", "float", "nonfinite", "nested"}}
                \cup {Integer(n) : n \in {64, 4096, 4097, 16384}}
                \cup {String(t) : t \in TextsOf({2048, 2049})}
                \cup {String(Text(c, c, 2048)) : c \in {"astral", "mark", "control"}}]
=============================================================================
