---------------------------- MODULE MCRuleDrafts ----------------------------
(* Small instances of RuleDrafts for TLC: the contents are two drafts with   *)
(* different titles and, where Python's == is at issue, a third one that has *)
(* true where the first has the number 1.                                    *)
EXTENDS RuleDrafts, TLC

CONSTANTS one, true1, other

MCTitles == {one, other}
MCContents == {one, true1, other}

\* one and true1 share their title, and Python finds them equal.
MCTitleOf == [c \in Contents |-> IF c = other THEN "other" ELSE "title"]
MCPythonValue == [c \in Contents |-> IF c = other THEN other ELSE one]

Interchangeable == Permutations(Requests) \cup Permutations(Owners)
=============================================================================
