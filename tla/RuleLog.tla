------------------------------ MODULE RuleLog ------------------------------
(***************************************************************************)
(* What the draft store promises, with every operation in one step: each   *)
(* rule has one owner and a log of contents that only its owner extends,   *)
(* one entry at a time, each on top of the entry the owner had in mind.    *)
(***************************************************************************)
EXTENDS Sequences

CONSTANTS Owners, Rules, Contents, NoOwner

VARIABLES
    keeper,   \* the owner of each rule; NoOwner before it exists
    log       \* the contents of its versions, oldest first

lvars == <<keeper, log>>

LogInit ==
    /\ keeper = [x \in Rules |-> NoOwner]
    /\ log = [x \in Rules |-> <<>>]

Create(x, o, c) ==
    /\ keeper[x] = NoOwner
    /\ keeper' = [keeper EXCEPT ![x] = o]
    /\ log' = [log EXCEPT ![x] = <<c>>]

Extend(x, c) ==
    /\ keeper[x] # NoOwner
    /\ log' = [log EXCEPT ![x] = Append(@, c)]
    /\ UNCHANGED keeper

LogNext ==
    \E x \in Rules, c \in Contents :
        \/ \E o \in Owners : Create(x, o, c)
        \/ Extend(x, c)

LogSpec == LogInit /\ [][LogNext]_lvars

-----------------------------------------------------------------------------
(* Properties *)

\* A rule keeps its owner, and its log is only ever extended: no entry changes,
\* moves or goes.
LogsOnlyGrow ==
    [][\A y \in Rules :
        /\ keeper[y] # NoOwner => keeper'[y] = keeper[y]
        /\ \A n \in DOMAIN log[y] : n \in DOMAIN log'[y] /\ log'[y][n] = log[y][n]]_lvars
=============================================================================
