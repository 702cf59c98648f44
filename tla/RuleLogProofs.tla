--------------------------- MODULE RuleLogProofs ---------------------------
(***************************************************************************)
(* What RuleLog promises about the past of a log, with proofs checked by   *)
(* TLAPS.  RuleDrafts implements RuleLog, so its versions keep it.         *)
(***************************************************************************)
EXTENDS RuleLog, SequenceTheorems, TLAPS

\* The inductive invariant: a rule nobody keeps has no log.
LInv ==
    /\ keeper \in [Rules -> Owners \cup {NoOwner}]
    /\ log \in [Rules -> Seq(Contents)]
    /\ \A x \in Rules : keeper[x] = NoOwner => log[x] = <<>>

\* Each operation keeps it.
LEMMA LInvStep ==
    ASSUME NoOwner \notin Owners, LInv, [LogNext]_lvars
    PROVE  LInv'
  <1>1. ASSUME NEW x \in Rules, NEW c \in Contents, NEW o \in Owners, Create(x, o, c)
        PROVE  LInv'
    BY <1>1 DEF Create, LInv
  <1>2. ASSUME NEW x \in Rules, NEW c \in Contents, Extend(x, c)
        PROVE  LInv'
    BY <1>2 DEF Extend, LInv
  <1>3. CASE UNCHANGED lvars
    BY <1>3 DEF lvars, LInv
  <1> QED BY <1>1, <1>2, <1>3 DEF LogNext

\* Each operation keeps the owners there are, and every log as the start of what it becomes.
LEMMA LogStep ==
    ASSUME NoOwner \notin Owners, LInv, LogNext, NEW y \in Rules
    PROVE  /\ keeper[y] # NoOwner => keeper'[y] = keeper[y]
           /\ \A n \in DOMAIN log[y] : n \in DOMAIN log'[y] /\ log'[y][n] = log[y][n]
  <1>1. ASSUME NEW x \in Rules, NEW c \in Contents, NEW o \in Owners, Create(x, o, c)
        PROVE  /\ keeper[y] # NoOwner => keeper'[y] = keeper[y]
               /\ \A n \in DOMAIN log[y] : n \in DOMAIN log'[y] /\ log'[y][n] = log[y][n]
    BY <1>1 DEF Create, LInv
  <1>2. ASSUME NEW x \in Rules, NEW c \in Contents, Extend(x, c)
        PROVE  /\ keeper[y] # NoOwner => keeper'[y] = keeper[y]
               /\ \A n \in DOMAIN log[y] : n \in DOMAIN log'[y] /\ log'[y][n] = log[y][n]
    <2>1. log[x] \in Seq(Contents) /\ log[y] \in Seq(Contents) /\ keeper' = keeper
      BY <1>2 DEF Extend, LInv
    <2>2. log'[y] = IF y = x THEN Append(log[x], c) ELSE log[y]
      BY <1>2 DEF Extend, LInv
    <2> QED BY <2>1, <2>2, AppendProperties
  <1> QED BY <1>1, <1>2 DEF LogNext

\* A log only grows at its end, and a rule keeps its owner.
THEOREM OnlyGrow ==
    ASSUME NoOwner \notin Owners PROVE LogSpec => LogsOnlyGrow
  <1> DEFINE Grow == \A y \in Rules :
                        /\ keeper[y] # NoOwner => keeper'[y] = keeper[y]
                        /\ \A n \in DOMAIN log[y] : n \in DOMAIN log'[y] /\ log'[y][n] = log[y][n]
  <1>1. LogInit => LInv
    BY DEF LogInit, LInv
  <1>2. LInv /\ [LogNext]_lvars => LInv'
    BY LInvStep
  <1>3. LInv /\ [LogNext]_lvars => [Grow]_lvars
    BY LogStep
  <1> HIDE DEF Grow
  <1>4. LogSpec => [][Grow]_lvars
    BY <1>1, <1>2, <1>3, PTL DEF LogSpec
  <1> QED BY <1>4 DEF Grow, LogsOnlyGrow
=============================================================================
