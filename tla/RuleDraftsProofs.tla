-------------------------- MODULE RuleDraftsProofs --------------------------
(***************************************************************************)
(* Theorems about RuleDrafts for any number of owners, rules, versions and *)
(* requests, any contents and any size of a page, with proofs checked by   *)
(* TLAPS.                                                                  *)
(***************************************************************************)
EXTENDS RuleDrafts, FiniteSetTheorems, SequenceTheorems, TLAPS

RevisePcs == {"revise_lock", "revise_read", "revise_insert", "revise_commit"}
ReadPcs == {"read_current", "read_previous", "read_number", "read_all"}

\* A rule that is not there has no versions, and one request at most is creating it.
CreateInv ==
    /\ \A x \in Rules : ~Exists(x) => current[x] = 0
    /\ \A r \in Requests : pc[r] = "create_commit" =>
          /\ target[r] \in Rules /\ caller[r] \in Owners /\ draft[r] \in Contents
          /\ ~Exists(target[r])
          /\ \A q \in Requests \ {r} : target[q] = target[r] => pc[q] # "create_commit"

\* What a revision has read under the row lock is still so, as is what it has checked.
LockInv ==
    \A r \in Requests :
        /\ pc[r] \in RevisePcs =>
              /\ target[r] \in Rules /\ caller[r] \in Owners /\ draft[r] \in Contents
              /\ number[r] \in 1..(MaxVersion - 1)
        /\ pc[r] \in LockPcs =>
              /\ RuleRowFree(r, target[r])
              /\ Editable(r)
              /\ headRead[r].version = current[target[r]]
        /\ pc[r] \in {"revise_insert", "revise_commit"} =>
              /\ BaseExpected(r)
              /\ Decodes(target[r], headRead[r].version)

\* What a read has seen of the rule row may be outdated, but was a version's.
ReadInv ==
    \A r \in Requests :
        /\ pc[r] \in ReadPcs =>
              /\ target[r] \in Rules
              /\ headRead[r].version \in 1..current[target[r]]
              /\ headRead[r].title = TitleOf[versions[target[r]][headRead[r].version]]
        /\ pc[r] = "read_number" => number[r] \in Numbers
        /\ pc[r] = "read_previous" => number[r] \in Numbers \ {1}
        /\ pc[r] = "read_all" => walk[r].rule = target[r] /\ walk[r].next = number[r]

\* What a list has not shown yet of the versions there were at its start is at its
\* offset or behind it, though every revision pushes it further back.
WalkInv ==
    \A r \in Requests :
        /\ walk[r].rule = NoRule => walk[r] = NoWalk
        /\ walk[r].next = 0 \/ walk[r].next >= PageSize
        /\ walk[r].rule # NoRule =>
              /\ walk[r].base <= current[walk[r].rule]
              /\ \A n \in 1..walk[r].base :
                    n > current[walk[r].rule] - walk[r].next => n \in walk[r].seen
              /\ walk[r].more => walk[r].next \in 1..current[walk[r].rule]
              /\ pc[r] = "read_all" /\ walk[r].next > 0 => walk[r].more

\* The marks of a list lie between its base and the current version, and so does the
\* next one, which is read ahead of its page; the first page can miss its mark only if
\* a revision came after that read.
MarkInv ==
    \A r \in Requests :
        walk[r].rule # NoRule =>
            /\ \A n \in walk[r].current : walk[r].base <= n /\ n <= current[walk[r].rule]
            /\ walk[r].next = 0 => walk[r].current = {}
            /\ walk[r].next > 0 /\ current[walk[r].rule] = walk[r].base =>
                  walk[r].current = {walk[r].base}
            /\ pc[r] = "read_all" => walk[r].base <= headRead[r].version

IInv ==
    /\ TypeOK /\ RowMatchesVersions /\ CreateInv /\ LockInv /\ ReadInv /\ WalkInv /\ MarkInv
    /\ ReadsAreConsistent /\ ListsAreComplete /\ MarksAreCurrent

-----------------------------------------------------------------------------
(* Lemmas about the operators and about what a step leaves alone. *)

\* The versions of a rule are those from 1 to its current one; a page takes the
\* newest PageSize of those behind its offset.
LEMMA PagesAreIntervals ==
    ASSUME TypeOK, RowMatchesVersions, NEW x \in Rules, NEW offset \in Nat
    PROVE  /\ Newest(x) = current[x]
           /\ PageOf(x, offset) =
                {n \in 1..current[x] : current[x] - n \in offset..(offset + PageSize - 1)}
<1>1. current[x] \in 0..MaxVersion
  BY DEF TypeOK
<1>2. {n \in Numbers : versions[x][n] # NoContent} = 1..current[x]
  BY <1>1, DraftsAssumption DEF RowMatchesVersions, Numbers
<1>3. Newest(x) = current[x]
  <2>1. Cardinality(1..current[x]) = current[x]
    BY <1>1, DraftsAssumption, FS_Interval
  <2> QED BY <1>2, <2>1, Zenon DEF Newest
<1> QED BY <1>1, <1>2, <1>3, DraftsAssumption DEF PageOf

\* All that is kept for a request.
Local(q) == <<pc[q], caller[q], target[q], draft[q], number[q], headRead[q], reply[q], walk[q]>>

\* A handler changes no other request.
LEMMA OthersUntouched ==
    ASSUME TypeOK, NEW r \in Requests, Step(r) \/ Arrive(r) \/ Abort(r), NEW q \in Requests \ {r}
    PROVE  UNCHANGED Local(q)
<1> USE DEF TypeOK, Local
<1>1. CASE Step(r)
  <2>1. CASE \/ CreateCommit(r) \/ ReviseLock(r) \/ ReviseRefused(r) \/ ReviseRead(r)
             \/ ReviseConflict(r) \/ ReviseUnchanged(r) \/ ReviseInsert(r) \/ ReviseCommit(r)
    BY <2>1 DEF CreateCommit, ReviseLock, ReviseRefused, ReviseRead, ReviseConflict,
       ReviseUnchanged, ReviseInsert, ReviseCommit, Respond, Finish, End, Goto, request
  <2>2. CASE \/ ReadCurrent(r) \/ ReadPrevious(r) \/ ReadNumber(r) \/ ReadAll(r) \/ ReadNothing(r)
    BY <2>2 DEF ReadCurrent, ReadPrevious, ReadNumber, ReadAll, ReadNothing, Respond, Finish, End,
       Goto, request
  <2> QED BY <1>1, <2>1, <2>2 DEF Step
<1>2. CASE Arrive(r)
  BY <1>2 DEF Arrive, CreateRule, Revise, Read, ListDrafts, Begin, request
<1>3. CASE Abort(r)
  BY <1>3 DEF Abort, Finish, End
<1> QED BY <1>1, <1>2, <1>3

\* What a revision is about to write: the next version of a rule still in draft.
LEMMA RevisionAppends ==
    ASSUME IInv, NEW r \in Requests, pc[r] = "revise_commit"
    PROVE  /\ target[r] \in Rules /\ draft[r] \in Contents
           /\ NextNumber(r) = current[target[r]] + 1 /\ NextNumber(r) \in Numbers
           /\ current[target[r]] \in 1..(MaxVersion - 1)
           /\ Exists(target[r])
BY DraftsAssumption
   DEF IInv, TypeOK, LockInv, RevisePcs, LockPcs, BaseExpected, Editable, NextNumber, Numbers, Exists

\* Four kinds of steps write to the rows, and two of them to what was there before.
LEMMA RowsStep ==
    ASSUME [Next]_vars
    PROVE  \/ \E r \in Requests : CreateCommit(r) \/ ReviseCommit(r)
           \/ UNCHANGED rows
           \/ UNCHANGED <<owner, title, current, versions, damaged>> /\ \E x \in Rules : LeaveDraft(x)
           \/ UNCHANGED <<owner, title, current, versions, isDraft>>
              /\ \E x \in Rules, n \in Numbers : Damage(x, n)
<1>1. CASE UNCHANGED vars
  BY <1>1 DEF vars, rows
<1>2. ASSUME NEW r \in Requests, Step(r), ~CreateCommit(r), ~ReviseCommit(r) PROVE UNCHANGED rows
  BY <1>2 DEF Step, ReviseLock, ReviseRefused, ReviseRead, ReviseConflict, ReviseUnchanged,
     ReviseInsert, ReadCurrent, ReadPrevious, ReadNumber, ReadAll, ReadNothing
<1>3. ASSUME NEW r \in Requests, Arrive(r) PROVE UNCHANGED rows
  BY <1>3 DEF Arrive, CreateRule, Revise, Read, ListDrafts, Begin
<1>4. ASSUME NEW r \in Requests, Abort(r) PROVE UNCHANGED rows
  BY <1>4 DEF Abort
<1>5. ASSUME NEW x \in Rules, LeaveDraft(x)
      PROVE  UNCHANGED <<owner, title, current, versions, damaged>>
  BY <1>5 DEF LeaveDraft
<1>6. ASSUME NEW x \in Rules, NEW n \in Numbers, Damage(x, n)
      PROVE  UNCHANGED <<owner, title, current, versions, isDraft>>
  BY <1>6 DEF Damage
<1> QED BY <1>1, <1>2, <1>3, <1>4, <1>5, <1>6 DEF Next

\* A version never changes and never goes, nor does a rule change hands.
LEMMA VersionsStand ==
    ASSUME IInv, [Next]_vars, NEW x \in Rules
    PROVE  /\ current[x] \in Nat /\ current'[x] \in Nat /\ current[x] <= current'[x]
           /\ \A n \in 1..current[x] : versions'[x][n] = versions[x][n]
           /\ Exists(x) => owner'[x] = owner[x]
<1> USE DraftsAssumption DEF Exists
<1>0. current[x] \in 0..MaxVersion /\ TypeOK
  BY DEF IInv, TypeOK
<1>1. ASSUME NEW r \in Requests, CreateCommit(r)
      PROVE  /\ current'[x] \in Nat /\ current[x] <= current'[x]
             /\ \A n \in 1..current[x] : versions'[x][n] = versions[x][n]
             /\ Exists(x) => owner'[x] = owner[x]
  <2>1. target[r] \in Rules /\ owner[target[r]] = NoOwner /\ current[target[r]] = 0
    BY <1>1 DEF IInv, CreateInv, CreateCommit
  <2> QED BY <1>0, <1>1, <2>1 DEF CreateCommit, TypeOK
<1>2. ASSUME NEW r \in Requests, ReviseCommit(r)
      PROVE  /\ current'[x] \in Nat /\ current[x] <= current'[x]
             /\ \A n \in 1..current[x] : versions'[x][n] = versions[x][n]
             /\ Exists(x) => owner'[x] = owner[x]
  <2>1. target[r] \in Rules /\ NextNumber(r) = current[target[r]] + 1 /\ current[target[r]] \in Nat
    BY <1>2, RevisionAppends DEF ReviseCommit
  <2> QED BY <1>0, <1>2, <2>1 DEF ReviseCommit, TypeOK
<1> QED BY <1>0, <1>1, <1>2, RowsStep DEF rows

\* What a page adds to the list of its client.
LEMMA PageShown ==
    ASSUME TypeOK, NEW r \in Requests, ReadAll(r)
    PROVE  /\ walk'[r] \in Walks
           /\ walk'[r].rule = walk[r].rule /\ walk'[r].base = walk[r].base
           /\ walk'[r].seen = walk[r].seen \cup PageOf(target[r], number[r])
           /\ walk'[r].current =
                walk[r].current \cup CurrentAmong(r, PageOf(target[r], number[r]))
           /\ walk'[r].next = number[r] + PageSize
           /\ walk'[r].more = HasMore(target[r], number[r])
<1>1. walk[r] \in Walks /\ walk \in [Requests -> Walks] /\ number[r] \in 0..MaxVersion
  BY DEF TypeOK
<1>2. PageOf(target[r], number[r]) \in SUBSET Numbers /\ HasMore(target[r], number[r]) \in BOOLEAN
  BY DEF PageOf, HasMore
<1>3. number[r] + PageSize \in 0..(MaxVersion + PageSize)
  BY <1>1, DraftsAssumption
<1>4. walk'[r] = [rule |-> walk[r].rule, base |-> walk[r].base,
                  seen |-> walk[r].seen \cup PageOf(target[r], number[r]),
                  current |-> walk[r].current
                                \cup CurrentAmong(r, PageOf(target[r], number[r])),
                  next |-> number[r] + PageSize,
                  more |-> HasMore(target[r], number[r])]
  BY <1>1 DEF ReadAll, Walks
<1>5. CurrentAmong(r, PageOf(target[r], number[r])) \in SUBSET Numbers
  BY <1>2 DEF CurrentAmong
<1> QED BY <1>1, <1>2, <1>3, <1>4, <1>5 DEF Walks

-----------------------------------------------------------------------------
\* A handler that ends without writing leaves the types alone.
LEMMA FinishType ==
    ASSUME TypeOK, NEW r \in Requests, Finish(r), UNCHANGED rows
    PROVE  TypeOK'
<1>1. NoHead \in Heads
  BY DraftsAssumption DEF NoHead, Heads
<1> QED BY <1>1, DraftsAssumption DEF TypeOK, PCs, Numbers, Finish, End, rows

\* Every step leaves each column and each local in its range.
LEMMA TypeStep == IInv /\ [Next]_vars => TypeOK'
<1> SUFFICES ASSUME IInv, [Next]_vars PROVE TypeOK'
  OBVIOUS
<1> USE DraftsAssumption DEF TypeOK, PCs, Numbers
<1>0. TypeOK
  BY DEF IInv
<1>1. CASE UNCHANGED vars
  BY <1>0, <1>1 DEF vars
<1>2. ASSUME NEW r \in Requests, Step(r) PROVE TypeOK'
  <2> USE <1>0 DEF Finish, End, Goto, Respond, rows, request
  <2>h. NoHead \in Heads /\ NoReply \in Replies
    BY DEF NoHead, NoReply, Heads, Replies
  <2>1. CASE CreateCommit(r)
    <3>1. target[r] \in Rules /\ draft[r] \in Contents /\ caller[r] \in Owners
      BY <2>1 DEF CreateCommit, IInv, CreateInv
    <3> QED BY <2>1, <2>h, <3>1 DEF CreateCommit
  <2>2. CASE ReviseLock(r)
    <3>1. target[r] \in Rules
      BY <2>2 DEF ReviseLock, IInv, LockInv, RevisePcs
    <3>2. [title |-> title[target[r]], version |-> current[target[r]]] \in Heads
      BY <3>1 DEF Heads
    <3> QED BY <2>2, <3>2 DEF ReviseLock
  <2>3. CASE ReviseRefused(r) \/ ReviseConflict(r) \/ ReviseUnchanged(r)
    BY <2>3, FinishType DEF ReviseRefused, ReviseConflict, ReviseUnchanged
  <2>4. CASE ReviseRead(r) \/ ReviseInsert(r)
    BY <2>4 DEF ReviseRead, ReviseInsert
  <2>5. CASE ReviseCommit(r)
    <3>1. target[r] \in Rules /\ draft[r] \in Contents /\ NextNumber(r) \in Numbers
      BY <2>5, RevisionAppends DEF ReviseCommit
    <3> QED BY <2>5, <2>h, <3>1 DEF ReviseCommit, NewTitle
  <2>6. CASE ReadCurrent(r) \/ ReadNumber(r)
    <3>1. \A t, n, c : /\ t \in {TitleOf[d] : d \in Contents} \cup {NoTitle}
                       /\ n \in 0..MaxVersion
                       /\ c \in Contents \cup {NoContent}
                       => [title |-> t, version |-> n, content |-> c] \in Replies
      BY DEF Replies
    <3>2. headRead[r].title \in {TitleOf[d] : d \in Contents} \cup {NoTitle}
          /\ headRead[r].version \in 0..MaxVersion
      BY DEF Heads
    <3>3. CASE ReadCurrent(r)
      <4>1. target[r] \in Rules /\ headRead[r].version \in Numbers
        BY <3>2, <3>3 DEF ReadCurrent, IInv, ReadInv, ReadPcs
      <4>2. versions[target[r]][headRead[r].version] \in Contents \cup {NoContent}
        BY <4>1
      <4> QED BY <3>1, <3>2, <3>3, <4>2, <2>h DEF ReadCurrent, ReadHead
    <3>4. CASE ReadNumber(r)
      <4>1. target[r] \in Rules /\ number[r] \in Numbers
        BY <3>4 DEF ReadNumber, IInv, ReadInv, ReadPcs
      <4>2. versions[target[r]][number[r]] \in Contents \cup {NoContent}
        BY <4>1
      <4> QED BY <3>1, <3>4, <4>2, <2>h DEF ReadNumber
    <3> QED BY <2>6, <3>3, <3>4
  <2>7. CASE ReadPrevious(r)
    BY <2>7 DEF ReadPrevious
  <2>8. CASE ReadAll(r)
    <3>1. walk' \in [Requests -> Walks]
      BY <2>8, <1>0, PageShown DEF ReadAll
    <3> QED BY <2>8, <2>h, <3>1 DEF ReadAll
  <2>9. CASE ReadNothing(r)
    BY <2>9, FinishType DEF ReadNothing
  <2> QED BY <1>2, <2>1, <2>2, <2>3, <2>4, <2>5, <2>6, <2>7, <2>8, <2>9 DEF Step
<1>3. ASSUME NEW r \in Requests, Arrive(r) PROVE TypeOK'
  <2> USE <1>0
  <2>h. NoReply \in Replies /\ NoWalk \in Walks
    BY DEF NoReply, Replies, NoWalk, NewWalk, Walks
  <2>1. ASSUME NEW o \in Owners, NEW x \in Rules, NEW c \in Contents, CreateRule(r, o, x, c)
        PROVE  TypeOK'
    BY <2>1, <2>h DEF CreateRule, Begin, rows
  <2>2. ASSUME NEW o \in Owners, NEW x \in Rules, NEW c \in Contents, NEW n \in 1..(MaxVersion - 1),
               Revise(r, o, x, c, n)
        PROVE  TypeOK'
    BY <2>2, <2>h DEF Revise, Begin, rows
  <2>3. ASSUME NEW o \in Owners, NEW x \in Rules, NEW p \in ReadPcs, NEW n \in 0..MaxVersion, Read(r, o, x, p, n)
        PROVE  TypeOK'
    <3>1. [title |-> title[x], version |-> current[x]] \in Heads
      BY DEF Heads
    <3>2. Walk(r, x, p, n) \in Walks
      BY <2>h DEF Walk, Walks, NewWalk
    <3> QED BY <2>3, <2>h, <3>1, <3>2 DEF Read, ReadPcs, rows
  <2>4. ASSUME NEW x \in Rules, walk[r].more, walk[r].rule = x PROVE walk[r].next \in 0..MaxVersion
    <3>1. walk[r].rule # NoRule /\ walk[r].next \in 1..current[x]
      BY <2>4 DEF IInv, WalkInv
    <3> QED BY <3>1
  <2>5. ASSUME NEW o \in Owners, NEW x \in Rules, ListDrafts(r, o, x) PROVE TypeOK'
    <3>1. versions[x][current[x]] \in Contents \cup {NoContent}
      BY <2>5 DEF ListDrafts
    <3>2. [title |-> title[x], version |-> current[x], content |-> versions[x][current[x]]] \in Replies
      BY <3>1 DEF Replies
    <3> QED BY <2>5, <2>h, <3>2 DEF ListDrafts, rows, request
  <2>6. PICK o \in Owners, x \in Rules :
          \/ \E c \in Contents : CreateRule(r, o, x, c)
          \/ \E c \in Contents, n \in 1..(MaxVersion - 1) : Revise(r, o, x, c, n)
          \/ \E p \in ReadPcs, n \in 0..MaxVersion : Read(r, o, x, p, n)
          \/ ListDrafts(r, o, x)
    BY <1>3, <2>4 DEF Arrive, ReadPcs
  <2> QED BY <2>1, <2>2, <2>3, <2>5, <2>6
<1>4. ASSUME NEW r \in Requests, Abort(r) PROVE TypeOK'
  BY <1>0, <1>4, FinishType DEF Abort
<1>5. ASSUME NEW x \in Rules, LeaveDraft(x) PROVE TypeOK'
  BY <1>0, <1>5 DEF LeaveDraft, request
<1>6. ASSUME NEW x \in Rules, NEW n \in Numbers, Damage(x, n) PROVE TypeOK'
  BY <1>0, <1>6 DEF Damage, request
<1> QED BY <1>1, <1>2, <1>3, <1>4, <1>5, <1>6 DEF Next

-----------------------------------------------------------------------------
\* A commit writes a rule row and the version that belongs to it.
LEMMA RowsMatchStep == IInv /\ [Next]_vars => RowMatchesVersions'
<1> SUFFICES ASSUME IInv, [Next]_vars PROVE RowMatchesVersions'
  OBVIOUS
<1> USE DraftsAssumption DEF Exists, Numbers
<1>0. TypeOK /\ RowMatchesVersions
  BY DEF IInv
<1>1. ASSUME NEW r \in Requests, CreateCommit(r) PROVE RowMatchesVersions'
  <2>1. /\ target[r] \in Rules /\ draft[r] \in Contents
        /\ owner[target[r]] = NoOwner /\ current[target[r]] = 0
    BY <1>1 DEF IInv, CreateInv, CreateCommit
  <2>2. \A n \in Numbers : versions[target[r]][n] = NoContent
    BY <1>0, <2>1 DEF RowMatchesVersions
  <2> QED BY <1>0, <1>1, <2>1, <2>2 DEF CreateCommit, RowMatchesVersions, TypeOK
<1>2. ASSUME NEW r \in Requests, ReviseCommit(r) PROVE RowMatchesVersions'
  <2>1. /\ target[r] \in Rules /\ draft[r] \in Contents
        /\ NextNumber(r) = current[target[r]] + 1 /\ NextNumber(r) \in Numbers
        /\ current[target[r]] \in Nat
    BY <1>2, RevisionAppends DEF ReviseCommit
  <2> DEFINE x == target[r]
             m == current[x] + 1
  <2>2. /\ current' = [current EXCEPT ![x] = m]
        /\ title' = [title EXCEPT ![x] = TitleOf[draft[r]]]
        /\ versions' = [versions EXCEPT ![x][m] = draft[r]]
        /\ owner' = owner
    BY <1>2, <2>1 DEF ReviseCommit, NewTitle
  <2>3. ASSUME NEW y \in Rules \ {x}
        PROVE  UNCHANGED <<owner[y], title[y], current[y], versions[y]>>
    BY <1>0, <2>1, <2>2 DEF TypeOK
  <2>4. current'[x] = m /\ title'[x] = TitleOf[draft[r]] /\ versions'[x] = [versions[x] EXCEPT ![m] = draft[r]]
    BY <1>0, <2>1, <2>2 DEF TypeOK
  <2>5. \A n \in Numbers : versions'[x][n] = IF n = m THEN draft[r] ELSE versions[x][n]
    BY <1>0, <2>1, <2>4 DEF TypeOK
  <2>6. \A n \in Numbers : versions'[x][n] # NoContent <=> n <= current'[x]
    BY <1>0, <2>1, <2>4, <2>5 DEF RowMatchesVersions
  <2>7. current'[x] > 0 /\ title'[x] = TitleOf[versions'[x][current'[x]]]
    BY <2>1, <2>4, <2>5
  <2> QED BY <1>0, <2>3, <2>6, <2>7 DEF RowMatchesVersions
<1>3. ASSUME UNCHANGED <<owner, title, current, versions>> PROVE RowMatchesVersions'
  BY <1>0, <1>3 DEF RowMatchesVersions
<1> QED BY <1>1, <1>2, <1>3, RowsStep DEF rows

\* A uuid4 is new: nobody else is at work on a rule that is being created.
LEMMA CreateStep == IInv /\ [Next]_vars => CreateInv'
<1> SUFFICES ASSUME IInv, [Next]_vars PROVE CreateInv'
  OBVIOUS
<1> USE DraftsAssumption DEF Exists
<1>0. TypeOK /\ CreateInv
  BY DEF IInv
<1>1. ASSUME NEW x \in Rules, owner'[x] = NoOwner PROVE current'[x] = 0
  <2>1. owner[x] = NoOwner /\ current[x] = 0
    BY <1>0, <1>1, VersionsStand DEF CreateInv
  <2>2. ASSUME NEW r \in Requests, CreateCommit(r) PROVE current'[x] = current[x]
    BY <1>0, <1>1, <2>2 DEF CreateCommit, CreateInv, TypeOK
  <2>3. ASSUME NEW r \in Requests, ReviseCommit(r) PROVE current'[x] = current[x]
    BY <1>0, <2>1, <2>3, RevisionAppends DEF ReviseCommit, TypeOK
  <2> QED BY <2>1, <2>2, <2>3, RowsStep DEF rows
<1>2. ASSUME NEW q \in Requests, pc'[q] = "create_commit"
      PROVE  /\ target'[q] \in Rules /\ caller'[q] \in Owners /\ draft'[q] \in Contents
             /\ ~Exists(target[q])'
             /\ \A p \in Requests \ {q} : target'[p] = target'[q] => pc'[p] # "create_commit"
  <2> DEFINE Goal == /\ target'[q] \in Rules /\ caller'[q] \in Owners /\ draft'[q] \in Contents
                     /\ ~Exists(target[q])'
                     /\ \A p \in Requests \ {q} : target'[p] = target'[q] => pc'[p] # "create_commit"
  <2>1. ASSUME NEW r \in Requests, Step(r) \/ Abort(r) PROVE Goal
    <3>1. pc'[r] # "create_commit"
      BY <1>0, <2>1 DEF Step, CreateCommit, ReviseLock, ReviseRefused, ReviseRead, ReviseConflict,
         ReviseUnchanged, ReviseInsert, ReviseCommit, ReadCurrent, ReadPrevious, ReadNumber,
         ReadAll, ReadNothing, Abort, Respond, Finish, End, Goto, TypeOK
    <3>2. \A p \in Requests \ {r} : UNCHANGED <<pc[p], target[p], caller[p], draft[p]>>
      BY <1>0, <2>1, OthersUntouched DEF Local
    <3>3. target[q] \in Rules /\ caller[q] \in Owners /\ draft[q] \in Contents /\ ~Exists(target[q])
      BY <1>0, <1>2, <3>1, <3>2 DEF CreateInv
    <3>4. CASE CreateCommit(r)
      <4>1. target[r] # target[q]
        BY <1>0, <1>2, <3>1, <3>2, <3>4 DEF CreateInv, CreateCommit
      <4>2. owner'[target[q]] = owner[target[q]]
        BY <1>0, <3>3, <3>4, <4>1 DEF CreateCommit, TypeOK
      <4> QED BY <1>0, <1>2, <3>1, <3>2, <3>3, <4>2 DEF CreateInv
    <3>5. CASE ~CreateCommit(r)
      <4>1. owner' = owner
        BY <2>1, <3>5 DEF Step, ReviseLock, ReviseRefused, ReviseRead, ReviseConflict,
         ReviseUnchanged, ReviseInsert, ReviseCommit, ReadCurrent, ReadPrevious, ReadNumber,
         ReadAll, ReadNothing, Abort, rows
      <4> QED BY <1>0, <1>2, <3>1, <3>2, <3>3, <4>1 DEF CreateInv
    <3> QED BY <3>4, <3>5
  <2>2. ASSUME NEW r \in Requests, Arrive(r) PROVE Goal
    <3>1. \A p \in Requests \ {r} : UNCHANGED <<pc[p], target[p], caller[p], draft[p]>>
      BY <1>0, <2>2, OthersUntouched DEF Local
    <3>2. owner' = owner
      BY <2>2 DEF Arrive, CreateRule, Revise, Read, ListDrafts, Begin, rows
    <3>3. ASSUME NEW o \in Owners, NEW x \in Rules, NEW c \in Contents, CreateRule(r, o, x, c)
          PROVE  Goal
      <4>1. pc'[r] = "create_commit" /\ target'[r] = x /\ caller'[r] = o /\ draft'[r] = c
        BY <1>0, <3>3 DEF CreateRule, Begin, TypeOK
      <4> QED BY <1>0, <1>2, <3>1, <3>2, <3>3, <4>1 DEF CreateRule, CreateInv
    <3>4. CASE pc'[r] # "create_commit"
      BY <1>0, <1>2, <3>1, <3>2, <3>4 DEF CreateInv
    <3>5. pc'[r] = "create_commit" =>
            \E o \in Owners, x \in Rules, c \in Contents : CreateRule(r, o, x, c)
      BY <1>0, <2>2 DEF Arrive, Revise, Read, ListDrafts, Begin, TypeOK
    <3> QED BY <3>3, <3>4, <3>5
  <2>3. ASSUME UNCHANGED <<owner, pc, target, caller, draft>> PROVE Goal
    BY <1>0, <1>2, <2>3 DEF CreateInv
  <2> QED BY <2>1, <2>2, <2>3 DEF Next, vars, LeaveDraft, Damage, request
<1> QED BY <1>1, <1>2 DEF CreateInv

-----------------------------------------------------------------------------
\* Nobody but the holder of a row lock changes the row or damages its versions.
LEMMA HeldRowStands ==
    ASSUME IInv, [Next]_vars, NEW q \in Requests, pc[q] \in LockPcs, ~ReviseCommit(q)
    PROVE  /\ owner'[target[q]] = owner[target[q]]
           /\ isDraft'[target[q]] = isDraft[target[q]]
           /\ current'[target[q]] = current[target[q]]
           /\ \A n : <<target[q], n>> \in damaged' <=> <<target[q], n>> \in damaged
<1> DEFINE Stands == /\ owner'[target[q]] = owner[target[q]]
                     /\ isDraft'[target[q]] = isDraft[target[q]]
                     /\ current'[target[q]] = current[target[q]]
                     /\ \A n : <<target[q], n>> \in damaged' <=> <<target[q], n>> \in damaged
<1>0. TypeOK /\ LockInv /\ CreateInv
  BY DEF IInv
<1>1. /\ target[q] \in Rules /\ Exists(target[q])
      /\ \A r \in Requests \ {q} : ~(target[r] = target[q] /\ pc[r] \in LockPcs)
  BY <1>0, DraftsAssumption DEF LockInv, RevisePcs, LockPcs, Editable, Exists, RuleRowFree, HoldsRow
<1>2. ASSUME NEW r \in Requests, CreateCommit(r) PROVE Stands
  <2>1. target[r] \in Rules /\ target[r] # target[q]
    BY <1>0, <1>1, <1>2 DEF CreateCommit, CreateInv
  <2> QED BY <1>0, <1>1, <1>2, <2>1 DEF CreateCommit, TypeOK
<1>3. ASSUME NEW r \in Requests, ReviseCommit(r) PROVE Stands
  <2>1. target[r] \in Rules /\ target[r] # target[q]
    BY <1>0, <1>1, <1>3 DEF ReviseCommit, LockInv, RevisePcs, LockPcs
  <2> QED BY <1>0, <1>1, <1>3, <2>1 DEF ReviseCommit, TypeOK
<1>4. ASSUME NEW x \in Rules, LeaveDraft(x), UNCHANGED <<owner, current, damaged>> PROVE Stands
  <2>1. x # target[q]
    BY <1>4 DEF LeaveDraft, HoldsRow
  <2> QED BY <1>0, <1>1, <1>4, <2>1 DEF LeaveDraft, TypeOK
<1>5. ASSUME NEW x \in Rules, NEW n \in Numbers, Damage(x, n), UNCHANGED <<owner, current, isDraft>>
      PROVE  Stands
  <2>1. x # target[q]
    BY <1>5 DEF Damage, HoldsRow
  <2> QED BY <1>0, <1>1, <1>5, <2>1 DEF Damage, TypeOK
<1> QED BY <1>2, <1>3, <1>4, <1>5, RowsStep DEF rows

\* The step of another request, or of the environment, that q's locals survive.
LEMMA OtherOrEnvironment ==
    ASSUME TypeOK, [Next]_vars, NEW q \in Requests, ~Step(q), ~Arrive(q), ~Abort(q)
    PROVE  UNCHANGED Local(q)
<1>1. CASE \E r \in Requests : Step(r) \/ Arrive(r) \/ Abort(r)
  BY <1>1, OthersUntouched
<1>2. CASE \/ UNCHANGED vars \/ \E x \in Rules : LeaveDraft(x)
           \/ \E x \in Rules, n \in Numbers : Damage(x, n)
  BY <1>2 DEF LeaveDraft, Damage, vars, request, Local
<1> QED BY <1>1, <1>2 DEF Next

\* A row lock excludes every other revision of the rule until the transaction ends.
LEMMA LockStep == IInv /\ [Next]_vars => LockInv'
<1> SUFFICES ASSUME IInv, [Next]_vars, NEW q \in Requests
             PROVE  /\ pc'[q] \in RevisePcs =>
                          /\ target'[q] \in Rules /\ caller'[q] \in Owners /\ draft'[q] \in Contents
                          /\ number'[q] \in 1..(MaxVersion - 1)
                    /\ pc'[q] \in LockPcs =>
                          /\ \A r \in Requests \ {q} : ~HoldsRow(r, target[q])'
                          /\ Editable(q)'
                          /\ headRead'[q].version = current'[target'[q]]
                    /\ pc'[q] \in {"revise_insert", "revise_commit"} =>
                          /\ BaseExpected(q)'
                          /\ Decodes(target[q], headRead[q].version)'
  BY DEF LockInv, RuleRowFree
<1>0. TypeOK /\ LockInv
  BY DEF IInv
<1>1. CASE Arrive(q)
  <2>1. \/ pc'[q] \notin RevisePcs
        \/ \E o \in Owners, x \in Rules, c \in Contents, n \in 1..(MaxVersion - 1) : Revise(q, o, x, c, n)
    BY <1>0, <1>1 DEF Arrive, CreateRule, Read, ListDrafts, Begin, RevisePcs, TypeOK
  <2> QED BY <1>0, <2>1 DEF Revise, Begin, RevisePcs, LockPcs, TypeOK
<1>2. CASE Abort(q)
  BY <1>0, <1>2 DEF Abort, Finish, End, RevisePcs, LockPcs, TypeOK
<1>3. CASE Step(q)
  <2>1. CASE ReviseLock(q) \/ ReviseRead(q) \/ ReviseInsert(q)
    <3>1. /\ UNCHANGED <<caller, target, draft, number, owner, isDraft, current, damaged>>
          /\ pc[q] \in RevisePcs /\ pc'[q] \in LockPcs
          /\ \A r \in Requests \ {q} : pc'[r] = pc[r]
      BY <1>0, <2>1 DEF ReviseLock, ReviseRead, ReviseInsert, Goto, request, rows, RevisePcs, LockPcs, TypeOK
    <3>2. /\ Editable(q) /\ headRead'[q].version = current[target[q]]
          /\ \A r \in Requests \ {q} : ~HoldsRow(r, target[q])
      BY <1>0, <2>1 DEF ReviseLock, ReviseRead, ReviseInsert, LockFree, LockInv, RuleRowFree, LockPcs, TypeOK
    <3>3. \A r \in Requests \ {q} : ~HoldsRow(r, target[q])'
      BY <3>1, <3>2 DEF HoldsRow
    <3>4. pc'[q] \in {"revise_insert", "revise_commit"} =>
            /\ BaseExpected(q) /\ Decodes(target[q], headRead[q].version)
            /\ headRead' = headRead
      BY <1>0, <2>1 DEF ReviseLock, ReviseRead, ReviseInsert, LockInv, Goto, TypeOK
    <3> QED BY <1>0, <3>1, <3>2, <3>3, <3>4 DEF LockInv, Editable, BaseExpected, Decodes
  <2>2. CASE ~(ReviseLock(q) \/ ReviseRead(q) \/ ReviseInsert(q))
    <3>1. pc'[q] \notin RevisePcs
      BY <1>0, <1>3, <2>2 DEF Step, CreateCommit, ReviseRefused, ReviseConflict, ReviseUnchanged,
         ReviseCommit, ReadCurrent, ReadPrevious, ReadNumber, ReadAll, ReadNothing, Respond, Finish,
         End, Goto, RevisePcs, TypeOK
    <3> QED BY <3>1 DEF RevisePcs, LockPcs
  <2> QED BY <2>1, <2>2
<1>4. CASE ~Step(q) /\ ~Arrive(q) /\ ~Abort(q)
  <2>1. UNCHANGED <<pc[q], caller[q], target[q], draft[q], number[q], headRead[q]>>
    BY <1>0, <1>4, OtherOrEnvironment DEF Local
  <2>2. ASSUME pc[q] \in LockPcs, NEW r \in Requests \ {q} PROVE ~HoldsRow(r, target[q])'
    <3>1. /\ ~HoldsRow(r, target[q]) /\ UNCHANGED target[q]
          /\ pc[r] \in LockPcs => target[r] # target[q]
      BY <1>0, <2>1, <2>2 DEF LockInv, RuleRowFree, HoldsRow
    <3>2. CASE ReviseLock(r)
      BY <1>0, <2>1, <2>2, <3>1, <3>2 DEF ReviseLock, LockFree, RuleRowFree, HoldsRow, Goto, request
    <3>3. CASE ReviseRead(r) \/ ReviseInsert(r)
      BY <1>0, <3>1, <3>3 DEF ReviseRead, ReviseInsert, HoldsRow, LockPcs, Goto, request
    <3>4. CASE ~(ReviseLock(r) \/ ReviseRead(r) \/ ReviseInsert(r))
      <4>1. CASE Step(r) \/ Arrive(r) \/ Abort(r)
        <5>1. pc'[r] \notin LockPcs
          <6>1. CASE \/ CreateCommit(r) \/ ReviseRefused(r) \/ ReviseConflict(r)
                     \/ ReviseUnchanged(r) \/ ReviseCommit(r) \/ Abort(r)
            BY <1>0, <6>1 DEF CreateCommit, ReviseRefused, ReviseConflict, ReviseUnchanged,
               ReviseCommit, Abort, Respond, Finish, End, LockPcs, TypeOK
          <6>2. CASE ReadCurrent(r) \/ ReadPrevious(r) \/ ReadNumber(r) \/ ReadAll(r) \/ ReadNothing(r)
            BY <1>0, <6>2 DEF ReadCurrent, ReadPrevious, ReadNumber, ReadAll, ReadNothing, Respond,
               Finish, End, Goto, LockPcs, TypeOK
          <6>3. CASE Arrive(r)
            BY <1>0, <6>3 DEF Arrive, CreateRule, Revise, Read, ListDrafts, Begin, LockPcs, TypeOK
          <6> QED BY <3>4, <4>1, <6>1, <6>2, <6>3 DEF Step
        <5> QED BY <5>1 DEF HoldsRow
      <4>2. CASE ~(Step(r) \/ Arrive(r) \/ Abort(r))
        BY <1>0, <3>1, <4>2, OtherOrEnvironment DEF Local, HoldsRow
      <4> QED BY <4>1, <4>2
    <3> QED BY <3>2, <3>3, <3>4
  <2>3. pc[q] \in LockPcs =>
          /\ owner'[target[q]] = owner[target[q]]
          /\ isDraft'[target[q]] = isDraft[target[q]]
          /\ current'[target[q]] = current[target[q]]
          /\ \A n : <<target[q], n>> \in damaged' <=> <<target[q], n>> \in damaged
    BY <1>4, HeldRowStands DEF Step
  <2> QED BY <1>0, <2>1, <2>2, <2>3 DEF LockInv, LockPcs, Editable, BaseExpected, Decodes
<1> QED BY <1>1, <1>2, <1>3, <1>4

-----------------------------------------------------------------------------
\* A handler's first read of a rule row finds a version that exists.
LEMMA ReadBegins ==
    ASSUME IInv, NEW r \in Requests, NEW o \in Owners, NEW x \in Rules, NEW p \in ReadPcs,
           NEW n \in 0..MaxVersion, Read(r, o, x, p, n)
    PROVE  /\ UNCHANGED rows
           /\ pc'[r] = p /\ target'[r] = x /\ number'[r] = n /\ walk'[r] = Walk(r, x, p, n)
           /\ headRead'[r].version = current[x] /\ headRead'[r].title = title[x]
           /\ current[x] \in 1..MaxVersion /\ title[x] = TitleOf[versions[x][current[x]]]
<1>1. TypeOK /\ RowMatchesVersions
  BY DEF IInv
<1>2. Exists(x) /\ current[x] \in 1..MaxVersion
  BY <1>1, DraftsAssumption DEF Read, Exists, TypeOK
<1> QED BY <1>1, <1>2 DEF Read, RowMatchesVersions, TypeOK

\* Which steps end with a handler that reads, and which of them begin a list.
LEMMA Readers ==
    ASSUME IInv, NEW r \in Requests, Step(r) \/ Arrive(r) \/ Abort(r), pc'[r] \in ReadPcs
    PROVE  \/ ReadPrevious(r)
           \/ \E o \in Owners, x \in Rules, p \in ReadPcs, n \in 0..MaxVersion :
                 /\ Read(r, o, x, p, n)
                 /\ p = "read_all" /\ n # 0 => walk[r].more /\ walk[r].rule = x /\ n = walk[r].next
                 /\ p = "read_number" => n \in Numbers
                 /\ p = "read_previous" => n \in Numbers \ {1}
<1>0. TypeOK /\ WalkInv
  BY DEF IInv
<1>1. CASE Step(r)
  BY <1>0, <1>1 DEF Step, CreateCommit, ReviseLock, ReviseRefused, ReviseRead, ReviseConflict,
     ReviseUnchanged, ReviseInsert, ReviseCommit, ReadCurrent, ReadNumber, ReadAll, ReadNothing,
     Respond, Finish, End, Goto, ReadPcs, TypeOK
<1>2. CASE Abort(r)
  BY <1>0, <1>2 DEF Abort, Finish, End, ReadPcs, TypeOK
<1>3. CASE Arrive(r)
  <2>1. PICK o \in Owners, x \in Rules :
          \/ Read(r, o, x, "read_current", 0)
          \/ \E n \in Numbers : Read(r, o, x, "read_number", n)
          \/ \E n \in Numbers \ {1} : Read(r, o, x, "read_previous", n)
          \/ Read(r, o, x, "read_all", 0)
          \/ walk[r].more /\ walk[r].rule = x /\ Read(r, o, x, "read_all", walk[r].next)
    BY <1>0, <1>3 DEF Arrive, CreateRule, Revise, ListDrafts, Begin, ReadPcs, TypeOK
  <2>2. walk[r].more /\ walk[r].rule = x => walk[r].next \in 0..MaxVersion
    BY <1>0, DraftsAssumption DEF WalkInv, TypeOK
  <2>3. 0 \in 0..MaxVersion /\ Numbers \subseteq 0..MaxVersion
    BY DraftsAssumption DEF Numbers
  <2>4. CASE Read(r, o, x, "read_current", 0)
    BY <2>3, <2>4 DEF ReadPcs
  <2>5. CASE \E n \in Numbers : Read(r, o, x, "read_number", n)
    BY <2>3, <2>5 DEF ReadPcs
  <2>6. CASE \E n \in Numbers \ {1} : Read(r, o, x, "read_previous", n)
    BY <2>3, <2>6 DEF ReadPcs
  <2>7. CASE Read(r, o, x, "read_all", 0)
    BY <2>3, <2>7 DEF ReadPcs
  <2>8. CASE walk[r].more /\ walk[r].rule = x /\ Read(r, o, x, "read_all", walk[r].next)
    BY <2>2, <2>8 DEF ReadPcs
  <2> QED BY <2>1, <2>4, <2>5, <2>6, <2>7, <2>8
<1> QED BY <1>1, <1>2, <1>3

\* What was true of a version when it was read stays true: versions do not change.
LEMMA ReadStep == IInv /\ [Next]_vars => ReadInv'
<1> SUFFICES ASSUME IInv, [Next]_vars, NEW q \in Requests
             PROVE  /\ pc'[q] \in ReadPcs =>
                          /\ target'[q] \in Rules
                          /\ headRead'[q].version \in 1..current'[target'[q]]
                          /\ headRead'[q].title = TitleOf[versions'[target'[q]][headRead'[q].version]]
                    /\ pc'[q] = "read_number" => number'[q] \in Numbers
                    /\ pc'[q] = "read_previous" => number'[q] \in Numbers \ {1}
                    /\ pc'[q] = "read_all" => walk'[q].rule = target'[q] /\ walk'[q].next = number'[q]
  BY DEF ReadInv, Numbers
<1>0. TypeOK /\ ReadInv
  BY DEF IInv
<1>1. CASE Step(q) \/ Arrive(q) \/ Abort(q)
  <2>1. CASE pc'[q] \notin ReadPcs
    BY <2>1 DEF ReadPcs
  <2>2. CASE ReadPrevious(q)
    BY <1>0, <2>2 DEF ReadPrevious, ReadInv, ReadPcs, Goto, rows, request, TypeOK
  <2>3. ASSUME NEW o \in Owners, NEW x \in Rules, NEW p \in ReadPcs, NEW n \in 0..MaxVersion,
               Read(q, o, x, p, n),
               p = "read_all" /\ n # 0 => walk[q].more /\ walk[q].rule = x /\ n = walk[q].next,
               p = "read_number" => n \in Numbers,
               p = "read_previous" => n \in Numbers \ {1}
        PROVE  /\ target'[q] \in Rules
               /\ headRead'[q].version \in 1..current'[target'[q]]
               /\ headRead'[q].title = TitleOf[versions'[target'[q]][headRead'[q].version]]
               /\ pc'[q] = "read_number" => number'[q] \in Numbers
               /\ pc'[q] = "read_previous" => number'[q] \in Numbers \ {1}
               /\ pc'[q] = "read_all" => walk'[q].rule = target'[q] /\ walk'[q].next = number'[q]
    <3>1. pc'[q] = "read_all" => walk'[q].rule = x /\ walk'[q].next = n
      <4>1. pc'[q] = p /\ walk'[q] = Walk(q, x, p, n)
        BY <2>3, ReadBegins
      <4> QED BY <2>3, <4>1 DEF Walk, NewWalk
    <3> QED BY <2>3, <3>1, ReadBegins DEF rows
  <2> QED BY <1>1, <2>1, <2>2, <2>3, Readers
<1>2. CASE ~Step(q) /\ ~Arrive(q) /\ ~Abort(q)
  <2>1. UNCHANGED <<pc[q], target[q], number[q], headRead[q], walk[q]>>
    BY <1>0, <1>2, OtherOrEnvironment DEF Local
  <2>2. pc[q] \in ReadPcs =>
          /\ target[q] \in Rules /\ headRead[q].version \in 1..current'[target[q]]
          /\ versions'[target[q]][headRead[q].version] = versions[target[q]][headRead[q].version]
    BY <1>0, VersionsStand DEF ReadInv
  <2> QED BY <1>0, <2>1, <2>2 DEF ReadInv, ReadPcs
<1> QED BY <1>1, <1>2

-----------------------------------------------------------------------------
\* What a step does to a client's list: it goes on, ends, begins, or gets a page.
LEMMA WalkMoves ==
    ASSUME IInv, [Next]_vars, NEW q \in Requests
    PROVE  \/ ReadAll(q)
           \/ /\ walk'[q] = walk[q]
              /\ pc'[q] = "read_all" =>
                    \/ pc[q] = "read_all" /\ headRead'[q] = headRead[q]
                    \/ walk[q].more /\ headRead'[q].version = current[walk[q].rule]
           \/ walk'[q] = NoWalk /\ pc'[q] # "read_all"
           \/ /\ UNCHANGED rows
              /\ \E x \in Rules : /\ walk'[q] = NewWalk(x, current[x])
                                  /\ headRead'[q].version = current[x]
<1>0. TypeOK
  BY DEF IInv
<1>1. CASE ReadAll(q)
  BY <1>1
<1>2. CASE (Step(q) \/ Abort(q)) /\ ~ReadAll(q)
  BY <1>0, <1>2 DEF Step, CreateCommit, ReviseLock, ReviseRefused, ReviseRead, ReviseConflict,
     ReviseUnchanged, ReviseInsert, ReviseCommit, ReadCurrent, ReadPrevious, ReadNumber,
     ReadNothing, Abort, Respond, Finish, End, Goto, TypeOK
<1>3. CASE Arrive(q)
  <2>1. CASE pc'[q] \notin ReadPcs
    <3>1. walk'[q] = NoWalk
      BY <1>0, <1>3, <2>1 DEF Arrive, CreateRule, Revise, Read, ListDrafts, Begin, ReadPcs, TypeOK
    <3> QED BY <2>1, <3>1 DEF ReadPcs
  <2>2. CASE ReadPrevious(q)
    BY <1>0, <2>2 DEF ReadPrevious, Goto, TypeOK
  <2>3. ASSUME NEW o \in Owners, NEW x \in Rules, NEW p \in ReadPcs, NEW n \in 0..MaxVersion,
               Read(q, o, x, p, n), p = "read_all" /\ n # 0 => walk[q].more /\ walk[q].rule = x
        PROVE  \/ /\ walk'[q] = walk[q] /\ walk[q].more
                  /\ headRead'[q].version = current[walk[q].rule]
               \/ walk'[q] = NoWalk /\ pc'[q] # "read_all"
               \/ /\ UNCHANGED rows /\ walk'[q] = NewWalk(x, current[x])
                  /\ headRead'[q].version = current[x]
    <3>1. /\ UNCHANGED rows /\ pc'[q] = p /\ walk'[q] = Walk(q, x, p, n)
          /\ headRead'[q].version = current[x]
      BY <1>0, <2>3, ReadBegins DEF Read, TypeOK
    <3> QED BY <2>3, <3>1 DEF Walk
  <2> QED BY <1>3, <2>1, <2>2, <2>3, Readers
<1>4. CASE ~Step(q) /\ ~Arrive(q) /\ ~Abort(q)
  BY <1>0, <1>4, OtherOrEnvironment DEF Local
<1> QED BY <1>1, <1>2, <1>3, <1>4

\* A page shows what was missing of the base down to its own end, and revisions push
\* what is missing still further back.
LEMMA PageExtendsList ==
    ASSUME IInv, NEW q \in Requests, ReadAll(q)
    PROVE  /\ target[q] \in Rules /\ walk[q].rule = target[q] /\ current[target[q]] \in Nat
           /\ current' = current
           /\ walk'[q].rule = target[q] /\ walk'[q].base = walk[q].base
           /\ walk'[q].next = walk[q].next + PageSize /\ walk'[q].next \in Nat
           /\ walk'[q].more <=> current[target[q]] > walk'[q].next
           /\ \A n \in 1..walk'[q].base :
                 n > current[target[q]] - walk'[q].next => n \in walk'[q].seen
           /\ walk'[q].next = PageSize /\ ~walk'[q].more => walk'[q].current # {}
           /\ \A n \in walk'[q].current : walk'[q].base <= n /\ n <= current[target[q]]
           /\ current[target[q]] = walk'[q].base => walk'[q].current = {walk'[q].base}
<1>0. TypeOK /\ RowMatchesVersions /\ ReadInv /\ WalkInv /\ MarkInv
  BY DEF IInv
<1> DEFINE x == target[q]
           w == walk'[q]
<1>1. /\ x \in Rules /\ walk[q].rule = x /\ walk[q].next = number[q]
      /\ headRead[q].version \in 1..current[x]
  BY <1>0 DEF ReadAll, ReadInv, ReadPcs
<1>2. current[x] \in Nat /\ number[q] \in Nat /\ walk[q].base \in Nat
  BY <1>0, <1>1, DraftsAssumption DEF TypeOK, Walks
<1>3. /\ w.rule = x /\ w.base = walk[q].base
      /\ w.seen = walk[q].seen \cup PageOf(x, number[q])
      /\ w.current = walk[q].current \cup (PageOf(x, number[q]) \cap {headRead[q].version})
      /\ w.next = number[q] + PageSize
      /\ w.more <=> current[x] > number[q] + PageSize
  <2>1. w.more = HasMore(x, number[q])
    BY <1>0, PageShown
  <2>2. HasMore(x, number[q]) <=> current[x] > number[q] + PageSize
    BY <1>0, <1>1, <1>2, PagesAreIntervals DEF HasMore
  <2> QED BY <1>0, <1>1, <2>1, <2>2, PageShown DEF CurrentAmong
<1>4. PageOf(x, number[q]) =
        {n \in 1..current[x] : current[x] - n \in number[q]..(number[q] + PageSize - 1)}
  BY <1>0, <1>1, <1>2, PagesAreIntervals
<1>5. /\ walk[q].base <= current[x]
      /\ \A n \in 1..walk[q].base : n > current[x] - number[q] => n \in walk[q].seen
  BY <1>0, <1>1, DraftsAssumption DEF WalkInv
<1>6. ASSUME NEW n \in 1..w.base, n > current[x] - w.next PROVE n \in w.seen
  <2>1. CASE n > current[x] - number[q]
    BY <1>3, <1>5, <2>1
  <2>2. CASE n <= current[x] - number[q]
    BY <1>2, <1>3, <1>4, <1>5, <1>6, <2>2, DraftsAssumption
  <2> QED BY <1>2, <1>3, <2>1, <2>2
<1>7. ASSUME w.next = PageSize, ~w.more PROVE headRead[q].version \in w.current
  <2>1. number[q] = 0 /\ current[x] <= PageSize
    BY <1>2, <1>3, <1>7, DraftsAssumption
  <2>2. headRead[q].version \in PageOf(x, number[q])
    BY <1>1, <1>2, <1>4, <2>1, DraftsAssumption
  <2> QED BY <1>3, <2>2
<1>8. current' = current
  BY DEF ReadAll, rows
<1>9. w.next = number[q] + PageSize /\ w.next \in Nat
  BY <1>2, <1>3, DraftsAssumption
<1>10. w.next = PageSize /\ ~w.more => w.current # {}
  BY <1>7
<1>11. w.more <=> current[x] > w.next
  BY <1>3
<1>12. w.next = walk[q].next + PageSize
  BY <1>1, <1>9
<1>13. \A n \in 1..w.base : n > current[x] - w.next => n \in w.seen
  BY <1>6, Zenon
<1>14. w.rule = x /\ w.base = walk[q].base
  BY <1>3
<1>15. /\ walk[q].base <= headRead[q].version
       /\ \A n \in walk[q].current : walk[q].base <= n /\ n <= current[x]
       /\ number[q] = 0 => walk[q].current = {}
       /\ number[q] > 0 /\ current[x] = walk[q].base => walk[q].current = {walk[q].base}
  BY <1>0, <1>1, DraftsAssumption DEF MarkInv, ReadAll
<1>16. \A n \in w.current : w.base <= n /\ n <= current[x]
  BY <1>1, <1>2, <1>3, <1>15
<1>17. ASSUME current[x] = w.base PROVE w.current = {w.base}
  <2>1. headRead[q].version = w.base
    BY <1>1, <1>2, <1>3, <1>15, <1>17
  <2>2. CASE number[q] = 0
    <3>1. w.base \in PageOf(x, number[q])
      BY <1>1, <1>2, <1>4, <1>17, <2>1, <2>2, DraftsAssumption
    <3> QED BY <1>3, <1>15, <2>1, <2>2, <3>1
  <2>3. CASE number[q] > 0
    BY <1>3, <1>15, <1>17, <2>1, <2>3
  <2> QED BY <1>2, <2>2, <2>3
<1> QED BY <1>1, <1>2, <1>8, <1>9, <1>10, <1>11, <1>12, <1>13, <1>14, <1>16, <1>17, Zenon

\* Lists keep what they have shown and know what they have not.
LEMMA WalkStep == IInv /\ [Next]_vars => WalkInv' /\ ListsAreComplete'
<1> SUFFICES ASSUME IInv, [Next]_vars, NEW q \in Requests
             PROVE  /\ walk'[q].rule = NoRule => walk'[q] = NoWalk
                    /\ walk'[q].next = 0 \/ walk'[q].next >= PageSize
                    /\ walk'[q].rule # NoRule =>
                          /\ walk'[q].base <= current'[walk'[q].rule]
                          /\ \A n \in 1..walk'[q].base :
                                n > current'[walk'[q].rule] - walk'[q].next => n \in walk'[q].seen
                          /\ walk'[q].more => walk'[q].next \in 1..current'[walk'[q].rule]
                          /\ pc'[q] = "read_all" /\ walk'[q].next > 0 => walk'[q].more
                    /\ walk'[q].next > 0 /\ ~walk'[q].more =>
                          1..walk'[q].base \subseteq walk'[q].seen
  BY DEF WalkInv, ListsAreComplete, NoWalk, NewWalk
<1>0. TypeOK /\ WalkInv /\ ListsAreComplete
  BY DEF IInv
<1>1. CASE ReadAll(q)
  <2>1. pc'[q] = "idle"
    BY <1>0, <1>1 DEF ReadAll, End, TypeOK
  <2>2. walk[q].base <= current[walk[q].rule] /\ walk[q].base \in Nat /\ walk[q].next \in Nat
    BY <1>0, <1>1, PageExtendsList, DraftsAssumption DEF WalkInv, TypeOK, Walks
  <2> QED BY <1>1, <2>1, <2>2, PageExtendsList, DraftsAssumption
<1>2. CASE walk'[q] = walk[q] /\ (pc'[q] = "read_all" => pc[q] = "read_all" \/ walk[q].more)
  <2>1. CASE walk[q].rule = NoRule
    <3>1. walk'[q] = NoWalk
      BY <1>0, <1>2, <2>1 DEF WalkInv
    <3> QED BY <3>1, DraftsAssumption DEF NoWalk, NewWalk
  <2>2. CASE walk[q].rule # NoRule
    <3>1. walk[q].rule \in Rules /\ walk[q].base \in Nat /\ walk[q].next \in Nat
      BY <1>0, <2>2, DraftsAssumption DEF TypeOK, Walks
    <3>2. /\ current[walk[q].rule] \in Nat /\ current'[walk[q].rule] \in Nat
          /\ current[walk[q].rule] <= current'[walk[q].rule]
      BY <3>1, VersionsStand
    <3> QED BY <1>0, <1>2, <2>2, <3>1, <3>2 DEF WalkInv, ListsAreComplete
  <2> QED BY <2>1, <2>2
<1>3. CASE walk'[q] = NoWalk
  BY <1>3, DraftsAssumption DEF NoWalk, NewWalk
<1>4. CASE UNCHANGED rows /\ \E x \in Rules : walk'[q] = NewWalk(x, current[x])
  <2>1. PICK x \in Rules : walk'[q] = NewWalk(x, current[x])
    BY <1>4
  <2>2. /\ walk'[q].rule = x /\ walk'[q].base = current[x] /\ walk'[q].next = 0
        /\ ~walk'[q].more
    BY <2>1 DEF NewWalk
  <2>3. current'[x] = current[x] /\ current[x] \in Nat
    BY <1>0, <1>4, DraftsAssumption DEF rows, TypeOK
  <2> QED BY <2>2, <2>3, DraftsAssumption
<1> QED BY <1>1, <1>2, <1>3, <1>4, WalkMoves

\* A mark is never older than the base of its list, nor newer than the current version.
LEMMA MarkStep == IInv /\ [Next]_vars => MarkInv' /\ MarksAreCurrent'
<1> DEFINE Goal(q) ==
      /\ walk'[q].rule # NoRule =>
            /\ \A n \in walk'[q].current : walk'[q].base <= n /\ n <= current'[walk'[q].rule]
            /\ walk'[q].next = 0 => walk'[q].current = {}
            /\ walk'[q].next > 0 /\ current'[walk'[q].rule] = walk'[q].base =>
                  walk'[q].current = {walk'[q].base}
            /\ pc'[q] = "read_all" => walk'[q].base <= headRead'[q].version
      /\ walk'[q].next > 0 => walk'[q].rule # NoRule
      /\ walk'[q].next = PageSize /\ ~walk'[q].more => walk'[q].current # {}
<1> SUFFICES ASSUME IInv, [Next]_vars, NEW q \in Requests
             PROVE  Goal(q)
  BY DEF MarkInv, MarksAreCurrent
<1>0. TypeOK /\ WalkInv /\ MarkInv /\ MarksAreCurrent
  BY DEF IInv
<1>1. CASE ReadAll(q)
  <2>1. pc'[q] = "idle"
    BY <1>0, <1>1 DEF ReadAll, End, TypeOK
  <2>2. walk[q].next \in Nat /\ target[q] # NoRule
    BY <1>0, <1>1, PageExtendsList, DraftsAssumption DEF TypeOK, Walks
  <2>3. walk'[q].next > 0
    BY <1>1, <2>2, PageExtendsList, DraftsAssumption
  <2> QED BY <1>1, <2>1, <2>2, <2>3, PageExtendsList
<1>2. CASE /\ walk'[q] = walk[q]
           /\ pc'[q] = "read_all" => \/ pc[q] = "read_all" /\ headRead'[q] = headRead[q]
                                     \/ headRead'[q].version = current[walk[q].rule]
  <2>1. CASE walk[q].rule = NoRule
    <3>1. walk'[q] = NoWalk
      BY <1>0, <1>2, <2>1 DEF WalkInv
    <3> QED BY <3>1, DraftsAssumption DEF NoWalk, NewWalk
  <2>2. CASE walk[q].rule # NoRule
    <3>1. walk[q].rule \in Rules /\ walk[q].base \in Nat /\ walk[q].next \in Nat
          /\ \A n \in walk[q].current : n \in Nat
      BY <1>0, <2>2, DraftsAssumption DEF TypeOK, Walks, Numbers
    <3>2. /\ current[walk[q].rule] \in Nat /\ current'[walk[q].rule] \in Nat
          /\ current[walk[q].rule] <= current'[walk[q].rule]
          /\ walk[q].base <= current[walk[q].rule]
      BY <1>0, <2>2, <3>1, VersionsStand DEF WalkInv
    <3>3. \A n \in walk[q].current : walk[q].base <= n /\ n <= current'[walk[q].rule]
      BY <1>0, <2>2, <3>1, <3>2 DEF MarkInv
    <3>4. current'[walk[q].rule] = walk[q].base => current[walk[q].rule] = walk[q].base
      BY <3>1, <3>2
    <3>5. pc'[q] = "read_all" => walk[q].base <= headRead'[q].version
      BY <1>0, <1>2, <2>2, <3>2 DEF MarkInv
    <3>6. /\ walk[q].next = 0 => walk[q].current = {}
          /\ walk[q].next > 0 /\ current[walk[q].rule] = walk[q].base =>
                walk[q].current = {walk[q].base}
      BY <1>0, <2>2 DEF MarkInv
    <3>7. walk[q].next = PageSize /\ ~walk[q].more => walk[q].current # {}
      BY <1>0, DraftsAssumption DEF MarksAreCurrent
    <3> QED BY <1>2, <2>2, <3>3, <3>4, <3>5, <3>6, <3>7
  <2> QED BY <2>1, <2>2
<1>3. CASE walk'[q] = NoWalk
  BY <1>3, DraftsAssumption DEF NoWalk, NewWalk
<1>4. CASE \E x \in Rules : walk'[q] = NewWalk(x, current[x]) /\ headRead'[q].version = current[x]
  <2>1. PICK x \in Rules : walk'[q] = NewWalk(x, current[x]) /\ headRead'[q].version = current[x]
    BY <1>4
  <2>2. /\ walk'[q].rule = x /\ walk'[q].base = current[x] /\ walk'[q].next = 0
        /\ walk'[q].current = {}
    BY <2>1 DEF NewWalk
  <2>3. current[x] \in Nat
    BY <1>0, DraftsAssumption DEF TypeOK
  <2> QED BY <2>1, <2>2, <2>3, DraftsAssumption
<1> QED BY <1>1, <1>2, <1>3, <1>4, WalkMoves

-----------------------------------------------------------------------------
\* An answer with a title takes it from the row that also named its version.
LEMMA ReplyStep == IInv /\ [Next]_vars => ReadsAreConsistent'
<1> SUFFICES ASSUME IInv, [Next]_vars, NEW q \in Requests, reply'[q].title # NoTitle
             PROVE  reply'[q].title = TitleOf[reply'[q].content]
  BY DEF ReadsAreConsistent
<1>0. TypeOK /\ RowMatchesVersions /\ ReadInv /\ ReadsAreConsistent
  BY DEF IInv
<1>1. CASE ReadCurrent(q)
  <2>1. headRead[q].title = TitleOf[versions[target[q]][headRead[q].version]]
    BY <1>0, <1>1 DEF ReadCurrent, ReadInv, ReadPcs
  <2>2. reply'[q] = [title |-> headRead[q].title, version |-> headRead[q].version,
                     content |-> versions[target[q]][headRead[q].version]]
    BY <1>0, <1>1 DEF ReadCurrent, ReadHead, Respond, TypeOK
  <2> QED BY <2>1, <2>2
<1>2. CASE ReadNumber(q)
  BY <1>0, <1>2 DEF ReadNumber, Respond, TypeOK
<1>3. CASE \E o \in Owners, x \in Rules : ListDrafts(q, o, x)
  <2>1. PICK o \in Owners, x \in Rules : ListDrafts(q, o, x)
    BY <1>3
  <2>2. title[x] = TitleOf[versions[x][current[x]]]
    BY <1>0, <2>1, DraftsAssumption DEF ListDrafts, RowMatchesVersions, Exists
  <2>3. reply'[q] = [title |-> title[x], version |-> current[x], content |-> versions[x][current[x]]]
    BY <1>0, <2>1 DEF ListDrafts, TypeOK
  <2> QED BY <2>2, <2>3
<1>4. CASE /\ Step(q) \/ Arrive(q) \/ Abort(q)
           /\ ~ReadCurrent(q) /\ ~ReadNumber(q)
           /\ ~\E o \in Owners, x \in Rules : ListDrafts(q, o, x)
  <2>1. ASSUME Step(q) \/ Abort(q) PROVE reply' = reply
    BY <1>4, <2>1 DEF Step, CreateCommit, ReviseLock, ReviseRefused, ReviseRead, ReviseConflict,
       ReviseUnchanged, ReviseInsert, ReviseCommit, ReadPrevious, ReadAll, ReadNothing, Abort,
       Finish, Goto
  <2>2. ASSUME Arrive(q) PROVE reply'[q] = NoReply
    BY <1>0, <1>4, <2>2 DEF Arrive, CreateRule, Revise, Read, Begin, TypeOK
  <2> QED BY <1>0, <1>4, <2>1, <2>2 DEF NoReply, ReadsAreConsistent
<1>5. CASE ~Step(q) /\ ~Arrive(q) /\ ~Abort(q)
  BY <1>0, <1>5, OtherOrEnvironment DEF Local, ReadsAreConsistent
<1> QED BY <1>1, <1>2, <1>3, <1>4, <1>5

\* No rule, no request.
LEMMA InitInv == Init => IInv
<1> SUFFICES ASSUME Init PROVE IInv
  OBVIOUS
<1> USE DraftsAssumption DEF Init
<1>1. NoHead \in Heads /\ NoReply \in Replies /\ NoWalk \in Walks
  BY DEF NoHead, Heads, NoReply, Replies, NoWalk, NewWalk, Walks
<1>2. TypeOK
  BY <1>1 DEF TypeOK, PCs, Numbers
<1>3. RowMatchesVersions /\ CreateInv /\ LockInv /\ ReadInv
  BY DEF RowMatchesVersions, CreateInv, LockInv, ReadInv, Exists, Numbers, RevisePcs, LockPcs, ReadPcs
<1>4. WalkInv /\ MarkInv /\ ReadsAreConsistent /\ ListsAreComplete /\ MarksAreCurrent
  BY DEF WalkInv, MarkInv, ReadsAreConsistent, ListsAreComplete, MarksAreCurrent, NoWalk, NewWalk,
     NoReply
<1> QED BY <1>2, <1>3, <1>4 DEF IInv

\* Every step keeps the invariant: one lemma for each of its parts.
LEMMA NextInv == IInv /\ [Next]_vars => IInv'
BY TypeStep, RowsMatchStep, CreateStep, LockStep, ReadStep, WalkStep, MarkStep, ReplyStep
   DEF IInv

\* In every reachable state the invariant holds.
THEOREM InvariantHolds == Spec => []IInv
BY InitInv, NextInv, PTL DEF Spec

\* Type correctness of the draft store.
THEOREM TypeCorrect == Spec => []TypeOK
<1>1. IInv => TypeOK
  BY DEF IInv
<1> QED BY <1>1, InvariantHolds, PTL

\* The row of a rule and its versions agree, whatever commits in which order
\* (create_rule_draft, revise_owned_rule_draft).
THEOREM RowsMatch == Spec => []RowMatchesVersions
<1>1. IInv => RowMatchesVersions
  BY DEF IInv
<1> QED BY <1>1, InvariantHolds, PTL

\* A read of two statements answers with one version (get_owned_rule_draft).
THEOREM ReadsReportOneVersion == Spec => []ReadsAreConsistent
<1>1. IInv => ReadsAreConsistent
  BY DEF IInv
<1> QED BY <1>1, InvariantHolds, PTL

\* A list that comes to its end has missed no version that there was at its start,
\* whatever is added meanwhile (list_owned_rule_versions).
THEOREM ListsMissNothing == Spec => []ListsAreComplete
<1>1. IInv => ListsAreComplete
  BY DEF IInv
<1> QED BY <1>1, InvariantHolds, PTL

\* No list marks a version that was superseded when it began; the newest has the mark
\* unless a revision came in between (list_owned_rule_versions).
THEOREM MarksAreTimely == Spec => []MarksAreCurrent
<1>1. IInv => MarksAreCurrent
  BY DEF IInv
<1> QED BY <1>1, InvariantHolds, PTL

-----------------------------------------------------------------------------
(* Action properties. *)

\* No update is lost: what a revision has checked under the lock holds when it
\* commits (revise_owned_rule_draft).
THEOREM NoRevisionIsLost == Spec => RevisionsExtendTheirBase
<1> DEFINE Extends == \A r \in Requests :
                        ReviseCommit(r) => /\ current[target[r]] = number[r]
                                           /\ isDraft[target[r]]
<1>1. IInv => Extends
  BY DEF IInv, LockInv, LockPcs, ReviseCommit, BaseExpected, Editable
<1>2. IInv /\ [Next]_vars => [Extends]_vars
  BY <1>1
<1> HIDE DEF Extends
<1>3. Spec => [][Extends]_vars
  BY <1>2, InvariantHolds, PTL DEF Spec
<1> QED BY <1>3 DEF RevisionsExtendTheirBase, Extends

\* A version whose text does not decode is never the base of another
\* (revise_owned_rule_draft).
THEOREM DamageStaysVisible == Spec => DamageIsNotLaundered
<1> DEFINE Visible == \A x \in Rules :
                        current'[x] # current[x] /\ current[x] # 0 => <<x, current[x]>> \notin damaged
<1>1. ASSUME IInv, [Next]_vars, NEW x \in Rules, current'[x] # current[x], current[x] # 0
      PROVE  <<x, current[x]>> \notin damaged
  <2>0. TypeOK /\ LockInv /\ CreateInv
    BY <1>1 DEF IInv
  <2>1. ASSUME NEW r \in Requests, CreateCommit(r) PROVE FALSE
    BY <1>1, <2>0, <2>1 DEF CreateCommit, CreateInv, TypeOK
  <2>2. ASSUME NEW r \in Requests, ReviseCommit(r) PROVE <<x, current[x]>> \notin damaged
    <3>1. target[r] = x
      BY <1>1, <2>0, <2>2 DEF ReviseCommit, TypeOK
    <3> QED BY <2>0, <2>2, <3>1 DEF ReviseCommit, LockInv, LockPcs, Decodes
  <2> QED BY <1>1, <2>1, <2>2, RowsStep DEF rows
<1>2. IInv /\ [Next]_vars => [Visible]_vars
  BY <1>1
<1> HIDE DEF Visible
<1>3. Spec => [][Visible]_vars
  BY <1>2, InvariantHolds, PTL DEF Spec
<1> QED BY <1>3 DEF DamageIsNotLaundered, Visible

-----------------------------------------------------------------------------
(* The refinement of RuleLog.  Only the two commits change what it shows.      *)

\* Owner, current version and versions are all that the logs are made of.
LEMMA Stutters ==
    ASSUME UNCHANGED <<owner, current, versions>>
    PROVE  UNCHANGED <<owner, LogOf>>
BY DEF LogOf

\* A rule that is created has a log of one entry.
LEMMA CreateRefines ==
    ASSUME IInv, NEW r \in Requests, CreateCommit(r)
    PROVE  Abstract!LogNext
<1> DEFINE x == target[r]
           c == draft[r]
<1>0. TypeOK /\ CreateInv /\ MaxVersion \in Nat \ {0}
  BY DraftsAssumption DEF IInv
<1>1. x \in Rules /\ c \in Contents /\ caller[r] \in Owners /\ owner[x] = NoOwner /\ current[x] = 0
  BY <1>0 DEF CreateCommit, CreateInv, Exists, TypeOK
<1>2. /\ owner' = [owner EXCEPT ![x] = caller[r]]
      /\ current' = [current EXCEPT ![x] = 1]
      /\ versions' = [versions EXCEPT ![x][1] = c]
  BY DEF CreateCommit
<1>3. \A y \in Rules \ {x} : current'[y] = current[y] /\ versions'[y] = versions[y]
  BY <1>0, <1>2 DEF TypeOK
<1>4. current'[x] = 1 /\ versions'[x][1] = c
  BY <1>0, <1>1, <1>2 DEF TypeOK, Numbers
<1>5. [n \in 1..current'[x] |-> versions'[x][n]] = <<c>>
  BY <1>4
<1>6. LogOf' = [LogOf EXCEPT ![x] = <<c>>]
  BY <1>1, <1>3, <1>5 DEF LogOf
<1>7. Abstract!Create(x, caller[r], c)
  BY <1>1, <1>2, <1>6 DEF Abstract!Create
<1> QED BY <1>1, <1>7 DEF Abstract!LogNext

\* A revision appends its draft to the log of its rule.
LEMMA ReviseRefines ==
    ASSUME IInv, NEW r \in Requests, ReviseCommit(r)
    PROVE  Abstract!LogNext
<1> DEFINE x == target[r]
           c == draft[r]
           k == current[x]
<1>0. TypeOK /\ MaxVersion \in Nat \ {0}
  BY DraftsAssumption DEF IInv
<1>1. /\ x \in Rules /\ c \in Contents /\ owner[x] # NoOwner
      /\ NextNumber(r) = k + 1 /\ k \in Nat /\ k + 1 \in Numbers
  BY RevisionAppends, <1>0 DEF ReviseCommit, Exists
<1>2. /\ current' = [current EXCEPT ![x] = k + 1]
      /\ versions' = [versions EXCEPT ![x][k + 1] = c]
      /\ owner' = owner
  BY <1>1 DEF ReviseCommit
<1>3. \A y \in Rules \ {x} : current'[y] = current[y] /\ versions'[y] = versions[y]
  BY <1>0, <1>2 DEF TypeOK
<1>4. /\ current'[x] = k + 1 /\ versions'[x][k + 1] = c
      /\ \A n \in 1..k : versions'[x][n] = versions[x][n]
  BY <1>0, <1>1, <1>2 DEF TypeOK, Numbers
<1>5. [n \in 1..current'[x] |-> versions'[x][n]] = Append(LogOf[x], c)
  <2> DEFINE s == [n \in 1..k |-> versions[x][n]]
             t == [n \in 1..(k + 1) |-> versions'[x][n]]
  <2>1. LogOf[x] = s
    BY <1>1 DEF LogOf
  <2>2. s \in Seq(Contents \cup {NoContent}) /\ t \in Seq(Contents \cup {NoContent})
    <3>1. s \in [1..k -> Contents \cup {NoContent}]
      BY <1>0, <1>1 DEF TypeOK, Numbers
    <3>2. t \in [1..(k + 1) -> Contents \cup {NoContent}]
      BY <3>1, <1>1, <1>4
    <3> QED BY <3>1, <3>2, <1>1
  <2>3. Len(s) = k /\ Len(t) = k + 1
    BY <1>1, <2>2, LenProperties
  <2>4. t[k + 1] = c /\ \A n \in 1..k : t[n] = s[n]
    BY <1>1, <1>4
  <2>5. [n \in 1..current'[x] |-> versions'[x][n]] = t
    BY <1>4
  <2> HIDE DEF x, c, k, s, t
  <2>6. Append(s, c) \in Seq(Contents \cup {NoContent}) /\ Len(Append(s, c)) = k + 1
    BY <1>1, <2>2, <2>3, AppendProperties
  <2>7. ASSUME NEW n \in 1..(k + 1)
        PROVE  Append(s, c)[n] = t[n]
    <3>1. CASE n = k + 1
      BY <1>1, <2>2, <2>3, <2>4, <3>1, AppendProperties
    <3>2. CASE n \in 1..k
      <4>1. Append(s, c)[n] = s[n]
        BY <1>1, <2>2, <2>3, <3>2, AppendProperties
      <4> QED BY <2>4, <3>2, <4>1
    <3>3. k \in Nat
      BY <1>1
    <3>4. n = k + 1 \/ n \in 1..k
      BY <3>3
    <3> QED BY <3>1, <3>2, <3>4
  <2>8. Append(s, c) = t
    BY <2>2, <2>3, <2>6, <2>7, SeqEqual
  <2> QED BY <2>1, <2>5, <2>8
<1>6. LogOf' = [LogOf EXCEPT ![x] = Append(@, c)]
  BY <1>1, <1>3, <1>5 DEF LogOf
<1>7. Abstract!Extend(x, c)
  BY <1>1, <1>2, <1>6 DEF Abstract!Extend
<1> QED BY <1>1, <1>7 DEF Abstract!LogNext

\* Interleaved creations, revisions, reads and deaths implement the one-step
\* operations on append-only logs.
THEOREM ImplementsRuleLogSpec == Spec => ImplementsRuleLog
<1>1. Init => Abstract!LogInit
  <2> SUFFICES ASSUME Init PROVE Abstract!LogInit
    OBVIOUS
  <2>1. LogOf = [x \in Rules |-> <<>>]
    BY DEF Init, LogOf
  <2> QED BY <2>1 DEF Init, Abstract!LogInit
<1>2. IInv /\ [Next]_vars => [Abstract!LogNext]_(Abstract!lvars)
  BY RowsStep, Stutters, CreateRefines, ReviseRefines DEF rows, Abstract!lvars
<1> QED
  BY <1>1, <1>2, InvariantHolds, PTL DEF Spec, ImplementsRuleLog, Abstract!LogSpec

-----------------------------------------------------------------------------
(* What RuleLog promises, the versions keep. *)

Promised == INSTANCE RuleLogProofs WITH keeper <- owner, log <- LogOf

\* No interleaving of creations, revisions, reads and deaths changes, moves or loses a
\* version that was committed, or gives a rule to another owner.
THEOREM HistoryStands == Spec => Abstract!LogsOnlyGrow
<1>1. Abstract!LogInit => Promised!LogInit
  BY DEF Abstract!LogInit, Promised!LogInit
<1>2. [Abstract!LogNext]_(Abstract!lvars) => [Promised!LogNext]_(Promised!lvars)
  <2>1. Abstract!LogNext => Promised!LogNext
    BY DEF Abstract!LogNext, Abstract!Create, Abstract!Extend,
       Promised!LogNext, Promised!Create, Promised!Extend
  <2> QED BY <2>1 DEF Abstract!lvars, Promised!lvars
<1>3. Abstract!LogSpec => Promised!LogSpec
  BY <1>1, <1>2, PTL DEF Abstract!LogSpec, Promised!LogSpec
<1> DEFINE Grow == \A y \in Rules :
                      /\ owner[y] # NoOwner => owner'[y] = owner[y]
                      /\ \A n \in DOMAIN LogOf[y] : n \in DOMAIN LogOf'[y] /\ LogOf'[y][n] = LogOf[y][n]
<1>4. Promised!LogsOnlyGrow => [][Grow]_(Promised!lvars)
  BY DEF Promised!LogsOnlyGrow
<1>5. [Grow]_(Promised!lvars) => [Grow]_(Abstract!lvars)
  BY DEF Abstract!lvars, Promised!lvars
<1> HIDE DEF Grow
<1>6. [][Grow]_(Promised!lvars) => [][Grow]_(Abstract!lvars)
  BY <1>5, PTL
<1>7. NoOwner \notin Owners
  BY DraftsAssumption
<1>8. Promised!LogSpec => Promised!LogsOnlyGrow
  BY <1>7, Promised!OnlyGrow
<1>9. Spec => [][Grow]_(Abstract!lvars)
  BY <1>3, <1>4, <1>6, <1>8, ImplementsRuleLogSpec, PTL DEF ImplementsRuleLog
<1> QED BY <1>9 DEF Grow, Abstract!LogsOnlyGrow
=============================================================================
