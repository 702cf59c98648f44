----------------------------- MODULE RuleDrafts -----------------------------
(***************************************************************************)
(* Sigma rule drafts and their versions (app/detection/service.py) under   *)
(* PostgreSQL at READ COMMITTED.  An action is what a handler does between *)
(* two awaits.  A revision holds the FOR UPDATE lock of its rule row from  *)
(* its first statement until its transaction ends; reads take no lock, so  *)
(* the two reads of a handler may straddle a revision.  Rows a handler has *)
(* inserted are private to it until its COMMIT.                            *)
(*                                                                         *)
(* A content is a whole validated draft.  Its title is part of it and is   *)
(* copied to the rule row.  A version is identified by its rule and its    *)
(* number, as the unique constraint on the two lets it be.                 *)
(***************************************************************************)
EXTENDS Naturals, FiniteSets

CONSTANTS
    Owners, Rules, Requests,
    Contents,        \* the drafts a client may send
    TitleOf,         \* the title of each content
    PythonValue,     \* the representative of the contents Python finds equal
    NoOwner, NoRule, NoContent, NoTitle,
    PageSize,        \* the limit of a list of versions
    MaxVersion       \* bound: the versions of a rule

ASSUME DraftsAssumption ==
    /\ NoOwner \notin Owners
    /\ NoRule \notin Rules
    /\ NoContent \notin Contents
    /\ DOMAIN TitleOf = Contents /\ \A c \in Contents : TitleOf[c] # NoTitle
    /\ DOMAIN PythonValue = Contents
    /\ PageSize \in Nat \ {0} /\ MaxVersion \in Nat \ {0}

Numbers == 1..MaxVersion

VARIABLES
    \* committed rows
    owner,      \* detection_rules.owner_id; NoOwner: there is no such row
    title,      \* detection_rules.title
    isDraft,    \* detection_rules.status = "draft"
    current,    \* detection_rules.current_version_id, as a number; 0 for NULL
    versions,   \* detection_rule_versions.sigma_yaml by rule and number
    damaged,    \* the versions whose stored text no longer decodes
    \* the handlers
    pc,
    caller,     \* the authenticated user
    target,     \* the rule of the request
    draft,      \* the content it brings
    number,     \* the version its author edited, or the one it asks for
    headRead,   \* the title and the current version its first read returned
    reply,      \* what the response of its last read said
    walk        \* how far its client is in a rule's list of versions

rows == <<owner, title, isDraft, current, versions, damaged>>
request == <<caller, target, draft, number>>
vars == <<owner, title, isDraft, current, versions, damaged, pc, caller, target, draft,
          number, headRead, reply, walk>>

PCs == {"idle", "create_commit", "revise_lock", "revise_read", "revise_insert", "revise_commit",
        "read_current", "read_previous", "read_number", "read_all"}
LockPcs == {"revise_read", "revise_insert", "revise_commit"}

NoHead == [title |-> NoTitle, version |-> 0]
NoReply == [title |-> NoTitle, version |-> 0, content |-> NoContent]

\* base: the newest version when the walk began.  seen, current: the versions
\* listed so far, and those of them marked as current.  next: the offset of the
\* next page, if there is more to come.
NewWalk(x, n) == [rule |-> x, base |-> n, seen |-> {}, current |-> {}, next |-> 0, more |-> FALSE]
NoWalk == NewWalk(NoRule, 0)

-----------------------------------------------------------------------------
Exists(x) == owner[x] # NoOwner

\* The row lock of the rule.
HoldsRow(q, x) == target[q] = x /\ pc[q] \in LockPcs
RuleRowFree(r, x) == \A q \in Requests \ {r} : ~HoldsRow(q, x)

Init ==
    /\ owner = [x \in Rules |-> NoOwner]
    /\ title = [x \in Rules |-> NoTitle]
    /\ isDraft = [x \in Rules |-> TRUE]
    /\ current = [x \in Rules |-> 0]
    /\ versions = [x \in Rules |-> [n \in Numbers |-> NoContent]]
    /\ damaged = {}
    /\ pc = [r \in Requests |-> "idle"]
    /\ caller = [r \in Requests |-> NoOwner]
    /\ target = [r \in Requests |-> NoRule]
    /\ draft = [r \in Requests |-> NoContent]
    /\ number = [r \in Requests |-> 0]
    /\ headRead = [r \in Requests |-> NoHead]
    /\ reply = [r \in Requests |-> NoReply]
    /\ walk = [r \in Requests |-> NoWalk]

Begin(r, p, o, x, c, n) ==
    /\ pc[r] = "idle"
    /\ pc' = [pc EXCEPT ![r] = p]
    /\ caller' = [caller EXCEPT ![r] = o]
    /\ target' = [target EXCEPT ![r] = x]
    /\ draft' = [draft EXCEPT ![r] = c]
    /\ number' = [number EXCEPT ![r] = n]
    /\ reply' = [reply EXCEPT ![r] = NoReply]
    /\ walk' = [walk EXCEPT ![r] = NoWalk]
    /\ UNCHANGED <<rows, headRead>>

Goto(r, p) == pc' = [pc EXCEPT ![r] = p] /\ UNCHANGED <<request, reply, walk>>

\* The handler is over, its session closed, and what it has not committed gone.
End(r) ==
    /\ pc' = [pc EXCEPT ![r] = "idle"]
    /\ caller' = [caller EXCEPT ![r] = NoOwner]
    /\ target' = [target EXCEPT ![r] = NoRule]
    /\ draft' = [draft EXCEPT ![r] = NoContent]
    /\ number' = [number EXCEPT ![r] = 0]
    /\ headRead' = [headRead EXCEPT ![r] = NoHead]

\* An HTTPException, or a response with nothing in it that a property is about.
Finish(r) == End(r) /\ UNCHANGED <<reply, walk>>

Respond(r, body) == End(r) /\ reply' = [reply EXCEPT ![r] = body] /\ UNCHANGED walk

\* The versions of x, newest first, that a page from offset on shows.
Newest(x) == Cardinality({n \in Numbers : versions[x][n] # NoContent})
PageOf(x, offset) ==
    {n \in Numbers : versions[x][n] # NoContent /\ Newest(x) - n \in offset..(offset + PageSize - 1)}

-----------------------------------------------------------------------------
(* Faulty variants of definitions below, for mutation runs. *)

\* A version number is left out.
NextNumber_Skips(r) == headRead[r].version + 2

\* The whole draft is stored where its title belongs.
NewTitle_Draft(r) == draft[r]

\* The rule row keeps the title of the version before.
NewTitle_Kept(r) == title[target[r]]

\* The version is looked up through the rule row as it is by now.
ReadHead_Again(r) == current[target[r]]

\* The look-ahead row is not fetched.
HasMore_NoLookAhead(x, offset) == Cardinality(PageOf(x, offset)) > PageSize

\* The first item of a page is taken for the current version.
CurrentAmong_First(r, shown) == {n \in shown : \A k \in shown : k <= n}

\* The draft's base is not compared with the version its author edited.
BaseExpected_Skipped(r) == TRUE

\* The damaged predecessor is not decoded.
Decodes_Always(x, n) == TRUE

-----------------------------------------------------------------------------
\* create_rule_draft: two INSERTs, then everything at once.  A uuid4 is new.
CreateRule(r, o, x, c) ==
    /\ ~Exists(x)
    /\ \A q \in Requests : target[q] = x => pc[q] # "create_commit"
    /\ Begin(r, "create_commit", o, x, c, 1)

CreateCommit(r) ==
    LET x == target[r]
    IN /\ pc[r] = "create_commit"
       /\ owner' = [owner EXCEPT ![x] = caller[r]]
       /\ title' = [title EXCEPT ![x] = TitleOf[draft[r]]]
       /\ current' = [current EXCEPT ![x] = 1]
       /\ versions' = [versions EXCEPT ![x][1] = draft[r]]
       /\ Finish(r)
       /\ UNCHANGED <<isDraft, damaged>>

-----------------------------------------------------------------------------
(* revise_owned_rule_draft *)

Revise(r, o, x, c, n) == Begin(r, "revise_lock", o, x, c, n)

LockFree(r) == RuleRowFree(r, target[r])

Editable(r) ==
    LET x == target[r] IN owner[x] = caller[r] /\ isDraft[x] /\ current[x] # 0

\* SELECT ... FOR UPDATE, and the checks on the row.
ReviseLock(r) ==
    /\ pc[r] = "revise_lock"
    /\ LockFree(r)
    /\ Editable(r)
    /\ headRead' = [headRead EXCEPT ![r] =
                     [title |-> title[target[r]], version |-> current[target[r]]]]
    /\ Goto(r, "revise_read")
    /\ UNCHANGED rows

\* Not the caller's rule, or no longer a draft.
ReviseRefused(r) ==
    /\ pc[r] = "revise_lock"
    /\ LockFree(r)
    /\ ~Editable(r)
    /\ Finish(r)
    /\ UNCHANGED rows

BaseExpected(r) == headRead[r].version = number[r]
Decodes(x, n) == <<x, n>> \notin damaged
Unchanged(r) == PythonValue[draft[r]] = PythonValue[versions[target[r]][headRead[r].version]]

\* The predecessor is what the author edited, decodes, and differs.
ReviseRead(r) ==
    /\ pc[r] = "revise_read"
    /\ BaseExpected(r)
    /\ Decodes(target[r], headRead[r].version)
    /\ ~Unchanged(r)
    /\ Goto(r, "revise_insert")
    /\ UNCHANGED <<rows, headRead>>

\* 409: somebody else's version is in between.  404: it does not decode.
ReviseConflict(r) ==
    /\ pc[r] = "revise_read"
    /\ ~(BaseExpected(r) /\ Decodes(target[r], headRead[r].version))
    /\ Finish(r)
    /\ UNCHANGED rows

\* 409: Draft is unchanged, as Python's == has it.
ReviseUnchanged(r) ==
    /\ pc[r] = "revise_read"
    /\ BaseExpected(r)
    /\ Decodes(target[r], headRead[r].version)
    /\ Unchanged(r)
    /\ Finish(r)
    /\ UNCHANGED rows

NextNumber(r) == headRead[r].version + 1

\* The flush of the INSERT.  The unique constraint admits a number once: it
\* waits for an uncommitted row of that number, and raises (Abort) on a
\* committed one.
ReviseInsert(r) ==
    /\ pc[r] = "revise_insert"
    /\ versions[target[r]][NextNumber(r)] = NoContent
    /\ \A q \in Requests \ {r} :
          ~(pc[q] = "revise_commit" /\ target[q] = target[r] /\ NextNumber(q) = NextNumber(r))
    /\ Goto(r, "revise_commit")
    /\ UNCHANGED <<rows, headRead>>

NewTitle(r) == TitleOf[draft[r]]

\* The UPDATE of the rule row and the COMMIT.
ReviseCommit(r) ==
    LET x == target[r]
    IN /\ pc[r] = "revise_commit"
       /\ title' = [title EXCEPT ![x] = NewTitle(r)]
       /\ current' = [current EXCEPT ![x] = NextNumber(r)]
       /\ versions' = [versions EXCEPT ![x][NextNumber(r)] = draft[r]]
       /\ Finish(r)
       /\ UNCHANGED <<owner, isDraft, damaged>>

-----------------------------------------------------------------------------
(* Reads: the rule row first, the versions after another await. *)

\* A list begins at offset 0; a client that asks for anything else gives it up.
Walk(r, x, p, n) ==
    IF p # "read_all" THEN NoWalk
    ELSE IF n = 0 THEN NewWalk(x, current[x])
    ELSE walk[r]

\* get_owned_rule_draft, get_owned_rule_version, list_owned_rule_versions and
\* diff_owned_rule_version.
Read(r, o, x, p, n) ==
    /\ pc[r] = "idle"
    /\ owner[x] = o
    /\ current[x] # 0
    /\ pc' = [pc EXCEPT ![r] = p]
    /\ caller' = [caller EXCEPT ![r] = o]
    /\ target' = [target EXCEPT ![r] = x]
    /\ number' = [number EXCEPT ![r] = n]
    /\ headRead' = [headRead EXCEPT ![r] = [title |-> title[x], version |-> current[x]]]
    /\ reply' = [reply EXCEPT ![r] = NoReply]
    /\ walk' = [walk EXCEPT ![r] = Walk(r, x, p, n)]
    /\ UNCHANGED <<rows, draft>>

ReadHead(r) == headRead[r].version

\* get_owned_rule_draft: the version the rule row pointed to.
ReadCurrent(r) ==
    LET x == target[r]
        n == ReadHead(r)
    IN /\ pc[r] = "read_current"
       /\ Decodes(x, n)
       /\ Respond(r, [title |-> headRead[r].title, version |-> n, content |-> versions[x][n]])
       /\ UNCHANGED rows

\* get_owned_rule_version: any version, if there is one of that number.
ReadNumber(r) ==
    LET x == target[r]
        n == number[r]
    IN /\ pc[r] = "read_number"
       /\ versions[x][n] # NoContent
       /\ Decodes(x, n)
       /\ Respond(r, [title |-> NoTitle, version |-> n, content |-> versions[x][n]])
       /\ UNCHANGED rows

\* diff_owned_rule_version reads version n - 1 first, then n the same way.
ReadPrevious(r) ==
    LET x == target[r]
        n == number[r] - 1
    IN /\ pc[r] = "read_previous"
       /\ versions[x][n] # NoContent
       /\ Decodes(x, n)
       /\ Goto(r, "read_number")
       /\ UNCHANGED <<rows, headRead>>

\* One row more than the page is fetched to find out.
HasMore(x, offset) == Newest(x) > offset + PageSize

\* The items whose id is that of the rule row, as it was read.
CurrentAmong(r, shown) == shown \cap {headRead[r].version}

\* list_owned_rule_versions: numbers and which of them is current, no contents.
ReadAll(r) ==
    LET x == target[r]
        shown == PageOf(x, number[r])
    IN /\ pc[r] = "read_all"
       /\ walk' = [walk EXCEPT ![r].seen = @ \cup shown,
                               ![r].current = @ \cup CurrentAmong(r, shown),
                               ![r].next = number[r] + PageSize,
                               ![r].more = HasMore(x, number[r])]
       /\ End(r)
       /\ UNCHANGED <<rows, reply>>

\* 404: no such version, or one that does not decode.
ReadNothing(r) ==
    LET n == CASE pc[r] = "read_current" -> ReadHead(r)
               [] pc[r] = "read_previous" -> number[r] - 1
               [] OTHER -> number[r]
    IN /\ pc[r] \in {"read_current", "read_previous", "read_number"}
       /\ ~(versions[target[r]][n] # NoContent /\ Decodes(target[r], n))
       /\ Finish(r)
       /\ UNCHANGED rows

\* list_owned_rule_drafts joins each rule to its current version in a single
\* SELECT; the reply stands for the item of x.
ListDrafts(r, o, x) ==
    /\ pc[r] = "idle"
    /\ owner[x] = o
    /\ current[x] # 0
    /\ reply' = [reply EXCEPT ![r] =
                  [title |-> title[x], version |-> current[x], content |-> versions[x][current[x]]]]
    /\ walk' = [walk EXCEPT ![r] = NoWalk]
    /\ UNCHANGED <<rows, pc, request, headRead>>

-----------------------------------------------------------------------------
(* Failures and the environment *)

\* The handler dies, or a statement raises: its transaction is rolled back.
Abort(r) ==
    /\ pc[r] # "idle"
    /\ Finish(r)
    /\ UNCHANGED rows

\* The review workflow, not in this code yet, takes the rule out of draft.
LeaveDraft(x) ==
    /\ Exists(x)
    /\ isDraft[x]
    /\ \A r \in Requests : ~HoldsRow(r, x)
    /\ isDraft' = [isDraft EXCEPT ![x] = FALSE]
    /\ UNCHANGED <<owner, title, current, versions, damaged, pc, request, headRead, reply, walk>>

\* A stored text is damaged, in a restore or by hand, while nobody revises it.
Damage(x, n) ==
    /\ versions[x][n] # NoContent
    /\ \A r \in Requests : ~HoldsRow(r, x)
    /\ damaged' = damaged \cup {<<x, n>>}
    /\ UNCHANGED <<owner, title, isDraft, current, versions, pc, request, headRead, reply, walk>>

Step(r) ==
    \/ CreateCommit(r)
    \/ ReviseLock(r) \/ ReviseRefused(r)
    \/ ReviseRead(r) \/ ReviseConflict(r) \/ ReviseUnchanged(r)
    \/ ReviseInsert(r) \/ ReviseCommit(r)
    \/ ReadCurrent(r) \/ ReadPrevious(r) \/ ReadNumber(r) \/ ReadAll(r) \/ ReadNothing(r)

\* The bound MaxVersion: nobody extends a rule that has that many versions.
Arrive(r) ==
    \E o \in Owners, x \in Rules :
        \/ \E c \in Contents : CreateRule(r, o, x, c)
        \/ \E c \in Contents, n \in 1..(MaxVersion - 1) : Revise(r, o, x, c, n)
        \/ Read(r, o, x, "read_current", 0)
        \/ \E n \in Numbers : Read(r, o, x, "read_number", n)
        \/ \E n \in Numbers \ {1} : Read(r, o, x, "read_previous", n)
        \/ Read(r, o, x, "read_all", 0)
        \/ walk[r].more /\ walk[r].rule = x /\ Read(r, o, x, "read_all", walk[r].next)
        \/ ListDrafts(r, o, x)

Next ==
    \/ \E r \in Requests : Step(r) \/ Arrive(r) \/ Abort(r)
    \/ \E x \in Rules : LeaveDraft(x)
    \/ \E x \in Rules, n \in Numbers : Damage(x, n)

Spec == Init /\ [][Next]_vars

-----------------------------------------------------------------------------
(* Properties *)

Heads == [title : {TitleOf[c] : c \in Contents} \cup {NoTitle}, version : 0..MaxVersion]
Replies == [title : {TitleOf[c] : c \in Contents} \cup {NoTitle}, version : 0..MaxVersion,
            content : Contents \cup {NoContent}]
Walks == [rule : Rules \cup {NoRule}, base : 0..MaxVersion, seen : SUBSET Numbers,
          current : SUBSET Numbers, next : 0..(MaxVersion + PageSize), more : BOOLEAN]

TypeOK ==
    /\ owner \in [Rules -> Owners \cup {NoOwner}]
    /\ title \in [Rules -> {TitleOf[c] : c \in Contents} \cup {NoTitle}]
    /\ isDraft \in [Rules -> BOOLEAN]
    /\ current \in [Rules -> 0..MaxVersion]
    /\ versions \in [Rules -> [Numbers -> Contents \cup {NoContent}]]
    /\ damaged \in SUBSET (Rules \X Numbers)
    /\ pc \in [Requests -> PCs]
    /\ caller \in [Requests -> Owners \cup {NoOwner}]
    /\ target \in [Requests -> Rules \cup {NoRule}]
    /\ draft \in [Requests -> Contents \cup {NoContent}]
    /\ number \in [Requests -> 0..MaxVersion]
    /\ headRead \in [Requests -> Heads]
    /\ reply \in [Requests -> Replies]
    /\ walk \in [Requests -> Walks]

\* The rule row and its versions agree: the numbers run from 1 to the current
\* one without a gap, and the title is that of the current version.
RowMatchesVersions ==
    \A x \in Rules :
        /\ \A n \in Numbers : versions[x][n] # NoContent <=> n <= current[x]
        /\ Exists(x) => current[x] > 0 /\ title[x] = TitleOf[versions[x][current[x]]]

\* A read that straddles revisions still answers with one version: the title it
\* reports is the title of the content it reports (get_owned_rule_draft).
ReadsAreConsistent ==
    \A r \in Requests :
        reply[r].title # NoTitle => reply[r].title = TitleOf[reply[r].content]

\* Versions that are added between the pages of a list shift the later pages, but
\* never hide one: when no more is announced, every version that there was at the
\* start has been shown (list_owned_rule_versions).
ListsAreComplete ==
    \A r \in Requests :
        walk[r].next > 0 /\ ~walk[r].more => 1..walk[r].base \subseteq walk[r].seen

\* A list marks its current version by a rule row read before each page.  So a mark
\* may be outdated, or on no page at all, but it is never on a version that was
\* superseded when the list began; unless a revision came in between, the newest has
\* it and no other; and a list of one page always has one (list_owned_rule_versions).
MarksAreCurrent ==
    \A r \in Requests :
        LET w == walk[r]
        IN w.next > 0 => /\ \A n \in w.current : w.base <= n /\ n <= current[w.rule]
                         /\ current[w.rule] = w.base => w.current = {w.base}
                         /\ w.next = PageSize /\ ~w.more => w.current # {}

\* No update is lost: a revision is committed on top of the very version its
\* author edited, of a rule still in draft (revise_owned_rule_draft).
RevisionsExtendTheirBase ==
    [][\A r \in Requests :
        ReviseCommit(r) => /\ current[target[r]] = number[r]
                           /\ isDraft[target[r]]]_vars

\* A damaged version never gets a successor: it is not "laundered into a
\* healthy-looking revision chain" (comment in revise_owned_rule_draft).
DamageIsNotLaundered ==
    [][\A x \in Rules :
        current'[x] # current[x] /\ current[x] # 0 => <<x, current[x]>> \notin damaged]_vars

\* Only a draft equal to the stored one is refused as unchanged
\* (docs/API_SPECIFICATION.md, draft revision).
OnlyUnchangedIsRefused ==
    [][\A r \in Requests :
        ReviseUnchanged(r) => draft[r] = versions[target[r]][headRead[r].version]]_vars

\* The versions of each rule as the log they stand for.
LogOf == [x \in Rules |-> [n \in 1..current[x] |-> versions[x][n]]]

Abstract == INSTANCE RuleLog WITH keeper <- owner, log <- LogOf

\* Interleaved creations, revisions, reads and deaths implement the append-only
\* logs of RuleLog: versions are never changed, reordered, skipped or lost.
ImplementsRuleLog == Abstract!LogSpec
=============================================================================
