# A verification of the SigmaForge backend

TLA+ models of the parts of SigmaForge whose correctness depends on what
*concurrent* requests do to shared rows (refresh tokens, account lockout, Sigma
rule drafts), of who is let in while accounts change and what the browser makes
of it, and of the checks that decide which drafts there are at all. TLC checks them
on small instances; TLAPS proves what they show, but for liveness, for every number of
users, tokens, rules, versions, pages and requests and for conditions of any length.

Paths below are relative to the repository's root; `backend/app/auth/service.py`
is `src/backend/app/auth/service.py` in `PROJECT.json`.

## 1. The system

SigmaForge is an asyncio FastAPI backend on PostgreSQL (SQLAlchemy
`AsyncSession`, READ COMMITTED), a React front end, and a Celery worker that so
far holds one ping task. A request handler is a coroutine with a database
session of its own (`core/database.py: get_db`). Handlers share nothing in
memory: they meet in PostgreSQL's rows and locks only. Another handler, of this
or of another process, can run at every `await`, and a handler can die at every
`await`; PostgreSQL then rolls its open transaction back.

| component | state | operations | modelled by |
|---|---|---|---|
| refresh tokens (`auth/service.py`, `auth/repository_sqlalchemy.py`) | rows of `refresh_tokens`, `users.is_active` | login (issue), refresh, logout, logout-all | `RefreshTokens`, `Sessions` |
| account lockout (same files) | `users.failed_login_count`, `users.locked_until` | login | `AccountLockout` |
| rule drafts (`detection/service.py`) | rows of `detection_rules`, `detection_rule_versions` | create, revise, read current / numbered / list / diff | `RuleDrafts`, `RuleLog` |
| draft validation (`detection/validation.py`) | none (pure) | the preflight of a draft | `ConditionGrammar`, `DraftValidation` |
| access tokens, permissions (`core/dependencies.py`, `core/security.py`) | JWTs at large, `users.role_id`, `is_active` | issue, authenticate, authorize, the auth routes | `AccessControl` |
| session client (`frontend/src`) | both tokens and the signed-in user, in memory | sign in, sign out, reload | `SessionClient` |
| middleware, logging, health, settings, migrations, worker, infrastructure | none beyond a request | | not modelled |

How they interact: every handler of the drafts first runs `get_current_user` and
`require_permission`, whose access token login or refresh issued; logout-all
runs `get_current_user` too. A login runs the lockout first and, if the password
is right, issues a token pair: `AccountLockout` and `RefreshTokens` split
`AuthService.login` at the return of `reset_failed_login`. They share the column
`is_active` only, which neither writes. `SessionClient` extends `AccessControl`,
which extends `Sessions`, the abstract specification `RefreshTokens` implements.

What is hard, and what each component has to get right:

* **Refresh tokens.** Rotation must exchange a token at most once while several
  requests present it. Reuse must revoke all sessions of the user, *including
  those whose login or rotation is half done*, and must not be confused with
  expiry. Row locks of several statements must not form a cycle.
* **Account lockout.** Counting and locking are separate transactions on a row
  that every login of the account reads once, at its start.
* **Rule drafts.** Two editors of one version; readers that take the rule row and
  its version in separate statements; a rule row, a title and a version that must
  change together; stored text that no longer decodes; a list read page by page
  while it grows.
* **Validation.** Checks that each look at one part and must agree in the end: with
  each other, with the width of the columns, and with the decoder of later reads.
* **Access.** A token outlives the role and the account it was issued for.
* **Session client.** Two fetches in a row, either of which may fail or be lost, and
  a sign-out in two calls.

The `hazards` of `PROJECT.json` list these one by one, each at its line, with the
property that would notice.

## 2. The modules

### `Sessions`: what the token lifecycle promises

A session is a live refresh token. `Open`, `Renew`, `Close` and `CloseAll` each
take one step; a token is never used for a second session. Hence `SessionsStayClosed`
and `SessionsAreApart`, which every implementation of it inherits.

### `RefreshTokens`: the code, statement by statement

An action is what a handler does between two awaits, at most one SQL statement
or one COMMIT. `pc[r]` names the await handler `r` is suspended at.

| handler | actions, in order |
|---|---|
| login, after the password | `Login`, `ResetFailedLogin` (or `ResetAndRaise`), `CreateInsert`, `CreateCommit`, `Deliver` |
| refresh | `Refresh`, `ReadUser` (or `ReadInactiveUser`), `RotateLock`, `RotateConsume`, `RotateCommit`, `Answer` (or `AnswerAndRaise`) |
| ... that loses the race | `RotateMiss`, `RotationLost` (or `RotationLostAndRaise`), then as a burn |
| ... of a revoked token | `RefreshReused`, then as a burn |
| ... of an expired or unknown token | `RefreshExpired`, `RefreshUnknown` |
| logout | `Logout`, `RevokeUpdate`, `RevokeCommit`; or `LogoutIdle` |
| logout-all | `LogoutAll`, then as a burn |
| a burn, `revoke_all_for_user` | `BurnLock`, `BurnScan`, `BurnUpdate`, `BurnCommit` |
| any | `Abort` |

PostgreSQL is external; its part is modelled from what the code relies on.

* `SELECT users.id ... FOR UPDATE` excludes every other lock on the user row
  until its transaction ends. `HoldsUserRow` reads the lock off the `pc`.
* The INSERT of a refresh token takes the KEY SHARE lock of its foreign key on
  the user row until COMMIT (`SharesUserRow`). No line of the code says so, and
  it is what keeps a login out of a burn.
* An UPDATE of one row waits for the row's uncommitted writer, then evaluates its
  WHERE clause on the committed row. The UPDATE of all rows of a user takes its
  snapshot first (`BurnScan`), can only ever see the rows of that snapshot, and
  rechecks each of them once it is free (`BurnUpdate`). The two are separate
  steps: with one, the race the user-row lock is there for could not happen.
* `staged` holds the rows a transaction has written and not committed.

Two constants stand for what the *repository object* does when the service reads
an attribute: `RoleReads` for `user.role.name` (a lazy relationship that neither
`get_by_email` nor `get_by_id` loads) and `ExpiredReads` for `existing.user_id`
after a rollback (which expires it). `TRUE` yields the value, as the in-memory
repositories of the tests do; `FALSE` raises, as an `AsyncSession` does outside
an awaited call. The passing runs and all proofs allow any mix of the two.

A raw token is drawn when a request starts and not when `secrets.token_urlsafe`
is called, which no other request can observe. Clients present tokens they were
given (`delivered`), any number of times and from several places: a lost
response, a retry and a stolen token look alike here, as they do to the code.

### `AccountLockout`

Every repository call is one UPDATE of one row and its COMMIT, so it is one step;
any handler may run between two of them. `verdict` is where the password and the
snapshot the handler read lead it. `now` and `until` are the two instants
`AuthService.login` takes, at the lines where it takes them. `interrupted` and
`outpaced` are history: accounts one of whose handlers died between counting and
locking, or was running while the clock moved.

### `RuleLog` and `RuleDrafts`

`RuleLog` promises an append-only log per rule (`LogsOnlyGrow`). `RuleDrafts` has one action per
stretch between awaits of `create_rule_draft`, `revise_owned_rule_draft`
(`ReviseLock`, `ReviseRead`, `ReviseInsert`, `ReviseCommit`, with a refusal for
each HTTP error) and of the reads, which fetch the rule row first and the versions
later. A content is a model value; `PythonValue` maps those that Python's `==`
cannot tell apart to one representative. `Damage` makes a stored text undecodable
and `LeaveDraft` is the review workflow that the schema provides for and this code
does not have yet; both respect the row lock. `Decodes` stands for the whole of
`_decode_stored_rule_snapshot`. `walk` is the client of a list of versions, which
asks for the next page as long as the last one announced more: pages are read
newest first by offset, so a revision between two of them shifts the rest.

### `ConditionGrammar`

Four functions of `detection/validation.py` look at the text of a condition, each
on its own: are its names declared, is its aggregation pipe in place, does its
boolean expression parse, can its quantifiers be met. The module has one operator
per function, in the code's order of tests; the recursive descent returns the index
after what it consumed. A condition is a sequence of lexemes, and `glued` says
where a numeral touches the identifier after it ("2of"), the one place where a
blank tells two accepted lexings apart. The specification writes conditions lexeme
by lexeme, so its states are all conditions up to a length. The reference is
`Expr`, a grammar by splitting, which knows no index, no order of passes and no
greed, with the resolution of names built in. Both are recursive functions, the
parser's over a production and a place of the condition (`Ends`), the grammar's over
a kind of phrase and an interval of it (`Derivations`).

### `DraftValidation`

The rest of `RulePreflightRequest.validate_structure`, around the conditions of
`ConditionGrammar`, and what becomes of a draft it lets through. A text is a
length, the kind of its first and last character and the kind of all others, where
the kinds are what `str` and `unicodedata` tell apart; the code asks nothing finer
of a text than which kinds are in it, at its edge, and how many. Lengths and limits
are the code's own numbers. `DraftSize` adds up what `json.dumps` writes, once in
UTF-8 bytes as the check at the end counts it, once escaped to ASCII as it is
stored. `Preflight` ends in "raised" where that check would raise. `DecodesAgain`
is `_decode_stored_rule_snapshot` on a text nobody touched. The states are the
conditions of a plain draft, then drafts with a plain condition and other parts
changed.

### `AccessControl`

The sessions of `Sessions`, one step per repository call, since `RefreshTokens` is
shown to implement those; what is new are the reads around them. `job[r]` is where a
handler is suspended and what it holds. An access token is its claims `sub`,
`role`, `exp`; anybody may present a token the server has handed out (`known`,
`holder`). Its role is that of the user row as the handler read it (`Snapshot`, at
`get_by_email` or `get_by_id`; `expire_on_commit=False` lets the object keep it), so an
administrator's change in between is not in the token. Its expiry is counted from where
the code takes the time (`Mint`): before the INSERT of the refresh token in a login, after
the rotation in a refresh. `Authenticate` is
`decode_access_token` and `Admit`, `Me` and `Deny` are what `get_current_user` and
`require_permission` make of the user row read after it. `Administer` changes roles
and deactivates accounts at any instant. `entitled` is history: whether, at some
instant since the request began, its user was active and allowed what it asks for.

### `SessionClient`

The page over `AccessControl`. A fetch is the request handler it runs as
(`awaiting`, `page`, and `answer` once the handler is over); `SubmitFails` lets the
answer get lost, or the connection fail while the handler is still at work. `Submit`
is `handleSubmit` up to the answer of `login`, `LoggedIn` up to that of
`fetchCurrentUser`, `SignedIn` and `Rejected` the rest with the `finally`. `SignOut`
is one step: the button clears the tokens, so `logout` returns without a fetch.
`Reload` forgets everything the page has in memory.

## 3. The runs

| run | instance | shows |
|---|---|---|
| `refresh_tokens_contention` | 1 user, 3 requests, 3 tokens, TTL 1, clock to 1 | `SingleUse`, `BurnsOnlyOnReuse`, `BurnLeavesNoSession`, `ImplementsSessions` |
| `refresh_tokens_liveness` | 2 users, 2 requests, 2 tokens, one user (de)activated at will | `RequestsFinish`, and `ImplementsSessions` across users |
| `refresh_tokens_lazy_role` | violation | `LoginIssuesPair` fails |
| `refresh_tokens_lost_race` | violation | `LostRotationBurns` fails |
| `account_lockout` | 1 account, 3 logins, threshold 2, lock of 1 tick, clock to 3 | `ThresholdLocks`, `GuessesAreBounded`, `LockoutsEaseByRule` |
| `account_lockout_stale` | violation | `ActiveLockStays` fails |
| `rule_drafts` | 2 users, 1 rule, 2 requests, 2 contents, 4 versions, pages of 2 | `RowMatchesVersions`, `ReadsAreConsistent`, `ListsAreComplete`, `MarksAreCurrent`, `RevisionsExtendTheirBase`, `DamageIsNotLaundered`, `ImplementsRuleLog` |
| `rule_drafts_equality` | violation | `OnlyUnchangedIsRefused` fails |
| `draft_validation` | 16 lexemes, conditions of up to 5, nesting limit 1; drafts with 2 unusual parts of 12 | `ParserMatchesGrammar`, `AcceptanceIsExact`, `NeverRaises`, `AcceptedDraftsPersist` |
| `condition_grammar_keywords` | violation | `AcceptedConditionsDenote` fails |
| `session_client` | 2 users, one changed at will, 2 requests, 2 refresh tokens, 1 page, TTL 1, clock to 1 | `ScreenMatchesTokens`, `DisabledWhileWaiting`, `EffectsAreCurrent`, `PairsAreCurrent` |
| `session_client_sign_out` | violation | `SignOutRevokes` fails |

**Bounds.** Each is a constant, or a guard named in a comment.
`Tokens` bounds the tokens ever drawn, `MaxClock` the clock, `Unsteady` the users
an administrator touches, `MaxVersion` the versions of a rule, `CountMax` the
column (small enough to reach it). Three requests on one user's three tokens are
the least with which two rotations and a burn meet, or a login, a rotation and a
burn; locks are per user and nothing a handler does reads another user's rows, so
a second user matters to `ImplementsSessions` only, in the liveness run. One tick
is enough for a token to expire under a request. With three logins and a
threshold of two, the counter can pass the threshold with handlers in flight, and
a lock can be set, expire, and be set again under a slow handler; the bound of
`GuessesAreBounded` is tight there. It exempts the accounts of handlers that died
between counting and locking or were overtaken by the clock, whose failures nothing
bounds. Two requests share one rule, a reader and a revision or two revisions. With
pages of two, a list of three versions announces a second page, and the fourth version
can be committed before that page is fetched, or between its reads of the rule row and
of the versions; the second page then repeats a version of the first. Two contents with
different titles tell a title of one version from that of the next; the third content,
equal to the first for Python, is in the equality run only. Five lexemes are enough for
a parenthesis nested above the limit of one, a connective between an atom and a
quantifier, and every quantifier before and after a pipe; a connective joins
longer operands the same way. A draft's parts are tried at each limit and one
beyond it, with each kind of character at the edge and inside; two unusual parts
are what it takes for a length and a number to meet at the size limit, or for two
keys of a log source to compete. In the session run, one request of the page and
one from elsewhere are under way at a time, an administrator moves between any two
of their steps, and one tick is enough for an access token to expire between the
two fetches of a submission; pages share nothing but the server, so one is enough.

**Fairness.** Only `RequestsFinish` needs it: `SF_vars(Step(r))` for each request.
The event loop resumes every ready coroutine and PostgreSQL queues the waiters of
a row lock, so a handler whose statement is possible again and again gets it; weak
fairness would not do, since a lock may be free and taken in turn. Nothing obliges
clients to send requests, handlers to die, or the clock to tick.

**Deadlock** is checked in every run but those of `DraftValidation`, whose author
stops at the longest condition and the last edit: elsewhere some request can always begin or be
answered.

**Violations.** Each states a sentence of the repository and the code does
otherwise; `findings` in `PROJECT.json` quotes both.

1. *Lazy role.* Login resets the failure counter, then raises on `user.role`.
   The unit tests' repository has the role at hand. In a refresh the same read
   comes after the rotation was committed, so the old token is gone and the new
   one never arrives.
2. *Lost race.* The loser of a rotation raises before it burns the sessions.
   (This run supposes that the role is readable; otherwise no token is delivered.)
3. *Stale success.* A right password read before the lock lifts it.
4. *Equality.* `1` and `True` are "unchanged".
5. *Keyword targets.* `sel1 and all of and` is accepted: the parser takes any
   identifier for a target and the reference check skips keywords. It is the only
   gap: what is accepted and has no such quantifier is exactly what is meaningful
   (`AcceptanceIsExact`).
6. *Sign-out.* The button forgets the refresh token before `logout` looks for it, so
   the server is never told and the session stays open.

A logout that read its token before a rotation or a burn revoked it writes
`revoked_at` once more; `RefreshTokens` has that step (`RevokeUpdate` looks at no
column but the id), and `ImplementsSessions` shows it is harmless to the sessions.

`set_locked_until` writes whatever end its handler computed. A handler that counted its
failure before the clock moved and locks afterwards replaces the later end another wrong
password has set meanwhile; when it was away for as long as a lock lasts, the lock is over
at once. `LockoutsEaseByRule` says that this is the only way the end of a lock moves
forward: among handlers the clock does not overtake, none shortens another's lock.

The mutants of `PROJECT.json`, one per property of a passing run, are slips the
code is written to avoid (no FOR UPDATE, a late clock, an unconditional reset, an
overlooked base version...). TLC finds each of them by its property. The variants
stand in the modules under "Faulty variants" and nothing else refers to them.

## 4. The proofs

`RefreshTokensProofs` proves, from `ConstantsAssumption` alone (the NULLs are no
users, tokens or instants; the bounds are numbers; a read has some outcome):

| theorem | |
|---|---|
| `InvariantHolds` | `Spec => []IInv` |
| `TypeCorrect` | `Spec => []TypeOK` |
| `TokensAreSingleUse` | `Spec => []SingleUse` |
| `BurnsAreJustified` | `Spec => []BurnsOnlyOnReuse` |
| `BurnsAreComplete` | `Spec => BurnLeavesNoSession` |
| `ImplementsSessionsSpec` | `Spec => ImplementsSessions` |

None of the properties is inductive. `SingleUse` needs to know that a transaction
which has written a token's revocation is alone in that and that the token is not
yet exchanged; `BurnLeavesNoSession` that nobody can insert a token of the user
between the snapshot of the UPDATE and its COMMIT. `IInv` says so in parts:

* `LockInv`: while a request holds a user row, no other holds it, nor has an
  uncommitted INSERT of a token of that user.
* `WriterInv`: a token row has at most one uncommitted writer.
* `NameInv`: the name a handler drew is no issued token's and no other handler's
  until its own insert.
* `StagedInv`: what is staged matches the `pc`; a staged rotation's token is live.
* `BurnInv`: every live token of the user is among the `targets` of a burn, then
  among its `staged` rows.
* `UnexpiredInv`: a refresh on its way to the UPDATE presents a token that expires
  after its `now`. Hence a miss means revocation, never expiry.
* `ParentInv`: a token that was exchanged is revoked, a revoked one was issued.

`StepInv` takes the handlers' actions one by one, `ArriveInv` the first steps of
requests, `NextInv` adds the environment. For the refinement, `CreateCommit`,
`RotateCommit`, `RevokeCommit` and `BurnCommit` map to `Open`, `Renew`, `Close`
(or a stutter, when the token was revoked since) and `CloseAll`, one lemma each,
and every other action leaves the mapped state alone (`Quiet`).

`AccountLockoutProofs` proves, from `LockoutAssumption` alone (`NotLocked` is no
instant; the bounds are numbers, the threshold and the duration positive ones; the
requests that run at once are finitely many):

| theorem | |
|---|---|
| `InvariantHolds` | `Spec => []IInv` |
| `TypeCorrect` | `Spec => []TypeOK` |
| `ThresholdAlwaysLocks` | `Spec => []ThresholdLocks` |
| `EasingIsByRule` | `Spec => LockoutsEaseByRule` |
| `ParallelGuessesAreBounded` | `Spec => []GuessesAreBounded` |

Here `IInv` is `TypeOK /\ ThresholdLocks /\ SnapshotInv /\ EndInv`. `ThresholdLocks` is
inductive over the types: whoever takes a lock away clears the count in the same
UPDATE. `EasingIsByRule` needs the other two. `SnapshotInv` says that the `now` of a
handler is no later than the clock: the WHERE clause of `reset_expired_lockout`
compares `locked_until` with that `now`, so a lock it takes for expired has expired.
`EndInv` says that no lock, set or about to be, ends later than a duration from now: an
end that is computed now is never before one that is there, so whoever moves a lock's
end forward computed his before the clock moved. `TypeStep`, `SnapshotStep`, `EndStep`
and `ThresholdStep` take the calls one by one, `ForgivingStep` says which of them take
anything off an account and `ShorteningStep` which let a lock end earlier.

`GuessesAreBounded` counts handlers, and a count of failures is bounded only with
those that are still to come. `BoundInv` adds, for an account neither interrupted nor
outpaced: while it is open, each failure past the threshold has a handler on its way
to lock it (`Locking`); while it is locked, the failures and the handlers that may
still count one (`Counting`) stay below the threshold and all handlers together, since
nobody new gets in; and once the lock has run out, nobody is left from before it
(`GuessOK`). The last needs `PaceInv`: a handler no tick has overtaken has the
present for its `now`.

`RuleDraftsProofs` proves, from `DraftsAssumption` alone:

| theorem | |
|---|---|
| `InvariantHolds` | `Spec => []IInv` |
| `TypeCorrect` | `Spec => []TypeOK` |
| `RowsMatch` | `Spec => []RowMatchesVersions` |
| `ReadsReportOneVersion` | `Spec => []ReadsAreConsistent` |
| `ListsMissNothing` | `Spec => []ListsAreComplete` |
| `MarksAreTimely` | `Spec => []MarksAreCurrent` |
| `NoRevisionIsLost` | `Spec => RevisionsExtendTheirBase` |
| `DamageStaysVisible` | `Spec => DamageIsNotLaundered` |
| `ImplementsRuleLogSpec` | `Spec => ImplementsRuleLog` |

`IInv` is `TypeOK`, the four state properties and

* `CreateInv`: a rule that is not there has no versions, and at most one request has
  inserted it.
* `LockInv`: what a revision read under the row lock (owner, status, version) is still
  so until it commits, and what it checked still holds.
* `ReadInv`: what a read took from the rule row may be outdated, but version and title
  belong together, and the version is still there.
* `WalkInv`: the versions that were there when a paged list began and that it has not
  shown are at its offset or behind it. A revision between two pages pushes them
  further back, never forward; this is why a list may repeat a version and cannot miss
  one.
* `MarkInv`: the versions a list has marked, and the one it is about to mark, are no
  older than the newest of its beginning and no newer than the current one. The rule
  row is read ahead of each page, so the first page lacks its mark only if a revision
  came after that read.

Each conjunct has its step lemma (`RowsMatchStep`, `LockStep`, `WalkStep`, ...).
`VersionsStand` (a version neither changes nor goes) and `HeldRowStands` (nobody
writes a row somebody else holds) carry most of them, and `PagesAreIntervals` says
what the page query returns. For the refinement, `CreateCommit` and `ReviseCommit` map
to the two steps of `RuleLog` and all else stutters.

Proving this corrected the model twice. `LeaveDraft` and `Damage`, which wait for the
row lock, excluded too little: their guard went by another request's lock only, so with
one request there was none. And the CASE of `Walk` had overlapping arms, of which TLA+
may choose any.

`SessionClientProofs` proves, from `AccessAssumption` and `PagesAssumption` (the NULLs
are no users, tokens, claims or pages; bounds are numbers):

| theorem | |
|---|---|
| `InvariantHolds` | `Spec => []IInv` |
| `TypeCorrect` | `Spec => []TypeOK` |
| `ScreenIsTrue` | `Spec => []ScreenMatchesTokens` |
| `OneFetchDisables` | `Spec => []DisabledWhileWaiting` |
| `AccessIsCurrent` | `Spec => EffectsAreCurrent` |
| `NewPairsAreCurrent` | `Spec => PairsAreCurrent` |
| `ImplementsSessionsSpec` | `Spec => SessionsSpec` |

`IInv` is `TypeOK`, `ScreenMatchesTokens` and

* `JobInv`: what a handler holds at each await.
* `EntitledInv`: the history variable misses no instant at which the request was in
  order, and a handler past its one look at the user row had such an instant.
* `FetchInv`: a page has at most one fetch out, exactly while its form is disabled,
  and shows nobody meanwhile. This is where the `disabled` of the button counts.
* `AnswerInv`: a page awaits the answer to what it asked, so that the profile it gets
  belongs to the token it sent.

The handlers are taken by what they have in common: a step moves one of them
(`OthersUntouched`), by `Begin`, `Goto`, `GotoWith` or `Respond`
(`JobMoves`, `EntitledMoves`).
`ImplementsSessionsSpec` closes a chain: `RefreshTokens` implements `Sessions`
statement by statement, and whatever pages and other clients do, `AccessControl` uses
the sessions by no other operations than those.

`DraftValidationProofs` proves, from `DraftAssumption` (the values a draft's parts
may have are texts, numbers and the like) and `GrammarAssumption`:

| theorem | |
|---|---|
| `InvariantHolds` | `DraftSpec => []IInv` |
| `SizeCheckNeverRaises` | `DraftSpec => []NeverRaises` |
| `AcceptedDraftsAreRead` | `DraftSpec => []AcceptedDraftsPersist` |

The run tries drafts with two unusual parts, at the limits; here any part is any text
of any length, any number, any key. `StructuralIsSerializable` finds the check that
keeps each surrogate and each long number out. `EscapedDraft` bounds the text a decoder
reads by six times the bytes the preflight counts, from characters (`EscapedCharacter`,
for the nine kinds) up through texts, scalars, fields and the draft, with `Sums` and
`Multiples`. Six times 65536 is 393216, well below the decoder's 1048576. `LogSourceFits` says
why the text stored as the log source is never the long `definition`.

The conditions of the drafts are those of `ConditionGrammar`, so what is proved of
them holds here, too: `DraftsWriteConditions` (`DraftSpec => Spec`), with
`DraftParserMatchesGrammar` and `DraftAcceptanceIsExact`, which the run checks.

`ConditionGrammarProofs` proves, from `GrammarAssumption` alone, for conditions of any
length, any selectors, any pattern and any limit of nesting:

| theorem | |
|---|---|
| `ParserCorrect` | of any sequence of lexemes: the parser takes it if and only if the grammar derives it |
| `ParserMatchesGrammarHolds` | `Spec => []ParserMatchesGrammar` |
| `AcceptanceCorrect` | of any condition: meaningful if and only if accepted and without a quantifier over a keyword |
| `AcceptanceIsExactHolds` | `Spec => []AcceptanceIsExact` |
| `WrittenHolds` | `Spec => []WrittenInv` |

`GrammarAssumption` holds of every draft that gets as far as the condition. The
regular expression `_CONDITION_TOKENS` yields an identifier, a number or a
parenthesis, so a lexeme is of one kind; what makes a pattern is its `*`; and
`validate_structure` has refused a draft with no selector, with more than 64, or with
a selector called like a keyword. `WrittenInv` says that a condition is made of
lexemes and that blanks are only remembered behind numerals; the two properties follow
from it and the theorems on sequences.

* *Induction.* The library's induction theorems are out of the provers' reach, so what
  is to be shown of a number is put as a set of numbers; the least number outside it
  contradicts itself (`LeastNumber`, `StrongInduction`).
* *The recursive functions are what their equations say.* Of `Ends`, since what a
  production reads has a smaller `Level`: it is further on, or at the same place and
  further down (`ProductionReads`, `EndsAre`). Of `Derivations`, since what a phrase
  is split into is shorter, or as long and of a lower kind (`DerivedReads`,
  `Deriving`).
* *What is derived is read* (`ReadsDerived`). The parser is greedy and the grammar
  splits anywhere. A disjunction ends where a `)`, or nothing, follows, a conjunction
  also before `or`, so that the loop stops nowhere else; `FirstAtom` turns the
  grammar's split at some connective into one at the first.
* *What is derived passes the scans* (`DerivedIsCovered`): parentheses balance and
  stay within the limit, no character is unknown, and a blank follows every number.
* *What is read is derived* (`ReadIsDerived`), as deep as it nests. The parser does not
  count the nesting, the scan of `Depth` does; each production leaves the depth it
  found, and that is what puts the two together.
* *Acceptance.* The parser knows no selectors, the other passes no structure.
  `ResolvableDenotes` takes one name or quantifier at its place in the condition and
  compares what `_references_known_selectors` and `_quantifiers_can_match` ask of it
  with what it denotes; `ResolvedDenotes` carries that through the phrases. A keyword
  is the one target the two disagree on.

`AcceptanceIsExact` used to compare the two for conditions without a keyword target
only, and said nothing of a condition with such a target that means something. The
proof showed that there is none, so the property now says that, too.

`SessionsProofs` and `RuleLogProofs` prove what the abstract specifications promise
of their own past, and the refinements hand it down:

| theorem | | inherited as |
|---|---|---|
| `SessionsProofs!StayClosed` | a session that is closed or exchanged never opens again | `RefreshTokensProofs!RevokedStaysRevoked`, `SessionClientProofs!ClosedStaysClosed` |
| `SessionsProofs!Apart` | two users never share a session, and an exchanged one is over | `SessionClientProofs!ClosedStaysClosed` |
| `RuleLogProofs!OnlyGrow` | a version that is in the log stays as it is, and a rule keeps its owner | `RuleDraftsProofs!HistoryStands` |

So a refresh token that is revoked, by whatever mixture of rotations, logouts, burns
and dying handlers, is revoked for good; and no sequence of revisions, lost races and
rollbacks rewrites a version. None of this is a property of a run: it follows from the
refinements, which are.

Only model-checked: `RequestsFinish`, as liveness under fairness is beyond TLAPS. Every
invariant and every action property of a passing run is a theorem.

## 5. Not modelled

* `consume_if_active`: nothing in the backend calls it.
* The deletion of users: no code deletes one, so the `locked_user is None` branch
  of `rotate_if_active` is unreachable.
* Unknown e-mails, dummy hashes and the metadata sanitizers: no state depends on
  them. Password and JWT cryptography.
* The pages of the list of rules, which are ordered by a title a revision may
  change, and whose docstring promises something of an unchanged dataset only; the
  text of a diff.
* `require_permission`, `me` and the issue of tokens read the lazy role, which
  raises on the running backend (violation 1). In `AccessControl` such a read
  either yields the role or ends the handler as `Abort` does, so its properties
  hold with either repository; `RuleDrafts` models the service behind
  `require_permission`, as the tests reach it, with the dependency overridden.
* `apiClient.ts` has no refresh, so no page sends one; other clients do.
* That a submission ends at last: a `fetch` has no timeout, so the code does not
  promise it. `DisabledWhileWaiting` says what it does promise.
* Signatures and the fields of a JWT that no decision reads.
* Middleware, logging, settings, health, worker, infrastructure: no state beyond a
  request.

## 6. Plan

Done, in this order: `Sessions` and `RefreshTokens`; `RefreshTokensProofs`;
`AccountLockout`; `RuleLog` and `RuleDrafts`; `ConditionGrammar`; `AccessControl`
and `SessionClient`; the paged list of `RuleDrafts`; `DraftValidation`;
`AccountLockoutProofs`; `RuleDraftsProofs`; `SessionClientProofs`, with the refinement
of `Sessions`; `GuessesAreBounded`; `DraftValidationProofs`, for which the grammar
became a recursive function; `ConditionGrammarProofs`; `SessionsProofs` and
`RuleLogProofs`, inherited through the refinements.

What is left waits for the code: the review workflow (`LeaveDraft` stands for all of
it), a refresh sent by the page, a caller of `consume_if_active`. `RequestsFinish`
stays with TLC.
