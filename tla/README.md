# Verification of the NestJS monorepo

TLA+ models of the applications of this repository, TLC configurations that check them on small
instances, and theorems about them that TLAPS proves for instances of any size. Paths of source files
are relative to `src/src/`.

## The system

Three NestJS applications over Postgres (TypeORM), MongoDB (Mongoose) and Redis. The use cases in
`core/` hold the logic; each is one asynchronous method whose input is validated by a Zod schema
(`utils/decorators/validate-schema.decorator.ts`) and which awaits repositories, the Redis cache, or
HTTP calls to another application. Node runs one handler at a time, but every `await` gives control
away: **between any two queries of a use case, any other request may run**, and nothing in the code
opens a transaction around a use case or locks a row.

| Component | State it keeps | Operations | What makes it correct | Model |
|---|---|---|---|---|
| Users (`core/user`, `apps/user`) | tables `users`, `users_password` | create, update, change-password, delete, get, list, search | one live user per e-mail; user and password row live and die together; a deleted user stays so; a password is replaced by who knows it | `Users` |
| Sessions (`user-login`, `user-refresh-token`, `user-logout`, `observables/middlewares`, `libs/token`, Redis) | signed tokens; the blacklist of logged-out tokens | login, refresh, logout, the middleware before every controller | a logged-out token is refused until it expires; a removed user is out after one token lifetime | `Session` |
| Roles and permissions (`core/role`, `core/permission`) | tables `roles`, `permissions`, `permissions_roles` | create, update, delete of both; grant and revoke by name | a row that is granted is live; a grant is lost only to a revocation; only an update renames | `Rbac` |
| Cats (`core/cat`, `apps/cat`) | collection `cats` | create, update, delete, get, list | a deleted cat never changes; an update changes the fields it names | `Cats` |
| Repository adapters (`infra/repository`) | the rows of a table or collection | the methods of `IRepository` | the same promise over Postgres and MongoDB: a read shows what is live, a write reaches what its filter takes | `SoftDeleteStore`, implemented by `MongoRepository`, `TypeOrmRepository`; `FindByCommands` |
| Password reset (`core/reset-password`, `apps/auth`) | table `reset_password` | send-email, confirm | one reset within the window; a mailed token is alive; a confirmation undoes no change of the password that it could have read; a request waits for ever only for a call | `ResetPassword` |
| HTTP routes (controllers, modules) | none | dispatch in order of declaration; the middleware before it; calls between applications | a write needs a token; a login reaches the search; every documented route reaches its handler | `Routes` |
| HTTP client and timeouts (`infra/http`, `utils/axios.ts`, request-timeout interceptor) | calls in flight | retry on 408, 422, 503 and lost connections; 408 after a minute | an effect is repeated, or late, only where the caller had given up; the client is answered | `HttpCalls` |
| Errors and tracing (`observables/filters`, `interceptors`, `infra/logger`) | the logger's bindings | map an error to a status and a message; set a trace id | the status of an error survives every application it crosses; an error carries the trace of its request | `Errors`, `Tracing` |
| Lists (`utils/`: sort, search, pagination, filter decorators, collections) | none | parse, check, convert; fold | a search finds what was asked for; a walk over pages shows each row once; folds equal their definitions | `ListQuery`, `Paging`, `Collections` |
| Cache adapters (`infra/cache`) | keys with a time to live | set, mSet, get, has, del, lists, hashes, pExpire | Redis keeps a string until its end; the two adapters differ only by the times they read differently | `Cache`; `set`/`get` of Redis in `Session` |
| Migrations (`infra/database/postgres/migrations`) | schema, seed rows, the records of what was run | run, undo; the synchronisation of a local start | what is recorded is done; one administrator; a run fails only for a reason | `Migrations` |
| Configuration and lifecycle (`infra/secrets`, `main.ts`, database modules) | connections | start, listen, lose a store, exit | a process serves only what it has connected to, or ends | `Lifecycle` |
| Events and e-mail (`libs/event`, `infra/email`) | none | emit, handle | a mail follows its request | emission in `ResetPassword` |
| Authorization guard | none | decides by role | applied to no controller | not modelled |
| Health, docs, i18n, spreadsheets | none | | | not modelled |

Interactions. `apps/auth` has no users of its own: login and refresh ask `apps/user` over HTTP
(`/users/search`); password reset asks as well, by routes that are not there. All applications put the same middleware before their
controllers and share the blacklist in Redis. Users link to roles, roles to permissions; the roles of a
user are part of its token's validity (`roleNotFound` at login and refresh).

What is hard here: check-then-act over two queries (e-mails, names, associations); entities read early
and written whole late, `deletedAt: null` included; soft deletes that some finds see and others do not;
two units of time for one lifetime; a cache that forgets in a crash; retries and timeouts around handlers
that go on; migrations without transactions. `PROJECT.json` lists each as a hazard at its line, with the
property that covers it or the reason why none does.

## How the models read the code

* **A step is what happens between two awaits.** An action is one query with the code up to the next
  await; a request in flight (`req[s]`) is the program counter of a handler and the locals it still needs.
* **A request that is answered is `idle`.** Its client may have been told 408 long before (the timeout
  interceptor does not stop a handler); no property depends on who listens.
* **TypeORM's `entity.save()`** (`infra/repository/postgres/repository.ts:22-26`) is not one step: it
  SELECTs the rows of the entity and its cascaded relations, soft-deleted ones included, one SELECT per
  table, then writes in a transaction the columns in which the entity differs from what it selected
  (`Diff`). `softRemove` and `update` are single writes. TypeORM, Mongoose, Redis and jsonwebtoken are
  not under `src/`; they are modelled from how `src/` uses them, and marked external in the map. Where
  the behaviour of the library is not settled by that use the model takes every possibility: whether the
  SELECT of a role shows ids of soft-deleted permissions (`SaveLoadRole`), and whether an `update()` that
  carries a many-to-many property is accepted (`Abort` may always answer 500 instead).
* **History variables** (`overlapped`, `raced`, `contended`, `late`, `removedAt`) are read by no action.
  They say which rows concurrent requests disputed, so that a property can say exactly when the code's
  guarantee ends instead of claiming it only for a client that is alone.
* Names, dates and formats that no property tells apart are left out.

## Modules

**`Users`** — `users[i]` and `passwords[i]` are the rows of user `i` and of its password; `Slots` are
requests in flight. `CreateCheck`/`CreateSave`, `UpdateRead`/`UpdateCheck`/`UpdateLoad`/`UpdateCommit`/
`UpdateReread`, `ChangePasswordRead`/`…LoadUser`/`…LoadPassword`/`…Commit` and `DeleteRead`/
`DeleteRemove` are the queries of the four use cases, in order. The lookup of roles is an answer that may
always be `roleNotFound` (`UpdateCheck` may answer). Password change is modelled as the use case: its route
`Put 'change-password:id'` is declared after `Put ':id'` (`apps/user/src/modules/users/controller.ts:51,107`),
which matches first. The seeded user of the migrations is a user created first.

**`UserDirectory`, `UsersDirectory`** — what a client that is alone may rely on: accounts with atomic
`Register`, `ChangeEmail`, `ChangePassword` and `Remove`. `UsersDirectory` maps the rows of `Users` to it
(an account is the live user with its hash) and states `ImplementsDirectory`.

**`Session`** — a token is its kind, its user and the second it was signed in (two logins in one second
give one token, as the payloads are equal). `blacklist[t]` is the time until which Redis holds key `t`;
`snapshot` is what Redis has on disk. `Arrive`/`Get`/`Verify` are the middleware, with its reply of Redis
and its verification apart; `Serve` and `Logout` are the handlers behind it; `Login`/`Refresh`/`Search`/
`Sign` issue tokens; `Remove` and `Admit` are what `apps/user` may do to a user meanwhile; `Save` and
`Crash` are Redis (its volume and its snapshots are in `docker-compose-infra.yml`). `WithUnit` says whether
`TOKEN_EXPIRATION` has a unit. Assumed: one clock on all machines; jsonwebtoken counts whole seconds and
takes a string of digits as milliseconds; Redis takes only digits for `PX`; the first `next(error)` of the
middleware answers the request, and its second `next()` reaches no handler.

**`Rbac`** — `granted` is the table `permissions_roles`. `GrantRead`, `GrantFind`, `SaveLoadRole`,
`SaveLoadPermissions`, `SaveCommit` are `role-add-permission.ts`; `RevokeRead`, `RevokeFind` and the same
save are `role-delete-permission.ts`. A request names a permission by a `Spelling`: only the canonical one
(lower case, no spaces) is found, but an entity made from another has the canonical name; a save that
would give one name to two rows, or insert a pair that is there, fails (`NamesAreUnique`, which counts
soft-deleted rows as the constraint does). `PermissionWrite` is the INSERT or UPDATE of a permission.
Grants and revocations are modelled as use cases; like the password change their routes are shadowed
(`apps/user/src/modules/roles/controller.ts:49,101,112`).

**`Cats`** — a document is its fields and its soft delete. `FindById` sees soft-deleted documents
(`MongoRepository.findById` alone lacks the filter decorator), `UpdateOne` writes only live ones.

**`SoftDeleteStore`, `MongoRepository`, `TypeOrmRepository`** — the store is what `IRepository` promises of rows
that can be soft-deleted, in four kinds of step (`Write`, `Discard`, `Insert`, `Put`), with two parameters in which
its implementations differ: the states of the rows a filtered write reaches, and of those a read shows. Both
adapters have an action for every method; `createOrUpdate`, TypeORM's `save` and `findOneAndUpdate` are several
queries and interleave with everything else. `Convert` is the decorator that hides deleted documents, which does so
only if there is a filter; `Visible` is what TypeORM adds to a find. `outcome`, `by` and `raced` are read by no action.

**`FindByCommands`** — a list of commands (equal, contains, and their negations) becomes an object with a condition per
property, a later command replacing an earlier one (`LastOn`). `Refused` is the validation that only MongoDB has;
`Prefix`, `Part` and `Folded` say which strings a regular expression, `ILIKE '%…%'` and `ILIKE` match.

**`ListQuery`** — from `sort`, `search`, `page` and `limit` of a URL to the order and the rows: the two parsers, the schema
of pagination, the allow-lists, and the filter decorators of both databases. What a value is like is a relation of the
instance, one for each database: `Regex` is the unanchored case-insensitive `$regex` of MongoDB, `Ilike` the
`unaccent … ilike` of the whole text of TypeORM. `Converted` is `convertFilterValue` (a blank number is 0, a word is the
`NaN` that the database refuses, `BadNumber`); `TypeOrmValues` is the parameter `:value`, which all single filters of type
like share, so that the last one bound is compared with each; `TypeOrmStatus` has the names of parameters that a value of an
array makes and that a blank or accented value does not; `MongoWhere` has the one `$or` of all arrays. Entries are added one
by one. That a value of an array is the very word `value`, and so binds the shared parameter, is left out.

**`Paging`** — a client that turns pages while rows come and go; rows and count are two queries, parallel in Mongoose,
one after the other in TypeORM. `created`, `removed` and `start` are history.

**`Collections`** — `groupBy`, `maxBy`, `minBy`, `sumBy`, `chunk`, `sortNullToLastPosition` with the conversions of
JavaScript: `Sum` has no initial value, so the first item is what the rest is added to.

**`ResetPassword`** — `SendGet`/`SendFind`/`SendCreate` and `ConfirmGet`/`ConfirmFind`/`ConfirmPost`/`ConfirmRemove` are the
awaits of the two use cases; each may fail, and the user application answers what it likes, or never. `ConfirmPost` may take
effect and lose its answer, and be repeated by axios-retry. `ConfirmRemove` only ever fails: `remove({ userId })` names no
property of `ResetPasswordSchema`, whose relation is `user`, so TypeORM throws, the confirmation is answered 500 after the
password was posted and the mail emitted, and the resets stay. `overtaken` is history: the confirmations whose user got
another password after they read it. `Window` is the half hour in
`findByIdUserId`, `TokenLife` is `TOKEN_EXPIRATION`. `emitted` is the mail of the event the last step emitted: its
listener is in `EmailModule`, which the application does not import. Assumed: `Window <= TokenLife` (with a shorter
lifetime `MailedTokensAreAlive` is false at once), and inserting takes no time, so that token and row have one date: if it
takes longer than the difference of the two constants, a token may be mailed that has just expired. The calls are modelled as
answered by a user application that has their routes; the ones the code names exist in none (see below).

**`Routes`** — the tables of the controllers in order, with prefix and version; `Matching` and `Dispatch` are Express;
`Taken` is the first route that fits;
`NeedsToken` is the middleware with the exclusion of `/users/search`. `stack` is the request of a client and the call its
use case is making: login, refresh and reset call `apps/user` by hand-written paths (`Calls`).

**`Errors`** — an error is raised, passes `Intercept`, `Catch` and, as an answer, `AxiosError` of the application that called,
up to `MaxHops` times. A message is a text and how many lists it is in.

**`HttpCalls`** — one handler that calls another application: the attempts of axios-retry with growing pauses, the minute
of both timeout interceptors, connections that are reset (the caller hears it) or lost (nobody does). `Work` is the effect of
the handler called.

**`Tracing`** — headers, `request.id` and the one set of bindings of the logger, which every request writes; who logs with
whose. `Unauthorised`, `Ask`, `Admit` and `Invalid` are the middleware: no token, the question to Redis, a good or a logged-out
token, and one that `verify` refuses, which is logged before it is answered.

**`Migrations`** — each statement of the twelve migrations is a step; `Cut` stops a run between any two; `recorded` is
TypeORM's table, written after the last statement. `Undo` undoes the last one recorded. `Synchronise` is an application that
starts in the local environment (`synchronize: IS_LOCAL`, `postgres/module.ts:23`; `.env` says local) at any time, between two
statements too: what the schemas declare and the database lacks is made in one transaction and not recorded, under the names
the migrations use, as TypeORM derives both from the columns. `made` is history: what came about that way. `ChangePassword` and
`ChangeEmail` are the application and the seeded user; `down` of insertUser looks for its hash and its e-mail (`SeedAdmins`).
Left out: columns, rows that only the applications write (so that nothing refers to an administrator that is deleted), an
e-mail that is changed back. The inserts a migration sends with `Promise.all` go over one connection, in turn; of those behind a
failed one, which only a cut can bring about, the model makes none.

**`Lifecycle`** — three stores that come and go, and processes that read their configuration, connect, listen, lose a
connection, and exit or are left mute.

**`Cache`** — Redis and node-cache under the same calls, with a clock in fractions of a second. `Configs` are the forms of the
third argument of `set`: none, the `{ PX }` of the logout, or the number of `MemoryCacheTTL`. To node-cache an object is no
number, and its entry never goes (`MemoryDue`); to Redis a number has no options (`RedisDue`); `{ PX: 0 }` is an error of
Redis alone (`SetRefused`). `MSet` is of the memory alone, `SetMulti` and `HSet` of Redis alone. `written` (what Redis took
last, how, when, and until when) and `aside` (the keys that the memory was given something Redis was not) are history.

`MC*` modules instantiate these for TLC. `MCRepositories`, `MCLists`, `MCRequests` and `MCOperations` hold several
modules that share no state: a variable `part` says which of them a behaviour is of, and the others rest in their initial
state. Where a property of such a module joins several of the components' own (`MongoImplementsStore`, `FoldsAreExact` …),
each conjunct is defined and commented in the component.

## Runs

| Run | Instance | What it shows |
|---|---|---|
| `users_concurrent` | 2 users, e-mails, passwords, 2 requests | `EmailsUniqueUnlessOverlapped`, `PasswordFollowsUserUnlessRaced`, `QuietDeleteIsFinal`, `OldPasswordWasVerified`, `EmailChangedByUpdate` |
| `users_serial` | 3 users and e-mails, 1 request | `ImplementsDirectory` |
| `session_logout` | 1 user, 2 requests, two lifetimes of 1 s in half seconds, 1 logged-out token | `LoggedOutTokenIsRefused`, `RemovedUserIsLetInForOneLifetime` |
| `rbac_concurrent` | 1 role and 2 permissions, or 2 roles and 1 permission; 2 names, 2 requests | `GrantsJoinLiveRowsUnlessContended`, `OnlyRevokedGrantsAreLost`, `OnlyUpdatesRename` |
| `repositories` | 2 cats of 2 fields, 2 requests; both adapters over 2 rows of 1 column, one operation of several queries among the others | `DeletedCatsAreFrozen`, `OnlyNamedFieldsChange`; `MongoImplementsStore`, `TypeOrmImplementsStore`, `QuietWritesKeepTheRest` |
| `lists` | 3 entries of a query; 3 commands on 2 properties; 4 rows on pages of 2; lists of 4 of 6 values | `QueriesAreHonoured`, `MongoHidesNothing`, `CommandsAreMet`, `WalksShowRowsOnce`, `FoldsAreExact` |
| `requests` | every method on every path the controllers name; 3 applications for an error; 3 retries; 2 traced requests | `WritesNeedToken`, `LookupsGetThrough`, `ErrorsSurvive`, `RepeatedAndLateEffectsAreGivenUp`, `CallsEnd`, `TracesAreTheirOwn` |
| `reset_password` | 1 user, 2 passwords, 2 requests, a window of 2, tokens of 3, time to 3 | `OneResetAtATime`, `MailedTokensAreAlive`, `OnlyOvertakenReadsUndoChanges`, `OnlyCallsLeaveRequestsOpen` |
| `operations` | 2 applications, 3 stores; 2 runs and 5 undos, any synchronisations; 1 key, 2 values, 2.5 s | `ProcessesListenWiredOrEnd`; `RecordedMeansDone`, `OneAdminUnlessCut`, `RunsFailOnlyAfterCuts`; `CachesAgree` |
| `session_refresh` | 1 user | violated: a refresh token is refused (`RefreshTokensRefresh`) |
| `routes_documented` | as `requests` | violated: the documented paths of three routes reach another handler, or none (`DocumentedRoutesServe`) |
| `reset_password_change` | 1 user, 2 passwords, 1 request | violated: a confirmation that succeeds leaves the password (`SuccessMeansChanged`) |

Every passing run also checks the types of its modules, which say more than types where they can (Redis lists only
tokens that were issued; a cat that is there has every field; what findByCommands answers is live).

Bounds. `Ids`, `Perms` and `Roles` bound creations, `Slots` concurrency, `MaxNow`, `MaxClock` and `MaxTime` time, `MaxKeys`
the logged-out tokens, `MaxEntries`, `MaxCommands` and `MaxLength` the lists that are composed, `MaxHops` the applications an
error crosses, `MaxRuns` and `MaxUndos` the migrations. Two requests show every race between two handlers, at every pair of
queries; two rows of a table are what uniqueness and cross-talk need, and one column beside `deletedAt` tells what an adapter
writes from what it keeps; half a second is the finest step that tells seconds from milliseconds, and two lifetimes let a token
expire and its blacklist entry after it. Three entries or commands are the fewest with a repeated field and another one; four
rows on pages of two let a row cross a border either way. Three applications and three retries are all there are; `Delay` 1
and `Timeout` 7 stand for 2 s and 60 s: the three pauses together end within the timeout, as 12 s do, which is what
`HttpCallsAssumption` asks. Five undos lead from the last join table past `createUserTable`,
which drops the wrong table; from the migrations that insert rows only three undos succeed before one always fails. Synchronisations need no
bound: they end when nothing is missing. A like needs a value that is part of a text, the whole text, the text with an accent and
no regular expression at all: `per`, `persian`, `accented` and `star` of `MCLists`. `OneOfAKindStaysAlone` of `MCRbac` leaves out the
states with two roles and two permissions at once, ten times the states: a save reads and writes one role with its permissions,
so a second role meets it through a permission they share. What the instances of these modules leave
open (rows, requests, times, retries, applications, lengths of lists), the theorems close for every safety property.

Deadlock is checked except in `lists` and `operations`, where a composed list is full, a walk over, and a database has had
its bound of runs and undos; everywhere else some request can always be made.

Fairness and liveness. `ResetPassword` is weakly fair to the queries of each request in flight (`Fairness`), which may
settle as a failure: the driver rejects what a lost connection took with it. It is not fair to the calls to the user
application, for axios has no timeout. Under it `OnlyCallsLeaveRequestsOpen`: a request that is never answered waits for
a call and for nothing else. `HttpCalls` is weakly fair to time, to the timers of both applications, to the retries of
axios and to the handler called, and not to breaks of a connection; axios has no timeout of its own, so a lost
connection leaves the handler waiting and only the client is answered: `CallsEnd` says so. `Lifecycle` is weakly fair to
the steps of a start, where connecting may fail, and to the notice of a lost store, but not to stores coming back:
`ProcessesListenWiredOrEnd`. None is fair to clients: nobody must ever ask.

Mutants. Each property of a passing run is broken by a mutant: an operator in the module, marked
`Mutant:`, that changes one definition the way a bug in that code would (a dropped check, a missing
cascade, seconds for milliseconds, an unawaited answer).

## Theorems

`UsersProofs` — the invariant of the e-mails is not inductive: two users have one e-mail only because of what
requests in flight hold. `UsersInv` adds that writers in flight together are noted (`OverlapIsNoted`), that
what a writer past its check holds is the e-mail of no live user whose writers it has not met
(`WritersHoldFreeEmails`), that a writer which met no delete has a live user (`WritersHaveLiveUsers`), and
that a lone password change holds its user as it is (`LoneChangeIsUpToDate`). From `UsersInv`:
`TypeCorrect`, `EmailUniqueness`, `PasswordFollowsUser`, and the action properties `DeletionIsFinal`,
`VerifiedPasswordChange` and `EmailChange`. `SerialEmailUniqueness` draws the corollary: with one request at a
time e-mails are unique without exception.

There too `SerialUsersImplementDirectory`: under `OneSlot` (one request at a time), every step of
`Users` is a step of `UserDirectory` or a stutter under the mapping `Accounts`.

`SessionProofs` — `SessionInv`: an entry of Redis outlives its token (`EntriesOutliveTokens`), because the token
loses less than a second to rounding and the logout comes after the signing; so a request that came with a listed
token and got past Redis has an expired one (`LateRequestsAreExpired`). `RemovedUsersAreNotSigned` says that no
token of a removed user is younger than the removal. From it `SessionTypes`, `LogoutIsFinal` and
`RemovalIsEffective`, from `LifetimeIsNat` and `TicksArePositive` alone.

`RbacProofs` — `RbacInv`: two requests of which one edits what the other uses are noted (`ContentionIsNoted`), so what a
request in flight knows of uncontended rows is still so: the entity of a save has the names of the rows
(`ItemsAreUpToDate`), its role is live and the rows it will write over are as it saw them (`SaverIsCurrent`), a permission
that the entity lacks is one the request names (`OnlyTheNamedAreDropped`), and what is being deleted has nothing
(`WriterIsCurrent`). From it `TypeCorrect`, `GrantsJoinLiveRows`, `RevocationsOnly` and `RenamesOnly`.

`ResetPasswordProofs` — `ResetInv`: a token and its row have one date, so a token outlives the window of its row
(`TokensOutlastTheWindow`); who makes a reset found none, and nobody else could since (`CreatorsFoundNone`); a
confirmation that was not overtaken knows the password of its user (`ReadsAreCurrent`). From it `OneReset`, `MailsAreOfUse` and
`UndoneByOvertakenReads`, an action property: a post that is not overtaken writes the password that is there. For every window that is
longer than nothing (it is half an hour in the code) and no longer than a token lives.

`RepositoriesProofs` — the refinement of `SoftDeleteStore`, one step of the store for each action of an adapter:
`MongoIsAStore` needs types only, as every method is one query or two of which the second says what it reaches.
`TypeOrmIsAStore` and `QuietWrites` need `RepositoryInv`: until another request writes, the row a `findOneAndUpdate` updated
still matches its filter unless the update took it out, and the patch that a save computed from an old row amounts to what it
was given. Assumed: no column is called like the id (`ColumnsAreColumns`); none of the entities has such a column.
There too are the cats, who live on one of the adapters: `CatsInv` says that a writer that is alone with its cat holds the fields
it does not name as they are, and from it follow `TypeCorrect`, `DeletionIsFinal` and `FieldChange`.

`RequestsProofs` — four arguments, one for each part. *Routes*: a request past the middleware has a token unless it needs none
(`FrameInv`), every route of the three tables that writes is of a guarded controller and no `GET`, so nothing excludes it, and
no route of the user application calls another: `WritesOfRequests`, `CallsAreOneDeep`. In each table, of two routes that fit one
request the later has a parameter (`StaticFirst`), which is shown controller by controller and survives putting controllers with
different first words one after the other (`TablesJoin`); who handles a request is who was taken, and the call of a login is that
for the search (`LookupInv`): `LookupsOfRequests`, half of it an action property. *Errors*: what is thrown amounts to the
status that was raised and has a message to show for it (`Amounts`): `ErrorsOfRequests`. *HttpCalls*: a job nobody listens to
was given up, a job that had an effect is that of an attempt before, and the job that is listened to began after the request,
so its time is not up before that of the request (`AnswersAreInTime`): `CallsOfRequests`, for every number of retries, pause and
timeout that is not zero; without a retry both timeouts may strike in the same tick, in either order. *Tracing*: the bindings are
those of every request in flight that no other came in between (`BindingsAreNoted`): `TracesOfRequests`.
Assumed: requests come to one of the three applications and a parameter fits more than one segment (`RoutesAssumption`; if the
only id were `me`, nobody could say which of two routes is the static one), the statuses have the five the code names, and
`None` is none of the values it stands in for.

`OperationsProofs` — three arguments for parts that share nothing. *Processes*: a process has no connection before it
wires its modules, and each one it has then is as it was made (`LifecycleInv`): `ProcessesOfOperations`. *Caches*, key
by key: a string that Redis took stands there with the end it was given and none stands past its end (`RedisStands`),
and in memory it stands as long as both have time left for it (`MemoryStands`, `Outlasts`; `CacheInv`):
`CachesOfOperations`, for every key, value, standard time and length of a second that is not zero, and every form of a
time to live up to 2. *Migrations* (`SchemaInv`): every statement of a run has a place, one object it adds and refuses
at most to find (`EffectOf`), no object has two (`PlacesAreUnique`), and what a statement needs is added by an earlier
one (`NeedsAreEarlier`). So a run does its statements in order and what it did stays done (`DoneSoFar`); what a
statement refuses is there only when it was done, its migration cut or an application synchronised it
(`UndoneIsAbsent`): `MigrationsOfOperations` and `RunsOfOperations`, the latter an action property. A synchronisation
makes no rows (`Synchronises`). There are rows only past the foreign keys, whose undo always fails, so the undos that
would drop tables are never reached with rows in them (`RowsFollowKeys`). Without a cut an administrator with the e-mail
of the seed is there from the second statement of insertUser until the second of its undo (`AdminsComeAndGo`):
`AdminOfOperations`. For any number of runs, undos, cuts and synchronisations.

`ListsProofs` — the four parts of `MCLists`. The library's induction theorems cannot be used here, so the induction it needs is
derived (`Induction`) from the least element of a set of naturals (`LeastNatural`), which is a fact about finite sets; with it a
fold and a recursive function exist and satisfy their equations (`FoldExists`, `RecursionExists`), and what `reduce` computes can
be proved for lists of any length. *Collections* (`FoldsInv`: the result is what some fold makes of the list): `FoldsOfLists`.
That sorting puts nulls last is read off the comparison, that chunks join to the list off the division. *Queries* (`QueryInv`: the
answer is that of the entries): the allow-list is walked in its order, each field once; where no two single values share the
parameter each field is compared with its own (`OwnValues`), so TypeORM finds what was asked for; and the one `$or` MongoDB makes
of all arrays asks less than the arrays do: `QueriesOfLists`, `MongoOfLists`, for any two relations of values and texts in which a
blank is part of every text. *Commands* (`CommandsInv`): as many commands as
properties put one on each, by counting, so that none replaces another and none is refused: `CommandsOfLists`, for any properties
and lists on the three texts of `MCLists`, which stand for equal, equal but for case, and contained. *Walks*: nothing in the state
says where a row is in the list, so `WalkInv` counts the live rows before it (`Ahead`). Deletes only bring a row forward and rows
are created in front of all others; so without deletes a row that was there is shown by the time its page is past (`Skips`),
without creations a row that was shown stays before the page to come (`Repeats`), and a page never ends past the live rows
(`Totals`). `Walking` says what is known of dates, stores and a page that was not asked for yet: `WalksOfLists`, for any finite set
of rows and any page size but zero. Assumed, and named in the modules: rows are finitely many and none is called 0, the
allow-list is a sequence of fields, `null`, a text, an absent key and `NaN` are no numbers and differ.

Each inductive invariant was checked by TLC on the run of its module before it was proved.

Every invariant and every action property of the passing runs is proved. Only model-checked are the three liveness properties,
`CallsEnd`, `OnlyCallsLeaveRequestsOpen` and `ProcessesListenWiredOrEnd`: liveness under fairness and `ENABLED` are out of the prover's
reach. So are the three runs that end in a counterexample, which need no proof. Numbers are mathematical in the proofs as in the
models: what a double rounds is not seen.

## What the checks found

Refuted by a run, against a line of the documentation or a test:

1. The refresh token that login returns is refused by refresh, which takes the access token instead (`session_refresh`).
2. The documented paths of the password change, of granting and of revoking reach no handler of theirs: the parameter is
   glued to the word, and `Put ':id'` comes first (`routes_documented`).
3. A confirmed reset posts the password the user already has (`reset_password_change`).

In the models, where a passing property states them as its exception:

4. Two overlapping creates (or a create and an update) give two users one e-mail; the table does not forbid it
   (`EmailsUniqueUnlessOverlapped`). Two reset requests that overlap insert two resets (`OneResetAtATime`).
5. An update that overlaps a delete brings the user back, without its password: it can then neither log in, change its
   password nor be deleted (`PasswordFollowsUserUnlessRaced`).
6. A role that is granted a permission while it is deleted keeps it (`GrantsJoinLiveRowsUnlessContended`).
7. A migration cut between its statements cannot be repeated, and one cut after the administrator inserts another
   (`RunsFailOnlyAfterCuts`, `OneAdminUnlessCut`); a run also fails, with nothing cut or undone, once an application
   that was started locally has synchronised the indexes or keys it is to make (`RunsFailOnlyAfterCuts`); the undo of
   the users' table drops the passwords' (`RecordedMeansDone`).
8. A post that timed out or was reset is retried although its first attempt took effect
   (`RepeatedAndLateEffectsAreGivenUp`).
9. A request logs under the trace of another that came in between (`TracesAreTheirOwn`).
10. A sum of one item is the item, and one that starts with null, zero or an absent key is `NaN` (`FoldsAreExact` holds of
    what is comparable and starts with another number).

11. A confirmation posts the user as it was read two awaits before, and takes back a change of the password made in between
    (`OnlyOvertakenReadsUndoChanges`).
12. Two single values of type like in one search of Postgres share the parameter `:value`, and both columns are compared with the
    last one (`QueriesAreHonoured` excepts it). The same search finds parts of texts in MongoDB and whole texts in Postgres, and
    arrays of two fields become alternatives of each other in MongoDB (`MongoHidesNothing`).
13. A key that was set with `{ PX }`, or given a `pExpire`, is gone from Redis and still answered by the memory; one that was set
    without is gone from the memory after its standard time and answered by Redis for ever (`CachesAgree`).

In the models, where no property speaks of them: a confirmation whose post succeeded is answered 500, as its `remove({
userId })` throws, and its resets stay (`ConfirmRemove`); a request of a reset may wait for ever for a call; in a search
of Postgres a list of values of type like with a blank or an accent in it is an SQL error, and answered 500
(`TypeOrmStatus`); a blank number in a list is 0 (`Converted`); with `TOKEN_EXPIRATION=1h` of `.env` a logout fails at
Redis and lists nothing (`WithUnit` of `Session`); refresh does not consult the blacklist; a crash of Redis forgets the
logouts since its last snapshot; a deleted cat is still answered by get, and update and delete of it answer 200 without
effect (`FindById` of `Cats`); a permission that is revoked under another spelling is silently kept; the name of a
deleted permission cannot be used again; a word where a filter wants a number reaches the database as `NaN` and is
answered 500 (`BadNumber`); the calls a reset starts with, `/find-by` and `/api/vi/users/find-by`, are routes of no
application (`Calls` of `Routes`), and its mails have no listener; an error that crosses applications gets its messages
nested once for each (`Catch` of `Errors`); a request that no route takes is answered without a trace; `pExpire` of the
memory adapter takes milliseconds for seconds (`MemoryPExpire`).

## Not modelled

- The roles of users: a create or update may always be answered `roleNotFound`; deleting a role a user has is not seen.
- Get-by-id of users, roles and permissions, which writes nothing and is one query.
- The Zod schemas of entities: the models start from inputs that pass them. Those of lists are `ListQuery`.
- What pino makes of a line, transports and layouts; templates of mails; health routes; Swagger; translations; workbooks;
  dates and texts: formatting and pure I/O without state.
- The listener of mails (`infra/email/service.ts`): no module of the application that emits them imports it.
- The authorization guard: exported and applied to no controller.
- The indexes of the MongoDB schemas; MongoDB has no migrations.

## Plan

All parts of the plan are modelled and their safety proved. What would come next: the names of roles a user is created with (now
any answer), the compensation a failed mail would need once its listener is imported, and the values of
`TOKEN_EXPIRATION` with a unit as Redis reads them (now `WithUnit` of `Session` says only that they fail).
