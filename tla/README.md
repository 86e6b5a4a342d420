# TLA+ models of clean-nest-drizzle-pg

This directory holds a formal model of the service in `src/`: a NestJS REST API over PostgreSQL
(Drizzle) and Redis (a cache and a BullMQ queue), run by PM2 with one process per core in production
(`src/ecosystem.config.js:58`). The models are about what its tests cannot reach: requests that
interleave between their `await`s, in one process or several, deletes that do not happen, processes
that die between Postgres and Redis, keys that expire.

Each model is a TLA+ module checked by TLC on small instances. The safety properties of every module,
and both refinements, are also proved with TLAPS for every value of the constants (section 4).
`PROJECT.json` lists the parts of the system, the runs, the mutants each property is tried on, the lines behind every definition, the findings,
the hazards and the theorems.

## 1. Inventory

### The system's parts

| Part | Where | State | Operations | Modelled |
|---|---|---|---|---|
| Sessions and identity cache | `src/auth`, `libs/common/src/cache`, `libs/common/src/strategies`, `src/profile`, `src/settings/users` | one `users` row; Redis `user:<id>` (the cached identity) and `refresh_token:<id>` (the `jti` of the one live refresh token) | login, refresh, authenticate; own password change, reset, verification; admin update, status, password, delete; `revokeSession` | `Sessions`, `RefreshSlot` |
| One-time tokens and registration | `src/auth`, `src/settings/users` | `users`, `email_verifications`, `password_reset_tokens` | register, create, resend verification, forgot password (public and admin), verify, reset, change of address, delete | `AccountTokens` |
| Roles, permissions and cached identities | `src/settings/roles`, `src/settings/permissions`, their repositories | `roles`, `permissions`, `user_roles`, `role_permissions`, every `user:<id>` | assign roles, update and delete a role, rename and delete a permission, invalidation of the holders | `RbacCache` |
| Write path of roles, permissions and users | the same, `src/settings/users`, `libs/repositories` | `roles`, `permissions`, `users`, `role_permissions`, `user_roles`; row and index locks | create, update, delete a role or a permission; create a user and update its address and roles | `RoleWrites`, `RoleStore` |
| Mail queue | `libs/common/src/mail` | BullMQ job: waiting, active, failed, attempts made | enqueue, send, retry with backoff, give up | `MailQueue`; the enqueue also in `AccountTokens` |
| Guards | `libs/common/src/guards`, `common.module.ts`, the controllers' decorators | none (metadata of the routes, `request.user`) | AuthGuard, PermissionGuard, RoleGuard, in this order | `Access`, applied in `Gates` and `Catalogue` |
| Seeder | `libs/repositories/src/seed` | the same tables | permissions, roles, users, one statement each | `Catalogue` |
| Listings | `findAll` of controllers and repositories, `FilterValidationPipe` | none | accept or refuse a query, filter, order, offset page, total | `Queries`, `Listing` (which rows a filter selects: no) |
| Throttler | `libs/common/src/throttler` | counters in the memory of each process | count, refuse | no |
| Token lifetimes, JWT | `libs/utils/src/jwt`, `libs/utils/src/default`, `libs/utils/src/date` | none | lifetime of tokens, TTL of the stored `jti` | no |
| Answers, pipes, filters, interceptors | `libs/common/src/{response,pipes,filters,interceptors,decorators}` | none | shape and validate one request | no |
| Helpers | `libs/utils/src/{number,string,encryption,logger}` | none | formatting, hashing, logging | no |
| Bootstrap, configuration, health, i18n, templates | `src/main.ts`, `libs/config`, `src/health`, `libs/common/src/i18n` | none after start | wiring | no |

### How they interact

Every route but the public ones first passes `AuthStrategy.validate`, which reads `user:<id>`, or on
a miss asks Postgres (`UserInformation`) and writes the answer to Redis. The permission and role
guards read only that identity, so what the cache says is what the caller may do. Whoever changes
what an identity is made of (the users service, the roles service, the permissions service, the auth
service) must delete the key. Whoever ends a session must delete `refresh_token:<id>` too:
`CacheService.revokeSession` deletes both keys in parallel. Postgres and Redis share no transaction:
a handler commits first and deletes afterwards. Registration and the link requests commit a token
row first and enqueue the mail afterwards.

### What is hard

- *Concurrency.* A handler has up to seven `await`s and nothing is locked across them. A value read
  before one (a cached identity, a stored `jti`, a token row, the holders of a role) is used after it.
- *Failure.* A Redis command may fail, or the process die, after the commit. Nothing retries.
- *Expiry.* Whatever an invalidation missed lasts until a TTL ends it, so every write needs one.
- *Constraints.* Pre-checks (address free, roles exist) race with each other; the unique indexes and
  foreign keys decide, and their errors are answered differently.

### What makes each part correct

- Sessions: a change that ends sessions ends them; a cached identity agrees with the database; a
  refresh token works once and never again once retired; no unverified account is let in.
- Tokens: an address belongs to one live account; a mailed link has a committed token; only an
  account's own link verifies it; a token that was used is used again only by requests that overlap.
- Roles: a change to a role, or to who holds it, reaches the cached identity of everyone affected.
- Write path: concurrent writes take effect one after the other and as a whole, names and addresses
  stay unique, join rows never dangle, and every transaction ends.
- Mail queue: a committed mail is sent, or given up after all its attempts and with a trace; twice only
  when a worker died or an answer was lost.
- Guards: who is let in where is what the documented table of routes says, and the gates are in the
  seeded vocabulary.
- Seeder: running it again completes what is missing and changes nothing that is there.
- Listings: an unknown query is refused, not ignored; a walk through the pages misses or repeats a row
  only because the listing changed under it.

The hazards list in `PROJECT.json` puts these at their lines, with the properties that watch them.

## 2. Modules

| Module | What it is |
|---|---|
| `Sessions` | one account: its row, its cached identity, its refresh token, the concurrent requests that touch them |
| `RefreshSlot` | the abstract specification of `refresh_token:<id>`: one live token, a retired one never returns |
| `AccountTokens` | accounts, addresses, one-time tokens, mails |
| `RbacCache` | roles, permissions, and what the cached identities of several users say of them |
| `RoleStore` | the abstract specification of the write path: every operation on roles, permissions, users and join rows at once |
| `RoleWrites` | the same operations statement by statement and row by row, with the locks Postgres takes |
| `Access` | the metadata every route declares, the three guards, and the documented table of routes, as operators |
| `Gates` | a request of any caller to any route, through the guards of `Access` |
| `Catalogue` | the seeder's statements, and the edits administrators make through the gates of `Access` |
| `MailQueue` | requests that commit and enqueue, workers, retries, stalled and failed jobs |
| `Queries` | a request for a listing that the guards let in: its query, accepted or refused |
| `Listing` | composes these two with the walk through the pages of an accepted query, against concurrent writes |
| `SessionsProofs`, `AccountTokensProofs`, `RbacCacheProofs`, `RoleWritesProofs`, `CatalogueProofs`, `MailQueueProofs` | theorems about the module of that name |
| `ListingProofs` | theorems about `Listing`, `Gates` and `Queries`, which it composes |
| `AccessProofs` | lemmas about the routes and the guards, used by `ListingProofs` and `CatalogueProofs` |
| `MCSessions`, `MCAccountTokens`, `MCRbacCache`, `MCRoleWrites`, `MCCatalogue`, `MCMailQueue`, `MCListing` | the instances: symmetry sets and the values of constants |

### Conventions

*An action is one await*: the SQL statement, transaction or Redis command a handler sends, taking
effect, together with the synchronous code up to the next one. A Postgres transaction is one action
(its statements become visible together). `pc[r]` is the await a request is at. A handler that
returns or throws goes back to `"idle"`, and the same request may then stand for another one, so any
number of requests run one after the other and `Requests` bounds only those in flight together. A
check that fails in the first await changes nothing and is a disabled action. Consecutive reads of one
handler that only decide whether it goes on (the user exists, the address is free, the roles exist) are
one action: the write that follows relies on the database's constraints, not on them.

*Data is abstract.* Passwords, names, addresses, role ids, `jti`s and tokens are model values. The
cached identity in `Sessions` is one value, a profile, for all that `UserInformation` returns;
`RbacCache` opens it up into roles and permissions. One account is enough in `Sessions`, since none
of its handlers touches two.

*Auxiliary values* are read by no guard; they let a property speak of the past. They are:

- `authority` (on each request and on the stored token): whether a change that ends sessions has
  committed since the password or token this rests on was checked (`outdated`), and whether that
  change's delete has run as well (`overtaken`);
- `overtaken` (on an identity): it was read before a change and will be, or was, written after the
  change's delete; in `RbacCache` `lost` also has `uncounted`: the holder was added after the
  holders had been collected;
- `abandoned`: keys whose delete was due and never ran;
- `issued` (which token each was exchanged for) and `spent` (how often a one-time token was acted on).

### Sessions, step by step

| Action | Code |
|---|---|
| `Login`, `LoginDrop`, `LoginRead`, `LoginSet`, `StoreRefreshToken` | `AuthService.login` and `issueTokens`: look-up and checks; `del user:<id>`; `UserInformation`; `set user:<id>` and signing; `set refresh_token:<id>` |
| `Refresh`, `RefreshRead`, `StoreRefreshToken` | `AuthService.refresh`: compare the stored `jti`; `UserInformation`; store the new one |
| `Authenticate`, `AuthRead`, `AuthFill`, `Serve` | `AuthStrategy.validate`: hit or miss; read; write; the route |
| `CheckCurrentPassword`, `ChangePassword` | `ProfileService.changePassword` |
| `ResetPassword`, `VerifyEmail` | the transactions of the auth service, the token having been accepted |
| `GetDetail`, then `UpdatePassword`, `Remove`, `UpdateStatus` or `Update` | the admin handlers of `UsersService` |
| `DeleteUserKey`, `DeleteRefreshKey` | the two deletes of `revokeSession`, in any order, or the one of `dropSession` |
| `ExpireIdentity`, `ExpireRefreshToken` | the TTLs |
| `DeleteFails`, `Abort` | a failed command, or the death of a process |

Two facts that came out of the translation. `UserInformation` throws for an account that is not
active and live, so the branch of `refresh` that revokes the session of an account it did not find
(`auth.service.ts:153-158`) is never reached: `RefreshRead` just ends. And the identity query does
not filter on `email_verified_at`, although `docs/SECURITY.md:29-30` says it does; the property
`UnverifiedNeverAuthenticated` shows that the conclusion drawn there holds nevertheless, because
login refuses an unverified account and nothing undoes a verification.

### RoleWrites, and how it implements RoleStore

`RoleStore` has one action for each operation: create, update or delete a role, create, rename or delete
permissions, create or update a user with its roles. `RoleWrites` splits each into the look-ups before
the transaction (`CheckName`, `CheckList`, `FindExistingByNames`), `BEGIN` and one action per row a
statement touches: `Insert`, `Rewrite`, `Enter` (the unique index on the new name), `Strike` (a parent
row), `Scan` and `Remove` (its join rows), `Grant` and `Refer` (a new join row and the rows its foreign
keys share-lock), `Commit`. The name of a user is its address. A transaction sees its own writes and
what is committed; locks are kept until it ends; an insert into a unique index, and a change of name
or address, waits for an open transaction that adds or removes that entry (`BlockedOn`).
`users_email_unique_live` is a partial index, which no foreign key can refer to, so a change of address
does not wait for the share locks of join rows, as a change of a role's name does. `AbortVictim` is the
deadlock detector, `Crash` the loss of a connection. The refinement maps the committed tables to
`RoleStore`'s variables, so that a commit must be one of its operations and everything before it a
stutter: of two updates of one role no mixture of their lists is ever committed, because both update
the parent row first. Users are not deleted here: that is one statement which only stamps the row
(`AccountTokens` has it), and waits for nothing but the row.

### Access, Gates and Catalogue

`Access` lists the routes by controller, each with what `@Public`, `@PermissionAuth` and `@RoleAuth` declare
on the class and on the handler and with the refusals it documents; `Answer` is the chain of
guards in the order of `common.module.ts`. `Gates` applies it to a request by a caller with any
roles and permissions. `Catalogue` runs the seeder, one action per statement
(each commits by itself), in several processes that may die anywhere, while accounts edit names,
grants, assignments, passwords and accounts. The guards read an identity that may have been cached
before (`auth.strategy.ts:32-45`), and the handler commits several awaits after they let it in; so an
edit needs only that some identity read so far passed the gates of its route (`opened`), not that
anyone would pass them now. `quiet` and `dropped` are auxiliary: the seeders nobody interfered with,
and the accounts whose seeder ended before it assigned the role.

### MailQueue

`CommitToken`, `SendMail` and `RequestDies` are the request; `Take`, `Process`, `Complete`, `Retry`,
`BackoffEnds`, `GiveUp`, `OnFailed` and `Recover` what the workers and BullMQ do with the job. `Process` is
`MailerService.sendMail`: the server takes the mail, or does not, or takes it and its answer is lost.
`WorkerDies` takes everything the process had. BullMQ itself is modelled from the options the code
gives it. The listener is called after each failed attempt; the model follows the call that matters
to `mail.processor.ts:38-41`, the one after the last. `tries`, `received`, `refusals`, `silenced`
and `buried` are auxiliary.

### Queries and Listing

A request that `Gates` lets in goes on to its handler (`Bind`). `Queries` translates the way of a query from the controller through the pipe to each `findAll`
(`FindAllUsers`, `FindAllRoles`, `FindAllPermissions`): which checks come before the database,
and what Postgres then refuses. A query has page, limit, sort and direction, and up to two filters, each of
which may be sent twice (`"repeated"`: the parser makes an array of it). In `Listing` `FindMany` and `Count` are the two
queries of one page, which run on two connections and may each see a different database; a
client (outside the code) asks for pages until `totalPages`. A page is any set that some order consistent
with the keys has at its offset, since the code orders by one column and nothing breaks ties.
Writers give rows any free key, so one direction stands for both.

## 3. Runs

### Runs that pass

| Run | Instance | States | What it shows |
|---|---|---|---|
| `sessions` | 2 requests, 2 profiles, 2 statuses, 1 password, 2 refresh tokens, no symmetry | 575,728 | sessions: safety, and what expiry brings about |
| `account_tokens` | 2 users, 2 addresses, 2 tokens, 2 requests; symmetric | 91,184 | the one-time tokens |
| `rbac_cache` | 2 users, 1 role, 1 permission, 2 names, 2 requests; symmetric | 461,492 | role changes reach the cache |
| `role_writes` | 2 concurrent requests of any kind, 2 roles, 2 permissions, 2 users, 2 names | 119,370 | the write path is atomic, and ends |
| `catalogue` | 2 seeders, 2 permissions, 1 edit; symmetric | 55,459 | the seeder, and edits behind the gates |
| `mail_queue` | 2 mails, 2 workers, 3 attempts, 1 recovery, 1 failed job kept, no symmetry | 395,658 | delivery |
| `listing` | 31 routes, any of 4 roles, none, one or all but one of the permissions; up to 2 filters of 7 keys, 8 sort fields, 4 directions, 2 pages and limits; 5 rows, pages of 2, 5 keys, 2 writes; symmetric | 1,250,999 | gates, queries, pages and totals |

`sessions`:

- `RevocationReachesEveryone`: a refresh token from before a password change, reset, deletion or
  suspension is stored, or about to be, only while that change still owes its delete (or the delete
  failed), or because its request was in flight across the whole change, commit and delete. The
  first is a window; the second is the race of finding 2 and nothing wider.
- `StaleIdentityExcusedEverywhere`: the same for the cached identity.
- `CurrentAuthorityIsOfActiveAccount`: a session whose authority nothing has overrun belongs to an
  active, live and verified account.
- `UnverifiedNeverAuthenticated`: no request is let in and no identity cached for an unverified account.
- `ImplementsRefreshSlot`: a refresh token that was replaced or dropped never
  is the stored one again, whatever stores and deletes race. `ImplementsRefreshSlot` is the refinement
  `live <- the stored jti`, `spent <- every other one issued`.

- `DeletionTakesHold`: a deleted account ends up without identity and session for good, whatever was
  in flight when it was deleted.

`account_tokens`: `UniqueLiveEmail`, `MailedTokenIsCommitted`, `VerifiedThroughOwnLink` and
`OnlyOverlappingUses`: once a token has been acted on, no request comes to hold it any more; whoever
acts on it again had read it by then and has been under way since. That is the complement of finding 4:
what the code does give of "single-use".

`rbac_cache`: `StaleRolesExcusedEverywhere`, a cached identity that disagrees with the roles and grants
in the database is owed a delete, or was lost to one of the two races named in the module.

`role_writes`: `ImplementsRoleStore` (above); `NamesStayUnique` and `JoinRowsAnchored`, whatever commits between
a pre-check and its write; `DeadlockForCause`, transactions wait for each other in a circle only
when one of them deletes a role or permission, two of them name permissions, or two updates of roles,
or of users, trade names; and `EveryRequestEnds`. For the last cause two requests are not enough from
idle, as the look-up before the transaction refuses a name that is taken: it takes two more, and a
third name, to give the rows new names once the first two have passed their look-ups. Then each of the
first two waits for the name, or the address, that the other's row is giving up. So `MCRoleWrites`
starts also from states in which two updates have passed their look-ups and are to take each other's
names; with the cause left out of the property, TLC finds the circle of two roles, and that of two users.

`catalogue`: `SeededGatesOpen` says what the seeder makes of these gates. New rows take any unused
id, so that ids are interchangeable and symmetric. `CompletedRunCompletes` and `SeederOnlyAdds` are the two halves of "re-runnable".
`RolelessForCause`: an account lacks its role only because its seeder died (or lost to another) just
then, or because someone edited. `SeederAssignsOwnRow`: a seeder gives a role only to the row it inserted,
although its address may belong to somebody else by then.

`mail_queue`: `TriesBounded` (BullMQ is the only layer that retries), `DuplicateForCause`,
`GivenUpLeavesTrace`, and the liveness `CommittedIsSettled`: a mail whose request lived to enqueue it is
sent or given up. (A request that dies between commit and enqueue loses the mail; nothing in the code
promises otherwise, and the property counts it as settled.)

`listing`: `GatesAsDocumented` and `RefusalsAreDocumented` compare what the guards answer with the table in
`docs/API_DOCUMENTATION.md` and with the documented statuses, for every route and every kind of identity;
`OnlyUnknownRefused` does so for every combination of up to two filters, sort field, direction, page and
limit, apart from the two things the code ignores (finding 5); then
`MissedForCause`, `RepeatedForCause`, `PageAgreesWithTotal`. That the causes are
real was seen by dropping them one by one. The least expected: an insertion between the count and
the rows of the last page makes a client stop one page early, and it misses a row although nothing was
deleted.

### Runs that find a counterexample, each against a sentence of the repository

1. `refresh_once`: two concurrent refreshes with one token are both answered with a new pair;
   the comparison (`auth.service.ts:142`) and the store (`:170`) are separate commands.
2. `revocation_race`: a login or refresh in flight across a password change stores its token after
   the change's delete, and that token lives on.
3. `permission_change`: renaming or deleting a permission drops no cached identity.
4. `token_single_use`: two requests with one verification or reset link both act on it; the look-up
   of an unused token (`auth.service.ts:284`, `:395`) is an await before the transaction that stamps it
   by id.
5. `query_ignored`: a `sortDirection` other than `asc` and `desc` is coerced to `desc` by the controllers
   (`users.controller.ts:154`), where `docs/API_DOCUMENTATION.md:80` promises a 400, and a filter key sent
   twice arrives as an array and is dropped by the pipe, where `:93` says never ignored.

For 2, 4 and 5 the passing runs show the complement: besides the race or the two omissions it exhibits,
and deletes that have not run, there is no other way to the bad state.

### Other differences between the code and what it says

Met while modelling; no run is kept for them, as the passing properties state what does hold.

- The identity of a deleted or suspended user can be cached after the delete of its key, and lets the user
  in until the TTL (`auth.strategy.ts:42`, `docs/SECURITY.md:23-24`):
  `StaleIdentityExcusedEverywhere` excuses exactly that. The same race leaves a deleted role in a cached
  identity (`roles.service.ts:136`): `StaleRolesExcusedEverywhere`.
- Of two registrations of one address the second is refused by the unique index and answered with a 500,
  not a 422 (`auth.service.ts:204`, `permissions.service.ts:25-26`); so are concurrent creations of a role.
- A seeder that dies between inserting an account and assigning its role leaves it without one, and no
  later run repairs it, as existing accounts are skipped (`user.seed.ts:25`, `docs/DEPLOYMENT.md:96-97`):
  `RolelessForCause` has `dropped` for it.
- The note on date filters (`docs/API_DOCUMENTATION.md:98-101`) describes a `createdAt` filter, which the table
  of filters (`:85-89`) does not list and the repositories refuse. The permissions' `name` filter
  compares with `eq` where `:97` says substring.
- The guards decide on an identity that may be cached and the handlers commit awaits later, so someone who has
  just lost a role can still finish an edit; `Catalogue` lets edits happen so.

### Bounds, and why they are enough

- *Requests.* Two are enough for every race that has one change in it. With three, two changes overlap
  with a login or an authentication in flight, and one change's delete can be taken for the other's; the
  theorems cover that, for any number of requests. (`sessions` with three requests and two refresh
  tokens has 1,164,370 states and finds nothing either; it takes minutes and is not among the runs.)
- *Refresh tokens.* `Jtis` is how many can be signed in one behaviour, the one bound on history: two
  are enough for a token to be replaced or dropped and to try to come back; the runs of findings 1 and
  2 have three, for one to be exchanged and two obtained.
- *Passwords.* One in `sessions`: requests present any password, so that one with the right password is
  always possible, and that the password was changed since it was checked is in `authority`.
- *Profiles, statuses.* Two of each: one that is what the identity says and one that is not. The
  code only distinguishes `active` from the rest.
- *Users, tokens, addresses.* Two each in `AccountTokens`: an account and the one that takes its
  address; a token and the one that replaces it. In `RbacCache` two users tell who is and who is not a holder; one role
  and one permission suffice as no handler relates two roles, and two names let a rename matter.

- *Write path.* Two rows of each table and two names let an update collide with a creation; two requests are all
  a conflict needs, or a circle of two, given the starting states that trade names; the theorems hold
  for any number. Each request runs once. The tables are any that differ in more than which id or name is
  which, with two restrictions: the second user and the second permission, which no operation relates, are
  there or not together, and only the first role and the first user have join rows at the start.
- *Seeder.* Two runs: one after the other (recovery) or at once. Two of the eighteen permissions, as no
  statement relates two of them, chosen so that they gate edits; one edit, since every property speaks of
  one edit or of none.
- *Mail.* Attempts and recoveries as configured (three, and BullMQ's default of one). Two mails make a job
  wait for the worker and push another out of the failed set.
- *Requests and listings.* A caller's permissions matter to a route only in whether the one it names is among
  them, so none, one and all but one of them tell every gate from every other; two filters let one be wrong
  and the other right. Once a request is let in its caller is forgotten, and once its query is accepted the query,
  as no code reads them any more: the steps `Admit`, `Accept` and `Begin` are there for this. Five rows make three pages of two, so that there is a page before, at and after a write;
  two writes, so that causes combine.

TLC checks deadlock in `sessions`, `account_tokens` and `rbac_cache`: a request can always finish. In
the other runs the system stops when its requests, processes, mails or walks are done.

### Fairness

In `Sessions` only expiry is fair: `WF` on `ExpireIdentity` and `ExpireRefreshToken`. `CacheModule` sets a default TTL
(`cache.module.ts:39`) that every write of `user:<id>` uses, and `issueTokens` sets one of at least a
second (`auth.service.ts:168-170`), so Redis removes the key. No handler is assumed to finish, no
delete to succeed. In the models a write restarts the TTL only by being a new entry, and expiry may come
early; the properties do not depend on how long a TTL is.

`DeletionTakesHold` has no fairness of requests because it needs none: once the account is deleted no
request can read an identity any more, so only finitely many writes are left, and each is followed by
an expiry.

In `RoleWrites` a statement that is not blocked goes on and the deadlock detector runs (`WF` on `Step` and
`AbortVictim`): Postgres does both. In `MailQueue` workers take what waits, backoffs end, stalled jobs
are looked for and the process that has committed a token goes on to enqueue unless it dies (`WF` on
`Work` and `SendMail`). Deaths are not bounded by fairness: each costs a recovery, and recoveries are limited.

### Mutants

Every property of every passing run is violated by at least one mutant of the code it watches, an operator
next to the definition it changes: a dropped check of the verified flag, an identity query that forgets the
soft delete, a change that deletes one key of two, a repeated `jti`, a mail enqueued inside the transaction, one look-up for two kinds of token, a missing unique index or
foreign key, a role whose holders are collected after they are gone; a join row replaced without touching its
parent, a guard registered too early, a seeder that updates, a queue whose `add` is not awaited, a count without
the condition of the rows, pages counted from zero.

## 4. Proofs

Every theorem holds for any number of requests, users, rows and names unless it says otherwise. The
inductive invariant of each module was first checked by TLC on the instance of its run. The proofs go
action by action; what steps have in common (a request that moves on, a request that ends, a step
that leaves the others alone) is a lemma.

| Module | Theorem | Property |
|---|---|---|
| `SessionsProofs` | `TypeCorrect` | `TypeOK` |
| | `RevocationCorrect` | `RevocationReachesEveryone` |
| | `IdentityCorrect` | `StaleIdentityExcusedEverywhere` |
| | `AuthorityCorrect` | `CurrentAuthorityIsOfActiveAccount` |
| | `VerificationCorrect` | `UnverifiedNeverAuthenticated` |
| | `SlotImplemented` | `ImplementsRefreshSlot` |
| `AccountTokensProofs` | `TokenTypeCorrect` | `TypeOK` |
| | `EmailsUnique` | `UniqueLiveEmail` |
| | `MailsCorrect` | `MailedTokenIsCommitted` |
| | `VerificationsCorrect` | `VerifiedThroughOwnLink` |
| | `UsesOverlap` | `OnlyOverlappingUses` |
| `RbacCacheProofs` | `CacheTypeCorrect` | `TypeOK` |
| | `StaleRolesCorrect` | `StaleRolesExcusedEverywhere` |
| `RoleWritesProofs` | `RoleTypeCorrect` | `TypeOK` |
| | `NamesUnique` | `NamesStayUnique` |
| | `NoDanglingRow` | `JoinRowsAnchored` |
| | `StoreImplemented` | `ImplementsRoleStore` |
| | `DeadlocksForCause` | `DeadlockForCause` |
| `CatalogueProofs` | `CatalogueTypeCorrect` | `TypeOK` |
| | `RunsComplete` | `CompletedRunCompletes` |
| | `SeederAdds` | `SeederOnlyAdds` |
| | `RolelessCorrect` | `RolelessForCause` |
| | `SeederAssigns` | `SeederAssignsOwnRow` |
| | `SeededCorrect` | `SeededGatesOpen` |
| `MailQueueProofs` | `QueueTypeCorrect` | `TypeOK` |
| | `TriesCorrect` | `TriesBounded` |
| | `DuplicatesCorrect` | `DuplicateForCause` |
| | `TraceCorrect` | `GivenUpLeavesTrace` |
| `ListingProofs` | `ListingTypeCorrect` | `TypeOK` |
| | `GatesCorrect`, `RefusalsCorrect` | `GatesAsDocumented`, `RefusalsAreDocumented` |
| | `QueriesCorrect` | `OnlyUnknownRefused` |
| | `MissesForCause`, `RepeatsForCause` | `MissedForCause`, `RepeatedForCause` |
| | `PagesAgree` | `PageAgreesWithTotal` |

### Assumptions

They are declared with the constants and evaluated by TLC in every run. Most say that a value for
"nothing" is none of the values it stands beside: no token (`NoJtiIsNoJti`), no entry
(`NoEntryIsAbsent`: Redis answers `null` for a missing key, which no stored token is), no row, request or name
(`NoneIsNothing`, `NoneIsNoRow`, `NoneIsNobody`, `NoneIsNoStatus`, `NoneIsNoQuery`,
`NoneIsNoWorker`, `SentinelsAreNoNames`). `RowsOfOneTable` says that an id belongs to one table. `ActiveIsAStatus` and
`SuperuserIsARole` place a literal of the code in a set; `FollowedIsSeeded` that the permissions followed are
of the seeded vocabulary. `RowsAreFinite` is needed where rows are counted.
The rest are about configured numbers: at least one attempt, a positive page size, natural bounds.

### Sessions

That the stored token obeys the rule of `RevocationReachesEveryone` is not inductive: a request may
be about to store a token from before the change. So the rule is extended to requests: whoever is on its way to a
new token (`Issuing`) and has outdated authority is covered by an owed delete, too. A change makes
authorities outdated and, in the same step, owes the delete; the delete turns every outdated
authority into an overtaken one; a store copies the request's authority to the key, and a refresh
copies the key's to the request. `OnlyDroppingOwes` (a request owes deletes only while it runs them) is
needed so that a change starting to owe its deletes does not overwrite others. `RevocationInv` is the
conjunction of these. `IdentityInv` adds the same extension for identities: an identity a request
carries is bound by the rule its key is bound by. Its delicate step is `DropIdentity`: after it
nothing may be owed any more, so every carried identity that does not describe the account must be
marked at that moment.

`AuthorityInv` extends the rule about current authority to requests in the same way. `VerifiedInv`: whatever
only a login leads to (`PastLogin`: a stored or issued token, a cached identity, a request past its
checks) exists only for a verified account, and no handler takes a verification back. For
`RefreshSlot`, `JtisApart`: the stored token has been issued, and one that was signed but is not stored yet
has not and is no other request's; so a store is the abstract step and every other step drops the
token or does not touch the slot.

### AccountTokens

`Held` says what a request under way has in hand and that it is still there, `Rows` that a token's account
and a mailed token have rows. They are preserved because no row is ever removed and no token changes its account
or loses its stamp (`Kept`): deletion is soft, and used tokens stay. `UniqueLiveEmail` follows
from the index in every statement that writes an address, whatever was looked up before. `UsesOverlap`
rests on `Stamped`: a token that was acted on carries the stamp, as the only two steps that count a use
write it. A stamped token is acceptable to no look-up, and a look-up is the only way to come to hold one.

### RbacCache

`Anchored` are the two foreign keys; `Carries` ties what a request has collected to where it is; `Sound`
extends the rule of the property from cached identities to those a request has read and not yet written.
A change of roles or grants makes some of them wrong and owes their deletes in the same step, except for holders
added after the collection, which are marked `uncounted`.

### RoleWrites

For each request (`Local`): what its operation carries and where it can be (`Carries`), which parent row it
has written with which value (`Parent`), which join rows (`Joins`, `Cleared`: of the old list nothing is left
when the new one is inserted), what its foreign keys have locked (`Referred`), and that its names are nobody's
as it sees the tables (`OwnNames`). For each two requests (`Apart`): no row is written by both, no name
taken by both, no shared row deleted by the other, no id given twice. A step either commits nothing
(`Uncommitted`), so that other requests need only `Apart`, or is a `Commit`, after which `CommitForOther` has to
show that what other transactions rely on still holds. `CommitNames` and `CommitReplaces` say what a commit does
to the tables: with them each kind of commit is one operation of `RoleStore`, or changes nothing when its
row was gone; every other step changes nothing.

Where an operation can be and what it carries are two predicates (`MayBeAt`, `Payload`), so that a step that
only moves on has to show the first. `DeadlocksForCause` adds the order of the locks (`Early`): an update that
lacks its parent row has written nothing before the join rows it inserts, and rows still to insert are
not locked. Assume a circle without deletions and with at most one request that names permissions.
Nobody waits for a permission's name; so nobody is held at a foreign key on a permission; so nobody who
names permissions is in the circle. Whoever has written a join row holds its parent row, so nobody waits
for join rows. What is left are roles and users. Who is held at a foreign key, on a role, waits for an
update entering a new name of that role (`KeyWaiters`). So either an update of a role enters a name, or
nobody is held at a key and every holder of a row is entering one (`SomeoneEnters`): in both cases it
waits for an update of the same table that has not entered its own yet, and the name it waits for is the
one that row is giving up (`NamesTraded`).

### Catalogue

`Progress` says what a seeder nobody has disturbed has put in place, statement by statement. It survives
the other seeders because of `Grows`: the step of a seeder changes no row that is there, and adds only
names that are missing (`RoleNamesUnique` keeps a name to one row). `Unedited` is about databases nobody has edited: who made the accounts, what has grants,
who holds what; `RolelessForCause` is inductive together with it. `SeederAdds` and
`SeederAssigns` are properties of steps and follow from the invariant. `SeededGatesOpen` relates the
end of a run to the guards of every route, with the lemmas of `AccessProofs` about what they answer.

### MailQueue

None of the four is inductive, the type invariant included: that `attempts` stays within its
limit depends on where the job is. `QueueInv` adds two books. `Accounts` balances the tries of a mail twice: against the
attempts and recoveries used up plus the try that has not been charged to either yet (`TriesAccounted`), and against
refusals, deaths and the success that ended the job (`AnswersAccounted`). It also says that a job has used up one of
its limits only if it has failed, and not both. `KeptOrPushedOut` says where a failed job is in the list of
those kept: behind it are at most as many as failed after it. Its step is `KeptByBury`, which rests on
`AppendKeeping`, a fact about sequences of which the last elements are kept.

### Listing

`RequestInv` follows the request: who it comes from while that matters, and that only a listing the guards have let
through gets to its query. The guards' part goes through the routes controller by controller
(`AccessProofs`) and holds for any set of roles and permissions. `WalkInv` is about ranks, the
number of rows before a row. While rows only disappear, a row that was sent stays before the page asked for
(`SentStaysBehind`); while rows are only added, none between the count and the rows of a page, a row not sent yet is
still ahead and the total says so (`UnsentStaysAhead`). `Together` relates the two queries of a page.

### Only model-checked

The liveness properties, since neither fairness nor `ENABLED` is within the prover's reach here:
`DeletionTakesHold`, `EveryRequestEnds` and `CommittedIsSettled`. And the five violations, which are about
one behaviour each.

## 5. Not modelled, and why

- Hashing, signing, parsing, validation of bodies, wording of answers, logging: no state, no order.
  A request with an invalid body or an unknown token takes no step.
- Access tokens are stateless: `Authenticate` lets any caller of the account in once a token has been
  issued. Their expiry only takes requests away.
- That Redis and Postgres commands are atomic and in order per command, that a committed transaction
  stays committed, and that foreign keys and unique indexes hold, is assumed of the services. Loss of
  Redis data looks like expiry to the code.
- Locks inside Postgres, except in `RoleWrites`: elsewhere a transaction is one step.
- Which rows a search or filter selects, and the date filter (`date-filter.ts`), which no repository calls.
- The throttler: its counters are the library's, in the memory of each process; this code configures the
  limit and the window and promises nothing about several processes.
- The arithmetic of lifetimes: tokens and entries may expire at any time in the models, which covers
  every lifetime.
- Subjects, addresses, templates and languages of the mails.
- Registration and account creation are one action in `AccountTokens` (`Register`, `InsertUser`): they do the
  same look-up, hash, transaction and enqueue. The roles an admin gives at creation are `RbacCache`'s
  initial states.
- Names of roles: a rename is part of the same transaction as the grants and is followed by the same
  invalidation, so `RbacCache` identifies a role by its id.
- In `AccountTokens` the accounts are all active; status is `Sessions`'s matter.

## 6. Plan

Done: every part that keeps state is modelled, and every safety property of a run, the action properties of
`Catalogue` and both refinements are proved.

Next: the safety part of the liveness properties, as lemmas over all constants. For `EveryRequestEnds`, that a set
of blocked requests contains a circle, so that the detector always has a victim; for `DeletionTakesHold`,
that after the deletion the identities still to be written can only become fewer; for
`CommittedIsSettled`, that every try uses up something of which there is a fixed amount.
