# TLA+ models of Rootprint

Rootprint is a log and trace explorer on top of Quickwit: a Hono API (Bun, one process, one event
loop) with its state in Postgres, and a Svelte 5 single-page app. These modules model the parts of
it where the order of things matters: what a cache may still answer after a key is deleted, which
settings the serving auth instance was built from, which invites and sessions survive a reset, what
a deleted index leaves behind, and which request's rows end up on the screen.

Paths below are relative to the repository; `api/` stands for `apps/api/src/`, `web/` for
`apps/web/src/lib/`.

## How to run

    tlc -workers 2 -config IngestKeys.cfg MCIngestKeys        # one run of the table below
    tlapm IngestKeysProofs.tla                                # one module of proofs

`PROJECT.json` lists every run with its module, configuration and properties, every definition with
the source lines it models, the hazards the properties are for, and for each property a mutation of
a modelled definition that breaks it. The mutated forms stand next to the definitions they mutate
and are marked `Mutation:`; no specification uses them.

## The system, part by part

| Part | State | Operations | Hard because | Here |
|---|---|---|---|---|
| Ingest keys (`api/services/api-key.service.ts`, `middleware/require-api-key.ts`) | `api_key` rows; per process a Map of verified tokens with expiry and FIFO eviction | verify, create, delete, deletion of an index, cascade from an account | a lookup awaits a SELECT while rows are deleted and caches flushed; several processes, each with its own cache; restarts | `IngestKeys`, `KeyRevocation` |
| Auth config and live instance (`api/lib/auth.ts`, `settings.service.ts`, `oidc.service.ts`, `routes/settings.ts`) | `app_settings`, `OIDC_*`, `holder.instance`, the promise chain `reloading`, the timer `oidcRetry` | settings writes, reload, retry, boot | writes commit before they are in force; the IdP and the database fail in the middle of a reload | `AuthReload` |
| Users, invites, bootstrap (`auth.service.ts`, `user.service.ts`, `routes/auth.ts`, `routes/users.ts`) | `user`, `account`, `session`, `invite_token`, the `first_admin_claimed` row | first admin, roles, create/remove, reissue, reset, redeem, expire, consume | authorisation is checked before the handler runs; READ COMMITTED transactions; a slow hash between check and write | `Accounts` |
| Provider sign-in, unlinking (`api/lib/auth.ts`, `settings.service.ts`) | `account` and `session` rows of a provider's identity | callback, change of the identity, reload, restart | a callback in flight across the transaction that unlinks; the old instance serves until the reload is through | `ProviderSessions` |
| Service accounts, personal keys (`service-account.service.ts`, `user.service.ts`, `require-user-or-personal-key.ts`) | `user`, `apikey` rows | create, delete, remove the owner, verify | find and insert, find and delete, verify and read the owner are two statements each | `PersonalKeys` |
| Boot (`app.ts`, `lib/db.ts`, `lib/secret.ts`, `lib/quickwit/client.ts`) | the secret in `app_settings`, the migrations | connect, migrate, secret, probe | two first boots at once; bounded retries; crashes anywhere | `Boot` |
| Ingest proxy (`routes/ingest/*`, `lib/quickwit/proxy.ts`, `utils/otlp-response.ts`, `lib/quickwit/errors.ts`) | none; the exporter's and Quickwit's | forward, translate the outcome | a timeout after the batch was stored; what an exporter retries | `IngestProxy` |
| Index lifecycle (`index.service.ts`, `lib/quickwit/index-config.ts`) | Quickwit's metastore; rows keyed by index id in seven tables | create, delete, settings, config | two stores and no transaction across them; read-modify-write of whole configs | `IndexRows`, `IndexConfig` |
| Index sources (`index-source.service.ts`) | the source in Quickwit, its secrets | create, update, toggle, delete | secrets are masked when shown and restored when saved; read-modify-write | `IndexConfig` |
| Stats collector, search audit (`index-stats.service.ts`, `search-audit.service.ts`) | snapshot and audit rows | hourly tick, fire-and-forget insert, retention | rows written for an index being deleted | `IndexRows`, as writers |
| Log search store (`web/components/logs/search.svelte.ts`) | rows, histogram, field config, statuses, abort signals, expanded folds | navigation, sort, tick, load-more, answers | answers come late and out of order; flags cleared by somebody else | `SearchStore` |
| Display preferences (same file, `preference.service.ts`) | the panel, a debounce timer, the confirmed value; rows per index | edit, save, load, roll back, switch, flush on dispose | one timer for all indexes, loads that race edits, PUTs stored out of order | `Preferences` |
| Field panel (same file, `FieldPanel.svelte`, `log.service.ts`) | values per field and what they were counted for, an abort signal | open, filter, debounce, bulk request | a value must be of the filters on the *other* fields, at the moment it is shown | `FieldValues` |
| Context loader (`web/components/logs/drawer/context/context-loader.svelte.ts`) | a window per direction, offset, rows seen | init, page, slide, change chips, re-anchor | ties inside a second, the offset cap, superseded loads, logs that arrive meanwhile | `ContextLoader` |
| Trace and error lists (`SpanTable.svelte`, `ErrorList.svelte`, `request-guard.ts`) | rows, offset, a token | page, filter, retry | a page of the last filter; rows shifted by arrivals | `ListPaging` |
| Views and shares (`ViewsDropdown.svelte`, `view.service.ts`) | the list in the dropdown; `view` rows | load, create, rename, overwrite, delete, apply | the answer of a save and that of a load cross, or the index changes between | `SavedViews` |
| One trace (`trace.service.ts`, `trace-model.ts`, `span-stats.ts`) | none | documents to spans, tree, order, self times | duplicates, missing parents, cycles, clock skew | `TraceView` |
| Service health (`service-health.service.ts`) | none | a page of searches, merged | the searches are answered at different moments and cut at different limits | `ServiceHealth` |
| Sessions and rate limits (`require-user.ts`, `rate-limit.ts`) | Better Auth's sessions, a throttle map | check, throttle | the checks are the libraries' | not modelled |
| Log, trace and database queries, MCP, export | none | build queries, reshape answers | nothing is kept between requests | not modelled |
| Cluster and metrics pages, web UI, generated code, migrations, Bruno collections | — | — | — | not modelled |

How the parts meet: `deleteIndex` and `removeUser` delete ingest keys from outside their service
(modelled in `IngestKeys` as the two ways a key dies without `deleteApiKey`, and in `IndexRows` as
one of the tables a deletion clears); a settings write ends in `reloadAuth` (`AuthReload`), and when
it changes an identity it unlinks accounts first (`ProviderSessions`, where the reload is the moment
the new identity is served); a provider sign-in consumes invites through a database hook
(`Accounts.ConsumeInvites`); the search store, the preferences and the field panel live in one file
and share the index and the query in the URL, but none reads what another awaits.

What makes each part correct:

- *Ingest keys*: an accepted token is granted, for the index it is sent to, or was revoked less than
  a TTL before; the cache is bounded.
- *Live instance*: an acknowledged write is in force; settings never go back; a disagreement between
  the configured and the serving provider repairs itself.
- *Accounts*: one first admin; an instance is never left without one; a dead invite opens nothing; a
  reset ends what was there before.
- *Provider sign-in*: no session of an unlinked identity; nobody is signed in as somebody else.
- *Personal keys*: a key goes with its owner.
- *Boot*: every process signs with the same secret, for good.
- *Ingest proxy*: what may succeed later is answered as retryable, what never will is not; an
  acknowledged batch is stored, but for what Quickwit says it rejected.
- *Index lifecycle*: a new index inherits nothing from a dead one of the same name; no update of a
  config or a source is silently lost, except to one that read before it wrote.
- *Search store*: what is on screen belongs to the URL; nothing waits for an answer that never comes.
- *Preferences*: what is saved under an index was chosen for it; the last edit wins.
- *Field panel*: values are of the view on screen; no spinner without a request.
- *Context loader*: between the oldest and newest rows shown no row is missing or repeated.
- *Lists and views*: a list is what the filters, or the index, select.
- *One trace*: every span is shown once, under its parent, with the time it spent itself.
- *Service health*: rows, buckets and totals of a page agree.

## Modules

### IngestKeys, KeyRevocation

`IngestKeys` follows `verifyApiKey` through its one await. `VerifyFromCache` is the path without an
await; `VerifySelect` (clock read, SELECT sent), `SelectRow` (the database evaluates it) and
`VerifyFromTable` (the answer is cached, the request gets its verdict) are the other one, and
anything may happen between them. `DeleteApiKey`, `DeleteIndex` and `CreateApiKey` commit first and
leave a job in `flush`; `InvalidateApiKeyCache` runs it later. `RemoveUser` cascades and flushes
nothing, as in the code. `Restart` takes the memory of a process and its requests. `ledger` and
`raced` are history read by the properties only.

`KeyRevocation` is the promise to a client with no cache in it: a token is granted once and revoked
for good, and each answer is the truth about it at a moment not further away than a TTL.
`ImplementsRevocation` is the refinement; it is checked and proved.

The flush is not a promise of its own. `RevokedUnlessRaced` says what is true of it: on the process
that deleted a key, only a flush still due, or a lookup that held the row across the flush, keeps
the key cached.

### AuthReload

Reloads wait in `queue` (the promise chain) and are in `running` while inside `rebuild`:
`ReadConfig` (`loadAuthConfig`), `Resume` (`clearOidcRetry`, then the probe if there is an issuer),
`ProbeSucceeds`/`ProbeFails`, `Build` (`buildReadyAuth`, where the plugin fetches discovery again
and may skip the provider, then the swap). A settings request is `VerifyIssuer`, `PutOidc` or
`WriteSettings` (its commit), `CallReload`, and is answered by the `Build` of its own reload.
`TimerFires` is the retry, `Restart` a new process with perhaps another environment
(`syncOidcEnvIdentity`), `IssuerChanges` the identity provider. Of the settings only the OIDC issuer
is told apart from the rest, which is a version. The history variable `faulted` records that the
last reload of this process was lost to the database.

### Accounts

Requests to the users routes are in `call`: `Authorize` is `requireAdmin`, everything else happens
later. At READ COMMITTED a DELETE or UPDATE works on the rows its own snapshot saw, so a transaction
that replaces an invite is three steps: `BeginReissue`/`BeginReset` (its first statements),
`SeeInvites` (the snapshot of the DELETE in `replaceInviteToken`) and `CommitInvite`. Redemption is
`ValidateInvite`, then the hash, then `RedeemInvite`; a password sign-in is `CheckPassword`, then
`CreateSession`; a provider sign-in is `LinkProvider`, then the hook `ConsumeInvites`. `resets` and
the generation numbers on credentials and sessions tell what was there before a reset; `late`
records what overlapped one and `stale` an act of somebody no longer admin.

### ProviderSessions

A callback is `BeginCallback` (the live instance serves it), `FindAccount`, `LinkAccount` for a
first sign-in and `InsertSession`. A change of the saved identity is one transaction in two steps,
`BeginChange` (up to the DELETE of the sessions, which sees the rows of its own snapshot) and
`CommitChange`, followed by `Reload`; `Restart` may bring another environment. `stale` on a callback,
account or session is history: it overlapped a change, or was served by an instance about to be
replaced. `Person` says who a subject denotes under an issuer and a client, so that `RightPerson`
can say that qualifying the subject with the issuer is enough, except between two clients of one
issuer across an overlap.

### PersonalKeys

Owners are people and service accounts. Creating a service account's key (`FindServiceAccount`,
`CreateServiceAccountKey`), deleting one (`FindKeyToDelete`, `DeleteServiceAccountKey`) and letting a
request in (`VerifyKey`, `LetIn`) are two steps each, with `RemoveOwner` possible in between; the
foreign key of `apikey.reference_id` is what refuses the late insert.

### Boot

A process goes through `connectDb`, `runMigrations`, the secret and the probe, with the retries of
each, while the database and Quickwit go away and come back and processes crash and start again.
The secret is the INSERT ON CONFLICT DO NOTHING of `lib/secret.ts` (`InsertSecret`) and, after a
conflict, the SELECT (`ReadSecret`); a process that is given `BETTER_AUTH_SECRET` does neither.

### IngestProxy

`Send` and `StopWaiting` are the exporter, `QuickwitStores` and `QuickwitRefuses` the span or log
store, both external. `Refuse`, `Forward`, `StoredAnswered` and `UpstreamLost` are the routes and
the proxy under them. The status the exporter hears decides whether it sends the batch again, so the
properties are about the batch and not about a request. `readPartialSuccess` finds the number of
rejected records in the body of Quickwit's 200 (`"count"`), or takes what it cannot read for a full
success (`"unreadable"`: an empty body, no JSON, no `partial_success`, another key). In the second case
an exporter may be told that a batch was stored whole of which Quickwit rejected a part: `unread` is the
history of it, and `AckedIsStored` says that it is the one way, next to an empty body sent in chunks.

### IndexRows, IndexConfig

`IndexRows` numbers the lives of one index id. `BeginDelete` drops it in Quickwit; then the
transaction clears seven tables one statement after the other (`ClearTable`), and commits or fails;
after `DeleteUnanswered` it never begins. Writers of every table but one ask Quickwit for the index
first (`AskingTables`; `withIndexMeta` stands before the routes of views and preferences) and carry
the life they asked about; an ingest key is created for any id (`createApiKey`), which is how a new
index can inherit a key made before it. `crossed` on a row is history: a deletion was under way while its
writer was.

`IndexConfig` holds the config of one index and one of its sources. `OpenForm`, `FetchMeta`,
`FetchConfig` and `UpdateIndexConfig` are the form and the three reads and one write behind it;
`UpdateRequest` is `toUpdateIndexRequest`, with what the form cannot show compared as the code does
it. A source update is `BeginUpdateSource` (read) and `UpdateSource` (write), between which anything
may change; masked secrets are restored from what was read. The mode `lenient` stands for `strict`
too: the code compares and copies a mode and asks only whether it is `dynamic`.

Both modules, and `Accounts`, have read-modify-writes or checks that an overlapping request overtakes,
and nothing in the repository says that they cannot be overtaken. `AdminRemains`, `SourceAsAsked` and
the part of `FieldsMappedOnce` about fields that stay mapped therefore do not say that an overlap does no
harm, for it does: the last admin, a toggle, an added field can go that way. They say that no other
sequence of requests loses one. That no field is ever mapped twice, and that the mask is never stored as
a secret, hold across overlaps.

### SearchStore

A change of the URL, a tick and the answer to a request are one step each, together with the effects
they rerun, because Svelte flushes effects in the microtask after the change. `Navigate` is every way
the URL or `rerunRevision` changes `#input` (index `NoIndex` while the redirect is still to come),
`ToggleSort` reruns the search alone, `Tick` is an auto-refresh. A request carries the run it belongs
to, and `Live` is "its signal is not aborted": the rerun of the search effect aborts both the search
and the page under its signal. Aborted requests still get an answer, which `Ignore` drops. Rows are
counted in pages, and each page remembers what it was asked for, so that `SettledIsCurrent` can say
that the list is that of the URL, without gaps.

### Preferences

`SavePrefs` starts the one debounce timer with the whole panel and the index selected at that moment,
`Commit` sends the PUT, `StorePut`, `PutAnswered` and `PutFailed` are the request; `SelectIndex`
reruns the load (`ReadRow`, `Loaded`, `LoadFailed`) while the panel keeps what it shows, and `Reopen`
disposes the store, which flushes. `excused`, `hasty`, `overlapped` and `failed` are history for the
cases in which an edit is known to be lost: its request failed, a newer edit took the timer, an older
request was stored after it, or it was made before its load had answered.

### FieldValues

`Effect` is the rerun that aborts and debounces, `RunOrchestrator` the end of the debounce: what no
longer fits is dropped, the missing fields asked for in one request. `FieldValuesBulk` is what the
route answers for one field: its values under the filters on the other fields.

### ContextLoader

`Advance` is the paging rule: a full page moves the bound to the second of its last row and counts
the rows of that second already read (`FullPage`), a short one moves on by a window (`ShortPage`).
`RawHits` is Quickwit's side: the rows found whose rank in the sort lies between the offset and the
limit. `Answer`, `LoadFails` and `Superseded` end a load, `SetChips` and `Reanchor` start all over,
`Ingest` stores a log at any second at any time.

### ListPaging, SavedViews

Both rest on `RequestGuard`: an answer counts while no later request has begun. `ListPaging` has the
two lists as one module with `list` choosing between them where they differ: when rows are cleared,
how the end is known, what a failure leaves. `Result` is the page of a request, by the number of spans
before each. `SavedViews` has the dropdown with its four forms and
the table behind them; `mixed` is the history of a save that overlapped a load or a change of index.

### TraceView, ServiceHealth

Pure algorithms as operators, with a state that only feeds them. `TraceView` grows the answer of a
search by one document at a time and compares tree, order and self times with what they mean. A stable
sort is `Sorted`, the one sequence of a set in the order of a set of pairs; what hangs below a span is
the least set that has it and is closed under children (`Below`). The two loops are recursive functions
of the number of turns: `Turn` is one of `spansInTreeOrder`, whose stack `TreeOrder` runs for one turn
more than there are spans, so that a walk that shows a span again shows too many; `Merge` is one of
`selfMicros`, over the sorted intervals of `Sweep`.

`ServiceHealth` sends all searches of a page at once and answers them one by one while spans arrive;
`Endpoints`, `ServiceRows` and `Buckets` are the merged page. A search for failures is cut twice, at
the values of its attribute and at the names of a value. Either cut may leave a row without its
failures, and `EndpointsExact` allows for both (`ValuesCut`, `NamesCut`); the comment at
`service-health.service.ts:479` names the first only.

The list of services and their failures are cut too, each at its own `SERVICE_LIMIT` (`Busiest`; what is
left out is one row, `OthersRow`, from which `servicesTruncated` is read), and services with an empty name
are not listed. The chart has no limit. `ListMatchesChart` says what remains true: the chart has every
request and failure; a listed service has all of its requests, and its failures or, where the failures
were cut, none; what is left out is no busier than what is listed; and a list not marked as truncated
has everything of the services with a name. Counts are taken as exact, as Quickwit's are while
a split holds no more services than `shardSize`.

### MCIngestKeys, MCAccounts, MCAuthReload, MCSearchStore, MCWeb, MCApi

Instances for TLC. `MCWeb` and `MCApi` hold several modules that share no state: a variable `part` is
chosen at the start and only that part moves, so that their states add up and do not multiply, and
an invariant of one part is checked in all of that part's states. `MCIngestKeys` and `MCAccounts` do
the same with two bounds of one module.

## Runs

A property that is a conjunction (`WellFormed`, `Gapless`, ...) names its parts in the module of its
component; each part has a comment of its own there.

| Run | Module and configuration | Checks | Result |
|---|---|---|---|
| `ingest` | `MCIngestKeys`, `IngestKeys.cfg` | `WellFormed`, `StalenessBounded`, `RevokedUnlessRaced`, `ImplementsRevocation` | holds |
| `ingest_at_once` | `IngestKeys`, `IngestKeysAtOnce.cfg` | `DeletedKeyStopsAtOnce` | violated, see Findings |
| `reload` | `MCAuthReload`, `AuthReload.cfg` (fair) | `TypeOK`, `AckedIsLive`, `MismatchWatched`, `NeverBackwards`, `SsoRestored` | holds |
| `reload_faults` | `MCAuthReload`, `AuthReloadFaults.cfg` | `OutageNeverStrands` | violated |
| `accounts` | `MCAccounts`, `Accounts.cfg` | `TypeOK`, `FirstAdminOnce`, `AdminRemains`, `ResetEndsAccess`, `DeadInviteRefused` | holds |
| `accounts_two_invites` | `Accounts`, `AccountsTwoInvites.cfg` | `OneLiveInvite` | violated |
| `search_store` | `MCSearchStore`, `SearchStore.cfg` | `TypeOK`, `ShownIsCurrent`, `BusyIffInFlight` | holds |
| `search_paused` | `MCSearchStore`, `SearchStorePaused.cfg` | `PausedIsExplained` | violated |
| `web` | `MCWeb`, `Web.cfg` | `WebTypeOK`, `NoSpinnerForever`; preferences: `EditsLandWhereMade`, `SettledShowsStored`; context: `Gapless`, `EndIsTrue`; lists: `PagesOfScope`; views: `ListIsStored`; trace: `WaterfallComplete`, `SelfTimeIsUncovered`; panel: `ValuesAreCurrent` | holds |
| `prefs_defaults` | `Preferences`, `PrefsDefaults.cfg` | `DefaultsStayDefault` | violated |
| `views` | `SavedViews`, `Views.cfg` | `ViewsOfThisIndex` | violated |
| `api` | `MCApi`, `Api.cfg` | `ApiTypeOK`; keys: `KeysRightful`; boot: `OneSecretKept`; providers: `NothingOfOldIdentity`, `RightPerson`; index rows: `NothingInherited`, `SettingsLand`; config and source: `FieldsMappedOnce`, `UntouchedFormKeeps`, `SourceAsAsked`; proxy: `BatchesAccountedFor`; health: `NumbersAddUp` | holds |

Bounds, and why the interesting cases fit in them:

- *ingest*: in the part "one process" two tokens have room for one cache entry, so that every
  insertion of the second evicts; in "one token" two processes have a cache each, and the request of
  one is served from the cache the other's delete does not flush. `POSITIVE_TTL` 2 and `NEGATIVE_TTL`
  1 on a clock of 3 ticks let entries of both kinds expire and tell an expired hit from an expired
  miss; one request, as each property is about one lookup against administrators. *ingest_at_once*
  needs a second request only as the witness that is refused or not.
- *reload*: two requests and the timer write up to three versions, with two issuers (the wrong
  provider can be served as well as none), restarts and reloads lost to the database: the shortest
  disorder of two reloads needs two writes and one more queued reload.
- *accounts*: in "admins" two setups, two admins and two calls at once: a mutual demotion needs
  exactly that. In "reset" one call against two redemptions, two invites, one reset. The theorem
  `DeadInvitesRefused` covers any number of calls.
- *search_store*: two indexes, three view changes or ticks, a cap of two pages (`MaxPages`) and
  histograms that count one page (the list ends early) or three (it hits the cap). A superseded
  request, its successor and a third that supersedes the page of the second need three changes.
- *web*: preferences with two indexes and three edits or switches, so that an edit, a switch and an
  edit meet in one debounce. Context with pages of two rows, windows of two seconds and `MAX_OFFSET`
  3, over one corpus with a second of four rows (more than an offset may skip) next to a gap, and one
  with full seconds after a gap longer than `MAX_EMPTY_SLIDES` windows; one log arrives late. Lists
  with pages of one row, three spans and two that arrive, one of them before every row shown; two
  filters. Views with two indexes, two names and four acts of the user. Traces of up to three
  documents over times 0, 1 and 3 with every parent: cycles of two and three, duplicates, clock skew
  and a gap between siblings all have three spans at most. The panel with two indexes, of which the
  second lacks a field, three acts and two requests.
- *api*: two processes with two boots each and one outage. Three identities, two clients of one
  issuer and another issuer; two sign-ins across up to three changes. Two lives of an index with two
  writers of rows or settings at once, two settings. Two updates of one config (`configActs`), three
  acts on one source, so that a toggle fits between the read and the write of an update. A batch of
  two records with three attempts: one unanswered, one refused, one stored. Stores in which a
  service has more failing paths than `CANDIDATES`, a route more names than `NAMES`, and spans with and
  without each source of a name; three services for a `SERVICE_LIMIT` of 2 (one of them with the empty
  name), so that the services cut, the failures cut and both cut all happen, the busiest service not
  being the one that fails most; requests with an empty name or route; two spans arrive late.

The bounds (`MaxTime`, `MaxVersion`, `MaxQueue`, `MaxResets`, `MaxClock`, `MaxBoots`, `MaxActs` and so
on) and the sets limit the runs only; the theorems hold for all their values. Deadlock checking is
off where the system may stop: in *accounts*, where removing every account leaves nobody to act, and
in *web*, *api*, *prefs_defaults* and *views*, whose parts end when their acts are used up.

### Fairness

Only `reload` needs it. `Fairness` is weak fairness of a reload that can go on, of the retry timer,
and of the call of `reloadAuth` after a commit: the event loop runs a settled promise's continuation
and a timer that is due, fetches have a timeout (`oidc.service.ts`), and a SELECT answers or fails.
Nothing is assumed of administrators, restarts, issuers, or the database, so `SsoRestored` is
conditional: if from some moment on the process stays up, the configured issuer stays reachable and
no reload is lost to the database, the instance ends up serving it.

For the parts of the web app the question "does the spinner end" is asked as an invariant
(`BusyIffInFlight`, `NoSpinnerForever`: busy if and only if a request is out that will clear it),
because every request is answered, fails or is aborted, and nothing else would have to be fair.

## Findings

- `DeletedKeyStopsAtOnce` (`api-key.service.ts:175`): a lookup that read the row before the DELETE
  and resumes after the flush caches the key again, and later requests are accepted for up to
  `POSITIVE_TTL`. `apps/api/tests/api-keys.test.ts:162` says "a deleted ingest key stops working at
  once, not when its cache entry expires".
- `OutageNeverStrands` (`lib/auth.ts:186`): the retry after an IdP outage meets one failing SELECT;
  its rejection is logged, no timer is armed, and SSO stays off, against the comment at line 181.
- `OneLiveInvite` (`auth.service.ts:77`): two reissues of one account at once leave two invites that
  both open it; `apps/api/tests/invite.test.ts:55` says the reissue invalidates the previous one.
- `PausedIsExplained` (`search.svelte.ts:495`): a fresh search that fails while a fold is open clears
  the rows and not the fold; auto-refresh then stays paused with nothing on screen to explain it,
  which the comment at line 207 sets out to avoid.
- `DefaultsStayDefault` (`search.svelte.ts:696`): an edit of line wrap made after another index was
  chosen and before its preferences load saves the columns of the index left for the new one;
  `CHANGELOG.md:148` says that default columns remain defaults, "including while preferences load".
- `ViewsOfThisIndex` (`ViewsDropdown.svelte:153`): a view whose creation is answered after a switch of
  index is put into the list of the new one; `CHANGELOG.md:231` says that switching clears the
  dropdown "instead of leaving the previous index's views on screen".

## Proofs

Everything in the modules ending in `Proofs` is proved by tlapm from the named assumptions on the
constants. They say that sentinels are not members of the sets they extend, that bounds and TTLs are
naturals, and for the pages of a search that a corpus is finite and that two logs differ in their
second or in their place within it (`ContextAssumption`, `ListPagingAssumption`), which is what a sorted
answer with an offset rests on; for a trace that times are naturals, and for the health pages that a
store is a finite set of spans that all have a name and a service, perhaps the empty string
(`TraceViewAssumption`, `ServiceHealthAssumption`).
No theorem depends on the size of a set or on the value of a bound.

What recurs by its data is proved too. The induction theorems of the library take the property as an
operator, which the provers here cannot instantiate; `Counting` states induction with the property as
the set `Good` of what has it (`SubsetInduction` over the subsets of a finite set, by
well-foundedness, and `CountingUp` over the numbers). A fold or a recursive function is a CHOOSE of a
solution of its equation: where a proof needs its value, a lemma says that there is a solution
(`SumSolvable`, `WalkExists`, `SweepExists`), and where it matters which, that there is only one
(`SolutionsAgree`). From that follow the laws of sums, and that finitely many values have a smallest
and, by any weight, a top (`MinIs`, `HasTop`). None of the proved modules has a RECURSIVE operator.

- **`IngestKeysProofs`.** `IInv` adds to the type invariant that the table agrees with the ledger
  (`TableOK`) and that every answer a lookup holds and every cache entry was *witnessed* in the table
  at a moment no earlier than the instant its request read the clock (`LookupsOK`, `CachesOK`).
  The staleness bounds alone are not inductive, for a verdict comes from an entry written long
  before. A witnessed fact stays so because keys are granted once and removed once
  (`WitnessedStable`). From it follow `StalenessEnds` and, step by step, `Implements`: the cached
  service refines `KeyRevocation`. `Revocation` needs one invariant more (`RevocationOK`: what may
  still be written to a cache, so a lookup that holds the row too, counts as cached);
  `WellFormedAlways` needs only the types.
- **`AuthReloadProofs`.** `Chained`: at most one reload runs, and a request's reload, of which there
  is at most one, is queued or running only while the request waits. `Ordered`: versions only grow
  from what was acknowledged to what is live, to what the running reload has read, to what is stored,
  and a running reload has read at least the write of the request that waits for it. They give
  `AckedAreLive` and half of `NothingComesBack`; the other half follows from "no provider is stored
  while the environment manages it". `Watched` strengthens `MismatchWatched` to reloads under way:
  what they are about to install is the configured provider, or the timer is armed, or another
  reload is pending. The exception for `faulted` is needed, as `reload_faults` shows.
- **`AccountsProofs`.** `OneFirstAdmin` is inductive with the types alone; `AnAdminRemains` needs to
  know that an authorised request knows its actor (`ActorKnown`). `DeadInvitesRefused` needs that
  invites only age (`InvitesAge`), that every call knows the invites older than itself (`CallsKnow`)
  and that dead invites are buried (`Buried`). `ResetsEndAccess` needs `ResetKnows`: while a reset
  runs it knows every session and the credential row it has yet to clear, or what it misses has been
  noted as late.
- **`SearchStoreProofs`.** `StoreInv`: of each kind at most one answer is out that will be looked at
  (`OneOut`), it is an answer to what is shown (`SearchInv`, `PageInv`, `HistogramInv`, `ConfigInv`),
  and the pages of the rows follow each other (`PagesInv`). A step that starts a request aborts or
  finds gone the one before, which keeps `OneOut`; whatever arrives is then of the present view.
- **`ApiProofs`, PersonalKeys.** `KeysInv`: rows are typed, ids are not reused, and the key an admin is about
  to delete was given out and is a service account's for as long as its row is there (`DoomedKeys`).
- **`ApiProofs`, Boot.** `BootInv` places each process against the row (`PlacedAt`): one that reads was told
  by a conflict that there is a row, and one past the secret has the row's or the variable's. The
  row never changes once it is there, which makes it `SecretForGood`.
- **`ApiProofs`, ProviderSessions.** `ProviderInv`: whatever did not overlap a change is current, matches
  its account and is linked (`AccountsInv`, `CallbacksInv`, `SessionsInv`), and an open transaction
  either keeps the identity or catches everybody who did not sign in across it (`ChangeInv`).
- **`ApiProofs`, IngestProxy.** `ProxyInv`: attempts are numbered, only the last may be awaited and
  every other one went unheard (`AttemptsInv`); what an attempt stored and what it will report as
  rejected add up to the batch, unless its body was empty and chunked (`DeliveredInv`); what the exporter
  is told may be less only where the answer cannot be read. The four parts of `BatchesAccountedFor`
  are not inductive without the sum: what an exporter counts as stored comes from an answer given
  steps before.
- **`ApiProofs`, IndexRows.** `RowsOfIndexInv`: who is about to write for a life that is over has
  crossed its end (`WritesInv`, `SavesInv`), and a deletion has taken every row of its life, but for
  the tables it has yet to clear (`DeletionsInv`).
- **`ApiProofs`, IndexConfig.** `FieldsInv` carries the absence of duplicate fields, and the form
  Quickwit gives a config (`Plain`: no mapping without a dynamic mode, no changed limit without a
  partition key), from the stored config to every config an update has read, and there says that the
  update adds none of the fields it read: that is what `findFieldCollisions` establishes and what
  keeps two overlapping updates from mapping a field twice. `UpdateIs` says part by part what
  `toUpdateIndexRequest` writes; `FormKeeps`, that the form of any `Plain` config writes it back as it
  was. `SourcesInv` says that no source ever read has the mask for a secret, and that until requests
  overlap the update under way has read what is stored.
- **`ApiProofs`, ServiceHealth.** `HealthInv`, with `SeenInv`: every answer was computed from some of the
  spans now stored, and from all of them while none arrived. That is all `NumbersHold` needs of the
  steps; the rest is counting. The searches by source are of disjoint spans, whatever each has seen, and
  within one the spans of different rows are disjoint, so the rows add up to no more than there are
  spans (`CountedOnce`); without arrivals a row of failures is the failing part of the row it joins or
  was cut, and with room at every limit nothing is cut (`EndpointsExact`). The busiest services are
  chosen by weight (`BusiestAre`), so a row of the list counts its service and whoever was left out weighs
  no more (`BusiestListed`); when the row of the others is empty every service is listed, and then, the
  failing ones being among them, every failing one is too (`WholeList`, `WholeListCounts`).
- **`ApiProofs`, together.** A behaviour of `MCApi` is one of every part (`ApiPartsAlone`), so that the
  types of the parts hold in the composition (`ApiTypeCorrect`).
- **`ContextLoaderProofs`.** `CtxInv` follows each side by the first second of its next window
  (`Edge`). `ReachInv`: what was there and lies short of it is listed, of the edge's own second at
  least as many rows as the offset says, and the empty windows since lie between. A page is cut out of
  the answer by rank, the number of rows ahead of a row (`Rank`), so what a page holds follows from
  counting: ranks of a finite set are the numbers below its size, one each, they only grow when logs
  arrive, and in the first second of a window the rank in the answer is the rank in the second. Hence
  an arrival between two pages can show a row again, which `#seenKeys` drops, and never hide one.
  `NoGapInv` and `EndInv` turn this into `Gapless` and `EndIsTrue`, for any page size, window, offset
  limit and logs.
- **`WebProofs`.**
  *Preferences*: `NumbersInv` orders the saves that are waiting, sent and stored, `OwnInv` says that
  every value on its way to a row was chosen for it, and `CalmInv` what the panel, the row and the
  value to roll back to have to do with each other as long as nothing overlapped.
  *SavedViews*: ids are not used again (`RowIdsInv`), and while nothing is mixed the list differs from
  the table by exactly what saves under way have stored or will (`SavesInv`, `ItemsInv`, `ListInv`).
  *FieldValues*: at most one request is not aborted, and it asks for what is on screen (`FetchesInv`);
  values are kept under the key of what was asked (`StoredInv`); an open field without values has a
  request that will bring them (`CurrentInv`).
  *ListPaging*: the rows are as many of the scope's spans as the offset says, or those of other filters
  while they are dimmed (`RequestsInv`, `OffsetInv`, `DimmedInv`, `RowsInv`); spans that arrive push
  others back over the offset and never forward.
  *TraceView*: documents come by their start, so that no span starts before the first
  (`TraceTypeCorrect`). A set with a total order has one sorted sequence (`SortedExists`). The walk
  over the tree has the invariant `WalkInv`: no span is shown or waiting twice (`ShownOnce`);
  the roots and the children of what is shown are shown or wait, and nothing else is
  (`LedThere`); while a span of a branch waits, all that was shown since the branch began is of it
  (`OneBranch`), from which a shown child is below its parent (`BelowParent`). As a walk can
  show no more spans than there are, it ends with nothing waiting before its turns are used up; every
  span is below some root, so it has shown them all (`WaterfallIsComplete`). The loop
  over the intervals has `SweepInv`: what is added up and the open interval are together the number of
  microseconds covered so far (`SelfTimesUncovered`).
  *Together*: a behaviour of `MCWeb` is one of every part (`PartsAreThemselves`), so the invariants of
  the parts hold in the composition (`SpinnersHaveRequests`, `WebTypeCorrect`).

Only model-checked, and why:

- `SsoRestored`, the one liveness property: liveness is beyond tlapm.
- The six violated properties, each a counterexample found by TLC.

## What the models leave out

- Data: tokens, names, queries, filters and rows are members of small sets; query text and time
  windows enter `SearchStore` only as the moment `#input` last changed.
- `lastUsedAt` of a key and `lastActive` of a user: written, never read by a decision.
- Two credential rows of one account, the consequence of redeeming both invites of
  `accounts_two_invites`.
- Several API processes for `AuthReload`: only the process that served a settings request reloads;
  the repository mentions several only in a rolling update (above `syncOidcEnvIdentity`).
- A retry timer that fires while `initAuth` still builds: `TimerFires` needs a serving instance,
  as the build at boot reaches no network once OIDC is dropped.
- Better Auth itself is modelled from its use: password check, session insert, account insert, key
  lookup.
- Google and GitHub as providers: one issuer each, the same unlinking without the change of identity;
  the GitHub organization check is one request inside a hook.
- How exact a count of Quickwit's is when a split holds more keys than `shardSize`, and the names the
  picker offers on the page of one service.
- `SearchStore` has neither the level roster nor the sampling of fields, and a tick is one with the
  list in view.
- Percentiles, service dependencies and failing operations of the health pages; attributes, events,
  resources and colours of a trace.

Not modelled as parts:

- *Sessions and rate limits*: the checks are Better Auth's and `hono-rate-limiter`'s; what is left is
  one throttled update that nobody waits for.
- *Log, trace and database queries, MCP, export*: stateless builders of Quickwit queries. What could
  be wrong is the text of a query, which only Quickwit judges, or the formatting of an answer.
- *Cluster and metrics pages*: reads of Quickwit, reshaped.
- *Web UI*: components, forms, dialogs, charts and styles, by far most of the lines of the web app.
  Where a component holds state across an await it is in one of the modules above.
- *Generated code, migrations, Bruno collections*: nothing of its own to get wrong.

## Plan

1. For `Preferences` the abstract specification "each index has the last value chosen for it" as a
   refinement; for `ContextLoader` "a stretch of the log that only grows".
2. `IndexRows` composed with `IngestKeys` at `deleteIndex`: that an acknowledged deletion leaves no key
   that is accepted a TTL later.
3. Several processes for `AuthReload` on one `app_settings`, with the rolling update.
4. `ServiceHealth` with dependencies and failing operations, whose searches are merged the same way.
