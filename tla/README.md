# freeride-watcher: specification and proofs

TLA+ specifications of [freeride-watcher](../src), the Go service that polls the
Hertz Freerider API, matches the routes it lists against the watches of its users
and tells them by Web Push or e-mail. Each module is translated from the Go source;
`PROJECT.json` names the lines behind every definition.

1. [The system](#the-system) — components, state, interaction, hard behaviour
2. [Modules](#modules) — which module models what, and how
3. [Runs](#runs) — what TLC checks, on which instance
4. [Fairness](#fairness)
5. [Theorems](#theorems) — what is proved, from which assumptions
6. [Where code and documents disagree](#where-code-and-documents-disagree)
7. [Not modelled](#not-modelled)
8. [Plan](#plan)

## The system

One process, one SQLite file, one connection to it (`SetMaxOpenConns(1)`, db.go:27).
Every db method is one SQL statement, except `UpsertRoute` (two) and the schema;
there is no transaction in the program. Three kinds of goroutines share the file:

| goroutine | started by | what it does |
|---|---|---|
| poller | `main.run` (main.go:61) | `Fetcher.Start`: fetch, store, match, notify, wait |
| request | `net/http`, one per request | a handler of `internal/web`, behind session, CSRF and rate limit middleware |
| scan | `handleWatchNewSubmit`, `handleWatchEditSubmit` (`go s.fetcher.Scan…`) | matches one watch with the cached routes and notifies |

A fourth, `runHousekeeping`, wakes up every hour to prune sessions and rate buckets.
`run` returns when the HTTP server is down; it waits for none of the others.

| component | state it keeps | operations | interacts with |
|---|---|---|---|
| Alert pipeline (fetcher.go 104–137, 302–383) | tables `routes`, `watches`, `notified`; locals `newRoutes`, `hits`, `matched` | runOnce, notifyBatched, ScanWatchAgainstExistingRoutes, watch handlers | polling loop calls it, it calls matcher and delivery; poller and scans share the tables |
| Polling loop (fetcher.go 63–101, 212–257) | `etag`, `status`, `backoff` | Start, fetch | Hertz API; feeds the pipeline; the home page reads `status` |
| Delivery (fetcher.go 385–445, notify, handlers.go 532–604) | table `push_subscriptions` | sendWatchNotification, handlePushTest, subscribe, unsubscribe | pipeline calls it; push services, Mailgun, browsers |
| VAPID keys (main.go 67–112) | table `config`, environment | initVAPID | its public key is served to browsers, its private key signs every push |
| Matcher, parsing, watch form | none | Match, parseRoutes, displayName, buildWeekdays, hasWeekday | pipeline, watch handlers |
| Sessions, CSRF, flash | table `sessions` | sessionMiddleware, startSession, SetFlash, ClearFlash, prune | every handler |
| Accounts | tables `users`, `reset_tokens` | register, login, forgot, reset, admin's delete | sessions, e-mail |
| Rate limiter | map `rl` under `rlMu` | rateLimitMiddleware, housekeeping | POST of login, register and forgot |
| Admin | none | list, delete user, delete watch | all tables |
| Route list | none | search and paging | `routes` |
| Configuration, server, templates, service worker | none that changes | load, serve, render | all |

What makes each correct, and what is hard about it:

* **Alert pipeline.** A route that matches an active watch is announced, once, and a
  one-time watch alerts once. Hard: check (`HasBeenNotified`) and mark
  (`MarkNotified`) are separate statements; poller and scan read `routes` and
  `watches` in opposite orders; both work on snapshots of rows that requests change
  under them; "new" is known only to a local variable that a crash forgets; errors
  are logged and skipped.
* **Polling loop.** What the API lists gets stored, a 304 loses nothing, the loop
  survives failures. Hard: the ETag is remembered before the body it belongs to is
  read, and the interval, the backoff and the first run each have their own path.
* **Delivery.** An alert reaches its user, and only dead subscriptions are removed.
  Hard: lists go stale while pushes are under way, endpoints change hands, several
  goroutines deliver and delete at once.
* **VAPID keys.** A browser that subscribed stays reachable. Hard: a pair is saved in
  two statements and any start may be killed between them.
* **Matcher.** A route matches exactly when a reader of the form would say so. Hard:
  weekday numbering, window boundaries, separators.
* **Sessions and accounts.** A session that has ended serves nobody, an address has one
  account, and a message is seen before it is cleared. Hard: a request reads its session
  once and goes on using the copy, while other requests log out, delete the user or
  write to the same row; responses reach the browser in any order.
* **Password reset.** Only who reads the mail of an account sets its password, and a
  link works until it has, and not after. Hard: the token is read, the password stored and
  the token marked in three statements with a slow hash between them; tokens outlive users;
  the answer is the same whichever step failed.
* **Rate limiter.** Whoever asks too often is refused, and only they. Hard: windows begin
  with requests, not with the clock, the purge deletes buckets between them, and requests
  that are refused go on counting.
* **Route list.** A reader sees what there is. Hard: every page is a count and a query, and
  the poller stores and renames rows between them and between pages.
* **Admin.** Deletes rows that other goroutines work with; see the hazards in `PROJECT.json`
  and the [plan](#plan).

## Modules

| module | models | extends or instantiates |
|---|---|---|
| `WatchAlerts` | the alert pipeline, poller and scans interleaving at statement grain | `AlertLedger` as `Ledger` (refinement) |
| `AlertLedger` | abstract: what alerting promises, whoever does it | |
| `Poller` | the polling loop and its ETag | |
| `Pipeline` | the polling loop around the alert pipeline: from what the API lists to the alert | `WatchAlerts`; `Poller` as `Loop` |
| `Delivery` | the step `Send` of `WatchAlerts`, opened up | |
| `VapidKeys` | the key pair from start to start | |
| `Sessions` | sessionMiddleware, login, registration, logout, flash messages, prune, deletion of a user | |
| `PasswordReset` | asking for a reset link and using it, beside accounts that come and go | |
| `RateLimit` | the buckets of rateLimitMiddleware and their purge, with a discrete clock | `RateLimitParameters` (its constants) |
| `Server` | the process from start to end: keys first, then requests through the limiter | `VapidKeys`; `RateLimit` as `Limiter` |
| `RouteList` | the pages of the route list, walked while the poller stores | |
| `WatchMatch` | parsing, watch form, matcher and search as operators | |
| `Visitor` | what a visitor types, ticks and reads, against `WatchMatch`; beside it the walk through the route list | `WatchMatch`; `RouteList` as `List` |
| `MC…` | the instances TLC checks: constants and symmetry; `Poller` and `Server` need none | the module they are named after |
| `…Proofs` | theorems and their lemmas; `PipelineProofs` has those of `WatchAlerts` too, `ServerProofs` those of `VapidKeys`, `VisitorProofs` those of `WatchMatch` and `RouteList` | the module they are named after, `TLAPS` |

Definitions marked `Mutant:` are wrong on purpose: each is a plausible bug in the
action below it, and replacing the action by it makes TLC report the property that
`PROJECT.json` pairs it with. They take part in no specification.

**WatchAlerts.** `routes`, `watches` and `notified` are the tables, reduced to what the
pipeline reads; a row that does not exist is `None`. `pc`, `batch`, `fresh`, `form`,
`todo`, `hits`, `cur` and `toMark` are the goroutines' locals: `fresh` is `newRoutes`,
`hits` is `hits` of `notifyBatched` and `matched` of the scan, `todo` the pairs the
loop has still to look up. One action per db method, so two goroutines interleave
exactly between statements; loops over sets take their elements in any order, which
covers the order of the code. `UpsertRoute` is one step although its code is two
statements: the second (the update) is only reached if the row exists, and no other
code deletes routes. A scan keeps the row it was handed; a request that starts one is
free for its next user, so `Requests` bounds the requests *and* scans under way.
`matcher.Match` is a constant relation here, refined by `WatchMatch`; a different
goroutine may see a different name for the same route, and the model lets it.
`log` is a history of the calls of `sendWatchNotification`. `Spec` lets the process be killed
anywhere (`Crash`); `LifeSpec` is one life of it (`Living`), for the properties that hold of one life
only. `alerts_core` and `alerts_batches` check one life, `listed_alerted` the restarts.

**Poller.** `etag` is `{}` or `{L}`, where `L` stands for the tag the API gives to the
listing `L`. `answer` holds what is still to be upserted. The interval and the
backoff take time, not steps; only the order in which they follow each other and the
value of `backoff` (in seconds, the first backoff being one, up to `MaxBackoff`, 600 in
the code) are kept. `seen`, `lost` and `fails` are history: the listing last heard of, the
routes a broken or empty body or a failed upsert cost, the failed runs in a row. A server that knows
the tag may answer 304, and may send the body all the same (`OK`). An empty body is a success with
no routes (`EmptyBody`); an entry without a departure, which `parseRoutes` skips, is not part of
`listing`.

**Pipeline.** The two modules meet in the goroutine that `main.run` starts: `at` is where it is
in `Start`, `runOnce` and `fetch` (the `pc` of `Poller`), `pc[Fetcher]` where it is in what
`runOnce` does with routes, and the loop stands in `"store"` meanwhile. `Poller`'s `stored` is
the set of routes that have a name in `WatchAlerts`' table. `Parse` hands the answer over under
whatever names the API lists now, `Store` is one `UpsertRoute` in both, `Notify` the rest of the
run, and `Return` waits for it: `runOnce` stores the status after `notifyBatched`. `Restart` is
the crash of both. `interrupted` is a history: the pairs of user and route that some goroutine of
a killed process still had to look at or to alert. It is what no later process can know of, and
the one excuse, with `lost`, that `ListedIsAnnounced` allows.

**Delivery.** An endpoint stands for one push subscription of one browser: it comes
into being, lives and dies once, and a dead one is answered 410. The table maps it to
an account. `DeleteUser` leaves that row alone, and the poller still has the user's watches, so
deliveries to `accounts` that are gone go on and only their e-mail stops; an insert of a
subscription that was under way succeeds. A delivery reads its list (`Load`), tries the rows in any order, deletes
those that answer 410, and falls back to e-mail only if the list was empty. A test
notification runs through the same steps without the fallback. A row can be registered
by a request that was under way when its browser died (`late`, a history); `told` and
`failed` are the history of one delivery.

**VapidKeys.** Pair `n` is public key `n` with private key `n`; 0 is the empty string.
`subs` are the public keys browsers ever subscribed under.

**Sessions.** `users` and `sessions` are the tables; `sessions` keeps the user, the flash and
whether `SessionMaxAge` has passed. `lastUser` is the AUTOINCREMENT that never issues an id
twice. A request goes through the middleware (`GetSession`, `GetUserByID`), which puts the
session as it was read into `ctx`, then through its handler, one statement per action:
a page (`RenderPage`, `ClearFlash`), a form that is done (`SetFlash`, for any of the handlers
that redirect with a message) or refused (`RenderOwn`), login, registration, logout. `reply`
is the Set-Cookie of the response and takes effect when it arrives, in any order; where the
code sends two for the same name, the later one counts. The token
and the message a request will generate are drawn when it begins, which makes them unique
without an action of their own; a right password and a refused form are left to chance.
`DeleteUser` leaves sessions behind (the driver does not enforce the foreign key), and
`CreateSession` may even add one for a user deleted meanwhile. `ended`, `doomed`, `shown` and
`alone` are history.

**PasswordReset.** `users`, `lastUser` and `links` (`reset_tokens`) are the tables; of a user
the address and the link that set the password are kept, of a link whose it is and whether
it is used or expired. `mail` is where a link went: its address, or the log, where the code
writes links it could not mail. Anybody who can read a link (`mail[l] # None`) may submit it,
any number of times, in several requests at once. `who` is the user id a goroutine has read:
by the time it is used the user may be gone (`UpdateUserPassword` then changes no row, and
that is no error), and the address may belong to a new account. `GetResetToken`'s checks of
the form come before it and are left to chance; without Mailgun `Send` succeeds and the link
goes nowhere, which is less than the model lets happen. `born`, `life` and `meant` tell
two registrations of one address apart; `stored`, `answered`, `unmarked` and `late` are
history as well. Another request of the same user cannot be told from the first: the code
remembers links, not people.

**RateLimit.** Time is a counter of ticks. `rateLimitMiddleware` reads the clock twice when it
opens a window, so `Open` may let a tick pass; everything it does with the map is under one
lock, hence one action. The ticker of `runHousekeeping` is once an hour and a window is five
minutes; `Purge` may happen at any time, which is more. `passed` and `began` are history: when
requests were let through, and when their windows began. The address is a model value:
`clientIP` takes the last of `X-Forwarded-For`, which the README of the service asks the
proxy to set.

**Server.** `run` brings up the keys before it serves (`pc = "up"` of `VapidKeys`); a kill takes
the buckets, not the keys; the clock goes on between processes. The constants of the limiter
are in `RateLimitParameters`, so that both modules share their assumption.

**RouteList.** A row is its rank in `ORDER BY departure_at DESC`, which the UPDATE of
`UpsertRoute` leaves alone; `rows` are those the query finds, so a rename may take one out
(`Rename`) or bring one in (`Store`). A request is two statements, `CountSearchRoutes` and
`SearchRoutes`, either of which may fail and is then logged and treated as empty. The reader
opens page 1 and follows Prev and Next. `unseen`, `raced` and `broken` are history.

**WatchMatch.** Strings are sequences of characters; library functions (`TrimSpace`,
`ToLower`, `Split`, `Atoi`) are modelled by what they do on them, with quantifiers over positions
rather than recursion, so that they can be reasoned about. There are two lower cases: `Lower`, of
`strings.ToLower`, folds every letter, and `ASCIILower`, of SQLite's LIKE, leaves those beyond ASCII
(`Beyond`) alone. `SearchFinds` is the LIKE of `SearchRoutes`, for words without `%`.

**Visitor.** The form as the browser sends it, and what its author may expect: the place typed
*occurs* in the place shown, the departure *reads* between the times typed (compared as text), and
its day is among the days *ticked*. `Chars` is any alphabet with its lower case; the time inputs of
the form send a clock time as `HH:MM`, which the module's assumption says, or nothing. `SearchFinds`
and `RouteList` stand beside it, so that one run checks all a visitor sees.

## Runs

The properties in the last column are the INVARIANTs and PROPERTYs of the run's cfg.
`sessions` and `keys_restart` are the largest, with three million states each; `resets` has two
million, `delivery` 1.25 million, the others up to 710,000.

| run | instance | shows |
|---|---|---|
| `alerts_core` | 1 watch, 1 route, 2 requests + poller; create, edit, delete; upserts, edits and deactivations may fail; fair | `NoMissedRoute`: no interleaving of scan, edit and poll loses an alert; `OwedIsInHand`, its inductive form; `OwedIsPaid`: what is owed is marked in the end |
| `alerts_batches` | 2 watches of one user, 2 routes, 1 request; reads may fail, pushes may hang; fair | `MarkedBeforeSent` for alerts of several routes; `MarkedIsSent`: no mark silences an alert that was not sent; `OneTimePolledOnce`; `KeepsLedger`: the refinement of `AlertLedger`; `PollerReturns`: whatever a run found and whatever failed, the poller comes back from it or hangs in a push |
| `poller_runs` | 2 routes, cap 5; requests, bodies and upserts fail, bodies are empty, crashes, relisting; fair | `CachedTagMeansStored`, `StatusHonest`, `BackoffDoubles`, `ListedIsStored` |
| `listed_alerted` | module `Pipeline`: 1 watch, 1 route, 2 criteria, create, edit and delete; requests, bodies, upserts and marks fail, crashes anywhere, relisting; fair | `ListedIsAnnounced`: while the home page shows a fetch without an error, what that fetch listed has been announced to the owner of every active watch it matches; `ListedIsAlerted`: a route that stays listed is announced in the end; `FetchNeverRepeats` and `SettledStaysSettled` over restarts |
| `delivery` | 2 users, who may be deleted, 2 endpoints, 2 senders; everything may fail | `LiveRowsStay`, `ReachedOrHealed` |
| `keys_restart` | module `Server`: up to 3 pairs, killed starts, failing saves; 2 addresses, limit 2, windows of 2 ticks, 6 ticks | `BrowsersReachable`; `BurstBound`: never more than twice the limit in any stretch as long as a window; `RefusedForCause`: who is refused has used up a limit within the last window |
| `sessions` | 1 browser, 2 requests at a time, 1 address, 2 accounts ever, 2 tokens, 3 messages; everything may fail | `EndedStaysEnded`, `NoServiceAfterEnd`, `OneAccountPerEmail`; `FlashIsSeen`: a message leaves its session only when it has been shown, or when a redirect that was handed it puts another in its place |
| `resets` | 2 requests at a time, 2 addresses, 2 accounts ever, 2 links; everything may fail | `OnlyOwnersReset`, `NoLateReset`, `UsedMeansDone`, `MailedLinksWork` |
| `match_typed` | all combinations of days, boundary times and boxes; all names of up to 6 characters over a letter, blank, `/`, `&`, and short ones with either case of a letter of ASCII and of one beyond; lists of up to 6 rows in pages of 2 | `MatchesAsTyped`, `EditKeepsDays`, `ShownByName`; `SearchListsMatches`: a search finds what a watch announces, unless a letter beyond ASCII is in the other case; `WalkIsComplete`: who follows the links sees every row |

Three more runs show [disagreements](#where-code-and-documents-disagree).

Why the bounds are enough. One watch and one route already give every race on a pair,
since pairs only meet through the watch's row (edits, one-time) and the user's entries
in `notified`; the second watch adds the shared account, the second route the batch.
Two requests give two scans and an edit that races both. What the invariants say of
larger instances is [proved](#theorems). Two endpoints and two senders give a stale
list, a row that moves and a concurrent delete. In `Pipeline` the one route can be lost,
withdrawn and relisted, under a 304 or a new tag; the second criterion lets an edit take a watch
away from it and back. Its API tags every answer, for untagged ones are the matter of `poller_runs`,
and it draws one jitter. `MaxBackoff = 5` is no power of two, as
the code's 600 is none; `MaxFails = 5` goes past the cap. `MaxPairs` and `MaxFails`
bound a counter and a history. A name of six characters holds two separators and
what surrounds them. Six rows are three full pages, or two and a half; a page of two can be
full, half full or missing. A limit of two with windows of two ticks lets a burst fall around
the end of a window, and six ticks hold three windows; `MaxCount` bounds how often a refused
address asks again, `MaxTime` the clock. In `resets` two requests may hold the same link at
different steps, or one of them asks for a link while the other uses one; the second account is
the next owner of the address or, in the mutant, of the id. In `sessions` two requests of one browser give every race on a row (a page
against a form, a logout against either, two registrations of one address), two tokens let a
login supersede a session, a second account lets an address be registered again after its user
was deleted, and three messages let one be cleared that is neither the first nor the last;
requests that would need a fourth message or a third token cannot begin, so behaviours end there,
as far as new logins and messages go. `Symmetries`
of `MCDelivery` and `MCSessions` permutes model values that no property names; no run with a liveness
property uses symmetry. Mailgun is configured in the runs of `Delivery`; without it an
e-mail is a step that tells nobody (the theorem covers it).

Every run but `alerts_batches` and `resets` checks for deadlock: the pipeline, the poller, the
deliveries and the requests can always go on. In `alerts_batches` the poller may hang in a push for
ever, and watch ids are used up. In `resets` accounts and links are used up for good, so an instance
may come to rest with no link anybody can read and nobody left to ask for one.

## Fairness

`WatchAlerts!FairSpec`: weak fairness of the poller's and each request's own steps. The
Go scheduler runs every runnable goroutine, each statement returns (one connection in one
process, so none waits for a lock of another; the busy timeout in the DSN is a parameter this
driver does not know), and each HTTP call of the fetcher and of Mailgun has a timeout. A push
has none, so fairness says nothing about `Hang`, and a hung goroutine stays so: `alerts_core` has
`"Send"` out of `Faults` for `OwedIsPaid`, `alerts_batches` has it in, and `PollerReturns` names the
hang as the one way a run does not end.
`RunOnce`, users and crashes are never obliged to happen.

`Poller!FairSpec`: weak fairness of the loop; strong fairness of the API's answers and of
readable bodies: an API that is asked again and again does answer at some point; and
`<>[][~Crash]_vars`: the process is not killed for ever. These are assumptions on the API
and the machine, not on the code. They do not help `listing_lost`, where the body that
would be readable is never asked for.

`Pipeline!FairPipeline` is both, of the composition: weak fairness of the poller's own steps and
its waits and of each request, strong fairness of answers and of readable bodies, and a process
that is not killed for ever. What a killed process had in hand may never be alerted, so both
properties of `listed_alerted` excuse it by name (`interrupted`); pushes that hang are left out of its
`Faults`, for one of them ends the poller's work.

## Theorems

For every value of the constants that satisfies the module's assumption:

| theorem | states | assumes |
|---|---|---|
| `TypeCorrect`, `PollerTypes`, `PipelineTypes`, `DeliveryTypes`, `VapidTypes`, `SessionTypes`, `ResetTypes`, `LimiterTypes`, `ServerTypes` | `Spec => []TypeOK` | |
| `AlertsAreMarked` | `MarkedBeforeSent` | `MarkNotified` does not fail |
| `AlertsSettle` | `SettledStaysSettled` | |
| `PollerNeverRepeats` | `FetchNeverRepeats` | |
| `MarksAreSent` | `LifeSpec => []MarkedIsSent` | |
| `OwedRoutesAreHeld`, `NothingIsMissed` | `OwedIsInHand`, `NoMissedRoute` under `LifeSpec` | `Steady` |
| `OneTimeIsPolledOnce` | `OneTimePolledOnce` under `LifeSpec` | `Undisturbed` |
| `ImplementsLedger` | `KeepsLedger` | `MarkNotified` does not fail |
| `TagMeansStored`, `StatusIsHonest` | `CachedTagMeansStored`, `StatusHonest` | |
| `BackoffIsPower` | `BackoffDoubles` | |
| `PipelineKeepsAlerts`, `PipelineKeepsLoop` | `PipelineSpec => Spec`, of `WatchAlerts` and of `Poller` | |
| `ListingIsAnnounced` | `ListedIsAnnounced` | `Steady` |
| `LiveRowsAreKept` | `LiveRowsStay` | |
| `SilenceIsHealed` | `ReachedOrHealed` | |
| `KeysSurvive` | `BrowsersReachable` | `GetConfig` does not fail |
| `SessionsEnd` | `EndedStaysEnded` | |
| `SessionsServeTheLiving` | `NoServiceAfterEnd` | |
| `AccountsAreUnique` | `OneAccountPerEmail` | |
| `FlashesAreSeen` | `FlashIsSeen` | |
| `BurstsAreBounded`, `ServerBounded` | `BurstBound` | |
| `RefusalsHaveCause`, `ServerRefuses` | `RefusedForCause` | |
| `ServerKeepsKeys`, `ServerKeepsLimiter` | `ServerSpec => Spec`, of `VapidKeys` and of `RateLimit` | |
| `ServerReachable` | `BrowsersReachable` of the composition | `GetConfig` does not fail |
| `OwnersOnly` | `OnlyOwnersReset` | |
| `LateChangeNothing` | `NoLateReset` | |
| `UsedOnlyWhenDone` | `UsedMeansDone` | |
| `MailedLinksHaveRows` | `MailedLinksWork` | |
| `AnnouncedAsTyped`, `EditsKeepDays` | `MatchesAsTyped`, `EditKeepsDays` | |
| `NamesAreShown`, `MatchesAreListed` | `ShownByName`, `SearchListsMatches` | |
| `NothingIsSkipped`, `VisitorSkipsNothing` | `WalkIsComplete`, of `RouteList` and of the composition | |

`Steady`: a route keeps its name, all routes fit under the scan's LIMIT, and no read and no mark
fails. Pushes may hang, and upserts, edits and deactivations fail. Each part is needed; the end of
[the next section](#where-code-and-documents-disagree) says what each costs. `Undisturbed`: no edits,
and `DeactivateWatch` works. `LifeSpec` is one life of the process, `Spec` lets it be killed and
started again: what a killed process had in hand is the matter of `ListingIsAnnounced`.

The arguments, in a line each:

* *Types* need `Control`: what a goroutine holds follows from where it is (a request that
  edits or scans has a form, one that marks has a current watch).
* `MarkedBeforeSent` needs `HitsMarked`: at the mark loop, what is no longer in `toMark`
  is on record.
* `SettledStaysSettled` is an action property: `HasBeenNotified` is the only step that adds
  to `hits` (lemma `Writers`), and it adds only pairs off the record or, when it fails,
  none.
* `FetchNeverRepeats` needs `PolledOnce`: what the poller alerted is stored, so it is never
  in `fresh` again, and a snapshot's pairs are in `todo`, in `hits` or alerted, one at a time.
* `NoMissedRoute` is not inductive: in the middle of the work routes are owed. `OwedIsInHand`
  says where they are, and `NamesKept` that poller and scan see the same names. A scan that
  reads `routes` before the poller stores `r` leaves `r` to `fresh`, because the poller
  reads `watches` after it stored, and the row was there before the scan began.
* `OneTimePolledOnce` needs `Spent`: a one-time watch the poller alerted is inactive or the
  poller is about to deactivate it.
* `KeepsLedger`: `UpsertRoute` and everything else that leaves `notified`, `hits` and `log`
  alone stutters; `HasBeenNotified` claims, `MarkNotified` records, `Send` alerts.
* `MarkedIsSent` needs `MarksHits` (what is being marked is among the hits of the watch that is
  about to be alerted) and says of the rest that it is on its way: in the hits of a goroutine that
  marks, or hangs (lemmas `Keeps`, `SentStep`). A hung goroutine is not quiescent, so nothing is
  claimed of its marks; a killed one is the exception.
* `PipelineKeepsAlerts` and `PipelineKeepsLoop` map each step of the composition to one of either
  part or a stutter: only `Store` changes which routes have a name (`NotifyKeepsRoutes`).
  `PipelineTypes` carries the types over and adds `Coupled`, where the goroutine is in both.
* `ListedIsAnnounced` puts them together. `StatusHonest` of the loop says that what was listed is
  stored or lost; `Handed`, that a stored route an active watch is owed is in a goroutine's hands or
  was in those of a killed process; `Known`, that a pair on record is alerted, on its way, or was
  in such hands; and by `Coupled` nobody holds anything between runs. `HandStep` and `SentStep` are
  the steps of a living process (`Living`), `RestartStep` the only one that adds to `interrupted`.
* `CachedTagMeansStored` and `StatusHonest` need `Settling`: what is not stored of a tagged
  listing is still in the answer in hand, or was lost.
* `BackoffDoubles` needs that the power is what its recursive definition says for every number of
  failures, not only up to some bound: if not, there is a least one where it is not (`WFMin`,
  lemmas `Least`, `Chains`, `DoubledDef`).
* `LiveRowsStay` needs `GoneIsDead`: an endpoint about to be pruned is dead, and a dead push
  subscription does not come back to life.
* `ReachedOrHealed` needs `Tried`: unless a call of the delivery failed, every row tried so far
  accepted, or is dead and pruned, or is about to be. Lemma `RemovedStays` carries it over the
  steps of others.
* `BrowsersReachable` needs `Settled`: a saved private key is saved with its public half, and
  once it is saved no start generates again.
* `EndedStaysEnded` needs `Births`: until its `startSession` a token is in the hands of one
  request at most and nothing refers to it, so no row is added under a token that has ended;
  every other write to a session changes a row that is there (lemma `RowsFrom`).
* `NoServiceAfterEnd` needs `Births` (the token a request was sent with has been born, so its
  row does not return), `Created` (ids named anywhere have been issued, so a user who is gone is
  gone for good) and `Dooms`, which says where the request finds out.
* `OneAccountPerEmail` is inductive: `UsersFrom` says that an account appears only under
  a free address.
* `FlashIsSeen` needs `Notices` (until its redirect a message is in the hands of one request and in
  no row, the counterpart of `Births`) and `Copies`: what was set while nobody else was on the
  session is what every request on it has read since, so the page that clears it has shown it.
  `FlashFrom` says who writes the column: a page that has shown the message, or a redirect, which
  holds a copy of what it overwrites (`Supersedes`).
* `BurstBound` needs `WindowInv`: the requests let through in the window of a bucket are the
  last ones of the history and begin together (`Suffix`), `count` capped at the limit says how
  many they are, and windows do not overlap (`Orderly`), whether a bucket was replaced, purged or
  forgotten (`AllOver`). Of `2 * Limit + 1` requests in a row the first and the last are then two
  windows apart. `RefusedForCause` follows from the same suffix.
* `ServerKeepsKeys` and `ServerKeepsLimiter` map every step of the process to a step or a stutter
  of either part; the other theorems of `Server` are theirs, carried over.
* The five of `PasswordReset` share one invariant, `Inv`: what a request has read (`AskingOf`,
  `SettingOf`), what a link stands for (`LinkOf`) and what an account was given (`UserOf`). It
  survives the steps of others since tables and history only move one way (`Later`): a link once
  shut stays shut and keeps its user, an id once gone is never given again, what was mailed stays
  where it went. Lemmas `RequestKept`, `LinkKept` and `UserKept` say so once, and each action has
  its own for the one request, link or account it changes.

* `MatchesAsTyped` rests on `ClockOrder`: clock times compare as texts as their minutes do, both
  padded to two digits; the days go through `Split` and `Atoi` of what `buildWeekdays` joined.
  `ShownByName` follows from what `TrimSpace` and the first separator leave (lemmas on `TrimSpace`),
  `SearchListsMatches` from what `strings.Contains` of two lowered texts says of the texts themselves
  (`Contained`) and from where the two lower cases agree (`Folds`): an occurrence without a letter
  beyond ASCII in the other case is one for LIKE too (`Listed`).
* `WalkIsComplete` needs `Walked`: the rows the reader has not seen are those beyond the pages read,
  as many as their ranks say (`RankTaken`), unless one was moved meanwhile. Pages are cardinalities,
  counted with the library's lemmas on finite sets.

Every invariant and every action property of the passing runs is proved. Model-checked only:
liveness (`OwedIsPaid`, `PollerReturns`, `ListedIsStored`, `ListedIsAlerted`), because fairness is
ENABLED and the prover has no rules for that, and every violation.

## Where code and documents disagree

Each is a run that TLC must find violated, with a finding in `PROJECT.json`.

| run | what the code does |
|---|---|
| `once_per_route` | two watches of one user and one new route: two alerts ("once per route, no spam") |
| `one_time_scan` | a scan's alert does not deactivate a one-time watch: the poller alerts again |
| `listing_lost` | the ETag is kept though the body broke or was empty, or an upsert failed: 304 from then on |

More of the kind, met while modelling. The first thirteen lie within the models (the constant,
property or action that shows each is named); no run repeats them.

* If every subscription of a user answers 410, neither push nor e-mail reaches them, and the pair is
  already marked: the fallback looks at the list read before the pushes (fetcher.go:421 against
  the comment above it, "if user has no active push subscriptions"; `FallsBackToMail` of `Delivery`).
* Two requests with one link that are under way together are both answered "Password updated", and
  the password of the later one stays (handlers.go:279–295; why `NoLateReset` is about requests sent
  after the link was closed).
* A reader of the route list may miss rows: if a rename takes one out of the search, the rest move
  up across the page border, and a route stored between the count and the page can leave the last
  rows without a link (handlers.go:619; `broken` and `raced` of `RouteList`).
* A route stored before a crash is not new after it, and no watch is told of it (fetcher.go:129;
  `NoMissedRoute` holds for `LifeSpec`, not for `Spec`).
* A registration sets its welcome message on the session the request came with, not on the one it
  has just made, so it is lost unless somebody was logged in (handlers.go:115 against the comment of
  `SetFlash`, "stores a one-time flash message on the session"; `SetFlash` of `Sessions` with an
  empty `ctx`). "Password updated" of a reset goes the same way.
* An edit under way writes back the `active` it read and revives a watch the poller has
  deactivated (handlers.go:440; `OneTimeNotifiesOnce` with `"edit"` in `Ops`).
* A cached route that matches only after `UpsertRoute` renamed it is announced to nobody
  (db.go:395; `NoMissedRoute` with two names for one id in `Offers`).
* The scan of "all cached routes" (fetcher.go:302) sees 500 at most (db.go:405;
  `NoMissedRoute` with `ScanLimit` below the number of routes).
* A push without an answer stops the polling for good, where fetcher.go:64 says that it "repeats":
  webpush gets no client with a timeout (push.go:49; the `"hung"` that `PollerReturns` names).
* The search of the route list ("Search origin, destination or car…", routes.html:8) misses a route
  whose Å, Ä or Ö is typed in the other case, which a watch on the same words announces: LIKE folds
  the letters of ASCII only (db.go:422; the `OtherCase` of `SearchListsMatches`).
* A redirect overwrites a message that no page has shown yet: two forms sent one after the other
  leave the message of the second (server.go:414; the `Supersedes` of `FlashIsSeen`).
* `FETCH_JITTER=0s` makes `rand.Int64N` panic in the poller (fetcher.go:75; `Jitter = 0`).
* One failed `GetConfig` at a start replaces the saved key pair (main.go:76;
  `BrowsersReachable` with `"GetConfig"` in `Faults`).
* A test notification no browser accepted is answered 204, which the dashboard shows as sent
  (handlers.go:603).
* Deleting a user leaves its watches, subscriptions, sessions and reset tokens (db.go:597 against
  the comment above it, "and all their associated data (cascades via FK)"): the driver ignores the
  DSN's `_foreign_keys`. `Sessions`, `PasswordReset` and `Delivery` have their share of it
  (`DeleteUser`): the deleted user's sessions end by themselves (`NoServiceAfterEnd`), but the
  poller goes on alerting for the watches, and the browsers go on being pushed to.
* An error of the user lookup in the e-mail fallback is dropped, and `GetUserByID` returns an empty
  user with it, so the mail goes to no address (fetcher.go:422, db.go:167; `Mail` as a failure).
* A restart forgets the buckets of the limiter (`Restart`); nothing says it should not.
* `displayName` stops at the first separator of its list that occurs, so a name with two of them
  keeps a suffix (fetcher.go:203 against the comment above it).

## Not modelled

* The comparison of CSRF tokens (a refused form is `RenderOwn` of `Sessions`, by chance),
  `requireAdmin`, and that admins cannot delete themselves: a decision from one
  request alone. `WatchAlerts` has no `DeleteUser`, for a deletion changes none of its tables, and
  no statement of the pipeline reads `users`; the requests a deleted user can no longer send are
  among those its requests need not send.
* Admin page and dashboard: read-only queries for display.
* A page number typed into the URL (it may be past the end, or overflow), and `%` in a search.
  Letters beyond ASCII whose lower case is a letter of ASCII (the Kelvin sign). `Sessions` and
  `PasswordReset` are not composed: a reset ends no session, and a login compares a hash, so neither
  changes what the other reads.
* Templates, static files, service worker: presentation and code that runs in the browser.
* bcrypt, random tokens, encryption of pushes, wording of messages: one library call each.
* The text form of timestamps in SQLite, and time zones: departures are abstract
  (`Departs`) in `WatchAlerts`, and hour, minute and weekday in `WatchMatch`.
* Context cancellation: `fetch` of a process that ends fails, and the process ends; `Crash`
  covers it. The request context a scan is given is passed on and never read.

## Plan

In this order; each with an MC module, runs, mutants and theorems of its own.

1. Composition of `Pipeline` with `Delivery` (`Send` refined by a whole delivery), so that a listed
   route is followed from the API to the browser. The part from the API to `Send` is `Pipeline`.
2. Shutdown: `srv.Shutdown`, requests in flight and goroutines nobody waits for, as more than a
   crash: who is answered, and what the closed database makes fail.
3. An abstract mailbox that the flash of `Sessions` implements up to the losses named above.
4. `RouteList` with numbers of a fixed width and typed pages; validation of times.
5. Proofs: the liveness properties as far as they follow from invariants and steps (a variant that
   each fair step lowers), with ENABLED left to TLC.
