# tinycdn: a TLA+ model with proofs

tinycdn is a small CDN edge in one Go process: a caching reverse proxy in
front of origins, an admin API with a web UI, and a telemetry database. This
directory models the parts of it where the order of events matters, checks
the models with TLC on small instances, and proves the most important safety
properties for every instance with TLAPS.

The files:

| module | what it is |
|---|---|
| `SingleFlight` | abstract: one pilot per key, waiters resume after its landing |
| `FillTable` | the table of in-flight fills, `Engine.Start`'s loop, the life of a plan; implements `SingleFlight` |
| `FillTable_proofs` | TLAPS: its invariants, and that it implements `SingleFlight` |
| `BlobStore` | `BadgerStore`: records and body files, in separate steps, with crashes |
| `BlobStore_proofs` | TLAPS: damage stays with its cause, leaks end at the next start; where callers and removals behave, no dangling record, no shared body, safe removal |
| `CacheEngine` | the engine on one URL: Vary records, variants, storing, revalidation, purge, clock; composes with `FillTable` |
| `CacheEngine_proofs` | TLAPS: the engine implements `FillTable`; everybody gets their own variant where revalidations meet no Origin; what its store holds: records have their bodies, purges are final, nothing rolls back, each where it holds |
| `RuleForm` | the console's rule drawer: rule to form to rule, editing, saving; the server's validation and matching to compare with |
| `RuleForm_proofs` | TLAPS: forms keep their shape, submissions are valid, saving an untouched rule only trims it, blocks are what matches, edits stay in their block |
| `Console` | the configuration pages in several tabs, and the part of the admin API they edit |
| `Console_proofs` | TLAPS: the configuration stays in order, saves stay small, what is deleted stays deleted, buttons wait for their request, what a page offers is acceptable |
| `SequenceLemmas` | TLAPS: what `InsertAt` and `RemoveAt` do to a list and which edits of it commute, induction and recursion over numbers, for `RuleForm_proofs` and `Console_proofs` |
| `Session` | the admin session in several tabs: storage, events, tokens, 401s, two clocks |
| `Session_proofs` | TLAPS: tabs agree, and a session that is over stays out |
| `LogView` | the telemetry pages: effects, cancellation, answers out of order |
| `LogView_proofs` | TLAPS: a page shows what is asked, and no older reading |
| `MCFillTable`, `MCBlobStore`, `MCCacheEngine`, `MCRuleForm`, `MCConsole`, `MCSession`, `MCLogView` | instances for TLC, with a `.cfg` per run |

`PROJECT.json` lists the runs, the mutants that show each property can fail,
the lines of code behind each definition, the hazards and the theorems.

## 1. Inventory

### Parts, their state and how they interact

| part | code | state | operations |
|---|---|---|---|
| proxy router | `internal/proxy/router.go` | none of its own; one goroutine per request, one more per background refresh | dispatch on `PreviewRequestBehavior`, `streamFill`, `streamBypass`, `fillInBackground`, range requests |
| upstream fetcher | `internal/proxy/fetcher.go` | the directory `tmp/` | `Open` (stream), `Fetch` (buffer in a temporary file), emptying `tmp/` at start |
| cache engine | `internal/cache/engine.go` | `fills` under `fillMu` | `Start`, `CompleteFill`, `AbortFill`, `HandleFillError`, `RevalidatedResult`, `PurgeURL`, `PurgeSite` |
| range cache | `internal/cache/range.go` | chunk and object records, a `singleflight.Group` | `Handle`, fetching, storing and revalidating chunks, purge |
| blob store | `internal/cache/store.go` | Badger records; files in `blobs/` | get, put and delete of entries, Vary records, chunks and objects; `ImportBody`; prune at opening |
| configuration service | `internal/app/service.go`, `internal/config/store.go` | the configuration and its file | `Update` and the site and rule operations, purge requests |
| runtime snapshot | `internal/runtime` | an atomic pointer to the compiled configuration | `Swap`, host lookup, rule matching |
| configuration model | `internal/model` | none | normalisation and validation |
| telemetry | `internal/telemetry` | a queue of 4096 events, a batch, an SQLite file | record, flush, prune, query, close |
| admin API and sessions | `internal/admin`, `internal/auth` | none: tokens are signed | login, `Verify`, configuration, purge, queries |
| process | `cmd/tinycdn/main.go` | two HTTP servers | start, signal, shutdown |
| web UI: session | `web/src/lib/auth.ts`, `lib/api.ts`, `routes/login.tsx` | the session in `localStorage`, a copy per tab | sign in and out, expire, 401, storage events |
| web UI: rule drawer | `lib/rule-helpers.ts`, `components/rule-form-drawer.tsx` | the draft of a rule | open, edit conditions and action, save |
| web UI: configuration pages | `routes/sites*.tsx` and their forms | what the loader read, forms, `saving` | save, delete, toggle, move, create; navigate |
| web UI: telemetry pages | `routes/index.tsx`, `analytics.tsx`, `logs.tsx`, and those of a site | choices, rows, the effect in flight | choose, ask, show |
| web UI: purge sheet | `components/cache-purge-sheet.tsx` | lines typed | purge URLs, purge a site |

A request goes from the router to the runtime snapshot (site and rule), from
there with the rule's policy to the engine, and from the engine to the store.
On a miss one request becomes leader, gets a *plan*, and the **router** carries
it out: it opens the origin, copies the body to its client and to a temporary
file, and ends the plan by exactly one of four engine calls. The other
requests for the key wait on a channel. The plan's end stores the response
(several store calls), takes the fill from the table and closes the channel.
The admin API's purges call the store directly, at any time, without regard to
plans in flight. The console is a single-page application over the admin API: each
tab has copies of what it read, several requests under way, and nothing in common
with other tabs but `localStorage` and the server. All of them share the store; a store call is not atomic
either: a record and its body file change in separate steps, and a crash may
come between.

### What is hard about it, and what makes each part correct

* **Fill table.** Test and insert under a mutex; delete under it, close after
  it; every path through the router has to end its plan once. Correct: one
  plan per key, the table holds the keys with a live plan and no other,
  nobody waits for ever on account of somebody else's client.
* **Blob store.** Read, transaction and unlink are three steps, callers are
  concurrent, and the process may die anywhere. Correct: a record that can be
  found names a file that is there; no two records share a file; what leaks is
  reclaimed at the next start.
* **Engine.** A lookup is two reads (Vary record, entry), storing is up to
  four calls, and the key that is claimed may differ from the key that is
  stored under, so two fills of one URL may overlap. A plan keeps an entry
  across the upstream call and may store it again. Correct: nobody is answered
  with another variant's content, older content does not replace newer, purged
  content stays away.
* **Range cache.** Chunks of one object are fetched and replaced separately;
  the shared fetch belongs to the first caller's context. Correct: a range is
  put together from one version of the object.
* **Configuration.** Swapped in memory, then saved, then perhaps rolled back.
  Correct: memory and file agree when `Update` returns; a crash leaves either
  version whole.
* **Telemetry.** A bounded queue, batches, retention, and a shutdown that
  races the last requests. Correct: what is lost is counted or impossible;
  pages of a log neither repeat nor skip rows.

* **Session.** Every tab caches what `localStorage` holds; events that tell it of a
  change come late, answers come late, and browser and server each decide on
  expiry. Correct: tabs end with the same session, and one that is over is not
  stored again.
* **Rule drawer.** The user sees blocks joined by OR, the server a list of clauses
  that carry "and" and "or". Correct: what is shown is what is matched, what can be
  sent is valid, and saving what was not edited changes no more than
  blanks.
* **Configuration pages.** They save whole objects from copies that may be stale.
  Correct: what was deleted stays deleted, a save reaches no further than its
  part, and buttons are neither stuck nor pressed twice.
* **Telemetry pages.** Correct: the rows on the page are the answer to the present
  choices.

`PROJECT.json` has the hazards, line by line.

## 2. Plan

Order, most important first; 1 to 5 are here.

1. `SingleFlight`, `FillTable`: who fetches, who waits, who is woken.
2. `BlobStore`: records and files under concurrency and crashes.
3. `CacheEngine`: what a URL's requests are answered with. It composes with
   `FillTable` (`F == INSTANCE FillTable WITH Key <- StorageKey`, every fill
   action occurring inside an engine action) and takes store calls as atomic;
   `BlobStore` is where they are split.
4. `RuleForm` and `Console`: how a configuration is edited. `RuleForm` is one drawer
   with its drafts in full, `Console` the tabs and the server, with drafts reduced to
   what they send.
5. `Session` and `LogView`: the other asynchronous parts of the console.
6. `CachePolicy`: `decideStore`, the directives, `ttl`; pure operators against
   a reference definition, with lemmas about the order of an entry's times.
7. `RangeCache` with `RangeMath`: chunk arithmetic, object and chunk versions,
   the shared chunk fetch. Abstract counterpart: a range read is one version.
8. `ConfigService`: what is inside `Console`'s one step of `Update`: swap, save, roll
   back, next to the readers of the snapshot. Abstract counterpart: one atomic
   register that is durable when `Update` has returned.
9. `Telemetry` with `LogPaging`: queue, batch, retention, shutdown order;
   cursor pages. Abstract counterpart: a set of accepted events.

A small number of runs is kept, one per question, and a property is checked by one
run only where a second would show nothing new.

Theorems worth proving next: that `ConfigService` implements its register, and that a
range read is one version.

## 3. The models

### FillTable

`pc[r]` is where request r is in `Start`'s loop, or where the goroutine that
runs its plan is: `lookup`, `claim` (between `lookupEntry` and `claimFill`),
`wait` (in the `select`), `open`/`refresh` (foreground and background before
the origin answers), `copy` (`io.Copy` to client and file), `store`
(`CompleteFill`), `revalidate` (`RevalidatedResult`), `release` and `close`
(the two halves of `releaseFill`), `end`. `fills` is the Go map; since a
request is leader at most once, an `inflightFill` is named by its leader and
`closed` is the set of those whose channel is closed. The outcome of a lookup
and of an origin is nondeterministic.

`SingleFlight` is what is promised. The refinement maps `fills` to `flight`,
`waitOn` to `joined`, and groups `pc` into four roles.

Fairness (`FairSpec`): goroutines run; `Upstream` has weak fairness because the
fetcher's `http.Client` has a timeout; store calls return. There is
deliberately **none on `Copy`**: the body is copied to the client's
connection and the proxy's `http.Server` (`main.go:79-95`) has no
`WriteTimeout`, so a client that stops reading holds up its leader. Nor is
there any on `Cancel`. The liveness properties therefore say what they need of
clients: `WaiterFreed` only of the one client whose fill is waited for.

### BlobStore

`db` maps a key to the body its record names, `bodies` and `temps` are the files
in `blobs/` and `tmp/`. `at[p]` is where goroutine p is: a fill (temporary file,
import, `PutEntry`), a revalidation or `TouchChunkPrefix` (`Reuse`: put again the
body of a record read earlier, a revalidation perhaps under another key), a delete (`Delete` or `DeletePrefix` with its set of keys), a hit
(read the record, open the file). `PutRead`, `PutCommit` and `Unlink` are the
three steps of `PutEntry`; `PutChunk` is the same code for other keys. The process
may crash in any state, also while it opens the store, and its callers go with it.
An opening reads the names in the records (`PruneStart`), walks `blobs/` and removes
what is not among them (`PruneBody`), empties `tmp/` (the fetcher's `TidyTemp`), a file
at a time, and then serves (`Opened`); a removal that fails ends the process
(`OpeningFails`). `left` holds the files an opening has still to look at. Two history
variables serve the properties: `born`, the names given out since the process started,
and `risked`, the bodies that were put back or whose `PutEntry` failed after its
transaction. `Ops` and `Faults` say
which callers and faults a run includes. A transaction is atomic, as Badger says.
Vary records and chunk objects have no body and are left out here.

### CacheEngine

One URL, several requests. A storage key is the function from the headers of
the Vary spec to the request's values, so two requests have equal keys exactly
when the fingerprints are equal (SHA-256 is taken to be injective). The plain key
has no header. `LookVary` and `LookFresh`/`LookOther` are the two reads of
`lookupEntry`. `CompareSpec`, `DropVariants`, `Clear`, `PutVary` and `PutEntry`
are the calls of `storeResponse`, in its order; `StoreFails` is any of them
failing. `PurgePlain`, `PurgeVary` and `PurgeVariants` are those of `PurgeURL`, `PurgeSiteResponses` and
`PurgeSiteVary` those of `PurgeSite` as far as they concern the URL.
`Complete` starts storing a fill and `Renew` a revalidation: that the former
applies `effectiveVaryHeaders` and the latter does not is the code's difference.
A body is named by the request that fetched it. What the origin says is a member
of `Answers`: the result of `decideStore` for it. On a 304 the origin varies as
it did before. `Always304` is an origin that always answers 304 when asked
conditionally about its present content.

### RuleForm

The page (`stored`, `drawer`, `phase`, `request`) and the drawer's state (`form`). A
condition has an id and a clause; `InsertCondition`, `RemoveCondition`,
`ChangeField` and the others are the drawer's handlers, `RuleToFormState` and
`FormStateToRule` the conversions of `rule-helpers.ts`. A text is a word and whether
blanks surround it, which is what trimming can change. `ValidateRule`,
`MatchesRule` and `Asks` are the server's `validateRule`, `matchesRule` and what
`matchesClause` reads of a clause. The sets `Rule`, `Form`, `Condition` and
`MatchClause` are the types of `types.ts` and `rule-helpers.ts`, over the words of
`Words`. `Rerendered` is what a rendering of the page does to
the draft: the drawer's effect depends on the rule object, and the page passes a new
one each time unless an existing rule is edited. So the draft of a **new** rule starts
afresh at each rendering, also when its save has failed.

### Console

`sites` is the stored configuration, `view[t]` the page of a tab with its components'
state, `net` the requests sent. A page holds what its loader read (`data`), which
may be what the router preloaded (`Preload`: `defaultPreload: "intent"`, shown while the
page loads anew) and stays as it is until `Load`. A tab's requests may be answered in any
order, and an answer may be lost after the server has done its work (`Lose`). Going to
another page unmounts the page but not the list, the parent of all of them
(`creating`); going to the same page of another site keeps its components
(`Switched`); a loader that fails replaces everything by the root's error page.
Continuations of a component that is gone run on (`here`, `Settled`), and a finished
creation or deletion navigates the tab from wherever it is.
The service's mutators are operators on sites and rules; `Serve` is `Service.Update` as
one step, since it holds the lock while it mutates, validates, saves and swaps. `file` is
the configuration file. It differs from `sites` only after a save whose rename was done
and whose directory sync failed: the service rolls back and the file does not, and
`Restart` brings what was reported as failed. A crash is `Restart` with the request lost
(`Lose`) before or after `Serve`.

### Session

`storage` is `localStorage`, `cached[t]` the module variable of each tab's `auth.ts`,
`events[t]` the storage events it has yet to handle, `net[t]` its requests. Tokens are
numbered; `valid` and `stale` are what the server accepts and what the browser's clock
has expired, two clocks that agree on nothing. `Unauthorized`, `SignedIn`, `SignedOut`
and `Plain` are the continuations of `request()` and its callers; a 401 clears the
session whatever token it was sent with. `past` is a history variable.

### LogView

Every telemetry page is a record of the parts it shows and those its effect asks for.
`fetches` are the effects run since the page mounted, with what the server has answered
to each of their requests; `Resolve` is `Promise.all`, which shows the answers unless the
effect's clean-up has run. An answer is its question and `asOf`, the number of events
recorded when it was read; a loader's data may be of any age (`Shows`). `Type` and
`Defer` are the search field and `useDeferredValue`.

## 4. What is checked

| run | instance | shows |
|---|---|---|
| `FillTable` | 3 requests, 2 keys, any lookups | the safety properties, `RefinesSingleFlight`, and the two liveness properties |
| `BlobStore_safety` | 2 goroutines, 2 keys, 3 bodies; fills, deletes, hits; crash, expiry, late records | records and files agree at every step |
| `BlobStore_faults` | 2 goroutines, 2 keys, 2 bodies; bodies put back and failing removals as well | what goes wrong then stays with its cause (`DamageIsConfined`), no leak survives the next start (`OrphansAreNew`); the proved invariant `IInv` |
| `CacheEngine_managed` | 3 requests (two alike, one with an Origin), 3 answers, 2 instants | `ServesOwnVariant`, the proved invariant `IInv`, `RefinesFillTable` |
| `CacheEngine_follow` | 3 like requests, `follow_origin`, 2 versions, store errors | `NoRollback` |
| `CacheEngine_purge` | 2 requests under two policies, a purge, store errors | `PurgeIsFinal`, `EntryBodyExists` |
| `RuleForm` | up to 3 conditions, 3 edits per history, 4 stored rules or none | the drawer shows what the server matches, sends what it accepts, and trims an untouched rule but changes nothing else of it |
| `Console` | 2 tabs (one on the rules, one on the other pages), 2 requests, 2 upstreams, 2 hosts; settings are preloaded; saves fail half way, the process restarts | stale copies neither resurrect nor reach beyond their part, no button is stuck or sends twice |
| `Session` | 2 tabs, 2 sign-ins, 1 request of a tab in flight | tabs agree, an old session stays out, sign-out reaches every tab |
| `LogView` | 6 pages, 2 sites, 3 effects per page, 2 events | the rows are those asked for last and never go back |
| `CacheEngine_dangling` | violation | a 304 stores a record whose body another fill has removed |
| `CacheEngine_origin304` | violation | a 304 to a request with an Origin becomes the plain entry and is served to others |

Why the bounds are enough. Three requests are a leader, its waiter and a third
that comes between, takes the other key, or reads while both write; that is what
every property relates. Two keys tell the key at hand from another. Two instants
separate fresh from expired, as the answers' lifetimes are 0, 1 or 2; two
versions give one change of content. Three bodies are one stored and one in the
hands of each goroutine. Symmetric requests, keys and bodies are
model values, with symmetry only in runs without liveness. In the console two tabs are
one that acts and one that is stale; two requests are one that overtakes the other,
one that is lost, or one that is refused because of the other. Three conditions are a
removed one with both neighbours; three edits reach every form of that size from
those stored, and saving and opening again start anew from there. Two
tokens are an old session and a new one; three effects leave two cancelled ones
to answer late. `MaxEdits`, `MaxConditions`, `MaxRequests`, `MaxTokens`, `MaxCalls`,
`MaxEvents` and `MaxFetches` are the names of these bounds; of the router's cache
`Console` keeps the newest entry.

Fairness. `Session`'s one liveness property, `SignedOutEverywhere`, assumes that a browser
delivers the storage events it has queued (`WF_vars(StorageEvent(t))`), and nothing of
the network, the server or the user. That of `FillTable` is explained above.

`NoRollback` is checked with responses that do not vary, and only there does it
hold. A cold miss claims the plain key and may store under a variant key, so it is
not serialised with a fill that claimed that variant's key: the slower of the two
may put older content over newer.

Deadlock is not checked: a request is handled once and body names are not given
out for ever, so each model stops.

The violations are stated with the repository's own words in `PROJECT.json`
("findings"). More behaviours were met while modelling, and no run is spent on them,
for the repository promises nothing else or they are matters of cost:

* of two concurrent `PutEntry` calls on a key both may read the same predecessor, and
  the first one's body stays until the next start;
* an error of `PutEntry` after its commit makes the caller remove the body that the
  record names (`store.go:162`, `engine.go:293`); `DamageIsConfined` says that no other
  record loses its body by it;
* a hit's file may be removed before `writeResult` opens it;
* a revalidation in flight brings purged content back, and a fill in flight stores its
  response after the purge; `PurgeIsFinal` is about policies without revalidation and
  about what was stored when the purge began;
* a request whose lookup missed just before a fill was stored claims after its release
  and fetches again;
* `os.CreateTemp` may draw a name that a stored body has;
* in the console: a draft of a new rule or site is lost when its save fails; a finished
  save closes whichever drawer is open by then; a late 401 of an old token, or a wrong
  password in another tab, ends a good session; the settings page sends along the
  upstream it read, and undoes a change of it made meanwhile elsewhere; the rows of the
  previous site stay under the new one's heading until its answer comes;
* `NextCursor` names the first row that was not returned, and the next page starts
  below it.

## 5. What is proved

All theorems hold for every value of the constants that satisfies the named
assumptions: any number of requests, keys, bodies and goroutines.

**FillTable** (assumption: `None` is no request). `IInv` is the invariant that a step
preserves. `OnePlanPerKey` is not inductive by itself: it needs
`TableMatchesPlans` (who has a plan is in the table), that in turn `ClosersOwn`,
because a closer must not take a new leader's fill; `WaitersHaveACloser` is what a
waiter needs. `OnePlanPerKey`, `TableMatchesPlans`, `NoLostWakeup` and
`ReleasedByOwner` follow, and `Implements`: each step is a step of `SingleFlight` or a
stutter; `Resume` is where `ClosedAreDone` is needed.

**BlobStore.** Under `NamesAreFresh` (temporary names do not repeat) `IInv` is inductive,
whatever callers do and whichever removals fail: a body on its way into the store is
private (`NewIsPrivate`), what is about to be removed is named by no record the
transaction leaves alone unless it is at risk (`DoomedIsOwn`), two records share a body
only if it is (`SharedIsRisked`), an error makes a caller remove a body of its own only
(`UndoesOwn`), and while the store opens the set of bodies to keep covers all records
(`KeptCoversRecords`). `DamageStaysConfined` (`DamageIsConfined`) is the result: a record
can miss only a body that a revalidation has put back or whose `PutEntry` failed after
its transaction. Where neither happens (`OwnBodiesOnly`: callers store only bodies they
have just imported, and removals do not fail) nothing is at risk (`RiskIsTaken`), and
`NoDanglingRecord`, `NoSharedBody` and `RemovalIsSafe` follow, with crashes, expiry and
late records anywhere. Each assumption is needed: run `CacheEngine_dangling` puts a body
back, and section 4 says what happens without the others.
`LeaksEndAtOpening` (`OrphansAreNew`) assumes nothing at all. Its invariant `OpeningInv`
follows the opening file by file (each file is kept, or still to be looked at, or gone)
and past it (what a caller imports was born in its own process, because callers do not
survive a crash); an opening that fails or dies half way starts over.

**CacheEngine** (assumptions: there is a request and `None` is not one,
`Origin` is a header, what `Answers` and the bounds are). `UsesFillTable` says that
every behaviour of the engine is one of `FillTable`: each action is one of its actions
or leaves the table alone. So the engine inherits what `FillTable_proofs` proves, and
the proof here imports that module's invariant by `FP == INSTANCE FillTable_proofs WITH
Key <- StorageKey`.
`OwnVariant` says that nobody is answered with another variant's content. It is
proved under `PlainRevalidation` (a policy that revalidates meets no request with
an Origin and no CORS header in an answer), which run `CacheEngine_origin304` shows to
be needed. `ServesOwnVariant` says nothing of the store, so `IInv` follows the content
through the system: every entry is filed under the variant it depends on
(`FiledByVariant`), a request looks for a variant of its own whatever happened to
the Vary record since it read it (`LooksForOwn`), and two requests with a variant in
common agree on its headers, so what is found is the request's own (`FoundIsOwn`) and
what a plan stores too (`StoresOwn`). `PlansHaveWhatTheyNeed` ties the step of a plan
to what its handler dereferences. Run `CacheEngine_managed` checks `IInv`.

The second half of `CacheEngine_proofs` is about the store. `EntriesHaveBodies` (`EntryBodyExists`) and
`PurgesAreFinal` (`PurgeIsFinal`) hold under `NobodyRevalidates`: no policy is
`follow_origin`. Run `CacheEngine_dangling` shows that the first is lost otherwise, and a
revalidation in flight stores purged content again. Both follow from `BodyInv`: a body
is filed once, by the plan that fetched it (`BeforeStore`, `StoresOwnBody`), two records
never have it in common, so that what a store or a delete replaces and removes is
nobody else's (`RecordsOwnBodies`), and no key that a purge has passed has what was
stored when it began (`PurgedIsGone`). `NothingRollsBack` (`NoRollback`) is about
revalidation as well, where nothing varies (`NothingVaries`: neither answers nor
requests have what a key is made of): then every plan is for the plain key
(`AllIsPlain`), by `FP!IInv` there is one at a time, and what it brings is as new as
anything stored while it runs (`PlansBringNewest`). Section 4 says why it fails
elsewhere. TLC checked `BodyInv` on the instance of `CacheEngine_purge` and `VersionInv`
on that of `CacheEngine_follow` before they were proved.

**LogView** (assumptions: `Pages` are pages, `Nothing` is no number). A page shows what
its *last* effect shows. `LastAloneShows` says that the effects before it are all
cancelled, `LastIsAsked` that it asks for the present choices but for a search that is
still being deferred, `LastIsShown` that what is on the page is its answer once it is
in, `LastIsNewest` that no answer of it is older than what is on the page. From these
`ShowsWhatIsAsked` (`ShownIsAsked`) and the action property `ReadingsAdvance`
(`NeverBack`). `Timely` bounds the time of every reading by the events recorded.

**RuleForm** (assumptions: the inputs are of their types, rules of other clients of the
API are valid). `SubmittedIsValid` needs the shape of the form whose rule is sent: the
conditions of `Shaped` have distinct ids, one unjoined head and operators of their
fields, and each handler's operator has a lemma that it preserves it
(`InsertKeepsShape`, `RemoveKeepsShape`, `ReplacedKeepsShape`); that a fresh id exists is
the pigeonhole principle. `TimesAreSupported` (durations only in a mode that takes them)
is what the server's `validateRule` asks and no input alone ensures. The rules on the
page are valid because each is an API client's or was submitted (`RulesAreValid`).
`FormsKeepTheirShape` is `TypeOK`. `UntouchedRulesAreKept` holds for every valid rule: an
attempt to prove it without its case of catch-all rules failed on one that was stored with
clauses, which the server allows and the drawer drops, and such a rule is now among the
run's. It says exactly what a save does to a clause: the drawer trims the name and the
value, and the server compares header names, and values other than host names and methods,
as they are stored. So saving a rule with blanks around one of these without touching it
changes what the rule matches, and in no other case does it. `BlocksAreMatched` (`BlocksAreWhatMatches`) compares two loops over a list of any
length, the drawer's that makes blocks and the server's that folds clauses. Both are
recursive functions of the number of elements seen; `SplitRuns` and `MatchRuns` say what
they compute, by the lemma `Recursion` (such a function exists), and `AgreeStays`, with
the lemma `Counting`, that after each element the server's two flags say which of the
blocks so far hold. These two lemmas of `SequenceLemmas` rest on the library's theorem
that a set of numbers has a least element: they speak of sets and functions, not of
operators, so they can be applied where the library's induction theorems cannot.
`EditsStayLocal` (`EditsAreLocal`) compares the drawer's loop over the list before and
after an edit. Up to the place of the edit the blocks agree (`SameStart`). There they come
to differ by one id (`DropStarts`, `AddStarts`), and by `Counting` each further condition
keeps them so (`DropStays`, `AddStays`); a removed head of a block is the delicate case,
where the next condition must inherit its operator (`RemoveIsRemoval`).

**Console** (assumptions: there are more ids of sites and of rules than `MaxRequests`
creations can take, ids and the markers for "none" differ, tabs visit pages there are,
there is something to type). The theorems hold for any number of tabs, sites, rules and
requests. `IInv` says of every place a value passes through what it may be: of the
configuration and its file (`ConfigOK`), of each page with the copy it shows and the copy
the router keeps (`ViewOK`; a list of rules that was ever read is a valid one with ids
given out), of each request and each answer (`RequestOK`; only a finished creation or
deletion outlives its sender). Three parts are less obvious. `IdsAreLeft` counts: each id
given out after the first two belongs to a request served, so one is left whenever a
creation is served or sent. `FileIsNear`: the file differs from the service by one save at
most, so that a restart changes one part (`StaleSavesAreSmall`). And `SavingIsPending` is
inductive together with `RequestOK`: every action is shown to press one button with the
request it sends, to release the button of the answer it handles, or, where a page is left,
to detach its requests and reset its buttons at once (`ButtonsEntered`). `NothingReturns`
needs that a fresh id is fresh, and that a mutator keeps ids that are there or drops them
(`MutatorChanges`). `OffersAreSound` shows, for every button of the rules page, that its
mutator succeeds on the list shown. TLC checked `IInv` on the instance of run `Console`
before it was proved. The proof found two places where the model said too little: the
cases of `Read` overlapped, and the first page's data was not what its loader returns.

**Session** (assumption: `None` is no token). `TabsAgree` is inductive once the types are
known: `StoreKeepsAgreement` says that whoever stores a session gives every other tab an
event, and an event is only taken away by a handler that reads the storage.
`OldSessionsStayOut` is an action property: a step that stores a session is a sign-in with
an answer, and `AnswersAreNew` says that each such answer in flight brings a token of its
own that was never stored. `IInv` is `TypeOK`, `AnswersAreNew` and `TabsAgree`; the
theorems hold for any number of tabs, tokens and requests.

Liveness (`WaiterFreed`, `RequestsEnd`, `SignedOutEverywhere`) is only model-checked: it
rests on fairness and ENABLED.

## 6. What is not modelled, and why

Planned and not yet here: the policy arithmetic (6 above; `CacheEngine` takes its
results), the range cache, the snapshot that serves before it is saved, the telemetry
service and its cursors, and the purge sheet with the purge endpoints.
`refreshInBackground` has no caller. Left out for good: HTTP transport, headers beyond
those a key depends on, SQL aggregation, logging, redirect targets and paths of the
console, and its presentation (`components/ui`, charts, tables and formatting).
The router library of the console is modelled by what the pages rely on: loaders run
before a page is shown, or behind it when the router has kept its data.
