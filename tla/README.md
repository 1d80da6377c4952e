# Verification of api-key-rotator

TLA+ models, model-checking runs and machine-checked proofs about the key
rotator: a reverse proxy that spreads requests over a pool of API keys per
provider, retries and rotates when a key is rejected, keeps a local estimate of
every key's credits and limits how many requests one key serves at a time.
Paths such as `keys.go:207` are relative to the repository root; `PROJECT.json`
maps every definition to its lines.

Contents: [the system](#the-system) · [what is hard](#what-is-hard) ·
[modules](#modules) · [abstractions](#abstractions) · [runs](#runs) ·
[fairness](#fairness) · [proofs](#proofs) · [findings](#findings) ·
[not modelled](#not-modelled) · [plan](#plan)

## The system

| component | state | operations | what makes it correct |
|---|---|---|---|
| key pool (`keys.go`) | cursor; per key: disabled flag and reset instant, remaining credits, cooldown, in-flight count; the size-1 channel `slotFree`; one mutex | `Current`, `AdvanceAfter`, `RecordSuccess`, `TryAcquire`, `Release`, `WaitForSlot`, `Decrement`, `SetCredits`, `Disable`, `ReenableDue`, `AnyUsable` | selection is the richest key of the first non-empty tier; only a pool without a usable key refuses; the count stays within the cap; a key that comes back can serve |
| request handler (`proxy.go`) | locals of `ServeHTTP`: tries, last status and body, queue deadline; no shared state of its own | `serveOnce` (select, acquire, measure, `tryKey`, release), rotation loop, queueing, charging, finance clamp, final answer | slots taken and returned exactly once on every path; attempts bounded; the answer is justified by what happened; nobody waits for ever |
| rotation policy (`rotate.go`, `profile.go:225-394`) | none | `shouldRetry`, `shouldRotate`, `isCreditExhausted`, the body classifiers | the tables that rotate and that disable agree; success is served; transient failures do not disable (two exceptions, see [findings](#findings)) |
| configuration (`config.go`, `buildProfiles`) | read-only after start | `LoadConfig`, one loader per provider | what is accepted gives pools that can serve |
| routing (`profile.go:396-437`), rewriting (`rewrite.go`) | none | `matchProfile`, `rewriteNext` | a prefix owns its paths and no others; only the next links of JSON to upstream are rewritten, and they lead back to where it pointed |
| balance refresher (`refresh.go`) | per key: last low and last daily refresh; one mutex | `RefreshAll`, `EnsureMeasured`, `MaybeRefreshLow`, `OnSwitchReason`, `DailyRefresh` | throttles hold back repeated fetches; overlapping fetches leave a bounded error; a key is not lost to a stale estimate |
| balance fetch and reset dates (`creditusage.go`, `config.go:746-757`) | none | `refreshKey`, `disableUntilReset`, `fallbackReset`, one parser per provider | a failed fetch changes nothing and a refused one is not repeated; the balance fits every limit of the account; a drained key gets a reset instant that comes |
| background loops (`main.go`) | none | `warmupLoop`, `resetLoop`, `dailyRefreshLoop` | every key is measured, and disabled keys are looked at again |
| endpoints (`server.go`), transport (`transport.go`) | read-only after start | `/healthz`, `/status` | `/healthz` fails exactly when no profile's pool has a usable key: one usable profile hides the exhaustion of the others |

Requests run concurrently, one goroutine each, and meet only in the pool of
their profile, whose every method holds the pool's mutex for its whole body.
The handler calls several methods in a row, so everything it concludes from one
call may be out of date at the next. The reset loop and the balance fetches call
the same pool from goroutines of their own. Nothing is persisted: a restart
begins with a fresh pool, and there is no recovery to model.

## What is hard

`PROJECT.json` lists the hazards with their lines. The ones the design turns on:

* select and acquire are two critical sections, so two requests can select the
  last slot of one key;
* `AdvanceAfter` acts on the shared cursor, not on the key the caller used;
* the wake-up token is sent after the unlock into a channel of size one, while
  waiters sit between their check and their `select`;
* a saturated attempt does not count as a try: only the queue deadline bounds
  that loop;
* charge, clamp, disable and the final usability check are separate critical
  sections of concurrent requests;
* a key's balance is measured after it was selected for it;
* a balance may land after charges it does not know of, and several fetches of one
  key overlap;
* the low-balance throttle is looked at, claimed and used in three steps;
* one counter of attempts serves two retry budgets, with a client that may leave in
  between;
* the reset day may not exist this month, and the provider may name any instant;
* six loaders check the settings of seven profiles, each in its own way.

## Modules

| module | what it is |
|---|---|
| `ProfilePolicy` | the verdict tables of the seven profiles, as operators over a status and a body class |
| `KeyPool` | the pool: its fields as variables, one action per method; the promises it makes whoever calls it |
| `Rotator` | extends both: the handler of every request, step by step, with the pool, the reset loop, the clock and background fetches |
| `SlotLease` | abstract specification of the concurrency cap: lease and give back |
| `TryKey` | extends the policy: one attempt on one key, call by call, with its pauses, both retry budgets and a client that may leave |
| `OneAttempt` | abstract specification of an attempt: it ends once, with the verdict of one reply |
| `Startup` | the environment, what `LoadConfig` accepts of it and what `buildProfiles` makes of that |
| `Routing` | extends `Startup`: from a path to a profile, from a response's link back to a path |
| `ResetDate` | the calendar arithmetic of a disabled key's reset |
| `UsageFetch` | extends the policy: one fetch of a balance, answer by answer, and what each provider's answer says is left |
| `Gateway` | composes `TryKey`, `Startup`, `Routing`, `ResetDate` and `UsageFetch`: start-up, a warm-up's fetch, routing, one attempt, and what its verdict does to the key or the answer |
| `Refresher` | extends `KeyPool`: the balance of a key between requests, fetches, loops and the provider's account |
| `MCRotator`, `MCGateway`, `MCRefresher` | what the runs need: reply sets and symmetry; environments, paths and a calendar |
| `Claims`, `MCBudget` | statements of comments and README that a run refutes |
| `KeyPoolProofs`, `RotatorProofs`, `ContentionProofs`, `TryKeyProofs`, `UsageFetchProofs`, `CalendarProofs`, `GatewayProofs`, `RefresherProofs` | the theorems |

`Rotator` and `Gateway` are two views of the handler that meet in an attempt.
`Rotator` has many requests, the choice of keys and the pool, and makes an attempt
one step (`Upstream`) that ends with the policy's verdict on one reply; `Gateway`
follows one request through one attempt call by call. That the latter implements the
former's step is `EndsAsOneVerdict`, a refinement of `OneAttempt`, checked and proved.

### KeyPool and the code

`cursor`, `disabled`, `dueIn` (`disabledUntil`), `credits` (`remainingCredits`),
`coolFor` (`cooldownUntil`), `inFlight` and `slotFree` are the fields of
`KeyPool`. `current` is `currentLocked`: its three running maxima are the
`Richest` of `ReadyKeys`, `FreeKeys` and `UsableKeys`. `scanned` is the
loop itself, key by key, and `LoopPicksRichestOfTier` compares the two in every
state. Each exported method is one action (one critical section) with two
exceptions that the code makes: `Release` unlocks before it sends
(`Release`, `SendToken`), and `WaitForSlot` looks under the lock and waits
without it (`Check`, `Park` and `TakeToken` in `Rotator`).

### Rotator and the code

`pc[r]` is where request `r` is; the other request variables are the locals of
`ServeHTTP` and `serveOnce`.

| `pc` | code | action |
|---|---|---|
| select, acquire | `serveOnce` up to `TryAcquire` (`proxy.go:59-70`) | `Select`, `Acquire` |
| measure, fetch | `EnsureMeasured` (`refresh.go:162-191`) | `Measure`, `Fetch` |
| launch, upstream | `tryKey` (`proxy.go:324-432`) | `Launch`, `Upstream` |
| release, wake | the deferred `Release` (`keys.go:133-149`) | `GiveBack`, `Wake` |
| saturated, check, park, blocked | the queue (`proxy.go:164-182`, `keys.go:151-186`) | `Saturated`, `Check`, `Park`, `GiveUp` |
| success, charge, clamp, hold | `case resOK` (`proxy.go:188-227`) | `Success`, `Charge`, `Clamp`, `Hold` |
| drain, advance, switch | a rejection or network error (`proxy.go:234-260`) | `Drain`, `Advance`, `Switch` |
| finish | after the loop (`proxy.go:265-321`) | `Finish` |

`Expire` and `Cancel` are the queue deadline and a client that leaves;
`BalanceLands` is any background fetch; `ResetLoop` and `Clock` are the reset
loop and the passing of time. A wake-up is handed straight to a blocked waiter
when there is one, as the Go channel does.

### TryKey and Gateway and the code

| `stage` | code | action |
|---|---|---|
| idle | `serveOnce` calls `tryKey` (`proxy.go:81`) | `Begin` |
| send | building the request and `client.Do` with the client's context (`proxy.go:337-370`) | `Send` |
| flight | the response or an error (`proxy.go:371-413`) | `Receive`, which `settle`s it: over the cap, transient, or final |
| sleep | `sleepOrCancel` (`proxy.go:418-432`) | `Wake`, `Abandon` |
| done | the classification of `serveOnce` (`proxy.go:81-94`) | `DisableUntilReset` or `KeepInService` of `Gateway` |

`Gateway!Boot` is `buildServer`: it succeeds exactly when `LoadConfig` does. `Route` is the
first lines of `ServeHTTP`. `DisableUntilReset` is the branch of a rejection whose
credits are gone together with `disableUntilReset`; `KeepInService` is any other verdict.
`HandOn` follows: it is what happens to one string of a Firecrawl response that goes to the client,
a success or the last rejection. Rewriting asks for JSON, and for a base with a host: `proxyBase` is `PROXY_BASE_URL`, or the Host the client sent.

### UsageFetch and the code

`said` is the sequence of answers the endpoint gave so far, so its length is the loop's
`attempt`; `usage` is the result, once `over`. `BeginFetch` is `fetchUsageFor`
(`creditusage.go:150-176`), which has nothing to call for Exa and the finance profiles.
`FetchOnce` is one turn of the loop that the three fetchers share
(`creditusage.go:71-84`, `223-233`, `311-321`): a call, and the decision of
`shouldRetryUsage` by its reason. `remainingOf` is what the answer makes of the balance:
`tavilyRemaining` over three layers, the loop body `tighter` applied to each;
`apifyRemaining` with the configured credit or the reported one, rounded to cents;
Firecrawl's number, which `SetCredits` cuts off at zero. `Gateway!WarmUp` starts the fetch on a
profile that was built, with the free credit of its environment. It runs beside the request;
the period end that a fetch may bring is chosen by `DisableUntilReset`.

### Refresher and the code

`lowFor` and `dailyFor` are what is left of the intervals since `lastLow` and `lastDaily`;
`job[w]` is the refresh that worker `w` makes (`refreshOne`), in three steps: it starts, the
provider answers (`Read`), the answer lands in the pool (`Land`, or `Fail`); how often a failed call
is repeated is `UsageFetch`'s. `account` is the provider's own count, which requests and refills
change. A request costs what the provider bills, up to `MaxCost`. The response reports it, or the
pool is charged a guess of 1, also for a free one; nobody charges for a body over the cap, nor for a
call that times out or breaks off after it was billed, which `tryKey` repeats or gives up
(`Answered`, `Unanswered`). `owes` is what a request will charge; `lost`, `lowStarts` and the
`overlap` of a job are auxiliary: they count the credits an estimate cannot know of, and
the low refreshes of an interval. `MaybeRefreshLow` is the two steps it is in the code,
`Snapshot` under the pool's lock and `Claim` under the refresher's. `SetCredits` and the
daily mark after it are one step (`Land`): nothing reads both.

Operators marked `Fault:` are variants a plausible bug would produce. The
specification does not use them; each is paired in `PROJECT.json` with the
property that has to fail when it replaces the definition after it.

## Abstractions

* **Time.** Instants are replaced by what is left of them, counted down by
  `Tick` in units of the 30-second `rotateCooldown`. The code compares
  instants only with now, so no more is observable. `dueIn` and `coolFor` run
  down together; the reset loop reacts at any later moment.
* **Balances.** A small range; `math.MaxInt64`, which stands for "never
  measured", is `Unmeasured`, one above the largest balance. It keeps the two
  facts the code relies on: it is above every threshold, and it is not
  estimated down.
* **Bodies.** The class of a body is what the classifiers look for in it. A body
  that quotes the denylist is in the table because the code matches text.
* **tryKey** is one step of `Rotator` that ends with one of its outcomes; `TryKey`
  is what happens inside. While it runs, everything else may move.
  Cancellation is seen at `Launch` and in the queue.
* **Background fetches** are `BalanceLands` in `Rotator`: any key, any balance of the
  set, at any time. That covers every schedule of warm-up, daily, low-balance and
  on-switch refresh, stale results included, and more. `Refresher` has the schedules.
* **One key in `Refresher`.** Balances, throttles and fetches are per key, and only the
  loops touch several, one after the other. What other keys contribute is a choice:
  whether a switch leaves this key or arrives at it (`Switch`, `SwitchedOnto`), whether
  the warm-up has to go on (`WarmedUp`).
* **Settings** are unset, garbage, or a value. Blank is unset. Dollar amounts count tenths
  of the stored unit, so that rounding shows. `NaN`, which the dollar parser lets through,
  is not a value.
* **Paths and prefixes** are sequences of segments; `http.ServeMux` has cleaned them. A link
  is the field's name, whose host it is on, and its path; a base that does not parse or has no host
  is garbage. `KeepPrefix` is never set and
  no accepted configuration has an empty prefix, so `matchProfile` is without these branches.
* **The calendar** is a table of the first days of months; instants are half days, so a reset
  at midnight and a moment later that day differ.
* **Left out:** statistics, logging, headers, JSON texts.
* **Environment:** `Cancel`, `Leave`, `Clock`, `Tock`, `Refill` and the calendar are external
  (`http.Request.Context`, the clock, the provider, package `time`). They are modelled
  from how the code uses them.

## Runs

| run | instance | what it shows |
|---|---|---|
| `gateway` | every pair of deviating settings (some 12,000 environments), 11 paths; from the default and seven other environments, one attempt of every profile with every status, body class, over-cap body and disconnect, 3 pauses; from four of them, the links of a 200 and a 429, in JSON or not, with and without a Host, a usable `PROXY_BASE_URL`, a hostless one, and no legacy fallback; from two more environments, one fetch of a balance from each kind of provider, with every mixture of absent, zero, partial and overdrawn limits and one pause; 16 instants around the ends of months and years; reset days 1, 28 and 31; 0.53 million states | start-up: `AcceptedConfigServes`; routing: `OwnPrefixReachesProfile`, `NextComesBack`; the attempt: `EdgeBlockIsNotHammered`, `NobodyCallsForTheGone`, `EndsAsOneVerdict`, `AttemptEnds`; the verdict: `ExhaustionIsActedOn`, `SuccessNeverRotates`, `TransientNeverDisables`; the reset: `ResetWithinAYear`, `FallbackMeetsTheDay`; the balance: `BalanceFitsEveryLimit`, `RefusedFetchIsNotRepeated` |
| `pool` | 3 keys, cap 1, balances 0, 1 and unmeasured, every method with every argument (0.9 million states) | the loop picks the richest key of its tier; only an unusable pool refuses; counts stay in range under over-release; a key brought back serves |
| `slots` | 4 requests, 2 keys, cap 1, queueing (1.3 million) | `CapRespected`, `WaiterHasWaker`, and the slots refine `SlotLease` |
| `finance` | 2 requests, 2 FMP keys with a seeded budget, stop threshold 1, Retry-After, replies of every kind: no answer, invalid key, plan-blocked, daily cap, transient, over-cap (3 million) | `TypeOK`, `StopKeyHeldBack`, `VerbatimAnswer` |
| `live` | 2 requests, one of which may be abandoned, 1 key, cap 1, queueing, balances fetched, charged, and drained by replies (0.2 million) | `SlotsMatchHolders`, `EveryRequestAnswered`, `DisabledKeyComesBack`, `LeasesReturned` |
| `refresh` | 1 key, 2 requests, 4 fetches under way (one of each request, a background one, the warm-up's), balances 0 and 1, costs 0 and 1, stop threshold and low mark 1 (0.9 million) | `RefresherTypeOK`, `LowRefreshThrottled`, `EstimateErrsByWhatItMissed`, `StrandedKeyReturns` |
| `wrong_key_cooled`, `lost_wakeup`, `success_refused`, `below_stop`, `budget_forgotten`, `auth_disables` | small instances of `MCRotator` (statements in `Claims`), of `MCBudget`, and of `MCGateway` | each refutes one statement of the repository, see [findings](#findings) |

**Why the bounds are enough.** The pool distinguishes keys only by comparing
them: three keys give every tier a member of its own at once, and ties. Slot
contention needs two waiters and two holders, hence four requests over two keys:
that is where a dropped token can strand a waiter; its replies are all successes, and the other
exits of an attempt are met in `live` and `finance`. The credit and
finance hazards are races of one charge, disable or landing balance with
another request's step, which two requests show; `StopThreshold = 1` with
balances 0 to 2 has a balance below, at and above the threshold. `RetryCap = 2`
distinguishes the floor from a longer Retry-After. `MaxPasses` is 1 in the safety
runs, two rotations with two keys, and 2 in the liveness run. `live` has one key, so the wait that a
free slot on a disabled key ends at once (see the observations) is not met there. No run takes
`CONCURRENCY_SATURATION=reject`; the theorems hold of it. Symmetry over the
requests that cannot disconnect is used in the safety runs only.

In `gateway` two settings deviate at once because every check compares at most
two (a threshold with the other, a stop threshold with a budget, a Tavily threshold with
the shared one, one prefix with another), each with values just inside and outside.
Three pauses leave room for a 403 budget of 0 (the whole schedule), 1 and 2, exceeded by
refusals alternating with other failures; the code's schedule has five. One pause is enough for a
fetch to be repeated and to give up; the code's has three. The amounts 0, 4 and 15 give each
layer a limit of zero, one above and one below its use, and Apify's cents a rounding either way. The calendar is a
leap year and the next, so both Februaries and the turn of the year are met. A deadlock is
no error there: a refused process has ended, and so has the one request.

In `refresh` one charge during one fetch is enough for a stale answer, two further fetches
for one to land after a fresher one, two requests for a race to the throttle between `Snapshot` and
`Claim`, and balances 0 and 1 for a key that is out of service by its estimate and funded in truth.
With costs of at most 1 the guess is too high or right; one that is too low takes a cost of 2, which
the theorem `EstimateBounded` has, along with any number of requests and fetches. `Refill` carries a
bound: no fetch under way has already missed credits, and fewer than `MaxCredits` are missing, as a
fetch takes seconds and a refill is monthly.

## Fairness

`FairSpec` assumes of every request weak fairness of its steps and of its
deadline, strong fairness of `GiveUp`, and weak fairness of the reset loop and
the clock. The code justifies each:

* goroutines are scheduled, and each step between two waits terminates; every
  HTTP client the program uses has a `Timeout`, so an upstream call or a balance
  fetch ends;
* the deadline is a `time.Timer`, so it fires;
* `WaitForSlot`'s `select` chooses at random among its ready cases, so a deadline
  that stays ready while tokens keep coming is not passed over for ever. Weak
  fairness would not do: each token taken leaves the `select` and disables the
  alternative for a moment;
* `resetLoop` ticks once a minute.

`Gateway` assumes weak fairness of the steps of an attempt, for the first two reasons; every
pause has a timer. `Refresher` assumes weak fairness of the reset loop and the clock, and strong
fairness of `DailyRefresh` (an hourly ticker that finds a worker free again and again) and of `Read`
and `Land`, by some worker: the fetches of a key do not fail for ever. Nothing is asked of requests or
the warm-up. The fetches' fairness is an assumption on the provider, and `StrandedKeyReturns` needs it: while
every fetch fails, an estimate that is too low keeps a funded key out of service.

In `Rotator` nothing is assumed of clients (they need neither come nor leave), of balance
fetches (they may fail for ever) or of what upstream answers. Without the
deadline the queue gives no guarantee: `EveryRequestAnswered` fails when
`Saturated` ignores it.

## Proofs

TLC checks the instances above; the theorems hold for every number of keys and
requests, every cap, threshold, balance range, retry budget, reply set and
interleaving that satisfy `PoolAssumption` and `RotatorAssumption` (finitely many
requests, thresholds within the balance range, at least one key and one pass, no
over-cap body without a response); for every non-empty retry schedule
(`TryKeyAssumption`); for every retry schedule of a fetch and any amounts
(`UsageFetchAssumption`); for every environment whose numeric settings are unset, garbage or
integers and whose prefixes are unset, garbage or sequences of segments (`GatewayAssumption`,
with `StartupAssumption`); for every set of paths (`PathsAssumption`); and for
any number of requests and fetches on a key, any costs and any throttles (`RefresherAssumption`).

Two assumptions say what the code gets from outside. `CalendarAssumption` and
`InstantsAssumption`: months have 28 to 31 days, twelve in a row 365 or 366, the table goes
a year beyond every instant considered. `LinksAssumption`: the path of a link to upstream
is not empty and does not begin with the name of a profile; Firecrawl's begin with the version of
its API. Were one to begin with `tavily`, the rewritten link would be routed to Tavily.

| theorem | property | argument |
|---|---|---|
| `SelectionComplete` | `current` is a usable key, or -1 exactly when none is | a nonempty set of keys has a richest member of lowest index (`RichestInSet`, from the well-foundedness of `<` on the naturals), so the `CHOOSE` stays in its tier |
| `PoolTyped` | `PoolTypeOK` | inductive; the cursor needs `SelectionComplete` |
| `CountBounded`, `RefusesOnlyUnusable`, `BroughtBackServes` | `CountWithinCap`, `CooldownNeverRefuses`, `ReenabledKeyServes` | on top of `PoolTypeOK` |
| `LoopIsTiers`, `LoopSelectsByTier` | `LoopPicksRichestOfTier` | see below |
| `HandlerUsesPool`, `SharedPoolBehaves` | the four above, of the pool that requests share | see below |
| `Typed` | `TypeOK` | see below |
| `SlotsAccounted`, `CapKept` | `SlotsMatchHolders`, `CapRespected` | see below |
| `LeasesImplemented` | `ImplementsLeases` (`SlotLease`) | every step takes a slot, returns one, or leaves the holders alone (`SlotSteps`) |
| `AnswerHasStatus` | `VerbatimAnswer` | only `Finish` gives this answer (`AnswerSteps`) |
| `WaitersHaveWakers` | `WaiterHasWaker`, assuming the pool always has a usable key | see below |
| `StopKeysHeldBack` | `StopKeyHeldBack` | a key below its seed has been charged; `Settled(k)` is kept by every step; the charging request goes straight to `clamp` |
| `OneSlotLosesNoWakeup` | `NoWakeupLost`, assuming one key, one slot, and the key usable | see below |
| `LoneRejectionCoolsDown`, `LoneNeverServesBelowStop` | `RejectedKeyCoolsDown`, `BelowStopNeverServes`, assuming one request at a time (and, for the latter, no balance fetches) | see below |
| `AttemptTyped`, `EdgeBlockBounded` | `TryTypeOK`, `EdgeBlockIsNotHammered` | each 403 that is paused after uses up a try, so 403s are at most the tries made, of which the budget allows `max403` (`ForbiddenInv`). Calls answered otherwise have the whole schedule and are not bounded by it |
| `GoneIsNotCalledFor` | `NobodyCallsForTheGone` | only `Send` calls, and it looks at the context |
| `AttemptImplementsOne` | `EndsAsOneVerdict` (`OneAttempt`) | each step stutters or ends with `classify` of one reply; an abandoned pause needs `PauseInv`: what is paused after is transient |
| `ConfigurationServes` | `AcceptedConfigServes` | a process that is up has an accepted environment, whose profiles the loaders check between them (`AcceptedProfiles`); then by kind of number |
| `GatewayImplementsAttempt`, `GatewayAttemptsBehave` | `TrySpec`; the three properties above | a routed profile has been built (`RouteIsBuilt`), and its 403 budget is a natural number |
| `ExhaustionActedOn`, `SuccessServed`, `TransientsSpareKeys` | `ExhaustionIsActedOn`, `SuccessNeverRotates`, `TransientNeverDisables` | at the end the outcome is classified (`VerdictInv`) and a key is disabled exactly when the judged outcome is an exhausted rejection (`JudgedInv`); the rest is facts of the tables, for every status |
| `PrefixesRoute` | `OwnPrefixReachesProfile` | a prefix claims exactly the paths that begin with it, and what is stripped is the prefix (`ClaimedPaths`); the first profile that claims is the only owner |
| `LinksComeBack` | `NextComesBack` | `PageInv`: what is handed on is `rewriteNext` of the link and the base if the answer is JSON, else the link; under the default prefixes nobody claims a path that begins with no profile's name (`UpstreamPathsAreFree`), so the fallback takes it whole, or nobody |
| `ResetIsNear`, `ResetsAreNear` | `ResetWithinAYear` | see below |
| `FallbackMeetsNextDay`, `ResetDayIsMet` | `FallbackMeetsTheDay` | see below |
| `RefresherUsesPool`, `RefreshedPoolBehaves` | `CooldownNeverRefuses`, `ReenabledKeyServes`, of the pool that refreshes share | as for the handler; time passes for `dueIn` alone because nothing there cools a key down (`NoCooldown`) |
| `RefresherTyped`, `LowRefreshesThrottled` | `RefresherTypeOK`, `LowRefreshThrottled` | a refresh of the interval implies a running throttle, which `Claim` tests |
| `TavilyTakesTheLeast`, `BalanceFits` | `BalanceFitsEveryLimit` | each turn of the loop keeps -1 until a layer is measured and then never rises (`TighterFits`); a fetch is over with what its last answer says (`FetchInv`) |
| `FetchGivesUp` | `RefusedFetchIsNotRepeated` | every answer but the last was worth another call, and while the fetch goes on there were at most as many as pauses (`FetchInv`) |
| `GatewayFetchesBehave` | both of them, of the running process | its steps are steps of `UsageFetch` or stutter (`GatewayImplementsFetch`); the free credit of an accepted environment is a natural number |
| `EstimateBounded` | `EstimateErrsByWhatItMissed` | see below |

**The invariant of the handler.** `TypeOK` is not inductive: `Acquire` uses
`idx[r]`, which is -1 before the first selection, and `tries` is only bounded
because an attempt starts while budget is left. `LocalsOK` adds these facts:
a request has a key wherever it needs one, `tries < maxRotations` until the
attempt has counted, a result that is served has a status, only profiles with a
balance endpoint fetch, and nobody queues for an unlimited key.
`HandlerInv == TypeOK /\ LocalsOK /\ SlotsMatchHolders` is inductive. The model
checker found `LocalsOK` true in instances like `slots` and
`finance` before it was proved. Every handler step changes the pool by at most one of its methods
(`HandlerCallsPool`), so a run of the handler is, of the pool, a run under some caller:
`HandlerUsesPool` is that refinement of `PoolCalled`, and what is proved of `PoolCalled`
(types, count, selection, re-enabling) carries over to the shared pool unchanged.

**The selection loop.** `scannedUpTo` is a recursive function, the best key of each tier
after the first n keys. That after n keys it holds the richest of the tier among them
(`LoopKeepsTiers`) is an induction on n, done by taking the least n where it fails
(`LeastNatural`); the step is a case for each tier a key may enter (`ScanIsLoop`,
`BetterIsBest`). At n = `KeyCount` that is the tier's `Richest`, ties included.

**The queue.** `WaiterHasWaker` counts a refused request (`saturated`) and says
nothing of a request about to wait (`park`). The strengthening `WaiterServed`
covers `park` and does not count on `saturated`. A key without a free slot always has a
holder (`FullKeyHasHolder`, from `SlotsMatchHolders`), and each step of a waker
leaves a waker or a token behind. The assumption `[]AnyUsable` is needed: a
waiter that was woken and finds no usable key leaves with the 503 and takes the
token with it, while others stay blocked until their deadlines. With three
requests on one key that drains, the model checker finds that state.

**Where the refuted statements hold.** Three findings come from concurrency alone, and
theorems say so. With one key and one slot, whoever leaves the wait leaves somebody behind who
moves, or the slot taken (`NobodyOverlooked`), so no wakeup is lost: it takes two slots
given back between a waiter's check and its `select`. With one request at a time the cursor
stays on the key of the attempt until that has cooled down (`CursorInHand`), and a key that
was usable when selected is usable when called (`UsableInHand`), unless a fetch
reports less. The invariants are true of the instances of `lost_wakeup`, `wrong_key_cooled`
and `below_stop` cut down to one slot or one request.

**The reset.** `ResetInv`: an attempt only happens once the server is up, and a disabled key is
disabled until `resetOf` its profile, some period end, the instant, and the configured day, which
an accepted environment has between 1 and 31 (`AcceptedResetDay`). The rest is arithmetic on
the calendar: month starts grow (`MonthsGrow`, by least counterexample), every covered
day lies in exactly one month (`OneMonth`, `SomeMonth`), and `fallbackReset` lands on the day in
this month or the next (`FallbackLands`), at most 61 days ahead (`FallbackIsSoon`). Where a month is
too short for the configured day, `time.Date` runs over into the next: the key comes back on one of
its first days, `resetDay - 28` at the latest, and no configured day lies before
(`FallbackMeetsNextDay`). `ResetInv` keeps the period end the fetch named, so that a failed or an
implausible one of a profile that has an endpoint is covered too.

**Routing.** `RouteInv` and `PageInv` tie the route and the link handed on to the functions that
made them; the environment is an accepted one, whose prefixes are sequences of segments
(`AcceptedPrefixes`).

**The estimate.** `Debt` is what the pool will still be charged, credit by credit, so that what
several requests owe can be counted (`DebtCounts`). That the estimate errs by no more than the debt
and `lost` is kept by a charge only if the answers of fetches under way err by no more than the debt
and their own `overlap` (`AnswersErrByOverlap`), and if nobody owes anything but a request about to
charge (`OwesToCharge`). Billing lowers the account, and what it takes goes into `Debt` as far as it will be
charged, and for the rest into `lost` and every overlap; charging takes it out of `Debt` and lowers the
estimate, or raises every overlap; a landing exchanges one bound for the other. No cost, reported,
guessed or lost, is bounded by anything but `MaxCost`, of any size.

**Model-checked only:** `EveryRequestAnswered`, `DisabledKeyComesBack`, `LeasesReturned`,
`AttemptEnds` and `StrandedKeyReturns`, which are liveness under fairness and beyond the
prover. Every invariant and every action property of the passing runs is a theorem.

## Findings

Each is a statement of the repository that a run refutes.

1. `wrong_key_cooled`. README.md:157-158: "The key is cooled down ~30s". With two
   concurrent requests, `AdvanceAfter` cools the key that the *other* request's
   selection left the cursor on (`keys.go:287`); the rejected key is not cooled.
2. `lost_wakeup`. `keys.go:151-153`: "no wakeup is lost". Two releases between two
   waiters' checks and their selects leave one token; one waiter sleeps beside a
   free slot until a later release or its deadline.
3. `success_refused`. `proxy.go:38`: "success; stop the loop and serve". After a
   success the handler asks for a usable key once more (`proxy.go:289`) and answers
   503 when its own charge, or another's, took the last key below the threshold.
4. `below_stop`. `keys.go:392`: "a key below this never serves". The first request
   on an unmeasured key fetches the balance after selecting it and serves
   whatever the balance is.
5. `budget_forgotten`. README.md:406: "at or below this the key is held back, so the last
   request of the day is never served to the upstream". The hold is 30 seconds
   (`proxy.go:221`); then the reset loop gives the key back unmeasured (`keys.go:450`), and no
   endpoint measures it again.
6. `auth_disables`. README.md:193: "**429 (rate limit)** and **401 (auth)** rotate but do NOT
   disable", `keys.go:409`: "never for 429/401/403". The exhaustion words are looked for in the body of
   every Firecrawl failure but a 429 (`profile.go:387-391`), so a 401 that has them disables the key.
   `TransientNeverDisables`, which passes, names this case and FMP's daily cap as its exceptions.

Observed while reading, with no run of their own: in reject mode a request gets
429 although another key has a free slot, if the richest key was taken between
selection and acquisition; the 502 "unreachable" is given when only the *last*
attempt had no response; the attempts of a canceled client go on to cool down
further keys; a free slot on a disabled key ends every wait at once, so a waiter
spins between selection and wait until its deadline; a later, shorter cooldown
or disable overwrites a longer one; README.md:115-116 says a key is rotated off at `LOW_CREDIT_THRESHOLD`, while the code never
reads it after start-up; `fallbackReset` with a day of 29 to 31 runs over into the next month in
short months (`FallbackMeetsTheDay` says how far); a Firecrawl body with
`success:false` and "rate limit exceeded" under a status other than 429 disables the key, while
`profile.go:348` says rate limits never do.

README.md:358-361 has an exhausted finance key "disabled until the next `CREDIT_RESET_DAY` at 00:00 UTC
(not merely cooled down)", but `Disable` overwrites (`keys.go:410`): a success of another request on
the key that is handled after the drain finds a balance of zero and clamps, which turns that into 30
seconds (`Hold` after `Drain`), after which the key comes back unmeasured.

Of configuration and routing: with `FIRECRAWL_LEGACY_FALLBACK=false` a rewritten pagination
link, which carries no prefix, gets a 404 (README.md:174-175; `NextComesBack` says so);
`PROXY_BASE_URL` is not validated, and with a value that does not parse or has no host, or a blank
Host header and no setting, no link is rewritten and pagination leaves the proxy; a path in it is
dropped from the links; an empty `FIRECRAWL_ROUTE_PREFIX` cannot be set, a blank
counts as unset; nested or equal prefixes are accepted and the first profile built wins; a stop
threshold above the default budget is accepted when no budget is set, and Exa's is never
compared with its budget: such a pool refuses for ever.

Of balances: README.md:237-240 says a Tavily layer whose limit is zero or less is skipped as
unlimited; the code takes a limit of zero for one that is used up, and only an absent one is skipped
(`creditusage.go:366-400`), which is what `BalanceFitsEveryLimit` states; `EnsureMeasured` fetches on the request path and on every request while the
fetch fails, although `refresh.go:28` and `proxy.go:74` say it never blocks and does so
once; a fetch that lands after a re-enable may put a key back below its threshold until the
next daily refresh (`StrandedKeyReturns` shows that it returns); a body over the cap is
billed upstream and never charged locally, nor is a call that times out after it was billed; an Exa key comes back unmeasured, not with its
budget; a negative Firecrawl number is recorded as zero, but `refreshKey` returns it as it is
and `refreshOne` takes it for a failed fetch (`creditusage.go:411`, `refresh.go:185`). Of attempts: the 403 budget shares its counter with other failures, so a 403 that
follows a 5xx may get no retry at all, while a 5xx that follows a 403 gets all of the schedule: "2
hits/key" (README.md:70) bounds the 403s of a key, not the calls after one; README.md:163 lists
5xx as retried on the same key, and `shouldRetry` has 500, 502, 503 and 504 only; a body that breaks off is served as it is.

## Not modelled

* Parsing providers' JSON and `costOf`: numbers out of a set. In `Rotator` and `Refresher` a
  balance is one too; where it comes from is `UsageFetch`.
* Transport, `/status`, logging, `paginationGuard`'s log line, rejection statistics: output,
  or settings handed to `net/http`.
* `Advance` and `OnSwitch`, which only tests call.
* A restart: nothing is persisted.
* The walk of `rewriteNext` over the JSON tree: every string is met, and the rule for one
  string is the model.

## Plan

Done: every component but the transport, with the runs and proofs above. What could follow:

1. The composition of `Rotator` with `Refresher`, to bound how long a key chosen on a stale
   balance keeps serving; the product is beyond the checker at useful bounds today.
2. An abstract outage: a drained key stays out until its reset, unless a clamp shortens that
   (README.md:358-361, `keys.go:410`), with a bound on how often that happens in a day.
3. A second key in `live`, for the wait beside a free slot of a disabled key.
