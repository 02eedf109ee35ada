# kiro-rs: specifications, model checking and proofs

kiro-rs is a proxy that offers the Anthropic and OpenAI APIs and serves them
from Kiro accounts. It owns a pool of credentials, keeps their tokens fresh,
moves requests from a failing credential to a healthy one, and lets
administrators add, disable, repair and delete credentials while it runs. All
of that happens in concurrent tasks of one process (tokio) that share a few
locks and one credentials file, which other programs may write too.

This directory holds TLA+ modules for the parts where those tasks interfere,
TLC configurations for small instances, and TLAPS proofs for every instance.
`tlc -config <run>.cfg <module>.tla` repeats a run, `tlapm
CredentialPoolProofs.tla` and `tlapm ModelCacheProofs.tla` repeat the proofs; `PROJECT.json` lists runs,
findings, hazards, theorems, and the source lines each definition stands for.

## The system

| part | state it keeps | operations | who calls it |
|---|---|---|---|
| `MultiTokenManager` (`kiro/token_manager.rs`), credential health | `entries` (disabled, reason, failure counters, cooldown, self-heal streak), `current_id`, `next_id`, the credentials file | `acquire_context_*`, `report_*`, `try_self_heal`, `set_disabled`, `reset_and_enable`, `add_credential`, `delete_credential`, sweeps, `persist_credentials` | every request through the provider, the admin service, background monitors |
| the same, tokens | access and refresh token per entry, `refresh_lock` per credential, `persist_lock` | `try_ensure_token`, `prepare_request_token`, `force_refresh_token_for`, `try_reload_credential_from_file`, relogin | requests, balance and model queries, administrators |
| the same, selection | RPM windows, in-flight counts, SWRR weights, priorities | `acquire_context_impl`, `record_request`, `select_next_credential` | requests |
| the same, model cache | per-credential model lists, generations, epoch, single-flight locks | `refresh_model_cache_for`, `invalidate_*`, `warm_*` | requests, proxy changes, admin |
| provider (`kiro/provider.rs`) | HTTP clients by proxy and credential | `call_api_with_retry`, `call_mcp_with_retry` | protocol handlers |
| session affinity (`kiro/session_affinity.rs`) | session to credential, LRU of 8192 | lookup, bind | `acquire_context_impl` |
| proxy pool (`admin/proxy_pool.rs`) and rotation | proxies, health, assignments | add, delete, probe, rotate | admin, background task |
| event stream decoder (`kiro/parser`) | buffer, error count, state | feed, decode, recover | provider responses |
| SSE stream (`anthropic/stream.rs`) | open blocks, tool calls, usage | upstream event to SSE events | handlers |
| conversion (`anthropic/converter.rs`, `openai.rs`, `responses.rs`) | none | request translation | handlers |
| web search loop, cache metering | rounds; simulated cache entries | search rounds; token accounting | handlers |
| quota alerts (`admin/quota_alerts`) | delivery records | process a round, record a result | background task |
| admin service (`admin/service.rs`) | balance cache, logins in progress | the HTTP admin API | administrators |
| client keys, usage, traces | stores on disk | create, limit, record | handlers, admin |

What is hard in it:

* A request picks a credential, awaits a token and then an upstream call, and
  reports an outcome about a credential that others have disabled, healed,
  logged in again or deleted in the meantime.
* The reason a credential is disabled decides who may enable it again
  (self-heal, quota recovery, an operator only), and many operations write it.
* Refresh tokens rotate: the upstream accepts each once. Two refreshes, a login
  during a refresh, a lost reply or a stale write of the file loses an account.
* The file is written after the `entries` lock is released, by many tasks; the
  process may die in between.

## Modules

### CredentialPool: who may use, disable and revive a credential

State: `entry` is `CredentialEntry` without tokens and display counters; `live`
the ids in `entries`; `disk`, `diskLive` the file; `pending` says that some
operation has yet to call `persist_credentials`; `req` what each request task is
doing (about to self-heal, awaiting a token, reloading the file, awaiting the
upstream call, or nothing); `sweep` the ids
a running quota sweep read at its beginning. `heals`, `banned`, `reloaded` and
`retired` are history variables for the properties: `heals` counts the self-heals of a
credential for each model since its streak last ended (`made`), how many of them no
write has followed (`unsaved`), and how many a crash has kept from the file (`lost`).
A restart never takes a heal back.

One action is one critical section of `entries`, the moves of `current_id` that
follow it included. The report handlers are `ReportSuccess`, `ReportFailure`,
`ReportTerminal` (suspended and quota exhausted, whose code is the same but for
the reason), `ReportThrottled`, `ReportRefreshFailure`,
`ReportRefreshTokenInvalid`. A request that finds nothing (`FindNothing`) takes the
lock again in `TrySelfHeal`, which revives every eligible credential of its scope
without looking whether one has become available, and then selects again. The recovery
from `invalid_grant` is two steps as well: `ReadFile` finds another token in the
file, `ReloadFromFile` stores it, enables the credential and writes nothing. Whether
the file holds another token is left open here, as tokens are in `TokenRefresh`: it does
when another client has rotated it, but also when this process has yet to write a login
or a refresh of its own. The
administrators' operations are under `Admin`, timers and the balance monitor under
`Environment`. `Persist` and `Restart` are the file and `MultiTokenManager::new`, which
takes a credential that is disabled for no readable reason as disabled by an operator.
`MaxRounds` is `self_heal_max_consecutive_rounds`, 0 for no limit; the rounds saturate at
`MaxU32`. `MaxHeals` only bounds the history in an instance.

Abstractions, and why they are safe. Time: a cooldown or the self-heal interval
is a flag that some step clears, so every length of it is covered. RPM: which
credentials have a full window is arbitrary at each use (`Full`). A request's
`(model, group)` is a `Scope`; which credentials serve it is a constant. The
choice between sticky, priority and load-balanced selection is "any available
credential", which contains all of them. `SweepOne` lets `current_id` move or
stay after the last element, where the code compares with the value it read at
first. Writing the file is allowed at any time while `pending` holds, so a write
may lag behind any number of operations, as it may in the code.

### TokenRefresh and TokenVault: the tokens of one credential

A token is a login and the number of its rotations. `issued` is the upstream: it
accepts one token of each login, or none once it has revoked the login. It answers a
refresh with the next token or with a new access token alone; the reply may be
lost, and a request discards one whose access token would expire within five minutes
(`DiscardReply`: `try_ensure_token` bails out before the merge). Any number of logins
may be under way for the credential, since nothing in the login sessions excludes it.

A task refreshes (for a request, for a query, or forced), reloads the file after a rejection, logs in (through
`replace_idc_relogin_credentials`, under `refresh_lock`, or through
`do_relogin_update`, three operations outside it), and writes the file. Its
program counter stops wherever the code awaits or takes a lock again: the file,
the entry to compare with and the entry to change are three separate reads in
`try_reload_credential_from_file`. `IdeRefreshes` and `IdeWrites` are the other
client of the same login that the reload exists for; the reload runs without them too,
when a rejected request reads the file before a new login or a rotated token has been written.
`lost` (logins given up: revoked, or the accepted token went with a lost or discarded
reply, a reload or a crash) and `reloaded` are history.

`TokenVault` is the abstract specification. The token held is replaced only by its
successor, by that of a completed login, once for each login, or by one that was read
from the file; and copies reach the file one at a time, each made after the one before
was saved. It does not say that tokens only move forward: of two logins stored in the
reverse order the older stays, and a reload may put an older token back, as in the code.
`TokenRefresh` implements it with `held <- mem.tok`, `saved <- file.tok`, `copy` the
snapshot of the task that holds `persist_lock`, `waiting` the tokens of logins not yet
stored, and `read` the tokens that reloads have in hand; the run `token_refresh` checks
the refinement.

### ModelCache: lists of models, and what may make them stale

State: `cache` says for each credential what the cached list was fetched with:
how often the credential's account, token or proxy (`version`) and the global
proxy (`proxy`) had been replaced by then. `generation` and `epoch` are the code's;
`lockOf` and `holder` are `model_refresh_locks`, with a second lock for a credential
whose first one was removed while somebody held it. A task looks up (a discovery,
the warming of a new credential, or an administrator's query, which wants a list
that arrived after it asked), or changes something and then invalidates, in the two
or three critical sections the code has. `floor` is a history field: what was already
complete when the task asked.

Not in it: an id that is added again, changes of the API domain and back-filled
profile ARNs, which do not invalidate in the code and are no versions here.
Generation and epoch are read in one step, since a change between the two reads has
the effect of one before both or after both. An answer is returned even
when its fetch was overtaken; `AnswersAreCurrent` shows it is new enough.

### MC modules

`MCCredentialPool`, `MCTokenRefresh` and `MCModelCache` only name the sets the configurations use
and the symmetry of requests and tasks, which no definition tells apart. Symmetry
is used in the runs without liveness properties only.

## Runs

| run | asks | instance |
|---|---|---|
| `pool_reports` | do counters, reasons and streaks stay consistent, do late reports keep the reason, and can anything but an operator or a reload lift a suspension? | one credential, two requests, two models, 3 failures, 2 rounds, reloads, no quota recovery |
| `pool_restarts` | do the self-heal bound and the persisted state survive crashes? | one credential that may lack its key or its reason at first, two requests, RPM limits, reloads, quota recovery |
| `pool_accounts` | does every operation of an administrator write what the next start needs, and are ids given out once? | two accounts, one added later, no request, inverted priorities, no restart |
| `pool_reload_revives` | can a request bring a suspended credential back? | violated: see findings |
| `pool_sweep_revives` | is a suspension lifted by an operator or a reload only, with quota recovery on? | violated: see findings |
| `pool_id_reuse` | are ids of deleted accounts never given away again, also after a restart? | violated: see findings |
| `token_refresh` | is a token ever sent twice, dropped, overtaken in the file, or replaced by a refresh of an older login? | three tasks, two logins, one rotation of each, lost and discarded replies |
| `token_progress` | does every task end, and is every lock released? | two tasks, one login and one rotation, another client, revocation, lost replies, crashes |
| `token_login_lost` | can a reload take a completed login back? | violated: see findings |
| `model_cache` | can a list from before a change be cached or returned, or two fetches run at once? | three tasks, one credential, one change of it and one of the proxy |
| `model_cache_progress` | does every lookup end? | two tasks, two credentials, one permit |
| `token_stale_invalid` | does `InvalidRefreshToken` mean the upstream rejects the token? | violated: see findings |

Why the bounds are enough for what they look for: every entry is changed on its
own except by self-heal and by the choice of `current_id`, so one credential
shows the races of reports, operators and restarts, and two show what adding and deleting
does to ids and to the file. Two
requests are needed to have one report while another is in flight, two models to
have a streak of one ended by the other, a failure threshold of 3 to tell "one
below" from "after a reset", two rounds to see a streak continue. For tokens,
three tasks are one refresh in flight, one waiting for the lock and one login or
writer; two logins under way at once let a relogin overtake a relogin; one rotation tells
a spent token from the accepted one. For the model cache, three tasks
are a fetch, one that waits for it and one that changes what they fetch; the proofs
cover any number of changes. The identifiers of an instance
are finite, so `AddCredential` stops after `Cred` is used up and the pool may
reach a state without steps: these runs do not check for deadlock. The others do.

What a passing run leaves out: `token_refresh` has no other client and no crash, because the refinement and the file property speak
of a process that is alone with its file, and no revocation by the upstream, for its
size; `token_progress` has all three, `token_login_lost` and `token_stale_invalid` the
last. There a login loses its token by a lost or
discarded reply, is rejected, and the reload is reached that way. `BannedStaysDisabled`
is checked without quota recovery, since `pool_sweep_revives` shows it does not hold with it.

Settings (thresholds, priorities, whether self-heal, RPM limits and quota recovery are
on) do not change while a run lasts; self-heal is always on. The credentials file has
the multi-credential format, without which nothing is written.

`FairSpec` assumes that a task that can act does (weak fairness of `Working`: the
runtime polls woken tasks, upstream calls have timeouts) and that a task waiting
for a lock that becomes free again and again obtains it (strong fairness of
`Waiting`: tokio's mutex is FIFO, parking_lot's is eventually fair). Nothing is
assumed of starts of tasks, expiry, the other client or crashes.

## Proofs

`ModelCacheProofs` proves for every set of credentials and tasks, any number of
permits and changes, from `CacheAssumption`:

* `CacheStaysCurrent`: `Spec => []CacheIsCurrent`;
* `AnswersStayCurrent`: `Spec => []AnswersAreCurrent`;
* `FetchesAreSingle`: `Spec => []SingleFlight`.

Its invariant says what makes a fetch harmless before it answers: what it has read
is still so, or its generation or epoch will not match (`NotStale`); what it may put
into the cache is new enough for every task that asks (`Serves`); a task with the
second lock of a credential never gets to the upstream, because the credential is
gone (`SecondLock`). `TaskStep` carries the steps of lookups, `ChangesStep` those of
changes, by monotonicity of the counters, and each action has a lemma.

`CredentialPoolProofs` proves for every set of credentials, requests, scopes and
models, all thresholds, and every setting of the switches:

* `TypeCorrect`: `Spec => []TypeOK`;
* `EnabledIsHealthy`: `Spec => []EnabledMeansHealthy`;
* `StreaksAreHealable`: `Spec => []StreakOnlyWhileHealable`;
* `SelfHealIsBounded`: `Spec => []SelfHealBounded`: where there is a limit, a
  credential is healed at most `MaxRounds` times in a row for a model, plus the heals
  crashes kept from the file, each crash at most `MaxRounds`. A crash between a heal and its
  write really does let the next process heal once more; with `MaxRounds = 0` the code
  has no limit, and the theorem promises nothing.

Its only assumption is `PoolAssumption`. None of the four is inductive. A
credential that self-heal enables keeps its refresh-failure count, so "enabled
means below the threshold" needs that a credential disabled as
`TooManyFailures` is below it already; the bound on heals needs that the history
agrees with the streak in the entry, for one model, and with that in the file, which a
restart brings back; and a credential without its key must not gather failures,
because a restart gives it a reason that self-heal ignores. `IInv` adds these:
`Sound` and `SoundSaved` speak of one entry and of one saved credential,
`CallsHaveKeys` of requests, `HealsMatch` of the history: the heals that no crash has
lost are in the entry, and those that were written are in the file. The proof has a lemma
for each operation on one entry, a few lemmas that carry those to the whole state
(`OneEntryKept`, `OneEntryCleared`, `CallsFollow`, `HistoryFollows`,
`StepKeeps`), and a lemma for each action.

Model-checked only: the properties of `TokenRefresh` and its refinement of
`TokenVault`; `LateReportsKeepReason`, `BannedStaysDisabled`,
`RestartLosesNothing`, `IdsNeverReused`; the bounds of the counters in `ModelCache`'s `TypeOK`; and
liveness, which the provers cannot treat.

## Findings

PROJECT.json quotes the lines. Five runs violate what the source says of itself:

1. `try_reload_credential_from_file` enables whatever the entry has become, also
   a credential suspended meanwhile (`pool_reload_revives`, action property
   `RequestsKeepSuspension`).
2. A one-click quota sweep replaces `Suspended` by `QuotaExceeded`, and recovery
   then enables the account (`pool_sweep_revives`).
3. After a restart the id of a deleted newest account is given to the next one
   (`pool_id_reuse`).
4. The same reload stores the tokens of an old login over those of a new one
   (`token_login_lost`).
5. A late `invalid_grant` disables a credential that has just been logged in
   again (`token_stale_invalid`).

Noted without a run: the reload does not write what it has changed, so a restart brings
a credential it had enabled back as disabled (`RestartLosesNothing` names this as its
exception); a rotated refresh token goes with a reply that `try_ensure_token` discards
as too short-lived (token_manager.rs:2809), after which the credential needs a login
(`TokenNeverLost` names it); of two logins completed for one credential the one stored
last stays, whichever is older; `current_id` keeps the id of a deleted credential when no
other is enabled (CHANGELOG.md:811 says otherwise); the documentation of
`delete_credential` (token_manager.rs:4998) demands a disabled credential and
the code (5011) does not ask.

## Not modelled

Settings that only change constants of an instance (priorities, groups, regions),
display counters, the contents of requests and replies, the web interface, the
tray tool, scripts and workflows. `components` in PROJECT.json gives the reason
for each part. Failing disk writes are not modelled: the code logs them and goes
on, which the models see as a write that has not happened yet.

## Plan

1. `CredentialPool`, `CredentialPoolProofs` (done).
2. `TokenRefresh`, `TokenVault` (done); `TokenRefreshProofs`: type correctness,
   `RefreshesHeldToken`, `TokenNeverLost` and the refinement, without the other
   client and crashes.
3. `ModelCache`, `ModelCacheProofs` (done).
4. `Dispatch`: the acquire loop with RPM windows, in-flight guards and the smooth
   weighted round robin (as an operator against its fairness bound).
5. `ProviderRetry`: attempt budgets and the 429 policy of `call_api_with_retry`,
   with termination as a liveness property and composition with the pool's reports.
6. `SessionAffinity`, `ProxyPool` (late probe results, rotation),
   `EventStreamDecoder` (resynchronisation, error limit), `QuotaAlerts`.
7. `SseStream` (every opened block is closed once, in order), `WebSearchLoop`
   (bounded rounds), cache metering.

Further theorems, in this order: `LateReportsKeepReason` without restarts;
`BannedStaysDisabled` without quota recovery; `RestartLosesNothing`; ids are
never reused without restarts; then those of step 2.
