----------------------------- MODULE ModelCache -----------------------------
(***************************************************************************)
(* The per-credential cache of model lists in MultiTokenManager            *)
(* (src/src/kiro/token_manager.rs).  Requests are routed by it, so a list  *)
(* fetched for an account, or through a proxy, that has been replaced must *)
(* not stay in it.  Fetches of one credential are serialised by a lock,    *)
(* all fetches share a few permits, and whoever changes a credential or    *)
(* the global proxy invalidates afterwards: a generation per credential,   *)
(* and an epoch for all, tell a fetch that it was overtaken.               *)
(*                                                                         *)
(* A task looks up a list, or changes something and then invalidates.      *)
(***************************************************************************)
EXTENDS Naturals, FiniteSets

CONSTANTS
  Cred, Task,
  MaxFetches,   \* permits of model_refresh_semaphore
  MaxChanges,   \* bound on the changes of a credential and of the proxy
  None

ASSUME CacheAssumption ==
  /\ MaxFetches \in Nat \ {0} /\ MaxChanges \in Nat
  /\ None \notin Task \cup [cred: 0..MaxChanges, proxy: 0..MaxChanges, fresh: BOOLEAN]

VARIABLES
  live,         \* ids present in `entries`
  version,      \* how often a credential's account, token or proxy was replaced
  proxy,        \* how often the global proxy was replaced
  cache,        \* model_cache: what the cached list was fetched with
  generation,   \* model_cache_generations
  epoch,        \* model_cache_epoch
  lockOf,       \* which lock model_refresh_locks holds for a credential
  holder,       \* the task that holds a lock
  task

vars == <<live, version, proxy, cache, generation, epoch, lockOf, holder, task>>

Count == 0..MaxChanges
Locks == Cred \X {0, 1}   \* the second one is made after the first was removed
Lists == [cred: Count, proxy: Count]
Cached == [cred: Count, proxy: Count, fresh: BOOLEAN]

Fetching == {"prepare", "proxy", "sent"}   \* while a permit is held
Steps == {"idle", "lock", "permit", "fallback", "done", "invalidate", "remove", "epoch", "clear"}
         \cup Fetching

\* kind: a discovery falls back to the last good list, the warmer of a new credential
\* does not, an administrator's query wants a list that arrived after it asked;
\* renewed: such a list has arrived; list: what the task has fetched or answers;
\* floor: history, what a list must at least have been fetched with
Tasks == [pc: Steps, cred: Cred \cup {None}, kind: {"discover", "warm", "force"},
          lock: Locks \cup {None}, renewed: BOOLEAN,
          generation: 0..(MaxChanges + 1), epoch: Count, list: Lists, floor: Lists]

ListOf(e) == [cred |-> e.cred, proxy |-> e.proxy]
Oldest == [cred |-> 0, proxy |-> 0]
Idle == [pc |-> "idle", cred |-> None, kind |-> "warm", lock |-> None, renewed |-> FALSE,
         generation |-> 0, epoch |-> 0, list |-> Oldest, floor |-> Oldest]

At(t, pc) == task[t].pc = pc
Goto(t, pc) == task' = [task EXCEPT ![t].pc = pc]
Finish(t) == task' = [task EXCEPT ![t] = Idle]
Release(t) == holder' = [holder EXCEPT ![task[t].lock] = None]

\* somebody has changed c, or the proxy, and has yet to invalidate
Changing(c) == \E t \in Task : task[t].pc \in {"invalidate", "remove"} /\ task[t].cred = c
ProxyChanging == \E t \in Task : task[t].pc \in {"epoch", "clear"}

Init ==
  /\ live = Cred
  /\ version = [c \in Cred |-> 0] /\ proxy = 0
  /\ cache = [c \in Cred |-> None]
  /\ generation = [c \in Cred |-> 0] /\ epoch = 0
  /\ lockOf = [c \in Cred |-> <<c, 0>>] /\ holder = [l \in Locks |-> None]
  /\ task = [t \in Task |-> Idle]

-----------------------------------------------------------------------------
(* refresh_model_cache_for and cached_or_refresh_models_for. *)

\* a lookup that begins at step pc
Lookup(pc, c, kind, lock, list, floor) ==
  [Idle EXCEPT !.pc = pc, !.cred = c, !.kind = kind, !.lock = lock, !.list = list, !.floor = floor]

\* a fresh list answers at once, but not an administrator
Ask(t, c, kind) ==
  /\ At(t, "idle")
  /\ LET hit == kind # "force" /\ cache[c] # None /\ cache[c].fresh IN
     task' = [task EXCEPT ![t] =
       Lookup(IF hit THEN "done" ELSE "lock", c, kind, lockOf[c],
              IF hit THEN ListOf(cache[c]) ELSE Oldest,
              [cred |-> IF Changing(c) THEN 0 ELSE version[c],
               proxy |-> IF ProxyChanging THEN 0 ELSE proxy])]
  /\ UNCHANGED <<live, version, proxy, cache, generation, epoch, lockOf, holder>>

\* the list that another task put there meanwhile is good enough
Suffices(t) ==
  LET e == cache[task[t].cred] IN
  e # None /\ IF task[t].kind = "force" THEN task[t].renewed ELSE e.fresh

\* (mutation: the lock is not waited for)
TakeLockWithoutWaiting(t) ==
  /\ At(t, "lock")
  /\ task' = [task EXCEPT ![t].pc = "permit", ![t].epoch = epoch,
                          ![t].generation = generation[task[t].cred]]
  /\ holder' = [holder EXCEPT ![task[t].lock] = t]
  /\ UNCHANGED <<live, version, proxy, cache, generation, epoch, lockOf>>

\* the single-flight lock; after a second look the generation and the epoch are read
TakeLock(t) ==
  /\ At(t, "lock") /\ holder[task[t].lock] = None
  /\ IF Suffices(t)
     THEN /\ task' = [task EXCEPT ![t].pc = "done", ![t].list = ListOf(cache[task[t].cred])]
          /\ UNCHANGED holder
     ELSE /\ task' = [task EXCEPT ![t].pc = "permit", ![t].epoch = epoch,
                                  ![t].generation = generation[task[t].cred]]
          /\ holder' = [holder EXCEPT ![task[t].lock] = t]
  /\ UNCHANGED <<live, version, proxy, cache, generation, epoch, lockOf>>

TakePermit(t) ==
  /\ At(t, "permit") /\ Cardinality({u \in Task : task[u].pc \in Fetching}) < MaxFetches
  /\ Goto(t, "prepare")
  /\ UNCHANGED <<live, version, proxy, cache, generation, epoch, lockOf, holder>>

\* prepare_request_token takes what it needs of the credential
Prepare(t) ==
  /\ At(t, "prepare") /\ task[t].cred \in live
  /\ task' = [task EXCEPT ![t].pc = "proxy", ![t].list.cred = version[task[t].cred]]
  /\ UNCHANGED <<live, version, proxy, cache, generation, epoch, lockOf, holder>>

\* the proxy is read after the profile ARN has been resolved
ReadProxy(t) ==
  /\ At(t, "proxy")
  /\ task' = [task EXCEPT ![t].pc = "sent", ![t].list.proxy = proxy]
  /\ UNCHANGED <<live, version, proxy, cache, generation, epoch, lockOf, holder>>

\* (mutation: the generation is not compared)
NotOvertakenByProxy(t) == task[t].epoch = epoch

NotOvertaken(t) == task[t].generation = generation[task[t].cred] /\ task[t].epoch = epoch

\* the answer is stored unless the fetch was overtaken, and returned in any case
Reply(t) ==
  LET c == task[t].cred IN
  /\ At(t, "sent")
  /\ cache' = IF NotOvertaken(t)
              THEN [cache EXCEPT ![c] = [cred |-> task[t].list.cred,
                                         proxy |-> task[t].list.proxy, fresh |-> TRUE]]
              ELSE cache
  /\ task' = [u \in Task |->
       IF u = t THEN [task[u] EXCEPT !.pc = "done"]
       ELSE IF task[u].cred = c /\ At(u, "lock") /\ NotOvertaken(t)
            THEN [task[u] EXCEPT !.renewed = TRUE] ELSE task[u]]
  /\ Release(t)
  /\ UNCHANGED <<live, version, proxy, generation, epoch, lockOf>>

\* the credential is gone, its token cannot be refreshed, the upstream fails
Fail(t) ==
  /\ task[t].pc \in Fetching
  /\ IF task[t].kind = "discover" THEN Goto(t, "fallback") ELSE Finish(t)
  /\ Release(t)
  /\ UNCHANGED <<live, version, proxy, cache, generation, epoch, lockOf>>

\* (mutation: without a list it fetches again)
FallbackRetries(t) ==
  LET e == cache[task[t].cred] IN
  /\ At(t, "fallback")
  /\ IF e = None THEN Goto(t, "lock")
     ELSE task' = [task EXCEPT ![t].pc = "done", ![t].list = ListOf(e)]
  /\ UNCHANGED <<live, version, proxy, cache, generation, epoch, lockOf, holder>>

\* the last successful list, however old
Fallback(t) ==
  LET e == cache[task[t].cred] IN
  /\ At(t, "fallback")
  /\ IF e = None THEN Finish(t)
     ELSE task' = [task EXCEPT ![t].pc = "done", ![t].list = ListOf(e)]
  /\ UNCHANGED <<live, version, proxy, cache, generation, epoch, lockOf, holder>>

Return(t) ==
  /\ At(t, "done")
  /\ Finish(t)
  /\ UNCHANGED <<live, version, proxy, cache, generation, epoch, lockOf, holder>>

-----------------------------------------------------------------------------
(* Changes, each followed by its invalidation. *)

\* relogin, new refresh token, reload from the file, forced refresh, credential proxy
Change(t, c) ==
  /\ At(t, "idle") /\ c \in live /\ version[c] < MaxChanges
  /\ version' = [version EXCEPT ![c] = @ + 1]
  /\ task' = [task EXCEPT ![t].pc = "invalidate", ![t].cred = c]
  /\ UNCHANGED <<live, proxy, cache, generation, epoch, lockOf, holder>>

\* invalidate_model_cache
Invalidate(t) ==
  LET c == task[t].cred IN
  /\ At(t, "invalidate")
  /\ generation' = [generation EXCEPT ![c] = @ + 1]
  /\ cache' = [cache EXCEPT ![c] = None]
  /\ Finish(t)
  /\ UNCHANGED <<live, version, proxy, epoch, lockOf, holder>>

\* (mutation: whether the credential exists is not asked)
DeleteUnchecked(t, c) ==
  /\ At(t, "idle")
  /\ live' = live \ {c}
  /\ task' = [task EXCEPT ![t].pc = "remove", ![t].cred = c]
  /\ UNCHANGED <<version, proxy, cache, generation, epoch, lockOf, holder>>

\* delete_credential
Delete(t, c) ==
  /\ At(t, "idle") /\ c \in live
  /\ live' = live \ {c}
  /\ task' = [task EXCEPT ![t].pc = "remove", ![t].cred = c]
  /\ UNCHANGED <<version, proxy, cache, generation, epoch, lockOf, holder>>

\* (mutation: the generation stays, as if only the entry were removed)
RemoveEntryOnly(t) ==
  LET c == task[t].cred IN
  /\ At(t, "remove")
  /\ cache' = [cache EXCEPT ![c] = None]
  /\ lockOf' = [lockOf EXCEPT ![c] = <<c, 1>>]
  /\ Finish(t)
  /\ UNCHANGED <<live, version, proxy, generation, epoch, holder>>

\* remove_model_cache
Remove(t) ==
  LET c == task[t].cred IN
  /\ At(t, "remove")
  /\ generation' = [generation EXCEPT ![c] = @ + 1]
  /\ cache' = [cache EXCEPT ![c] = None]
  /\ lockOf' = [lockOf EXCEPT ![c] = <<c, 1>>]
  /\ Finish(t)
  /\ UNCHANGED <<live, version, proxy, epoch, holder>>

SetGlobalProxy(t) ==
  /\ At(t, "idle") /\ proxy < MaxChanges
  /\ proxy' = proxy + 1
  /\ Goto(t, "epoch")
  /\ UNCHANGED <<live, version, cache, generation, epoch, lockOf, holder>>

\* invalidate_all_model_caches: first the epoch, then the cache
BumpEpoch(t) ==
  /\ At(t, "epoch")
  /\ epoch' = epoch + 1
  /\ Goto(t, "clear")
  /\ UNCHANGED <<live, version, proxy, cache, generation, lockOf, holder>>

ClearCache(t) ==
  /\ At(t, "clear")
  /\ cache' = [c \in Cred |-> None]
  /\ Finish(t)
  /\ UNCHANGED <<live, version, proxy, generation, epoch, lockOf, holder>>

\* modelCacheTtlSecs pass
Expire(c) ==
  /\ cache[c] # None /\ cache[c].fresh
  /\ cache' = [cache EXCEPT ![c].fresh = FALSE]
  /\ UNCHANGED <<live, version, proxy, generation, epoch, lockOf, holder, task>>

-----------------------------------------------------------------------------
Working(t) ==
  \/ Prepare(t) \/ ReadProxy(t) \/ Reply(t) \/ Fail(t) \/ Fallback(t) \/ Return(t)
  \/ Invalidate(t) \/ Remove(t) \/ BumpEpoch(t) \/ ClearCache(t)

Waiting(t) == TakeLock(t) \/ TakePermit(t)

Next ==
  \/ \E t \in Task :
       \/ Working(t) \/ Waiting(t) \/ SetGlobalProxy(t)
       \/ \E c \in Cred :
            \/ \E kind \in {"discover", "warm", "force"} : Ask(t, c, kind)
            \/ Change(t, c) \/ Delete(t, c)
  \/ \E c \in Cred : Expire(c)

Spec == Init /\ [][Next]_vars

\* the runtime polls woken tasks, upstream calls have timeouts, tokio's Mutex and
\* Semaphore are FIFO
FairSpec == Spec /\ \A t \in Task : WF_vars(Working(t)) /\ SF_vars(Waiting(t))

-----------------------------------------------------------------------------
(* Properties. *)

\* The state has the shape of the cache, its counters and the tasks; epoch and
\* generation count invalidations and stay within the bounds of the changes.
TypeOK ==
  /\ live \subseteq Cred
  /\ version \in [Cred -> Count] /\ proxy \in Count
  /\ cache \in [Cred -> Cached \cup {None}]
  /\ generation \in [Cred -> 0..(MaxChanges + 1)] /\ epoch \in Count
  /\ lockOf \in [Cred -> Locks]
  /\ holder \in [Locks -> Task \cup {None}]
  /\ task \in [Task -> Tasks]

\* Once every change has been invalidated the cache holds no list of a deleted
\* credential, of a replaced account or of a replaced proxy, although a fetch that
\* began before the change may answer at any time after it.
CacheIsCurrent ==
  \A c \in Cred : cache[c] # None =>
    /\ c \in live \/ Changing(c)
    /\ cache[c].cred = version[c] \/ Changing(c)
    /\ cache[c].proxy = proxy \/ ProxyChanging

\* Whoever asks after a change is complete never gets a list from before it: not from
\* the cache, not from the fetch of another task it waited for, and not by fallback.
AnswersAreCurrent ==
  \A t \in Task : At(t, "done") =>
    /\ task[t].list.cred >= task[t].floor.cred
    /\ task[t].list.proxy >= task[t].floor.proxy

\* At most one fetch of a credential is at the upstream (single flight), also when
\* the credential is deleted and its lock replaced meanwhile.
SingleFlight ==
  \A t, u \in Task : At(t, "sent") /\ At(u, "sent") /\ task[t].cred = task[u].cred => t = u

\* Every lookup and every invalidation ends, whatever other tasks hold or wait for.
TasksEnd == \A t \in Task : ~At(t, "idle") ~> At(t, "idle")
=============================================================================
