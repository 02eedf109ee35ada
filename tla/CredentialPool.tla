--------------------------- MODULE CredentialPool ---------------------------
(***************************************************************************)
(* The health life cycle of the credentials held by MultiTokenManager      *)
(* (src/src/kiro/token_manager.rs): which credentials requests may use,    *)
(* who disables and who revives them, what reaches the credentials file,   *)
(* and what a restart brings back.                                         *)
(*                                                                         *)
(* Requests are concurrent tasks: a request picks a credential, awaits a   *)
(* token for it, awaits the upstream call, and reports the outcome to the  *)
(* manager, which may have changed its mind about the credential in the    *)
(* meantime.  Every action is one critical section of the `entries` lock   *)
(* (the writes of the displayed `current_id` are part of it).  Writing     *)
(* the file is a step of its own, after the lock is released, and always   *)
(* succeeds.  Tokens are in TokenRefresh: whether a refresh has changed    *)
(* them, and whether the file holds others, is left open here.             *)
(***************************************************************************)
EXTENDS Naturals

CONSTANTS
  Cred,          \* the credential ids the process may allocate
  Req,           \* concurrent request tasks
  Scope,         \* (model, group) pairs requests ask for
  Model,         \* normalised model names of those scopes
  ModelOf,       \* the model of a scope
  Serves,        \* the scopes whose group matches and whose model is not known to be unsupported
  Priority,      \* configured priority of a credential
  Invert,        \* invert_priority: larger numbers first
  InitLive,      \* credentials in the file at the first start
  Broken,        \* api_key credentials whose file entry may lack the key
  Unexplained,   \* credentials the file may disable without a reason that can be read
  MaxFailures,   \* MAX_FAILURES_PER_CREDENTIAL
  MaxRounds,     \* self_heal_max_consecutive_rounds, 0 for no limit
  MaxU32,        \* the largest u32, where the rounds stop counting
  MaxHeals,      \* bound on the heals of a streak in an instance
  RpmEnabled,    \* account_rpm_limit_enabled
  QuotaRecovery, \* quota_reset_recovery_enabled
  Restarts,      \* the process may crash and start again
  None

ASSUME PoolAssumption ==
  /\ Cred \subseteq Nat \ {0}
  /\ InitLive \subseteq Cred
  /\ Broken \subseteq InitLive /\ Unexplained \subseteq InitLive
  /\ ModelOf \in [Scope -> Model]
  /\ Serves \in [Cred -> SUBSET Scope]
  /\ Priority \in [Cred -> Nat]
  /\ MaxFailures \in Nat \ {0}
  /\ MaxU32 \in Nat \ {0} /\ MaxRounds \in 0..MaxU32
  /\ MaxHeals \in Nat
  /\ {Invert, RpmEnabled, QuotaRecovery, Restarts} \subseteq BOOLEAN
  /\ None \notin Model

VARIABLES
  entry,      \* in-memory health of each credential
  live,       \* ids present in `entries`
  currentId,  \* the displayed current credential, 0 for none
  nextId,     \* next_id
  req,        \* what each request task is doing
  sweep,      \* ids a one-click quota sweep still has to disable
  disk,       \* the persisted part of each credential in the file
  diskLive,   \* ids present in the file
  pending,    \* some operation has yet to write the file
  heals,      \* history: the self-heals of a credential for a model since its streak last ended
  banned,     \* history: credentials suspended and since then enabled by no operator and no reload
  reloaded,   \* history: credentials a reload has enabled and no write has followed
  retired     \* history: ids whose deletion has reached the file

vars == <<entry, live, currentId, nextId, req, sweep, disk, diskLive, pending, heals, banned, reloaded,
          retired>>

Reasons == {"Manual", "TooManyFailures", "Suspended", "TooManyRefreshFailures",
            "QuotaExceeded", "InvalidRefreshToken", "InvalidConfig"}
NoReason == "none"

Entries == [disabled: BOOLEAN, reason: Reasons \cup {NoReason},
            fails: 0..MaxFailures, refreshFails: 0..MaxFailures, throttled: BOOLEAN,
            rounds: 0..MaxU32, healModel: Model \cup {None}, cooling: BOOLEAN, broken: BOOLEAN]

Saved == [disabled: BOOLEAN, reason: Reasons \cup {NoReason},
          rounds: 0..MaxU32, healModel: Model \cup {None}, cooling: BOOLEAN, broken: BOOLEAN]

Idle == [pc |-> "idle"]
Requests == {Idle} \cup [pc: {"heal"}, scope: Scope]
                   \cup [pc: {"token", "reload", "call"}, cred: Cred, scope: Scope]

-----------------------------------------------------------------------------
(* The pieces every operation is built from. *)

\* reset_health, and the state of a credential that was just added
Healthy == [disabled |-> FALSE, reason |-> NoReason, fails |-> 0, refreshFails |-> 0,
            throttled |-> FALSE, rounds |-> 0, healModel |-> None, cooling |-> FALSE,
            broken |-> FALSE]

Disable(e, why) == [e EXCEPT !.disabled = TRUE, !.reason = why]

ClearStreak(e) == [e EXCEPT !.rounds = 0, !.healModel = None, !.cooling = FALSE]

\* (mutation: the streak is not saved)
SnapshotWithoutStreak(e) == [disabled |-> e.disabled, reason |-> e.reason, rounds |-> 0,
                             healModel |-> None, cooling |-> FALSE, broken |-> e.broken]

\* credentials_snapshot: what one credential contributes to the file
Snapshot(e) == [disabled |-> e.disabled, reason |-> e.reason, rounds |-> e.rounds,
                healModel |-> e.healModel, cooling |-> e.cooling, broken |-> e.broken]

\* (mutation: a saved reason is forgotten)
LoadWithoutReason(s) ==
  [disabled |-> s.disabled \/ s.broken, reason |-> NoReason,
   fails |-> 0, refreshFails |-> 0, throttled |-> FALSE,
   rounds |-> s.rounds, healModel |-> s.healModel, cooling |-> s.cooling, broken |-> s.broken]

\* why an entry of the file is disabled; an operator did it if the file does not say
SavedReason(s) == IF s.reason = NoReason THEN "Manual" ELSE s.reason

\* what MultiTokenManager::new makes of a file entry; a key missing from an
\* api_key entry disables it whatever the file says
Load(s) ==
  [disabled |-> s.disabled \/ s.broken,
   reason |-> IF s.broken THEN "InvalidConfig" ELSE IF s.disabled THEN SavedReason(s) ELSE NoReason,
   fails |-> 0, refreshFails |-> 0, throttled |-> FALSE,
   rounds |-> s.rounds, healModel |-> s.healModel, cooling |-> s.cooling,
   broken |-> s.broken]

\* order of (priority_key, id): priority_key turns the numbers around when inverted
BeforeBy(c, d, invert) ==
  \/ Priority[c] = Priority[d] /\ c <= d
  \/ IF invert THEN Priority[c] > Priority[d] ELSE Priority[c] < Priority[d]

Before(c, d) == BeforeBy(c, d, Invert)

Enabled(ent, lv) == {c \in lv : ~ent[c].disabled}

\* entry_available_for_request, but for the RPM window
Ready(ent, lv, s) == {c \in Enabled(ent, lv) : ~ent[c].throttled /\ s \in Serves[c]}

\* which credentials have a full RPM window at this instant
Full == IF RpmEnabled THEN SUBSET Cred ELSE {{}}

\* current_id moves to the first of S, and stays when S is empty
SwitchTo(S) ==
  \/ S = {} /\ UNCHANGED currentId
  \/ \E b \in S : (\A d \in S : Before(b, d)) /\ currentId' = b

\* the switch made by the report_*_for_request handlers
SwitchWithin(s) == \E full \in Full : SwitchTo(Ready(entry', live, s) \ full)

\* how often a model's streak healed, how many of these no write has followed, and
\* how many a crash has kept from the file
Counts == [made: Nat, unsaved: Nat, lost: Nat]
OneMore(n) == [n EXCEPT !.made = @ + 1, !.unsaved = @ + 1]
Written(n) == [n EXCEPT !.unsaved = 0]
Lost(n) == [n EXCEPT !.lost = @ + n.unsaved, !.unsaved = 0]
NoHeals == [m \in Model |-> [made |-> 0, unsaved |-> 0, lost |-> 0]]

-----------------------------------------------------------------------------
Init ==
  /\ live = InitLive /\ diskLive = InitLive
  /\ \E B \in SUBSET Broken, U \in SUBSET Unexplained :
       disk = [c \in Cred |-> [Snapshot(Healthy) EXCEPT !.broken = (c \in B), !.disabled = (c \in U)]]
  /\ entry = [c \in Cred |-> Load(disk[c])]
  /\ \/ Enabled(entry, live) = {} /\ currentId = 0
     \/ \E b \in Enabled(entry, live) :
          (\A d \in Enabled(entry, live) : Before(b, d)) /\ currentId = b
  /\ \E m \in InitLive \cup {0} : (\A d \in InitLive : d <= m) /\ nextId = m + 1
  /\ req = [r \in Req |-> Idle]
  /\ sweep = {} /\ pending = FALSE
  /\ heals = [c \in Cred |-> NoHeals]
  /\ banned = {} /\ reloaded = {}
  /\ retired = {}

-----------------------------------------------------------------------------
(* Requests. *)

\* acquire_context_impl: sticky or load-balanced choice of an available credential
Acquire(r) ==
  /\ req[r] = Idle
  /\ \E s \in Scope : \E c \in Ready(entry, live, s) :
       /\ req' = [req EXCEPT ![r] = [pc |-> "token", cred |-> c, scope |-> s]]
       /\ currentId' \in {c, currentId}   \* model discovery leaves it alone
  /\ UNCHANGED <<entry, live, nextId, sweep, disk, diskLive, reloaded, pending, heals, banned, retired>>

\* the choice has found nothing: every credential that could serve has a full RPM
\* window, or there is none; the request goes on to try_self_heal, without the lock
FindNothing(r) ==
  /\ req[r] = Idle
  /\ \E s \in Scope :
       /\ \E full \in Full : Ready(entry, live, s) \subseteq full
       /\ req' = [req EXCEPT ![r] = [pc |-> "heal", scope |-> s]]
  /\ UNCHANGED <<entry, live, currentId, nextId, sweep, disk, diskLive, reloaded, pending, heals, banned, retired>>

\* (mutation: the reason is not looked at)
HealableWhateverReason(s) ==
  {c \in live : /\ entry[c].disabled /\ s \in Serves[c]
                /\ MaxRounds > 0 => entry[c].rounds < MaxRounds
                /\ ~entry[c].cooling}

\* what a request with no available credential may revive
Healable(s) ==
  {c \in live :
     /\ entry[c].disabled /\ entry[c].reason = "TooManyFailures" /\ s \in Serves[c]
     /\ entry[c].rounds > 0 => entry[c].healModel = ModelOf[s]
     /\ MaxRounds > 0 => entry[c].rounds < MaxRounds
     /\ ~entry[c].cooling}

SaturatingIncrement(n) == IF n < MaxU32 THEN n + 1 ELSE n

Healed(e, m) == [e EXCEPT !.rounds = SaturatingIncrement(@), !.cooling = TRUE, !.healModel = m,
                          !.disabled = FALSE, !.reason = NoReason, !.fails = 0]

\* try_self_heal revives what it may under its own lock, whatever became available
\* since the choice; the request then chooses again
TrySelfHeal(r) ==
  LET H == Healable(req[r].scope)
      m == ModelOf[req[r].scope]
  IN /\ req[r].pc = "heal"
     /\ \A c \in H : heals[c][m].made < MaxHeals
     /\ entry' = [c \in Cred |-> IF c \in H THEN Healed(entry[c], m) ELSE entry[c]]
     /\ heals' = [c \in Cred |->
                    IF c \in H THEN [heals[c] EXCEPT ![m] = OneMore(@)] ELSE heals[c]]
     /\ pending' = (pending \/ H # {})
     /\ req' = [req EXCEPT ![r] = Idle]
     /\ UNCHANGED <<live, currentId, nextId, sweep, disk, diskLive, reloaded, banned, retired>>

\* try_ensure_token succeeds, after a refresh it has written or without one; the
\* request goes on to the upstream call
TokenReady(r) ==
  /\ req[r].pc = "token" /\ ~entry[req[r].cred].broken
  /\ req' = [req EXCEPT ![r].pc = "call"]
  /\ entry' = [entry EXCEPT ![req[r].cred].refreshFails =
                 IF req[r].cred \in live THEN 0 ELSE @]
  /\ pending' \in {pending, TRUE}
  /\ UNCHANGED <<live, currentId, nextId, sweep, disk, diskLive, reloaded, heals, banned, retired>>

\* Outcomes that change no credential: rate-limited or superseded refresh, lost
\* RPM race, client errors, timeouts, a dropped connection
Abandon(r) ==
  /\ req[r].pc \in {"token", "call"}
  /\ req' = [req EXCEPT ![r] = Idle]
  /\ UNCHANGED <<entry, live, currentId, nextId, sweep, disk, diskLive, reloaded, pending, heals, banned, retired>>

\* (mutation: the early return for disabled credentials is missing)
ReportingAnyState(r, pc) ==
  /\ req[r].pc = pc /\ req[r].cred \in live
  /\ req' = [req EXCEPT ![r] = Idle]

\* a handler applies to the credential of r only while it is present and enabled
Reporting(r, pc) ==
  /\ req[r].pc = pc
  /\ req[r].cred \in live /\ ~entry[req[r].cred].disabled
  /\ req' = [req EXCEPT ![r] = Idle]

\* (mutation: a success of any model ends the streak)
RewardedByAny(e, m) == e.rounds > 0

\* only a success of the model the streak belongs to ends it
Rewarded(e, m) == e.rounds > 0 /\ e.healModel = m

ReportSuccess(r) ==
  LET c == req[r].cred
      m == ModelOf[req[r].scope]
      rewarded == Rewarded(entry[c], m)
      e == [entry[c] EXCEPT !.fails = 0, !.refreshFails = 0, !.throttled = FALSE]
  IN /\ req[r].pc = "call"
     /\ c \in live
     /\ entry' = [entry EXCEPT ![c] = IF rewarded THEN ClearStreak(e) ELSE e]
     /\ pending' = (pending \/ rewarded)
     /\ heals' = [heals EXCEPT ![c][m] = NoHeals[m]]
     /\ req' = [req EXCEPT ![r] = Idle]
     /\ UNCHANGED <<live, currentId, nextId, sweep, disk, diskLive, reloaded, banned, retired>>

ReportFailure(r) ==
  LET c == req[r].cred
      n == entry[c].fails + 1
      e == [entry[c] EXCEPT !.fails = n]
  IN /\ Reporting(r, "call")
     /\ entry' = [entry EXCEPT ![c] = IF n >= MaxFailures THEN Disable(e, "TooManyFailures") ELSE e]
     /\ IF n >= MaxFailures THEN SwitchWithin(req[r].scope) /\ pending' = TRUE
                            ELSE UNCHANGED <<currentId, pending>>
     /\ UNCHANGED <<live, nextId, sweep, disk, diskLive, reloaded, heals, banned, retired>>

\* report_suspended_for_request and report_quota_exhausted_for_request
ReportTerminal(r, why) ==
  LET c == req[r].cred IN
  /\ Reporting(r, "call")
  /\ entry' = [entry EXCEPT ![c] = ClearStreak(Disable([@ EXCEPT !.fails = MaxFailures], why))]
  /\ SwitchWithin(req[r].scope)
  /\ pending' = TRUE
  /\ heals' = [heals EXCEPT ![c] = NoHeals]
  /\ banned' = IF why = "Suspended" THEN banned \cup {c} ELSE banned
  /\ UNCHANGED <<live, nextId, sweep, disk, diskLive, reloaded, retired>>

\* account-level 429: the credential cools down, even when it is disabled
ReportThrottled(r) ==
  /\ req[r].pc = "call" /\ req[r].cred \in live
  /\ entry' = [entry EXCEPT ![req[r].cred].throttled = TRUE]
  /\ req' = [req EXCEPT ![r] = Idle]
  /\ UNCHANGED <<live, currentId, nextId, sweep, disk, diskLive, reloaded, pending, heals, banned, retired>>

\* (mutation: the threshold is compared with > instead of >=)
RefreshThresholdLate(n) == n > MaxFailures

RefreshThreshold(n) == n >= MaxFailures

ReportRefreshFailure(r) ==
  LET c == req[r].cred
      n == entry[c].refreshFails + 1
      e == [entry[c] EXCEPT !.refreshFails = n]
  IN /\ Reporting(r, "token")
     /\ IF ~RefreshThreshold(n)
        THEN /\ entry' = [entry EXCEPT ![c] = e]
             /\ UNCHANGED <<currentId, pending, heals>>
        ELSE /\ entry' = [entry EXCEPT ![c] = ClearStreak(Disable(e, "TooManyRefreshFailures"))]
             /\ SwitchTo(Enabled(entry', live))
             /\ pending' = TRUE
             /\ heals' = [heals EXCEPT ![c] = NoHeals]
     /\ UNCHANGED <<live, nextId, sweep, disk, diskLive, reloaded, banned, retired>>

\* (mutation: the streak survives)
ReportRefreshTokenInvalidKeepsStreak(r) ==
  LET c == req[r].cred IN
  /\ Reporting(r, "token") /\ ~entry[c].broken
  /\ entry' = [entry EXCEPT ![c] = Disable(@, "InvalidRefreshToken")]
  /\ SwitchTo(Enabled(entry', live))
  /\ pending' = TRUE
  /\ heals' = [heals EXCEPT ![c] = NoHeals]
  /\ UNCHANGED <<live, nextId, sweep, disk, diskLive, reloaded, banned, retired>>

ReportRefreshTokenInvalid(r) ==
  LET c == req[r].cred IN
  /\ Reporting(r, "token") /\ ~entry[c].broken
  /\ entry' = [entry EXCEPT ![c] = ClearStreak(Disable(@, "InvalidRefreshToken"))]
  /\ SwitchTo(Enabled(entry', live))
  /\ pending' = TRUE
  /\ heals' = [heals EXCEPT ![c] = NoHeals]
  /\ UNCHANGED <<live, nextId, sweep, disk, diskLive, reloaded, banned, retired>>

\* try_reload_credential_from_file after invalid_grant: the file, read without the
\* lock, holds another token for the credential than memory does - another client has
\* rotated it, or this process has not written its own yet ...
ReadFile(r) ==
  /\ req[r].pc = "token" /\ req[r].cred \in live /\ ~entry[req[r].cred].broken
  /\ diskLive # {}
  /\ req' = [req EXCEPT ![r].pc = "reload"]
  /\ UNCHANGED <<entry, live, currentId, nextId, sweep, disk, diskLive, reloaded, pending, heals, banned, retired>>

\* ... and under the lock the token of the file replaces the one in memory, and the
\* credential is enabled, whatever has become of it and without a write; the request retries
ReloadFromFile(r) ==
  LET c == req[r].cred IN
  /\ req[r].pc = "reload"
  /\ IF c \in live
     THEN /\ entry' = [entry EXCEPT ![c] = [@ EXCEPT !.disabled = FALSE, !.reason = NoReason,
                                                    !.fails = 0, !.refreshFails = 0]]
          /\ banned' = banned \ {c} /\ reloaded' = reloaded \cup {c}
     ELSE UNCHANGED <<entry, banned, reloaded>>
  /\ req' = [req EXCEPT ![r] = Idle]
  /\ UNCHANGED <<live, currentId, nextId, sweep, disk, diskLive, pending, heals, retired>>

Request(r) ==
  \/ Acquire(r) \/ FindNothing(r) \/ TrySelfHeal(r) \/ TokenReady(r) \/ Abandon(r)
  \/ ReportSuccess(r) \/ ReportFailure(r) \/ ReportThrottled(r)
  \/ ReportTerminal(r, "Suspended") \/ ReportTerminal(r, "QuotaExceeded")
  \/ ReportRefreshFailure(r) \/ ReportRefreshTokenInvalid(r)
  \/ ReadFile(r) \/ ReloadFromFile(r)

-----------------------------------------------------------------------------
(* Administrators and background tasks. *)

\* (mutation: only the API failures are reset)
EnableKeepsRefreshFailures(e) ==
  [e EXCEPT !.disabled = FALSE, !.reason = NoReason, !.fails = 0, !.throttled = FALSE]

Enable(e) == [e EXCEPT !.disabled = FALSE, !.reason = NoReason, !.fails = 0,
                       !.refreshFails = 0, !.throttled = FALSE]

\* service.set_disabled(id, true): the displayed credential moves on if it was this one
SetDisabled(c) ==
  /\ c \in live
  /\ entry' = [entry EXCEPT ![c] = ClearStreak(Disable(@, "Manual"))]
  /\ IF currentId = c THEN SwitchTo(Enabled(entry', live) \ {c}) ELSE UNCHANGED currentId
  /\ pending' = TRUE
  /\ heals' = [heals EXCEPT ![c] = NoHeals]
  /\ banned' = banned \ {c}
  /\ UNCHANGED <<live, nextId, req, sweep, disk, diskLive, reloaded, retired>>

\* set_disabled(id, false): whatever the reason was
SetEnabled(c) ==
  /\ c \in live
  /\ entry' = [entry EXCEPT ![c] = ClearStreak(Enable(@))]
  /\ pending' = TRUE
  /\ heals' = [heals EXCEPT ![c] = NoHeals]
  /\ banned' = banned \ {c}
  /\ UNCHANGED <<live, currentId, nextId, req, sweep, disk, diskLive, reloaded, retired>>

\* reset_and_enable refuses an InvalidConfig credential
ResetAndEnable(c) ==
  /\ c \in live /\ entry[c].reason # "InvalidConfig"
  /\ entry' = [entry EXCEPT ![c] = [Healthy EXCEPT !.broken = entry[c].broken]]
  /\ pending' = TRUE
  /\ heals' = [heals EXCEPT ![c] = NoHeals]
  /\ banned' = banned \ {c}
  /\ UNCHANGED <<live, currentId, nextId, req, sweep, disk, diskLive, reloaded, retired>>

\* replace_idc_relogin_credentials: a complete new login for an existing credential
Relogin(c) ==
  /\ c \in live
  /\ entry' = [entry EXCEPT ![c] = Healthy]
  /\ SwitchTo(Enabled(entry', live))
  /\ pending' = TRUE
  /\ heals' = [heals EXCEPT ![c] = NoHeals]
  /\ banned' = banned \ {c}
  /\ UNCHANGED <<live, nextId, req, sweep, disk, diskLive, reloaded, retired>>

\* force_refresh_token_for succeeds, for any credential
ForceRefresh(c) ==
  /\ c \in live
  /\ entry' = [entry EXCEPT ![c].refreshFails = 0]
  /\ pending' = TRUE
  /\ UNCHANGED <<live, currentId, nextId, req, sweep, disk, diskLive, reloaded, heals, banned, retired>>

\* update_refresh_token demands a disabled credential and leaves it disabled
UpdateRefreshToken(c) == entry[c].disabled /\ ForceRefresh(c)

\* batch_mark_suspended: an audit of old logs marks S, whatever their state is now
BatchMarkSuspended(S) ==
  LET marked == {c \in S \cap live : entry[c].reason # "Suspended"} IN
  /\ marked # {}
  /\ entry' = [c \in Cred |->
                 IF c \in marked
                 THEN ClearStreak(Disable([entry[c] EXCEPT !.fails = MaxFailures], "Suspended"))
                 ELSE entry[c]]
  /\ IF currentId \in marked
     THEN \E full \in Full :   \* the choice here ignores invert_priority
            LET T == {c \in Enabled(entry', live) : ~entry'[c].throttled} \ full IN
            \/ T = {} /\ UNCHANGED currentId
            \/ \E b \in T : (\A d \in T : BeforeBy(b, d, FALSE)) /\ currentId' = b
     ELSE UNCHANGED currentId
  /\ pending' = TRUE
  /\ heals' = [c \in Cred |-> IF c \in marked THEN NoHeals ELSE heals[c]]
  /\ banned' = banned \cup marked
  /\ UNCHANGED <<live, nextId, req, sweep, disk, diskLive, reloaded, retired>>

\* service.disable_quota_exceeded: the enabled credentials are read once ...
BeginSweep(S) ==
  /\ sweep = {} /\ S # {} /\ S \subseteq Enabled(entry, live)
  /\ sweep' = S
  /\ UNCHANGED <<entry, live, currentId, nextId, req, disk, diskLive, reloaded, pending, heals, banned, retired>>

\* ... and each is disabled later, without looking at it again; after the last one
\* the displayed credential moves on if the one read at the beginning was swept
SweepOne(c) ==
  /\ c \in sweep
  /\ sweep' = sweep \ {c}
  /\ IF c \in live
     THEN /\ entry' = [entry EXCEPT ![c] = ClearStreak(Disable(@, "QuotaExceeded"))]
          /\ pending' = TRUE
          /\ heals' = [heals EXCEPT ![c] = NoHeals]
     ELSE UNCHANGED <<entry, pending, heals>>
  /\ \/ UNCHANGED currentId
     \/ sweep' = {} /\ SwitchTo(Enabled(entry', live) \ {currentId})
  /\ UNCHANGED <<live, nextId, req, disk, diskLive, reloaded, banned, retired>>

\* (mutation: the recovery is not written)
RecoverQuotaExceededUnsaved(c) ==
  /\ QuotaRecovery
  /\ c \in live /\ entry[c].disabled /\ entry[c].reason = "QuotaExceeded"
  /\ entry' = [entry EXCEPT ![c] = ClearStreak(Enable(@))]
  /\ heals' = [heals EXCEPT ![c] = NoHeals]
  /\ UNCHANGED <<live, currentId, nextId, req, sweep, disk, diskLive, reloaded, pending, banned, retired>>

\* recover_quota_exceeded, when the balance monitor saw a new billing period
RecoverQuotaExceeded(c) ==
  /\ QuotaRecovery
  /\ c \in live /\ entry[c].disabled /\ entry[c].reason = "QuotaExceeded"
  /\ entry' = [entry EXCEPT ![c] = ClearStreak(Enable(@))]
  /\ pending' = TRUE
  /\ heals' = [heals EXCEPT ![c] = NoHeals]
  /\ UNCHANGED <<live, currentId, nextId, req, sweep, disk, diskLive, reloaded, banned, retired>>

\* (mutation: the id follows the largest one in use)
AddCredentialReusesIds ==
  \E m \in live \cup {0} :
    /\ \A d \in live : d <= m
    /\ m + 1 \in Cred
    /\ live' = live \cup {m + 1}
    /\ entry' = [entry EXCEPT ![m + 1] = Healthy]
    /\ SwitchTo(Enabled(entry', live'))
    /\ pending' = TRUE
    /\ heals' = [heals EXCEPT ![m + 1] = NoHeals]
    /\ UNCHANGED <<nextId, req, sweep, disk, diskLive, reloaded, banned, retired>>

AddCredential ==
  /\ nextId \in Cred
  /\ nextId' = nextId + 1
  /\ live' = live \cup {nextId}
  /\ entry' = [entry EXCEPT ![nextId] = Healthy]
  /\ SwitchTo(Enabled(entry', live'))
  /\ pending' = TRUE
  /\ heals' = [heals EXCEPT ![nextId] = NoHeals]
  /\ UNCHANGED <<req, sweep, disk, diskLive, reloaded, banned, retired>>

\* (mutation: the file is written when something else changes)
DeleteCredentialUnsaved(c) ==
  /\ c \in live
  /\ live' = live \ {c}
  /\ entry' = [entry EXCEPT ![c] = Healthy]
  /\ IF live' = {} THEN currentId' = 0
     ELSE IF currentId = c THEN SwitchTo(Enabled(entry, live')) ELSE UNCHANGED currentId
  /\ heals' = [heals EXCEPT ![c] = NoHeals]
  /\ banned' = banned \ {c}
  /\ UNCHANGED <<nextId, req, sweep, disk, diskLive, reloaded, pending, retired>>

DeleteCredential(c) ==
  /\ c \in live
  /\ live' = live \ {c}
  /\ entry' = [entry EXCEPT ![c] = Healthy]
  /\ IF live' = {} THEN currentId' = 0
     ELSE IF currentId = c THEN SwitchTo(Enabled(entry, live')) ELSE UNCHANGED currentId
  /\ pending' = TRUE
  /\ heals' = [heals EXCEPT ![c] = NoHeals]
  /\ banned' = banned \ {c}
  /\ UNCHANGED <<nextId, req, sweep, disk, diskLive, reloaded, retired>>

\* the cooldown runs out, or an administrator clears it
ThrottleEnds(c) ==
  /\ c \in live /\ entry[c].throttled
  /\ entry' = [entry EXCEPT ![c].throttled = FALSE]
  /\ UNCHANGED <<live, currentId, nextId, req, sweep, disk, diskLive, reloaded, pending, heals, banned, retired>>

\* self_heal_min_interval_secs pass; the timestamp in the file ages with the clock
HealIntervalPasses(c) ==
  /\ c \in live /\ entry[c].cooling
  /\ entry' = [entry EXCEPT ![c].cooling = FALSE]
  /\ disk' = [disk EXCEPT ![c].cooling = FALSE]
  /\ UNCHANGED <<live, currentId, nextId, req, sweep, diskLive, reloaded, pending, heals, banned, retired>>

-----------------------------------------------------------------------------
(* The file, and the end of a process: heals the file does not know of are lost. *)

\* persist_credentials: a snapshot of everything replaces the file
Persist ==
  /\ pending
  /\ pending' = FALSE
  /\ disk' = [c \in Cred |-> IF c \in live THEN Snapshot(entry[c]) ELSE Snapshot(Healthy)]
  /\ diskLive' = live
  /\ heals' = [c \in Cred |-> IF c \in live THEN [m \in Model |-> Written(heals[c][m])]
                              ELSE NoHeals]
  /\ reloaded' = {}
  /\ retired' = retired \cup (diskLive \ live)
  /\ UNCHANGED <<entry, live, currentId, nextId, req, sweep, banned>>

\* the process dies and MultiTokenManager::new reads the file
Restart ==
  /\ Restarts
  /\ live' = diskLive
  /\ entry' = [c \in Cred |-> Load(disk[c])]
  /\ \/ Enabled(entry', live') = {} /\ currentId' = 0
     \/ \E b \in Enabled(entry', live') :
          (\A d \in Enabled(entry', live') : Before(b, d)) /\ currentId' = b
  /\ \E m \in diskLive \cup {0} : (\A d \in diskLive : d <= m) /\ nextId' = m + 1
  /\ req' = [r \in Req |-> Idle]
  /\ sweep' = {} /\ pending' = FALSE
  /\ heals' = [c \in Cred |-> [m \in Model |-> Lost(heals[c][m])]]
  /\ banned' = {c \in diskLive : disk[c].reason = "Suspended"} /\ reloaded' = {}
  /\ UNCHANGED <<disk, diskLive, retired>>

Admin ==
  \/ \E c \in Cred :
       \/ SetDisabled(c) \/ SetEnabled(c) \/ ResetAndEnable(c) \/ Relogin(c)
       \/ ForceRefresh(c) \/ UpdateRefreshToken(c) \/ DeleteCredential(c) \/ SweepOne(c)
  \/ \E S \in SUBSET Cred : BatchMarkSuspended(S) \/ BeginSweep(S)
  \/ AddCredential

Environment ==
  \E c \in Cred : RecoverQuotaExceeded(c) \/ ThrottleEnds(c) \/ HealIntervalPasses(c)

Next == (\E r \in Req : Request(r)) \/ Admin \/ Environment \/ Persist \/ Restart

Spec == Init /\ [][Next]_vars

-----------------------------------------------------------------------------
(* Properties. *)

\* The state has the shape of CredentialEntry, the file and the request tasks.
TypeOK ==
  /\ entry \in [Cred -> Entries]
  /\ live \subseteq Cred /\ diskLive \subseteq Cred
  /\ currentId \in Cred \cup {0} /\ nextId \in Nat
  /\ req \in [Req -> Requests]
  /\ sweep \subseteq Cred
  /\ disk \in [Cred -> Saved]
  /\ pending \in BOOLEAN
  /\ heals \in [Cred -> [Model -> Counts]]
  /\ banned \subseteq Cred /\ reloaded \subseteq Cred /\ retired \subseteq Cred

\* A credential that requests may use is below both failure thresholds,
\* whichever way it came back (self-heal keeps refresh_failure_count), and one
\* that may not be used has a reason the self-heal and recovery filters can read.
EnabledMeansHealthy ==
  \A c \in live :
    /\ entry[c].disabled <=> entry[c].reason # NoReason
    /\ ~entry[c].disabled => /\ entry[c].fails < MaxFailures
                             /\ entry[c].refreshFails < MaxFailures

\* A consecutive-heal streak outlives neither an operator's decision nor a
\* disabling that self-heal must not touch (clear_self_heal_streak is called by
\* every one of them).
StreakOnlyWhileHealable ==
  \A c \in live : entry[c].rounds > 0 => entry[c].reason \in {NoReason, "TooManyFailures"}

\* Only a success of the same model ends a streak, so a credential is never healed
\* more than MaxRounds times for a model that keeps failing, however the requests of
\* other models fare and however often the process restarts, but for the heals a crash
\* has kept from the file: the next process does not know of these, and a single crash
\* loses at most MaxRounds of them.  (With MaxRounds = 0 there is no limit.)
SelfHealBounded ==
  MaxRounds > 0 => \A c \in Cred, m \in Model :
                     /\ heals[c][m].made <= MaxRounds + heals[c][m].lost
                     /\ heals[c][m].unsaved <= MaxRounds

\* Reports of requests that were under way when their credential was disabled come too
\* late to replace the reason: a suspended credential never turns into one that
\* self-heal would revive.  Of the steps of a request only a self-heal changes the
\* reason of a disabled credential, if it had failed too often, and a reload that of
\* its own.  (Without restarts, only requests change req.)
LateReportsKeepReason ==
  [][\A r \in Req, c \in live : req'[r] # req[r] /\ entry[c].disabled =>
       \/ entry'[c].reason = entry[c].reason
       \/ req[r].pc = "heal" /\ entry[c].reason = "TooManyFailures" /\ ~entry'[c].disabled
       \/ req[r].pc = "reload" /\ c = req[r].cred /\ ~entry'[c].disabled]_vars

\* A credential the upstream has banned, or an audit has marked, stays out of service
\* until an operator enables it ("not recoverable automatically"), or a request that
\* had an invalid_grant finds another token in the file: no self-heal, late report,
\* refresh or change of another credential brings it back.
BannedStaysDisabled ==
  \A c \in banned \cap live : entry[c].disabled

\* No request brings a suspended credential back.
RequestsKeepSuspension ==
  [][req' # req => \A c \in live : entry[c].reason = "Suspended" => entry'[c].disabled]_vars

\* Once no write is outstanding a restart would bring back exactly the disabled
\* credentials, reasons and self-heal streaks in memory, and no deleted one, but for
\* credentials a reload has enabled: a reload is the one operation that does not write
\* what the next start must know, and what it leaves out is that they are enabled.
RestartLosesNothing ==
  ~pending => /\ diskLive = live
              /\ \A c \in live : ~entry[c].broken =>
                   LET next == Snapshot(Load(disk[c])) IN
                   \/ Snapshot(entry[c]) = next
                   \/ /\ c \in reloaded
                      /\ Snapshot(entry[c]) = [next EXCEPT !.disabled = FALSE, !.reason = NoReason]

\* The id of an account whose deletion is on disk is never given to another
\* account, whose traces, usage and statistics would be mixed with the old ones.
IdsNeverReused == live \cap retired = {}
=============================================================================
