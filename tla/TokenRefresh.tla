---------------------------- MODULE TokenRefresh ----------------------------
(***************************************************************************)
(* The tokens of one credential: refreshes under refresh_lock, the merge   *)
(* of a reply that may have been overtaken, logins - several may be under  *)
(* way - that replace the tokens, the credentials file written under       *)
(* persist_lock, the reload from that file after invalid_grant, and        *)
(* another client (the IDE) that shares the credential and writes the same *)
(* file.  Writes succeed.  (src/src/kiro/token_manager.rs)                 *)
(*                                                                         *)
(* Tasks are concurrent requests, balance or model queries, forced         *)
(* refreshes and logins.  A step is what a task does between two awaits or *)
(* two acquisitions of the `entries` lock.                                 *)
(***************************************************************************)
EXTENDS Naturals

CONSTANTS
  Task,
  MaxLogin, MaxRotation,  \* bounds on the tokens of an instance
  IdeRotates,             \* another client refreshes the token too
  LosesReplies,           \* a reply may be lost after the upstream rotated the token
  Revokes,                \* the upstream may revoke the tokens of a login
  Crashes,                \* the process may die and start again
  None

ASSUME RefreshAssumption ==
  /\ MaxLogin \in Nat /\ MaxRotation \in Nat
  /\ {IdeRotates, LosesReplies, Revokes, Crashes} \subseteq BOOLEAN
  /\ None \notin Task

VARIABLES
  mem,          \* the entry: its token, whether the access token is still good, its status
  file,         \* token and status in the credentials file
  issued,       \* upstream: the one token of each login it still accepts, None if revoked
  logins,       \* newest login handed out
  ide,          \* token the other client holds but has not written to the file
  task,
  refreshLock,  \* the task that holds refresh_lock
  persistLock,  \* the task that holds persist_lock
  lost,         \* history: logins revoked, or whose accepted token a lost or discarded reply,
                \* a reload or a crash has given up
  reloaded      \* history: a reload has changed memory and no snapshot has followed

vars == <<mem, file, issued, logins, ide, task, refreshLock, persistLock, lost, reloaded>>

Token == [login: 0..MaxLogin, n: 0..MaxRotation]
Statuses == {"on", "invalid", "manual"}   \* enabled, InvalidRefreshToken, Manual
Saves == [tok: Token, status: Statuses]

Steps == {"idle", "lock", "sent", "reply", "rejected", "failed", "readfile", "compare",
          "apply", "report", "relogin", "disable", "replace", "enable", "persist", "write"}
Kinds == {"request", "query", "force", "login"}

\* orig: the token a refresh was started with; got: the token a task has received or
\* read; snap: what it is writing; next: where it goes after writing
TaskStates == [pc: Steps, kind: Kinds, orig: Token \cup {None}, got: Token \cup {None},
               snap: Saves \cup {None}, next: {"idle", "unlock", "replace", "enable"}]
Idle == [pc |-> "idle", kind |-> "request", orig |-> None, got |-> None, snap |-> None,
         next |-> "idle"]

Accepted(tok) == issued[tok.login] = tok.n
First == [login |-> 0, n |-> 0]

At(t, pc) == task[t].pc = pc
Goto(t, pc) == task' = [task EXCEPT ![t].pc = pc]
\* go on with nothing in hand
Drop(t, pc) == task' = [task EXCEPT ![t] = [Idle EXCEPT !.pc = pc]]
Finish(t) == Drop(t, "idle")
\* go on to persist_credentials, and then to next
Saving(t, next) == task' = [task EXCEPT ![t] = [Idle EXCEPT !.pc = "persist", !.next = next]]
Release(t) == refreshLock' = IF refreshLock = t THEN None ELSE refreshLock

-----------------------------------------------------------------------------
Init ==
  /\ mem = [tok |-> First, fresh |-> FALSE, status |-> "on"]
  /\ file = [tok |-> First, status |-> "on"]
  /\ issued = [l \in 0..MaxLogin |-> 0]
  /\ logins = 0 /\ ide = None
  /\ task = [t \in Task |-> Idle]
  /\ refreshLock = None /\ persistLock = None
  /\ lost = {} /\ reloaded = FALSE

-----------------------------------------------------------------------------
(* Refreshing: try_ensure_token, prepare_request_token, force_refresh_token_for. *)

\* a request of an enabled credential and a query of any need a good access
\* token; a forced refresh does not ask
StartRefresh(t, kind) ==
  /\ At(t, "idle")
  /\ kind = "request" => mem.status = "on"
  /\ kind # "force" => ~mem.fresh
  /\ task' = [task EXCEPT ![t] = [Idle EXCEPT !.pc = "lock", !.kind = kind]]
  /\ UNCHANGED <<mem, file, issued, logins, ide, refreshLock, persistLock, lost, reloaded>>

\* (mutation: the lock is not waited for)
TakeLockWithoutWaiting(t) ==
  /\ At(t, "lock")
  /\ task' = [task EXCEPT ![t].pc = "sent", ![t].orig = mem.tok]
  /\ refreshLock' = t
  /\ UNCHANGED <<mem, file, issued, logins, ide, persistLock, lost, reloaded>>

\* the second check, under refresh_lock; the tokens to send are read here
TakeLock(t) ==
  /\ At(t, "lock") /\ refreshLock = None
  /\ IF task[t].kind # "force" /\ mem.fresh
     THEN Finish(t) /\ UNCHANGED refreshLock
     ELSE /\ task' = [task EXCEPT ![t].pc = "sent", ![t].orig = mem.tok]
          /\ refreshLock' = t
  /\ UNCHANGED <<mem, file, issued, logins, ide, persistLock, lost, reloaded>>

\* the upstream answers a token it still accepts with its successor, or with a new
\* access token alone
Exchange(t) ==
  LET old == task[t].orig
      new == [old EXCEPT !.n = @ + 1]
  IN /\ At(t, "sent") /\ Accepted(old)
     /\ \/ task' = [task EXCEPT ![t].pc = "reply", ![t].got = old] /\ UNCHANGED <<issued, lost>>
        \/ /\ old.n < MaxRotation
           /\ issued' = [issued EXCEPT ![old.login] = new.n]
           /\ \/ task' = [task EXCEPT ![t].pc = "reply", ![t].got = new] /\ UNCHANGED lost
              \/ LosesReplies /\ Drop(t, "failed") /\ lost' = lost \cup {old.login}
     /\ UNCHANGED <<mem, file, logins, ide, refreshLock, persistLock, reloaded>>

\* invalid_grant
Reject(t) ==
  /\ At(t, "sent") /\ ~Accepted(task[t].orig)
  /\ task' = [task EXCEPT ![t].pc = "rejected", ![t].orig = None]
  /\ UNCHANGED <<mem, file, issued, logins, ide, refreshLock, persistLock, lost, reloaded>>

\* rate limit, server error, timeout before the upstream acted
Unreachable(t) ==
  /\ At(t, "sent")
  /\ Drop(t, "failed")
  /\ UNCHANGED <<mem, file, issued, logins, ide, refreshLock, persistLock, lost, reloaded>>

\* (mutation: the entry is not compared with what the refresh started from)
MergeBlindly(t) ==
  /\ At(t, "reply")
  /\ \E fresh \in BOOLEAN : mem' = [mem EXCEPT !.tok = task[t].got, !.fresh = fresh]
  /\ Saving(t, "idle") /\ Release(t)
  /\ UNCHANGED <<file, issued, logins, ide, persistLock, lost, reloaded>>

\* (mutation: a query uses the new access token without storing the reply)
MergeDropsQueries(t) ==
  /\ At(t, "reply")
  /\ IF mem.tok # task[t].orig \/ task[t].kind = "query"
     THEN Finish(t) /\ Release(t) /\ UNCHANGED mem
     ELSE /\ \E fresh \in BOOLEAN : mem' = [mem EXCEPT !.tok = task[t].got, !.fresh = fresh]
          /\ Saving(t, "unlock") /\ UNCHANGED refreshLock
  /\ UNCHANGED <<file, issued, logins, ide, persistLock, lost, reloaded>>

\* a request drops a reply whose access token would expire within five minutes, or for
\* which no expiry is known, before it is merged
DiscardReply(t) ==
  /\ At(t, "reply") /\ task[t].kind = "request"
  /\ Drop(t, "failed")
  /\ lost' = IF task[t].got = task[t].orig THEN lost ELSE lost \cup {task[t].orig.login}
  /\ UNCHANGED <<mem, file, issued, logins, ide, refreshLock, persistLock, reloaded>>

\* merge_refreshed_credentials: a reply for tokens that were replaced meanwhile is
\* dropped; what is merged may have to be refreshed again soon
Merge(t) ==
  /\ At(t, "reply")
  /\ IF mem.tok # task[t].orig
     THEN Finish(t) /\ Release(t) /\ UNCHANGED mem
     ELSE /\ \E fresh \in BOOLEAN : mem' = [mem EXCEPT !.tok = task[t].got, !.fresh = fresh]
          /\ IF task[t].kind = "force"
             THEN Saving(t, "idle") /\ Release(t)
             ELSE Saving(t, "unlock") /\ UNCHANGED refreshLock
  /\ UNCHANGED <<file, issued, logins, ide, persistLock, lost, reloaded>>

\* (mutation: an error leaves the lock taken)
RefreshFailsKeepsLock(t) ==
  /\ task[t].pc \in {"failed", "rejected"}
  /\ Finish(t)
  /\ UNCHANGED <<mem, file, issued, logins, ide, refreshLock, persistLock, lost, reloaded>>

\* the lock is released with the error; only requests handle invalid_grant
RefreshFails(t) ==
  /\ task[t].pc \in {"failed", "rejected"}
  /\ IF At(t, "rejected") /\ task[t].kind = "request"
     THEN Drop(t, "readfile") ELSE Finish(t)
  /\ Release(t)
  /\ UNCHANGED <<mem, file, issued, logins, ide, persistLock, lost, reloaded>>

-----------------------------------------------------------------------------
(* handle_token_refresh_error and try_reload_credential_from_file: the file, then the
   entry to compare with, then the entry to change, each read on its own. *)

ReadFile(t) ==
  /\ At(t, "readfile")
  /\ task' = [task EXCEPT ![t].pc = "compare", ![t].got = file.tok]
  /\ UNCHANGED <<mem, file, issued, logins, ide, refreshLock, persistLock, lost, reloaded>>

Compare(t) ==
  /\ At(t, "compare")
  /\ IF task[t].got = mem.tok THEN Drop(t, "report") ELSE Goto(t, "apply")
  /\ UNCHANGED <<mem, file, issued, logins, ide, refreshLock, persistLock, lost, reloaded>>

\* the tokens of the file replace those in memory, and the credential is enabled
ApplyFile(t) ==
  /\ At(t, "apply")
  /\ \E fresh \in BOOLEAN : mem' = [tok |-> task[t].got, fresh |-> fresh, status |-> "on"]
  /\ lost' = IF Accepted(task[t].got) THEN lost ELSE lost \cup {task[t].got.login}
  /\ reloaded' = TRUE
  /\ Finish(t)
  /\ UNCHANGED <<file, issued, logins, ide, refreshLock, persistLock>>

\* report_refresh_token_invalid
ReportInvalid(t) ==
  /\ At(t, "report")
  /\ IF mem.status = "on"
     THEN mem' = [mem EXCEPT !.status = "invalid"] /\ Saving(t, "idle")
     ELSE Finish(t) /\ UNCHANGED mem
  /\ UNCHANGED <<file, issued, logins, ide, refreshLock, persistLock, lost, reloaded>>

-----------------------------------------------------------------------------
(* Logging in again. *)

\* an operator has completed a login, its tokens are about to replace the old ones;
\* any number of logins may be under way for the credential
StartLogin(t) ==
  /\ At(t, "idle") /\ logins < MaxLogin
  /\ logins' = logins + 1
  /\ \E pc \in {"relogin", "disable"} :
       task' = [task EXCEPT ![t] = [Idle EXCEPT !.pc = pc, !.kind = "login",
                                                !.got = [login |-> logins + 1, n |-> 0]]]
  /\ UNCHANGED <<mem, file, issued, ide, refreshLock, persistLock, lost, reloaded>>

\* (mutation: the wrong tokens are stored)
ReplaceIdcReloginWrongToken(t) ==
  /\ At(t, "relogin") /\ refreshLock = None
  /\ mem' = [tok |-> task[t].orig, fresh |-> FALSE, status |-> "on"]
  /\ Saving(t, "idle")
  /\ UNCHANGED <<file, issued, logins, ide, refreshLock, persistLock, lost, reloaded>>

\* replace_idc_relogin_credentials, serialised with refreshes by refresh_lock
ReplaceIdcRelogin(t) ==
  /\ At(t, "relogin") /\ refreshLock = None
  /\ \E fresh \in BOOLEAN : mem' = [tok |-> task[t].got, fresh |-> fresh, status |-> "on"]
  /\ Saving(t, "idle")
  /\ UNCHANGED <<file, issued, logins, ide, refreshLock, persistLock, lost, reloaded>>

\* do_relogin_update: set_disabled, update_refresh_token, reset_and_enable, each
\* followed by a write, none of them under refresh_lock
LoginDisables(t) ==
  /\ At(t, "disable")
  /\ mem' = [mem EXCEPT !.status = "manual"]
  /\ task' = [task EXCEPT ![t].pc = "persist", ![t].next = "replace"]
  /\ UNCHANGED <<file, issued, logins, ide, refreshLock, persistLock, lost, reloaded>>

UpdateRefreshToken(t) ==
  /\ At(t, "replace")
  /\ IF mem.status = "on"
     THEN Finish(t) /\ UNCHANGED mem   \* refused: the login is lost
     ELSE /\ mem' = [mem EXCEPT !.tok = task[t].got, !.fresh = FALSE]
          /\ Saving(t, "enable")
  /\ UNCHANGED <<file, issued, logins, ide, refreshLock, persistLock, lost, reloaded>>

LoginEnables(t) ==
  /\ At(t, "enable")
  /\ mem' = [mem EXCEPT !.status = "on"]
  /\ Saving(t, "idle")
  /\ UNCHANGED <<file, issued, logins, ide, refreshLock, persistLock, lost, reloaded>>

-----------------------------------------------------------------------------
(* persist_credentials: one task at a time takes a snapshot and writes it. *)

\* (mutation: the snapshot is taken before the lock)
TakeSnapshotUnlocked(t) ==
  /\ At(t, "persist")
  /\ persistLock' = t
  /\ task' = [task EXCEPT ![t].pc = "write",
                          ![t].snap = [tok |-> mem.tok, status |-> mem.status]]
  /\ reloaded' = FALSE
  /\ UNCHANGED <<mem, file, issued, logins, ide, refreshLock, lost>>

TakeSnapshot(t) ==
  /\ At(t, "persist") /\ persistLock = None
  /\ persistLock' = t
  /\ task' = [task EXCEPT ![t].pc = "write",
                          ![t].snap = [tok |-> mem.tok, status |-> mem.status]]
  /\ reloaded' = FALSE
  /\ UNCHANGED <<mem, file, issued, logins, ide, refreshLock, lost>>

WriteFile(t) ==
  /\ At(t, "write")
  /\ file' = task[t].snap
  /\ persistLock' = None
  /\ IF task[t].next \in {"idle", "unlock"}
     THEN Finish(t) /\ Release(t)
     ELSE /\ task' = [task EXCEPT ![t].pc = task[t].next, ![t].snap = None, ![t].next = "idle"]
          /\ UNCHANGED refreshLock
  /\ UNCHANGED <<mem, issued, logins, ide, lost, reloaded>>

-----------------------------------------------------------------------------
(* The world outside. *)

AccessTokenExpires ==
  /\ mem.fresh
  /\ mem' = [mem EXCEPT !.fresh = FALSE]
  /\ UNCHANGED <<file, issued, logins, ide, task, refreshLock, persistLock, lost, reloaded>>

\* the other client refreshes the login it finds in the file, and writes it back later
IdeRefreshes ==
  /\ IdeRotates /\ ide = None
  /\ issued[file.tok.login] # None /\ issued[file.tok.login] < MaxRotation
  /\ issued' = [issued EXCEPT ![file.tok.login] = @ + 1]
  /\ ide' = [login |-> file.tok.login, n |-> issued[file.tok.login] + 1]
  /\ UNCHANGED <<mem, file, logins, task, refreshLock, persistLock, lost, reloaded>>

IdeWrites ==
  /\ ide # None
  /\ file' = [file EXCEPT !.tok = ide]
  /\ ide' = None
  /\ UNCHANGED <<mem, issued, logins, task, refreshLock, persistLock, lost, reloaded>>

\* the operator signs out elsewhere, or the login reaches its end
Revoke(l) ==
  /\ Revokes /\ issued[l] # None
  /\ issued' = [issued EXCEPT ![l] = None]
  /\ lost' = lost \cup {l}
  /\ UNCHANGED <<mem, file, logins, ide, task, refreshLock, persistLock, reloaded>>

Crash ==
  /\ Crashes
  /\ \E fresh \in BOOLEAN : mem' = [tok |-> file.tok, fresh |-> fresh, status |-> file.status]
  /\ task' = [t \in Task |-> Idle]
  /\ refreshLock' = None /\ persistLock' = None
  /\ reloaded' = FALSE
  /\ lost' = IF Accepted(file.tok) THEN lost ELSE lost \cup {file.tok.login}
  /\ UNCHANGED <<file, issued, logins, ide>>

-----------------------------------------------------------------------------
Working(t) ==
  \/ Exchange(t) \/ Reject(t) \/ Unreachable(t) \/ DiscardReply(t) \/ Merge(t)
  \/ RefreshFails(t)
  \/ ReadFile(t) \/ Compare(t) \/ ApplyFile(t) \/ ReportInvalid(t)
  \/ LoginDisables(t) \/ UpdateRefreshToken(t) \/ LoginEnables(t) \/ WriteFile(t)

Waiting(t) == TakeLock(t) \/ ReplaceIdcRelogin(t) \/ TakeSnapshot(t)

Next ==
  \/ \E t \in Task :
       \/ \E kind \in {"request", "query", "force"} : StartRefresh(t, kind)
       \/ StartLogin(t) \/ Working(t) \/ Waiting(t)
  \/ AccessTokenExpires \/ IdeRefreshes \/ IdeWrites \/ Crash
  \/ \E l \in 0..logins : Revoke(l)

Spec == Init /\ [][Next]_vars

\* Tasks are never abandoned by the runtime, upstream calls have timeouts, and both
\* locks serve their waiters in turn (tokio's Mutex is FIFO, parking_lot's is
\* eventually fair).
FairSpec == Spec /\ \A t \in Task : WF_vars(Working(t)) /\ SF_vars(Waiting(t))

-----------------------------------------------------------------------------
(* Properties. *)

\* The state has the shape of the entry, the file and the tasks.
TypeOK ==
  /\ mem \in [tok: Token, fresh: BOOLEAN, status: Statuses]
  /\ file \in Saves
  /\ issued \in [0..MaxLogin -> (0..MaxRotation) \cup {None}]
  /\ logins \in 0..MaxLogin
  /\ ide \in Token \cup {None}
  /\ task \in [Task -> TaskStates]
  /\ refreshLock \in Task \cup {None} /\ persistLock \in Task \cup {None}
  /\ lost \subseteq 0..MaxLogin /\ reloaded \in BOOLEAN

\* The token a refresh is sending is one the upstream still accepts: tokens are read
\* after taking the lock and merged before it is released, so no refresh works with a
\* token that another has already exchanged - unless nobody can refresh the login any
\* more, because it was revoked, or a lost or discarded reply or a reload gave its
\* token up.  (No other client rotates tokens.)
RefreshesHeldToken ==
  \A t \in Task : At(t, "sent") => Accepted(task[t].orig) \/ task[t].orig.login \in lost

\* The one token the upstream still accepts of the login in memory is in memory or in
\* a reply that will be merged: no interleaving of refreshes, queries, reloads and
\* logins drops it, but for the replies that are lost or discarded as too short-lived,
\* and for a reload that puts a spent token back.
TokenNeverLost ==
  \/ Accepted(mem.tok) \/ mem.tok.login \in lost
  \/ \E t \in Task : At(t, "reply") /\ task[t].orig = mem.tok /\ Accepted(task[t].got)

\* When every task is done the file holds what is in memory: the last write always
\* follows the last change (issue #23: stale snapshots must not overwrite a rotated
\* token), unless the last change was a reload, which is not written.
FileCatchesUp ==
  (\A t \in Task : At(t, "idle")) => reloaded \/ file = [tok |-> mem.tok, status |-> mem.status]

\* A refresh that was in flight never takes a completed login back: the login in memory
\* changes only in the step of a login that has its own token stored, or of a reload.
RefreshKeepsLogin ==
  [][mem'.tok.login # mem.tok.login =>
       \E t \in Task : /\ task[t].pc \in {"relogin", "replace", "apply"} /\ task'[t].pc # task[t].pc
                       /\ mem'.tok = task[t].got]_vars

\* A completed login is taken back by another login only.
LoginNotLost ==
  [][mem'.tok.login < mem.tok.login =>
       \E t \in Task : task[t].kind = "login" /\ task'[t] # task[t]]_vars

\* A credential disabled as InvalidRefreshToken holds a token the upstream does reject.
InvalidMeansRejected == mem.status = "invalid" => ~Accepted(mem.tok)

\* What memory and the file hold, and in which order it gets there, is as the vault
\* promises.  (No other client writes the file, and the process lives on.)
Snap == IF persistLock = None THEN None ELSE task[persistLock].snap.tok
Reading == {task[t].got : t \in {u \in Task : task[u].pc \in {"compare", "apply"}}}
LoggingIn == {t \in Task : task[t].kind = "login" /\ (task[t].pc \in {"relogin", "disable", "replace"}
                                                     \/ task[t].next = "replace")}
Vault == INSTANCE TokenVault WITH held <- mem.tok, copy <- Snap, saved <- file.tok,
                                  waiting <- {task[t].got : t \in LoggingIn}, read <- Reading
ImplementsVault == Vault!Spec

\* Every task ends: no refresh, reload, login or write waits for a lock forever.
TasksEnd == \A t \in Task : (task[t].pc # "idle") ~> (task[t].pc = "idle")
=============================================================================
