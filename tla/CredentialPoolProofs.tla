------------------------ MODULE CredentialPoolProofs ------------------------
(***************************************************************************)
(* Proofs about CredentialPool, for every set of credentials, requests,    *)
(* scopes and models and every value of the thresholds.                    *)
(*                                                                         *)
(* The inductive invariant IInv strengthens the type invariant with what   *)
(* one entry (Sound) and one saved credential (SoundSaved) always satisfy, *)
(* with a link between requests and keys, and with what the entry and the  *)
(* file know of the heals in the history.                                  *)
(***************************************************************************)
EXTENDS CredentialPool, TLAPS

-----------------------------------------------------------------------------
(* The inductive invariant. *)

HealableReasons == {NoReason, "TooManyFailures"}

\* a credential that is enabled, or that self-heal may enable as it is, is below
\* the refresh threshold; a streak belongs to such a credential only; a credential
\* without its key never got as far as a failing call
Sound(e) ==
  /\ e.disabled <=> e.reason # NoReason
  /\ e.reason \in HealableReasons => e.refreshFails < MaxFailures
  /\ ~e.disabled => e.fails < MaxFailures
  /\ e.rounds > 0 => e.reason \in HealableReasons
  /\ e.broken => e.rounds = 0 /\ e.reason # "TooManyFailures"
  /\ MaxRounds > 0 => e.rounds <= MaxRounds

SoundSaved(s) ==
  /\ s.rounds > 0 /\ s.disabled => s.reason = "TooManyFailures"
  /\ s.broken => s.rounds = 0 /\ s.reason # "TooManyFailures"
  /\ MaxRounds > 0 => s.rounds <= MaxRounds

GoodEntries == {e \in Entries : Sound(e)}
GoodSaved == {s \in Saved : SoundSaved(s)}

EntriesGood == entry \in [Cred -> GoodEntries]
FileGood == disk \in [Cred -> GoodSaved]

Shape ==
  /\ live \subseteq Cred /\ diskLive \subseteq Cred
  /\ currentId \in Cred \cup {0} /\ nextId \in Nat
  /\ req \in [Req -> Requests]
  /\ sweep \subseteq Cred
  /\ pending \in BOOLEAN
  /\ heals \in [Cred -> [Model -> Counts]]
  /\ banned \subseteq Cred /\ reloaded \subseteq Cred /\ retired \subseteq Cred

\* a request that has obtained a token has a credential with a key
CallsHaveKeys ==
  \A r \in Req : req[r].pc = "call" => ~entry[req[r].cred].broken

\* the rounds an entry, or a credential in the file, has counted for a model
Streak(e, m) == IF e.healModel = m THEN e.rounds ELSE 0

\* the history against the streaks: the heals that no crash has kept from the file are
\* in the entry, and those that were written are in the file
Matches(n, inMemory, inFile) ==
  /\ n.made <= inMemory + n.lost
  /\ n.unsaved <= inMemory
  /\ n.made <= inFile + n.lost + n.unsaved

HealsMatch ==
  MaxRounds > 0 => \A c \in Cred, m \in Model :
                     Matches(heals[c][m], Streak(entry[c], m), Streak(disk[c], m))

IInv == EntriesGood /\ FileGood /\ Shape /\ CallsHaveKeys /\ HealsMatch

-----------------------------------------------------------------------------
(* What the operations do to one entry.  Zenon shows that an update keeps the
   shape of the record, SMT that it keeps the entry sound. *)

LEMMA Bounds ==
  /\ 0 \in 0..MaxFailures /\ 0 \in 0..MaxU32
  /\ MaxFailures \in 0..MaxFailures /\ 0 < MaxFailures /\ MaxRounds \in Nat
  /\ NoHeals \in [Model -> Counts]
BY PoolAssumption DEF NoHeals, Counts

LEMMA CountsGood ==
  ASSUME NEW n \in Counts
  PROVE  /\ OneMore(n) \in Counts /\ Written(n) \in Counts /\ Lost(n) \in Counts
         /\ OneMore(n).made = n.made + 1 /\ OneMore(n).unsaved = n.unsaved + 1 /\ OneMore(n).lost = n.lost
         /\ Written(n).made = n.made /\ Written(n).unsaved = 0 /\ Written(n).lost = n.lost
         /\ Lost(n).made = n.made /\ Lost(n).unsaved = 0 /\ Lost(n).lost = n.lost + n.unsaved
<1> DEFINE i == n.made + 1
           j == n.unsaved + 1
           k == n.lost + n.unsaved
<1>1. /\ n.made \in Nat /\ n.unsaved \in Nat /\ n.lost \in Nat
      /\ i \in Nat /\ j \in Nat /\ k \in Nat /\ 0 \in Nat
  BY DEF Counts
<1>2. /\ OneMore(n) = [n EXCEPT !.made = i, !.unsaved = j]
      /\ Written(n) = [n EXCEPT !.unsaved = 0]
      /\ Lost(n) = [n EXCEPT !.lost = k, !.unsaved = 0]
  BY DEF OneMore, Written, Lost
<1>3. OneMore(n) \in Counts /\ Written(n) \in Counts /\ Lost(n) \in Counts
  <2> HIDE DEF i, j, k
  <2> QED BY Zenon, <1>1, <1>2 DEF Counts
<1>4. /\ OneMore(n).made = i /\ OneMore(n).unsaved = j /\ OneMore(n).lost = n.lost
      /\ Written(n).made = n.made /\ Written(n).unsaved = 0 /\ Written(n).lost = n.lost
      /\ Lost(n).made = n.made /\ Lost(n).unsaved = 0 /\ Lost(n).lost = k
  <2> HIDE DEF i, j, k
  <2> QED BY <1>2 DEF Counts
<1> QED BY <1>3, <1>4

LEMMA HealthyGood ==
  ASSUME NEW b \in BOOLEAN
  PROVE  /\ Healthy \in GoodEntries /\ Healthy.rounds = 0 /\ ~Healthy.broken
         /\ [Healthy EXCEPT !.broken = b] \in GoodEntries
         /\ [Healthy EXCEPT !.broken = b].rounds = 0
         /\ [Healthy EXCEPT !.broken = b].broken = b
<1>1. Healthy \in Entries /\ [Healthy EXCEPT !.broken = b] \in Entries
  BY Zenon, Bounds DEF Healthy, Entries
<1>2. Sound(Healthy) /\ Sound([Healthy EXCEPT !.broken = b])
  BY Bounds DEF Healthy, Sound, HealableReasons, NoReason
<1>3. /\ Healthy.rounds = 0 /\ ~Healthy.broken
      /\ [Healthy EXCEPT !.broken = b].rounds = 0
      /\ [Healthy EXCEPT !.broken = b].broken = b
  BY DEF Healthy
<1> QED BY <1>1, <1>2, <1>3 DEF GoodEntries

\* disabling for a reason self-heal leaves alone, with the streak cleared
LEMMA DisabledGood ==
  ASSUME NEW e \in Entries, NEW why \in Reasons \ {"TooManyFailures"}
  PROVE  /\ ClearStreak(Disable(e, why)) \in GoodEntries
         /\ ClearStreak(Disable(e, why)).rounds = 0
         /\ ClearStreak(Disable(e, why)).broken = e.broken
<1>1. ClearStreak(Disable(e, why)) \in Entries
  BY Zenon, Bounds DEF Entries, ClearStreak, Disable
<1>2. Sound(ClearStreak(Disable(e, why)))
  BY Bounds DEF Entries, ClearStreak, Disable, Sound, HealableReasons, NoReason, Reasons
<1>3. /\ ClearStreak(Disable(e, why)).rounds = 0
      /\ ClearStreak(Disable(e, why)).broken = e.broken
  BY DEF Entries, ClearStreak, Disable
<1> QED BY <1>1, <1>2, <1>3 DEF GoodEntries

\* an operator, or quota recovery, enables a credential
LEMMA EnabledGood ==
  ASSUME NEW e \in Entries
  PROVE  /\ ClearStreak(Enable(e)) \in GoodEntries
         /\ ClearStreak(Enable(e)).rounds = 0
         /\ ClearStreak(Enable(e)).broken = e.broken
<1>1. ClearStreak(Enable(e)) \in Entries
  BY Zenon, Bounds DEF Entries, ClearStreak, Enable
<1>2. Sound(ClearStreak(Enable(e)))
  BY Bounds DEF Entries, ClearStreak, Enable, Sound, HealableReasons, NoReason
<1>3. /\ ClearStreak(Enable(e)).rounds = 0
      /\ ClearStreak(Enable(e)).broken = e.broken
  BY DEF Entries, ClearStreak, Enable
<1> QED BY <1>1, <1>2, <1>3 DEF GoodEntries

LEMMA SnapshotGood ==
  ASSUME NEW e \in GoodEntries
  PROVE  Snapshot(e) \in GoodSaved
<1>1. Snapshot(e) \in Saved
  BY Zenon DEF Snapshot, GoodEntries, Entries, Saved
<1>2. SoundSaved(Snapshot(e))
  BY DEF Snapshot, GoodEntries, Entries, Sound, SoundSaved, HealableReasons
<1> QED BY <1>1, <1>2 DEF GoodSaved

LEMMA LoadGood ==
  ASSUME NEW s \in GoodSaved
  PROVE  /\ Load(s) \in GoodEntries
         /\ Load(s).rounds = s.rounds /\ Load(s).healModel = s.healModel
<1>1. Load(s) \in Entries
  <2>1. SavedReason(s) \in Reasons \cup {NoReason} /\ "InvalidConfig" \in Reasons
    BY DEF SavedReason, GoodSaved, Saved, Reasons
  <2> QED BY Zenon, <2>1, Bounds DEF Load, GoodSaved, Saved, Entries
<1>2. Sound(Load(s))
  BY Bounds DEF Load, SavedReason, GoodSaved, Saved, SoundSaved, Sound, HealableReasons, NoReason, Reasons
<1>3. Load(s).rounds = s.rounds /\ Load(s).healModel = s.healModel
  BY DEF Load
<1> QED BY <1>1, <1>2, <1>3 DEF GoodEntries

\* an update of one counter or flag that concerns neither the streak nor the key
SameStreak(e, f) == f.rounds = e.rounds /\ f.healModel = e.healModel /\ f.broken = e.broken

LEMMA FlagGood ==
  ASSUME NEW e \in GoodEntries, NEW b \in BOOLEAN
  PROVE  /\ [e EXCEPT !.refreshFails = 0] \in GoodEntries
         /\ SameStreak(e, [e EXCEPT !.refreshFails = 0])
         /\ [e EXCEPT !.throttled = b] \in GoodEntries
         /\ SameStreak(e, [e EXCEPT !.throttled = b])
         /\ [e EXCEPT !.cooling = b] \in GoodEntries
         /\ SameStreak(e, [e EXCEPT !.cooling = b])
<1>1. /\ [e EXCEPT !.refreshFails = 0] \in Entries
      /\ [e EXCEPT !.throttled = b] \in Entries
      /\ [e EXCEPT !.cooling = b] \in Entries
  BY Zenon, Bounds DEF GoodEntries, Entries
<1>2. Sound([e EXCEPT !.refreshFails = 0])
  BY Bounds DEF GoodEntries, Entries, Sound, HealableReasons
<1>3. Sound([e EXCEPT !.throttled = b]) /\ Sound([e EXCEPT !.cooling = b])
  BY DEF GoodEntries, Entries, Sound, HealableReasons
<1>4. /\ SameStreak(e, [e EXCEPT !.refreshFails = 0])
      /\ SameStreak(e, [e EXCEPT !.throttled = b])
      /\ SameStreak(e, [e EXCEPT !.cooling = b])
  BY DEF GoodEntries, Entries, SameStreak
<1> QED BY <1>1, <1>2, <1>3, <1>4 DEF GoodEntries

\* the saved half of a cooldown that has passed
LEMMA SavedFlagGood ==
  ASSUME NEW s \in GoodSaved, NEW b \in BOOLEAN
  PROVE  [s EXCEPT !.cooling = b] \in GoodSaved
<1>1. [s EXCEPT !.cooling = b] \in Saved
  BY Zenon DEF GoodSaved, Saved
<1>2. SoundSaved([s EXCEPT !.cooling = b])
  BY DEF GoodSaved, Saved, SoundSaved
<1> QED BY <1>1, <1>2 DEF GoodSaved

\* a failed call, below the threshold and at it
LEMMA FailureGood ==
  ASSUME NEW e \in GoodEntries, ~e.disabled, NEW n, n = e.fails + 1
  PROVE  /\ n < MaxFailures =>
              /\ [e EXCEPT !.fails = n] \in GoodEntries
              /\ SameStreak(e, [e EXCEPT !.fails = n])
         /\ n >= MaxFailures /\ ~e.broken =>
              /\ Disable([e EXCEPT !.fails = n], "TooManyFailures") \in GoodEntries
              /\ SameStreak(e, Disable([e EXCEPT !.fails = n], "TooManyFailures"))
<1>1. n \in 0..MaxFailures
  BY PoolAssumption DEF GoodEntries, Entries, Sound
<1>2. /\ [e EXCEPT !.fails = n] \in Entries
      /\ Disable([e EXCEPT !.fails = n], "TooManyFailures") \in Entries
  BY Zenon, <1>1 DEF GoodEntries, Entries, Disable, Reasons
<1>3. n < MaxFailures => Sound([e EXCEPT !.fails = n])
  BY <1>1, PoolAssumption DEF GoodEntries, Entries, Sound, HealableReasons
<1>4. ~e.broken => Sound(Disable([e EXCEPT !.fails = n], "TooManyFailures"))
  BY <1>1 DEF GoodEntries, Entries, Disable, Sound, HealableReasons, NoReason
<1>5. /\ SameStreak(e, [e EXCEPT !.fails = n])
      /\ SameStreak(e, Disable([e EXCEPT !.fails = n], "TooManyFailures"))
  BY DEF GoodEntries, Entries, Disable, SameStreak
<1> QED BY <1>2, <1>3, <1>4, <1>5 DEF GoodEntries

\* a failed refresh: the counter stays within its type, and sound below the threshold
LEMMA RefreshFailureGood ==
  ASSUME NEW e \in GoodEntries, ~e.disabled, NEW n, n = e.refreshFails + 1
  PROVE  /\ [e EXCEPT !.refreshFails = n] \in Entries
         /\ [e EXCEPT !.refreshFails = n].broken = e.broken
         /\ n < MaxFailures =>
              /\ [e EXCEPT !.refreshFails = n] \in GoodEntries
              /\ SameStreak(e, [e EXCEPT !.refreshFails = n])
<1>1. n \in 0..MaxFailures
  BY PoolAssumption DEF GoodEntries, Entries, Sound, HealableReasons
<1>2. [e EXCEPT !.refreshFails = n] \in Entries
  BY Zenon, <1>1 DEF GoodEntries, Entries
<1>3. n < MaxFailures => Sound([e EXCEPT !.refreshFails = n])
  BY <1>1, PoolAssumption DEF GoodEntries, Entries, Sound, HealableReasons
<1>4. SameStreak(e, [e EXCEPT !.refreshFails = n])
  BY DEF GoodEntries, Entries, SameStreak
<1> QED BY <1>2, <1>3, <1>4 DEF GoodEntries, SameStreak

\* the reload from the file
LEMMA ReloadedGood ==
  ASSUME NEW e \in GoodEntries,
         NEW f, f = [e EXCEPT !.disabled = FALSE, !.reason = NoReason,
                              !.fails = 0, !.refreshFails = 0]
  PROVE  f \in GoodEntries /\ SameStreak(e, f)
<1>1. f \in Entries
  BY Zenon, Bounds DEF GoodEntries, Entries
<1>2. Sound(f)
  BY Bounds DEF GoodEntries, Entries, Sound, HealableReasons, NoReason
<1>3. SameStreak(e, f)
  BY DEF GoodEntries, Entries, SameStreak
<1> QED BY <1>1, <1>2, <1>3 DEF GoodEntries

\* self-heal: the streak grows by one and belongs to the model asked for
LEMMA HealedGood ==
  ASSUME NEW e \in GoodEntries, NEW m \in Model,
         e.reason = "TooManyFailures", MaxRounds > 0 => e.rounds < MaxRounds
  PROVE  /\ Healed(e, m) \in GoodEntries
         /\ MaxRounds > 0 => Healed(e, m).rounds = e.rounds + 1
         /\ Healed(e, m).healModel = m
         /\ Healed(e, m).broken = e.broken
<1> DEFINE k == SaturatingIncrement(e.rounds)
<1>1. k \in 0..MaxU32 /\ (MaxRounds > 0 => k = e.rounds + 1 /\ k <= MaxRounds)
  BY PoolAssumption DEF GoodEntries, Entries, SaturatingIncrement
<1>2. Healed(e, m) = [e EXCEPT !.rounds = k, !.cooling = TRUE, !.healModel = m,
                               !.disabled = FALSE, !.reason = NoReason, !.fails = 0]
  BY DEF Healed
<1> HIDE DEF k
<1>3. Healed(e, m) \in Entries
  BY Zenon, <1>1, <1>2, Bounds DEF GoodEntries, Entries
<1>4. /\ Healed(e, m).rounds = k /\ Healed(e, m).healModel = m
      /\ Healed(e, m).broken = e.broken
  BY <1>2 DEF GoodEntries, Entries
<1>5. Sound(Healed(e, m))
  BY <1>1, <1>2, Bounds DEF GoodEntries, Entries, Sound, HealableReasons, NoReason
<1> QED BY <1>1, <1>3, <1>4, <1>5 DEF GoodEntries

\* a successful call, before the streak is looked at
LEMMA SuccessGood ==
  ASSUME NEW e \in GoodEntries,
         NEW f, f = [e EXCEPT !.fails = 0, !.refreshFails = 0, !.throttled = FALSE]
  PROVE  /\ f \in GoodEntries /\ SameStreak(e, f)
         /\ ClearStreak(f) \in GoodEntries
         /\ ClearStreak(f).rounds = 0 /\ ClearStreak(f).broken = e.broken
<1>1. f \in Entries /\ ClearStreak(f) \in Entries
  BY Zenon, Bounds DEF GoodEntries, Entries, ClearStreak
<1>2. Sound(f) /\ Sound(ClearStreak(f))
  BY Bounds DEF GoodEntries, Entries, ClearStreak, Sound, HealableReasons, NoReason
<1>3. SameStreak(e, f) /\ ClearStreak(f).rounds = 0 /\ ClearStreak(f).broken = e.broken
  BY DEF GoodEntries, Entries, SameStreak, ClearStreak
<1> QED BY <1>1, <1>2, <1>3 DEF GoodEntries

-----------------------------------------------------------------------------
(* What a step owes the invariant.  Most steps change one entry, and either leave
   its streak alone or clear it together with its history. *)

StreaksFollow ==
  \A d \in Cred :
    /\ entry'[d].broken => entry[d].broken
    /\ \/ /\ heals'[d] = heals[d]
          /\ entry'[d].rounds = entry[d].rounds
          /\ entry'[d].healModel = entry[d].healModel
       \/ heals'[d] = NoHeals /\ entry'[d].rounds = 0

\* no request goes on to the upstream call
NoNewCall ==
  \A r \in Req : req'[r] = req[r] \/ req'[r].pc # "call"

\* the file keeps its streaks
FileKept ==
  /\ FileGood'
  /\ \A d \in Cred : disk'[d].rounds = disk[d].rounds /\ disk'[d].healModel = disk[d].healModel

LEMMA OneEntryKept ==
  ASSUME IInv, NEW c \in Cred, NEW e \in GoodEntries,
         SameStreak(entry[c], e),
         entry' = [entry EXCEPT ![c] = e], heals' = heals
  PROVE  EntriesGood' /\ StreaksFollow
<1>1. entry \in [Cred -> GoodEntries]
  BY DEF IInv, EntriesGood
<1>2. EntriesGood'
  BY <1>1 DEF EntriesGood
<1>3. ASSUME NEW d \in Cred
      PROVE  SameStreak(entry[d], entry'[d])
  BY <1>1 DEF SameStreak
<1> QED BY <1>2, <1>3 DEF StreaksFollow, SameStreak

LEMMA OneEntryCleared ==
  ASSUME IInv, NEW c \in Cred, NEW e \in GoodEntries,
         e.rounds = 0, e.broken => entry[c].broken,
         entry' = [entry EXCEPT ![c] = e], heals' = [heals EXCEPT ![c] = NoHeals]
  PROVE  EntriesGood' /\ StreaksFollow /\ heals' \in [Cred -> [Model -> Counts]]
<1>1. entry \in [Cred -> GoodEntries] /\ heals \in [Cred -> [Model -> Counts]]
  BY DEF IInv, EntriesGood, Shape
<1>2. EntriesGood' /\ heals' \in [Cred -> [Model -> Counts]]
  BY <1>1, Bounds DEF EntriesGood
<1>3. ASSUME NEW d \in Cred, d # c
      PROVE  entry'[d] = entry[d] /\ heals'[d] = heals[d]
  BY <1>1, <1>3
<1>4. entry'[c] = e /\ heals'[c] = NoHeals
  BY <1>1
<1>5. StreaksFollow
  BY <1>3, <1>4 DEF StreaksFollow
<1> QED BY <1>2, <1>5

LEMMA HistoryFollows ==
  ASSUME IInv, StreaksFollow, FileKept
  PROVE  HealsMatch'
<1> SUFFICES ASSUME MaxRounds > 0, NEW d \in Cred, NEW m \in Model
             PROVE  Matches(heals'[d][m], Streak(entry'[d], m), Streak(disk'[d], m))
  BY DEF HealsMatch
<1>1. Matches(heals[d][m], Streak(entry[d], m), Streak(disk[d], m))
  BY DEF IInv, HealsMatch
<1>2. Streak(disk'[d], m) = Streak(disk[d], m) /\ Streak(disk[d], m) \in Nat
  BY DEF FileKept, IInv, FileGood, GoodSaved, Saved, Streak
<1>3. CASE /\ heals'[d] = heals[d]
           /\ entry'[d].rounds = entry[d].rounds /\ entry'[d].healModel = entry[d].healModel
  BY <1>1, <1>2, <1>3 DEF Streak
<1>4. CASE heals'[d] = NoHeals /\ entry'[d].rounds = 0
  BY <1>2, <1>4 DEF Streak, NoHeals, Matches
<1> QED BY <1>3, <1>4 DEF StreaksFollow

LEMMA CallsFollow ==
  ASSUME IInv, NoNewCall, \A d \in Cred : entry'[d].broken => entry[d].broken
  PROVE  CallsHaveKeys'
<1> SUFFICES ASSUME NEW r \in Req, req'[r].pc = "call"
             PROVE  ~entry'[req'[r].cred].broken
  BY DEF CallsHaveKeys
<1>1. req'[r] = req[r]
  BY DEF NoNewCall
<1>2. req[r].cred \in Cred /\ ~entry[req[r].cred].broken
  BY <1>1 DEF IInv, Shape, Requests, Idle, CallsHaveKeys
<1> QED BY <1>1, <1>2

LEMMA StepKeeps ==
  ASSUME IInv, EntriesGood', FileKept, Shape', StreaksFollow, NoNewCall
  PROVE  IInv'
<1>1. CallsHaveKeys'
  BY CallsFollow DEF StreaksFollow
<1>2. HealsMatch'
  BY HistoryFollows
<1> QED BY <1>1, <1>2 DEF IInv, FileKept

LEMMA SwitchStays ==
  ASSUME NEW S, S \subseteq Cred, currentId \in Cred \cup {0}, SwitchTo(S)
  PROVE  currentId' \in Cred \cup {0}
BY DEF SwitchTo

\* the choices the handlers make are among the credentials of the pool
LEMMA SwitchedEnabled ==
  ASSUME NEW ent, NEW L, L \subseteq Cred, NEW T, currentId \in Cred \cup {0},
         SwitchTo(Enabled(ent, L)) \/ SwitchTo(Enabled(ent, L) \ T)
  PROVE  currentId' \in Cred \cup {0}
<1>1. Enabled(ent, L) \subseteq Cred /\ Enabled(ent, L) \ T \subseteq Cred
  BY DEF Enabled
<1> QED BY <1>1, SwitchStays

LEMMA SwitchedWithin ==
  ASSUME live \subseteq Cred, currentId \in Cred \cup {0}, NEW s, SwitchWithin(s)
  PROVE  currentId' \in Cred \cup {0}
<1>1. PICK full \in Full : SwitchTo(Ready(entry', live, s) \ full)
  BY DEF SwitchWithin
<1>2. Ready(entry', live, s) \ full \subseteq Cred
  BY DEF Ready, Enabled
<1> QED BY <1>1, <1>2, SwitchStays


-----------------------------------------------------------------------------
(* Requests. *)

LEMMA AcquireStep ==
  ASSUME IInv, NEW r \in Req, Acquire(r)
  PROVE  IInv'
<1>1. PICK s \in Scope, c \in Cred :
        /\ req' = [req EXCEPT ![r] = [pc |-> "token", cred |-> c, scope |-> s]]
        /\ currentId' \in {c, currentId}
  BY DEF Acquire, Ready, Enabled, IInv, Shape
<1>3. [pc |-> "token", cred |-> c, scope |-> s] \in Requests
  BY DEF Requests
<1>4. Shape'
  BY <1>1, <1>3 DEF Acquire, IInv, Shape
<1>5. NoNewCall
  BY <1>1 DEF NoNewCall, IInv, Shape
<1>6. EntriesGood' /\ FileKept /\ StreaksFollow
  BY DEF Acquire, IInv, EntriesGood, FileGood, FileKept, StreaksFollow
<1> QED BY <1>4, <1>5, <1>6, StepKeeps

\* the request a handler works for names a credential, and becomes idle
LEMMA RequestDone ==
  ASSUME IInv, NEW r \in Req, req[r].pc \in {"token", "reload", "call"}
  PROVE  /\ req[r].cred \in Cred /\ req[r].scope \in Scope
         /\ entry[req[r].cred] \in GoodEntries
         /\ req' = [req EXCEPT ![r] = Idle] => req' \in [Req -> Requests] /\ NoNewCall
<1>1. req[r].cred \in Cred /\ req[r].scope \in Scope
  BY DEF IInv, Shape, Requests, Idle
<1>2. entry[req[r].cred] \in GoodEntries
  BY <1>1 DEF IInv, EntriesGood
<1>3. req' = [req EXCEPT ![r] = Idle] => req' \in [Req -> Requests] /\ NoNewCall
  BY DEF IInv, Shape, Requests, NoNewCall, Idle
<1> QED BY <1>1, <1>2, <1>3

LEMMA TokenReadyStep ==
  ASSUME IInv, NEW r \in Req, TokenReady(r)
  PROVE  IInv'
<1> DEFINE c == req[r].cred
           e == [entry[c] EXCEPT !.refreshFails = IF c \in live THEN 0 ELSE @]
<1>1. c \in Cred /\ entry[c] \in GoodEntries
  BY RequestDone DEF TokenReady
<1>2. e \in GoodEntries /\ SameStreak(entry[c], e)
  <2>1. CASE c \in live
    BY <2>1, <1>1, FlagGood
  <2>2. CASE c \notin live
    <3>1. e = entry[c]
      BY <2>2, <1>1 DEF GoodEntries, Entries
    <3> QED BY <3>1, <1>1 DEF SameStreak
  <2> QED BY <2>1, <2>2
<1>3. entry' = [entry EXCEPT ![c] = e] /\ heals' = heals
  BY DEF TokenReady
<1>4. EntriesGood' /\ StreaksFollow
  BY <1>1, <1>2, <1>3, OneEntryKept
<1>5. req' \in [Req -> Requests]
  BY DEF TokenReady, IInv, Shape, Requests, Idle
<1>6. Shape' /\ FileKept
  <2>1. pending' \in BOOLEAN
    BY DEF TokenReady, IInv, Shape
  <2> QED BY <1>5, <2>1 DEF TokenReady, IInv, Shape, FileGood, FileKept
<1>7. CallsHaveKeys'
  <2> SUFFICES ASSUME NEW q \in Req, req'[q].pc = "call"
               PROVE  ~entry'[req'[q].cred].broken
    BY DEF CallsHaveKeys
  <2>1. CASE q = r
    <3>1. req'[q].cred = c
      BY <2>1 DEF TokenReady, IInv, Shape, Requests, Idle
    <3>2. ~entry[c].broken
      BY DEF TokenReady
    <3> QED BY <3>1, <3>2, <1>1, <1>4 DEF StreaksFollow
  <2>2. CASE q # r
    <3>1. req'[q] = req[q] /\ req[q].cred \in Cred
      BY <2>2 DEF TokenReady, IInv, Shape, Requests, Idle
    <3>2. ~entry[req[q].cred].broken
      BY <3>1 DEF IInv, CallsHaveKeys
    <3> QED BY <3>1, <3>2, <1>4 DEF StreaksFollow
  <2> QED BY <2>1, <2>2
<1>8. HealsMatch'
  BY <1>4, <1>6, HistoryFollows
<1> QED BY <1>4, <1>6, <1>7, <1>8 DEF IInv, FileKept

LEMMA AbandonStep ==
  ASSUME IInv, NEW r \in Req, Abandon(r)
  PROVE  IInv'
<1>1. req' \in [Req -> Requests] /\ NoNewCall
  BY RequestDone DEF Abandon
<1>2. Shape' /\ EntriesGood' /\ FileKept /\ StreaksFollow
  BY <1>1 DEF Abandon, IInv, Shape, EntriesGood, FileGood, FileKept, StreaksFollow
<1> QED BY <1>1, <1>2, StepKeeps

LEMMA ReportSuccessStep ==
  ASSUME IInv, NEW r \in Req, ReportSuccess(r)
  PROVE  IInv'
<1> DEFINE c == req[r].cred
           m == ModelOf[req[r].scope]
           rewarded == Rewarded(entry[c], m)
           f == [entry[c] EXCEPT !.fails = 0, !.refreshFails = 0, !.throttled = FALSE]
           e == IF rewarded THEN ClearStreak(f) ELSE f
<1>1. /\ req[r].pc \in {"token", "reload", "call"} /\ req' = [req EXCEPT ![r] = Idle]
      /\ entry' = [entry EXCEPT ![c] = e] /\ heals' = [heals EXCEPT ![c][m] = NoHeals[m]]
      /\ pending' = (pending \/ rewarded)
      /\ UNCHANGED <<live, currentId, nextId, sweep, disk, diskLive, reloaded, banned, retired>>
  BY DEF ReportSuccess
<1>2. /\ c \in Cred /\ entry[c] \in GoodEntries /\ m \in Model
      /\ req' \in [Req -> Requests] /\ NoNewCall
  BY <1>1, RequestDone, PoolAssumption
<1>3. /\ e \in GoodEntries
      /\ e.broken = entry[c].broken
      /\ rewarded => e.rounds = 0
      /\ ~rewarded => e.rounds = entry[c].rounds /\ e.healModel = entry[c].healModel
  BY <1>2, SuccessGood DEF SameStreak
<1>4. entry \in [Cred -> GoodEntries] /\ heals \in [Cred -> [Model -> Counts]]
  BY DEF IInv, EntriesGood, Shape
<1>5. EntriesGood' /\ heals' \in [Cred -> [Model -> Counts]]
  BY <1>1, <1>2, <1>3, <1>4, Bounds DEF EntriesGood
<1>6. /\ entry'[c] = e
      /\ \A d \in Cred : d # c => entry'[d] = entry[d] /\ heals'[d] = heals[d]
      /\ \A n \in Model : heals'[c][n] = IF n = m THEN NoHeals[m] ELSE heals[c][n]
  BY <1>1, <1>2, <1>4
<1>7. entry[c].rounds \in Nat
  BY <1>2 DEF GoodEntries, Entries
<1>8. FileKept
  BY <1>1 DEF IInv, FileGood, FileKept
<1>9. HealsMatch'
  <2> SUFFICES ASSUME MaxRounds > 0, NEW d \in Cred, NEW n \in Model
               PROVE  Matches(heals'[d][n], Streak(entry'[d], n), Streak(disk'[d], n))
    BY DEF HealsMatch
  <2>1. /\ Matches(heals[d][n], Streak(entry[d], n), Streak(disk[d], n))
        /\ disk'[d] = disk[d] /\ Streak(disk[d], n) \in Nat
    BY <1>1 DEF IInv, HealsMatch, FileGood, GoodSaved, Saved, Streak
  <2>2. CASE d # c
    BY <2>1, <2>2, <1>6
  <2>3. CASE d = c /\ n = m
    <3> HIDE DEF e
    <3>1. e.rounds \in Nat
      BY <1>3 DEF GoodEntries, Entries
    <3>2. Streak(e, n) \in Nat
      BY <3>1 DEF Streak
    <3> QED BY <2>1, <2>3, <3>2, <1>6 DEF NoHeals, Matches
  <2>4. CASE d = c /\ n # m
    <3>1. Streak(e, n) = Streak(entry[c], n)
      BY <2>4, <1>3, <1>7 DEF Rewarded, Streak
    <3> QED BY <2>1, <2>4, <3>1, <1>6
  <2> QED BY <2>2, <2>3, <2>4
<1>10. Shape'
  <2>1. pending' \in BOOLEAN
    BY <1>1 DEF IInv, Shape
  <2> QED BY <2>1, <1>1, <1>2, <1>5 DEF IInv, Shape
<1>11. CallsHaveKeys'
  <2>1. ASSUME NEW d \in Cred, entry'[d].broken
        PROVE  entry[d].broken
    BY <2>1, <1>3, <1>6
  <2> QED BY <2>1, <1>2, CallsFollow
<1> QED BY <1>5, <1>8, <1>9, <1>10, <1>11 DEF IInv, FileKept

LEMMA ReportFailureStep ==
  ASSUME IInv, NEW r \in Req, ReportFailure(r)
  PROVE  IInv'
<1> DEFINE c == req[r].cred
           n == entry[c].fails + 1
           f == [entry[c] EXCEPT !.fails = n]
           e == IF n >= MaxFailures THEN Disable(f, "TooManyFailures") ELSE f
<1>1. /\ req[r].pc = "call" /\ ~entry[c].disabled
      /\ req' = [req EXCEPT ![r] = Idle]
      /\ entry' = [entry EXCEPT ![c] = e]
      /\ UNCHANGED <<live, nextId, sweep, disk, diskLive, reloaded, heals, banned, retired>>
  BY DEF ReportFailure, Reporting
<1>2. /\ c \in Cred /\ entry[c] \in GoodEntries
      /\ req' \in [Req -> Requests] /\ NoNewCall
  BY <1>1, RequestDone
<1>3. ~entry[c].broken
  BY <1>1 DEF IInv, CallsHaveKeys
<1>4. e \in GoodEntries /\ SameStreak(entry[c], e)
  <2>1. n \in Nat
    BY <1>2 DEF GoodEntries, Entries
  <2>2. n >= MaxFailures \/ n < MaxFailures
    BY <2>1, PoolAssumption
  <2> QED BY <2>2, <1>1, <1>2, <1>3, FailureGood
<1>5. EntriesGood' /\ StreaksFollow
  BY <1>1, <1>2, <1>4, OneEntryKept
<1>6. currentId' \in Cred \cup {0} /\ pending' \in BOOLEAN
  <2>1. CASE n >= MaxFailures
    BY <2>1, SwitchedWithin DEF ReportFailure, IInv, Shape
  <2>2. CASE ~(n >= MaxFailures)
    BY <2>2 DEF ReportFailure, IInv, Shape
  <2> QED BY <2>1, <2>2
<1>7. Shape' /\ FileKept
  BY <1>1, <1>2, <1>6 DEF IInv, Shape, FileGood, FileKept
<1> QED BY <1>2, <1>5, <1>7, StepKeeps

LEMMA ReportTerminalStep ==
  ASSUME IInv, NEW r \in Req, NEW why \in {"Suspended", "QuotaExceeded"}, ReportTerminal(r, why)
  PROVE  IInv'
<1> DEFINE c == req[r].cred
           f == [entry[c] EXCEPT !.fails = MaxFailures]
           e == ClearStreak(Disable(f, why))
<1>1. /\ req[r].pc \in {"token", "reload", "call"} /\ req' = [req EXCEPT ![r] = Idle]
      /\ entry' = [entry EXCEPT ![c] = e] /\ heals' = [heals EXCEPT ![c] = NoHeals]
      /\ SwitchWithin(req[r].scope) /\ pending' = TRUE
      /\ banned' = IF why = "Suspended" THEN banned \cup {c} ELSE banned
      /\ UNCHANGED <<live, nextId, sweep, disk, diskLive, reloaded, retired>>
  BY DEF ReportTerminal, Reporting
<1>2. /\ c \in Cred /\ entry[c] \in GoodEntries
      /\ req' \in [Req -> Requests] /\ NoNewCall
  BY <1>1, RequestDone
<1>3. f \in Entries /\ f.broken = entry[c].broken
  <2>1. f \in Entries
    BY Zenon, <1>2, Bounds DEF GoodEntries, Entries
  <2> QED BY <2>1, <1>2 DEF GoodEntries, Entries
<1>4. why \in Reasons \ {"TooManyFailures"}
  BY DEF Reasons
<1>5. e \in GoodEntries /\ e.rounds = 0 /\ e.broken = entry[c].broken
  BY <1>3, <1>4, DisabledGood
<1>6. EntriesGood' /\ StreaksFollow /\ heals' \in [Cred -> [Model -> Counts]]
  BY <1>1, <1>2, <1>5, OneEntryCleared
<1>7. currentId' \in Cred \cup {0}
  BY <1>1, SwitchedWithin DEF IInv, Shape
<1>8. Shape' /\ FileKept
  BY <1>1, <1>2, <1>6, <1>7 DEF IInv, Shape, FileGood, FileKept
<1> QED BY <1>2, <1>6, <1>8, StepKeeps

LEMMA ReportThrottledStep ==
  ASSUME IInv, NEW r \in Req, ReportThrottled(r)
  PROVE  IInv'
<1> DEFINE c == req[r].cred
           e == [entry[c] EXCEPT !.throttled = TRUE]
<1>1. /\ req[r].pc \in {"token", "reload", "call"} /\ req' = [req EXCEPT ![r] = Idle]
      /\ entry' = [entry EXCEPT ![c] = e]
      /\ UNCHANGED <<live, currentId, nextId, sweep, disk, diskLive, reloaded, pending, heals, banned, retired>>
  BY DEF ReportThrottled
<1>2. /\ c \in Cred /\ entry[c] \in GoodEntries
      /\ req' \in [Req -> Requests] /\ NoNewCall
  BY <1>1, RequestDone
<1>3. EntriesGood' /\ StreaksFollow
  <2>1. e \in GoodEntries /\ SameStreak(entry[c], e)
    BY <1>2, FlagGood
  <2> QED BY <1>1, <1>2, <2>1, OneEntryKept
<1>4. Shape' /\ FileKept
  BY <1>1, <1>2 DEF IInv, Shape, FileGood, FileKept
<1> QED BY <1>2, <1>3, <1>4, StepKeeps

LEMMA ReportRefreshFailureStep ==
  ASSUME IInv, NEW r \in Req, ReportRefreshFailure(r)
  PROVE  IInv'
<1> DEFINE c == req[r].cred
           n == entry[c].refreshFails + 1
           f == [entry[c] EXCEPT !.refreshFails = n]
           e == ClearStreak(Disable(f, "TooManyRefreshFailures"))
<1>1. /\ req[r].pc \in {"token", "reload", "call"} /\ ~entry[c].disabled
      /\ req' = [req EXCEPT ![r] = Idle]
      /\ UNCHANGED <<live, nextId, sweep, disk, diskLive, reloaded, banned, retired>>
  BY DEF ReportRefreshFailure, Reporting
<1>2. /\ c \in Cred /\ entry[c] \in GoodEntries
      /\ req' \in [Req -> Requests] /\ NoNewCall
  BY <1>1, RequestDone
<1>3. n \in Nat
  BY <1>2 DEF GoodEntries, Entries
<1>4. CASE ~RefreshThreshold(n)
  <2>1. entry' = [entry EXCEPT ![c] = f] /\ UNCHANGED <<currentId, pending, heals>>
    BY <1>4 DEF ReportRefreshFailure
  <2>2. n < MaxFailures
    BY <1>3, <1>4, PoolAssumption DEF RefreshThreshold
  <2>3. f \in GoodEntries /\ SameStreak(entry[c], f)
    BY <1>1, <1>2, <2>2, RefreshFailureGood
  <2>4. EntriesGood' /\ StreaksFollow
    BY <1>2, <2>1, <2>3, OneEntryKept
  <2>5. Shape' /\ FileKept
    BY <1>1, <1>2, <2>1 DEF IInv, Shape, FileGood, FileKept
  <2> QED BY <1>2, <2>4, <2>5, StepKeeps
<1>5. CASE RefreshThreshold(n)
  <2>1. /\ entry' = [entry EXCEPT ![c] = e] /\ heals' = [heals EXCEPT ![c] = NoHeals]
        /\ SwitchTo(Enabled(entry', live)) /\ pending' = TRUE
    BY <1>5 DEF ReportRefreshFailure
  <2>2. f \in Entries /\ f.broken = entry[c].broken
    BY <1>1, <1>2, RefreshFailureGood
  <2>3. "TooManyRefreshFailures" \in Reasons \ {"TooManyFailures"}
    BY DEF Reasons
  <2>4. e \in GoodEntries /\ e.rounds = 0 /\ e.broken = entry[c].broken
    BY <2>2, <2>3, DisabledGood
  <2>5. EntriesGood' /\ StreaksFollow /\ heals' \in [Cred -> [Model -> Counts]]
    BY <1>2, <2>1, <2>4, OneEntryCleared
  <2>6. currentId' \in Cred \cup {0}
    BY <2>1, SwitchedEnabled DEF IInv, Shape
  <2>7. Shape' /\ FileKept
    BY <1>1, <1>2, <2>1, <2>5, <2>6 DEF IInv, Shape, FileGood, FileKept
  <2> QED BY <1>2, <2>5, <2>7, StepKeeps
<1> QED BY <1>4, <1>5

LEMMA ReportRefreshTokenInvalidStep ==
  ASSUME IInv, NEW r \in Req, ReportRefreshTokenInvalid(r)
  PROVE  IInv'
<1> DEFINE c == req[r].cred
           e == ClearStreak(Disable(entry[c], "InvalidRefreshToken"))
<1>1. /\ req[r].pc \in {"token", "reload", "call"} /\ req' = [req EXCEPT ![r] = Idle]
      /\ entry' = [entry EXCEPT ![c] = e] /\ heals' = [heals EXCEPT ![c] = NoHeals]
      /\ SwitchTo(Enabled(entry', live)) /\ pending' = TRUE
      /\ UNCHANGED <<live, nextId, sweep, disk, diskLive, reloaded, banned, retired>>
  BY DEF ReportRefreshTokenInvalid, Reporting
<1>2. /\ c \in Cred /\ entry[c] \in GoodEntries
      /\ req' \in [Req -> Requests] /\ NoNewCall
  BY <1>1, RequestDone
<1>3. e \in GoodEntries /\ e.rounds = 0 /\ e.broken = entry[c].broken
  BY <1>2, DisabledGood DEF GoodEntries, Reasons
<1>4. EntriesGood' /\ StreaksFollow /\ heals' \in [Cred -> [Model -> Counts]]
  BY <1>1, <1>2, <1>3, OneEntryCleared
<1>5. currentId' \in Cred \cup {0}
  BY <1>1, SwitchedEnabled DEF IInv, Shape
<1>6. Shape' /\ FileKept
  BY <1>1, <1>2, <1>4, <1>5 DEF IInv, Shape, FileGood, FileKept
<1> QED BY <1>2, <1>4, <1>6, StepKeeps

LEMMA FindNothingStep ==
  ASSUME IInv, NEW r \in Req, FindNothing(r)
  PROVE  IInv'
<1>1. req' \in [Req -> Requests] /\ NoNewCall
  BY DEF FindNothing, IInv, Shape, Requests, NoNewCall
<1>2. Shape' /\ EntriesGood' /\ FileKept /\ StreaksFollow
  BY <1>1 DEF FindNothing, IInv, Shape, EntriesGood, FileGood, FileKept, StreaksFollow
<1> QED BY <1>1, <1>2, StepKeeps

LEMMA TrySelfHealStep ==
  ASSUME IInv, NEW r \in Req, TrySelfHeal(r)
  PROVE  IInv'
<1>1. req[r].scope \in Scope /\ req' \in [Req -> Requests] /\ NoNewCall
  <2>1. req[r] \in Requests /\ req[r].pc = "heal"
    BY DEF TrySelfHeal, IInv, Shape
  <2>2. req' \in [Req -> Requests] /\ NoNewCall
    BY DEF TrySelfHeal, IInv, Shape, Requests, NoNewCall, Idle
  <2> QED BY <2>1, <2>2 DEF Requests, Idle
<1>2. PICK m \in Model, H \in SUBSET Cred :
        /\ entry' = [c \in Cred |-> IF c \in H THEN Healed(entry[c], m) ELSE entry[c]]
        /\ heals' = [c \in Cred |-> IF c \in H THEN [heals[c] EXCEPT ![m] = OneMore(@)] ELSE heals[c]]
        /\ pending' = (pending \/ H # {})
        /\ UNCHANGED <<live, currentId, nextId, sweep, disk, diskLive, reloaded, banned, retired>>
        /\ \A c \in H : /\ entry[c].reason = "TooManyFailures"
                        /\ MaxRounds > 0 => entry[c].rounds < MaxRounds
                        /\ entry[c].rounds > 0 => entry[c].healModel = m
  <2> DEFINE m == ModelOf[req[r].scope]
             H == Healable(req[r].scope)
  <2>1. m \in Model
    BY <1>1, PoolAssumption
  <2>2. H \in SUBSET Cred
    BY DEF Healable, IInv, Shape
  <2>3. \A c \in H : /\ entry[c].reason = "TooManyFailures"
                     /\ MaxRounds > 0 => entry[c].rounds < MaxRounds
                     /\ entry[c].rounds > 0 => entry[c].healModel = m
    BY DEF Healable
  <2> QED BY <2>1, <2>2, <2>3 DEF TrySelfHeal
<1>3. \A c \in Cred : entry[c] \in GoodEntries /\ heals[c] \in [Model -> Counts]
  BY DEF IInv, EntriesGood, Shape
<1>4. \A c \in H : /\ Healed(entry[c], m) \in GoodEntries
                   /\ MaxRounds > 0 => Healed(entry[c], m).rounds = entry[c].rounds + 1
                   /\ Healed(entry[c], m).healModel = m
                   /\ Healed(entry[c], m).broken = entry[c].broken
  BY <1>2, <1>3, HealedGood
<1>5. EntriesGood'
  <2>1. \A c \in Cred : entry'[c] = (IF c \in H THEN Healed(entry[c], m) ELSE entry[c])
    BY <1>2
  <2>2. ASSUME NEW c \in Cred
        PROVE  entry'[c] \in GoodEntries
    BY <2>1, <1>3, <1>4
  <2>3. entry' = [c \in Cred |-> entry'[c]]
    BY Zenon, <1>2
  <2> QED BY <2>2, <2>3 DEF EntriesGood
<1>6. heals' \in [Cred -> [Model -> Counts]]
  BY <1>2, <1>1, <1>3, CountsGood
<1>7. FileKept
  BY <1>2 DEF IInv, FileGood, FileKept
<1>8. HealsMatch'
  <2> SUFFICES ASSUME MaxRounds > 0, NEW d \in Cred, NEW k \in Model
               PROVE  Matches(heals'[d][k], Streak(entry'[d], k), Streak(disk'[d], k))
    BY DEF HealsMatch
  <2>1. /\ Matches(heals[d][k], Streak(entry[d], k), Streak(disk[d], k))
        /\ disk'[d] = disk[d] /\ Streak(disk[d], k) \in Nat
    BY <1>2 DEF IInv, HealsMatch, FileGood, GoodSaved, Saved, Streak
  <2>2. CASE d \notin H
    BY <2>1, <2>2, <1>2
  <2>3. CASE d \in H
    <3>1. /\ entry'[d].healModel = m /\ entry'[d].rounds = entry[d].rounds + 1
          /\ heals'[d] = [heals[d] EXCEPT ![m] = OneMore(@)]
      <4>1. entry'[d] = Healed(entry[d], m) /\ heals'[d] = [heals[d] EXCEPT ![m] = OneMore(@)]
        BY <2>3, <1>2
      <4> QED BY <4>1, <2>3, <1>4
    <3>2. /\ heals'[d][k] = IF k = m THEN OneMore(heals[d][k]) ELSE heals[d][k]
          /\ heals[d][k] \in Counts
      BY <3>1, <1>1, <1>3
    <3>3. entry[d].rounds \in Nat /\ (entry[d].rounds > 0 => entry[d].healModel = m)
      BY <2>3, <1>2, <1>3 DEF GoodEntries, Entries
    <3>4. /\ Streak(entry'[d], k) = IF k = m THEN Streak(entry[d], k) + 1 ELSE Streak(entry[d], k)
          /\ Streak(entry[d], k) \in Nat
      BY <3>1, <3>3 DEF Streak
    <3>5. /\ OneMore(heals[d][k]).made = heals[d][k].made + 1
          /\ OneMore(heals[d][k]).unsaved = heals[d][k].unsaved + 1
          /\ OneMore(heals[d][k]).lost = heals[d][k].lost
          /\ {heals[d][k].made, heals[d][k].unsaved, heals[d][k].lost} \subseteq Nat
      BY <3>2, CountsGood DEF Counts
    <3> QED BY <2>1, <3>2, <3>4, <3>5 DEF Matches
  <2> QED BY <2>2, <2>3
<1>9. CallsHaveKeys'
  <2>1. \A d \in Cred : entry'[d].broken => entry[d].broken
    <3> SUFFICES ASSUME NEW d \in Cred
                 PROVE  entry'[d].broken = entry[d].broken
      OBVIOUS
    <3>1. entry'[d] = (IF d \in H THEN Healed(entry[d], m) ELSE entry[d])
      BY <1>2
    <3> QED BY <3>1, <1>4
  <2> QED BY <2>1, <1>1, CallsFollow
<1>10. Shape'
  BY <1>2, <1>1, <1>6 DEF IInv, Shape
<1> QED BY <1>5, <1>7, <1>8, <1>9, <1>10 DEF IInv, FileKept

LEMMA ReadFileStep ==
  ASSUME IInv, NEW r \in Req, ReadFile(r)
  PROVE  IInv'
<1>1. req' \in [Req -> Requests] /\ NoNewCall
  BY DEF ReadFile, IInv, Shape, Requests, NoNewCall, Idle
<1>2. Shape' /\ EntriesGood' /\ FileKept /\ StreaksFollow
  BY <1>1 DEF ReadFile, IInv, Shape, EntriesGood, FileGood, FileKept, StreaksFollow
<1> QED BY <1>1, <1>2, StepKeeps

LEMMA ReloadFromFileStep ==
  ASSUME IInv, NEW r \in Req, ReloadFromFile(r)
  PROVE  IInv'
<1> DEFINE c == req[r].cred
           e == [entry[c] EXCEPT !.disabled = FALSE, !.reason = NoReason,
                                 !.fails = 0, !.refreshFails = 0]
<1>1. /\ req[r].pc \in {"token", "reload", "call"} /\ req' = [req EXCEPT ![r] = Idle]
      /\ UNCHANGED <<live, currentId, nextId, sweep, disk, diskLive, pending, heals, retired>>
      /\ banned' \subseteq banned /\ reloaded' \subseteq reloaded \cup {c}
  BY DEF ReloadFromFile
<1>2. /\ c \in Cred /\ entry[c] \in GoodEntries
      /\ req' \in [Req -> Requests] /\ NoNewCall
  BY <1>1, RequestDone
<1>3. EntriesGood' /\ StreaksFollow
  <2>1. CASE c \in live
    <3>1. entry' = [entry EXCEPT ![c] = e]
      BY <2>1 DEF ReloadFromFile
    <3> QED BY <1>1, <1>2, <3>1, ReloadedGood, OneEntryKept
  <2>2. CASE c \notin live
    BY <1>1, <2>2 DEF ReloadFromFile, IInv, EntriesGood, StreaksFollow
  <2> QED BY <2>1, <2>2
<1>4. Shape' /\ FileKept
  BY <1>1, <1>2 DEF IInv, Shape, FileGood, FileKept
<1> QED BY <1>2, <1>3, <1>4, StepKeeps

LEMMA RequestStep ==
  ASSUME IInv, NEW r \in Req, Request(r)
  PROVE  IInv'
BY AcquireStep, FindNothingStep, TrySelfHealStep, TokenReadyStep, AbandonStep, ReportSuccessStep, ReportFailureStep,
   ReportThrottledStep, ReportTerminalStep, ReportRefreshFailureStep,
   ReportRefreshTokenInvalidStep, ReadFileStep, ReloadFromFileStep DEF Request

-----------------------------------------------------------------------------
(* Operators and background tasks. *)

LEMMA SetDisabledStep ==
  ASSUME IInv, NEW c \in Cred, SetDisabled(c)
  PROVE  IInv'
<1> DEFINE e == ClearStreak(Disable(entry[c], "Manual"))
<1>1. entry[c] \in GoodEntries
  BY DEF IInv, EntriesGood
<1>2. e \in GoodEntries /\ e.rounds = 0 /\ e.broken = entry[c].broken
  BY <1>1, DisabledGood DEF GoodEntries, Reasons
<1>3. entry' = [entry EXCEPT ![c] = e] /\ heals' = [heals EXCEPT ![c] = NoHeals]
  BY DEF SetDisabled
<1>4. EntriesGood' /\ StreaksFollow /\ heals' \in [Cred -> [Model -> Counts]]
  BY <1>2, <1>3, OneEntryCleared
<1>5. currentId' \in Cred \cup {0}
  BY SwitchedEnabled DEF SetDisabled, IInv, Shape
<1>6. Shape' /\ FileKept /\ NoNewCall
  BY <1>4, <1>5 DEF SetDisabled, IInv, Shape, FileGood, FileKept, NoNewCall
<1> QED BY <1>4, <1>6, StepKeeps

LEMMA SetEnabledStep ==
  ASSUME IInv, NEW c \in Cred, SetEnabled(c)
  PROVE  IInv'
<1> DEFINE e == ClearStreak(Enable(entry[c]))
<1>1. entry[c] \in GoodEntries
  BY DEF IInv, EntriesGood
<1>2. e \in GoodEntries /\ e.rounds = 0 /\ e.broken = entry[c].broken
  BY <1>1, EnabledGood DEF GoodEntries
<1>3. entry' = [entry EXCEPT ![c] = e] /\ heals' = [heals EXCEPT ![c] = NoHeals]
  BY DEF SetEnabled
<1>4. EntriesGood' /\ StreaksFollow /\ heals' \in [Cred -> [Model -> Counts]]
  BY <1>2, <1>3, OneEntryCleared
<1>5. Shape' /\ FileKept /\ NoNewCall
  BY <1>4 DEF SetEnabled, IInv, Shape, FileGood, FileKept, NoNewCall
<1> QED BY <1>4, <1>5, StepKeeps

LEMMA RecoverQuotaExceededStep ==
  ASSUME IInv, NEW c \in Cred, RecoverQuotaExceeded(c)
  PROVE  IInv'
<1> DEFINE e == ClearStreak(Enable(entry[c]))
<1>1. entry[c] \in GoodEntries
  BY DEF IInv, EntriesGood
<1>2. e \in GoodEntries /\ e.rounds = 0 /\ e.broken = entry[c].broken
  BY <1>1, EnabledGood DEF GoodEntries
<1>3. entry' = [entry EXCEPT ![c] = e] /\ heals' = [heals EXCEPT ![c] = NoHeals]
  BY DEF RecoverQuotaExceeded
<1>4. EntriesGood' /\ StreaksFollow /\ heals' \in [Cred -> [Model -> Counts]]
  BY <1>2, <1>3, OneEntryCleared
<1>5. Shape' /\ FileKept /\ NoNewCall
  BY <1>4 DEF RecoverQuotaExceeded, IInv, Shape, FileGood, FileKept, NoNewCall
<1> QED BY <1>4, <1>5, StepKeeps

LEMMA ResetAndEnableStep ==
  ASSUME IInv, NEW c \in Cred, ResetAndEnable(c)
  PROVE  IInv'
<1> DEFINE e == [Healthy EXCEPT !.broken = entry[c].broken]
<1>1. entry[c].broken \in BOOLEAN
  BY DEF IInv, EntriesGood, GoodEntries, Entries
<1>2. e \in GoodEntries /\ e.rounds = 0 /\ e.broken = entry[c].broken
  BY <1>1, HealthyGood
<1>3. entry' = [entry EXCEPT ![c] = e] /\ heals' = [heals EXCEPT ![c] = NoHeals]
  BY DEF ResetAndEnable
<1>4. EntriesGood' /\ StreaksFollow /\ heals' \in [Cred -> [Model -> Counts]]
  BY <1>2, <1>3, OneEntryCleared
<1>5. Shape' /\ FileKept /\ NoNewCall
  BY <1>4 DEF ResetAndEnable, IInv, Shape, FileGood, FileKept, NoNewCall
<1> QED BY <1>4, <1>5, StepKeeps

LEMMA ReloginStep ==
  ASSUME IInv, NEW c \in Cred, Relogin(c)
  PROVE  IInv'
<1>1. entry' = [entry EXCEPT ![c] = Healthy] /\ heals' = [heals EXCEPT ![c] = NoHeals]
  BY DEF Relogin
<1>2. EntriesGood' /\ StreaksFollow /\ heals' \in [Cred -> [Model -> Counts]]
  BY <1>1, HealthyGood, OneEntryCleared
<1>3. currentId' \in Cred \cup {0}
  BY SwitchedEnabled DEF Relogin, IInv, Shape
<1>4. Shape' /\ FileKept /\ NoNewCall
  BY <1>2, <1>3 DEF Relogin, IInv, Shape, FileGood, FileKept, NoNewCall
<1> QED BY <1>2, <1>4, StepKeeps

LEMMA ForceRefreshStep ==
  ASSUME IInv, NEW c \in Cred, ForceRefresh(c) \/ UpdateRefreshToken(c)
  PROVE  IInv'
<1> DEFINE e == [entry[c] EXCEPT !.refreshFails = 0]
<1>1. ForceRefresh(c)
  BY DEF UpdateRefreshToken
<1>2. entry[c] \in GoodEntries
  BY DEF IInv, EntriesGood
<1>3. entry' = [entry EXCEPT ![c] = e] /\ heals' = heals
  BY <1>1 DEF ForceRefresh
<1>4. EntriesGood' /\ StreaksFollow
  BY <1>2, <1>3, FlagGood, OneEntryKept
<1>5. Shape' /\ FileKept /\ NoNewCall
  BY <1>1 DEF ForceRefresh, IInv, Shape, FileGood, FileKept, NoNewCall
<1> QED BY <1>4, <1>5, StepKeeps

LEMMA BatchMarkSuspendedStep ==
  ASSUME IInv, NEW S \in SUBSET Cred, BatchMarkSuspended(S)
  PROVE  IInv'
<1> DEFINE marked == {c \in S \cap live : entry[c].reason # "Suspended"}
           e(c) == ClearStreak(Disable([entry[c] EXCEPT !.fails = MaxFailures], "Suspended"))
<1>1. /\ entry' = [c \in Cred |-> IF c \in marked THEN e(c) ELSE entry[c]]
      /\ heals' = [c \in Cred |-> IF c \in marked THEN NoHeals ELSE heals[c]]
      /\ pending' = TRUE /\ banned' = banned \cup marked
      /\ UNCHANGED <<live, nextId, req, sweep, disk, diskLive, reloaded, retired>>
  BY DEF BatchMarkSuspended
<1>2. ASSUME NEW c \in Cred
      PROVE  e(c) \in GoodEntries /\ e(c).rounds = 0 /\ e(c).broken = entry[c].broken
  <2> DEFINE f == [entry[c] EXCEPT !.fails = MaxFailures]
  <2>1. entry[c] \in GoodEntries
    BY DEF IInv, EntriesGood
  <2>2. f \in Entries
    BY Zenon, <2>1, Bounds DEF GoodEntries, Entries
  <2>3. f.broken = entry[c].broken
    BY <2>1 DEF GoodEntries, Entries
  <2>4. "Suspended" \in Reasons \ {"TooManyFailures"}
    BY DEF Reasons
  <2> QED BY <2>2, <2>3, <2>4, DisabledGood
<1>3. EntriesGood' /\ StreaksFollow /\ heals' \in [Cred -> [Model -> Counts]]
  <2>1. entry \in [Cred -> GoodEntries] /\ heals \in [Cred -> [Model -> Counts]]
    BY DEF IInv, EntriesGood, Shape
  <2> QED BY <2>1, <1>1, <1>2, Bounds DEF EntriesGood, StreaksFollow
<1>4. currentId' \in Cred \cup {0}
  <2>1. CASE currentId \in marked
    <3>1. PICK full \in Full :
            LET T == {c \in Enabled(entry', live) : ~entry'[c].throttled} \ full IN
            \/ T = {} /\ UNCHANGED currentId
            \/ \E b \in T : currentId' = b
      BY <2>1 DEF BatchMarkSuspended
    <3> QED BY <3>1 DEF Enabled, IInv, Shape
  <2>2. CASE currentId \notin marked
    BY <2>2 DEF BatchMarkSuspended, IInv, Shape
  <2> QED BY <2>1, <2>2
<1>5. Shape' /\ FileKept /\ NoNewCall
  BY <1>1, <1>3, <1>4 DEF IInv, Shape, FileGood, FileKept, NoNewCall
<1> QED BY <1>3, <1>5, StepKeeps

LEMMA BeginSweepStep ==
  ASSUME IInv, NEW S \in SUBSET Cred, BeginSweep(S)
  PROVE  IInv'
<1>1. /\ sweep' = S
      /\ UNCHANGED <<entry, live, currentId, nextId, req, disk, diskLive, reloaded, pending, heals, banned, retired>>
  BY DEF BeginSweep
<1>2. EntriesGood' /\ StreaksFollow /\ Shape' /\ FileKept /\ NoNewCall
  BY <1>1 DEF IInv, EntriesGood, StreaksFollow, Shape, FileGood, FileKept, NoNewCall
<1> QED BY <1>2, StepKeeps

LEMMA SweepOneStep ==
  ASSUME IInv, NEW c \in Cred, SweepOne(c)
  PROVE  IInv'
<1> DEFINE e == ClearStreak(Disable(entry[c], "QuotaExceeded"))
<1>1. currentId' \in Cred \cup {0}
  BY SwitchedEnabled DEF SweepOne, IInv, Shape
<1>2. CASE c \in live
  <2>1. entry[c] \in GoodEntries
    BY DEF IInv, EntriesGood
  <2>2. e \in GoodEntries /\ e.rounds = 0 /\ e.broken = entry[c].broken
    BY <2>1, DisabledGood DEF GoodEntries, Reasons
  <2>3. entry' = [entry EXCEPT ![c] = e] /\ heals' = [heals EXCEPT ![c] = NoHeals]
    BY <1>2 DEF SweepOne
  <2>4. EntriesGood' /\ StreaksFollow /\ heals' \in [Cred -> [Model -> Counts]]
    BY <2>2, <2>3, OneEntryCleared
  <2>5. Shape' /\ FileKept /\ NoNewCall
    BY <1>1, <1>2, <2>4 DEF SweepOne, IInv, Shape, FileGood, FileKept, NoNewCall
  <2> QED BY <2>4, <2>5, StepKeeps
<1>3. CASE c \notin live
  <2>1. EntriesGood' /\ StreaksFollow /\ Shape' /\ FileKept /\ NoNewCall
    BY <1>1, <1>3 DEF SweepOne, IInv, EntriesGood, StreaksFollow, Shape, FileGood, FileKept, NoNewCall
  <2> QED BY <2>1, StepKeeps
<1> QED BY <1>2, <1>3

LEMMA AddCredentialStep ==
  ASSUME IInv, AddCredential
  PROVE  IInv'
<1>1. /\ nextId \in Cred
      /\ entry' = [entry EXCEPT ![nextId] = Healthy]
      /\ heals' = [heals EXCEPT ![nextId] = NoHeals]
  BY DEF AddCredential
<1>2. EntriesGood' /\ StreaksFollow /\ heals' \in [Cred -> [Model -> Counts]]
  BY <1>1, HealthyGood, OneEntryCleared
<1>3. live' \subseteq Cred /\ nextId' \in Nat
  <2>1. nextId \in Nat
    BY <1>1, PoolAssumption
  <2>2. live \subseteq Cred /\ live' = live \cup {nextId} /\ nextId' = nextId + 1
    BY DEF AddCredential, IInv, Shape
  <2> QED BY <1>1, <2>1, <2>2
<1>4. currentId' \in Cred \cup {0}
  BY <1>3, SwitchedEnabled DEF AddCredential, IInv, Shape
<1>5. Shape' /\ FileKept /\ NoNewCall
  BY <1>2, <1>3, <1>4 DEF AddCredential, IInv, Shape, FileGood, FileKept, NoNewCall
<1> QED BY <1>2, <1>5, StepKeeps

LEMMA DeleteCredentialStep ==
  ASSUME IInv, NEW c \in Cred, DeleteCredential(c)
  PROVE  IInv'
<1>1. entry' = [entry EXCEPT ![c] = Healthy] /\ heals' = [heals EXCEPT ![c] = NoHeals]
  BY DEF DeleteCredential
<1>2. EntriesGood' /\ StreaksFollow /\ heals' \in [Cred -> [Model -> Counts]]
  BY <1>1, HealthyGood, OneEntryCleared
<1>3. live' \subseteq Cred
  BY DEF DeleteCredential, IInv, Shape
<1>4. currentId' \in Cred \cup {0}
  BY <1>3, SwitchedEnabled DEF DeleteCredential, IInv, Shape
<1>5. Shape' /\ FileKept /\ NoNewCall
  BY <1>2, <1>3, <1>4 DEF DeleteCredential, IInv, Shape, FileGood, FileKept, NoNewCall
<1> QED BY <1>2, <1>5, StepKeeps

LEMMA ThrottleEndsStep ==
  ASSUME IInv, NEW c \in Cred, ThrottleEnds(c)
  PROVE  IInv'
<1> DEFINE e == [entry[c] EXCEPT !.throttled = FALSE]
<1>1. entry[c] \in GoodEntries
  BY DEF IInv, EntriesGood
<1>2. entry' = [entry EXCEPT ![c] = e] /\ heals' = heals
  BY DEF ThrottleEnds
<1>3. EntriesGood' /\ StreaksFollow
  BY <1>1, <1>2, FlagGood, OneEntryKept
<1>4. Shape' /\ FileKept /\ NoNewCall
  BY DEF ThrottleEnds, IInv, Shape, FileGood, FileKept, NoNewCall
<1> QED BY <1>3, <1>4, StepKeeps

LEMMA HealIntervalPassesStep ==
  ASSUME IInv, NEW c \in Cred, HealIntervalPasses(c)
  PROVE  IInv'
<1> DEFINE e == [entry[c] EXCEPT !.cooling = FALSE]
<1>1. entry[c] \in GoodEntries /\ disk[c] \in GoodSaved
  BY DEF IInv, EntriesGood, FileGood
<1>2. entry' = [entry EXCEPT ![c] = e] /\ heals' = heals
  BY DEF HealIntervalPasses
<1>3. EntriesGood' /\ StreaksFollow
  BY <1>1, <1>2, FlagGood, OneEntryKept
<1>4. FileKept
  <2>1. [disk[c] EXCEPT !.cooling = FALSE] \in GoodSaved
    BY <1>1, SavedFlagGood
  <2>2. disk' = [disk EXCEPT ![c] = [disk[c] EXCEPT !.cooling = FALSE]]
    BY DEF HealIntervalPasses
  <2>3. \A d \in Cred : disk'[d].rounds = disk[d].rounds /\ disk'[d].healModel = disk[d].healModel
    BY <1>1, <2>2 DEF GoodSaved, Saved, IInv, FileGood, FileKept
  <2>4. disk' \in [Cred -> GoodSaved]
    BY <2>1, <2>2 DEF IInv, FileGood, FileKept
  <2> QED BY <2>3, <2>4 DEF HealIntervalPasses, IInv, FileGood, FileKept
<1>5. Shape' /\ NoNewCall
  BY DEF HealIntervalPasses, IInv, Shape, NoNewCall
<1> QED BY <1>3, <1>4, <1>5, StepKeeps

-----------------------------------------------------------------------------
(* The file and the process. *)

LEMMA PersistStep ==
  ASSUME IInv, Persist
  PROVE  IInv'
<1>1. /\ disk' = [c \in Cred |-> IF c \in live THEN Snapshot(entry[c]) ELSE Snapshot(Healthy)]
      /\ heals' = [c \in Cred |-> IF c \in live THEN [m \in Model |-> Written(heals[c][m])] ELSE NoHeals]
      /\ pending' = FALSE /\ diskLive' = live /\ reloaded' = {} /\ retired' = retired \cup (diskLive \ live)
      /\ UNCHANGED <<entry, live, currentId, nextId, req, sweep, banned>>
  BY DEF Persist
<1>2. /\ \A c \in Cred : entry[c] \in GoodEntries
      /\ \A c \in Cred, m \in Model : heals[c][m] \in Counts
  BY DEF IInv, EntriesGood, Shape
<1>3. EntriesGood' /\ FileGood'
  BY <1>1, <1>2, HealthyGood, SnapshotGood DEF IInv, EntriesGood, FileGood
<1>4. heals' \in [Cred -> [Model -> Counts]]
  BY <1>1, <1>2, CountsGood, Bounds
<1>5. Shape'
  BY <1>1, <1>4 DEF IInv, Shape
<1>6. CallsHaveKeys'
  BY <1>1 DEF IInv, CallsHaveKeys
<1>7. HealsMatch'
  <2> SUFFICES ASSUME MaxRounds > 0, NEW c \in Cred, NEW m \in Model
               PROVE  Matches(heals'[c][m], Streak(entry[c], m), Streak(disk'[c], m))
    BY <1>1 DEF HealsMatch
  <2>1. Matches(heals[c][m], Streak(entry[c], m), Streak(disk[c], m)) /\ Streak(entry[c], m) \in Nat
    BY <1>2 DEF IInv, HealsMatch, GoodEntries, Entries, Streak
  <2>2. CASE c \in live
    <3>1. Streak(disk'[c], m) = Streak(entry[c], m)
      BY <1>1, <2>2 DEF Snapshot, Streak
    <3>2. heals'[c][m] = Written(heals[c][m])
      BY <1>1, <2>2
    <3>3. /\ Written(heals[c][m]).made = heals[c][m].made
          /\ Written(heals[c][m]).unsaved = 0
          /\ Written(heals[c][m]).lost = heals[c][m].lost
          /\ {heals[c][m].made, heals[c][m].lost} \subseteq Nat
      BY <1>2, CountsGood DEF Counts
    <3> QED BY <2>1, <3>1, <3>2, <3>3 DEF Matches
  <2>3. CASE c \notin live
    <3>1. Streak(disk'[c], m) = 0
      BY <1>1, <2>3 DEF Snapshot, Healthy, Streak
    <3> QED BY <1>1, <2>1, <2>3, <3>1 DEF NoHeals, Matches
  <2> QED BY <2>2, <2>3
<1> QED BY <1>3, <1>5, <1>6, <1>7 DEF IInv

LEMMA RestartStep ==
  ASSUME IInv, Restart
  PROVE  IInv'
<1>1. /\ live' = diskLive /\ entry' = [c \in Cred |-> Load(disk[c])]
      /\ req' = [r \in Req |-> Idle] /\ sweep' = {} /\ pending' = FALSE
      /\ heals' = [c \in Cred |-> [m \in Model |-> Lost(heals[c][m])]]
      /\ banned' = {c \in diskLive : disk[c].reason = "Suspended"} /\ reloaded' = {}
      /\ UNCHANGED <<disk, diskLive, retired>>
  BY DEF Restart
<1>2. /\ \A c \in Cred : disk[c] \in GoodSaved
      /\ \A c \in Cred, m \in Model : heals[c][m] \in Counts
  BY DEF IInv, FileGood, Shape
<1>3. \A c \in Cred : /\ Load(disk[c]) \in GoodEntries
                      /\ Load(disk[c]).rounds = disk[c].rounds
                      /\ Load(disk[c]).healModel = disk[c].healModel
  BY <1>2, LoadGood
<1>4. EntriesGood' /\ FileGood'
  BY <1>1, <1>3 DEF IInv, EntriesGood, FileGood
<1>5. heals' \in [Cred -> [Model -> Counts]]
  BY <1>1, <1>2, CountsGood
<1>6. HealsMatch'
  <2> SUFFICES ASSUME MaxRounds > 0, NEW c \in Cred, NEW m \in Model
               PROVE  Matches(Lost(heals[c][m]), Streak(entry'[c], m), Streak(disk[c], m))
    BY <1>1 DEF HealsMatch
  <2>1. Matches(heals[c][m], Streak(entry[c], m), Streak(disk[c], m)) /\ Streak(disk[c], m) \in Nat
    BY <1>2 DEF IInv, HealsMatch, GoodSaved, Saved, Streak
  <2>2. Streak(entry'[c], m) = Streak(disk[c], m)
    BY <1>1, <1>3 DEF Streak
  <2>3. /\ Lost(heals[c][m]).made = heals[c][m].made
        /\ Lost(heals[c][m]).unsaved = 0
        /\ Lost(heals[c][m]).lost = heals[c][m].lost + heals[c][m].unsaved
    BY <1>2, CountsGood
  <2>4. {heals[c][m].made, heals[c][m].unsaved, heals[c][m].lost} \subseteq Nat
    BY <1>2 DEF Counts
  <2> QED BY <2>1, <2>2, <2>3, <2>4 DEF Matches
<1>7. currentId' \in Cred \cup {0}
  BY DEF Restart, Enabled, IInv, Shape
<1>8. nextId' \in Nat
  BY PoolAssumption DEF Restart, IInv, Shape
<1>9. Shape'
  BY <1>1, <1>5, <1>7, <1>8 DEF IInv, Shape, Requests
<1>10. CallsHaveKeys'
  BY <1>1 DEF CallsHaveKeys, Idle
<1> QED BY <1>4, <1>6, <1>9, <1>10 DEF IInv

LEMMA InitStep ==
  ASSUME Init
  PROVE  IInv
<1>1. PICK B \in SUBSET Broken, U \in SUBSET Unexplained :
        disk = [c \in Cred |-> [Snapshot(Healthy) EXCEPT !.broken = (c \in B), !.disabled = (c \in U)]]
  BY DEF Init
<1>2. \A c \in Cred : disk[c] \in GoodSaved /\ disk[c].rounds = 0
  <2> SUFFICES ASSUME NEW c \in Cred
               PROVE  disk[c] \in GoodSaved /\ disk[c].rounds = 0
    OBVIOUS
  <2> DEFINE b == c \in B
             d == c \in U
  <2>1. disk[c] = [Snapshot(Healthy) EXCEPT !.broken = b, !.disabled = d]
    BY <1>1
  <2>2. Snapshot(Healthy) \in GoodSaved /\ b \in BOOLEAN /\ d \in BOOLEAN
    <3>1. Healthy \in GoodEntries
      BY HealthyGood, TRUE \in BOOLEAN
    <3> QED BY <3>1, SnapshotGood
  <2> HIDE DEF b, d
  <2>3. disk[c] \in Saved
    <3>1. Snapshot(Healthy) \in Saved
      BY <2>2 DEF GoodSaved
    <3> QED BY Zenon, <2>1, <2>2, <3>1 DEF Saved
  <2>4. disk[c].rounds = 0 /\ disk[c].reason = NoReason
    BY <2>1 DEF Snapshot, Healthy
  <2>5. SoundSaved(disk[c])
    BY <2>4, PoolAssumption DEF SoundSaved, NoReason
  <2> QED BY <2>3, <2>4, <2>5 DEF GoodSaved
<1>3. \A c \in Cred : entry[c] \in GoodEntries /\ entry[c].rounds = 0
  BY <1>2, LoadGood DEF Init
<1>4. EntriesGood /\ FileGood
  BY <1>1, <1>2, <1>3 DEF Init, EntriesGood, FileGood
<1>5. HealsMatch
  <2> SUFFICES ASSUME NEW c \in Cred, NEW m \in Model
               PROVE  Matches(heals[c][m], Streak(entry[c], m), Streak(disk[c], m))
    BY DEF HealsMatch
  <2>1. heals[c][m] = [made |-> 0, unsaved |-> 0, lost |-> 0]
    BY DEF Init, NoHeals
  <2>2. Streak(entry[c], m) = 0 /\ Streak(disk[c], m) = 0
    BY <1>2, <1>3 DEF Streak
  <2> QED BY <2>1, <2>2 DEF Matches
<1>6. CallsHaveKeys
  BY DEF Init, CallsHaveKeys, Idle
<1>7. currentId \in Cred \cup {0}
  BY PoolAssumption DEF Init, Enabled
<1>8. nextId \in Nat
  <2>1. PICK m \in InitLive \cup {0} : nextId = m + 1
    BY DEF Init
  <2>2. m \in Nat
    BY PoolAssumption
  <2> QED BY <2>1, <2>2
<1>9. Shape
  <2>1. heals \in [Cred -> [Model -> Counts]]
    BY Bounds DEF Init
  <2>2. req \in [Req -> Requests]
    BY DEF Init, Requests
  <2> QED BY <1>7, <1>8, <2>1, <2>2, PoolAssumption DEF Init, Shape
<1> QED BY <1>4, <1>5, <1>6, <1>9 DEF IInv

LEMMA NextStep ==
  ASSUME IInv, [Next]_vars
  PROVE  IInv'
<1>1. ASSUME NEW r \in Req, Request(r)
      PROVE  IInv'
  BY <1>1, RequestStep
<1>2. CASE Admin
  BY <1>2, SetDisabledStep, SetEnabledStep, ResetAndEnableStep, ReloginStep, ForceRefreshStep,
     DeleteCredentialStep, SweepOneStep, BatchMarkSuspendedStep, BeginSweepStep,
     AddCredentialStep DEF Admin
<1>3. CASE Environment
  BY <1>3, RecoverQuotaExceededStep, ThrottleEndsStep, HealIntervalPassesStep DEF Environment
<1>4. CASE Persist
  BY <1>4, PersistStep
<1>5. CASE Restart
  BY <1>5, RestartStep
<1>6. CASE UNCHANGED vars
  <2>1. StreaksFollow /\ NoNewCall /\ EntriesGood' /\ FileKept /\ Shape'
    BY <1>6 DEF vars, IInv, EntriesGood, FileGood, FileKept, Shape, StreaksFollow, NoNewCall
  <2> QED BY <2>1, StepKeeps
<1> QED BY <1>1, <1>2, <1>3, <1>4, <1>5, <1>6 DEF Next

-----------------------------------------------------------------------------
(* Theorems. *)

LEMMA Invariance == Spec => []IInv
<1>1. Init => IInv
  BY InitStep
<1>2. IInv /\ [Next]_vars => IInv'
  BY NextStep
<1> QED BY <1>1, <1>2, PTL DEF Spec

\* Type correctness: in particular no counter passes its threshold, whichever of the
\* report, heal, enable and reload operations interleave.
THEOREM TypeCorrect == Spec => []TypeOK
<1>1. IInv => TypeOK
  BY DEF IInv, EntriesGood, GoodEntries, FileGood, GoodSaved, Shape, TypeOK
<1> QED BY <1>1, Invariance, PTL

\* A credential in service is below both failure thresholds, and the reason says
\* exactly whether it is in service.
THEOREM EnabledIsHealthy == Spec => []EnabledMeansHealthy
<1>1. IInv => EnabledMeansHealthy
  BY DEF IInv, EntriesGood, GoodEntries, Sound, Shape, HealableReasons, EnabledMeansHealthy
<1> QED BY <1>1, Invariance, PTL

\* clear_self_heal_streak is called wherever it must be: a streak belongs to a
\* credential that is in service or that self-heal may bring back.
THEOREM StreaksAreHealable == Spec => []StreakOnlyWhileHealable
<1>1. IInv => StreakOnlyWhileHealable
  BY DEF IInv, EntriesGood, GoodEntries, Sound, Shape, HealableReasons, StreakOnlyWhileHealable
<1> QED BY <1>1, Invariance, PTL

\* With a limit of MaxRounds a credential is healed at most MaxRounds times in a row
\* for a model that keeps failing, and once more for every heal that a crash has kept
\* from the file, of which a single crash loses at most MaxRounds; whatever the number
\* of models and requests.  MaxRounds = 0 asks for no limit, and gets none.
THEOREM SelfHealIsBounded == Spec => []SelfHealBounded
<1>1. IInv => SelfHealBounded
  <2> SUFFICES ASSUME IInv, MaxRounds > 0, NEW c \in Cred, NEW m \in Model
               PROVE  /\ heals[c][m].made <= MaxRounds + heals[c][m].lost
                      /\ heals[c][m].unsaved <= MaxRounds
    BY DEF SelfHealBounded
  <2>1. Streak(entry[c], m) \in Nat /\ Streak(entry[c], m) <= MaxRounds
    BY PoolAssumption DEF IInv, EntriesGood, GoodEntries, Entries, Sound, Streak
  <2>2. /\ heals[c][m].made <= Streak(entry[c], m) + heals[c][m].lost
        /\ heals[c][m].unsaved <= Streak(entry[c], m)
    BY DEF IInv, HealsMatch, Matches
  <2>3. heals[c][m] \in Counts
    BY DEF IInv, Shape
  <2> QED BY <2>1, <2>2, <2>3, PoolAssumption DEF Counts
<1> QED BY <1>1, Invariance, PTL
=============================================================================
