-------------------------- MODULE ModelCacheProofs --------------------------
(***************************************************************************)
(* Proofs about ModelCache for every set of credentials and tasks, any     *)
(* number of permits and of changes.                                       *)
(***************************************************************************)
EXTENDS ModelCache, TLAPS

-----------------------------------------------------------------------------
(* The inductive invariant. *)

\* Tasks, but for the bounds that TLC needs
TaskStates == [pc: Steps, cred: Cred \cup {None}, kind: {"discover", "warm", "force"},
               lock: Locks \cup {None}, renewed: BOOLEAN,
               generation: Nat, epoch: Nat, list: Lists, floor: Lists]

Types ==
  /\ live \subseteq Cred
  /\ version \in [Cred -> Count] /\ proxy \in Count
  /\ cache \in [Cred -> Cached \cup {None}]
  /\ generation \in [Cred -> Nat] /\ epoch \in Nat
  /\ lockOf \in [Cred -> Locks]
  /\ holder \in [Locks -> Task \cup {None}]
  /\ task \in [Task -> TaskStates]

Holding == {"permit"} \cup Fetching
Asking == {"lock", "fallback", "done"} \cup Holding
Loaded == {"proxy", "sent"}   \* what it needs of the credential has been read

\* a task knows its credential and one of the two locks of it
Named(t) ==
  /\ task[t].pc \in Asking \cup {"invalidate", "remove"} => task[t].cred \in Cred
  /\ task[t].pc \in Asking => task[t].lock \in {<<task[t].cred, 0>>, <<task[t].cred, 1>>}

\* a holder of a lock remembers the generation and the epoch of an earlier moment
Held(t) ==
  task[t].pc \in Holding =>
    /\ holder[task[t].lock] = t
    /\ task[t].generation <= generation[task[t].cred] /\ task[t].epoch <= epoch

\* the second lock of a credential exists only when the credential does not
SecondLock(t) ==
  /\ task[t].pc = "remove" => task[t].cred \notin live
  /\ task[t].pc \in Asking /\ task[t].lock = <<task[t].cred, 1>> => task[t].cred \notin live
  /\ task[t].pc \in Loaded => task[t].lock = <<task[t].cred, 0>>

LocksKnown ==
  \A c \in Cred : lockOf[c] \in {<<c, 0>>, <<c, 1>>} /\ (lockOf[c] = <<c, 1>> => c \notin live)

\* what a fetch has read is still so, or will be seen to be overtaken
NotStale(t) ==
  LET c == task[t].cred IN
  /\ task[t].pc \in Loaded /\ task[t].generation = generation[c] /\ ~Changing(c)
       => c \in live /\ task[t].list.cred = version[c]
  /\ task[t].pc = "sent" /\ task[t].epoch = epoch /\ (\A u \in Task : task[u].pc # "epoch")
       => task[t].list.proxy = proxy

\* what a task that asks has, or finds in the cache, is new enough for it
NewEnough(t) ==
  LET c == task[t].cred
      f == task[t].floor
  IN task[t].pc \in Asking =>
       /\ f.cred <= version[c] /\ f.proxy <= proxy
       /\ cache[c] # None => cache[c].cred >= f.cred /\ cache[c].proxy >= f.proxy
       /\ task[t].pc \in Loaded \cup {"done"} => task[t].list.cred >= f.cred
       /\ task[t].pc \in {"sent", "done"} => task[t].list.proxy >= f.proxy

\* and so is what the fetch of u may put there
Serves(t, u) ==
  LET c == task[t].cred
      f == task[t].floor
  IN task[t].pc \in Asking /\ task[u].cred = c =>
       /\ task[u].pc \in Loaded /\ task[u].generation = generation[c]
            => task[u].list.cred >= f.cred
       /\ task[u].pc = "sent" /\ task[u].epoch = epoch => task[u].list.proxy >= f.proxy

Sane(t) == Named(t) /\ Held(t) /\ SecondLock(t) /\ NotStale(t) /\ NewEnough(t)

IInv ==
  /\ Types /\ LocksKnown /\ CacheIsCurrent
  /\ \A t \in Task : Sane(t)
  /\ \A t, u \in Task : Serves(t, u)

-----------------------------------------------------------------------------
(* What the steps do to a task. *)

Others(t) == \A u \in Task : u # t => task'[u] = task[u]

LEMMA IdleTyped == Idle \in TaskStates /\ 0 \in Count
BY CacheAssumption DEF Idle, TaskStates, Steps, Fetching, Oldest, Lists, Count

LEMMA GotoMoves ==
  ASSUME Types, NEW t \in Task, NEW pc \in Steps, Goto(t, pc)
  PROVE  /\ task' \in [Task -> TaskStates] /\ Others(t) /\ task'[t].pc = pc
         /\ task'[t].cred = task[t].cred /\ task'[t].lock = task[t].lock
         /\ task'[t].generation = task[t].generation /\ task'[t].epoch = task[t].epoch
         /\ task'[t].list = task[t].list /\ task'[t].floor = task[t].floor
<1>1. task[t] \in TaskStates
  BY DEF Types
<1>2. [task[t] EXCEPT !.pc = pc] \in TaskStates
  BY Zenon, <1>1 DEF TaskStates
<1>3. task' = [task EXCEPT ![t] = [task[t] EXCEPT !.pc = pc]]
  BY DEF Goto
<1>4. task' \in [Task -> TaskStates] /\ Others(t) /\ task'[t] = [task[t] EXCEPT !.pc = pc]
  BY <1>2, <1>3 DEF Types, Others
<1> QED BY <1>1, <1>4 DEF TaskStates

LEMMA FinishMoves ==
  ASSUME Types, NEW t \in Task, Finish(t)
  PROVE  task' \in [Task -> TaskStates] /\ Others(t) /\ task'[t] = Idle /\ task'[t].pc = "idle"
BY IdleTyped DEF Finish, Types, Others, Idle

LEMMA OneMoves ==
  ASSUME Types, NEW t \in Task, NEW y \in TaskStates, task' = [task EXCEPT ![t] = y]
  PROVE  task' \in [Task -> TaskStates] /\ Others(t) /\ task'[t] = y
BY DEF Types, Others

\* a task answers with a list
Answered(x, l) == [x EXCEPT !.pc = "done", !.list = l]

LEMMA AnsweredTask ==
  ASSUME NEW x \in TaskStates, NEW l \in Lists
  PROVE  LET y == Answered(x, l) IN
         /\ y \in TaskStates /\ y.pc = "done" /\ y.cred = x.cred /\ y.lock = x.lock
         /\ y.list = l /\ y.floor = x.floor
<1>1. Answered(x, l) \in TaskStates
  BY Zenon DEF TaskStates, Steps, Answered
<1> QED BY <1>1 DEF TaskStates, Answered

\* it has the lock
Acquired(x, e, g) == [x EXCEPT !.pc = "permit", !.epoch = e, !.generation = g]

LEMMA AcquiredTask ==
  ASSUME NEW x \in TaskStates, NEW e \in Nat, NEW g \in Nat
  PROVE  LET y == Acquired(x, e, g) IN
         /\ y \in TaskStates /\ y.pc = "permit" /\ y.cred = x.cred /\ y.lock = x.lock
         /\ y.generation = g /\ y.epoch = e /\ y.floor = x.floor
<1>1. Acquired(x, e, g) \in TaskStates
  BY Zenon DEF TaskStates, Steps, Acquired
<1> QED BY <1>1 DEF TaskStates, Acquired

\* it has read what it needs of the credential
Prepared(x, v) == [x EXCEPT !.pc = "proxy", !.list.cred = v]

LEMMA PreparedTask ==
  ASSUME NEW x \in TaskStates, NEW v \in Count
  PROVE  LET y == Prepared(x, v) IN
         /\ y \in TaskStates /\ y.pc = "proxy" /\ y.cred = x.cred /\ y.lock = x.lock
         /\ y.generation = x.generation /\ y.epoch = x.epoch /\ y.floor = x.floor
         /\ y.list.cred = v
<1>1. [x.list EXCEPT !.cred = v] \in Lists
  BY DEF TaskStates, Lists
<1>2. Prepared(x, v) = [x EXCEPT !.pc = "proxy", !.list = [x.list EXCEPT !.cred = v]]
  BY DEF TaskStates, Prepared
<1>3. Prepared(x, v) \in TaskStates
  BY Zenon, <1>1, <1>2 DEF TaskStates, Steps, Fetching
<1> QED BY <1>1, <1>3 DEF TaskStates, Lists, Prepared

\* it has read the proxy
Sent(x, v) == [x EXCEPT !.pc = "sent", !.list.proxy = v]

LEMMA SentTask ==
  ASSUME NEW x \in TaskStates, NEW v \in Count
  PROVE  LET y == Sent(x, v) IN
         /\ y \in TaskStates /\ y.pc = "sent" /\ y.cred = x.cred /\ y.lock = x.lock
         /\ y.generation = x.generation /\ y.epoch = x.epoch /\ y.floor = x.floor
         /\ y.list.cred = x.list.cred /\ y.list.proxy = v
<1>1. [x.list EXCEPT !.proxy = v] \in Lists
  BY DEF TaskStates, Lists
<1>2. Sent(x, v) = [x EXCEPT !.pc = "sent", !.list = [x.list EXCEPT !.proxy = v]]
  BY DEF TaskStates, Sent
<1>3. Sent(x, v) \in TaskStates
  BY Zenon, <1>1, <1>2 DEF TaskStates, Steps, Fetching
<1> QED BY <1>1, <1>3 DEF TaskStates, Lists, Sent

\* it learns that a list has arrived
Renewed(x) == [x EXCEPT !.renewed = TRUE]

LEMMA RenewedTask ==
  ASSUME NEW x \in TaskStates
  PROVE  LET y == Renewed(x) IN
         /\ y \in TaskStates /\ y.pc = x.pc /\ y.cred = x.cred /\ y.lock = x.lock
         /\ y.generation = x.generation /\ y.epoch = x.epoch /\ y.floor = x.floor
         /\ y.list = x.list
<1>1. Renewed(x) \in TaskStates
  BY Zenon DEF TaskStates, Renewed
<1> QED BY <1>1 DEF TaskStates, Renewed

\* the upstream has answered it
Replied(x) == [x EXCEPT !.pc = "done"]

LEMMA RepliedTask ==
  ASSUME NEW x \in TaskStates
  PROVE  LET y == Replied(x) IN
         /\ y \in TaskStates /\ y.pc = "done" /\ y.cred = x.cred /\ y.lock = x.lock
         /\ y.generation = x.generation /\ y.epoch = x.epoch /\ y.floor = x.floor
         /\ y.list = x.list
<1>1. Replied(x) \in TaskStates
  BY Zenon DEF TaskStates, Replied, Steps
<1> QED BY <1>1 DEF TaskStates, Replied

\* it has changed a credential, or removed it
Changed(x, pc, c) == [x EXCEPT !.pc = pc, !.cred = c]

LEMMA ChangedTask ==
  ASSUME NEW x \in TaskStates, NEW pc \in Steps, NEW c \in Cred
  PROVE  LET y == Changed(x, pc, c) IN y \in TaskStates /\ y.pc = pc /\ y.cred = c
<1>1. Changed(x, pc, c) \in TaskStates
  BY Zenon DEF TaskStates, Changed
<1> QED BY <1>1 DEF TaskStates, Changed

\* A step of one task that changes nothing but the task and the holder of a lock keeps
\* the invariant when it keeps what concerns that task.
LEMMA TaskStep ==
  ASSUME IInv, NEW t \in Task, Others(t), Types',
         task[t].pc \in Asking \cup {"idle"}, task'[t].pc \in Asking \cup {"idle"},
         UNCHANGED <<live, version, proxy, cache, generation, epoch, lockOf>>,
         \A u \in Task : u # t /\ task[u].pc \in Holding
                           => holder'[task[u].lock] = holder[task[u].lock],
         Sane(t)',
         \A u \in Task : Serves(t, u)' /\ Serves(u, t)'
  PROVE  IInv'
<1>1. \A c \in Cred : Changing(c)' <=> Changing(c)
  BY DEF Changing, Others, Asking, Holding, Fetching
<1>2. ProxyChanging' <=> ProxyChanging
  BY DEF ProxyChanging, Others, Asking, Holding, Fetching
<1>3. (\A u \in Task : task'[u].pc # "epoch") <=> (\A u \in Task : task[u].pc # "epoch")
  BY DEF Others, Asking, Holding, Fetching
<1>4. LocksKnown' /\ CacheIsCurrent'
  BY <1>1, <1>2 DEF IInv, LocksKnown, CacheIsCurrent
<1>5. ASSUME NEW u \in Task PROVE Sane(u)'
  <2>1. CASE u = t
    BY <2>1
  <2>2. CASE u # t
    <3>1. task'[u] = task[u] /\ Sane(u)
      BY <2>2 DEF Others, IInv
    <3>2. Named(u)' /\ SecondLock(u)' /\ NewEnough(u)'
      BY <3>1 DEF Sane, Named, SecondLock, NewEnough
    <3>3. Held(u)'
      BY <2>2, <3>1 DEF Sane, Held
    <3>4. NotStale(u)'
      BY <1>1, <1>3, <3>1 DEF Sane, Named, NotStale, Loaded, Asking, Holding, Fetching
    <3> QED BY <3>2, <3>3, <3>4 DEF Sane
  <2> QED BY <2>1, <2>2
<1>6. ASSUME NEW u \in Task, NEW w \in Task PROVE Serves(u, w)'
  <2>1. CASE u = t \/ w = t
    BY <2>1
  <2>2. CASE u # t /\ w # t
    BY <2>2 DEF IInv, Serves, Others
  <2> QED BY <2>1, <2>2
<1> QED BY <1>4, <1>5, <1>6 DEF IInv

-----------------------------------------------------------------------------
(* Lookups. *)

LEMMA LookupTask ==
  ASSUME NEW p \in Steps, NEW c \in Cred, NEW kind \in {"discover", "warm", "force"},
         NEW k \in Locks, NEW l \in Lists, NEW f \in Lists
  PROVE  LET r == Lookup(p, c, kind, k, l, f)
         IN /\ r \in TaskStates
            /\ r.pc = p /\ r.cred = c /\ r.lock = k /\ r.list = l /\ r.floor = f
<1> DEFINE r == Lookup(p, c, kind, k, l, f)
<1>1. r.pc = p /\ r.cred = c /\ r.lock = k /\ r.list = l /\ r.floor = f
  BY DEF Lookup, Idle
<1>2. c \in Cred \cup {None} /\ k \in Locks \cup {None}
  OBVIOUS
<1>3. r \in TaskStates
  BY Zenon, IdleTyped, <1>2 DEF TaskStates, Lookup
<1> QED BY <1>1, <1>3

LEMMA AskStep ==
  ASSUME IInv, NEW t \in Task, NEW c \in Cred, NEW kind \in {"discover", "warm", "force"},
         Ask(t, c, kind)
  PROVE  IInv'
<1> DEFINE hit == kind # "force" /\ cache[c] # None /\ cache[c].fresh
           p == IF hit THEN "done" ELSE "lock"
           l == IF hit THEN ListOf(cache[c]) ELSE Oldest
           f == [cred |-> IF Changing(c) THEN 0 ELSE version[c],
                 proxy |-> IF ProxyChanging THEN 0 ELSE proxy]
           asked == Lookup(p, c, kind, lockOf[c], l, f)
<1>1. /\ task[t].pc = "idle" /\ task' = [task EXCEPT ![t] = asked]
      /\ UNCHANGED <<live, version, proxy, cache, generation, epoch, lockOf, holder>>
  BY DEF Ask, At
<1>2. Types
  BY DEF IInv
<1>3. hit => ListOf(cache[c]) \in Lists
  BY <1>2 DEF Types, Cached, ListOf, Lists
<1>4. p \in Steps /\ l \in Lists /\ f \in Lists
  <2>1. Oldest \in Lists
    BY IdleTyped DEF Oldest, Lists
  <2>2. l \in Lists
    BY Zenon, <1>3, <2>1
  <2>3. /\ (IF Changing(c) THEN 0 ELSE version[c]) \in Count
        /\ (IF ProxyChanging THEN 0 ELSE proxy) \in Count
    BY Zenon, <1>2, IdleTyped DEF Types
  <2>4. f \in Lists
    BY <2>3 DEF Lists
  <2>5. p \in Steps
    BY DEF Steps
  <2> QED BY <2>2, <2>4, <2>5
<1>5. lockOf[c] \in Locks
  BY <1>2 DEF Types
<1>6. /\ asked \in TaskStates
      /\ asked.pc = p /\ asked.cred = c /\ asked.lock = lockOf[c]
      /\ asked.list = l /\ asked.floor = f
  <2> HIDE DEF p, l, f
  <2> QED BY <1>4, <1>5, LookupTask
<1>7. Types' /\ Others(t) /\ task'[t] = asked
  <2> HIDE DEF asked
  <2> QED BY <1>1, <1>2, <1>6 DEF Types, Others
<1>8. /\ task'[t].pc = (IF hit THEN "done" ELSE "lock")
      /\ task'[t].cred = c /\ task'[t].lock = lockOf[c]
      /\ task'[t].list = (IF hit THEN ListOf(cache[c]) ELSE Oldest)
      /\ task'[t].floor.cred = (IF Changing(c) THEN 0 ELSE version[c])
      /\ task'[t].floor.proxy = (IF ProxyChanging THEN 0 ELSE proxy)
  <2> HIDE DEF asked
  <2> QED BY <1>6, <1>7
<1> HIDE DEF asked
<1>9. \A d \in Cred : version[d] \in Nat /\ proxy \in Nat
  BY <1>2, CacheAssumption DEF Types, Count
<1>10. cache[c] # None => cache[c].cred \in Nat /\ cache[c].proxy \in Nat
  <2>1. cache[c] # None => cache[c] \in Cached
    BY <1>2 DEF Types
  <2> QED BY <2>1, CacheAssumption DEF Cached, Count
<1>11. NewEnough(t)'
  <2>1. cache[c] # None => /\ cache[c].cred >= task'[t].floor.cred
                           /\ cache[c].proxy >= task'[t].floor.proxy
    BY <1>8, <1>9, <1>10 DEF IInv, CacheIsCurrent
  <2>2. task'[t].floor.cred <= version[c] /\ task'[t].floor.proxy <= proxy
    BY <1>8, <1>9
  <2> QED BY <1>1, <1>8, <2>1, <2>2 DEF NewEnough, ListOf, Loaded
<1>12. Named(t)' /\ Held(t)' /\ SecondLock(t)' /\ NotStale(t)'
  BY <1>1, <1>8 DEF IInv, LocksKnown, Named, Held, SecondLock, NotStale, Asking, Holding, Fetching, Loaded
<1>13. ASSUME NEW u \in Task PROVE Serves(t, u)' /\ Serves(u, t)'
  <2>1. Serves(u, t)'
    BY <1>8 DEF Serves, Loaded
  <2>2. CASE u = t
    BY <2>1, <2>2
  <2>3. CASE u # t
    <3>1. task'[u] = task[u] /\ Sane(u) /\ task[u] \in TaskStates
      BY <1>2, <1>7, <2>3 DEF Others, IInv, Types
    <3>2. task[u].list.cred \in Nat /\ task[u].list.proxy \in Nat
      BY <3>1, CacheAssumption DEF TaskStates, Lists, Count
    <3>3. (\A w \in Task : task[w].pc # "epoch") \/ ProxyChanging
      BY DEF ProxyChanging
    <3>4. Serves(t, u)'
      BY <1>1, <1>8, <1>9, <3>1, <3>2, <3>3 DEF Serves, Sane, NotStale, Loaded
    <3> QED BY <2>1, <3>4
  <2> QED BY <2>2, <2>3
<1> QED
  <2>1. task'[t].pc \in Asking
    BY <1>8 DEF Asking
  <2> QED BY <1>1, <1>7, <1>11, <1>12, <1>13, <2>1, TaskStep DEF Sane

LEMMA FinishStep ==
  ASSUME IInv, NEW t \in Task, Finish(t), task[t].pc \in Asking,
         UNCHANGED <<live, version, proxy, cache, generation, epoch, lockOf>>,
         holder' \in [Locks -> Task \cup {None}],
         \A u \in Task : u # t /\ task[u].pc \in Holding
                           => holder'[task[u].lock] = holder[task[u].lock]
  PROVE  IInv'
<1>1. Types' /\ Others(t) /\ task'[t].pc = "idle"
  BY FinishMoves DEF IInv, Types
<1>2. Sane(t)' /\ \A u \in Task : Serves(t, u)' /\ Serves(u, t)'
  BY <1>1 DEF Sane, Named, Held, SecondLock, NotStale, NewEnough, Serves, Asking, Holding, Fetching, Loaded
<1> QED BY <1>1, <1>2, TaskStep

LEMMA ReturnStep ==
  ASSUME IInv, NEW t \in Task, Return(t)
  PROVE  IInv'
<1>1. /\ Finish(t) /\ task[t].pc \in Asking
      /\ UNCHANGED <<live, version, proxy, cache, generation, epoch, lockOf, holder>>
  BY DEF Return, At, Asking
<1> QED BY <1>1, FinishStep DEF IInv, Types

\* two holders of locks hold different ones
LEMMA LocksDiffer ==
  ASSUME IInv, NEW t \in Task, NEW u \in Task, u # t,
         task[t].pc \in Holding, task[u].pc \in Holding
  PROVE  task[u].lock # task[t].lock /\ task[t].lock \in Locks
<1>1. Sane(t) /\ Sane(u)
  BY DEF IInv
<1>2. holder[task[t].lock] = t /\ holder[task[u].lock] = u
  BY <1>1 DEF Sane, Held
<1> QED BY <1>1, <1>2 DEF Sane, Named, Asking, Locks

LEMMA Released ==
  ASSUME IInv, NEW t \in Task, task[t].pc \in Holding, Release(t)
  PROVE  /\ holder' \in [Locks -> Task \cup {None}]
         /\ \A u \in Task : u # t /\ task[u].pc \in Holding
                             => holder'[task[u].lock] = holder[task[u].lock]
<1>1. holder' \in [Locks -> Task \cup {None}]
  BY DEF Release, IInv, Types
<1>2. ASSUME NEW u \in Task, u # t, task[u].pc \in Holding
      PROVE  holder'[task[u].lock] = holder[task[u].lock]
  <2>1. task[u].lock \in Locks /\ task[u].lock # task[t].lock
    BY <1>2, LocksDiffer
  <2> QED BY <2>1 DEF Release, IInv, Types
<1> QED BY <1>1, <1>2

\* what the steps of a lookup need to know of the task and of what it looks at
LEMMA TaskFacts ==
  ASSUME IInv, NEW t \in Task
  PROVE  /\ Types /\ Sane(t) /\ task[t] \in TaskStates
         /\ task[t].list.cred \in Nat /\ task[t].list.proxy \in Nat
         /\ task[t].floor.cred \in Nat /\ task[t].floor.proxy \in Nat
         /\ task[t].generation \in Nat /\ task[t].epoch \in Nat /\ epoch \in Nat /\ proxy \in Nat
         /\ \A c \in Cred : version[c] \in Nat /\ generation[c] \in Nat
         /\ task[t].pc \in Asking => task[t].cred \in Cred
<1>1. Types /\ Sane(t) /\ task[t] \in TaskStates
  BY DEF IInv, Types
<1>2. task[t].list \in Lists /\ task[t].floor \in Lists
  BY <1>1 DEF TaskStates
<1>3. Count \subseteq Nat
  BY CacheAssumption DEF Count
<1>4. /\ task[t].list.cred \in Nat /\ task[t].list.proxy \in Nat
      /\ task[t].floor.cred \in Nat /\ task[t].floor.proxy \in Nat
  BY <1>2, <1>3 DEF Lists
<1>5. task[t].generation \in Nat /\ task[t].epoch \in Nat
  BY <1>1 DEF TaskStates
<1>6. proxy \in Nat /\ epoch \in Nat /\ \A c \in Cred : version[c] \in Nat /\ generation[c] \in Nat
  BY <1>1, <1>3 DEF Types
<1> QED BY <1>1, <1>4, <1>5, <1>6 DEF Sane, Named

\* a task ends its lookup with a list taken from the cache
LEMMA AnswerFromCache ==
  ASSUME IInv, NEW t \in Task, task[t].pc \in {"lock", "fallback"}, cache[task[t].cred] # None,
         task' = [task EXCEPT ![t].pc = "done", ![t].list = ListOf(cache[task[t].cred])],
         UNCHANGED <<live, version, proxy, cache, generation, epoch, lockOf, holder>>
  PROVE  IInv'
<1> DEFINE c == task[t].cred
<1>1. Types /\ Sane(t) /\ task[t] \in TaskStates /\ c \in Cred
  BY TaskFacts DEF Asking
<1>2. ListOf(cache[c]) \in Lists
  BY <1>1 DEF Types, Cached, ListOf, Lists
<1> DEFINE y == Answered(task[t], ListOf(cache[c]))
<1>3. task' = [task EXCEPT ![t] = y]
  BY <1>1 DEF Types, Answered
<1>4. /\ y \in TaskStates /\ y.pc = "done" /\ y.cred = c /\ y.lock = task[t].lock
      /\ y.list = ListOf(cache[c]) /\ y.floor = task[t].floor
  BY <1>1, <1>2, AnsweredTask
<1> HIDE DEF y
<1>5. task' \in [Task -> TaskStates] /\ Others(t) /\ task'[t] = y /\ Types'
  <2>1. task' \in [Task -> TaskStates] /\ Others(t) /\ task'[t] = y
    BY <1>1, <1>3, <1>4, OneMoves
  <2> QED BY <1>1, <2>1 DEF Types
<1>6. Sane(t)'
  <2>1. /\ task'[t].list.cred = cache[c].cred /\ task'[t].list.proxy = cache[c].proxy
    BY <1>4, <1>5 DEF ListOf
  <2>2. task[t].pc \in Asking /\ "done" \notin Holding \cup Loaded /\ "done" \in Asking
    BY DEF Asking, Holding, Fetching, Loaded
  <2> QED BY <1>1, <1>4, <1>5, <2>1, <2>2 DEF Sane, Named, Held, SecondLock, NotStale, NewEnough
<1>7. ASSUME NEW u \in Task PROVE Serves(t, u)' /\ Serves(u, t)'
  <2>1. Serves(u, t)'
    BY <1>4, <1>5 DEF Serves, Loaded
  <2>2. CASE u # t
    <3>1. task'[u] = task[u] /\ Serves(t, u)
      BY <1>5, <2>2 DEF Others, IInv
    <3> QED BY <1>4, <1>5, <2>1, <3>1 DEF Serves, Asking
  <2> QED BY <2>1, <2>2
<1> QED
  <2>1. task[t].pc \in Asking /\ task'[t].pc \in Asking
    BY <1>4, <1>5 DEF Asking
  <2> QED BY <1>5, <1>6, <1>7, <2>1, TaskStep

\* a task that holds nothing it read goes on, still asking
LEMMA AskingOn ==
  ASSUME IInv, NEW t \in Task, NEW pc \in Asking \ (Loaded \cup {"done"}), Goto(t, pc),
         task[t].pc \in Asking, task[t].pc \in Holding \/ pc \notin Holding,
         UNCHANGED <<live, version, proxy, cache, generation, epoch, lockOf>>,
         holder' \in [Locks -> Task \cup {None}],
         pc \in Holding => holder' = holder,
         \A u \in Task : u # t /\ task[u].pc \in Holding
                           => holder'[task[u].lock] = holder[task[u].lock]
  PROVE  IInv'
<1>1. Types /\ Sane(t)
  BY TaskFacts
<1>2. pc \in Steps
  BY DEF Asking, Holding, Fetching, Steps
<1>3. /\ task' \in [Task -> TaskStates] /\ Others(t) /\ task'[t].pc = pc
      /\ task'[t].cred = task[t].cred /\ task'[t].lock = task[t].lock
      /\ task'[t].generation = task[t].generation /\ task'[t].epoch = task[t].epoch
      /\ task'[t].floor = task[t].floor
  BY <1>1, <1>2, GotoMoves
<1>4. Types'
  BY <1>1, <1>3 DEF Types
<1>5. Sane(t)'
  <2>1. "remove" \notin Asking
    BY DEF Asking, Holding, Fetching
  <2> QED BY <1>1, <1>3, <2>1 DEF Sane, Named, Held, SecondLock, NotStale, NewEnough, Loaded
<1>6. ASSUME NEW u \in Task PROVE Serves(t, u)' /\ Serves(u, t)'
  <2>1. Serves(u, t)'
    BY <1>3 DEF Serves, Loaded
  <2>2. CASE u # t
    <3>1. task'[u] = task[u] /\ Serves(t, u)
      BY <1>3, <2>2 DEF Others, IInv
    <3> QED BY <1>3, <2>1, <3>1 DEF Serves
  <2> QED BY <2>1, <2>2
<1> QED BY <1>3, <1>4, <1>5, <1>6, TaskStep

LEMMA TakePermitStep ==
  ASSUME IInv, NEW t \in Task, TakePermit(t)
  PROVE  IInv'
<1>1. /\ Goto(t, "prepare") /\ task[t].pc = "permit"
      /\ UNCHANGED <<live, version, proxy, cache, generation, epoch, lockOf, holder>>
  BY DEF TakePermit, At
<1>2. "prepare" \in Asking \ (Loaded \cup {"done"}) /\ "permit" \in Asking \cap Holding
  BY DEF Asking, Holding, Fetching, Loaded
<1> QED BY <1>1, <1>2, AskingOn DEF IInv, Types

LEMMA FailStep ==
  ASSUME IInv, NEW t \in Task, Fail(t)
  PROVE  IInv'
<1>1. /\ task[t].pc \in Asking \cap Holding /\ Release(t)
      /\ UNCHANGED <<live, version, proxy, cache, generation, epoch, lockOf>>
  BY DEF Fail, Asking, Holding
<1>2. /\ holder' \in [Locks -> Task \cup {None}]
      /\ \A u \in Task : u # t /\ task[u].pc \in Holding
                          => holder'[task[u].lock] = holder[task[u].lock]
  BY <1>1, Released
<1>3. CASE Goto(t, "fallback")
  <2>1. "fallback" \in Asking \ (Loaded \cup {"done"}) /\ "fallback" \notin Holding
    BY DEF Asking, Holding, Fetching, Loaded
  <2> QED BY <1>1, <1>2, <1>3, <2>1, AskingOn
<1>4. CASE Finish(t)
  BY <1>1, <1>2, <1>4, FinishStep
<1> QED BY <1>3, <1>4 DEF Fail

LEMMA FallbackStep ==
  ASSUME IInv, NEW t \in Task, Fallback(t)
  PROVE  IInv'
<1>1. /\ task[t].pc = "fallback"
      /\ UNCHANGED <<live, version, proxy, cache, generation, epoch, lockOf, holder>>
  BY DEF Fallback, At
<1>2. CASE cache[task[t].cred] = None
  <2>1. Finish(t)
    BY <1>2 DEF Fallback
  <2> QED BY <1>1, <2>1, FinishStep DEF Asking, IInv, Types
<1>3. CASE cache[task[t].cred] # None
  <2>1. task' = [task EXCEPT ![t].pc = "done", ![t].list = ListOf(cache[task[t].cred])]
    BY <1>3 DEF Fallback
  <2> QED BY <1>1, <1>3, <2>1, AnswerFromCache
<1> QED BY <1>2, <1>3

LEMMA TakeLockStep ==
  ASSUME IInv, NEW t \in Task, TakeLock(t)
  PROVE  IInv'
<1> DEFINE c == task[t].cred
           y == Acquired(task[t], epoch, generation[c])
<1>1. /\ task[t].pc = "lock" /\ holder[task[t].lock] = None
      /\ UNCHANGED <<live, version, proxy, cache, generation, epoch, lockOf>>
  BY DEF TakeLock, At
<1>2. Types /\ Sane(t) /\ task[t] \in TaskStates /\ c \in Cred /\ epoch \in Nat /\ generation[c] \in Nat
  BY <1>1, TaskFacts DEF Asking
<1>3. CASE Suffices(t)
  <2>1. /\ task' = [task EXCEPT ![t].pc = "done", ![t].list = ListOf(cache[c])]
        /\ UNCHANGED holder /\ cache[c] # None
    BY <1>3 DEF TakeLock, Suffices
  <2> QED BY <1>1, <2>1, AnswerFromCache
<1>4. CASE ~Suffices(t)
  <2>1. task' = [task EXCEPT ![t] = y] /\ holder' = [holder EXCEPT ![task[t].lock] = t]
    BY <1>2, <1>4 DEF TakeLock, Acquired, Types
  <2>2. /\ y \in TaskStates /\ y.pc = "permit" /\ y.cred = c /\ y.lock = task[t].lock
        /\ y.generation = generation[c] /\ y.epoch = epoch /\ y.floor = task[t].floor
    BY <1>2, AcquiredTask
  <2> HIDE DEF y
  <2>3. task' \in [Task -> TaskStates] /\ Others(t) /\ task'[t] = y
    BY <1>2, <2>1, <2>2, OneMoves
  <2>4. task[t].lock \in Locks
    BY <1>1, <1>2 DEF Sane, Named, Asking, Locks
  <2>5. Types' /\ holder'[task[t].lock] = t
    BY <1>1, <1>2, <2>1, <2>3, <2>4 DEF Types
  <2>6. task[t].pc \in Asking /\ "permit" \in Asking \cap Holding /\ "permit" \notin Loaded
    BY <1>1 DEF Asking, Holding, Fetching, Loaded
  <2>7. ASSUME NEW u \in Task, u # t, task[u].pc \in Holding
        PROVE  holder'[task[u].lock] = holder[task[u].lock]
    <3>1. Sane(u) /\ u # None
      BY CacheAssumption DEF IInv
    <3>2. holder[task[u].lock] = u
      BY <2>7, <3>1 DEF Sane, Held
    <3>3. task[u].lock \in Locks
      BY <2>7, <3>1 DEF Sane, Named, Asking, Locks
    <3> QED BY <1>1, <1>2, <2>1, <3>1, <3>2, <3>3 DEF Types
  <2>8. Sane(t)'
    <3>1. Named(t)' /\ SecondLock(t)' /\ NotStale(t)' /\ NewEnough(t)'
      BY <1>1, <1>2, <2>2, <2>3, <2>6 DEF Sane, Named, SecondLock, NotStale, NewEnough
    <3>2. Held(t)'
      BY <1>1, <1>2, <2>2, <2>3, <2>5 DEF Held
    <3> QED BY <3>1, <3>2 DEF Sane
  <2>9. ASSUME NEW u \in Task PROVE Serves(t, u)' /\ Serves(u, t)'
    <3>1. Serves(u, t)'
      BY <2>2, <2>3, <2>6 DEF Serves, Loaded
    <3>2. CASE u # t
      <4>1. task'[u] = task[u] /\ Serves(t, u)
        BY <2>3, <3>2 DEF Others, IInv
      <4> QED BY <1>1, <2>2, <2>3, <2>6, <3>1, <4>1 DEF Serves
    <3> QED BY <3>1, <3>2
  <2> QED BY <1>1, <2>2, <2>3, <2>5, <2>6, <2>7, <2>8, <2>9, TaskStep
<1> QED BY <1>3, <1>4

\* a fetch goes on, with its lock, to a step from which its answer may be cached
LEMMA LoadedOn ==
  ASSUME IInv, NEW t \in Task, NEW y \in TaskStates, task' = [task EXCEPT ![t] = y],
         task[t].pc \in Fetching, y.pc \in Loaded, y.cred = task[t].cred, y.lock = task[t].lock,
         y.generation = task[t].generation, y.epoch = task[t].epoch, y.floor = task[t].floor,
         y.lock = <<y.cred, 0>>,
         UNCHANGED <<live, version, proxy, cache, generation, epoch, lockOf, holder>>,
         NotStale(t)', NewEnough(t)',
         \A u \in Task : u # t => Serves(u, t)'
  PROVE  IInv'
<1>1. Types /\ Sane(t)
  BY TaskFacts
<1>2. task' \in [Task -> TaskStates] /\ Others(t) /\ task'[t] = y
  BY <1>1, OneMoves
<1>3. Types'
  BY <1>1, <1>2 DEF Types
<1>4. task[t].pc \in Asking \cap Holding /\ y.pc \in Asking \cap Holding
  BY DEF Asking, Holding, Fetching, Loaded
<1>5. Sane(t)'
  <2>1. "remove" \notin Asking
    BY DEF Asking, Holding, Fetching
  <2> QED BY <1>1, <1>2, <1>4, <2>1 DEF Sane, Named, Held, SecondLock
<1>6. Serves(t, t)'
  BY <1>2, <1>4, <1>5 DEF Serves, Sane, NewEnough, Loaded
<1>7. ASSUME NEW u \in Task, u # t PROVE Serves(t, u)'
  <2>1. task'[u] = task[u] /\ Serves(t, u)
    BY <1>2, <1>7 DEF Others, IInv
  <2> QED BY <1>2, <1>4, <2>1 DEF Serves
<1> QED BY <1>2, <1>3, <1>4, <1>5, <1>6, <1>7, TaskStep

LEMMA PrepareStep ==
  ASSUME IInv, NEW t \in Task, Prepare(t)
  PROVE  IInv'
<1> DEFINE c == task[t].cred
           y == Prepared(task[t], version[c])
<1>1. /\ task[t].pc = "prepare" /\ c \in live
      /\ UNCHANGED <<live, version, proxy, cache, generation, epoch, lockOf, holder>>
  BY DEF Prepare, At
<1>2. Types /\ Sane(t) /\ task[t] \in TaskStates /\ c \in Cred
  BY <1>1, TaskFacts DEF Asking, Holding, Fetching
<1>3. version[c] \in Count /\ task' = [task EXCEPT ![t] = y]
  BY <1>2 DEF Prepare, Prepared, Types
<1>4. /\ y \in TaskStates /\ y.pc = "proxy" /\ y.cred = c /\ y.lock = task[t].lock
      /\ y.generation = task[t].generation /\ y.epoch = task[t].epoch
      /\ y.floor = task[t].floor /\ y.list.cred = version[c]
  BY <1>2, <1>3, PreparedTask
<1> HIDE DEF y
<1>5. task' \in [Task -> TaskStates] /\ Others(t) /\ task'[t] = y
  BY <1>2, <1>3, <1>4, OneMoves
<1>6. task[t].pc \in Asking /\ y.lock = <<y.cred, 0>>
  BY <1>1, <1>2, <1>4 DEF Sane, Named, SecondLock, Asking, Holding, Fetching
<1>7. NotStale(t)'
  BY <1>1, <1>4, <1>5 DEF NotStale
<1>8. NewEnough(t)'
  BY <1>1, <1>2, <1>4, <1>5, <1>6, TaskFacts DEF Sane, NewEnough
<1>9. ASSUME NEW u \in Task, u # t PROVE Serves(u, t)'
  <2>1. task'[u] = task[u] /\ Sane(u)
    BY <1>5, <1>9 DEF Others, IInv
  <2>2. task[u].pc \in Asking => task[u].floor.cred <= version[task[u].cred]
    BY <2>1 DEF Sane, NewEnough
  <2>3. task[u].floor.cred \in Nat /\ version[c] \in Nat
    BY <1>2, TaskFacts
  <2> QED BY <1>1, <1>4, <1>5, <2>1, <2>2, <2>3 DEF Serves
<1> QED BY <1>1, <1>3, <1>4, <1>6, <1>7, <1>8, <1>9, LoadedOn DEF Fetching, Loaded

LEMMA ReadProxyStep ==
  ASSUME IInv, NEW t \in Task, ReadProxy(t)
  PROVE  IInv'
<1> DEFINE c == task[t].cred
           y == Sent(task[t], proxy)
<1>1. /\ task[t].pc = "proxy"
      /\ UNCHANGED <<live, version, proxy, cache, generation, epoch, lockOf, holder>>
  BY DEF ReadProxy, At
<1>2. Types /\ Sane(t) /\ task[t] \in TaskStates /\ c \in Cred
  BY <1>1, TaskFacts DEF Asking, Holding, Fetching
<1>3. proxy \in Count /\ task' = [task EXCEPT ![t] = y]
  BY <1>2 DEF ReadProxy, Sent, Types
<1>4. /\ y \in TaskStates /\ y.pc = "sent" /\ y.cred = c /\ y.lock = task[t].lock
      /\ y.generation = task[t].generation /\ y.epoch = task[t].epoch
      /\ y.floor = task[t].floor /\ y.list.cred = task[t].list.cred /\ y.list.proxy = proxy
  BY <1>2, <1>3, SentTask
<1> HIDE DEF y
<1>5. task' \in [Task -> TaskStates] /\ Others(t) /\ task'[t] = y
  BY <1>2, <1>3, <1>4, OneMoves
<1>6. task[t].pc \in Asking \cap Loaded /\ y.pc \in Loaded /\ y.lock = <<y.cred, 0>>
  BY <1>1, <1>2, <1>4 DEF Sane, SecondLock, Asking, Holding, Fetching, Loaded
<1>7. NotStale(t)'
  <2>1. Changing(c)' <=> Changing(c)
    BY <1>1, <1>4, <1>5 DEF Changing, Others
  <2> QED BY <1>1, <1>2, <1>4, <1>5, <1>6, <2>1 DEF Sane, NotStale
<1>8. NewEnough(t)'
  BY <1>1, <1>2, <1>4, <1>5, <1>6, TaskFacts DEF Sane, NewEnough
<1>9. ASSUME NEW u \in Task, u # t PROVE Serves(u, t)'
  <2>1. task'[u] = task[u] /\ Sane(u) /\ Serves(u, t)
    BY <1>5, <1>9 DEF Others, IInv
  <2>2. task[u].pc \in Asking => task[u].floor.proxy <= proxy
    BY <2>1 DEF Sane, NewEnough
  <2>3. task[u].floor.proxy \in Nat /\ proxy \in Nat
    BY TaskFacts
  <2> QED BY <1>1, <1>4, <1>5, <1>6, <2>1, <2>2, <2>3 DEF Serves
<1> QED BY <1>1, <1>3, <1>4, <1>6, <1>7, <1>8, <1>9, LoadedOn DEF Fetching

LEMMA ReplyStep ==
  ASSUME IInv, NEW t \in Task, Reply(t)
  PROVE  IInv'
<1> DEFINE c == task[t].cred
           new == [cred |-> task[t].list.cred, proxy |-> task[t].list.proxy, fresh |-> TRUE]
           told(u) == task[u].cred = c /\ At(u, "lock") /\ NotOvertaken(t)
           state(u) == IF u = t THEN Replied(task[u])
                       ELSE IF told(u) THEN Renewed(task[u]) ELSE task[u]
<1>1. /\ task[t].pc = "sent" /\ Release(t) /\ task' = [u \in Task |-> state(u)]
      /\ cache' = IF NotOvertaken(t) THEN [cache EXCEPT ![c] = new] ELSE cache
      /\ UNCHANGED <<live, version, proxy, generation, epoch, lockOf>>
  BY DEF Reply, At, Replied, Renewed
<1>2. Types /\ Sane(t) /\ task[t] \in TaskStates /\ c \in Cred
  BY <1>1, TaskFacts DEF Asking, Holding, Fetching
<1>3. task[t].pc \in Asking \cap Holding \cap Loaded
  BY <1>1 DEF Asking, Holding, Fetching, Loaded
<1>4. /\ holder' \in [Locks -> Task \cup {None}]
      /\ \A u \in Task : u # t /\ task[u].pc \in Holding
                          => holder'[task[u].lock] = holder[task[u].lock]
  BY <1>1, <1>3, Released
<1>5. new \in Cached /\ new.cred = task[t].list.cred /\ new.proxy = task[t].list.proxy
  <2>1. task[t].list.cred \in Count /\ task[t].list.proxy \in Count
    BY <1>2 DEF TaskStates, Lists
  <2>2. TRUE \in BOOLEAN
    OBVIOUS
  <2>3. new \in Cached
    BY Zenon, <2>1, <2>2 DEF Cached
  <2> QED BY <2>3
<1> HIDE DEF new
<1>6. ASSUME NEW u \in Task
      PROVE  /\ task'[u] \in TaskStates /\ task'[u].pc = IF u = t THEN "done" ELSE task[u].pc
             /\ task'[u].cred = task[u].cred /\ task'[u].lock = task[u].lock
             /\ task'[u].generation = task[u].generation /\ task'[u].epoch = task[u].epoch
             /\ task'[u].list = task[u].list /\ task'[u].floor = task[u].floor
  <2> HIDE DEF told
  <2>1. task'[u] = state(u) /\ task[u] \in TaskStates
    BY <1>1, <1>2 DEF Types
  <2>2. CASE u = t
    BY <2>1, <2>2, RepliedTask
  <2>3. CASE u # t /\ told(u)
    BY <2>1, <2>3, RenewedTask
  <2>4. CASE u # t /\ ~told(u)
    BY <2>1, <2>4
  <2> QED BY <2>2, <2>3, <2>4
<1>7. Types'
  <2>1. task' \in [Task -> TaskStates]
    <3> HIDE DEF state
    <3> QED BY <1>1, <1>6
  <2>2. cache' \in [Cred -> Cached \cup {None}]
    BY <1>1, <1>2, <1>5 DEF Types
  <2> QED BY <1>1, <1>2, <1>4, <2>1, <2>2 DEF Types
<1>8. /\ \A d \in Cred : Changing(d)' <=> Changing(d)
      /\ ProxyChanging' <=> ProxyChanging
      /\ (\A u \in Task : task'[u].pc # "epoch") <=> (\A u \in Task : task[u].pc # "epoch")
  BY <1>1, <1>6 DEF Changing, ProxyChanging
<1>9. ASSUME NEW d \in Cred, cache'[d] # cache[d]
      PROVE  d = c /\ cache'[d] = new /\ NotOvertaken(t)
  BY <1>1, <1>2, <1>9 DEF Types
<1>10. CacheIsCurrent'
  <2>1. NotOvertaken(t) => /\ c \in live \/ Changing(c)
                           /\ new.cred = version[c] \/ Changing(c)
                           /\ new.proxy = proxy \/ ProxyChanging
    BY <1>1, <1>2, <1>3, <1>5 DEF NotOvertaken, Sane, NotStale, ProxyChanging
  <2>2. \A d \in Cred : cache[d] # None => /\ d \in live \/ Changing(d)
                                           /\ cache[d].cred = version[d] \/ Changing(d)
                                           /\ cache[d].proxy = proxy \/ ProxyChanging
    BY DEF IInv, CacheIsCurrent
  <2>3. \A d \in Cred : cache'[d] # None => /\ d \in live \/ Changing(d)
                                            /\ cache'[d].cred = version[d] \/ Changing(d)
                                            /\ cache'[d].proxy = proxy \/ ProxyChanging
    BY <1>9, <2>1, <2>2
  <2> QED BY <1>1, <1>8, <2>3 DEF CacheIsCurrent
<1>11. ASSUME NEW u \in Task PROVE Sane(u)'
  <2>1. Sane(u) /\ Serves(u, t)
    BY DEF IInv
  <2>2. Named(u)' /\ SecondLock(u)' /\ NotStale(u)'
    BY <1>1, <1>3, <1>6, <1>8, <2>1 DEF Sane, Named, SecondLock, NotStale, Loaded, Asking, Holding, Fetching
  <2>3. Held(u)'
    BY <1>1, <1>4, <1>6, <2>1 DEF Sane, Held, Holding, Fetching
  <2>4. NewEnough(u)'
    <3>1. task'[u].pc \in Asking => task[u].pc \in Asking
      BY <1>3, <1>6
    <3>2. task'[u].pc \in Loaded \cup {"done"} => task[u].pc \in Loaded \cup {"done"}
      BY <1>3, <1>6
    <3>3. task'[u].pc \in {"sent", "done"} => task[u].pc \in {"sent", "done"}
      BY <1>1, <1>6
    <3>4. task[u].pc \in Asking => task[u].cred \in Cred
      BY <2>1 DEF Sane, Named
    <3>5. task[u].pc \in Asking /\ task[u].cred = c /\ NotOvertaken(t)
            => new.cred >= task[u].floor.cred /\ new.proxy >= task[u].floor.proxy
      BY <1>1, <1>3, <1>5, <2>1 DEF Serves, NotOvertaken
    <3>6. task[u].pc \in Asking /\ cache'[task[u].cred] # None
            => /\ cache'[task[u].cred].cred >= task[u].floor.cred
               /\ cache'[task[u].cred].proxy >= task[u].floor.proxy
      BY <1>9, <2>1, <3>4, <3>5 DEF Sane, NewEnough
    <3> QED BY <1>1, <1>6, <2>1, <3>1, <3>2, <3>3, <3>6 DEF Sane, NewEnough
  <2> QED BY <2>2, <2>3, <2>4 DEF Sane
<1>12. ASSUME NEW u \in Task, NEW w \in Task PROVE Serves(u, w)'
  <2>1. Serves(u, w)
    BY DEF IInv
  <2> QED BY <1>1, <1>3, <1>6, <2>1 DEF Serves, Loaded, Asking
<1>13. LocksKnown'
  BY <1>1 DEF IInv, LocksKnown
<1> QED BY <1>7, <1>10, <1>11, <1>12, <1>13 DEF IInv

-----------------------------------------------------------------------------
(* Changes and invalidations. *)

\* A step of a task that does not ask, by which credentials disappear and lists with
\* them and everything else only grows, keeps what concerns the tasks that do ask, but
\* for what makes a fetch stale.
LEMMA ChangesStep ==
  ASSUME IInv, NEW t \in Task, Others(t), Types', UNCHANGED holder,
         task[t].pc \notin Asking, task'[t].pc \notin Asking,
         task'[t].pc \in {"invalidate", "remove"} => task'[t].cred \in Cred,
         task'[t].pc = "remove" => task'[t].cred \notin live',
         live' \subseteq live, proxy' >= proxy, epoch' >= epoch,
         \A c \in Cred : /\ version'[c] >= version[c] /\ generation'[c] >= generation[c]
                         /\ cache'[c] \in {None, cache[c]},
         LocksKnown', CacheIsCurrent',
         \A u \in Task : u # t => NotStale(u)'
  PROVE  IInv'
<1>1. ASSUME NEW u \in Task PROVE Sane(u)'
  <2>1. CASE u = t
    BY <2>1 DEF Sane, Named, Held, SecondLock, NotStale, NewEnough, Asking, Holding, Fetching, Loaded
  <2>2. CASE u # t
    <3>1. task'[u] = task[u] /\ Sane(u)
      BY <2>2 DEF Others, IInv
    <3>2. Named(u)' /\ SecondLock(u)'
      BY <3>1 DEF Sane, Named, SecondLock
    <3>3. Held(u)'
      <4>1. task[u].pc \in Holding => task[u].cred \in Cred
        BY <3>1 DEF Sane, Named, Asking
      <4>2. /\ task[u].generation \in Nat /\ task[u].epoch \in Nat /\ epoch \in Nat /\ epoch' \in Nat
            /\ \A c \in Cred : generation[c] \in Nat /\ generation'[c] \in Nat
        BY TaskFacts DEF Types
      <4> QED BY <3>1, <4>1, <4>2 DEF Sane, Held
    <3>4. NewEnough(u)'
      <4>1. task[u].pc \in Asking => task[u].cred \in Cred
        BY <3>1 DEF Sane, Named
      <4>2. /\ task[u].floor.cred \in Nat /\ task[u].floor.proxy \in Nat
            /\ proxy \in Nat /\ proxy' \in Nat
            /\ \A c \in Cred : version[c] \in Nat /\ version'[c] \in Nat
        BY TaskFacts, CacheAssumption DEF Types, Count
      <4> QED BY <3>1, <4>1, <4>2 DEF Sane, NewEnough
    <3> QED BY <2>2, <3>2, <3>3, <3>4 DEF Sane
  <2> QED BY <2>1, <2>2
<1>2. ASSUME NEW u \in Task, NEW w \in Task PROVE Serves(u, w)'
  <2>1. CASE u = t \/ w = t
    BY <2>1 DEF Serves, Asking, Holding, Fetching, Loaded
  <2>2. CASE u # t /\ w # t
    <3>1. task'[u] = task[u] /\ task'[w] = task[w] /\ Serves(u, w) /\ Sane(u) /\ Sane(w)
      BY <2>2 DEF Others, IInv
    <3>2. task[w].pc \in Loaded => task[w].pc \in Holding /\ task[w].pc \in Asking
      BY DEF Loaded, Holding, Asking, Fetching
    <3>3. task[w].pc \in Loaded => /\ task[w].cred \in Cred /\ task[w].epoch <= epoch
                                   /\ task[w].generation <= generation[task[w].cred]
      BY <3>1, <3>2 DEF Sane, Named, Held
    <3>4. /\ task[w].generation \in Nat /\ task[w].epoch \in Nat /\ epoch \in Nat /\ epoch' \in Nat
          /\ \A c \in Cred : generation[c] \in Nat /\ generation'[c] \in Nat
      BY TaskFacts DEF Types
    <3>5. task[w].pc \in Loaded /\ task[w].generation = generation'[task[w].cred]
            => task[w].generation = generation[task[w].cred]
      BY <3>3, <3>4
    <3>6. task[w].pc \in Loaded /\ task[w].epoch = epoch' => task[w].epoch = epoch
      BY <3>3, <3>4
    <3>7. task[w].pc = "sent" => task[w].pc \in Loaded
      BY DEF Loaded
    <3> QED BY <3>1, <3>5, <3>6, <3>7 DEF Serves
  <2> QED BY <2>1, <2>2
<1> QED BY <1>1, <1>2 DEF IInv

\* a task that has read what it needs knows an earlier generation and epoch
LEMMA LoadedFacts ==
  ASSUME IInv, NEW t \in Task, task[t].pc \in Loaded
  PROVE  /\ task[t].cred \in Cred /\ task[t].generation <= generation[task[t].cred]
         /\ task[t].epoch <= epoch
<1>1. task[t].pc \in Asking \cap Holding
  BY DEF Asking, Holding, Fetching, Loaded
<1> QED BY <1>1, TaskFacts DEF Sane, Held

LEMMA ChangeStep ==
  ASSUME IInv, NEW t \in Task, NEW c \in Cred, Change(t, c)
  PROVE  IInv'
<1> DEFINE y == Changed(task[t], "invalidate", c)
<1>1. /\ task[t].pc = "idle" /\ c \in live /\ version[c] < MaxChanges
      /\ version' = [version EXCEPT ![c] = @ + 1]
      /\ UNCHANGED <<live, proxy, cache, generation, epoch, lockOf, holder>>
  BY DEF Change, At
<1>2. Types /\ task[t] \in TaskStates
  BY TaskFacts
<1>3. task' = [task EXCEPT ![t] = y]
  BY <1>2 DEF Change, Changed, Types
<1>4. y \in TaskStates /\ y.pc = "invalidate" /\ y.cred = c
  <2>1. "invalidate" \in Steps
    BY DEF Steps
  <2> QED BY <1>2, <2>1, ChangedTask
<1> HIDE DEF y
<1>5. task' \in [Task -> TaskStates] /\ Others(t) /\ task'[t] = y
  BY <1>2, <1>3, <1>4, OneMoves
<1>6. version' \in [Cred -> Count] /\ version[c] \in Nat /\ version'[c] = version[c] + 1
  BY <1>1, <1>2, CacheAssumption DEF Types, Count
<1>7. Types'
  BY <1>1, <1>2, <1>5, <1>6 DEF Types
<1>8. /\ \A d \in Cred : Changing(d)' <=> Changing(d) \/ d = c
      /\ ProxyChanging' <=> ProxyChanging
      /\ (\A u \in Task : task'[u].pc # "epoch") <=> (\A u \in Task : task[u].pc # "epoch")
  BY <1>1, <1>4, <1>5 DEF Changing, ProxyChanging, Others
<1>9. \A d \in Cred : d # c => version'[d] = version[d]
  BY <1>1, <1>2 DEF Types
<1>10. CacheIsCurrent'
  BY <1>1, <1>8, <1>9 DEF IInv, CacheIsCurrent
<1>11. ASSUME NEW u \in Task, u # t PROVE NotStale(u)'
  <2>1. task'[u] = task[u] /\ Sane(u)
    BY <1>5, <1>11 DEF Others, IInv
  <2>2. task[u].pc \in Loaded => task[u].cred \in Cred
    BY LoadedFacts
  <2> QED BY <1>1, <1>8, <1>9, <2>1, <2>2 DEF Sane, NotStale
<1>12. \A d \in Cred : version'[d] >= version[d] /\ generation'[d] >= generation[d]
  BY <1>1, <1>6, <1>9, TaskFacts
<1>13. epoch \in Nat /\ proxy \in Nat
  BY TaskFacts
<1>14. LocksKnown'
  BY <1>1 DEF IInv, LocksKnown
<1> QED BY <1>1, <1>4, <1>5, <1>7, <1>10, <1>11, <1>12, <1>13, <1>14, ChangesStep
          DEF Asking, Holding, Fetching

\* invalidate_model_cache and remove_model_cache leave the cache of the others alone
LEMMA Invalidated ==
  ASSUME IInv, NEW t \in Task, NEW c \in Cred, task[t].cred = c, Finish(t),
         task[t].pc \in {"invalidate", "remove"},
         generation' = [generation EXCEPT ![c] = @ + 1], cache' = [cache EXCEPT ![c] = None],
         lockOf' \in [Cred -> Locks], LocksKnown',
         UNCHANGED <<live, version, proxy, epoch, holder>>
  PROVE  IInv'
<1>1. Types
  BY TaskFacts
<1>2. task' \in [Task -> TaskStates] /\ Others(t) /\ task'[t].pc = "idle"
  BY <1>1, FinishMoves
<1>3. /\ generation' \in [Cred -> Nat] /\ cache' \in [Cred -> Cached \cup {None}]
      /\ generation[c] \in Nat /\ generation'[c] = generation[c] + 1 /\ cache'[c] = None
      /\ \A d \in Cred : d # c => generation'[d] = generation[d] /\ cache'[d] = cache[d]
  BY <1>1 DEF Types
<1>4. Types'
  BY <1>1, <1>2, <1>3 DEF Types
<1>5. /\ \A d \in Cred : d # c => (Changing(d)' <=> Changing(d))
      /\ ProxyChanging' <=> ProxyChanging
      /\ (\A u \in Task : task'[u].pc # "epoch") <=> (\A u \in Task : task[u].pc # "epoch")
  BY <1>2 DEF Changing, ProxyChanging, Others
<1>6. CacheIsCurrent'
  BY <1>3, <1>5 DEF IInv, CacheIsCurrent
<1>7. ASSUME NEW u \in Task, u # t PROVE NotStale(u)'
  <2>1. task'[u] = task[u] /\ Sane(u) /\ task[u].generation \in Nat
    BY <1>2, <1>7, TaskFacts DEF Others
  <2>2. task[u].pc \in Loaded => /\ task[u].cred \in Cred
                                 /\ task[u].generation <= generation[task[u].cred]
    BY LoadedFacts
  <2>3. task[u].pc \in Loaded /\ task[u].generation = generation'[task[u].cred]
          => task[u].cred # c /\ generation'[task[u].cred] = generation[task[u].cred]
    BY <1>3, <2>1, <2>2
  <2> QED BY <1>5, <2>1, <2>2, <2>3 DEF Sane, NotStale
<1>8. \A d \in Cred : /\ version[d] >= version[d] /\ generation'[d] >= generation[d]
                      /\ cache'[d] \in {None, cache[d]}
  BY <1>3, TaskFacts
<1>9. epoch \in Nat /\ proxy \in Nat
  BY TaskFacts
<1> QED BY <1>2, <1>4, <1>6, <1>7, <1>8, <1>9, ChangesStep DEF Asking, Holding, Fetching

LEMMA InvalidateStep ==
  ASSUME IInv, NEW t \in Task, Invalidate(t)
  PROVE  IInv'
<1>1. task[t].pc = "invalidate" /\ task[t].cred \in Cred
  BY TaskFacts DEF Invalidate, At, Sane, Named
<1>2. LocksKnown' /\ lockOf' \in [Cred -> Locks]
  BY DEF Invalidate, IInv, LocksKnown, Types
<1> QED BY <1>1, <1>2, Invalidated DEF Invalidate

LEMMA RemoveStep ==
  ASSUME IInv, NEW t \in Task, Remove(t)
  PROVE  IInv'
<1> DEFINE c == task[t].cred
<1>1. task[t].pc = "remove" /\ c \in Cred /\ c \notin live
  BY TaskFacts DEF Remove, At, Sane, Named, SecondLock
<1>2. lockOf' = [lockOf EXCEPT ![c] = <<c, 1>>] /\ UNCHANGED live
  BY DEF Remove
<1>3. lockOf' \in [Cred -> Locks] /\ LocksKnown'
  BY <1>1, <1>2 DEF IInv, LocksKnown, Types, Locks
<1> QED BY <1>1, <1>3, Invalidated DEF Remove

LEMMA DeleteStep ==
  ASSUME IInv, NEW t \in Task, NEW c \in Cred, Delete(t, c)
  PROVE  IInv'
<1> DEFINE y == Changed(task[t], "remove", c)
<1>1. /\ task[t].pc = "idle" /\ c \in live /\ live' = live \ {c}
      /\ UNCHANGED <<version, proxy, cache, generation, epoch, lockOf, holder>>
  BY DEF Delete, At
<1>2. Types /\ task[t] \in TaskStates
  BY TaskFacts
<1>3. task' = [task EXCEPT ![t] = y]
  BY <1>2 DEF Delete, Changed, Types
<1>4. y \in TaskStates /\ y.pc = "remove" /\ y.cred = c
  <2>1. "remove" \in Steps
    BY DEF Steps
  <2> QED BY <1>2, <2>1, ChangedTask
<1> HIDE DEF y
<1>5. task' \in [Task -> TaskStates] /\ Others(t) /\ task'[t] = y
  BY <1>2, <1>3, <1>4, OneMoves
<1>6. Types'
  BY <1>1, <1>2, <1>5 DEF Types
<1>7. /\ \A d \in Cred : Changing(d)' <=> Changing(d) \/ d = c
      /\ ProxyChanging' <=> ProxyChanging
      /\ (\A u \in Task : task'[u].pc # "epoch") <=> (\A u \in Task : task[u].pc # "epoch")
  BY <1>1, <1>4, <1>5 DEF Changing, ProxyChanging, Others
<1>8. CacheIsCurrent'
  BY <1>1, <1>7 DEF IInv, CacheIsCurrent
<1>9. ASSUME NEW u \in Task, u # t PROVE NotStale(u)'
  <2>1. task'[u] = task[u] /\ Sane(u)
    BY <1>5, <1>9 DEF Others, IInv
  <2>2. task[u].pc \in Loaded => task[u].cred \in Cred
    BY LoadedFacts
  <2> QED BY <1>1, <1>7, <2>1, <2>2 DEF Sane, NotStale
<1>10. \A d \in Cred : version[d] >= version[d] /\ generation[d] >= generation[d]
  BY TaskFacts
<1>11. epoch \in Nat /\ proxy \in Nat
  BY TaskFacts
<1>12. LocksKnown'
  BY <1>1 DEF IInv, LocksKnown
<1> QED BY <1>1, <1>4, <1>5, <1>6, <1>8, <1>9, <1>10, <1>11, <1>12, ChangesStep
          DEF Asking, Holding, Fetching

LEMMA SetGlobalProxyStep ==
  ASSUME IInv, NEW t \in Task, SetGlobalProxy(t)
  PROVE  IInv'
<1>1. /\ task[t].pc = "idle" /\ proxy < MaxChanges /\ proxy' = proxy + 1 /\ Goto(t, "epoch")
      /\ UNCHANGED <<live, version, cache, generation, epoch, lockOf, holder>>
  BY DEF SetGlobalProxy, At
<1>2. Types /\ proxy \in Nat /\ proxy' \in Count
  BY <1>1, TaskFacts, CacheAssumption DEF Count
<1>3. /\ task' \in [Task -> TaskStates] /\ Others(t) /\ task'[t].pc = "epoch"
  BY <1>1, <1>2, GotoMoves DEF Steps
<1>4. Types'
  BY <1>1, <1>2, <1>3 DEF Types
<1>5. ProxyChanging' /\ \A d \in Cred : Changing(d)' <=> Changing(d)
  BY <1>1, <1>3 DEF Changing, ProxyChanging, Others
<1>6. CacheIsCurrent' /\ LocksKnown'
  BY <1>1, <1>5 DEF IInv, CacheIsCurrent, LocksKnown
<1>7. ASSUME NEW u \in Task, u # t PROVE NotStale(u)'
  <2>1. task'[u] = task[u] /\ Sane(u)
    BY <1>3, <1>7 DEF Others, IInv
  <2>2. task[u].pc \in Loaded => task[u].cred \in Cred
    BY LoadedFacts
  <2> QED BY <1>1, <1>3, <1>5, <2>1, <2>2 DEF Sane, NotStale
<1>8. /\ epoch \in Nat
      /\ \A d \in Cred : version[d] >= version[d] /\ generation[d] >= generation[d]
  BY TaskFacts
<1> QED BY <1>1, <1>2, <1>3, <1>4, <1>6, <1>7, <1>8, ChangesStep DEF Asking, Holding, Fetching

LEMMA BumpEpochStep ==
  ASSUME IInv, NEW t \in Task, BumpEpoch(t)
  PROVE  IInv'
<1>1. /\ task[t].pc = "epoch" /\ epoch' = epoch + 1 /\ Goto(t, "clear")
      /\ UNCHANGED <<live, version, proxy, cache, generation, lockOf, holder>>
  BY DEF BumpEpoch, At
<1>2. Types /\ epoch \in Nat /\ epoch' \in Nat /\ proxy \in Nat
  BY <1>1, TaskFacts
<1>3. /\ task' \in [Task -> TaskStates] /\ Others(t) /\ task'[t].pc = "clear"
  BY <1>1, <1>2, GotoMoves DEF Steps
<1>4. Types'
  BY <1>1, <1>2, <1>3 DEF Types
<1>5. ProxyChanging' /\ \A d \in Cred : Changing(d)' <=> Changing(d)
  BY <1>1, <1>3 DEF Changing, ProxyChanging, Others
<1>6. CacheIsCurrent' /\ LocksKnown'
  BY <1>1, <1>5 DEF IInv, CacheIsCurrent, LocksKnown
<1>7. ASSUME NEW u \in Task, u # t PROVE NotStale(u)'
  <2>1. task'[u] = task[u] /\ Sane(u) /\ task[u].epoch \in Nat
    BY <1>3, <1>7, TaskFacts DEF Others
  <2>2. task[u].pc \in Loaded => task[u].cred \in Cred /\ task[u].epoch <= epoch
    BY LoadedFacts
  <2>3. task[u].pc = "sent" => task[u].epoch # epoch'
    BY <1>1, <1>2, <2>1, <2>2 DEF Loaded
  <2> QED BY <1>1, <1>5, <2>1, <2>2, <2>3 DEF Sane, NotStale
<1>8. \A d \in Cred : version[d] >= version[d] /\ generation[d] >= generation[d]
  BY TaskFacts
<1> QED BY <1>1, <1>2, <1>3, <1>4, <1>6, <1>7, <1>8, ChangesStep DEF Asking, Holding, Fetching

LEMMA ClearCacheStep ==
  ASSUME IInv, NEW t \in Task, ClearCache(t)
  PROVE  IInv'
<1>1. /\ task[t].pc = "clear" /\ cache' = [c \in Cred |-> None] /\ Finish(t)
      /\ UNCHANGED <<live, version, proxy, generation, epoch, lockOf, holder>>
  BY DEF ClearCache, At
<1>2. Types /\ epoch \in Nat /\ proxy \in Nat
  BY TaskFacts
<1>3. /\ task' \in [Task -> TaskStates] /\ Others(t) /\ task'[t].pc = "idle"
  BY <1>1, <1>2, FinishMoves
<1>4. Types'
  BY <1>1, <1>2, <1>3 DEF Types
<1>5. /\ \A d \in Cred : Changing(d)' <=> Changing(d)
      /\ (\A u \in Task : task'[u].pc # "epoch") <=> (\A u \in Task : task[u].pc # "epoch")
  BY <1>1, <1>3 DEF Changing, Others
<1>6. CacheIsCurrent' /\ LocksKnown'
  BY <1>1 DEF IInv, CacheIsCurrent, LocksKnown
<1>7. ASSUME NEW u \in Task, u # t PROVE NotStale(u)'
  <2>1. task'[u] = task[u] /\ Sane(u)
    BY <1>3, <1>7 DEF Others, IInv
  <2>2. task[u].pc \in Loaded => task[u].cred \in Cred
    BY LoadedFacts
  <2> QED BY <1>1, <1>5, <2>1, <2>2 DEF Sane, NotStale
<1>8. \A d \in Cred : /\ version[d] >= version[d] /\ generation[d] >= generation[d]
                      /\ cache'[d] \in {None, cache[d]}
  BY <1>1, TaskFacts
<1> QED BY <1>1, <1>2, <1>3, <1>4, <1>6, <1>7, <1>8, ChangesStep DEF Asking, Holding, Fetching

LEMMA ExpireStep ==
  ASSUME IInv, NEW c \in Cred, Expire(c)
  PROVE  IInv'
<1> DEFINE old == [cache[c] EXCEPT !.fresh = FALSE]
<1>1. /\ cache[c] # None
      /\ UNCHANGED <<live, version, proxy, generation, epoch, lockOf, holder, task>>
  BY DEF Expire
<1>2. cache[c] \in Cached /\ Types
  BY <1>1 DEF IInv, Types
<1>3. old \in Cached
  BY Zenon, <1>2 DEF Cached
<1>4. old.cred = cache[c].cred /\ old.proxy = cache[c].proxy
  BY <1>2 DEF Cached
<1>5. cache' = [cache EXCEPT ![c] = old]
  BY <1>2 DEF Expire, Types
<1> HIDE DEF old
<1>6. Types'
  BY <1>1, <1>2, <1>3, <1>5 DEF Types
<1>7. \A d \in Cred : cache'[d] # None => /\ cache[d] # None /\ cache'[d].cred = cache[d].cred
                                          /\ cache'[d].proxy = cache[d].proxy
  BY <1>1, <1>2, <1>4, <1>5 DEF Types
<1>8. /\ \A d \in Cred : Changing(d)' <=> Changing(d)
      /\ ProxyChanging' <=> ProxyChanging
  BY <1>1 DEF Changing, ProxyChanging
<1>9. CacheIsCurrent' /\ LocksKnown'
  BY <1>1, <1>7, <1>8 DEF IInv, CacheIsCurrent, LocksKnown
<1>10. ASSUME NEW u \in Task PROVE Sane(u)'
  <2>1. Sane(u)
    BY DEF IInv
  <2>2. Named(u)' /\ Held(u)' /\ SecondLock(u)'
    BY <1>1, <2>1 DEF Sane, Named, Held, SecondLock
  <2>3. NewEnough(u)'
    BY <1>1, <1>7, <2>1 DEF Sane, Named, NewEnough
  <2>4. task[u].pc \in Loaded => task[u].cred \in Cred
    BY LoadedFacts
  <2>5. NotStale(u)'
    BY <1>1, <1>8, <2>1, <2>4 DEF Sane, NotStale
  <2> QED BY <2>2, <2>3, <2>5 DEF Sane
<1>11. \A u, w \in Task : Serves(u, w)'
  BY <1>1 DEF IInv, Serves
<1> QED BY <1>6, <1>9, <1>10, <1>11 DEF IInv

-----------------------------------------------------------------------------
(* The invariant and what follows from it. *)

LEMMA InitStep == Init => IInv
<1> SUFFICES ASSUME Init PROVE IInv
  OBVIOUS
<1>1. \A t \in Task : task[t] = Idle /\ task[t].pc = "idle"
  BY DEF Init, Idle
<1>2. Types
  <2>1. 0 \in Count /\ 0 \in Nat
    BY IdleTyped
  <2>2. lockOf \in [Cred -> Locks]
    BY DEF Init, Locks
  <2> QED BY <2>1, <2>2, IdleTyped DEF Init, Types
<1>3. LocksKnown /\ CacheIsCurrent
  BY DEF Init, LocksKnown, CacheIsCurrent
<1>4. ASSUME NEW t \in Task PROVE Sane(t)
  BY <1>1 DEF Sane, Named, Held, SecondLock, NotStale, NewEnough, Asking, Holding, Fetching, Loaded
<1>5. ASSUME NEW t \in Task, NEW u \in Task PROVE Serves(t, u)
  BY <1>1 DEF Serves, Asking, Holding, Fetching, Loaded
<1> QED BY <1>2, <1>3, <1>4, <1>5 DEF IInv

LEMMA NextStep == IInv /\ [Next]_vars => IInv'
<1> SUFFICES ASSUME IInv, [Next]_vars PROVE IInv'
  OBVIOUS
<1>1. CASE UNCHANGED vars
  BY <1>1 DEF vars, IInv, Types, LocksKnown, CacheIsCurrent, Sane, Named, Held, SecondLock,
              NotStale, NewEnough, Serves, Changing, ProxyChanging
<1>2. ASSUME NEW t \in Task, Working(t) PROVE IInv'
  BY <1>2, PrepareStep, ReadProxyStep, ReplyStep, FailStep, FallbackStep, ReturnStep,
     InvalidateStep, RemoveStep, BumpEpochStep, ClearCacheStep DEF Working
<1>3. ASSUME NEW t \in Task, Waiting(t) PROVE IInv'
  BY <1>3, TakeLockStep, TakePermitStep DEF Waiting
<1>4. ASSUME NEW t \in Task, NEW c \in Cred,
             \/ \E kind \in {"discover", "warm", "force"} : Ask(t, c, kind)
             \/ Change(t, c) \/ Delete(t, c)
      PROVE  IInv'
  BY <1>4, AskStep, ChangeStep, DeleteStep
<1> QED BY <1>1, <1>2, <1>3, <1>4, SetGlobalProxyStep, ExpireStep DEF Next

\* Every reachable state satisfies the inductive invariant.
LEMMA Invariance == Spec => []IInv
BY InitStep, NextStep, PTL DEF Spec

\* For any credentials, tasks, permits and number of changes: once a change has been
\* invalidated the cache holds nothing from before it.
THEOREM CacheStaysCurrent == Spec => []CacheIsCurrent
<1>1. IInv => CacheIsCurrent
  BY DEF IInv
<1> QED BY <1>1, Invariance, PTL

\* Nobody who asks after a change is complete is answered from before it.
THEOREM AnswersStayCurrent == Spec => []AnswersAreCurrent
<1>1. IInv => AnswersAreCurrent
  BY DEF IInv, Sane, NewEnough, AnswersAreCurrent, At, Asking
<1> QED BY <1>1, Invariance, PTL

\* At most one fetch of a credential is at the upstream, also while the credential is
\* deleted: a fetch that gets that far holds the first lock.
THEOREM FetchesAreSingle == Spec => []SingleFlight
<1>1. ASSUME IInv, NEW t \in Task, NEW u \in Task,
             task[t].pc = "sent", task[u].pc = "sent", task[t].cred = task[u].cred
      PROVE  t = u
  <2>1. Sane(t) /\ Sane(u)
    BY <1>1 DEF IInv
  <2>2. task[t].lock = task[u].lock
    BY <1>1, <2>1 DEF Sane, SecondLock, Loaded
  <2>3. holder[task[t].lock] = t /\ holder[task[u].lock] = u
    BY <1>1, <2>1 DEF Sane, Held, Holding, Fetching
  <2> QED BY <2>2, <2>3
<1>2. IInv => SingleFlight
  BY <1>1 DEF SingleFlight, At
<1> QED BY <1>2, Invariance, PTL
=============================================================================
