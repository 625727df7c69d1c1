-------------------------- MODULE SchedulesProofs ---------------------------
(* Proof of TypeOK and OccurrencesOnce.  The firings of a schedule tile the *)
(* time before next_run_at: the next one starts at next_run_at, which is    *)
(* after the end of every earlier one, and the row lock makes the worker    *)
(* that holds it the only one to add it.                                    *)
EXTENDS Schedules, FiniteSetTheorems, TLAPS

Job == [schedule : Ids, due : Nat]
Holding(w) == pc[w] \in {"prepare", "create", "advance"}
Plain(s) == s \notin edited \cup retried \cup deleted
FiringsOf(s) == {f \in fired : f.schedule = s}
CoverOf(s, t) == {f \in fired : f.schedule = s /\ f.due <= t /\ t <= f.upto}

\* A worker in its loop holds the row whose next_run_at it has read.
HeldRows ==
  \A w \in Workers : Holding(w) =>
    /\ job[w] \in Job
    /\ lock[job[w].schedule] = w
    /\ nextRun[job[w].schedule] = job[w].due /\ job[w].due <= at[w]

\* A firing reaches from its due time on, and the key of a run is that time.
KeysAreDue == \A f \in fired : f.due <= f.upto /\ (f.run => f.key = f.due)

\* A worker about to advance an unedited schedule has fired it.
FiredFirst ==
  \A w \in Workers : pc[w] = "advance" /\ Plain(job[w].schedule) =>
    \E g \in fired : g.schedule = job[w].schedule /\ g.due = job[w].due /\ g.upto = at[w]

\* Where the firings of an unedited schedule end.
Tiled(s) ==
  /\ nextRun[s] \in Nat
  /\ \A t \in 1..MaxTime : t % Period[s] = 0 /\ t < nextRun[s] => Cardinality(CoverOf(s, t)) = 1
  /\ \/ \A f \in FiringsOf(s) : f.upto < nextRun[s]
     \/ \E w \in Workers :
          /\ pc[w] = "advance" /\ job[w].schedule = s
          /\ \E g \in FiringsOf(s) :
               /\ g.due = job[w].due /\ g.upto = at[w]
               /\ \A f \in FiringsOf(s) : f = g \/ f.upto < nextRun[s]

ScheduleInv ==
  /\ TypeOK
  /\ HeldRows
  /\ KeysAreDue
  /\ FiredFirst
  /\ OneRunPerOccurrence
  /\ \A s \in Ids : Plain(s) => Tiled(s)
-----------------------------------------------------------------------------
\* Division with remainder.
LEMMA DivMod ==
  ASSUME NEW t \in Nat, NEW p \in Nat \ {0}
  PROVE  t \div p \in Nat /\ t % p \in 0..(p - 1) /\ t = p * (t \div p) + (t % p)
OBVIOUS

\* next_occurrence is later than t, and no occurrence lies in between.
LEMMA NextOccurrence ==
  ASSUME ScheduleAssumption, NEW s \in Ids, NEW t \in Nat
  PROVE  /\ next_occurrence(s, t) \in Nat /\ next_occurrence(s, t) > t
         /\ \A x \in Nat : x % Period[s] = 0 /\ x < next_occurrence(s, t) => x <= t
<1> DEFINE p == Period[s]
<1>1. p \in Nat \ {0}
  BY DEF ScheduleAssumption
<1> HIDE DEF p
<1>2. PICK q \in Nat, r \in 0..(p - 1) : t \div p = q /\ t = p * q + r
  BY <1>1, DivMod
<1>3. p * (q + 1) = p * q + p /\ p * q \in Nat
  BY <1>1
<1>4. next_occurrence(s, t) = p * (q + 1)
  BY <1>2 DEF next_occurrence, p
<1>5. ASSUME NEW x \in Nat, x % p = 0, x < p * (q + 1) PROVE x <= t
  <2>1. PICK k \in Nat : x = p * k
    <3>1. x \div p \in Nat /\ x = p * (x \div p) + (x % p)
      BY <1>1, DivMod
    <3>2. x = p * (x \div p)
      BY <1>1, <1>5, <3>1
    <3> QED
      BY <3>1, <3>2
  <2>2. ~(k >= q + 1)
    <3>1. ASSUME k >= q + 1 PROVE p * k >= p * (q + 1)
      BY <1>1, <3>1
    <3>2. p * k \in Nat /\ p * (q + 1) \in Nat
      BY <1>1
    <3> QED
      BY <1>5, <2>1, <3>1, <3>2
  <2>3. p * k <= p * q
    BY <1>1, <2>2
  <2>4. p * k \in Nat
    BY <1>1
  <2> QED
    BY <1>2, <1>3, <2>1, <2>3, <2>4
<1> QED
  BY <1>1, <1>2, <1>3, <1>4, <1>5 DEF p

\* Two workers never hold the same row.
LEMMA OneHolder ==
  ASSUME ScheduleInv, NEW v \in Workers, NEW w \in Workers, Holding(v), Holding(w),
         job[v].schedule = job[w].schedule
  PROVE  v = w
BY DEF ScheduleInv, HeldRows

\* Before it has fired, the holder of an unedited schedule sees all firings
\* end before the due time.
LEMMA EndedBefore ==
  ASSUME ScheduleInv, NEW w \in Workers, pc[w] \in {"prepare", "create"},
         NEW s \in Ids, s = job[w].schedule, Plain(s)
  PROVE  \A f \in FiringsOf(s) : f.upto < nextRun[s]
<1>1. Holding(w) /\ Tiled(s)
  BY DEF Holding, ScheduleInv
<1>2. ASSUME NEW v \in Workers, pc[v] = "advance", job[v].schedule = s PROVE FALSE
  BY <1>1, <1>2, OneHolder DEF Holding
<1> QED
  BY <1>1, <1>2 DEF Tiled

\* What is said of a schedule survives a step that neither changes it nor its
\* firings, and leaves a worker that has just fired it alone.
LEMMA TiledFrame ==
  ASSUME NEW s \in Ids, Tiled(s), nextRun'[s] = nextRun[s], FiringsOf(s)' = FiringsOf(s),
         \A w \in Workers : pc[w] = "advance" /\ job[w].schedule = s =>
           pc'[w] = "advance" /\ job'[w] = job[w] /\ at'[w] = at[w]
  PROVE  Tiled(s)'
<1>1. \A t : CoverOf(s, t)' = CoverOf(s, t)
  BY DEF CoverOf, FiringsOf
<1>2. \A t \in 1..MaxTime : t % Period[s] = 0 /\ t < nextRun'[s] => Cardinality(CoverOf(s, t)') = 1
  BY <1>1 DEF Tiled
<1> QED
  BY <1>2 DEF Tiled

\* Advancing past the poll's time keeps the tiling: the firing of the due
\* occurrence reaches exactly to the next one.
LEMMA AdvanceTiles ==
  ASSUME ScheduleAssumption, ScheduleInv, NEW w \in Workers, Holding(w),
         NEW s \in Ids, s = job[w].schedule, Plain(s),
         nextRun'[s] = next_occurrence(s, at[w]),
         NEW g \in FiringsOf(s)', g.due = job[w].due, g.upto = at[w],
         \A f \in FiringsOf(s)' : f = g \/ (f \in fired /\ f.upto < nextRun[s]),
         fired \subseteq fired'
  PROVE  Tiled(s)'
<1>1. /\ at[w] \in Nat /\ nextRun[s] \in Nat /\ nextRun[s] = g.due /\ nextRun[s] <= at[w]
  BY DEF ScheduleInv, TypeOK, HeldRows, Job, Time, ScheduleAssumption
<1>2. /\ nextRun'[s] \in Nat /\ nextRun'[s] > at[w]
      /\ \A x \in Nat : x % Period[s] = 0 /\ x < nextRun'[s] => x <= at[w]
  BY <1>1, NextOccurrence
<1>3. \A f \in fired : f.upto \in Nat /\ f.due \in Nat
  BY DEF ScheduleInv, TypeOK, Firing, Time, ScheduleAssumption
<1>4. \A f \in FiringsOf(s)' : f.upto < nextRun'[s]
  BY <1>1, <1>2, <1>3
<1>5. ASSUME NEW t \in 1..MaxTime, t % Period[s] = 0, t < nextRun'[s]
      PROVE  Cardinality(CoverOf(s, t)') = 1
  <2>1. t \in Nat /\ t <= at[w]
    BY <1>2, <1>5 DEF ScheduleAssumption
  <2>2. CASE t < nextRun[s]
    <3>1. g \notin CoverOf(s, t)'
      BY <1>1, <2>1, <2>2 DEF CoverOf
    <3>2. CoverOf(s, t)' = CoverOf(s, t)
      BY <3>1 DEF CoverOf, FiringsOf
    <3> QED
      BY <1>5, <2>2, <3>2 DEF ScheduleInv, Tiled
  <2>3. CASE t >= nextRun[s]
    <3>1. CoverOf(s, t)' = {g}
      BY <1>1, <1>3, <2>1, <2>3 DEF CoverOf, FiringsOf
    <3> QED
      BY <3>1, FS_Singleton
  <2> QED
    BY <1>1, <2>1, <2>2, <2>3
<1> QED
  BY <1>2, <1>4, <1>5 DEF Tiled
-----------------------------------------------------------------------------
\* The schedules start unlocked and unfired.
LEMMA ScheduleInit ==
  ASSUME ScheduleAssumption, Init
  PROVE  ScheduleInv
<1>1. \A s \in Ids : /\ next_occurrence(s, 0) \in Nat
                     /\ \A x \in Nat : x % Period[s] = 0 /\ x < next_occurrence(s, 0) => x <= 0
  BY NextOccurrence
<1>2. TypeOK
  BY <1>1 DEF Init, TypeOK, Time, ScheduleAssumption
<1>3. HeldRows /\ KeysAreDue /\ FiredFirst /\ OneRunPerOccurrence
  BY DEF Init, HeldRows, Holding, KeysAreDue, FiredFirst, OneRunPerOccurrence
<1>4. ASSUME NEW s \in Ids PROVE Tiled(s)
  <2>1. nextRun[s] = next_occurrence(s, 0)
    BY DEF Init
  <2>2. \A t \in 1..MaxTime : ~(t % Period[s] = 0 /\ t < nextRun[s])
    BY <1>1, <2>1 DEF ScheduleAssumption
  <2> QED
    BY <1>1, <2>1, <2>2 DEF Tiled, FiringsOf, Init
<1> QED
  BY <1>2, <1>3, <1>4 DEF ScheduleInv

\* The steps that fire nothing and advance nothing.
LEMMA QuietScheduleStep ==
  ASSUME ScheduleAssumption, ScheduleInv, TypeOK', HeldRows', fired' = fired,
         \A s \in Ids : Plain(s)' => Plain(s) /\ nextRun'[s] = nextRun[s],
         \A s \in Ids, w \in Workers : Plain(s)' /\ pc[w] = "advance" /\ job[w].schedule = s =>
           pc'[w] = "advance" /\ job'[w] = job[w] /\ at'[w] = at[w],
         \A w \in Workers : pc'[w] = "advance" => pc[w] = "advance" /\ job'[w] = job[w] /\ at'[w] = at[w]
  PROVE  ScheduleInv'
<1>1. KeysAreDue' /\ OneRunPerOccurrence'
  BY DEF ScheduleInv, KeysAreDue, OneRunPerOccurrence
<1>3. FiredFirst'
  BY DEF ScheduleInv, FiredFirst, HeldRows, Holding, Job
<1>2. ASSUME NEW s \in Ids, Plain(s)' PROVE Tiled(s)'
  <2>1. Tiled(s) /\ nextRun'[s] = nextRun[s]
    BY <1>2 DEF ScheduleInv
  <2>2. FiringsOf(s)' = FiringsOf(s)
    BY DEF FiringsOf
  <2> QED
    BY <1>2, <2>1, <2>2, TiledFrame
<1> QED
  BY <1>1, <1>2, <1>3 DEF ScheduleInv

\* Polling, picking a due row and preparing its run.
LEMMA PickKeeps ==
  ASSUME ScheduleAssumption, ScheduleInv, NEW w \in Workers,
         poll(w) \/ pick(w) \/ prepare_scheduled_run(w)
  PROVE  ScheduleInv'
<1>1. /\ UNCHANGED <<now, nextRun, deleted, fired, edit, overQuota, edited, retried, crashes>>
      /\ pc[w] # "advance"
  BY DEF poll, pick, prepare_scheduled_run
<1>2. CASE poll(w)
  <2>1. /\ pc' = [pc EXCEPT ![w] = "pick"] /\ at' = [at EXCEPT ![w] = now]
        /\ UNCHANGED <<lock, job>>
    BY <1>2 DEF poll
  <2>2. TypeOK' /\ HeldRows'
    BY <1>1, <2>1 DEF ScheduleInv, TypeOK, HeldRows, Holding
  <2> QED
    BY <1>1, <2>1, <2>2, QuietScheduleStep DEF Plain, ScheduleInv, TypeOK
<1>3. CASE prepare_scheduled_run(w)
  <2>1. pc[w] = "prepare" /\ pc' = [pc EXCEPT ![w] = "create"] /\ UNCHANGED <<lock, job, at>>
    BY <1>3 DEF prepare_scheduled_run
  <2>2. TypeOK' /\ HeldRows'
    BY <1>1, <2>1 DEF ScheduleInv, TypeOK, HeldRows, Holding
  <2> QED
    BY <1>1, <2>1, <2>2, QuietScheduleStep DEF Plain, ScheduleInv, TypeOK
<1>4. CASE pick(w) /\ Leave(w, "idle") /\ UNCHANGED lock
  <2>1. TypeOK' /\ HeldRows'
    BY <1>1, <1>4 DEF ScheduleInv, TypeOK, HeldRows, Holding, Leave, Time, ScheduleAssumption
  <2> QED
    BY <1>1, <1>4, <2>1, QuietScheduleStep DEF Plain, ScheduleInv, TypeOK, Leave
<1>5. ASSUME NEW s \in Ids, Free(s, w), pc[w] = "pick",
             lock' = [lock EXCEPT ![s] = w],
             job' = [job EXCEPT ![w] = [schedule |-> s, due |-> nextRun[s]]],
             pc' = [pc EXCEPT ![w] = "prepare"], UNCHANGED at
      PROVE  ScheduleInv'
  <2>1. nextRun[s] \in Nat /\ nextRun[s] <= at[w] /\ lock[s] = NoWorker
    BY <1>5 DEF Free, IsDue, ScheduleInv, TypeOK
  <2>2. HeldRows'
    <3> SUFFICES ASSUME NEW v \in Workers, Holding(v)'
                 PROVE  /\ job'[v] \in Job
                        /\ lock'[job'[v].schedule] = v
                        /\ nextRun'[job'[v].schedule] = job'[v].due /\ job'[v].due <= at'[v]
      BY DEF HeldRows, Job
    <3>1. CASE v = w
      BY <1>1, <1>5, <2>1, <3>1 DEF ScheduleInv, TypeOK, Job
    <3>2. CASE v # w
      <4>1. Holding(v) /\ job'[v] = job[v]
        BY <1>5, <3>2 DEF ScheduleInv, TypeOK, Holding
      <4>2. job[v].schedule \in Ids /\ job[v].schedule # s
        BY <2>1, <4>1 DEF ScheduleInv, HeldRows, Job, ScheduleAssumption
      <4> QED
        BY <1>1, <1>5, <4>1, <4>2 DEF ScheduleInv, HeldRows, TypeOK
    <3> QED
      BY <3>1, <3>2
  <2>3. TypeOK'
    BY <1>1, <1>5, <2>1, <2>2 DEF ScheduleInv, TypeOK, HeldRows, Holding
  <2> QED
    BY <1>1, <1>5, <2>2, <2>3, QuietScheduleStep DEF Plain, ScheduleInv, TypeOK
<1> QED
  BY <1>2, <1>3, <1>4, <1>5 DEF pick

\* A worker gives its row back: the rows of the others are untouched.
LEMMA ReleaseKeepsRows ==
  ASSUME ScheduleAssumption, ScheduleInv, NEW w \in Workers, Holding(w),
         NEW s \in Ids, s = job[w].schedule,
         NEW place \in {"idle", "pick"}, Leave(w, place),
         lock' = [lock EXCEPT ![s] = NoWorker],
         NEW n \in Nat, nextRun' = [nextRun EXCEPT ![s] = n]
  PROVE  /\ HeldRows'
         /\ pc' \in [Workers -> {"idle", "pick", "prepare", "create", "advance"}]
         /\ at' \in [Workers -> Time] /\ job' \in [Workers -> Job \cup {NoJob}]
         /\ lock' \in [Ids -> Workers \cup {NoWorker}]
         /\ nextRun' \in [Ids -> Nat \cup {NoTime}]
         /\ \A v \in Workers : v # w => pc'[v] = pc[v] /\ job'[v] = job[v] /\ at'[v] = at[v]
         /\ \A x \in Ids : x # s => nextRun'[x] = nextRun[x]
         /\ nextRun'[s] = n
<1>1. /\ pc' \in [Workers -> {"idle", "pick", "prepare", "create", "advance"}]
      /\ at' \in [Workers -> Time] /\ job' \in [Workers -> Job \cup {NoJob}]
      /\ lock' \in [Ids -> Workers \cup {NoWorker}]
      /\ nextRun' \in [Ids -> Nat \cup {NoTime}]
      /\ pc'[w] = place
      /\ \A v \in Workers : v # w => pc'[v] = pc[v] /\ job'[v] = job[v] /\ at'[v] = at[v]
      /\ \A x \in Ids : x # s => nextRun'[x] = nextRun[x] /\ lock'[x] = lock[x]
      /\ nextRun'[s] = n
  BY DEF ScheduleInv, TypeOK, Leave, Time, Job, ScheduleAssumption
<1>2. ASSUME NEW v \in Workers, Holding(v)'
      PROVE  /\ job'[v] \in Job
             /\ lock'[job'[v].schedule] = v
             /\ nextRun'[job'[v].schedule] = job'[v].due /\ job'[v].due <= at'[v]
  <2>1. v # w /\ Holding(v)
    BY <1>1, <1>2 DEF Holding
  <2>2. job[v].schedule \in Ids /\ job[v].schedule # s
    BY <2>1, OneHolder DEF ScheduleInv, HeldRows, Job
  <2> QED
    BY <1>1, <2>1, <2>2 DEF ScheduleInv, HeldRows
<1>3. HeldRows'
  BY <1>2 DEF HeldRows, Job
<1> QED
  BY <1>1, <1>3

\* The other schedules do not notice a firing or an advance of s.
LEMMA OtherSchedules ==
  ASSUME ScheduleInv, NEW w \in Workers, NEW s \in Ids, s = job[w].schedule, Holding(w),
         NEW x \in Ids, x # s, Plain(x), nextRun'[x] = nextRun[x],
         fired \subseteq fired', \A f \in fired' : f \in fired \/ f.schedule = s,
         \A v \in Workers : v # w => pc'[v] = pc[v] /\ job'[v] = job[v] /\ at'[v] = at[v]
  PROVE  Tiled(x)'
<1>1. FiringsOf(x)' = FiringsOf(x)
  BY DEF FiringsOf
<1>2. Tiled(x)
  BY DEF ScheduleInv
<1> QED
  BY <1>1, <1>2, TiledFrame

\* What the holder of a row knows.
LEMMA HolderFacts ==
  ASSUME ScheduleAssumption, ScheduleInv, NEW w \in Workers, Holding(w)
  PROVE  /\ job[w].schedule \in Ids /\ job[w].due \in Nat /\ job[w].due <= at[w] /\ at[w] \in Time
         /\ at[w] \in Nat /\ nextRun[job[w].schedule] = job[w].due
         /\ next_occurrence(job[w].schedule, at[w]) \in Nat
<1>1. /\ job[w].schedule \in Ids /\ job[w].due \in Nat /\ job[w].due <= at[w] /\ at[w] \in Time
      /\ at[w] \in Nat /\ nextRun[job[w].schedule] = job[w].due
  BY DEF ScheduleInv, HeldRows, Job, TypeOK, Time, ScheduleAssumption
<1> QED
  BY <1>1, NextOccurrence

\* The occurrence is passed over without a run.
LEMMA BlockKeeps ==
  ASSUME ScheduleAssumption, ScheduleInv, NEW w \in Workers, block(w)
  PROVE  ScheduleInv'
<1>1. PICK s \in Ids : s = job[w].schedule
  BY HolderFacts DEF block, Holding
<1> DEFINE g == [schedule |-> s, due |-> job[w].due, upto |-> at[w], key |-> job[w].due, run |-> FALSE]
           n == next_occurrence(s, at[w])
<1>2. /\ pc[w] = "prepare" /\ Holding(w) /\ fired' = fired \cup {g}
      /\ nextRun' = [nextRun EXCEPT ![s] = n] /\ lock' = [lock EXCEPT ![s] = NoWorker]
      /\ Leave(w, "pick") /\ UNCHANGED <<now, deleted, edit, overQuota, edited, retried, crashes>>
  BY <1>1 DEF block, Advance, Holding
<1>3. n \in Nat /\ g \in Firing /\ nextRun[s] = job[w].due
  BY <1>1, <1>2, HolderFacts DEF Firing
<1>4. /\ HeldRows'
      /\ pc' \in [Workers -> {"idle", "pick", "prepare", "create", "advance"}]
      /\ at' \in [Workers -> Time] /\ job' \in [Workers -> Job \cup {NoJob}]
      /\ lock' \in [Ids -> Workers \cup {NoWorker}]
      /\ nextRun' \in [Ids -> Nat \cup {NoTime}]
      /\ \A v \in Workers : v # w => pc'[v] = pc[v] /\ job'[v] = job[v] /\ at'[v] = at[v]
      /\ \A x \in Ids : x # s => nextRun'[x] = nextRun[x]
      /\ nextRun'[s] = n
  BY <1>1, <1>2, <1>3, ReleaseKeepsRows
<1>5. TypeOK'
  <2>1. fired' \subseteq Firing
    BY <1>2, <1>3 DEF ScheduleInv, TypeOK
  <2>2. \A v \in Workers : pc'[v] \in {"prepare", "create", "advance"} => lock'[job'[v].schedule] = v
    BY <1>4 DEF HeldRows, Holding
  <2> HIDE DEF g, n
  <2> QED
    BY <1>2, <1>4, <2>1, <2>2 DEF ScheduleInv, TypeOK, Job
<1>6. KeysAreDue' /\ OneRunPerOccurrence'
  BY <1>1, <1>2, HolderFacts DEF ScheduleInv, KeysAreDue, OneRunPerOccurrence
<1>8. FiredFirst'
  <2>1. pc'[w] # "advance"
    BY <1>2 DEF Leave, ScheduleInv, TypeOK
  <2> QED
    BY <1>2, <1>4, <2>1 DEF ScheduleInv, FiredFirst, Plain
<1>7. ASSUME NEW x \in Ids, Plain(x)' PROVE Tiled(x)'
  <2>1. Plain(x)
    BY <1>2, <1>7 DEF Plain
  <2>2. CASE x # s
    BY <1>1, <1>2, <1>4, <2>1, <2>2, OtherSchedules
  <2>3. CASE x = s
    <3>1. \A f \in FiringsOf(s) : f.upto < nextRun[s]
      BY <1>1, <1>2, <2>1, <2>3, EndedBefore
    <3>2. g \in FiringsOf(s)' /\ \A f \in FiringsOf(s)' : f = g \/ (f \in fired /\ f.upto < nextRun[s])
      BY <1>2, <3>1 DEF FiringsOf
    <3>3. g.due = job[w].due /\ g.upto = at[w]
      OBVIOUS
    <3> HIDE DEF g
    <3> QED
      BY <1>1, <1>2, <1>4, <2>1, <2>3, <3>2, <3>3, AdvanceTiles
  <2> QED
    BY <2>2, <2>3
<1> QED
  BY <1>4, <1>5, <1>6, <1>7, <1>8 DEF ScheduleInv

\* The run of the due occurrence is created, unless it exists already or the
\* quota is exhausted.
LEMMA CreateKeeps ==
  ASSUME ScheduleAssumption, ScheduleInv, NEW w \in Workers, create_run(w)
  PROVE  ScheduleInv'
<1>1. PICK s \in Ids : s = job[w].schedule
  BY HolderFacts DEF create_run, Holding
<1> DEFINE g == [schedule |-> s, due |-> job[w].due, upto |-> at[w], key |-> job[w].due, run |-> TRUE]
           Exists == \E f \in fired : f.run /\ f.schedule = s /\ f.key = job[w].due
<1>2. /\ pc[w] = "create" /\ Holding(w)
      /\ UNCHANGED <<now, nextRun, deleted, edit, overQuota, edited, retried, crashes>>
      /\ \/ Leave(w, "idle") /\ lock' = [lock EXCEPT ![s] = NoWorker] /\ UNCHANGED fired
         \/ /\ pc' = [pc EXCEPT ![w] = "advance"] /\ UNCHANGED <<lock, job, at>>
            /\ \/ Exists /\ fired' = fired
               \/ ~Exists /\ fired' = fired \cup {g}
  BY <1>1 DEF create_run, Holding, idempotency_key
<1>3. g \in Firing /\ nextRun[s] = job[w].due /\ nextRun[s] \in Nat /\ nextRun[s] <= at[w]
  BY <1>1, <1>2, HolderFacts DEF Firing
<1>4. CASE Leave(w, "idle") /\ lock' = [lock EXCEPT ![s] = NoWorker] /\ UNCHANGED fired
  <2>1. PICK n \in Nat : nextRun' = [nextRun EXCEPT ![s] = n]
    BY <1>2, <1>3 DEF ScheduleInv, TypeOK
  <2>2. /\ HeldRows'
        /\ pc' \in [Workers -> {"idle", "pick", "prepare", "create", "advance"}]
        /\ at' \in [Workers -> Time] /\ job' \in [Workers -> Job \cup {NoJob}]
        /\ lock' \in [Ids -> Workers \cup {NoWorker}]
        /\ nextRun' \in [Ids -> Nat \cup {NoTime}]
        /\ \A v \in Workers : v # w => pc'[v] = pc[v] /\ job'[v] = job[v] /\ at'[v] = at[v]
    <3>1. Holding(w) /\ "idle" \in {"idle", "pick"}
      BY <1>2
    <3> QED
      BY <1>1, <1>4, <2>1, <3>1, ReleaseKeepsRows
  <2>3. TypeOK'
    BY <1>2, <1>4, <2>2 DEF ScheduleInv, TypeOK, HeldRows, Holding, Job
  <2> QED
    BY <1>2, <1>4, <2>2, <2>3, QuietScheduleStep DEF Plain, Leave, ScheduleInv, TypeOK
<1>5. CASE /\ pc' = [pc EXCEPT ![w] = "advance"] /\ UNCHANGED <<lock, job, at>>
           /\ (Exists /\ fired' = fired) \/ (~Exists /\ fired' = fired \cup {g})
  <2>1. HeldRows'
    BY <1>2, <1>5 DEF ScheduleInv, TypeOK, HeldRows, Holding
  <2>2. TypeOK'
    BY <1>2, <1>3, <1>5, <2>1 DEF ScheduleInv, TypeOK, HeldRows, Holding
  <2>3. KeysAreDue'
    BY <1>3, <1>5 DEF ScheduleInv, KeysAreDue
  <2>4. OneRunPerOccurrence'
    <3>1. \A f \in fired : f.run /\ f.schedule = s /\ f.due = job[w].due => Exists
      BY DEF ScheduleInv, KeysAreDue
    <3>2. g.schedule = s /\ g.due = job[w].due
      OBVIOUS
    <3> HIDE DEF g, Exists
    <3> QED
      BY <1>5, <3>1, <3>2 DEF ScheduleInv, OneRunPerOccurrence
  <2>6. Plain(s) => ~Exists
    <3> SUFFICES ASSUME Plain(s), NEW f \in fired, f.run, f.schedule = s, f.key = job[w].due PROVE FALSE
      OBVIOUS
    <3>1. f.upto < nextRun[s]
      BY <1>1, <1>2, EndedBefore DEF FiringsOf
    <3> QED
      BY <1>3, <3>1 DEF ScheduleInv, KeysAreDue, TypeOK, Firing, Time, ScheduleAssumption
  <2>7. FiredFirst'
    <3> SUFFICES ASSUME NEW v \in Workers, pc'[v] = "advance", Plain(job[v].schedule)
                 PROVE  \E h \in fired' : h.schedule = job[v].schedule /\ h.due = job[v].due /\ h.upto = at[v]
      BY <1>2, <1>5 DEF FiredFirst, Plain
    <3>1. CASE v = w
      <4>1. g \in fired' /\ g.schedule = s /\ g.due = job[w].due /\ g.upto = at[w]
        BY <1>1, <1>5, <2>6, <3>1
      <4> HIDE DEF g
      <4> QED
        BY <1>1, <3>1, <4>1
    <3>2. CASE v # w
      <4>1. pc[v] = "advance"
        BY <1>5, <3>2 DEF ScheduleInv, TypeOK
      <4> QED
        BY <1>5, <4>1 DEF ScheduleInv, FiredFirst
    <3> QED
      BY <3>1, <3>2
  <2>5. ASSUME NEW x \in Ids, Plain(x)' PROVE Tiled(x)'
    <3>1. Plain(x) /\ nextRun'[x] = nextRun[x]
      BY <1>2, <2>5 DEF Plain
    <3>2. \A v \in Workers : v # w => pc'[v] = pc[v] /\ job'[v] = job[v] /\ at'[v] = at[v]
      BY <1>5 DEF ScheduleInv, TypeOK
    <3>3. CASE x # s
      BY <1>1, <1>2, <1>5, <3>1, <3>2, <3>3, OtherSchedules
    <3>4. CASE x = s
      <4>1. \A f \in FiringsOf(s) : f.upto < nextRun[s]
        BY <1>1, <1>2, <3>1, <3>4, EndedBefore
      <4>3. fired' = fired \cup {g} /\ pc'[w] = "advance" /\ job'[w] = job[w] /\ at'[w] = at[w]
        BY <1>5, <2>6, <3>1, <3>4 DEF ScheduleInv, TypeOK
      <4>4. g \in FiringsOf(s)' /\ \A f \in FiringsOf(s)' : f = g \/ (f \in FiringsOf(s) /\ f.upto < nextRun[s])
        BY <4>1, <4>3 DEF FiringsOf
      <4>5. \A t \in 1..MaxTime : t < nextRun[s] => CoverOf(s, t)' = CoverOf(s, t)
        BY <1>3, <4>3 DEF CoverOf, ScheduleAssumption
      <4>6. Tiled(s)
        BY <3>1, <3>4 DEF ScheduleInv
      <4>7. \A t \in 1..MaxTime : t % Period[s] = 0 /\ t < nextRun'[s] => Cardinality(CoverOf(s, t)') = 1
        BY <3>1, <3>4, <4>5, <4>6 DEF Tiled
      <4>8. \E v \in Workers :
              /\ pc'[v] = "advance" /\ job'[v].schedule = s
              /\ \E h \in FiringsOf(s)' :
                   /\ h.due = job'[v].due /\ h.upto = at'[v]
                   /\ \A f \in FiringsOf(s)' : f = h \/ f.upto < nextRun'[s]
        BY <1>1, <3>1, <3>4, <4>3, <4>4
      <4> QED
        BY <1>3, <3>1, <3>4, <4>7, <4>8 DEF Tiled
    <3> QED
      BY <3>3, <3>4
  <2> QED
    BY <2>1, <2>2, <2>3, <2>4, <2>5, <2>7 DEF ScheduleInv
<1> QED
  BY <1>2, <1>4, <1>5
\* The fired schedule is advanced.
LEMMA AdvanceKeeps ==
  ASSUME ScheduleAssumption, ScheduleInv, NEW w \in Workers, advance(w)
  PROVE  ScheduleInv'
<1>1. PICK s \in Ids : s = job[w].schedule
  BY HolderFacts DEF advance, Holding
<1> DEFINE n == next_occurrence(s, at[w])
<1>2. /\ pc[w] = "advance" /\ Holding(w) /\ fired' = fired
      /\ nextRun' = [nextRun EXCEPT ![s] = n] /\ lock' = [lock EXCEPT ![s] = NoWorker]
      /\ Leave(w, "pick") /\ UNCHANGED <<now, deleted, edit, overQuota, edited, retried, crashes>>
  BY <1>1 DEF advance, Advance, Holding
<1>3. n \in Nat /\ nextRun[s] = job[w].due /\ nextRun[s] \in Nat /\ nextRun[s] <= at[w] /\ at[w] \in Nat
  BY <1>1, <1>2, HolderFacts
<1>4. /\ HeldRows'
      /\ pc' \in [Workers -> {"idle", "pick", "prepare", "create", "advance"}]
      /\ at' \in [Workers -> Time] /\ job' \in [Workers -> Job \cup {NoJob}]
      /\ lock' \in [Ids -> Workers \cup {NoWorker}]
      /\ nextRun' \in [Ids -> Nat \cup {NoTime}]
      /\ \A v \in Workers : v # w => pc'[v] = pc[v] /\ job'[v] = job[v] /\ at'[v] = at[v]
      /\ \A x \in Ids : x # s => nextRun'[x] = nextRun[x]
      /\ nextRun'[s] = n
  BY <1>1, <1>2, <1>3, ReleaseKeepsRows
<1>5. TypeOK'
  <2>1. \A v \in Workers : pc'[v] \in {"prepare", "create", "advance"} => lock'[job'[v].schedule] = v
    BY <1>4 DEF HeldRows, Holding
  <2> HIDE DEF n
  <2> QED
    BY <1>2, <1>4, <2>1 DEF ScheduleInv, TypeOK, Job
<1>6. KeysAreDue' /\ OneRunPerOccurrence'
  BY <1>2 DEF ScheduleInv, KeysAreDue, OneRunPerOccurrence
<1>7. FiredFirst'
  <2>1. pc'[w] # "advance"
    BY <1>2 DEF Leave, ScheduleInv, TypeOK
  <2> QED
    BY <1>2, <1>4, <2>1 DEF ScheduleInv, FiredFirst, Plain
<1>8. ASSUME NEW x \in Ids, Plain(x)' PROVE Tiled(x)'
  <2>1. Plain(x)
    BY <1>2, <1>8 DEF Plain
  <2>2. CASE x # s
    BY <1>1, <1>2, <1>4, <2>1, <2>2, OtherSchedules
  <2>3. CASE x = s
    <3>1. PICK h \in FiringsOf(s) : h.upto = at[w]
      BY <1>1, <1>2, <2>1, <2>3 DEF ScheduleInv, FiredFirst, FiringsOf
    <3>2. PICK v \in Workers :
            /\ pc[v] = "advance" /\ job[v].schedule = s
            /\ \E g \in FiringsOf(s) :
                 /\ g.due = job[v].due /\ g.upto = at[v]
                 /\ \A f \in FiringsOf(s) : f = g \/ f.upto < nextRun[s]
      BY <1>3, <2>1, <2>3, <3>1 DEF ScheduleInv, Tiled
    <3>3. v = w
      BY <1>1, <1>2, <3>2, OneHolder DEF Holding
    <3>4. PICK g \in FiringsOf(s) :
            /\ g.due = job[w].due /\ g.upto = at[w]
            /\ \A f \in FiringsOf(s) : f = g \/ f.upto < nextRun[s]
      BY <3>2, <3>3
    <3>5. FiringsOf(s)' = FiringsOf(s) /\ FiringsOf(s) \subseteq fired
      BY <1>2 DEF FiringsOf
    <3> QED
      BY <1>1, <1>2, <1>4, <2>1, <2>3, <3>4, <3>5, AdvanceTiles
  <2> QED
    BY <2>2, <2>3
<1> QED
  BY <1>4, <1>5, <1>6, <1>7, <1>8 DEF ScheduleInv

\* A worker dies: its row is free again, and if it had fired the schedule is
\* no longer an unretried one.
LEMMA CrashKeeps ==
  ASSUME ScheduleAssumption, ScheduleInv, NEW w \in Workers, crash(w)
  PROVE  ScheduleInv'
<1>1. /\ crashes < MaxCrashes /\ crashes' = crashes + 1 /\ Leave(w, "idle")
      /\ lock' = [s \in Ids |-> IF lock[s] = w THEN NoWorker ELSE lock[s]]
      /\ retried' = IF pc[w] = "advance" THEN retried \cup {job[w].schedule} ELSE retried
      /\ UNCHANGED <<now, nextRun, deleted, fired, edit, overQuota, edited>>
  BY DEF crash
<1>2. /\ pc' \in [Workers -> {"idle", "pick", "prepare", "create", "advance"}]
      /\ at' \in [Workers -> Time] /\ job' \in [Workers -> Job \cup {NoJob}]
      /\ lock' \in [Ids -> Workers \cup {NoWorker}]
      /\ pc'[w] = "idle"
      /\ \A v \in Workers : v # w => pc'[v] = pc[v] /\ job'[v] = job[v] /\ at'[v] = at[v]
  BY <1>1 DEF ScheduleInv, TypeOK, Leave, Time, Job, ScheduleAssumption
<1>3. HeldRows'
  <2> SUFFICES ASSUME NEW v \in Workers, Holding(v)'
               PROVE  /\ job'[v] \in Job
                      /\ lock'[job'[v].schedule] = v
                      /\ nextRun'[job'[v].schedule] = job'[v].due /\ job'[v].due <= at'[v]
    BY DEF HeldRows, Job
  <2>1. v # w /\ Holding(v) /\ job'[v] = job[v] /\ at'[v] = at[v]
    BY <1>2 DEF Holding
  <2>2. job[v].schedule \in Ids /\ lock[job[v].schedule] = v
    BY <2>1 DEF ScheduleInv, HeldRows, Job
  <2> QED
    BY <1>1, <2>1, <2>2 DEF ScheduleInv, HeldRows
<1>4. crashes' \in 0..MaxCrashes /\ retried' \subseteq Ids
  <2>1. pc[w] = "advance" => job[w].schedule \in Ids
    BY DEF ScheduleInv, HeldRows, Holding, Job
  <2>2. retried' \subseteq Ids
    BY <1>1, <2>1 DEF ScheduleInv, TypeOK
  <2>3. crashes' \in 0..MaxCrashes
    BY <1>1 DEF ScheduleInv, TypeOK, ScheduleAssumption
  <2> QED
    BY <2>2, <2>3
<1>5. TypeOK'
  <2>1. \A v \in Workers : pc'[v] \in {"prepare", "create", "advance"} => lock'[job'[v].schedule] = v
    BY <1>3 DEF HeldRows, Holding
  <2> QED
    BY <1>1, <1>2, <1>4, <2>1 DEF ScheduleInv, TypeOK, Job
<1>6. \A s \in Ids : Plain(s)' => Plain(s) /\ nextRun'[s] = nextRun[s]
  BY <1>1 DEF Plain
<1>7. \A s \in Ids, v \in Workers : Plain(s)' /\ pc[v] = "advance" /\ job[v].schedule = s =>
        pc'[v] = "advance" /\ job'[v] = job[v] /\ at'[v] = at[v]
  BY <1>1, <1>2 DEF Plain
<1>8. \A v \in Workers : pc'[v] = "advance" => pc[v] = "advance" /\ job'[v] = job[v] /\ at'[v] = at[v]
  BY <1>2
<1> QED
  BY <1>1, <1>3, <1>5, <1>6, <1>7, <1>8, QuietScheduleStep

\* Users, quotas and the clock.
LEMMA UserKeeps ==
  ASSUME ScheduleAssumption, ScheduleInv,
         \/ tick
         \/ \E s \in Ids : begin_update(s) \/ commit_update(s) \/ delete_schedule(s) \/ quota_changes(s)
  PROVE  ScheduleInv'
<1>1. /\ UNCHANGED <<lock, pc, at, job, fired, retried, crashes>>
      /\ \A s \in Ids : Plain(s)' => Plain(s) /\ nextRun'[s] = nextRun[s]
  BY DEF tick, begin_update, commit_update, delete_schedule, quota_changes, Plain, workerVars,
         ScheduleInv, TypeOK
<1>2. nextRun' \in [Ids -> Nat \cup {NoTime}] /\ now' \in Time /\ deleted' \subseteq Ids
  <2>1. \A s \in Ids : edit[s] # NoEdit => edit[s] \in Nat \cup {NoTime}
    BY DEF ScheduleInv, TypeOK
  <2>2. now' \in Time
    BY DEF tick, begin_update, commit_update, delete_schedule, quota_changes,
           ScheduleInv, TypeOK, Time, ScheduleAssumption
  <2>3. nextRun' \in [Ids -> Nat \cup {NoTime}]
    BY <2>1 DEF tick, begin_update, commit_update, delete_schedule, quota_changes, ScheduleInv, TypeOK
  <2>4. deleted' \subseteq Ids
    BY DEF tick, begin_update, commit_update, delete_schedule, quota_changes, ScheduleInv, TypeOK
  <2> QED
    BY <2>2, <2>3, <2>4
<1>3. edit' \in [Ids -> Nat \cup {NoTime, NoEdit}] /\ overQuota' \subseteq Ids /\ edited' \subseteq Ids
  <2>1. \A s \in Ids : next_occurrence(s, now) \in Nat
    BY NextOccurrence DEF ScheduleInv, TypeOK, Time, ScheduleAssumption
  <2> QED
    BY <2>1 DEF tick, begin_update, commit_update, delete_schedule, quota_changes, ScheduleInv, TypeOK
<1>4. TypeOK'
  BY <1>1, <1>2, <1>3 DEF ScheduleInv, TypeOK
<1>5. \A s \in Ids : lock[s] # NoWorker => nextRun'[s] = nextRun[s]
  BY DEF tick, begin_update, commit_update, delete_schedule, quota_changes, ScheduleInv, TypeOK
<1>6. HeldRows'
  <2>1. \A w \in Workers : Holding(w)' => Holding(w)
    BY <1>1 DEF Holding
  <2>2. \A w \in Workers : Holding(w) =>
          job[w].schedule \in Ids /\ nextRun'[job[w].schedule] = nextRun[job[w].schedule]
    BY <1>5 DEF ScheduleInv, HeldRows, Job, ScheduleAssumption
  <2> QED
    BY <1>1, <2>1, <2>2 DEF ScheduleInv, HeldRows, Job
<1> QED
  BY <1>1, <1>4, <1>6, QuietScheduleStep

\* Every step keeps the invariant.
LEMMA ScheduleStep ==
  ASSUME ScheduleAssumption, ScheduleInv, [Next]_vars
  PROVE  ScheduleInv'
<1>1. CASE UNCHANGED vars
  BY <1>1 DEF vars, ScheduleInv, TypeOK, HeldRows, Holding, KeysAreDue, FiredFirst, OneRunPerOccurrence,
              Plain, Tiled, FiringsOf, CoverOf
<1> QED
  BY <1>1, PickKeeps, BlockKeeps, CreateKeeps, AdvanceKeeps, CrashKeeps, UserKeeps DEF Next, Trigger

\* What the invariant says of the occurrences.
LEMMA ScheduleInvSound ==
  ASSUME ScheduleInv
  PROVE  TypeOK /\ OccurrencesOnce
BY DEF ScheduleInv, OccurrencesOnce, EveryOccurrenceOnce, Tiled, Plain, CoverOf

\* The tiling holds in every state, for any number of schedules and workers.
THEOREM ScheduleInvariant ==
  ASSUME ScheduleAssumption
  PROVE  Spec => []ScheduleInv
<1>1. Init => ScheduleInv
  BY ScheduleInit
<1>2. ScheduleInv /\ [Next]_vars => ScheduleInv'
  BY ScheduleStep
<1> QED
  BY <1>1, <1>2, PTL DEF Spec

\* The columns keep their domains and a worker in its loop its row lock, and
\* an occurrence has one run and one firing: trigger_due_schedules with its
\* retries, whatever users edit meanwhile.
THEOREM SchedulesCorrect ==
  ASSUME ScheduleAssumption
  PROVE  Spec => [](TypeOK /\ OccurrencesOnce)
<1>1. ScheduleInv => TypeOK /\ OccurrencesOnce
  BY ScheduleInvSound
<1> QED
  BY <1>1, ScheduleInvariant, PTL
=============================================================================
