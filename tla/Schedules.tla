----------------------------- MODULE Schedules ------------------------------
(***************************************************************************)
(* Cron schedules of the control plane: the table `schedules', the loop    *)
(* trigger_due_schedules that every worker runs once per poll, and the     *)
(* edits users make meanwhile.  The worker holds the schedule's row lock   *)
(* over several steps, but db::create_run commits a transaction of its own *)
(* before the schedule is advanced: a crash in between leaves the run and  *)
(* forgets the advance.                                                    *)
(*                                                                         *)
(* Time is a counter and a cron expression a period: the occurrences of a  *)
(* schedule are the multiples of its period.                               *)
(***************************************************************************)
EXTENDS Naturals, FiniteSets

CONSTANTS
  Ids,        \* schedule ids, in the order of ties (numbers)
  Workers,    \* worker processes
  NoWorker,   \* the row lock is free
  NoTime,     \* SQL NULL in next_run_at: disabled or deleted
  NoJob,      \* the worker holds no schedule
  NoEdit,     \* no update of the schedule is in flight
  Period,     \* the cron expression of each schedule
  Editable,   \* schedules that users update or delete
  Limited,    \* schedules whose creator has a quota of runs
  MaxTime,    \* bound: how far the clock runs
  MaxCrashes  \* bound: how often a worker dies within its loop

ScheduleAssumption ==
  /\ Ids \subseteq Nat
  /\ NoWorker \notin Workers
  /\ NoTime \notin Nat /\ NoEdit \notin Nat /\ NoEdit # NoTime
  /\ Period \in [Ids -> Nat \ {0}]
  /\ Editable \subseteq Ids /\ Limited \subseteq Ids
  /\ MaxTime \in Nat /\ MaxCrashes \in Nat

\* next_occurrence_normalized: the first occurrence strictly after t.
next_occurrence(s, t) == Period[s] * (t \div Period[s] + 1)

VARIABLES
  now,        \* the wall clock
  nextRun,    \* schedules.next_run_at
  deleted,    \* schedules.deleted_at is set
  lock,       \* lock[s]: the worker whose transaction holds the row
  pc,         \* pc[w]: where the worker is in trigger_due_schedules
  at,         \* at[w]: the time its poll began, `now' of the code
  job,        \* job[w]: the schedule it holds and the next_run_at it has read
  fired,      \* what was done about due schedules: runs created, and blocks
  edit,       \* edit[s]: the next_run_at an update in flight has computed
  overQuota,  \* schedules whose creator has no run left in the quota
  edited,     \* history: schedules whose update committed
  retried,    \* history: schedules whose worker died between run and advance
  crashes     \* crashes so far

workerVars == <<pc, at, job>>
vars == <<now, nextRun, deleted, lock, pc, at, job, fired, edit, overQuota,
          edited, retried, crashes>>

Time == 0..MaxTime
Firing == [schedule : Ids, due : Nat, upto : Time, key : Nat, run : BOOLEAN]

\* Domains of the columns; a worker within its loop holds its row's lock.
TypeOK ==
  /\ now \in Time
  /\ nextRun \in [Ids -> Nat \cup {NoTime}]
  /\ lock \in [Ids -> Workers \cup {NoWorker}]
  /\ pc \in [Workers -> {"idle", "pick", "prepare", "create", "advance"}]
  /\ at \in [Workers -> Time]
  /\ job \in [Workers -> [schedule : Ids, due : Nat] \cup {NoJob}]
  /\ fired \subseteq Firing
  /\ edit \in [Ids -> Nat \cup {NoTime, NoEdit}]
  /\ deleted \subseteq Ids /\ overQuota \subseteq Ids
  /\ edited \subseteq Ids /\ retried \subseteq Ids /\ crashes \in 0..MaxCrashes
  /\ \A w \in Workers : pc[w] \in {"prepare", "create", "advance"} => lock[job[w].schedule] = w

\* create_schedule has computed the first occurrence of every schedule.
Init ==
  /\ now = 0
  /\ nextRun = [s \in Ids |-> next_occurrence(s, 0)]
  /\ lock = [s \in Ids |-> NoWorker]
  /\ pc = [w \in Workers |-> "idle"]
  /\ at = [w \in Workers |-> 0]
  /\ job = [w \in Workers |-> NoJob]
  /\ fired = {}
  /\ edit = [s \in Ids |-> NoEdit]
  /\ deleted = {} /\ overQuota = {} /\ edited = {} /\ retried = {}
  /\ crashes = 0
-----------------------------------------------------------------------------
(* trigger_due_schedules.                                                  *)

IsDue(s, t) == nextRun[s] # NoTime /\ nextRun[s] <= t

\* The poll begins and reads the clock once for the whole loop.
poll(w) ==
  /\ pc[w] = "idle"
  /\ \E s \in Ids : IsDue(s, now)
  /\ pc' = [pc EXCEPT ![w] = "pick"] /\ at' = [at EXCEPT ![w] = now]
  /\ UNCHANGED <<now, nextRun, deleted, lock, job, fired, edit, overQuota,
                 edited, retried, crashes>>

\* The worker's local variables go out of scope.
Leave(w, place) ==
  /\ pc' = [pc EXCEPT ![w] = place]
  /\ job' = [job EXCEPT ![w] = NoJob]
  /\ at' = [at EXCEPT ![w] = IF place = "idle" THEN 0 ELSE @]

\* Mutant: FOR UPDATE without SKIP LOCKED semantics, the lock is ignored.
FreeOrLocked(s, w) == IsDue(s, at[w])

Free(s, w) == IsDue(s, at[w]) /\ lock[s] = NoWorker

\* ORDER BY next_run_at, id LIMIT 1 FOR UPDATE SKIP LOCKED.
pick(w) ==
  /\ pc[w] = "pick"
  /\ \/ \E s \in Ids :
          /\ Free(s, w)
          /\ \A x \in Ids : Free(x, w) =>
               nextRun[s] < nextRun[x] \/ (nextRun[s] = nextRun[x] /\ s <= x)
          /\ lock' = [lock EXCEPT ![s] = w]
          /\ job' = [job EXCEPT ![w] = [schedule |-> s, due |-> nextRun[s]]]
          /\ pc' = [pc EXCEPT ![w] = "prepare"]
          /\ UNCHANGED at
     \/ /\ \A s \in Ids : ~Free(s, w)
        /\ Leave(w, "idle")
        /\ UNCHANGED lock
  /\ UNCHANGED <<now, nextRun, deleted, fired, edit, overQuota, edited, retried, crashes>>

\* Mutant: the row is advanced past the due time only.
AdvanceFromDue(w) ==
  LET s == job[w].schedule IN
  /\ nextRun' = [nextRun EXCEPT ![s] = next_occurrence(s, job[w].due)]
  /\ lock' = [lock EXCEPT ![s] = NoWorker]
  /\ Leave(w, "pick")

\* The row is advanced past the poll's time and its lock released.
Advance(w) ==
  LET s == job[w].schedule IN
  /\ nextRun' = [nextRun EXCEPT ![s] = next_occurrence(s, at[w])]
  /\ lock' = [lock EXCEPT ![s] = NoWorker]
  /\ Leave(w, "pick")

\* Mutant: a blocked schedule keeps its due time.
block_in_place(w) ==
  /\ pc[w] = "prepare"
  /\ lock' = [lock EXCEPT ![job[w].schedule] = NoWorker]
  /\ Leave(w, "pick")
  /\ UNCHANGED <<now, nextRun, deleted, fired, edit, overQuota,
                 edited, retried, crashes>>

\* prepare_scheduled_run refuses (a role, task, executor or snapshot is
\* missing): the reason is stored and the occurrence passed over.
block(w) ==
  /\ pc[w] = "prepare"
  /\ fired' = fired \cup {[schedule |-> job[w].schedule, due |-> job[w].due,
                           upto |-> at[w], key |-> job[w].due, run |-> FALSE]}
  /\ Advance(w)
  /\ UNCHANGED <<now, deleted, edit, overQuota, edited, retried, crashes>>

\* prepare_scheduled_run returns a run specification.
prepare_scheduled_run(w) ==
  /\ pc[w] = "prepare"
  /\ pc' = [pc EXCEPT ![w] = "create"]
  /\ UNCHANGED <<now, nextRun, deleted, lock, at, job, fired, edit, overQuota,
                 edited, retried, crashes>>

\* Mutant: the key names the time of the trigger.
trigger_time_key(w) == at[w]

\* schedule:{id}:{due_at}
idempotency_key(w) == job[w].due

\* db::create_run: an existing run with the key is returned before the quota
\* is looked at; an exhausted quota is an error that ends the whole loop.
create_run(w) ==
  LET s == job[w].schedule
      exists == \E f \in fired : f.run /\ f.schedule = s /\ f.key = idempotency_key(w)
  IN
  /\ pc[w] = "create"
  /\ IF ~exists /\ s \in overQuota
       THEN /\ Leave(w, "idle")
            /\ lock' = [lock EXCEPT ![s] = NoWorker]
            /\ UNCHANGED fired
       ELSE /\ pc' = [pc EXCEPT ![w] = "advance"]
            /\ fired' = IF exists THEN fired
                        ELSE fired \cup {[schedule |-> s, due |-> job[w].due, upto |-> at[w],
                                          key |-> idempotency_key(w), run |-> TRUE]}
            /\ UNCHANGED <<lock, job, at>>
  /\ UNCHANGED <<now, nextRun, deleted, edit, overQuota, edited, retried, crashes>>

\* The schedule's own transaction commits.
advance(w) ==
  /\ pc[w] = "advance"
  /\ Advance(w)
  /\ UNCHANGED <<now, deleted, fired, edit, overQuota, edited, retried, crashes>>

\* The process dies or its transaction fails: the row lock is released.
crash(w) ==
  /\ pc[w] # "idle" /\ crashes < MaxCrashes
  /\ crashes' = crashes + 1
  /\ Leave(w, "idle")
  /\ lock' = [s \in Ids |-> IF lock[s] = w THEN NoWorker ELSE lock[s]]
  /\ retried' = IF pc[w] = "advance" THEN retried \cup {job[w].schedule} ELSE retried
  /\ UNCHANGED <<now, nextRun, deleted, fired, edit, overQuota, edited>>
-----------------------------------------------------------------------------
(* Users.                                                                  *)

\* update_schedule computes the next occurrence, or NULL to disable ...
begin_update(s) ==
  /\ s \in Editable \ deleted /\ edit[s] = NoEdit
  /\ \E n \in {next_occurrence(s, now), NoTime} : edit' = [edit EXCEPT ![s] = n]
  /\ UNCHANGED <<now, nextRun, deleted, lock, workerVars, fired, overQuota, edited, retried, crashes>>

\* ... and writes it once the row lock is free, unless the row was deleted.
commit_update(s) ==
  /\ edit[s] # NoEdit /\ lock[s] = NoWorker
  /\ edit' = [edit EXCEPT ![s] = NoEdit]
  /\ nextRun' = [nextRun EXCEPT ![s] = IF s \in deleted THEN @ ELSE edit[s]]
  /\ edited' = edited \cup {s}
  /\ UNCHANGED <<now, deleted, lock, workerVars, fired, overQuota, retried, crashes>>

delete_schedule(s) ==
  /\ s \in Editable \ deleted /\ lock[s] = NoWorker
  /\ deleted' = deleted \cup {s}
  /\ nextRun' = [nextRun EXCEPT ![s] = NoTime]
  /\ UNCHANGED <<now, lock, workerVars, fired, edit, overQuota, edited, retried, crashes>>

\* Other runs of the creator start and end.
quota_changes(s) ==
  /\ s \in Limited
  /\ overQuota' = IF s \in overQuota THEN overQuota \ {s} ELSE overQuota \cup {s}
  /\ UNCHANGED <<now, nextRun, deleted, lock, workerVars, fired, edit, edited, retried, crashes>>

tick ==
  /\ now < MaxTime
  /\ now' = now + 1
  /\ UNCHANGED <<nextRun, deleted, lock, workerVars, fired, edit, overQuota, edited, retried, crashes>>
-----------------------------------------------------------------------------
Trigger(w) ==
  \/ poll(w) \/ pick(w) \/ block(w) \/ prepare_scheduled_run(w) \/ create_run(w) \/ advance(w)

Next ==
  \/ \E w \in Workers : Trigger(w) \/ crash(w)
  \/ \E s \in Ids : begin_update(s) \/ commit_update(s) \/ delete_schedule(s) \/ quota_changes(s)
  \/ tick

\* Workers keep polling and finish their loop; they die finitely often.
Spec == Init /\ [][Next]_vars /\ \A w \in Workers : WF_vars(Trigger(w))
-----------------------------------------------------------------------------
\* At most one run per occurrence, however many workers poll, die after
\* create_run or race with an update that puts an old due time back: the
\* comment in trigger_due_schedules calls this the safe retry.
OneRunPerOccurrence ==
  \A f, g \in fired : f.run /\ g.run /\ f.schedule = g.schedule /\ f.due = g.due => f = g

\* Every occurrence that has been passed over is in exactly one firing, late
\* polls included, as long as no update rewrote next_run_at and no worker
\* died between run and advance (the retry finds the run of the first
\* attempt and passes over what fell due since).
EveryOccurrenceOnce ==
  \A s \in Ids \ (edited \cup retried \cup deleted) :
    \A t \in {x \in 1..MaxTime : x % Period[s] = 0 /\ x < nextRun[s]} :
      Cardinality({f \in fired : f.schedule = s /\ f.due <= t /\ t <= f.upto}) = 1

\* Both, for the due schedules of trigger_due_schedules.
OccurrencesOnce == OneRunPerOccurrence /\ EveryOccurrenceOnce

\* A due schedule is dealt with, unless some due schedule has a creator
\* whose quota is exhausted: that one ends every loop with an error and
\* holds back all schedules behind it.
Overlooked(s) == IsDue(s, now) /\ \A x \in Ids : IsDue(x, now) => x \notin overQuota
ServedUnlessQuota == \A s \in Ids : ~<>[]Overlooked(s)
=============================================================================
