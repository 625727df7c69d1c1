------------------------------ MODULE EventLog ------------------------------
(***************************************************************************)
(* The event log of one run and its stream to a client: the transactions   *)
(* that append events (append_event_tx_with_id, with the leased and        *)
(* accounted form executors use), the retention job, and the Server-Sent   *)
(* Events handler run_events with a client that reconnects by              *)
(* last-event-id.                                                          *)
(*                                                                         *)
(* An append takes the run's row lock, draws the next sequence number and  *)
(* commits or rolls back later; readers see committed rows only.           *)
(***************************************************************************)
EXTENDS Naturals, Sequences, FiniteSets, SequenceTheorems, FiniteSetTheorems, TLAPS

CONSTANTS
  Sources,    \* stable source event ids of the executor's usage reports
  ServerId,   \* stands for the fresh id of every other event
  Batch,      \* limit of one get_run_events call of the stream (250)
  MaxEvents,  \* bound: events of the run
  MaxFaults   \* bound: lost connections and failed reads of the stream

EventAssumption ==
  /\ ServerId \notin Sources
  /\ Batch \in Nat \ {0} /\ MaxEvents \in Nat /\ MaxFaults \in Nat

VARIABLES
  nextSeq,   \* runs.next_event_sequence, as committed
  rows,      \* the run's committed run_events rows
  open,      \* appends that have not committed yet
  ended,     \* the run is terminal, and its lease gone
  usage,     \* committed usage records of the run
  written,   \* history: every row ever committed
  endSeq,    \* history: the sequence of the final state change, 0 before
  handler,   \* where the stream's handler is
  cursor,    \* the handler's cursor
  batch,     \* the sequence numbers it has read and not yet sent
  wire,      \* sent and not yet received
  received,  \* what the client has received, in order
  faults     \* faults so far

logVars == <<nextSeq, rows, open, ended, usage, written, endSeq>>
streamVars == <<handler, cursor, batch, wire, received, faults>>
vars == <<logVars, streamVars>>

Row == [seq : Nat, id : Sources \cup {ServerId}]

\* The log, the appends in flight and the stream keep their domains.
TypeOK ==
  /\ nextSeq \in Nat \ {0} /\ endSeq \in Nat /\ usage \in Nat
  /\ rows \subseteq Row /\ written \subseteq Row
  /\ open \subseteq [seq : Nat, id : Sources \cup {ServerId}, final : BOOLEAN]
  /\ ended \in BOOLEAN
  /\ handler \in {"closed", "read", "emit", "state", "last", "done"}
  /\ cursor \in Nat /\ faults \in 0..MaxFaults
  /\ batch \subseteq Nat /\ wire \in Seq(Nat) /\ received \in Seq(Nat)

\* create_run_tx has committed the Created event with the run.
Init ==
  /\ nextSeq = 2
  /\ rows = {[seq |-> 1, id |-> ServerId]} /\ written = rows
  /\ open = {} /\ ended = FALSE /\ usage = 0 /\ endSeq = 0
  /\ handler = "closed" /\ cursor = 0 /\ faults = 0
  /\ batch = {} /\ wire = <<>> /\ received = <<>>
-----------------------------------------------------------------------------
(* Appending.                                                              *)

\* Mutant: the sequence comes from the retained rows, as MAX(sequence) + 1.
NextFromRows == IF rows = {} THEN 1
                ELSE 1 + (CHOOSE n \in {e.seq : e \in rows} : \A e \in rows : e.seq <= n)

\* UPDATE runs SET next_event_sequence = next_event_sequence + 1.
NextSequence == nextSeq

\* Mutant: no row lock, the number is drawn from a shared counter.
append_unlocked(id, final) ==
  /\ nextSeq + Cardinality(open) <= MaxEvents
  /\ open' = open \cup {[seq |-> nextSeq + Cardinality(open), id |-> id, final |-> final]}
  /\ UNCHANGED <<nextSeq, rows, ended, usage, written, endSeq, streamVars>>

\* append_event_tx_with_id up to the commit: the row lock is taken, then the
\* number is drawn.
append_event_tx_with_id(id, final) ==
  /\ open = {}
  /\ nextSeq <= MaxEvents
  /\ open' = {[seq |-> NextSequence, id |-> id, final |-> final]}
  /\ UNCHANGED <<nextSeq, rows, ended, usage, written, endSeq, streamVars>>

\* append_leased_event_with_accounting: needs a valid lease; a source id that
\* is in the log already is answered with the stored event (no change).
append_external_leased_event(id) ==
  /\ ~ended
  /\ \A e \in rows : e.id # id
  /\ append_event_tx_with_id(id, FALSE)

\* Every other append; the one that ends the run is part of the transaction
\* that makes the run terminal.  Later ones come from desktop clean-up.
append_server_event(final) ==
  /\ final => ~ended
  /\ append_event_tx_with_id(ServerId, final)

\* The commit makes the row, the counter, the usage record and the final
\* state visible together.
commit_event ==
  \E t \in open :
    LET row == [seq |-> t.seq, id |-> t.id] IN
    /\ open' = open \ {t}
    /\ rows' = rows \cup {row} /\ written' = written \cup {row}
    /\ nextSeq' = IF t.seq >= nextSeq THEN t.seq + 1 ELSE nextSeq
    /\ usage' = IF t.id \in Sources THEN usage + 1 ELSE usage
    /\ ended' = (ended \/ t.final)
    /\ endSeq' = IF t.final THEN t.seq ELSE endSeq
    /\ UNCHANGED streamVars

rollback_event ==
  /\ open # {}
  /\ open' = {}
  /\ UNCHANGED <<nextSeq, rows, ended, usage, written, endSeq, streamVars>>

\* Mutant: the age of the event alone decides.
retention_of_open_runs ==
  \E n \in {e.seq : e \in rows} :
    /\ rows' = {e \in rows : e.seq > n}
    /\ UNCHANGED <<nextSeq, open, ended, usage, written, endSeq, streamVars>>

\* enforce_run_event_retention: the oldest rows of a terminal run go.
enforce_run_event_retention ==
  /\ ended
  /\ \E n \in {e.seq : e \in rows} :
       /\ rows' = {e \in rows : e.seq > n}
       /\ UNCHANGED <<nextSeq, open, ended, usage, written, endSeq, streamVars>>
-----------------------------------------------------------------------------
(* Streaming.                                                              *)

LastReceived == IF received = <<>> THEN 0 ELSE received[Len(received)]
RowsAfter(c) == {e.seq : e \in {x \in rows : x.seq > c}}

\* Mutant: the cursor starts before the last event seen.
reopen_before_last ==
  /\ handler = "closed"
  /\ handler' = "read" /\ cursor' = LastReceived - 1
  /\ UNCHANGED <<logVars, batch, wire, received, faults>>

\* The client connects with the last event id it has seen, if any.
open_stream ==
  /\ handler = "closed"
  /\ handler' = "read" /\ cursor' = LastReceived
  /\ UNCHANGED <<logVars, batch, wire, received, faults>>

\* get_run_events(cursor, 250).
read_events ==
  LET after == RowsAfter(cursor) IN
  /\ handler = "read"
  /\ handler' = "emit"
  /\ batch' = {n \in after : Cardinality({m \in after : m <= n}) <= Batch}
  /\ UNCHANGED <<logVars, cursor, wire, received, faults>>

\* The next event of the batch is sent; after the last one the state is read.
emit_event ==
  /\ handler = "emit"
  /\ \/ batch = {} /\ handler' = "state" /\ UNCHANGED <<cursor, batch, wire>>
     \/ \E n \in batch :
          /\ \A m \in batch : n <= m
          /\ cursor' = n /\ batch' = batch \ {n} /\ wire' = Append(wire, n)
          /\ UNCHANGED handler
  /\ UNCHANGED <<logVars, received, faults>>

read_state ==
  /\ handler = "state"
  /\ handler' = IF ended THEN "last" ELSE "read"
  /\ UNCHANGED <<logVars, cursor, batch, wire, received, faults>>

\* Mutant: a terminal run ends the stream at once.
stop_when_terminal ==
  /\ handler = "last"
  /\ handler' = "done"
  /\ UNCHANGED <<logVars, cursor, batch, wire, received, faults>>

\* A terminal run ends the stream only when nothing follows the cursor.
read_last ==
  /\ handler = "last"
  /\ handler' = IF RowsAfter(cursor) = {} THEN "done" ELSE "read"
  /\ UNCHANGED <<logVars, cursor, batch, wire, received, faults>>

client_receives ==
  /\ wire # <<>>
  /\ received' = Append(received, Head(wire)) /\ wire' = Tail(wire)
  /\ UNCHANGED <<logVars, handler, cursor, batch, faults>>

\* The connection breaks, or get_run fails and ends the handler: what was on
\* the wire is lost and the client opens a new stream.
connection_lost ==
  /\ handler # "closed" /\ faults < MaxFaults
  /\ handler' = "closed" /\ wire' = <<>> /\ batch' = {}
  /\ faults' = faults + 1
  /\ UNCHANGED <<logVars, cursor, received>>

\* A failed read of events is logged and the loop goes on.
read_fails ==
  /\ handler \in {"read", "last"} /\ faults < MaxFaults
  /\ handler' = IF handler = "read" THEN "state" ELSE "read"
  /\ faults' = faults + 1
  /\ UNCHANGED <<logVars, cursor, batch, wire, received>>
-----------------------------------------------------------------------------
StreamStep == open_stream \/ read_events \/ emit_event \/ read_state \/ read_last

Next ==
  \/ \E id \in Sources : append_external_leased_event(id)
  \/ \E final \in BOOLEAN : append_server_event(final)
  \/ commit_event \/ rollback_event
  \/ enforce_run_event_retention
  \/ StreamStep \/ client_receives \/ connection_lost \/ read_fails

\* The handler and the client's runtime keep going; writers need not.
Spec == Init /\ [][Next]_vars /\ WF_vars(StreamStep) /\ WF_vars(client_receives)
-----------------------------------------------------------------------------
\* Sequence numbers are given out without gaps and never twice, also after
\* the retention job has removed rows (the comment on the job says so).
GapFree ==
  /\ {e.seq : e \in written} = 1..(nextSeq - 1)
  /\ Cardinality(written) = nextSeq - 1
  /\ rows \subseteq written

\* An executor that repeats an event after a lost answer gets it stored and
\* its tokens charged once, over the whole life of the run.
ChargedOnce ==
  /\ \A e, f \in written : e.id = f.id /\ e.id \in Sources => e = f
  /\ usage = Cardinality({e \in written : e.id \in Sources})

\* The client sees the events in order and once, and has skipped nothing that
\* is still in the log, over any number of reconnections: sequence order is
\* commit order, so a cursor never passes an event that commits later.
StreamInOrder ==
  /\ \A i, j \in DOMAIN received : i < j => received[i] < received[j]
  /\ \A e \in rows : e.seq <= LastReceived => \E i \in DOMAIN received : received[i] = e.seq

\* The handler ends the stream only after it has sent everything up to the
\* event that ended the run, although it reads events and state separately.
EndsComplete ==
  handler = "done" => ended /\ \A e \in rows : e.seq <= endSeq => e.seq <= cursor

\* What the log and its stream promise.
LogSound == GapFree /\ ChargedOnce /\ StreamInOrder /\ EndsComplete

\* The client learns how the run ended, unless retention came first.
EndKnown == LastReceived >= endSeq \/ endSeq \notin {e.seq : e \in rows}
EndSeen == ended ~> EndKnown
-----------------------------------------------------------------------------
(* Proofs, for every batch size and every number of events and faults.  The *)
(* inductive invariant LogInv adds to the properties what they rest on: the *)
(* lock admits one append at a time, every number below the counter is      *)
(* taken, and every row up to a running handler's cursor was sent.          *)

\* Every number below the counter was given to exactly one row, and the table
\* holds all of them until the run has ended.
NumbersGiven ==
  /\ IsFiniteSet(written)
  /\ rows \subseteq written
  /\ ~ended => rows = written
  /\ \A e \in written : e.seq \in 1..(nextSeq - 1)
  /\ \A n \in 1..(nextSeq - 1) : \E e \in written : e.seq = n
  /\ \A e, f \in written : e.seq = f.seq => e = f
  /\ Cardinality(written) = nextSeq - 1
  /\ endSeq < nextSeq

\* The row lock admits one append, with the next number; a usage report in
\* flight is new and its run has not ended, nor has that of the final event.
OneInFlight ==
  \A t \in open :
    /\ t.seq = nextSeq
    /\ \A u \in open : u = t
    /\ t.final \/ t.id \in Sources => ~ended
    /\ t.id \in Sources => \A e \in rows : e.id # t.id

\* A sequence without repetition and in order; a number that left the handler.
Increasing(s) == \A i, j \in 1..Len(s) : i < j => s[i] < s[j]
Sent(n) == \/ \E i \in 1..Len(received) : received[i] = n
           \/ \E i \in 1..Len(wire) : wire[i] = n

\* What was received and what is on the wire is one increasing sequence.
WireFollows ==
  /\ Increasing(received) /\ Increasing(wire)
  /\ \A i \in 1..Len(received), j \in 1..Len(wire) : received[i] < wire[j]
  /\ \A i \in 1..Len(received) : received[i] < nextSeq
  /\ \A e \in rows : \A i \in 1..Len(received) : e.seq <= received[i] =>
       \E j \in 1..Len(received) : received[j] = e.seq

\* While a handler runs, every row up to its cursor was sent and nothing
\* beyond it, and its batch is what follows the cursor, without a gap.
CursorSound ==
  /\ handler = "closed" => wire = <<>>
  /\ handler # "emit" => batch = {}
  /\ handler \in {"last", "done"} => ended
  /\ handler # "closed" =>
       /\ cursor < nextSeq
       /\ \A i \in 1..Len(received) : received[i] <= cursor
       /\ \A i \in 1..Len(wire) : wire[i] <= cursor
       /\ \A e \in rows : e.seq <= cursor => Sent(e.seq)
       /\ \A n \in batch : /\ cursor < n /\ n < nextSeq
                           /\ \A e \in rows : cursor < e.seq /\ e.seq <= n => e.seq \in batch

LogInv == TypeOK /\ NumbersGiven /\ OneInFlight /\ ChargedOnce /\ WireFollows /\ CursorSound /\ EndsComplete
-----------------------------------------------------------------------------
\* Appending at the end of an increasing sequence.
LEMMA AppendAtEnd ==
  ASSUME NEW s \in Seq(Nat), NEW n \in Nat
  PROVE  /\ Append(s, n) \in Seq(Nat) /\ Len(s) \in Nat /\ Len(Append(s, n)) = Len(s) + 1
         /\ \A i \in 1..Len(s) : Append(s, n)[i] = s[i] /\ s[i] \in Nat
         /\ Append(s, n)[Len(s) + 1] = n
         /\ \A i \in 1..Len(Append(s, n)) : i \in 1..Len(s) \/ i = Len(s) + 1
         /\ Increasing(s) /\ (\A i \in 1..Len(s) : s[i] < n) => Increasing(Append(s, n))
<1>1. Append(s, n) \in Seq(Nat) /\ Len(s) \in Nat /\ Len(Append(s, n)) = Len(s) + 1
  OBVIOUS
<1>2. \A i \in 1..Len(s) : Append(s, n)[i] = s[i] /\ s[i] \in Nat
  BY ElementOfSeq
<1>3. Append(s, n)[Len(s) + 1] = n
  OBVIOUS
<1>4. \A i \in 1..Len(Append(s, n)) : i \in 1..Len(s) \/ i = Len(s) + 1
  BY <1>1
<1>5. ASSUME Increasing(s), \A i \in 1..Len(s) : s[i] < n,
             NEW i \in 1..Len(Append(s, n)), NEW j \in 1..Len(Append(s, n)), i < j
      PROVE  Append(s, n)[i] < Append(s, n)[j]
  <2>1. i \in 1..Len(s)
    BY <1>1, <1>5
  <2>2. CASE j \in 1..Len(s)
    BY <1>2, <1>5, <2>1, <2>2 DEF Increasing
  <2>3. CASE j = Len(s) + 1
    BY <1>2, <1>3, <1>5, <2>1, <2>3
  <2> QED
    BY <1>4, <2>2, <2>3
<1> QED
  BY <1>1, <1>2, <1>3, <1>4, <1>5 DEF Increasing

\* Taking from the front of an increasing sequence.
LEMMA TakeFromFront ==
  ASSUME NEW s \in Seq(Nat), s # <<>>
  PROVE  /\ Tail(s) \in Seq(Nat) /\ Len(s) \in Nat \ {0} /\ Len(Tail(s)) = Len(s) - 1
         /\ Head(s) = s[1] /\ s[1] \in Nat
         /\ \A i \in 1..Len(Tail(s)) : i + 1 \in 1..Len(s) /\ Tail(s)[i] = s[i + 1] /\ s[i + 1] \in Nat
         /\ Increasing(s) =>
              /\ Increasing(Tail(s))
              /\ \A i \in 1..Len(Tail(s)) : s[1] < Tail(s)[i]
              /\ \A i \in 1..Len(s) : s[1] <= s[i]
<1>1. Tail(s) \in Seq(Nat) /\ Len(s) \in Nat \ {0} /\ Len(Tail(s)) = Len(s) - 1
  BY EmptySeq, HeadTailProperties
<1>2. Head(s) = s[1] /\ 1 \in 1..Len(s)
  BY <1>1
<1>3. \A i \in 1..Len(s) : s[i] \in Nat
  BY ElementOfSeq
<1>4. \A i \in 1..Len(Tail(s)) : i + 1 \in 1..Len(s) /\ Tail(s)[i] = s[i + 1]
  BY <1>1, HeadTailProperties
<1>5. ASSUME Increasing(s), NEW i \in 1..Len(Tail(s)), NEW j \in 1..Len(Tail(s)), i < j
      PROVE  Tail(s)[i] < Tail(s)[j]
  <2>1. i + 1 < j + 1
    BY <1>5
  <2> QED
    BY <1>4, <1>5, <2>1 DEF Increasing
<1>6. ASSUME Increasing(s), NEW i \in 1..Len(Tail(s))
      PROVE  s[1] < Tail(s)[i]
  BY <1>2, <1>4, <1>6 DEF Increasing
<1>7. ASSUME Increasing(s), NEW i \in 1..Len(s)
      PROVE  s[1] <= s[i]
  BY <1>2, <1>3, <1>7 DEF Increasing
<1> QED
  BY <1>1, <1>2, <1>3, <1>4, <1>5, <1>6, <1>7 DEF Increasing

\* The log of a new run holds its Created event.
LEMMA LogInit ==
  ASSUME EventAssumption, Init
  PROVE  LogInv
<1> DEFINE created == [seq |-> 1, id |-> ServerId]
<1>1. IsFiniteSet({created}) /\ Cardinality({created}) = 1
  BY FS_Singleton
<1>2. written = {created} /\ rows = {created} /\ nextSeq = 2
  BY DEF Init
<1>3. TypeOK
  <2>1. rows \subseteq Row /\ written \subseteq Row
    BY <1>2 DEF Row
  <2>2. wire \in Seq(Nat) /\ received \in Seq(Nat)
    BY EmptySeq DEF Init
  <2>3. /\ nextSeq \in Nat \ {0} /\ endSeq \in Nat /\ usage \in Nat
        /\ cursor \in Nat /\ faults \in 0..MaxFaults
    BY DEF Init, EventAssumption
  <2>4. /\ open \subseteq [seq : Nat, id : Sources \cup {ServerId}, final : BOOLEAN]
        /\ ended \in BOOLEAN /\ batch \subseteq Nat
        /\ handler \in {"closed", "read", "emit", "state", "last", "done"}
    BY DEF Init
  <2> QED
    BY <2>1, <2>2, <2>3, <2>4 DEF TypeOK
<1>4. NumbersGiven
  BY <1>1, <1>2 DEF Init, NumbersGiven
<1>5. ChargedOnce
  <2>1. {e \in written : e.id \in Sources} = {}
    BY <1>2 DEF EventAssumption
  <2> QED
    BY <1>2, <2>1, FS_EmptySet DEF Init, ChargedOnce
<1>6. OneInFlight /\ WireFollows /\ CursorSound /\ EndsComplete
  BY DEF Init, OneInFlight, WireFollows, Increasing, CursorSound, EndsComplete
<1> QED
  BY <1>3, <1>4, <1>5, <1>6 DEF LogInv

\* An append that is in flight is invisible.
LEMMA AppendKeeps ==
  ASSUME EventAssumption, LogInv, NEW id \in Sources \cup {ServerId}, NEW final \in BOOLEAN,
         append_event_tx_with_id(id, final),
         final \/ id \in Sources => ~ended,
         id \in Sources => \A e \in rows : e.id # id
  PROVE  LogInv'
<1> USE DEF append_event_tx_with_id, NextSequence, streamVars
<1>1. TypeOK'
  BY DEF LogInv, TypeOK
<1>2. OneInFlight'
  BY DEF LogInv, OneInFlight, TypeOK
<1>3. NumbersGiven' /\ ChargedOnce' /\ EndsComplete'
  BY DEF LogInv, NumbersGiven, ChargedOnce, EndsComplete
<1>4. WireFollows' /\ CursorSound'
  BY DEF LogInv, WireFollows, Increasing, CursorSound, Sent
<1> QED
  BY <1>1, <1>2, <1>3, <1>4 DEF LogInv

\* The commit adds one row, numbered as the counter says, which is beyond
\* every cursor.
LEMMA CommitKeeps ==
  ASSUME EventAssumption, LogInv, commit_event
  PROVE  LogInv'
<1>1. PICK t \in open :
        /\ open' = open \ {t}
        /\ rows' = rows \cup {[seq |-> t.seq, id |-> t.id]}
        /\ written' = written \cup {[seq |-> t.seq, id |-> t.id]}
        /\ nextSeq' = IF t.seq >= nextSeq THEN t.seq + 1 ELSE nextSeq
        /\ usage' = IF t.id \in Sources THEN usage + 1 ELSE usage
        /\ ended' = (ended \/ t.final)
        /\ endSeq' = IF t.final THEN t.seq ELSE endSeq
        /\ UNCHANGED streamVars
  BY DEF commit_event
<1> DEFINE row == [seq |-> t.seq, id |-> t.id]
<1>2. t.seq = nextSeq /\ open' = {} /\ nextSeq' = nextSeq + 1 /\ nextSeq \in Nat \ {0}
      /\ t.id \in Sources \cup {ServerId} /\ t.final \in BOOLEAN
  BY <1>1 DEF LogInv, OneInFlight, TypeOK
<1>3. row.seq = nextSeq /\ row.id = t.id /\ row \in Row /\ row \notin written
  BY <1>2 DEF LogInv, NumbersGiven, Row
<1>4. /\ t.final \/ t.id \in Sources => ~ended
      /\ t.id \in Sources => \A e \in rows : e.id # t.id
  BY DEF LogInv, OneInFlight
<1>5. TypeOK'
  BY <1>1, <1>2, <1>3 DEF LogInv, TypeOK, streamVars
<1>6. NumbersGiven'
  <2>1. IsFiniteSet(written') /\ Cardinality(written') = nextSeq' - 1
    <3>1. written' = written \cup {row}
      BY <1>1
    <3>2. IsFiniteSet(written) /\ Cardinality(written) = nextSeq - 1
      BY DEF LogInv, NumbersGiven
    <3>3. IsFiniteSet(written \cup {row}) /\ Cardinality(written \cup {row}) = Cardinality(written) + 1
      BY <1>3, <3>2, FS_AddElement
    <3> QED
      BY <1>2, <3>1, <3>2, <3>3
  <2>2. \A e \in written' : e.seq \in 1..(nextSeq' - 1)
    BY <1>1, <1>2, <1>3 DEF LogInv, NumbersGiven
  <2>3. \A n \in 1..(nextSeq' - 1) : \E e \in written' : e.seq = n
    BY <1>1, <1>2, <1>3 DEF LogInv, NumbersGiven
  <2>4. \A e, f \in written' : e.seq = f.seq => e = f
    BY <1>1, <1>2, <1>3 DEF LogInv, NumbersGiven
  <2>5. rows' \subseteq written' /\ (~ended' => rows' = written')
    BY <1>1 DEF LogInv, NumbersGiven
  <2>6. endSeq' < nextSeq'
    BY <1>1, <1>2 DEF LogInv, NumbersGiven, TypeOK
  <2> QED
    BY <2>1, <2>2, <2>3, <2>4, <2>5, <2>6 DEF NumbersGiven
<1>7. OneInFlight'
  BY <1>2 DEF OneInFlight
<1>8. ChargedOnce'
  <2> DEFINE reports == {e \in written : e.id \in Sources}
  <2>1. IsFiniteSet(reports) /\ row \notin reports
    BY <1>3, FS_Subset DEF LogInv, NumbersGiven
  <2>2. \A e, f \in written' : e.id = f.id /\ e.id \in Sources => e = f
    BY <1>1, <1>3, <1>4 DEF LogInv, NumbersGiven, ChargedOnce
  <2>3. CASE t.id \in Sources
    <3>1. {e \in written' : e.id \in Sources} = reports \cup {row}
      BY <1>1, <1>3, <2>3
    <3>2. Cardinality(reports \cup {row}) = Cardinality(reports) + 1
      BY <2>1, FS_AddElement
    <3>3. usage' = usage + 1 /\ usage = Cardinality(reports)
      BY <1>1, <2>3 DEF LogInv, ChargedOnce
    <3> QED
      BY <2>2, <3>1, <3>2, <3>3 DEF ChargedOnce
  <2>4. CASE t.id \notin Sources
    <3>1. {e \in written' : e.id \in Sources} = reports
      BY <1>1, <1>3, <2>4
    <3> QED
      BY <1>1, <2>2, <2>4, <3>1 DEF LogInv, ChargedOnce
  <2> QED
    BY <2>3, <2>4
<1>9. WireFollows'
  <2>1. UNCHANGED <<received, wire>>
    BY <1>1 DEF streamVars
  <2>2. \A i \in 1..Len(received) : received[i] \in Nat /\ received[i] < nextSeq
    BY ElementOfSeq DEF LogInv, TypeOK, WireFollows
  <2>3. \A e \in rows' : \A i \in 1..Len(received) : e.seq <= received[i] =>
          \E j \in 1..Len(received) : received[j] = e.seq
    BY <1>1, <1>2, <1>3, <2>2 DEF LogInv, WireFollows
  <2>4. \A i \in 1..Len(received) : received[i] < nextSeq'
    BY <1>2, <2>2
  <2> QED
    BY <2>1, <2>3, <2>4 DEF LogInv, WireFollows, Increasing
<1>10. CursorSound'
  <2> USE <1>1, <1>2, <1>3 DEF streamVars, LogInv, CursorSound, TypeOK
  <2>1. ASSUME handler # "closed", NEW e \in rows', e.seq <= cursor
        PROVE  Sent(e.seq)
    BY <2>1
  <2>2. ASSUME handler # "closed", NEW n \in batch
        PROVE  /\ cursor < n /\ n < nextSeq'
               /\ \A e \in rows' : cursor < e.seq /\ e.seq <= n => e.seq \in batch
    BY <2>2
  <2>3. \A n : Sent(n)' <=> Sent(n)
    BY DEF Sent
  <2> QED
    BY <2>1, <2>2, <2>3
<1>11. EndsComplete'
  <2>1. SUFFICES ASSUME handler = "done", NEW e \in rows', e.seq <= endSeq'
                 PROVE  ended' /\ e.seq <= cursor
    BY <1>1 DEF LogInv, EndsComplete, streamVars
  <2>2. ended /\ ~t.final
    BY <1>2, <1>4, <2>1 DEF LogInv, EndsComplete
  <2>3. endSeq' = endSeq /\ endSeq < nextSeq /\ endSeq \in Nat
    BY <1>1, <2>2 DEF LogInv, NumbersGiven, TypeOK
  <2>4. e # row
    BY <1>2, <1>3, <2>1, <2>3
  <2> QED
    BY <1>1, <2>1, <2>2, <2>3, <2>4 DEF LogInv, EndsComplete
<1> QED
  BY <1>5, <1>6, <1>7, <1>8, <1>9, <1>10, <1>11 DEF LogInv

\* A rollback forgets the number.
LEMMA RollbackKeeps ==
  ASSUME LogInv, rollback_event
  PROVE  LogInv'
<1> USE DEF rollback_event, streamVars
<1>1. TypeOK' /\ OneInFlight'
  BY DEF LogInv, TypeOK, OneInFlight
<1>2. NumbersGiven' /\ ChargedOnce' /\ EndsComplete'
  BY DEF LogInv, NumbersGiven, ChargedOnce, EndsComplete
<1>3. WireFollows' /\ CursorSound'
  BY DEF LogInv, WireFollows, Increasing, CursorSound, Sent
<1> QED
  BY <1>1, <1>2, <1>3 DEF LogInv

\* Retention removes rows of a run that has ended, and nothing else.
LEMMA RetentionKeeps ==
  ASSUME LogInv, enforce_run_event_retention
  PROVE  LogInv'
<1>1. /\ ended /\ rows' \subseteq rows
      /\ UNCHANGED <<nextSeq, open, ended, usage, written, endSeq, streamVars>>
  BY DEF enforce_run_event_retention
<1> USE <1>1 DEF streamVars
<1>2. TypeOK' /\ OneInFlight'
  BY DEF LogInv, TypeOK, OneInFlight
<1>3. NumbersGiven' /\ ChargedOnce' /\ EndsComplete'
  BY DEF LogInv, NumbersGiven, ChargedOnce, EndsComplete
<1>4. WireFollows' /\ CursorSound'
  BY DEF LogInv, WireFollows, Increasing, CursorSound, Sent
<1> QED
  BY <1>2, <1>3, <1>4 DEF LogInv

\* The last event received is the greatest, and no row up to it was skipped.
LEMMA LastIsGreatest ==
  ASSUME LogInv
  PROVE  /\ LastReceived \in Nat /\ LastReceived < nextSeq
         /\ \A i \in 1..Len(received) : received[i] <= LastReceived
         /\ \A e \in rows : e.seq <= LastReceived =>
              \E j \in 1..Len(received) : received[j] = e.seq
<1>1. received \in Seq(Nat) /\ nextSeq \in Nat \ {0} /\ rows \subseteq Row
  BY DEF LogInv, TypeOK
<1>2. CASE received = <<>>
  <2>1. Len(received) = 0 /\ LastReceived = 0
    BY <1>2, EmptySeq DEF LastReceived
  <2>2. \A e \in rows : e.seq > 0
    BY <1>1 DEF LogInv, NumbersGiven, Row
  <2> QED
    BY <1>1, <2>1, <2>2 DEF Row
<1>3. CASE received # <<>>
  <2>1. Len(received) \in Nat \ {0}
    BY <1>1, <1>3, EmptySeq
  <2>2. LastReceived = received[Len(received)] /\ Len(received) \in 1..Len(received)
    BY <1>3, <2>1 DEF LastReceived
  <2>3. \A i \in 1..Len(received) : received[i] \in Nat
    BY <1>1, ElementOfSeq
  <2>4. \A i \in 1..Len(received) : received[i] <= received[Len(received)]
    BY <2>1, <2>3 DEF LogInv, WireFollows, Increasing
  <2> QED
    BY <2>2, <2>3, <2>4 DEF LogInv, WireFollows
<1> QED
  BY <1>2, <1>3

\* A new handler starts at the last event the client has received.
LEMMA OpenKeeps ==
  ASSUME LogInv, open_stream
  PROVE  LogInv'
<1> USE DEF open_stream, logVars
<1>1. TypeOK' /\ OneInFlight'
  BY LastIsGreatest DEF LogInv, TypeOK, OneInFlight
<1>2. NumbersGiven' /\ ChargedOnce' /\ EndsComplete'
  BY DEF LogInv, NumbersGiven, ChargedOnce, EndsComplete
<1>3. WireFollows'
  BY DEF LogInv, WireFollows, Increasing
<1>4. CursorSound'
  <2>1. wire = <<>> /\ Len(wire) = 0 /\ batch = {}
    BY EmptySeq DEF LogInv, CursorSound
  <2> QED
    BY <2>1, LastIsGreatest DEF CursorSound, Sent
<1> QED
  BY <1>1, <1>2, <1>3, <1>4 DEF LogInv

\* The rows a query returns are the first ones after the cursor.
LEMMA ReadKeeps ==
  ASSUME EventAssumption, LogInv, read_events
  PROVE  LogInv'
<1> DEFINE after == RowsAfter(cursor)
           upTo(n) == {m \in after : m <= n}
<1>1. /\ handler = "read" /\ handler' = "emit"
      /\ batch' = {n \in after : Cardinality(upTo(n)) <= Batch}
      /\ UNCHANGED <<logVars, cursor, wire, received, faults>>
  BY DEF read_events
<1>2. cursor \in Nat /\ nextSeq \in Nat /\ rows \subseteq Row /\ rows \subseteq written
  BY DEF LogInv, TypeOK, NumbersGiven
<1>3. after = {e.seq : e \in {x \in rows : x.seq > cursor}}
  BY DEF RowsAfter
<1>4. \A n \in after : n \in Nat /\ cursor < n /\ n < nextSeq
  BY <1>2, <1>3 DEF LogInv, NumbersGiven, Row
<1>5. \A e \in rows : cursor < e.seq => e.seq \in after
  BY <1>2, <1>3 DEF Row
<1>6. ASSUME NEW m \in after, NEW n \in batch', m <= n
      PROVE  m \in batch'
  <2>1. n \in after /\ Cardinality(upTo(n)) <= Batch
    BY <1>1
  <2>2. upTo(n) \subseteq Nat /\ n \in Nat /\ \A k \in upTo(n) : k <= n
    BY <1>4, <2>1
  <2>3. IsFiniteSet(upTo(n))
    BY <2>2, FS_BoundedSetOfNaturals
  <2>4. upTo(m) \subseteq upTo(n)
    BY <1>4, <1>6, <2>1
  <2>5. /\ Cardinality(upTo(m)) <= Cardinality(upTo(n))
        /\ Cardinality(upTo(m)) \in Nat /\ Cardinality(upTo(n)) \in Nat
    BY <2>3, <2>4, FS_Subset, FS_CardinalityType
  <2>6. Cardinality(upTo(m)) <= Batch
    BY <2>1, <2>5 DEF EventAssumption
  <2> QED
    BY <1>1, <2>6
<1>7. TypeOK' /\ OneInFlight'
  BY <1>1, <1>4 DEF LogInv, TypeOK, OneInFlight, logVars
<1>8. NumbersGiven' /\ ChargedOnce' /\ EndsComplete'
  BY <1>1 DEF LogInv, NumbersGiven, ChargedOnce, EndsComplete, logVars
<1>9. WireFollows'
  BY <1>1 DEF LogInv, WireFollows, Increasing, logVars
<1>10. CursorSound'
  <2>1. \A n \in batch' : /\ cursor < n /\ n < nextSeq
                          /\ \A e \in rows : cursor < e.seq /\ e.seq <= n => e.seq \in batch'
    BY <1>1, <1>4, <1>5, <1>6
  <2>2. \A n : Sent(n)' <=> Sent(n)
    BY <1>1 DEF Sent
  <2> HIDE DEF after
  <2> QED
    BY <1>1, <2>1, <2>2 DEF LogInv, CursorSound, logVars
<1> QED
  BY <1>7, <1>8, <1>9, <1>10 DEF LogInv

\* Sending the smallest event of the batch moves the cursor over no other row.
LEMMA EmitKeeps ==
  ASSUME LogInv, emit_event
  PROVE  LogInv'
<1> USE DEF logVars
<1>1. CASE batch = {} /\ handler' = "state" /\ UNCHANGED <<cursor, batch, wire, logVars, received, faults>>
  <2>1. TypeOK' /\ OneInFlight'
    BY <1>1 DEF LogInv, TypeOK, OneInFlight
  <2>2. NumbersGiven' /\ ChargedOnce' /\ EndsComplete'
    BY <1>1 DEF LogInv, NumbersGiven, ChargedOnce, EndsComplete
  <2>3. WireFollows'
    BY <1>1 DEF LogInv, WireFollows, Increasing
  <2>4. CursorSound'
    BY <1>1 DEF LogInv, CursorSound, Sent, emit_event
  <2> QED
    BY <2>1, <2>2, <2>3, <2>4 DEF LogInv
<1>2. ASSUME NEW n \in batch, \A m \in batch : n <= m,
             cursor' = n, batch' = batch \ {n}, wire' = Append(wire, n),
             UNCHANGED <<handler, logVars, received, faults>>
      PROVE  LogInv'
  <2>1. /\ handler = "emit" /\ cursor \in Nat /\ n \in Nat /\ wire \in Seq(Nat)
        /\ received \in Seq(Nat) /\ nextSeq \in Nat /\ cursor < n /\ n < nextSeq
    BY DEF LogInv, TypeOK, CursorSound, emit_event
  <2>2. /\ wire' \in Seq(Nat) /\ Len(wire') = Len(wire) + 1 /\ Len(wire) \in Nat
        /\ \A i \in 1..Len(wire) : wire'[i] = wire[i]
        /\ wire'[Len(wire) + 1] = n
        /\ \A i \in 1..Len(wire') : i \in 1..Len(wire) \/ i = Len(wire) + 1
    BY <1>2, <2>1, AppendAtEnd
  <2>3. /\ \A i \in 1..Len(wire) : wire[i] \in Nat /\ wire[i] <= cursor
        /\ \A i \in 1..Len(received) : received[i] \in Nat /\ received[i] <= cursor
    BY <2>1, ElementOfSeq DEF LogInv, CursorSound
  <2>4. TypeOK' /\ OneInFlight'
    BY <1>2, <2>1, <2>2 DEF LogInv, TypeOK, OneInFlight
  <2>5. NumbersGiven' /\ ChargedOnce' /\ EndsComplete'
    BY <1>2, <2>1 DEF LogInv, NumbersGiven, ChargedOnce, EndsComplete
  <2>6. WireFollows'
    <3>1. Increasing(wire')
      <4>1. Increasing(wire) /\ \A i \in 1..Len(wire) : wire[i] < n
        BY <2>1, <2>3 DEF LogInv, WireFollows
      <4> QED
        BY <1>2, <2>1, <4>1, AppendAtEnd
    <3>2. ASSUME NEW i \in 1..Len(received), NEW j \in 1..Len(wire')
          PROVE  received[i] < wire'[j]
      <4>1. CASE j \in 1..Len(wire)
        BY <2>2, <4>1 DEF LogInv, WireFollows
      <4>2. CASE j = Len(wire) + 1
        BY <2>1, <2>2, <2>3, <4>2
      <4> QED
        BY <2>2, <4>1, <4>2
    <3> QED
      BY <1>2, <3>1, <3>2 DEF LogInv, WireFollows, Increasing
  <2>7. CursorSound'
    <3>1. ASSUME NEW i \in 1..Len(wire')
          PROVE  wire'[i] <= n
      <4>1. CASE i \in 1..Len(wire)
        <5>1. wire'[i] = wire[i] /\ wire[i] \in Nat /\ wire[i] <= cursor
          BY <2>2, <2>3, <4>1
        <5> QED
          BY <2>1, <5>1
      <4>2. CASE i = Len(wire) + 1
        BY <2>1, <2>2, <4>2
      <4> QED
        BY <2>2, <4>1, <4>2
    <3>2. \A i \in 1..Len(received) : received[i] <= n
      BY <2>1, <2>3
    <3>3. ASSUME NEW e \in rows, e.seq <= n
          PROVE  Sent(e.seq)'
      <4>1. e.seq \in Nat
        BY DEF LogInv, TypeOK, Row
      <4>2. CASE e.seq <= cursor
        <5>1. Sent(e.seq)
          BY <2>1, <4>2 DEF LogInv, CursorSound
        <5> QED
          BY <1>2, <2>2, <5>1 DEF Sent
      <4>3. CASE cursor < e.seq
        <5>1. e.seq = n
          BY <1>2, <2>1, <3>3, <4>1, <4>3 DEF LogInv, CursorSound
        <5> QED
          BY <2>2, <5>1 DEF Sent
      <4> QED
        BY <2>1, <4>1, <4>2, <4>3
    <3>4. ASSUME NEW k \in batch'
          PROVE  /\ n < k /\ k < nextSeq
                 /\ \A e \in rows : n < e.seq /\ e.seq <= k => e.seq \in batch'
      <4>1. k \in batch /\ k # n /\ k \in Nat
        BY <1>2 DEF LogInv, TypeOK
      <4>2. \A e \in rows : e.seq \in Nat
        BY DEF LogInv, TypeOK, Row
      <4>3. n < k /\ k < nextSeq
        BY <1>2, <2>1, <4>1 DEF LogInv, CursorSound
      <4> QED
        BY <1>2, <2>1, <4>1, <4>2, <4>3 DEF LogInv, CursorSound
    <3> QED
      BY <1>2, <2>1, <3>1, <3>2, <3>3, <3>4 DEF CursorSound
  <2> QED
    BY <2>4, <2>5, <2>6, <2>7 DEF LogInv
<1> QED
  BY <1>1, <1>2 DEF emit_event

\* The handler leaves its loop only over a terminal run with nothing after
\* the cursor, at which moment every row was sent.
LEMMA ReadStateKeeps ==
  ASSUME LogInv, read_state \/ read_last
  PROVE  LogInv'
<1> USE DEF logVars, read_state, read_last
<1>1. UNCHANGED <<logVars, cursor, batch, wire, received, faults>> /\ handler # "emit" /\ handler # "closed"
  OBVIOUS
<1>2. TypeOK' /\ OneInFlight'
  <2>1. handler' \in {"closed", "read", "emit", "state", "last", "done"}
    OBVIOUS
  <2> QED
    BY <1>1, <2>1 DEF LogInv, TypeOK, OneInFlight
<1>3. NumbersGiven' /\ ChargedOnce'
  BY DEF LogInv, NumbersGiven, ChargedOnce
<1>4. WireFollows'
  BY DEF LogInv, WireFollows, Increasing
<1>5. CursorSound'
  BY <1>1 DEF LogInv, CursorSound, Sent
<1>6. EndsComplete'
  <2>1. SUFFICES ASSUME handler' = "done"
                 PROVE  ended /\ \A e \in rows : e.seq <= cursor
    BY DEF EndsComplete
  <2>2. handler = "last" /\ RowsAfter(cursor) = {}
    BY <2>1
  <2>3. \A e \in rows : e.seq \in Nat
    BY DEF LogInv, TypeOK, Row
  <2>4. \A e \in rows : ~(e.seq > cursor)
    BY <2>2 DEF RowsAfter
  <2> QED
    BY <2>2, <2>3, <2>4 DEF LogInv, CursorSound, TypeOK
<1> QED
  BY <1>2, <1>3, <1>4, <1>5, <1>6 DEF LogInv

\* The client receives what follows all it has, and skips nothing.
LEMMA ReceiveKeeps ==
  ASSUME LogInv, client_receives
  PROVE  LogInv'
<1> USE DEF logVars
<1>1. /\ wire \in Seq(Nat) /\ wire # <<>> /\ received \in Seq(Nat)
      /\ received' = Append(received, Head(wire)) /\ wire' = Tail(wire)
      /\ UNCHANGED <<logVars, handler, cursor, batch, faults>>
  BY DEF client_receives, LogInv, TypeOK
<1>2. /\ Head(wire) = wire[1] /\ wire[1] \in Nat /\ wire' \in Seq(Nat)
      /\ Len(wire) \in Nat \ {0} /\ Len(wire') = Len(wire) - 1
      /\ \A i \in 1..Len(wire') : wire'[i] = wire[i + 1]
  BY <1>1, TakeFromFront
<1>3. /\ received' \in Seq(Nat) /\ Len(received') = Len(received) + 1 /\ Len(received) \in Nat
      /\ \A i \in 1..Len(received) : received'[i] = received[i]
      /\ received'[Len(received) + 1] = wire[1]
      /\ \A i \in 1..Len(received') : i \in 1..Len(received) \/ i = Len(received) + 1
  BY <1>1, <1>2, AppendAtEnd
<1>4. /\ \A i \in 1..Len(wire) : wire[i] \in Nat
      /\ \A i \in 1..Len(received) : received[i] \in Nat
  BY <1>1, ElementOfSeq
<1>5. TypeOK' /\ OneInFlight'
  BY <1>1, <1>2, <1>3 DEF LogInv, TypeOK, OneInFlight
<1>6. NumbersGiven' /\ ChargedOnce' /\ EndsComplete'
  BY <1>1 DEF LogInv, NumbersGiven, ChargedOnce, EndsComplete
<1>7. handler # "closed" /\ 1 \in 1..Len(wire) /\ wire[1] <= cursor /\ cursor < nextSeq
      /\ cursor \in Nat /\ nextSeq \in Nat
  BY <1>1, <1>2 DEF LogInv, CursorSound, TypeOK
<1>8. WireFollows'
  <2>1. Increasing(received')
    <3>1. Increasing(received) /\ \A i \in 1..Len(received) : received[i] < wire[1]
      BY <1>7 DEF LogInv, WireFollows
    <3> QED
      BY <1>1, <1>2, <3>1, AppendAtEnd
  <2>2. Increasing(wire') /\ \A j \in 1..Len(wire') : wire[1] < wire'[j]
    BY <1>1, TakeFromFront DEF LogInv, WireFollows
  <2>3. ASSUME NEW i \in 1..Len(received'), NEW j \in 1..Len(wire')
        PROVE  received'[i] < wire'[j]
    <3>1. j + 1 \in 1..Len(wire) /\ wire'[j] = wire[j + 1]
      BY <1>1, TakeFromFront
    <3>2. CASE i \in 1..Len(received)
      BY <1>3, <3>1, <3>2 DEF LogInv, WireFollows
    <3>3. CASE i = Len(received) + 1
      BY <1>3, <2>2, <3>3
    <3> QED
      BY <1>3, <3>2, <3>3
  <2>4. ASSUME NEW i \in 1..Len(received')
        PROVE  received'[i] < nextSeq
    <3>1. CASE i \in 1..Len(received)
      BY <1>3, <3>1 DEF LogInv, WireFollows
    <3>2. CASE i = Len(received) + 1
      BY <1>2, <1>3, <1>7, <3>2
    <3> QED
      BY <1>3, <3>1, <3>2
  <2>5. ASSUME NEW e \in rows, NEW i \in 1..Len(received'), e.seq <= received'[i]
        PROVE  \E j \in 1..Len(received') : received'[j] = e.seq
    <3>1. e.seq \in Nat
      BY DEF LogInv, TypeOK, Row
    <3>2. CASE i \in 1..Len(received)
      BY <1>3, <2>5, <3>2 DEF LogInv, WireFollows
    <3>3. CASE i = Len(received) + 1
      <4>1. e.seq <= wire[1] /\ e.seq <= cursor
        BY <1>2, <1>3, <1>7, <2>5, <3>1, <3>3
      <4>2. Sent(e.seq)
        BY <1>7, <4>1 DEF LogInv, CursorSound
      <4>3. ASSUME NEW j \in 1..Len(wire), wire[j] = e.seq
            PROVE  wire[1] = e.seq
        BY <1>2, <1>4, <4>1, <4>3 DEF LogInv, WireFollows, Increasing
      <4> QED
        BY <1>3, <4>2, <4>3 DEF Sent
    <3> QED
      BY <1>3, <3>2, <3>3
  <2> QED
    BY <1>1, <2>1, <2>2, <2>3, <2>4, <2>5 DEF WireFollows
<1>9. CursorSound'
  <2>1. \A n : Sent(n) => Sent(n)'
    <3>1. ASSUME NEW n, NEW i \in 1..Len(wire), wire[i] = n
          PROVE  Sent(n)'
      <4>1. CASE i = 1
        BY <1>3, <3>1, <4>1 DEF Sent
      <4>2. CASE i # 1
        <5>1. i - 1 \in 1..Len(wire') /\ wire'[i - 1] = n
          BY <1>2, <3>1, <4>2
        <5> QED
          BY <5>1 DEF Sent
      <4> QED
        BY <4>1, <4>2
    <3>2. ASSUME NEW n, NEW i \in 1..Len(received), received[i] = n
          PROVE  Sent(n)'
      BY <1>3, <3>2 DEF Sent
    <3> QED
      BY <3>1, <3>2 DEF Sent
  <2>2. \A i \in 1..Len(received') : received'[i] <= cursor
    BY <1>3, <1>4, <1>7 DEF LogInv, CursorSound
  <2>3. \A i \in 1..Len(wire') : wire'[i] <= cursor
    BY <1>2, <1>4, <1>7 DEF LogInv, CursorSound
  <2> QED
    BY <1>1, <1>7, <2>1, <2>2, <2>3 DEF LogInv, CursorSound
<1> QED
  BY <1>5, <1>6, <1>8, <1>9 DEF LogInv

\* A lost connection loses what is on the wire, not what was received; a
\* failed read changes the handler's place only.
LEMMA FaultKeeps ==
  ASSUME EventAssumption, LogInv, connection_lost \/ read_fails
  PROVE  LogInv'
<1> USE DEF logVars, connection_lost, read_fails
<1>1. TypeOK' /\ OneInFlight'
  <2>1. /\ handler' \in {"closed", "read", "emit", "state", "last", "done"}
        /\ batch' = batch \/ batch' = {}
    OBVIOUS
  <2>2. wire' \in Seq(Nat)
    BY EmptySeq DEF LogInv, TypeOK
  <2>3. faults' \in 0..MaxFaults
    BY DEF LogInv, TypeOK, EventAssumption
  <2>4. UNCHANGED <<logVars, cursor, received>>
    OBVIOUS
  <2> QED
    BY <2>1, <2>2, <2>3, <2>4 DEF LogInv, TypeOK, OneInFlight
<1>2. NumbersGiven' /\ ChargedOnce' /\ EndsComplete'
  BY DEF LogInv, NumbersGiven, ChargedOnce, EndsComplete
<1>3. CASE connection_lost
  BY <1>1, <1>2, <1>3, EmptySeq DEF LogInv, WireFollows, Increasing, CursorSound
<1>4. CASE read_fails
  <2>1. WireFollows'
    BY <1>4 DEF LogInv, WireFollows, Increasing
  <2>2. CursorSound'
    BY <1>4 DEF LogInv, CursorSound, Sent
  <2> QED
    BY <1>1, <1>2, <2>1, <2>2 DEF LogInv
<1> QED
  BY <1>3, <1>4

\* Every step keeps the invariant.
LEMMA LogStep ==
  ASSUME EventAssumption, LogInv, [Next]_vars
  PROVE  LogInv'
<1>1. ASSUME NEW id \in Sources, append_external_leased_event(id)
      PROVE  LogInv'
  BY <1>1, AppendKeeps DEF append_external_leased_event
<1>2. ASSUME NEW final \in BOOLEAN, append_server_event(final)
      PROVE  LogInv'
  BY <1>2, AppendKeeps DEF append_server_event, EventAssumption
<1>3. CASE UNCHANGED vars
  <2> USE <1>3 DEF vars, logVars, streamVars
  <2>1. TypeOK' /\ NumbersGiven' /\ OneInFlight'
    BY DEF LogInv, TypeOK, NumbersGiven, OneInFlight
  <2>2. ChargedOnce' /\ EndsComplete'
    BY DEF LogInv, ChargedOnce, EndsComplete
  <2>3. WireFollows' /\ CursorSound'
    BY DEF LogInv, WireFollows, Increasing, CursorSound, Sent
  <2> QED
    BY <2>1, <2>2, <2>3 DEF LogInv
<1> QED
  BY <1>1, <1>2, <1>3, CommitKeeps, RollbackKeeps, RetentionKeeps, OpenKeeps, ReadKeeps, EmitKeeps,
     ReadStateKeeps, ReceiveKeeps, FaultKeeps DEF Next, StreamStep

\* The parts of LogSound that the inductive invariant states differently.
LEMMA LogInvSound ==
  ASSUME LogInv
  PROVE  TypeOK /\ LogSound
<1>1. GapFree
  <2>1. {e.seq : e \in written} = 1..(nextSeq - 1)
    BY DEF LogInv, NumbersGiven
  <2> QED
    BY <2>1 DEF LogInv, NumbersGiven, GapFree
<1>2. StreamInOrder
  <2>1. DOMAIN received = 1..Len(received)
    BY DEF LogInv, TypeOK
  <2> QED
    BY <2>1, LastIsGreatest DEF LogInv, WireFollows, Increasing, StreamInOrder
<1> QED
  BY <1>1, <1>2 DEF LogInv, LogSound

\* The log and its stream keep their inductive invariant, whatever commits,
\* rolls back, is removed by retention, is lost or is read again.
THEOREM LogInvariant ==
  ASSUME EventAssumption
  PROVE  Spec => []LogInv
<1> QED
  BY LogInit, LogStep, PTL DEF Spec

\* append_event_tx, run_events and enforce_run_event_retention keep numbers
\* without gaps, charge a repeated report once, and show a client every event
\* once and in order, up to the event that ended the run.
THEOREM LogCorrect ==
  ASSUME EventAssumption
  PROVE  Spec => []LogSound
<1> QED
  BY LogInvariant, LogInvSound, PTL
=============================================================================
