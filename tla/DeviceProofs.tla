---------------------------- MODULE DeviceProofs -----------------------------
(***************************************************************************)
(* The two things a device agent does for the control plane are correct    *)
(* for every value of the constants: the relay of a run, for any number of *)
(* turns, any batch size and any number of lost connections and faults;    *)
(* and the synchronisation of metadata, for any devices, entities, page    *)
(* size and scene of edits, published changes and interruptions.  The two  *)
(* specifications share no state.                                          *)
(***************************************************************************)
EXTENDS DeviceRelay, SyncFeed, FiniteSetTheorems, TLAPS

(***************************************************************************)
(* The relay of a run.                                                     *)
(***************************************************************************)
LocalState ==
  {"absent", "waiting_for_executor", "queued", "running", "interrupted"} \cup Waiting \cup LocalOver
Event == [kind : {"event", "safe", "unsafe"} \cup Kinds, ask : Requests \cup {0}]
Entry == [n : Nat, as : {"itself", "warning"}]

RelayRecord ==
  [at : Relaying \cup {"away", "import", "start", "cancel", "send", "idle"},
   seen : LocalState, cursor : Nat, upto : Nat, recovering : BOOLEAN,
   result : {"none", "completed", "failed"}]

\* The values are records and sequences of the right form.
Shapes ==
  /\ events \in Seq(Event) /\ serverLog \in Seq(Entry)
  /\ worker \in [at : {"idle", "turn", "tool", "waiting", "approved", "working", "done",
                       "broken", "answer", "error"},
                 step : 0..(MaxSteps + 1)]
  /\ relay \in RelayRecord

\* The run has not begun on the device.
Unbegun == {"absent", "waiting_for_executor", "queued"}

\* The worker runs the run once, and asks in the order of the steps.
WorkerSound ==
  /\ local \in Unbegun =>
       worker.at = "idle" /\ events = <<>> /\ \A r \in Requests : asked[r] = "none"
  /\ worker.at # "idle" => local \in {"running", "canceled"} \cup Waiting /\ worker.step >= 1
  /\ worker.at = "idle" => worker.step = 0
  /\ worker.at \notin {"idle", "turn", "error"} => worker.step \in Requests
  /\ worker.at # "idle" =>
       \A r \in Requests :
         r > worker.step \/ (r = worker.step /\ worker.at \in {"turn", "tool"}) => asked[r] = "none"
  /\ local = "interrupted" => faults > 0 \/ ~safe

\* Only the request of the step is open, unless the run was stopped.
OpenRequests ==
  \A r \in Requests :
    asked[r] = "pending" => \/ local \in {"canceled", "interrupted"}
                            \/ worker.at = "waiting" /\ worker.step = r

\* A request has one event.
EventsSound ==
  /\ \A n \in 1..Len(events) :
       events[n].kind \in Kinds =>
         /\ events[n].ask \in Requests /\ events[n].kind = AskKind(events[n].ask)
         /\ asked[events[n].ask] # "none"
  /\ \A m, n \in 1..Len(events) :
       events[m].kind \in Kinds /\ events[n].kind \in Kinds /\ events[m].ask = events[n].ask => m = n

IsRelayed(n) == \E i \in 1..Len(serverLog) : serverLog[i].n = n
AllRelayed == \A n \in 1..Len(events) : IsRelayed(n)

LogOrder ==
  \A i, j \in 1..Len(serverLog) :
    i < j => /\ serverLog[i] # serverLog[j]
             /\ serverLog[i].as = "itself" /\ serverLog[j].as = "itself"
                  => serverLog[i].n < serverLog[j].n

\* The server's log has no gaps but for requests met in a finished run, and
\* holds what is before the cursor.
LogSound ==
  /\ \A i \in 1..Len(serverLog) :
       /\ serverLog[i].n \in 1..Len(events)
       /\ serverLog[i].as = "warning" =>
            /\ events[serverLog[i].n].kind \in Kinds
            /\ local \in LocalOver
            /\ relay.at \in Relaying => relay.recovering
  /\ \E k \in 0..Len(events) : \A n \in 1..Len(events) : IsRelayed(n) <=> n <= k
  /\ \A n \in 1..relay.cursor : IsRelayed(n)
  /\ LogOrder
  /\ \A m, n \in 1..Len(events) :
       m < n /\ Stored(n, "itself") =>
         Stored(m, "itself") \/ (events[m].kind \in Kinds /\ Stored(m, "warning"))

\* The server knows the requests whose events it has stored.
RequestsSound ==
  /\ \A n \in 1..Len(events) :
       events[n].kind \in Kinds => (serverAsked[events[n].ask] # "none" <=> Stored(n, "itself"))
  /\ \A r \in Requests : serverAsked[r] # "none" => asked[r] # "none"
  /\ server \in Waiting =>
       \E r \in Requests : serverAsked[r] \in {"pending", "expired"} /\ server = WaitFor(AskKind(r))
  /\ \A r \in Requests :
       asked[r] \in {"approved", "rejected", "answered"} =>
         r \in decided \/ serverAsked[r] \notin {"none", "pending"}

\* The server's requests come from events.
KnownRequests ==
  \A r \in Requests : serverAsked[r] # "none" =>
    \E n \in 1..Len(events) : events[n].kind \in Kinds /\ events[n].ask = r

\* Where the relay is.
RelaySound ==
  /\ relay.cursor <= relay.upto /\ relay.upto <= Len(events)
  /\ relay.recovering => local \in LocalOver
  /\ relay.at \in {"ask", "resolve"} =>
       /\ relay.cursor >= 1 /\ events[relay.cursor].kind \in Kinds /\ ~relay.recovering
       /\ serverAsked[events[relay.cursor].ask] # "none"
  /\ ~relay.recovering =>
       \A n \in 1..relay.cursor :
         events[n].kind \in Kinds =>
           serverAsked[events[n].ask] # "pending" \/ (relay.at = "ask" /\ n = relay.cursor)
  /\ relay.at = "away" => drops > 0
  /\ relay.at = "send" => relay.result # "none"

\* What the relay has seen of the run, and what the server made of it.
OutcomeSound ==
  /\ relay.seen \in LocalOver => local = relay.seen
  /\ relay.seen = "interrupted" => local \in {"interrupted", "canceled"}
  /\ relay.seen = "completed" /\ relay.at \in {"handle", "ask", "resolve"} =>
       relay.upto = Len(events) \/ cut
  /\ relay.result = "completed" \/ server = "completed" =>
       local = "completed" /\ (AllRelayed \/ cut)
  /\ server \in {"completed", "failed", "interrupted"} => relay.at \in {"away", "idle"}

\* The relay itself answered a request of the device: over one connection it
\* has left the request behind.
Passed ==
  \A r \in Requests :
    asked[r] \in {"approved", "rejected", "answered"} /\ r \notin decided /\ drops = 0 =>
      \/ relay.at \in {"cancel", "send", "idle"}
      \/ /\ relay.at \in Relaying
         /\ \E n \in 1..relay.cursor :
              /\ events[n].kind \in Kinds /\ events[n].ask = r
              /\ relay.at \in {"ask", "resolve"} => n # relay.cursor

\* Nobody else ended the run, and some request explains why the relay did.
Undisturbed ==
  /\ ~stopped /\ faults = 0 /\ server \notin {"ended", "interrupted"}
  /\ \A r \in Requests : serverAsked[r] # "expired"
Explained ==
  \E r \in Requests : /\ asked[r] \notin {"none", "pending"}
                      /\ drops > 0 \/ r \in decided \/ asked[r] = "expired"
CancelSound ==
  /\ local = "canceled" /\ Undisturbed /\ safe => Explained
  /\ relay.at = "cancel" /\ Undisturbed => Explained \/ local \in LocalOver \cup {"interrupted"}

RelayInv ==
  /\ TypeOK /\ Shapes
  /\ WorkerSound /\ OpenRequests /\ EventsSound
  /\ LogSound /\ RequestsSound /\ KnownRequests /\ RelaySound /\ OutcomeSound
  /\ Passed /\ CancelSound /\ RefusedOnlyIfWaiting
-----------------------------------------------------------------------------
LEMMA InitInv ==
  ASSUME RelayAssumption, Init
  PROVE  RelayInv
<1> USE DEF Init, Requests, NewRelay, Idle
<1>1. TypeOK
  <2>1. Len(events) = 0 /\ Len(serverLog) = 0 /\ faults \in 0..MaxFaults /\ drops \in 0..MaxDrops
    BY DEF RelayAssumption
  <2>2. relay.cursor <= relay.upto /\ relay.upto <= Len(events) /\ worker.step \in 0..(MaxSteps + 1)
    BY DEF RelayAssumption
  <2>3. (\A i \in 1..Len(events) : FALSE) /\ (\A i \in 1..Len(serverLog) : FALSE)
    BY <2>1
  <2>4. /\ asked \in [Requests -> {"none", "pending", "approved", "rejected", "answered", "expired"}]
        /\ serverAsked \in [Requests -> {"none", "pending", "approved", "rejected", "expired"}]
    OBVIOUS
  <2>5. safe \in BOOLEAN /\ serverSafe \in BOOLEAN /\ stopped \in BOOLEAN /\ cut \in BOOLEAN
    OBVIOUS
  <2>6. /\ worker.at = "idle" /\ relay.at = "import" /\ decided \subseteq Requests
    OBVIOUS
  <2> HIDE DEF Init, Requests, NewRelay, Idle
  <2>7. local = "absent" /\ server = "running"
    BY DEF Init
  <2> QED
    BY <2>1, <2>2, <2>3, <2>4, <2>5, <2>6, <2>7 DEF TypeOK, Relaying
<1>0. Shapes
  BY DEF RelayAssumption, Shapes, RelayRecord, Relaying, LocalState
<1>2. WorkerSound /\ OpenRequests /\ EventsSound
  BY DEF WorkerSound, OpenRequests, EventsSound, Unbegun
<1>3. LogSound
  BY DEF LogSound, LogOrder, IsRelayed, Stored, Relaying
<1>4. RequestsSound /\ KnownRequests /\ RelaySound /\ OutcomeSound
  BY DEF RequestsSound, KnownRequests, RelaySound, OutcomeSound, Waiting, LocalOver
<1>5. Passed /\ CancelSound /\ RefusedOnlyIfWaiting
  BY DEF Passed, CancelSound, RefusedOnlyIfWaiting, RelayAt
<1> QED
  BY <1>0, <1>1, <1>2, <1>3, <1>4, <1>5 DEF RelayInv

\* The worker and the users of the device: the log grows by at most one event,
\* requests are opened and answered, and what is over stays over.
DeviceMoves ==
  /\ UNCHANGED <<relay, serverVars, cut, drops>>
  /\ faults' >= faults /\ (stopped => stopped') /\ decided \subseteq decided'
  /\ \A r \in Requests :
       /\ asked[r] # "none" => asked'[r] # "none"
       /\ asked[r] \notin {"none", "pending"} => asked'[r] = asked[r]
       /\ asked'[r] \in {"approved", "rejected", "answered"} => asked'[r] = asked[r] \/ r \in decided'
  /\ Len(events') \in {Len(events), Len(events) + 1}
  /\ \A n \in 1..Len(events) : events'[n] = events[n]
  /\ \A n \in 1..Len(events') : n > Len(events) /\ events'[n].kind \in Kinds =>
       /\ events'[n].ask \in Requests /\ events'[n].kind = AskKind(events'[n].ask)
       /\ asked[events'[n].ask] = "none" /\ asked'[events'[n].ask] # "none"
  /\ local \in LocalOver => local' = local
  /\ local = "completed" => events' = events
  /\ local = "interrupted" => local' \in {"interrupted", "canceled"}
  /\ local' = "canceled" => local = "canceled" \/ stopped' \/ faults' > 0
  /\ local = "canceled" /\ safe' => safe

LEMMA DeviceFrame ==
  ASSUME RelayInv, DeviceMoves
  PROVE  /\ EventsSound' /\ LogSound' /\ RequestsSound' /\ KnownRequests' /\ RelaySound'
         /\ OutcomeSound' /\ Passed' /\ CancelSound' /\ RefusedOnlyIfWaiting'
<1> USE DEF RelayInv, DeviceMoves, serverVars
<1>0. /\ Len(events) \in Nat /\ Len(serverLog) \in Nat /\ relay.cursor \in Nat /\ relay.upto \in Nat
      /\ faults \in Nat /\ relay.recovering \in BOOLEAN
  BY DEF Shapes, RelayRecord, TypeOK
<1>1. EventsSound'
  <2>1. \A n \in 1..Len(events') : n \in 1..Len(events) \/ n = Len(events) + 1
    BY <1>0
  <2>2. \A n \in 1..Len(events') : events'[n].kind \in Kinds =>
          /\ events'[n].ask \in Requests /\ events'[n].kind = AskKind(events'[n].ask)
          /\ asked'[events'[n].ask] # "none"
    BY <2>1, <1>0 DEF EventsSound
  <2>3. \A m, n \in 1..Len(events') :
          events'[m].kind \in Kinds /\ events'[n].kind \in Kinds /\ events'[m].ask = events'[n].ask
            => m = n
    <3> SUFFICES ASSUME NEW m \in 1..Len(events'), NEW n \in 1..Len(events'), m # n,
                        events'[m].kind \in Kinds, events'[n].kind \in Kinds,
                        events'[m].ask = events'[n].ask
                 PROVE  FALSE
      OBVIOUS
    <3>1. CASE m \in 1..Len(events) /\ n \in 1..Len(events)
      BY <3>1 DEF EventsSound
    <3>2. CASE m = Len(events) + 1
      BY <3>2, <2>1, <1>0 DEF EventsSound
    <3>3. CASE n = Len(events) + 1
      BY <3>3, <2>1, <1>0 DEF EventsSound
    <3> QED
      BY <3>1, <3>2, <3>3, <2>1
  <2> QED
    BY <2>2, <2>3 DEF EventsSound
<1>2. /\ \A n : IsRelayed(n)' <=> IsRelayed(n)
      /\ \A n, as : Stored(n, as)' <=> Stored(n, as)
  BY DEF IsRelayed, Stored
<1>3. LogSound'
  <2>1. \A i \in 1..Len(serverLog') :
          /\ serverLog'[i].n \in 1..Len(events')
          /\ serverLog'[i].as = "warning" =>
               /\ events'[serverLog'[i].n].kind \in Kinds
               /\ local' \in LocalOver
               /\ relay'.at \in Relaying => relay'.recovering
    BY <1>0 DEF LogSound
  <2>2. \A n \in 1..Len(events') : IsRelayed(n) => n <= Len(events)
    BY <1>0 DEF LogSound, IsRelayed
  <2>3. \E k \in 0..Len(events') : \A n \in 1..Len(events') : IsRelayed(n)' <=> n <= k
    <3>1. PICK k \in 0..Len(events) : \A n \in 1..Len(events) : IsRelayed(n) <=> n <= k
      BY DEF LogSound
    <3>2. \A n \in 1..Len(events') : n \in 1..Len(events) \/ n = Len(events) + 1
      BY <1>0
    <3>3. \A n \in 1..Len(events') : IsRelayed(n) <=> n <= k
      BY <3>1, <3>2, <2>2, <1>0
    <3>4. k \in 0..Len(events')
      BY <3>1, <1>0
    <3> QED
      BY <3>3, <3>4, <1>2
  <2>4. (\A n \in 1..relay.cursor : IsRelayed(n))'
    BY <1>2 DEF LogSound
  <2>5. LogOrder'
    BY DEF LogSound, LogOrder
  <2>6. \A m, n \in 1..Len(events') :
          m < n /\ Stored(n, "itself")' =>
            Stored(m, "itself")' \/ (events'[m].kind \in Kinds /\ Stored(m, "warning")')
    <3>1. \A n \in 1..Len(events') : Stored(n, "itself") => n <= Len(events)
      BY <2>2 DEF Stored, IsRelayed
    <3> QED
      BY <3>1, <1>0, <1>2 DEF LogSound
  <2> QED
    BY <2>1, <2>3, <2>4, <2>5, <2>6 DEF LogSound
<1>4. RequestsSound'
  <2>1. \A n \in 1..Len(events') : Stored(n, "itself") => n <= Len(events)
    BY <1>0 DEF LogSound, Stored
  <2>2. \A n \in 1..Len(events') :
          events'[n].kind \in Kinds => (serverAsked[events'[n].ask] # "none" <=> Stored(n, "itself"))
    BY <2>1, <1>0 DEF RequestsSound
  <2>3. \A r \in Requests : serverAsked[r] # "none" => asked'[r] # "none"
    BY DEF RequestsSound
  <2>4. \A r \in Requests : asked'[r] \in {"approved", "rejected", "answered"} =>
          r \in decided' \/ serverAsked[r] \notin {"none", "pending"}
    BY DEF RequestsSound
  <2> QED
    BY <2>2, <2>3, <2>4, <1>2 DEF RequestsSound
<1>5. RelaySound'
  <2>1. \A n \in 1..relay.cursor : n \in 1..Len(events) /\ events'[n] = events[n]
    BY <1>0 DEF RelaySound
  <2>2. relay.cursor >= 1 => events'[relay.cursor] = events[relay.cursor]
    BY <2>1, <1>0
  <2> QED
    BY <2>1, <2>2, <1>0 DEF RelaySound
<1>6. OutcomeSound'
  <2>1. AllRelayed /\ events' = events => AllRelayed'
    BY <1>2 DEF AllRelayed
  <2> QED
    BY <2>1, <1>0 DEF OutcomeSound, LocalOver
<1>7. Passed'
  BY <1>0 DEF Passed, RelaySound
<1>8. Explained => Explained'
  BY DEF Explained
<1>9. Undisturbed' => Undisturbed
  BY <1>0 DEF Undisturbed
<1>10. CancelSound'
  BY <1>8, <1>9, <1>0 DEF CancelSound, Undisturbed, LocalOver
<1>11. RefusedOnlyIfWaiting'
  BY DEF RefusedOnlyIfWaiting, RelayAt
<1>12. KnownRequests'
  <2>1. \A n \in 1..Len(events) : n \in 1..Len(events')
    BY <1>0
  <2> QED
    BY <2>1 DEF KnownRequests
<1> QED
  BY <1>1, <1>3, <1>4, <1>5, <1>6, <1>7, <1>10, <1>11, <1>12

\* The device's part of the types.
DeviceTyped ==
  /\ local \in LocalState /\ safe \in BOOLEAN /\ events \in Seq(Event)
  /\ asked \in [Requests -> {"none", "pending", "approved", "rejected", "answered", "expired"}]
  /\ worker \in [at : {"idle", "turn", "tool", "waiting", "approved", "working", "done",
                       "broken", "answer", "error"},
                 step : 0..(MaxSteps + 1)]
  /\ stopped \in BOOLEAN /\ decided \subseteq Requests /\ faults \in 0..MaxFaults

LEMMA DeviceTypes ==
  ASSUME RelayInv
  PROVE  DeviceTyped
BY DEF RelayInv, TypeOK, Shapes, RelayRecord, DeviceTyped, LocalState

\* Elements of a sequence of events.
LEMMA EventsTyped ==
  ASSUME NEW s \in Seq(Event), NEW i \in 1..Len(s)
  PROVE  s[i].kind \in {"event", "safe", "unsafe"} \cup Kinds /\ s[i].ask \in Requests \cup {0}
<1>1. s[i] \in Event
  OBVIOUS
<1> QED
  BY <1>1 DEF Event

LEMMA DeviceStep ==
  ASSUME RelayInv, DeviceMoves, DeviceTyped', WorkerSound', OpenRequests'
  PROVE  RelayInv'
<1>1. /\ Len(events) \in Nat /\ relay.cursor \in Nat /\ relay.upto \in Nat /\ Len(events') \in Nat
  BY DEF RelayInv, Shapes, RelayRecord, DeviceTyped
<1>2. Shapes'
  BY DEF RelayInv, Shapes, RelayRecord, DeviceMoves, DeviceTyped, serverVars
<1>3. \A i \in 1..Len(events') : /\ events'[i].kind \in {"event", "safe", "unsafe"} \cup Kinds
                                 /\ events'[i].ask \in Requests \cup {0}
  BY EventsTyped DEF DeviceTyped
<1>4. /\ relay'.cursor <= relay'.upto /\ relay'.upto <= Len(events')
      /\ relay'.at \in Relaying \cup {"away", "import", "start", "cancel", "send", "idle"}
      /\ server' \in {"running", "completed", "failed", "interrupted", "ended"} \cup Waiting
      /\ serverAsked' \in [Requests -> {"none", "pending", "approved", "rejected", "expired"}]
      /\ cut' \in BOOLEAN /\ drops' \in 0..MaxDrops /\ serverSafe' \in BOOLEAN
  BY <1>1 DEF RelayInv, TypeOK, DeviceMoves, serverVars
<1>5. \A i \in 1..Len(serverLog') :
        serverLog'[i].n \in 1..Len(events') /\ serverLog'[i].as \in {"itself", "warning"}
  BY <1>1 DEF RelayInv, TypeOK, DeviceMoves, serverVars
<1>6. /\ worker'.at \in {"idle", "turn", "tool", "waiting", "approved", "working", "done",
                         "broken", "answer", "error"}
      /\ worker'.step \in 0..(MaxSteps + 1)
  BY DEF DeviceTyped
<1>7. TypeOK'
  BY <1>3, <1>4, <1>5, <1>6 DEF TypeOK, DeviceTyped, LocalState
<1> QED
  BY <1>2, <1>7, DeviceFrame DEF RelayInv

LEMMA AppendEvent ==
  ASSUME events \in Seq(Event), NEW e \in Event, events' = Append(events, e)
  PROVE  /\ events' \in Seq(Event) /\ Len(events) \in Nat /\ Len(events') = Len(events) + 1
         /\ \A n \in 1..Len(events) : events'[n] = events[n]
         /\ \A n \in 1..Len(events') : n > Len(events) => events'[n] = e
OBVIOUS

\* What a step of the device does to the log and the requests when it asks
\* nothing.
LEMMA QuietMoves ==
  ASSUME RelayInv,
         UNCHANGED <<relay, serverVars, cut, drops, asked, decided, stopped>>,
         faults' >= faults,
         \/ events' = events
         \/ events' = Append(events, [kind |-> "event", ask |-> 0])
         \/ events' = Append(events, [kind |-> "safe", ask |-> 0])
         \/ events' = Append(events, [kind |-> "unsafe", ask |-> 0]),
         local \in LocalOver => local' = local,
         local = "completed" => events' = events,
         local = "interrupted" => local' = "interrupted",
         local' = "canceled" => local = "canceled",
         local = "canceled" /\ safe' => safe
  PROVE  DeviceMoves /\ events' \in Seq(Event)
<1>1. /\ events \in Seq(Event) /\ Len(events) \in Nat
  BY DEF RelayInv, Shapes, RelayRecord
<1>2. /\ Len(events') \in {Len(events), Len(events) + 1} /\ events' \in Seq(Event)
      /\ \A n \in 1..Len(events) : events'[n] = events[n]
      /\ \A n \in 1..Len(events') : n > Len(events) => events'[n].kind \notin Kinds
  <2>1. CASE events' = events
    BY <1>1, <2>1
  <2>2. ASSUME NEW k \in {"event", "safe", "unsafe"}, events' = Append(events, [kind |-> k, ask |-> 0])
        PROVE  <1>2!:
    <3> DEFINE e == [kind |-> k, ask |-> 0]
    <3>1. e \in Event /\ e.kind \notin Kinds
      BY DEF Event, Kinds
    <3> HIDE DEF e
    <3>2. events' = Append(events, e)
      BY <2>2 DEF e
    <3> QED
      BY <1>1, <3>1, <3>2, AppendEvent
  <2> QED
    BY <2>1, <2>2
<1> QED
  BY <1>2 DEF DeviceMoves, serverVars
-----------------------------------------------------------------------------
(* The daemon's worker and the users of the device.                        *)

LEMMA ClaimInv ==
  ASSUME RelayAssumption, RelayInv, claim_run
  PROVE  RelayInv'
<1> USE DEF claim_run, WorkerAt
<1>1. DeviceMoves /\ events' \in Seq(Event)
  BY QuietMoves DEF LocalOver, history, RelayInv, TypeOK
<1>2. DeviceTyped'
  BY <1>1, DeviceTypes DEF DeviceTyped, history, LocalState, RelayAssumption
<1>3. WorkerSound' /\ OpenRequests'
  BY DEF RelayInv, WorkerSound, OpenRequests, Unbegun, Waiting
<1> QED
  BY <1>1, <1>2, <1>3, DeviceStep

LEMMA TurnInv ==
  ASSUME RelayAssumption, RelayInv, model_turn
  PROVE  RelayInv'
<1> USE DEF model_turn, WorkerAt, WorkerTo, append_event
<1>1. DeviceMoves /\ events' \in Seq(Event)
  BY QuietMoves DEF LocalOver, history, RelayInv, TypeOK, WorkerSound, Waiting
<1>2. DeviceTyped'
  BY <1>1, DeviceTypes DEF DeviceTyped, history
<1>3. /\ worker'.step = worker.step /\ worker'.at \in {"answer", "tool", "error"}
      /\ worker'.at # "error" => worker.step \in Requests
  BY DeviceTypes DEF DeviceTyped, RelayInv, WorkerSound, Requests
<1>4. WorkerSound' /\ OpenRequests'
  <2> HIDE DEF model_turn
  <2>1. WorkerAt("turn") /\ UNCHANGED <<local, safe, asked, faults>>
    BY DEF model_turn, history
  <2>2. local \notin Unbegun
    BY <2>1 DEF RelayInv, WorkerSound
  <2> QED
    BY <1>3, <2>1, <2>2 DEF RelayInv, WorkerSound, OpenRequests
<1> QED
  BY <1>1, <1>2, <1>4, DeviceStep

LEMMA ToolInv ==
  ASSUME RelayAssumption, RelayInv, execute_tool \/ tool_ends
  PROVE  RelayInv'
<1> USE DEF execute_tool, tool_ends, WorkerAt, WorkerTo, append_event
<1>1. DeviceMoves /\ events' \in Seq(Event)
  BY QuietMoves DEF LocalOver, history, RelayInv, TypeOK, WorkerSound, Waiting
<1>2. DeviceTyped'
  BY <1>1, DeviceTypes DEF DeviceTyped, history
<1>3. WorkerSound' /\ OpenRequests'
  BY DeviceTypes DEF RelayInv, WorkerSound, OpenRequests, Unbegun, Waiting, DeviceTyped
<1> QED
  BY <1>1, <1>2, <1>3, DeviceStep

LEMMA ReportInv ==
  ASSUME RelayAssumption, RelayInv, report_tool
  PROVE  RelayInv'
<1> USE DEF report_tool, WorkerAt, WorkerTo, append_event
<1>1. DeviceMoves /\ events' \in Seq(Event)
  BY QuietMoves DEF LocalOver, history, RelayInv, TypeOK, WorkerSound, Waiting
<1>2. worker.step \in Requests /\ worker.step + 1 \in 1..(MaxSteps + 1)
  BY DEF RelayInv, WorkerSound, Requests, RelayAssumption
<1>3. \/ worker'.at = "error" /\ worker'.step = worker.step
      \/ worker'.at = "turn" /\ worker'.step = worker.step + 1
  BY DeviceTypes DEF DeviceTyped
<1>4. DeviceTyped'
  <2>1. worker' \in [at : {"turn", "error"}, step : 0..(MaxSteps + 1)]
    BY <1>2, DeviceTypes DEF DeviceTyped, RelayAssumption
  <2>2. safe' \in BOOLEAN
    BY DeviceTypes DEF DeviceTyped
  <2> QED
    BY <1>1, <2>1, <2>2, DeviceTypes DEF DeviceTyped, history
<1>5. WorkerSound' /\ OpenRequests'
  <2> HIDE DEF report_tool
  <2>1. (WorkerAt("done") \/ WorkerAt("broken")) /\ UNCHANGED <<local, asked, faults>>
    BY DEF report_tool, history
  <2>2. local \notin Unbegun \cup {"interrupted"}
    BY <2>1 DEF RelayInv, WorkerSound, Waiting
  <2>3. \A r \in Requests : r >= worker'.step /\ worker'.at = "turn" => r > worker.step
    BY <1>2, <1>3 DEF Requests
  <2>4. \A r \in Requests : r > worker'.step => r > worker.step
    BY <1>2, <1>3 DEF Requests
  <2>5. worker'.step \in Nat /\ worker'.step >= 1
    BY <1>2, <1>3 DEF Requests
  <2>6. \A r \in Requests : r > worker'.step \/ (r = worker'.step /\ worker'.at \in {"turn", "tool"})
                             => asked'[r] = "none"
    <3>1. \A r \in Requests : r = worker'.step /\ worker'.at \in {"turn", "tool"} => r > worker.step
      BY <1>3, <2>3, <2>5 DEF Requests
    <3> QED
      BY <2>1, <2>4, <3>1 DEF RelayInv, WorkerSound
  <2> QED
    BY <1>3, <2>1, <2>2, <2>5, <2>6 DEF RelayInv, WorkerSound, OpenRequests
<1> QED
  BY <1>1, <1>4, <1>5, DeviceStep

LEMMA ExecuteInv ==
  ASSUME RelayAssumption, RelayInv, execute_run
  PROVE  RelayInv'
<1> USE DEF execute_run, WorkerAt, Idle, append_event
<1>1. DeviceMoves /\ events' \in Seq(Event)
  BY QuietMoves DEF LocalOver, history, RelayInv, TypeOK, WorkerSound, Waiting
<1>2. DeviceTyped'
  BY <1>1, DeviceTypes DEF DeviceTyped, history, LocalState, LocalOver, RelayAssumption
<1>3. WorkerSound' /\ OpenRequests'
  BY DeviceTypes DEF RelayInv, WorkerSound, OpenRequests, Unbegun, Waiting, DeviceTyped
<1> QED
  BY <1>1, <1>2, <1>3, DeviceStep

LEMMA InterruptInv ==
  ASSUME RelayAssumption, RelayInv, interrupt_active_runs
  PROVE  RelayInv'
<1> USE DEF interrupt_active_runs, Fault, Idle
<1>1. DeviceMoves /\ events' \in Seq(Event)
  BY QuietMoves DEF LocalOver, RelayInv, TypeOK, WorkerSound, Waiting
<1>2. DeviceTyped'
  BY <1>1, DeviceTypes DEF DeviceTyped, LocalState, RelayAssumption
<1>3. WorkerSound' /\ OpenRequests'
  BY DeviceTypes DEF RelayInv, WorkerSound, OpenRequests, Unbegun, Waiting, DeviceTyped
<1> QED
  BY <1>1, <1>2, <1>3, DeviceStep

LEMMA AskInv ==
  ASSUME RelayAssumption, RelayInv, ask_user
  PROVE  RelayInv'
<1> USE DEF ask_user, WorkerAt, WorkerTo, append_event
<1> DEFINE r == worker.step
           e == [kind |-> AskKind(r), ask |-> r]
<1>1. r \in Requests /\ asked[r] = "none" /\ e \in Event /\ events \in Seq(Event)
  BY DeviceTypes DEF RelayInv, WorkerSound, AskKind, Kinds, Event, DeviceTyped
<1>2. events' = events \/ events' = Append(events, e)
  OBVIOUS
<1>3. /\ events' \in Seq(Event) /\ Len(events') \in {Len(events), Len(events) + 1}
      /\ \A n \in 1..Len(events) : events'[n] = events[n]
      /\ \A n \in 1..Len(events') : n > Len(events) => events'[n] = e
  <2> HIDE DEF e
  <2> QED
    BY <1>1, <1>2, AppendEvent
<1>4. asked' = [asked EXCEPT ![r] = "pending"]
  OBVIOUS
<1>5. DeviceMoves
  BY <1>1, <1>3, <1>4, DeviceTypes DEF DeviceMoves, DeviceTyped, history, RelayInv, WorkerSound, Waiting,
     LocalOver, serverVars, WaitFor, TypeOK
<1>6. DeviceTyped'
  BY <1>1, <1>3, DeviceTypes DEF DeviceTyped, history, LocalState, WaitFor, Waiting
<1>7. WorkerSound' /\ OpenRequests'
  <2>1. /\ worker.at = "tool" /\ worker'.step = worker.step /\ worker'.at \in {"waiting", "broken"}
        /\ worker'.at = "broken" => local' = "canceled"
        /\ local' \in {"canceled"} \cup Waiting /\ (local = "canceled" => local' = "canceled")
        /\ asked \in [Requests -> {"none", "pending", "approved", "rejected", "answered", "expired"}]
    BY DeviceTypes DEF DeviceTyped, WaitFor, Waiting
  <2>2. local' \notin Unbegun \cup {"interrupted"}
    BY <2>1 DEF Unbegun, Waiting
  <2> HIDE DEF ask_user
  <2>3. \A q \in Requests : q # r => asked'[q] = asked[q]
    BY <1>4, <2>1
  <2>4. \A q \in Requests : q > r => asked'[q] = "none"
    BY <1>1, <2>1, <2>3 DEF RelayInv, WorkerSound, Requests
  <2>5. WorkerSound'
    BY <1>1, <2>1, <2>2, <2>4 DEF RelayInv, WorkerSound
  <2>6. OpenRequests'
    <3>1. local # "interrupted"
      BY <2>1 DEF RelayInv, WorkerSound, Waiting
    <3> QED
      BY <1>1, <2>1, <2>3, <3>1 DEF RelayInv, OpenRequests
  <2> QED
    BY <2>5, <2>6
<1> QED
  BY <1>5, <1>6, <1>7, DeviceStep

LEMMA AwaitInv ==
  ASSUME RelayAssumption, RelayInv, await_local_answer
  PROVE  RelayInv'
<1> USE DEF await_local_answer, WorkerAt, WorkerTo
<1> DEFINE r == worker.step
<1>1. r \in Requests
  BY DEF RelayInv, WorkerSound
<1>2. DeviceMoves
  BY <1>1, DeviceTypes DEF DeviceMoves, DeviceTyped, history, RelayInv, WorkerSound, Waiting,
     LocalOver, serverVars, TypeOK, Shapes, RelayRecord
<1>3. DeviceTyped'
  BY <1>1, DeviceTypes DEF DeviceTyped, history, LocalState
<1>4. WorkerSound' /\ OpenRequests'
  BY <1>1, DeviceTypes DEF RelayInv, WorkerSound, OpenRequests, Unbegun, Waiting, DeviceTyped,
     Requests, history
<1> QED
  BY <1>2, <1>3, <1>4, DeviceStep

LEMMA UsersInv ==
  ASSUME RelayAssumption, RelayInv,
         user_cancels \/ \E r \in Requests : user_answers(r)
  PROVE  RelayInv'
<1>1. CASE user_cancels
  <2> USE <1>1 DEF user_cancels, Canceled
  <2>1. DeviceMoves
    BY DeviceTypes DEF DeviceMoves, DeviceTyped, LocalOver, serverVars
  <2>2. DeviceTyped'
    BY DeviceTypes DEF DeviceTyped, LocalState, LocalOver
  <2>3. WorkerSound' /\ OpenRequests'
    BY DEF RelayInv, WorkerSound, OpenRequests, Unbegun, Waiting
  <2> QED
    BY <2>1, <2>2, <2>3, DeviceStep
<1>2. ASSUME NEW r \in Requests, user_answers(r)
      PROVE  RelayInv'
  <2> USE <1>2 DEF user_answers, Answers
  <2>1. DeviceMoves
    BY DeviceTypes DEF DeviceMoves, DeviceTyped, LocalOver, serverVars
  <2>2. DeviceTyped'
    BY DeviceTypes DEF DeviceTyped
  <2>3. WorkerSound' /\ OpenRequests'
    BY DeviceTypes DEF RelayInv, WorkerSound, OpenRequests, Unbegun, DeviceTyped
  <2> QED
    BY <2>1, <2>2, <2>3, DeviceStep
<1> QED
  BY <1>1, <1>2
-----------------------------------------------------------------------------
(* The server's own steps.                                                 *)

LEMMA ServerInv ==
  ASSUME RelayAssumption, RelayInv,
         \/ server_ends \/ interrupt_expired_leases
         \/ \E r \in Requests : server_answers(r) \/ server_expires(r)
  PROVE  RelayInv'
<1>1. /\ UNCHANGED <<daemonVars, relay, serverSafe, serverLog, history>>
      /\ server' \in {server, "running", "ended", "interrupted"}
      /\ serverAsked' \in [Requests -> {"none", "pending", "approved", "rejected", "expired"}]
      /\ \A r \in Requests : \/ serverAsked'[r] = serverAsked[r]
                             \/ serverAsked[r] = "pending" /\ serverAsked'[r] \notin {"none", "pending"}
      /\ server # server' => Leased
      /\ server # server' /\ server' = "interrupted" => relay.at \in {"away", "idle"}
      /\ server' = server /\ server' \in Waiting =>
           \A r \in Requests : serverAsked'[r] \in {serverAsked[r], "expired"}
  BY DEF server_ends, interrupt_expired_leases, server_answers, server_expires, RelayInv, TypeOK,
     LeaseMayEnd, Answered, Answers, Leased, WaitFor, Waiting
<1>2. /\ UNCHANGED <<local, safe, events, asked, worker, stopped, decided, cut, drops, faults>>
      /\ UNCHANGED <<relay, serverSafe, serverLog>>
  BY <1>1 DEF daemonVars, history
<1>3. TypeOK' /\ Shapes'
  BY <1>1, <1>2 DEF RelayInv, TypeOK, Shapes, RelayRecord
<1>4. WorkerSound' /\ OpenRequests' /\ EventsSound'
  BY <1>2 DEF RelayInv, WorkerSound, OpenRequests, EventsSound
<1>5. /\ \A n : IsRelayed(n)' <=> IsRelayed(n)
      /\ \A n, as : Stored(n, as)' <=> Stored(n, as)
      /\ AllRelayed' <=> AllRelayed
  BY <1>2 DEF IsRelayed, Stored, AllRelayed
<1>6. LogSound' /\ Passed'
  BY <1>2, <1>5 DEF RelayInv, LogSound, LogOrder, Passed
<1>7. RequestsSound'
  BY <1>1, <1>2, <1>5 DEF RelayInv, RequestsSound, Waiting, EventsSound
<1>8. RelaySound'
  <2>1. \A n \in 1..relay.cursor : n \in 1..Len(events)
    BY DEF RelayInv, RelaySound, Shapes, RelayRecord
  <2>2. relay.cursor >= 1 => relay.cursor \in 1..Len(events)
    BY DEF RelayInv, RelaySound, Shapes, RelayRecord
  <2> QED
    BY <1>1, <1>2, <2>1, <2>2 DEF RelayInv, RelaySound, EventsSound
<1>9. OutcomeSound'
  BY <1>1, <1>2, <1>5 DEF RelayInv, OutcomeSound, Leased, Waiting
<1>10. CancelSound'
  <2>1. Undisturbed' => Undisturbed
    BY <1>1, <1>2 DEF Undisturbed, Leased, Waiting
  <2> QED
    BY <2>1, <1>2 DEF RelayInv, CancelSound, Explained
<1>11. RefusedOnlyIfWaiting'
  BY <1>1, <1>2 DEF RelayInv, RefusedOnlyIfWaiting, RelayAt, OutcomeSound, Leased, Waiting
<1>12. KnownRequests'
  BY <1>1, <1>2 DEF RelayInv, KnownRequests
<1> QED
  BY <1>12, <1>3, <1>4, <1>6, <1>7, <1>8, <1>9, <1>10, <1>11 DEF RelayInv
-----------------------------------------------------------------------------
(* The agent's task.                                                       *)

\* The relay starts anew, stops or waits: what it knew of the run is gone, the
\* run on the device may be canceled, and the server may have the result.
Anew(a, x) ==
  /\ a \in {"import", "cancel", "send", "idle", "away"} /\ x \in {"none", "completed", "failed"}
  /\ relay' \in RelayRecord /\ relay'.at = a /\ relay'.result = x /\ relay'.seen = "absent"
  /\ relay'.cursor = 0 /\ relay'.upto = 0 /\ relay'.recovering = FALSE
Rests(a, x) ==
  /\ Anew(a, x)
  /\ UNCHANGED <<safe, events, asked, worker, serverSafe, serverLog, serverAsked, stopped, decided, cut>>
  /\ local' \in {local, Canceled}
  /\ drops' \in drops..MaxDrops /\ faults' \in faults..MaxFaults
  /\ server' # server => server' \in {"completed", "failed", "interrupted"} /\ Leased

LEMMA RelayAnew ==
  ASSUME NEW a \in {"import", "cancel", "send", "idle", "away"}, NEW x \in {"none", "completed", "failed"},
         relay' = [NewRelay EXCEPT !.at = a, !.result = x]
  PROVE  Anew(a, x)
<1>1. /\ relay'.at = a /\ relay'.result = x /\ relay'.seen = "absent"
      /\ relay'.cursor = 0 /\ relay'.upto = 0 /\ relay'.recovering = FALSE
  BY DEF NewRelay
<1>2. relay' \in RelayRecord
  BY DEF NewRelay, LocalState, RelayRecord
<1> QED
  BY <1>1, <1>2 DEF Anew

LEMMA RestFrame ==
  ASSUME RelayAssumption, RelayInv, NEW a, NEW x, Rests(a, x)
  PROVE  /\ TypeOK' /\ Shapes' /\ WorkerSound' /\ OpenRequests' /\ EventsSound' /\ LogSound'
         /\ RequestsSound' /\ KnownRequests'
         /\ relay'.at = a /\ relay'.result = x /\ relay'.seen = "absent"
         /\ relay'.cursor = 0 /\ relay'.upto = 0 /\ relay'.recovering = FALSE
         /\ AllRelayed' = AllRelayed
<1> USE DEF Rests, RelayInv
<1>1. /\ relay'.at = a /\ relay'.result = x /\ relay'.seen = "absent"
      /\ relay'.cursor = 0 /\ relay'.upto = 0 /\ relay'.recovering = FALSE
      /\ relay' \in RelayRecord
  BY DEF Anew
<1>2. Len(events) \in Nat /\ drops' \in 0..MaxDrops /\ faults' \in 0..MaxFaults /\ faults' >= faults
  BY DEF Shapes, RelayRecord, TypeOK, RelayAssumption
<1>3. local' = local \/ (local' = "canceled" /\ local \notin LocalOver)
  BY DEF Canceled
<1> HIDE DEF Rests
<1>4. /\ UNCHANGED <<safe, events, asked, worker, serverSafe, serverLog, serverAsked, stopped>>
      /\ UNCHANGED <<decided, cut>>
      /\ server' = server \/ server' \in {"completed", "failed", "interrupted"}
      /\ a \in {"import", "cancel", "send", "idle", "away"} /\ x \in {"none", "completed", "failed"}
  BY DEF Rests, Anew
<1>5. Shapes'
  BY <1>1, <1>4 DEF Shapes
<1>6. TypeOK'
  BY <1>1, <1>2, <1>3, <1>4 DEF TypeOK, LocalOver
<1>7. WorkerSound'
  BY <1>2, <1>3, <1>4 DEF WorkerSound, Unbegun, TypeOK
<1>8. OpenRequests' /\ EventsSound'
  BY <1>3, <1>4 DEF OpenRequests, EventsSound
<1>9. /\ \A n : IsRelayed(n)' <=> IsRelayed(n)
      /\ \A n, as : Stored(n, as)' <=> Stored(n, as)
      /\ AllRelayed' = AllRelayed
  BY <1>4 DEF IsRelayed, Stored, AllRelayed
<1>10. LogSound'
  <2>1. relay'.at \notin Relaying
    BY <1>1, <1>4 DEF Relaying
  <2>2. local \in LocalOver => local' \in LocalOver
    BY <1>3
  <2>3. \A n \in 1..relay'.cursor : FALSE
    BY <1>1
  <2>4. LogOrder'
    BY <1>4 DEF LogSound, LogOrder
  <2> QED
    BY <1>4, <1>9, <2>1, <2>2, <2>3, <2>4 DEF LogSound
<1>11. RequestsSound' /\ KnownRequests'
  BY <1>4, <1>9 DEF RequestsSound, KnownRequests, Waiting
<1> QED
  BY <1>1, <1>5, <1>6, <1>7, <1>8, <1>9, <1>10, <1>11

\* Only a completed result that was sent can have been refused.
LEMMA NotRefused ==
  ASSUME NEW a, NEW x, Rests(a, x), a # "idle" \/ x # "completed"
  PROVE  RefusedOnlyIfWaiting'
<1>1. relay'.at = a /\ relay'.result = x
  BY DEF Rests, Anew
<1> QED
  BY <1>1 DEF RefusedOnlyIfWaiting, RelayAt

LEMMA Counters ==
  ASSUME RelayAssumption, RelayInv
  PROVE  /\ drops \in Nat /\ drops \in drops..MaxDrops /\ (drops < MaxDrops => drops + 1 \in drops..MaxDrops)
         /\ faults \in Nat /\ faults \in faults..MaxFaults
         /\ (faults < MaxFaults => faults + 1 \in faults..MaxFaults)
BY DEF RelayAssumption, RelayInv, TypeOK

\* What remains to be shown of such a step.
LEMMA RestStep ==
  ASSUME RelayAssumption, RelayInv, NEW a, NEW x, Rests(a, x),
         a \in {"away", "import"} => drops' > 0,
         a = "send" => x # "none",
         x = "completed" \/ server' = "completed" => local = "completed" /\ (AllRelayed \/ cut),
         server' \in {"completed", "failed", "interrupted"} => a \in {"away", "idle"},
         local' # local => relay.at = "cancel" \/ faults' > 0,
         a = "cancel" /\ Undisturbed' => Explained \/ local \in LocalOver \cup {"interrupted"},
         RefusedOnlyIfWaiting'
  PROVE  RelayInv'
<1>1. /\ TypeOK' /\ Shapes' /\ WorkerSound' /\ OpenRequests' /\ EventsSound' /\ LogSound'
      /\ RequestsSound' /\ KnownRequests'
      /\ relay'.at = a /\ relay'.result = x /\ relay'.seen = "absent"
      /\ relay'.cursor = 0 /\ relay'.upto = 0 /\ relay'.recovering = FALSE
      /\ AllRelayed' = AllRelayed
  BY RestFrame
<1>2. local' = local \/ (local' = "canceled" /\ local \notin LocalOver)
  BY DEF Rests, Canceled
<1>3. /\ UNCHANGED <<safe, asked, serverAsked, stopped, decided, cut>>
      /\ a \in {"import", "cancel", "send", "idle", "away"}
      /\ server' # server => server' \in {"completed", "failed", "interrupted"} /\ Leased
      /\ drops \in Nat /\ faults \in Nat /\ drops' \in Nat /\ faults' \in Nat
      /\ drops' >= drops /\ faults' >= faults /\ events' = events
  BY DEF Rests, Anew, RelayInv, TypeOK, RelayAssumption
<1>4. RelaySound'
  <2>1. Len(events') \in Nat
    BY <1>1 DEF Shapes, RelayRecord
  <2> QED
    BY <1>1, <1>3, <2>1 DEF RelaySound
<1>5. OutcomeSound'
  BY <1>1, <1>2, <1>3 DEF OutcomeSound, LocalOver
<1>6. Passed'
  BY <1>1, <1>3 DEF Passed
<1>7. Explained => Explained'
  BY <1>3 DEF Explained
<1>8. Undisturbed' => Undisturbed
  BY <1>3 DEF Undisturbed, Leased, Waiting
<1>9. CancelSound'
  <2>1. ASSUME local' = "canceled", Undisturbed', safe'
        PROVE  Explained
    <3>1. CASE local' = local
      BY <1>3, <1>8, <2>1, <3>1 DEF RelayInv, CancelSound
    <3>2. CASE local' # local
      <4>1. relay.at = "cancel" /\ faults = 0
        BY <1>3, <2>1, <3>2 DEF Undisturbed
      <4>2. local # "interrupted"
        BY <1>3, <2>1, <4>1 DEF RelayInv, WorkerSound
      <4> QED
        BY <1>2, <1>8, <2>1, <3>2, <4>1, <4>2 DEF RelayInv, CancelSound
    <3> QED
      BY <3>1, <3>2
  <2>2. ASSUME a = "cancel", Undisturbed'
        PROVE  Explained \/ local' \in LocalOver \cup {"interrupted"}
    BY <1>2, <2>2 DEF LocalOver
  <2> QED
    BY <1>1, <1>7, <2>1, <2>2 DEF CancelSound
<1> QED
  BY <1>1, <1>4, <1>5, <1>6, <1>9 DEF RelayInv

\* After an error the daemon is asked to cancel the run.
LEMMA CancelsInv ==
  ASSUME RelayAssumption, RelayInv, relay_cancels
  PROVE  RelayInv'
<1> USE DEF relay_cancels, RelayAt, Report, RelayRests
<1>1. Rests("send", "failed")
  BY Counters, RelayAnew DEF Rests, serverVars, history
<1>2. server' = server /\ (server \in {"completed", "failed", "interrupted"} => FALSE)
  BY DEF serverVars, RelayInv, OutcomeSound
<1>3. RefusedOnlyIfWaiting'
  BY <1>1, NotRefused
<1> QED
  BY <1>1, <1>2, <1>3, RestStep

LEMMA FailsInv ==
  ASSUME RelayAssumption, RelayInv, relay_fails \/ heartbeat_failed
  PROVE  RelayInv'
<1> USE DEF relay_fails, heartbeat_failed, RelayAt, Report, RelayRests, Fault
<1>1. faults' > 0 /\ relay.at \notin {"away", "idle"} /\ server' = server
  BY DEF serverVars, Relaying, RelayInv, TypeOK
<1>2. /\ server \notin {"completed", "failed", "interrupted"}
      /\ ~Undisturbed'
  BY <1>1 DEF RelayInv, OutcomeSound, Undisturbed
<1>3. PICK a \in {"cancel", "send", "idle"}, x \in {"none", "failed"} :
        Rests(a, x) /\ (a = "send" => x # "none")
  <2>1. faults' \in faults..MaxFaults /\ drops' \in drops..MaxDrops
    BY Counters DEF history
  <2>2. \A a \in {"cancel", "send", "idle"}, x \in {"none", "failed"} :
          relay' = [NewRelay EXCEPT !.at = a, !.result = x] => Rests(a, x)
    BY <2>1, RelayAnew DEF Rests, serverVars, daemonVars, history
  <2> QED
    BY <2>2
<1>4. RefusedOnlyIfWaiting'
  BY <1>3, NotRefused
<1> HIDE DEF relay_fails, heartbeat_failed
<1> QED
  BY <1>1, <1>2, <1>3, <1>4, RestStep

LEMMA DisconnectInv ==
  ASSUME RelayAssumption, RelayInv, disconnect
  PROVE  RelayInv'
<1> USE DEF disconnect, RelayAt, RelayRests
<1>1. Rests("away", "none") /\ drops' > 0 /\ server' = server /\ local' = local
  BY Counters, RelayAnew DEF Rests, serverVars, daemonVars
<1>2. RefusedOnlyIfWaiting'
  BY <1>1, NotRefused
<1>3. server' = "completed" => local = "completed" /\ (AllRelayed \/ cut)
  BY <1>1 DEF RelayInv, OutcomeSound
<1> QED
  BY <1>1, <1>2, <1>3, RestStep

LEMMA ReconnectInv ==
  ASSUME RelayAssumption, RelayInv, reconnect
  PROVE  RelayInv'
<1> USE DEF reconnect, RelayAt
<1>1. /\ drops' > 0 /\ local' = local
      /\ server' \in {server, "interrupted"}
      /\ server' \in {"completed", "failed", "interrupted"} => ~(Leased /\ serverSafe)
  BY DEF RelayInv, RelaySound, daemonVars, history, Leased, Waiting
<1>2. PICK a \in {"import", "idle"} : Rests(a, "none") /\ (a = "import" => Leased /\ serverSafe)
  <2>1. (Anew("import", "none") /\ Leased /\ serverSafe) \/ Anew("idle", "none")
    BY DEF Anew, NewRelay, RelayRecord, LocalState
  <2> QED
    BY <2>1, Counters DEF Rests, daemonVars, history
<1> HIDE DEF reconnect
<1>3. RefusedOnlyIfWaiting'
  BY <1>2, NotRefused
<1>4. server' = "completed" => local = "completed" /\ (AllRelayed \/ cut)
  BY <1>1 DEF RelayInv, OutcomeSound
<1> QED
  BY <1>1, <1>2, <1>3, <1>4, RestStep

\* A completed run that the server does not take: it waits for an answer that
\* was given on the device, or that ran out.
LEMMA WaitingExplained ==
  ASSUME RelayInv, local = "completed", server \in Waiting
  PROVE  \E r \in Requests :
           serverAsked[r] # "none" /\ (r \in decided \/ "expired" \in {asked[r], serverAsked[r]})
<1>1. PICK r \in Requests : serverAsked[r] \in {"pending", "expired"}
  BY DEF RelayInv, RequestsSound
<1>2. CASE serverAsked[r] = "expired"
  BY <1>2
<1>3. CASE serverAsked[r] = "pending"
  <2>1. asked[r] # "none"
    BY <1>3 DEF RelayInv, RequestsSound
  <2>2. asked[r] # "pending"
    BY DEF RelayInv, OpenRequests, WorkerSound, Waiting
  <2>3. asked[r] \in {"approved", "rejected", "answered", "expired"}
    BY <2>1, <2>2 DEF RelayInv, TypeOK
  <2> QED
    BY <1>3, <2>3 DEF RelayInv, RequestsSound
<1> QED
  BY <1>1, <1>2, <1>3

LEMMA SendInv ==
  ASSUME RelayAssumption, RelayInv, send_result
  PROVE  RelayInv'
<1> USE DEF send_result, RelayAt, RelayRests
<1>1. /\ relay.at = "send" /\ relay.result \in {"completed", "failed"}
      /\ server \notin {"completed", "failed", "interrupted"}
      /\ local' = local
  BY DEF RelayInv, RelaySound, OutcomeSound, Shapes, RelayRecord, daemonVars
<1>2. /\ server' # server => server' \in {"completed", "failed"} /\ Leased
      /\ server' = "completed" => relay.result = "completed"
      /\ relay.result = "completed" => server' = "completed" \/ (server' = server /\ server # "running")
  BY <1>1 DEF Finished, Leased, Waiting
<1>3. Rests("idle", relay.result)
  BY <1>1, <1>2, Counters, RelayAnew DEF Rests, daemonVars, history
<1>4. relay.result = "completed" => local = "completed" /\ (AllRelayed \/ cut)
  BY DEF RelayInv, OutcomeSound
<1>5. RefusedOnlyIfWaiting'
  <2>1. relay'.result = relay.result
    BY <1>3, RestFrame
  <2>2. SUFFICES ASSUME relay.result = "completed", server' # "completed", server # "ended"
                 PROVE  \E r \in Requests :
                          serverAsked[r] # "none" /\ (r \in decided \/ "expired" \in {asked[r], serverAsked[r]})
    BY <1>2, <2>1 DEF RefusedOnlyIfWaiting, daemonVars, history
  <2>3. server \in Waiting
    BY <1>1, <1>2, <2>2 DEF RelayInv, TypeOK
  <2> QED
    BY <1>4, <2>2, <2>3, WaitingExplained
<1> HIDE DEF send_result
<1> QED
  BY <1>1, <1>2, <1>3, <1>4, <1>5, RestStep

\* The daemon has the run, or gets it.
LEMMA ImportInv ==
  ASSUME RelayAssumption, RelayInv, import_server_run
  PROVE  RelayInv'
<1> USE DEF import_server_run, RelayAt, RelayInv
<1>1. /\ UNCHANGED <<safe, events, asked, worker, server, serverSafe, serverLog, serverAsked>>
      /\ UNCHANGED <<stopped, decided, cut, drops, faults>>
      /\ local' = local \/ (local = "absent" /\ local' = "waiting_for_executor")
      /\ relay.at = "import" /\ relay'.at \in {"start", "record"}
      /\ relay'.cursor = relay.cursor /\ relay'.upto = relay.upto /\ relay'.seen = relay.seen
      /\ relay'.result = relay.result
      /\ relay'.recovering = (local \in LocalOver)
      /\ relay'.at = "start" => local' = "waiting_for_executor"
  BY DEF serverVars, history, Shapes, RelayRecord
<1>2. Shapes'
  <2> DEFINE b == local \in LocalOver
  <2>1. b \in BOOLEAN
    OBVIOUS
  <2>2. \E at \in {"start", "record"} : relay' = [relay EXCEPT !.at = at, !.recovering = b]
    OBVIOUS
  <2> HIDE DEF b
  <2>3. relay' \in RelayRecord
    BY <2>1, <2>2 DEF Shapes, RelayRecord, Relaying
  <2> QED
    BY <2>3 DEF Shapes, serverVars
<1> HIDE DEF import_server_run
<1>3. TypeOK'
  BY <1>1 DEF TypeOK, Relaying
<1>4. WorkerSound' /\ OpenRequests' /\ EventsSound'
  BY <1>1 DEF WorkerSound, OpenRequests, EventsSound, Unbegun, Waiting
<1>5. /\ \A n : IsRelayed(n)' <=> IsRelayed(n)
      /\ \A n, as : Stored(n, as)' <=> Stored(n, as)
      /\ AllRelayed' <=> AllRelayed
  BY <1>1 DEF IsRelayed, Stored, AllRelayed
<1>6. local \in LocalOver => local' = local
  BY <1>1 DEF LocalOver
<1>7. LogSound'
  <2>1. LogOrder'
    BY <1>1 DEF LogSound, LogOrder
  <2> QED
    BY <1>1, <1>5, <1>6, <2>1 DEF LogSound
<1>8. RequestsSound' /\ KnownRequests'
  BY <1>1, <1>5 DEF RequestsSound, KnownRequests
<1>9. RelaySound'
  BY <1>1, <1>6 DEF RelaySound
<1>10. OutcomeSound'
  BY <1>1, <1>5, <1>6 DEF OutcomeSound, LocalOver
<1>11. Passed'
  BY <1>1 DEF Passed, Relaying
<1>12. CancelSound'
  BY <1>1 DEF CancelSound, Undisturbed, Explained
<1>13. RefusedOnlyIfWaiting'
  BY <1>1 DEF RefusedOnlyIfWaiting
<1> QED
  BY <1>2, <1>3, <1>4, <1>7, <1>8, <1>9, <1>10, <1>11, <1>12, <1>13

\* The relay goes on without passing anything on.
RelayMoves ==
  /\ relay' \in RelayRecord /\ relay'.at \in Relaying
  /\ relay'.cursor = relay.cursor /\ relay'.recovering = relay.recovering
  /\ relay'.result = relay.result
  /\ relay'.cursor <= relay'.upto /\ relay'.upto <= Len(events)
  /\ UNCHANGED <<safe, events, asked, worker, serverVars, stopped, decided, drops, faults>>
  /\ cut' \in BOOLEAN /\ (cut => cut')
  /\ \/ local' = local /\ relay.at \in Relaying
     \/ /\ relay.at = "start" /\ local \in Unbegun \cup {"running"}
        /\ local' = local \/ (local = "waiting_for_executor" /\ local' = "queued")
  /\ relay'.at \in {"ask", "resolve"} => relay.at \in {"ask", "resolve"}
  /\ relay.at = "ask" => serverAsked[events[relay.cursor].ask] # "pending"
  /\ relay'.seen = relay.seen \/ relay'.seen = local'
  /\ relay'.seen = "completed" /\ relay'.at \in {"handle", "ask", "resolve"} =>
       relay'.upto = Len(events) \/ cut'

LEMMA RelayMovesInv ==
  ASSUME RelayAssumption, RelayInv, RelayMoves
  PROVE  RelayInv'
<1> USE DEF RelayInv, RelayMoves, serverVars
<1>1. /\ relay.at \in Relaying \cup {"start"} /\ relay'.at \notin {"away", "send", "cancel", "idle"}
      /\ local \in LocalOver => local' = local
      /\ local' \in LocalOver \cup {"interrupted"} => local' = local
      /\ Len(events) \in Nat /\ relay.cursor \in Nat
  BY DEF Relaying, LocalOver, Unbegun, Shapes, RelayRecord
<1>2. Shapes'
  BY DEF Shapes
<1>3. TypeOK'
  BY <1>1 DEF TypeOK, Unbegun
<1>4. WorkerSound' /\ OpenRequests' /\ EventsSound'
  BY <1>1 DEF WorkerSound, OpenRequests, EventsSound, Unbegun, Waiting
<1>5. /\ \A n : IsRelayed(n)' <=> IsRelayed(n)
      /\ \A n, as : Stored(n, as)' <=> Stored(n, as)
      /\ AllRelayed' <=> AllRelayed
  BY DEF IsRelayed, Stored, AllRelayed
<1>6. LogSound'
  <2>1. LogOrder'
    BY DEF LogSound, LogOrder
  <2>2. relay.at = "start" => local \notin LocalOver
    BY DEF LocalOver, Unbegun, Relaying
  <2> QED
    BY <1>1, <1>5, <2>1, <2>2 DEF LogSound
<1>7. RequestsSound' /\ KnownRequests'
  BY <1>5 DEF RequestsSound, KnownRequests
<1>8. RelaySound'
  BY <1>1 DEF RelaySound
<1>9. OutcomeSound'
  BY <1>1, <1>5 DEF OutcomeSound, LocalOver, Relaying
<1>10. Passed'
  BY <1>1 DEF Passed, Relaying
<1>11. CancelSound'
  BY <1>1 DEF CancelSound, Undisturbed, Explained, LocalOver
<1>12. RefusedOnlyIfWaiting'
  BY <1>1 DEF RefusedOnlyIfWaiting, RelayAt
<1> QED
  BY <1>2, <1>3, <1>4, <1>6, <1>7, <1>8, <1>9, <1>10, <1>11, <1>12

LEMMA StartInv ==
  ASSUME RelayAssumption, RelayInv, start_imported_server_run
  PROVE  RelayInv'
<1> USE DEF start_imported_server_run, RelayAt, RelayTo, Report, RelayRests
<1>1. relay \in RelayRecord /\ relay.cursor <= relay.upto /\ relay.upto <= Len(events) /\ cut \in BOOLEAN
  BY DEF RelayInv, Shapes, RelaySound, TypeOK
<1>2. CASE local \in {"waiting_for_executor", "queued", "running"}
  <2>1. relay' = [relay EXCEPT !.at = "record"]
    BY <1>2
  <2>2. /\ relay' \in RelayRecord /\ relay'.at = "record" /\ relay'.cursor = relay.cursor
        /\ relay'.upto = relay.upto /\ relay'.seen = relay.seen /\ relay'.result = relay.result
        /\ relay'.recovering = relay.recovering
    BY <1>1, <2>1 DEF RelayRecord, Relaying
  <2>3. RelayMoves
    BY <1>1, <1>2, <2>2 DEF RelayMoves, Relaying, Unbegun, history
  <2> QED
    BY <2>3, RelayMovesInv
<1>3. CASE local \notin {"waiting_for_executor", "queued", "running"}
  <2>1. Rests("send", "failed")
    BY <1>3, Counters, RelayAnew DEF Rests, serverVars, history
  <2>2. server' = server /\ server \notin {"completed", "failed", "interrupted"} /\ local' = local
    BY <1>3 DEF RelayInv, OutcomeSound, serverVars
  <2>3. RefusedOnlyIfWaiting'
    BY <2>1, NotRefused
  <2> QED
    BY <2>1, <2>2, <2>3, RestStep
<1> QED
  BY <1>2, <1>3

LEMMA RecordInv ==
  ASSUME RelayAssumption, RelayInv, relay_record
  PROVE  RelayInv'
<1>1. relay \in RelayRecord /\ relay.cursor <= relay.upto /\ relay.upto <= Len(events) /\ cut \in BOOLEAN
      /\ local \in LocalState
  BY DEF RelayInv, Shapes, RelaySound, TypeOK, LocalState
<1>2. relay' = [relay EXCEPT !.at = "events", !.seen = local] /\ relay.at = "record"
  BY DEF relay_record, RelayAt
<1>3. /\ relay' \in RelayRecord /\ relay'.at = "events" /\ relay'.cursor = relay.cursor
      /\ relay'.upto = relay.upto /\ relay'.seen = local /\ relay'.result = relay.result
      /\ relay'.recovering = relay.recovering
  BY <1>1, <1>2 DEF RelayRecord, Relaying
<1>4. RelayMoves
  BY <1>1, <1>2, <1>3 DEF relay_record, RelayMoves, Relaying, daemonVars, history
<1> QED
  BY <1>4, RelayMovesInv

\* The events read end where the batch or the log ends.
LEMMA BatchEnd ==
  ASSUME RelayAssumption, RelayInv
  PROVE  list_events \in Nat /\ relay.cursor <= list_events /\ list_events <= Len(events)
<1>1. /\ relay.cursor \in Nat /\ Batch \in Nat /\ Len(events) \in Nat /\ relay.cursor <= Len(events)
  BY DEF RelayInv, Shapes, RelayRecord, RelaySound, RelayAssumption
<1>2. \A S \in SUBSET Nat : (\E x \in S : \A y \in S : x <= y) => Min(S) \in S /\ \A y \in S : Min(S) <= y
  BY DEF Min
<1> DEFINE S == {relay.cursor + Batch, Len(events)}
<1>3. S \in SUBSET Nat /\ (\E x \in S : \A y \in S : x <= y) /\ list_events = Min(S) /\ Len(events) \in S
  BY <1>1 DEF list_events
<1>4. \A x \in S : relay.cursor <= x /\ x \in Nat
  BY <1>1
<1> HIDE DEF S
<1>5. list_events \in S /\ list_events <= Len(events)
  BY <1>2, <1>3
<1> QED
  BY <1>4, <1>5

LEMMA EventsInv ==
  ASSUME RelayAssumption, RelayInv, relay_events
  PROVE  RelayInv'
<1>1. relay \in RelayRecord /\ relay.cursor <= relay.upto /\ relay.upto <= Len(events) /\ cut \in BOOLEAN
  BY DEF RelayInv, Shapes, RelaySound, TypeOK
<1>2. relay' = [relay EXCEPT !.at = "handle", !.upto = list_events] /\ relay.at = "events"
  BY DEF relay_events, RelayAt
<1>3. list_events \in Nat /\ relay.cursor <= list_events /\ list_events <= Len(events) /\ Len(events) \in Nat
  BY BatchEnd DEF RelayInv, Shapes
<1>4. /\ relay' \in RelayRecord /\ relay'.at = "handle" /\ relay'.cursor = relay.cursor
      /\ relay'.upto = list_events /\ relay'.seen = relay.seen /\ relay'.result = relay.result
      /\ relay'.recovering = relay.recovering
  BY <1>1, <1>2, <1>3 DEF RelayRecord, Relaying
<1>5. /\ cut' \in BOOLEAN /\ (cut => cut')
      /\ relay.seen \in LocalOver => list_events = Len(events) \/ cut'
  <2>1. cut' = (cut \/ (relay.seen \in LocalOver /\ list_events < Len(events)))
    BY DEF relay_events
  <2>2. list_events < Len(events) \/ list_events = Len(events)
    BY <1>3
  <2> QED
    BY <1>1, <2>1, <2>2, Zenon
<1>6. RelayMoves
  BY <1>1, <1>2, <1>3, <1>4, <1>5 DEF relay_events, RelayMoves, Relaying, daemonVars, LocalOver
<1> QED
  BY <1>6, RelayMovesInv

LEMMA AnswerInv ==
  ASSUME RelayAssumption, RelayInv, relay_answer
  PROVE  RelayInv'
<1>1. relay \in RelayRecord /\ relay.cursor <= relay.upto /\ relay.upto <= Len(events) /\ cut \in BOOLEAN
  BY DEF RelayInv, Shapes, RelaySound, TypeOK
<1>2. relay' = [relay EXCEPT !.at = "resolve"] /\ relay.at = "ask"
  BY DEF relay_answer, RelayAt, RelayTo
<1>3. /\ relay' \in RelayRecord /\ relay'.at = "resolve" /\ relay'.cursor = relay.cursor
      /\ relay'.upto = relay.upto /\ relay'.seen = relay.seen /\ relay'.result = relay.result
      /\ relay'.recovering = relay.recovering
  BY <1>1, <1>2 DEF RelayRecord, Relaying
<1>4. RelayMoves
  BY <1>1, <1>2, <1>3 DEF relay_answer, RelayMoves, Relaying, daemonVars, history, RelayInv, OutcomeSound
<1> QED
  BY <1>4, RelayMovesInv

LEMMA ResolveInv ==
  ASSUME RelayAssumption, RelayInv, relay_resolve
  PROVE  RelayInv'
<1> DEFINE c == relay.cursor
           q == events[c].ask
<1>1. /\ relay.at = "resolve" /\ c \in 1..Len(events) /\ events[c].kind \in Kinds /\ q \in Requests
      /\ ~relay.recovering /\ serverAsked[q] \notin {"none", "pending"} /\ asked[q] # "none"
      /\ relay \in RelayRecord
  <2>1. relay.at = "resolve" /\ relay \in RelayRecord
    BY DEF relay_resolve, RelayAt, RelayInv, Shapes
  <2>2. c \in 1..Len(events) /\ c \in 1..c
    BY <2>1 DEF RelayInv, RelaySound, Shapes, RelayRecord
  <2> QED
    BY <2>1, <2>2 DEF RelayInv, RelaySound, EventsSound
<1>2. CASE asked[q] = "pending"
  <2>1. PICK v \in {"approved", "rejected", "answered"} : asked' = [asked EXCEPT ![q] = v]
    BY <1>2 DEF relay_resolve
  <2>2. /\ relay' \in RelayRecord /\ relay'.at = "handle" /\ relay'.cursor = relay.cursor
        /\ relay'.upto = relay.upto /\ relay'.seen = relay.seen /\ relay'.result = relay.result
        /\ relay'.recovering = relay.recovering
    BY <1>1, <1>2 DEF relay_resolve, RelayTo, RelayRecord, Relaying
  <2>3. /\ UNCHANGED <<local, safe, events, worker, server, serverSafe, serverLog, serverAsked>>
        /\ UNCHANGED <<stopped, decided, cut, drops, faults>>
    BY DEF relay_resolve, serverVars, history
  <2>4. /\ asked' \in [Requests -> {"none", "pending", "approved", "rejected", "answered", "expired"}]
        /\ asked'[q] = v /\ \A r \in Requests : r # q => asked'[r] = asked[r]
    BY <1>1, <2>1 DEF RelayInv, TypeOK
  <2> HIDE DEF q, c
  <2>5. TypeOK' /\ Shapes'
    BY <2>2, <2>3, <2>4 DEF RelayInv, TypeOK, Shapes, Relaying
  <2>6. worker.at \notin {"turn", "tool"} \/ worker.step # q
    BY <1>1, <1>2 DEF RelayInv, WorkerSound
  <2>7. WorkerSound'
    BY <1>1, <1>2, <2>3, <2>4, <2>6 DEF RelayInv, WorkerSound
  <2>8. OpenRequests' /\ EventsSound'
    BY <1>1, <1>2, <2>3, <2>4 DEF RelayInv, OpenRequests, EventsSound
  <2>9. /\ \A n : IsRelayed(n)' <=> IsRelayed(n)
        /\ \A n, as : Stored(n, as)' <=> Stored(n, as)
        /\ AllRelayed' <=> AllRelayed
    BY <2>3 DEF IsRelayed, Stored, AllRelayed
  <2>10. LogSound'
    <3>1. LogOrder'
      BY <2>3 DEF RelayInv, LogSound, LogOrder
    <3> QED
      BY <1>1, <2>2, <2>3, <2>9, <3>1 DEF RelayInv, LogSound, Relaying
  <2>11. RequestsSound' /\ KnownRequests'
    BY <1>1, <2>3, <2>4, <2>9 DEF RelayInv, RequestsSound, KnownRequests
  <2>12. RelaySound'
    BY <1>1, <2>2, <2>3 DEF RelayInv, RelaySound
  <2>13. OutcomeSound'
    BY <1>1, <2>2, <2>3, <2>9 DEF RelayInv, OutcomeSound
  <2>14. Passed'
    <3>1. SUFFICES ASSUME NEW r \in Requests, asked'[r] \in {"approved", "rejected", "answered"},
                          r \notin decided, drops = 0
                   PROVE  \E n \in 1..relay.cursor : events[n].kind \in Kinds /\ events[n].ask = r
      BY <2>2, <2>3 DEF Passed, Relaying
    <3>2. CASE r = q
      BY <1>1, <3>2 DEF q, c
    <3>3. CASE r # q
      BY <1>1, <2>4, <3>1, <3>3 DEF RelayInv, Passed
    <3> QED
      BY <3>2, <3>3
  <2>15. CancelSound'
    <3>1. Explained => Explained'
      BY <1>2, <2>3, <2>4 DEF Explained
    <3> QED
      BY <2>2, <2>3, <3>1 DEF RelayInv, CancelSound, Undisturbed
  <2>16. RefusedOnlyIfWaiting'
    BY <2>2 DEF RefusedOnlyIfWaiting, RelayAt
  <2> QED
    BY <2>5, <2>7, <2>8, <2>10, <2>11, <2>12, <2>13, <2>14, <2>15, <2>16 DEF RelayInv
<1>3. CASE asked[q] # "pending"
  <2>1. Rests("cancel", "none")
    BY <1>3, Counters, RelayAnew DEF relay_resolve, RelayRests, Rests, serverVars, history
  <2>2. server' = server /\ server \notin {"completed", "failed", "interrupted"} /\ local' = local
    BY <1>1 DEF relay_resolve, RelayInv, OutcomeSound, serverVars
  <2>3. RefusedOnlyIfWaiting'
    BY <2>1, NotRefused
  <2>4. Explained
    <3>1. asked[q] \in {"approved", "rejected", "answered", "expired"}
      BY <1>1, <1>3 DEF RelayInv, TypeOK
    <3>2. ASSUME drops = 0, q \notin decided, asked[q] # "expired"
          PROVE  FALSE
      <4>1. PICK n \in 1..c : events[n].kind \in Kinds /\ events[n].ask = q /\ n # c
        BY <1>1, <3>1, <3>2 DEF RelayInv, Passed
      <4>2. n \in 1..Len(events)
        BY <1>1, <4>1
      <4> QED
        BY <1>1, <4>1, <4>2 DEF RelayInv, EventsSound
    <3>3. drops = 0 \/ drops > 0
      BY Counters
    <3> QED
      BY <1>1, <3>1, <3>2, <3>3 DEF Explained
  <2> QED
    BY <2>1, <2>2, <2>3, <2>4, RestStep
<1> QED
  BY <1>2, <1>3

LEMMA EndInv ==
  ASSUME RelayAssumption, RelayInv, relay_end
  PROVE  RelayInv'
<1>1. /\ relay \in RelayRecord /\ relay.at = "handle" /\ relay.cursor = relay.upto /\ cut \in BOOLEAN
      /\ relay.upto <= Len(events)
      /\ server \notin {"completed", "failed", "interrupted"}
      /\ UNCHANGED <<daemonVars, serverVars, history>>
  BY DEF relay_end, RelayAt, RelayInv, Shapes, TypeOK, OutcomeSound, RelaySound
<1>2. server' = server /\ local' = local
  BY <1>1 DEF serverVars, daemonVars
<1>3. ASSUME NEW a \in {"send", "cancel"}, NEW x \in {"none", "completed", "failed"},
             relay' = [NewRelay EXCEPT !.at = a, !.result = x]
      PROVE  Rests(a, x)
  BY <1>1, <1>2, <1>3, Counters, RelayAnew DEF Rests, serverVars, daemonVars, history
<1>4. CASE relay.seen = "completed"
  <2>1. Rests("send", "completed")
    BY <1>3, <1>4 DEF relay_end, Report, RelayRests
  <2>2. local = "completed" /\ (AllRelayed \/ cut)
    <3>1. relay.upto = Len(events) => AllRelayed
      BY <1>1 DEF RelayInv, LogSound, AllRelayed
    <3> QED
      BY <1>1, <1>4, <3>1 DEF RelayInv, OutcomeSound, LocalOver
  <2>3. RefusedOnlyIfWaiting'
    BY <2>1, NotRefused
  <2> QED
    BY <1>1, <1>2, <2>1, <2>2, <2>3, RestStep
<1>5. CASE relay.seen \in {"failed", "canceled", "interrupted"}
  <2>1. Rests("cancel", "none")
    BY <1>3, <1>5 DEF relay_end, RelayRests
  <2>2. local \in LocalOver \cup {"interrupted"}
    BY <1>5 DEF RelayInv, OutcomeSound, LocalOver
  <2>3. RefusedOnlyIfWaiting'
    BY <2>1, NotRefused
  <2> QED
    BY <1>1, <1>2, <2>1, <2>2, <2>3, RestStep
<1>6. CASE relay.seen \notin {"completed", "failed", "canceled", "interrupted"}
  <2>1. relay' = [relay EXCEPT !.at = "record"]
    BY <1>6 DEF relay_end, RelayTo
  <2>2. /\ relay' \in RelayRecord /\ relay'.at = "record" /\ relay'.cursor = relay.cursor
        /\ relay'.upto = relay.upto /\ relay'.seen = relay.seen /\ relay'.result = relay.result
        /\ relay'.recovering = relay.recovering
    BY <1>1, <2>1 DEF RelayRecord, Relaying
  <2>3. relay.cursor <= relay.upto
    BY DEF RelayInv, RelaySound
  <2>4. RelayMoves
    BY <1>1, <2>2, <2>3 DEF RelayMoves, Relaying, daemonVars, history
  <2> QED
    BY <2>4, RelayMovesInv
<1> QED
  BY <1>4, <1>5, <1>6
-----------------------------------------------------------------------------
(* Passing an event on.                                                    *)

LEMMA EntryIs ==
  ASSUME serverLog \in Seq(Entry), NEW m \in Nat, NEW as \in {"itself", "warning"}
  PROVE  Stored(m, as) <=> \E i \in 1..Len(serverLog) : serverLog[i].n = m /\ serverLog[i].as = as
<1>1. \A i \in 1..Len(serverLog) : serverLog[i] \in Entry
  OBVIOUS
<1>2. \A e \in Entry : e = [n |-> e.n, as |-> e.as]
  BY DEF Entry
<1> QED
  BY <1>1, <1>2 DEF Stored

LEMMA AppendEntry ==
  ASSUME serverLog \in Seq(Entry), NEW e \in Entry, serverLog' = Append(serverLog, e)
  PROVE  /\ serverLog' \in Seq(Entry) /\ Len(serverLog) \in Nat /\ Len(serverLog') = Len(serverLog) + 1
         /\ \A i \in 1..Len(serverLog) : serverLog'[i] = serverLog[i] /\ serverLog[i] \in Entry
         /\ serverLog'[Len(serverLog) + 1] = e
         /\ \A i \in 1..Len(serverLog') : i \in 1..Len(serverLog) \/ i = Len(serverLog) + 1
OBVIOUS

\* What the server's log is after a report.
LEMMA StoreShape ==
  ASSUME serverLog \in Seq(Entry), NEW n \in Nat, NEW as \in {"itself", "warning"}, Store(n, as)
  PROVE  /\ serverLog' \in Seq(Entry) /\ Len(serverLog') \in Nat
         /\ \A m : IsRelayed(m)' <=> IsRelayed(m) \/ m = n
         /\ \A m, b : Stored(m, b)' <=> Stored(m, b) \/ (m = n /\ b = as)
<1>1. CASE Stored(n, as)
  <2>1. serverLog' = serverLog
    BY <1>1 DEF Store
  <2>2. IsRelayed(n)
    BY <1>1 DEF Stored, IsRelayed
  <2>3. \A m : IsRelayed(m)' <=> IsRelayed(m) \/ m = n
    BY <2>1, <2>2 DEF IsRelayed
  <2>4. \A m, b : Stored(m, b)' <=> Stored(m, b) \/ (m = n /\ b = as)
    BY <1>1, <2>1 DEF Stored
  <2>5. serverLog' \in Seq(Entry) /\ Len(serverLog') \in Nat
    BY <2>1
  <2> QED
    BY <2>3, <2>4, <2>5
<1>2. CASE ~Stored(n, as)
  <2> DEFINE e == [n |-> n, as |-> as]
  <2>1. serverLog' = Append(serverLog, e) /\ e \in Entry /\ e.n = n
    BY <1>2 DEF Store, Entry
  <2>2. \A m, b : [n |-> m, as |-> b] = e <=> m = n /\ b = as
    OBVIOUS
  <2> HIDE DEF e
  <2>3. /\ serverLog' \in Seq(Entry) /\ Len(serverLog) \in Nat /\ Len(serverLog') = Len(serverLog) + 1
        /\ \A i \in 1..Len(serverLog) : serverLog'[i] = serverLog[i]
        /\ serverLog'[Len(serverLog) + 1] = e
        /\ \A i \in 1..Len(serverLog') : i \in 1..Len(serverLog) \/ i = Len(serverLog) + 1
    BY <2>1, AppendEntry
  <2>4. \A i \in 1..Len(serverLog) : i \in 1..Len(serverLog')
    BY <2>3
  <2>5. Len(serverLog) + 1 \in 1..Len(serverLog')
    BY <2>3
  <2>6. \A m : IsRelayed(m)' <=> IsRelayed(m) \/ m = n
    BY <2>1, <2>3, <2>4, <2>5 DEF IsRelayed
  <2>7. \A m, b : Stored(m, b)' <=> Stored(m, b) \/ (m = n /\ b = as)
    BY <2>2, <2>3, <2>4, <2>5 DEF Stored
  <2>8. Len(serverLog') \in Nat
    BY <2>3
  <2> QED
    BY <2>3, <2>6, <2>7, <2>8
<1> QED
  BY <1>1, <1>2

\* The relay passes on the event after its cursor: the server's log stays a
\* beginning of the daemon's, in order.
LEMMA StoreLog ==
  ASSUME RelayInv, relay.at = "handle", relay.cursor < relay.upto,
         NEW n, n = relay.cursor + 1, NEW as \in {"itself", "warning"}, Store(n, as),
         UNCHANGED <<events, local>>,
         relay'.cursor = n, relay'.recovering = relay.recovering, relay'.at \in Relaying,
         as = "warning" => relay.recovering /\ events[n].kind \in Kinds,
         as = "itself" /\ events[n].kind \in Kinds => ~relay.recovering
  PROVE  LogSound'
<1>1. /\ serverLog \in Seq(Entry) /\ Len(events) \in Nat /\ relay.cursor \in Nat
      /\ n \in 1..Len(events) /\ n \in Nat
      /\ relay.at \in Relaying
  BY DEF RelayInv, Shapes, RelayRecord, RelaySound, Relaying
<1>2. /\ serverLog' \in Seq(Entry) /\ Len(serverLog') \in Nat
      /\ \A m : IsRelayed(m)' <=> IsRelayed(m) \/ m = n
      /\ \A m, b : Stored(m, b)' <=> Stored(m, b) \/ (m = n /\ b = as)
  BY <1>1, StoreShape
<1>3. \A m \in 1..n : m # n => IsRelayed(m)
  BY <1>1 DEF RelayInv, LogSound
<1>4. ~relay.recovering => \A i \in 1..Len(serverLog) : serverLog[i].as = "itself"
  BY <1>1, EventsTyped DEF RelayInv, LogSound, TypeOK
<1>5. \A m \in 1..Len(events) : IsRelayed(m) =>
        Stored(m, "itself") \/ (events[m].kind \in Kinds /\ Stored(m, "warning"))
  <2> SUFFICES ASSUME NEW m \in 1..Len(events), IsRelayed(m)
               PROVE  Stored(m, "itself") \/ (events[m].kind \in Kinds /\ Stored(m, "warning"))
    OBVIOUS
  <2>1. PICK i \in 1..Len(serverLog) : serverLog[i].n = m
    BY DEF IsRelayed
  <2>2. /\ serverLog[i].as \in {"itself", "warning"}
        /\ serverLog[i].as = "warning" => events[m].kind \in Kinds
    BY <2>1 DEF RelayInv, LogSound, TypeOK
  <2>3. m \in Nat
    BY <1>1
  <2> QED
    BY <1>1, <2>1, <2>2, <2>3, EntryIs
<1>6. ~relay.recovering => \A m \in 1..Len(events) : ~Stored(m, "warning")
  <2>1. \A m \in 1..Len(events) : m \in Nat
    BY <1>1
  <2> QED
    BY <1>1, <1>4, <2>1, EntryIs
<1>7. \A i \in 1..Len(serverLog') :
        /\ serverLog'[i].n \in 1..Len(events)
        /\ serverLog'[i].as = "warning" =>
             events[serverLog'[i].n].kind \in Kinds /\ local \in LocalOver /\ relay.recovering
  <2>1. relay.recovering => local \in LocalOver
    BY DEF RelayInv, RelaySound
  <2>2. \A i \in 1..Len(serverLog) :
          /\ serverLog[i].n \in 1..Len(events)
          /\ serverLog[i].as = "warning" =>
               events[serverLog[i].n].kind \in Kinds /\ local \in LocalOver /\ relay.recovering
    BY <1>1 DEF RelayInv, LogSound
  <2>3. CASE Stored(n, as)
    BY <2>2, <2>3 DEF Store
  <2>4. CASE ~Stored(n, as)
    <3> DEFINE e == [n |-> n, as |-> as]
    <3>1. serverLog' = Append(serverLog, e) /\ e \in Entry /\ e.n = n /\ e.as = as
      BY <1>1, <2>4 DEF Store, Entry
    <3> HIDE DEF e
    <3>2. /\ \A i \in 1..Len(serverLog) : serverLog'[i] = serverLog[i]
          /\ serverLog'[Len(serverLog) + 1] = e
          /\ \A i \in 1..Len(serverLog') : i \in 1..Len(serverLog) \/ i = Len(serverLog) + 1
      BY <1>1, <3>1, AppendEntry
    <3> QED
      BY <1>1, <2>1, <2>2, <3>1, <3>2
  <2> QED
    BY <2>3, <2>4
<1>8. \E k \in 0..Len(events) : \A m \in 1..Len(events) : IsRelayed(m)' <=> m <= k
  <2>1. PICK k \in 0..Len(events) : \A m \in 1..Len(events) : IsRelayed(m) <=> m <= k
    BY DEF RelayInv, LogSound
  <2>2. relay.cursor <= k
    <3>1. relay.cursor = 0 \/ relay.cursor \in 1..n
      BY <1>1
    <3>2. relay.cursor # n
      BY <1>1
    <3> QED
      BY <1>1, <1>3, <2>1, <3>1, <3>2
  <2>3. CASE n <= k
    BY <1>1, <1>2, <2>1, <2>3
  <2>4. CASE ~(n <= k)
    <3>1. \A m \in 1..Len(events) : m <= k \/ m = n <=> m <= n
      BY <1>1, <2>1, <2>2, <2>4
    <3>2. n \in 0..Len(events)
      BY <1>1
    <3> QED
      BY <1>2, <2>1, <3>1, <3>2
  <2> QED
    BY <2>3, <2>4
<1>9. \A m \in 1..n : IsRelayed(m)'
  BY <1>2, <1>3
<1>10. LogOrder'
  <2>1. CASE Stored(n, as)
    <3>1. serverLog' = serverLog
      BY <2>1 DEF Store
    <3> QED
      BY <3>1 DEF RelayInv, LogSound, LogOrder
  <2>2. CASE ~Stored(n, as)
    <3> DEFINE e == [n |-> n, as |-> as]
    <3>1. serverLog' = Append(serverLog, e) /\ e \in Entry /\ e.n = n /\ e.as = as
      BY <1>1, <2>2 DEF Store, Entry
    <3>2. \A i \in 1..Len(serverLog) : serverLog[i] # e
      BY <2>2 DEF Stored
    <3> HIDE DEF e
    <3>3. /\ \A i \in 1..Len(serverLog) : serverLog'[i] = serverLog[i] /\ serverLog[i] \in Entry
          /\ serverLog'[Len(serverLog) + 1] = e /\ Len(serverLog) \in Nat
          /\ \A i \in 1..Len(serverLog') : i \in 1..Len(serverLog) \/ i = Len(serverLog) + 1
      BY <1>1, <3>1, AppendEntry
    <3>4. ASSUME as = "itself", NEW i \in 1..Len(serverLog), serverLog[i].as = "itself"
          PROVE  serverLog[i].n < n
      <4>1. serverLog[i].n \in 1..Len(events) /\ serverLog[i].n \in Nat
        BY <1>1 DEF RelayInv, LogSound
      <4>2. Stored(serverLog[i].n, "itself")
        BY <1>1, <3>4, <4>1, EntryIs
      <4>3. serverLog[i].n # n
        BY <2>2, <3>4, <4>2
      <4>4. ASSUME n < serverLog[i].n PROVE FALSE
        <5>1. events[n].kind \in Kinds /\ Stored(n, "warning")
          BY <1>1, <2>2, <3>4, <4>1, <4>2, <4>4 DEF RelayInv, LogSound
        <5> QED
          BY <1>1, <1>6, <3>4, <5>1
      <4> QED
        BY <1>1, <4>1, <4>3, <4>4
    <3>5. SUFFICES ASSUME NEW i \in 1..Len(serverLog'), NEW j \in 1..Len(serverLog'), i < j
                   PROVE  /\ serverLog'[i] # serverLog'[j]
                          /\ serverLog'[i].as = "itself" /\ serverLog'[j].as = "itself"
                               => serverLog'[i].n < serverLog'[j].n
      BY DEF LogOrder
    <3>6. i \in 1..Len(serverLog)
      BY <3>3, <3>5
    <3>7. CASE j \in 1..Len(serverLog)
      BY <3>3, <3>5, <3>6, <3>7 DEF RelayInv, LogSound, LogOrder
    <3>8. CASE j = Len(serverLog) + 1
      BY <3>1, <3>2, <3>3, <3>4, <3>6, <3>8
    <3> QED
      BY <3>3, <3>7, <3>8
  <2> QED
    BY <2>1, <2>2
<1>11. \A l, m \in 1..Len(events) :
         l < m /\ Stored(m, "itself")' =>
           Stored(l, "itself")' \/ (events[l].kind \in Kinds /\ Stored(l, "warning")')
  <2> SUFFICES ASSUME NEW l \in 1..Len(events), NEW m \in 1..Len(events), l < m, Stored(m, "itself")'
               PROVE  Stored(l, "itself") \/ (events[l].kind \in Kinds /\ Stored(l, "warning"))
    BY <1>2
  <2>1. CASE Stored(m, "itself")
    BY <2>1 DEF RelayInv, LogSound
  <2>2. CASE m = n
    BY <1>1, <1>3, <1>5, <2>2
  <2> QED
    BY <1>2, <2>1, <2>2
<1> QED
  BY <1>7, <1>8, <1>9, <1>10, <1>11 DEF LogSound

\* The relay's part of such a step: its cursor moves, and it goes on or waits
\* for the answer to the request it has passed on.
Passes(n, as) ==
  /\ relay.at = "handle" /\ relay.cursor < relay.upto /\ n = relay.cursor + 1 /\ Leased
  /\ as \in {"itself", "warning"} /\ Store(n, as)
  /\ as = "warning" => relay.recovering /\ events[n].kind \in Kinds
  /\ as = "itself" /\ events[n].kind \in Kinds => ~relay.recovering /\ relay'.at = "ask"
  /\ relay' \in RelayRecord /\ relay'.at \in {"handle", "ask"} /\ relay'.cursor = n
  /\ relay'.upto = relay.upto /\ relay'.seen = relay.seen /\ relay'.result = relay.result
  /\ relay'.recovering = relay.recovering
  /\ relay'.at = "ask" => events[n].kind \in Kinds /\ ~relay.recovering /\ serverAsked'[events[n].ask] # "none"
  /\ UNCHANGED <<local, safe, events, asked, worker, stopped, decided, cut, drops, faults>>
  /\ serverSafe' \in BOOLEAN /\ server' \in {server} \cup Waiting
  /\ serverAsked' \in [Requests -> {"none", "pending", "approved", "rejected", "expired"}]
  /\ \A r \in Requests :
       serverAsked'[r] = serverAsked[r] \/ (serverAsked[r] = "none" /\ relay'.at = "ask" /\ r = events[n].ask)

LEMMA PassesInv ==
  ASSUME RelayAssumption, RelayInv, NEW n, NEW as, Passes(n, as), RequestsSound'
  PROVE  RelayInv'
<1>1. /\ serverLog \in Seq(Entry) /\ Len(events) \in Nat /\ relay.cursor \in Nat /\ relay.upto \in Nat
      /\ n \in 1..Len(events) /\ n \in Nat /\ n <= relay.upto /\ relay'.at \in Relaying
      /\ relay.recovering \in BOOLEAN
  BY DEF Passes, RelayInv, Shapes, RelayRecord, RelaySound, Relaying
<1>2. LogSound'
  BY <1>1, StoreLog DEF Passes
<1>3. /\ serverLog' \in Seq(Entry) /\ Len(serverLog') \in Nat
      /\ \A m : IsRelayed(m)' <=> IsRelayed(m) \/ m = n
  BY <1>1, StoreShape DEF Passes
<1>4. Shapes'
  BY <1>3 DEF Passes, RelayInv, Shapes
<1>5. TypeOK'
  <2>1. \A i \in 1..Len(serverLog') :
          serverLog'[i].n \in 1..Len(events') /\ serverLog'[i].as \in {"itself", "warning"}
    <3>1. \A i \in 1..Len(serverLog') : serverLog'[i] \in Entry
      BY <1>3
    <3> QED
      BY <1>2, <3>1 DEF LogSound, Entry
  <2>2. /\ relay'.at \in Relaying /\ relay'.cursor <= relay'.upto /\ relay'.upto <= Len(events')
        /\ server' \in {"running", "completed", "failed", "interrupted", "ended"} \cup Waiting
    BY <1>1 DEF Passes, RelayInv, TypeOK
  <2> QED
    BY <2>1, <2>2 DEF Passes, RelayInv, TypeOK
<1>6. WorkerSound' /\ OpenRequests' /\ EventsSound'
  BY DEF Passes, RelayInv, WorkerSound, OpenRequests, EventsSound
<1>7. RelaySound'
  <2>1. \A m \in 1..n : m # n => m \in 1..relay.cursor /\ m \in 1..Len(events)
    BY <1>1 DEF Passes
  <2>2. ASSUME ~relay.recovering, NEW m \in 1..n, events[m].kind \in Kinds
        PROVE  serverAsked'[events[m].ask] # "pending" \/ (relay'.at = "ask" /\ m = n)
    <3>1. CASE m = n
      BY <2>2, <3>1 DEF Passes
    <3>2. CASE m # n
      <4>1. events[m].ask \in Requests /\ serverAsked[events[m].ask] # "pending"
        BY <2>1, <2>2, <3>2 DEF Passes, RelayInv, EventsSound, RelaySound
      <4>2. relay'.at = "ask" => events[m].ask # events[n].ask
        BY <1>1, <2>1, <2>2, <3>2 DEF Passes, RelayInv, EventsSound
      <4> QED
        BY <4>1, <4>2 DEF Passes
    <3> QED
      BY <3>1, <3>2
  <2>3. relay'.cursor = n /\ relay'.recovering = relay.recovering /\ events' = events
    BY DEF Passes
  <2>4. relay'.cursor <= relay'.upto /\ relay'.upto <= Len(events') /\ n >= 1
    BY <1>1 DEF Passes, RelayInv, RelaySound
  <2>5. relay'.recovering => local' \in LocalOver
    BY DEF Passes, RelayInv, RelaySound
  <2> QED
    BY <1>1, <2>2, <2>3, <2>4, <2>5 DEF Passes, RelaySound
<1>8. OutcomeSound'
  <2>1. AllRelayed => AllRelayed'
    BY <1>3 DEF AllRelayed, Passes
  <2>2. server' \notin {"completed", "failed", "interrupted"}
    BY DEF Passes, Leased, Waiting
  <2> QED
    BY <2>1, <2>2 DEF Passes, RelayInv, OutcomeSound
<1>9. Passed'
  <2>1. \A m \in 1..relay.cursor : m \in 1..n /\ m # n
    BY <1>1 DEF Passes
  <2>2. SUFFICES ASSUME NEW r \in Requests, asked[r] \in {"approved", "rejected", "answered"},
                        r \notin decided, drops = 0
                 PROVE  \E m \in 1..n : events[m].kind \in Kinds /\ events[m].ask = r /\ m # n
    BY <1>1 DEF Passes, Passed
  <2>3. PICK m \in 1..relay.cursor : events[m].kind \in Kinds /\ events[m].ask = r
    BY <2>2 DEF Passes, RelayInv, Passed
  <2> QED
    BY <2>1, <2>3
<1>10. CancelSound'
  <2>1. Explained' <=> Explained
    BY DEF Passes, Explained
  <2>2. Undisturbed' => Undisturbed
    BY DEF Passes, Undisturbed, Leased, Waiting
  <2> QED
    BY <2>1, <2>2 DEF Passes, RelayInv, CancelSound
<1>11. RefusedOnlyIfWaiting'
  BY DEF Passes, RefusedOnlyIfWaiting, RelayAt
<1>12. KnownRequests'
  BY <1>1 DEF Passes, RelayInv, KnownRequests
<1> QED
  BY <1>12, <1>2, <1>4, <1>5, <1>6, <1>7, <1>8, <1>9, <1>10, <1>11 DEF RelayInv

\* Relay fields after the cursor has moved.
LEMMA CursorMoved ==
  ASSUME RelayInv, relay.at = "handle", NEW n \in Nat,
         NEW a \in {"handle", "ask"}, relay' = [relay EXCEPT !.at = a, !.cursor = n]
  PROVE  /\ relay' \in RelayRecord /\ relay'.at = a /\ relay'.cursor = n
         /\ relay'.upto = relay.upto /\ relay'.seen = relay.seen /\ relay'.result = relay.result
         /\ relay'.recovering = relay.recovering
BY DEF RelayInv, Shapes, RelayRecord, Relaying

\* What the server does not take ends the relay: the run ended, or the request
\* ran out, since an answered one is behind the cursor.
LEMMA RefusedInv ==
  ASSUME RelayAssumption, RelayInv, relay.at = "handle",
         Anew("cancel", "none"),
         UNCHANGED <<daemonVars, serverVars, history>>,
         Undisturbed => Explained
  PROVE  RelayInv'
<1>1. Rests("cancel", "none")
  BY Counters DEF Rests, serverVars, daemonVars, history
<1>2. server' = server /\ server \notin {"completed", "failed", "interrupted"} /\ local' = local
  BY DEF RelayInv, OutcomeSound, serverVars, daemonVars
<1>3. RefusedOnlyIfWaiting'
  BY <1>1, NotRefused
<1>4. Undisturbed' => Undisturbed
  BY DEF Undisturbed, serverVars, history
<1> QED
  BY <1>1, <1>2, <1>3, <1>4, RestStep

LEMMA EventInv ==
  ASSUME RelayAssumption, RelayInv, relay_event
  PROVE  RelayInv'
<1> DEFINE n == relay.cursor + 1
           e == events[n]
<1>1. /\ relay.at = "handle" /\ relay.cursor < relay.upto /\ n \in 1..Len(events) /\ n \in Nat
      /\ serverLog \in Seq(Entry) /\ relay.cursor \in Nat /\ Len(events) \in Nat
      /\ UNCHANGED <<local, safe, events, asked, worker, stopped, decided, cut, drops, faults>>
      /\ serverSafe \in BOOLEAN /\ server \in {server} \cup Waiting
      /\ serverAsked \in [Requests -> {"none", "pending", "approved", "rejected", "expired"}]
      /\ relay.recovering \in BOOLEAN
  BY DEF relay_event, RelayAt, RelayInv, Shapes, RelayRecord, RelaySound, TypeOK, daemonVars, history
<1>2. CASE ~Leased
  <2>1. Anew("cancel", "none") /\ UNCHANGED <<daemonVars, serverVars, history>>
    BY <1>2, RelayAnew DEF relay_event, RelayRests
  <2>2. server = "ended"
    BY <1>1, <1>2 DEF RelayInv, TypeOK, OutcomeSound, Leased
  <2> QED
    BY <1>1, <2>1, <2>2, RefusedInv DEF Undisturbed
<1>3. CASE Leased /\ e.kind \in Kinds /\ ~relay.recovering
  <2> DEFINE r == e.ask
  <2>1. create_request(n) /\ serverSafe' = serverSafe
    BY <1>3 DEF relay_event
  <2>2. r \in Requests /\ e.kind = AskKind(r) /\ asked[r] # "none"
    BY <1>1, <1>3 DEF RelayInv, EventsSound
  <2>3. CASE asked[r] # "expired" /\ serverAsked[r] # "none"
    <3>1. relay' = [relay EXCEPT !.at = "ask", !.cursor = n] /\ UNCHANGED <<server, serverAsked, serverLog>>
      BY <2>1, <2>3 DEF create_request
    <3>2. Store(n, "itself")
      BY <1>1, <1>3, <2>3, <3>1 DEF RelayInv, RequestsSound, Store
    <3>3. /\ relay' \in RelayRecord /\ relay'.at = "ask" /\ relay'.cursor = n
          /\ relay'.upto = relay.upto /\ relay'.seen = relay.seen /\ relay'.result = relay.result
          /\ relay'.recovering = relay.recovering
      BY <1>1, <3>1, CursorMoved
    <3>4. Passes(n, "itself")
      BY <1>1, <1>3, <2>1, <2>3, <3>1, <3>2, <3>3 DEF Passes
    <3>5. RequestsSound'
      <4>1. \A m, as : Stored(m, as)' <=> Stored(m, as)
        BY <3>1 DEF Stored
      <4> QED
        BY <1>1, <3>1, <4>1 DEF RelayInv, RequestsSound
    <3> QED
      BY <3>4, <3>5, PassesInv
  <2>4. CASE asked[r] # "expired" /\ serverAsked[r] = "none" /\ server = "running"
    <3>1. /\ server' = WaitFor(e.kind) /\ serverAsked' = [serverAsked EXCEPT ![r] = "pending"]
          /\ Store(n, "itself") /\ relay' = [relay EXCEPT !.at = "ask", !.cursor = n]
      BY <2>1, <2>4 DEF create_request, NewRequest
    <3>2. /\ relay' \in RelayRecord /\ relay'.at = "ask" /\ relay'.cursor = n
          /\ relay'.upto = relay.upto /\ relay'.seen = relay.seen /\ relay'.result = relay.result
          /\ relay'.recovering = relay.recovering
      BY <1>1, <3>1, CursorMoved
    <3>3. /\ serverAsked' \in [Requests -> {"none", "pending", "approved", "rejected", "expired"}]
          /\ serverAsked'[r] = "pending" /\ \A q \in Requests : q # r => serverAsked'[q] = serverAsked[q]
          /\ server' \in Waiting
      BY <1>1, <2>2, <3>1 DEF WaitFor, Waiting
    <3>4. Passes(n, "itself")
      BY <1>1, <1>3, <2>1, <2>4, <3>1, <3>2, <3>3 DEF Passes
    <3>5. \A m, b : Stored(m, b)' <=> Stored(m, b) \/ (m = n /\ b = "itself")
      BY <1>1, <3>1, StoreShape
    <3>6. RequestsSound'
      <4>1. \A m \in 1..Len(events) : events[m].kind \in Kinds =>
              (serverAsked'[events[m].ask] # "none" <=> Stored(m, "itself")')
        <5> SUFFICES ASSUME NEW m \in 1..Len(events), events[m].kind \in Kinds
                     PROVE  serverAsked'[events[m].ask] # "none" <=> Stored(m, "itself")'
          OBVIOUS
        <5>1. CASE m = n
          BY <3>3, <3>5, <5>1
        <5>2. CASE m # n
          <6>1. events[m].ask # r /\ events[m].ask \in Requests
            BY <1>1, <1>3, <5>2 DEF RelayInv, EventsSound
          <6> QED
            BY <3>3, <3>5, <5>2, <6>1 DEF RelayInv, RequestsSound
        <5> QED
          BY <5>1, <5>2
      <4>2. \A q \in Requests : serverAsked'[q] # "none" => asked[q] # "none"
        BY <2>2, <3>3 DEF RelayInv, RequestsSound
      <4>3. \E q \in Requests : serverAsked'[q] \in {"pending", "expired"} /\ server' = WaitFor(AskKind(q))
        BY <2>2, <3>1, <3>3
      <4>4. \A q \in Requests : asked[q] \in {"approved", "rejected", "answered"} =>
              q \in decided \/ serverAsked'[q] \notin {"none", "pending"}
        BY <2>2, <2>4, <3>3 DEF RelayInv, RequestsSound
      <4> QED
        BY <1>1, <4>1, <4>2, <4>3, <4>4 DEF RequestsSound
    <3> QED
      BY <3>4, <3>6, PassesInv
  <2>5. CASE asked[r] = "expired" \/ (serverAsked[r] = "none" /\ server # "running")
    <3>1. Refused
      BY <2>1, <2>5 DEF create_request
    <3>2. Anew("cancel", "none") /\ UNCHANGED <<daemonVars, serverVars, history>>
      BY <1>1, <2>1, <3>1 DEF Refused, Anew, NewRelay, RelayRecord, LocalState, daemonVars, serverVars, history
    <3>3. ASSUME Undisturbed, asked[r] # "expired" PROVE FALSE
      <4>1. server \in Waiting /\ serverAsked[r] = "none"
        BY <1>3, <2>5, <3>3 DEF Leased
      <4>2. PICK q \in Requests : serverAsked[q] = "pending"
        BY <3>3, <4>1 DEF RelayInv, RequestsSound, Undisturbed
      <4>3. PICK m \in 1..Len(events) : events[m].kind \in Kinds /\ events[m].ask = q
        BY <4>2 DEF RelayInv, KnownRequests
      <4>4. CASE m \in 1..relay.cursor
        BY <1>1, <1>3, <4>2, <4>3, <4>4 DEF RelayInv, RelaySound
      <4>5. CASE m > n
        <5>1. Stored(m, "itself") /\ ~Stored(n, "itself")
          BY <1>1, <1>3, <4>1, <4>2, <4>3 DEF RelayInv, RequestsSound
        <5>2. Stored(n, "warning")
          BY <1>1, <4>5, <5>1 DEF RelayInv, LogSound
        <5>3. \E i \in 1..Len(serverLog) : serverLog[i].as = "warning"
          BY <1>1, <5>2, EntryIs
        <5> QED
          BY <1>1, <1>3, <5>3 DEF RelayInv, LogSound, Relaying
      <4> QED
        BY <1>1, <4>1, <4>2, <4>3, <4>4, <4>5
    <3> QED
      BY <1>1, <2>2, <3>2, <3>3, RefusedInv DEF Explained
  <2> QED
    BY <2>3, <2>4, <2>5
<1>4. CASE Leased /\ e.kind \in Kinds /\ relay.recovering
  <2>1. /\ Store(n, "warning") /\ relay' = [relay EXCEPT !.cursor = n]
        /\ UNCHANGED <<server, serverSafe, serverAsked>>
    BY <1>4 DEF relay_event
  <2>2. /\ relay' \in RelayRecord /\ relay'.at = "handle" /\ relay'.cursor = n
        /\ relay'.upto = relay.upto /\ relay'.seen = relay.seen /\ relay'.result = relay.result
        /\ relay'.recovering = relay.recovering
    BY <1>1, <2>1 DEF RelayInv, Shapes, RelayRecord
  <2>3. Passes(n, "warning")
    BY <1>1, <1>4, <2>1, <2>2 DEF Passes
  <2>4. \A m, b : Stored(m, b)' <=> Stored(m, b) \/ (m = n /\ b = "warning")
    BY <1>1, <2>1, StoreShape
  <2>5. RequestsSound'
    BY <1>1, <2>1, <2>4 DEF RelayInv, RequestsSound
  <2> QED
    BY <2>3, <2>5, PassesInv
<1>5. CASE Leased /\ e.kind \notin Kinds
  <2>1. /\ Store(n, "itself") /\ relay' = [relay EXCEPT !.cursor = n]
        /\ UNCHANGED <<server, serverAsked>>
    BY <1>5 DEF relay_event
  <2>2. /\ relay' \in RelayRecord /\ relay'.at = "handle" /\ relay'.cursor = n
        /\ relay'.upto = relay.upto /\ relay'.seen = relay.seen /\ relay'.result = relay.result
        /\ relay'.recovering = relay.recovering
    BY <1>1, <2>1 DEF RelayInv, Shapes, RelayRecord
  <2>3. serverSafe' \in BOOLEAN
    BY <1>1, <1>5 DEF relay_event
  <2>4. Passes(n, "itself")
    BY <1>1, <1>5, <2>1, <2>2, <2>3 DEF Passes
  <2>5. \A m, b : Stored(m, b)' <=> Stored(m, b) \/ (m = n /\ b = "itself")
    BY <1>1, <2>1, StoreShape
  <2>6. RequestsSound'
    BY <1>1, <1>5, <2>1, <2>5 DEF RelayInv, RequestsSound
  <2> QED
    BY <2>4, <2>6, PassesInv
<1> QED
  BY <1>1, <1>2, <1>3, <1>4, <1>5
-----------------------------------------------------------------------------
(* The theorems.                                                           *)

\* Every step keeps the invariant.
LEMMA NextInv ==
  ASSUME RelayAssumption, RelayInv, [Next]_vars
  PROVE  RelayInv'
<1>1. CASE UNCHANGED vars
  <2>1. /\ UNCHANGED <<local, safe, events, asked, worker, relay, server, serverSafe, serverLog>>
        /\ UNCHANGED <<serverAsked, stopped, decided, cut, drops, faults>>
    BY <1>1 DEF vars, daemonVars, serverVars, history
  <2>2. TypeOK' /\ Shapes' /\ WorkerSound' /\ OpenRequests' /\ EventsSound'
    BY <2>1 DEF RelayInv, TypeOK, Shapes, WorkerSound, OpenRequests, EventsSound
  <2>3. /\ \A n : IsRelayed(n)' <=> IsRelayed(n)
        /\ \A n, as : Stored(n, as)' <=> Stored(n, as)
        /\ AllRelayed' <=> AllRelayed
    BY <2>1 DEF IsRelayed, Stored, AllRelayed
  <2>4. LogSound'
    <3>1. LogOrder'
      BY <2>1 DEF RelayInv, LogSound, LogOrder
    <3> QED
      BY <2>1, <2>3, <3>1 DEF RelayInv, LogSound
  <2>5. RequestsSound' /\ KnownRequests' /\ RelaySound' /\ OutcomeSound'
    BY <2>1, <2>3 DEF RelayInv, RequestsSound, KnownRequests, RelaySound, OutcomeSound
  <2>6. Passed' /\ CancelSound' /\ RefusedOnlyIfWaiting'
    BY <2>1 DEF RelayInv, Passed, CancelSound, Undisturbed, Explained, RefusedOnlyIfWaiting, RelayAt
  <2> QED
    BY <2>2, <2>4, <2>5, <2>6 DEF RelayInv
<1>2. CASE WorkerStep
  BY <1>2, ClaimInv, TurnInv, AwaitInv, ToolInv, ReportInv, ExecuteInv, AskInv DEF WorkerStep
<1>3. CASE RelayStep
  BY <1>3, ImportInv, StartInv, RecordInv, EventsInv, EventInv, AnswerInv, ResolveInv, EndInv,
     CancelsInv, SendInv, ReconnectInv DEF RelayStep
<1>4. CASE Outside
  BY <1>4, UsersInv, InterruptInv, FailsInv, DisconnectInv, ServerInv DEF Outside
<1>5. CASE interrupt_expired_leases \/ \E r \in Requests : server_expires(r)
  BY <1>5, ServerInv
<1> QED
  BY <1>1, <1>2, <1>3, <1>4, <1>5 DEF Next

\* The invariant holds throughout, for any number of turns, any batch size and
\* any number of lost connections and faults.
THEOREM RelayInvariant == Spec => []RelayInv
<1>1. Init => RelayInv
  BY InitInv, RelayAssumption
<1>2. RelayInv /\ [Next]_vars => RelayInv'
  BY NextInv, RelayAssumption
<1> QED
  BY <1>1, <1>2, PTL DEF Spec

\* Every value of daemon, agent and server keeps its domain, and the relay
\* never reads past the daemon's log.
THEOREM RelayTypeCorrect == Spec => []TypeOK
<1>1. RelayInv => TypeOK
  BY DEF RelayInv
<1> QED
  BY <1>1, RelayInvariant, PTL

\* The server's log of the run is a beginning of the daemon's, in order and
\* without repetition, over lost connections and repeated relays.
THEOREM RelayOrder == Spec => []RelayedInOrder
<1>1. RelayInv => RelayedInOrder
  <2> SUFFICES ASSUME RelayInv PROVE RelayedInOrder
    OBVIOUS
  <2>1. PICK k \in 0..Len(events) : \A n \in 1..Len(events) : IsRelayed(n) <=> n <= k
    BY DEF RelayInv, LogSound
  <2>2. Relayed = 1..k
    <3>1. Len(events) \in Nat
      BY DEF RelayInv, Shapes
    <3>2. \A n \in Relayed : n \in 1..Len(events) /\ IsRelayed(n)
      BY DEF RelayInv, LogSound, Relayed, IsRelayed
    <3>3. \A n : IsRelayed(n) => n \in Relayed
      BY DEF Relayed, IsRelayed
    <3>4. \A n \in 1..k : n \in 1..Len(events) /\ n <= k
      BY <2>1, <3>1
    <3>5. \A n \in 1..Len(events) : n <= k => n \in 1..k
      BY <2>1, <3>1
    <3> QED
      BY <2>1, <3>2, <3>3, <3>4, <3>5
  <2>3. k \in Nat
    BY <2>1 DEF RelayInv, Shapes
  <2>4. CASE k = 0
    BY <2>2, <2>4 DEF RelayedInOrder, RelayInv, LogSound, LogOrder
  <2>5. CASE k # 0
    <3>1. Max(1..k) = k
      <4>1. k \in 1..k /\ \A y \in 1..k : k >= y
        BY <2>3, <2>5
      <4>2. \A x \in 1..k : (\A y \in 1..k : x >= y) => x = k
        BY <2>3, <4>1
      <4> QED
        BY <4>1, <4>2 DEF Max
    <3>2. Relayed # {}
      BY <2>2, <2>3, <2>5
    <3> QED
      BY <2>2, <3>1, <3>2 DEF RelayedInOrder, RelayInv, LogSound, LogOrder
  <2> QED
    BY <2>4, <2>5
<1> QED
  BY <1>1, RelayInvariant, PTL

\* A run that the server calls completed was completed on the device and all
\* its events were relayed, unless the final read was cut off.
THEOREM RelayComplete == Spec => []CompleteUnlessCut
<1>1. RelayInv => CompleteUnlessCut
  <2> SUFFICES ASSUME RelayInv, server = "completed" PROVE local = "completed" /\ (Relayed = 1..Len(events) \/ cut)
    BY DEF CompleteUnlessCut
  <2>1. local = "completed" /\ (AllRelayed \/ cut)
    BY DEF RelayInv, OutcomeSound
  <2>2. AllRelayed => Relayed = 1..Len(events)
    <3>1. \A n \in Relayed : n \in 1..Len(events)
      BY DEF RelayInv, LogSound, Relayed
    <3>2. \A n : IsRelayed(n) => n \in Relayed
      BY DEF Relayed, IsRelayed
    <3> QED
      BY <3>1, <3>2 DEF AllRelayed
  <2> QED
    BY <2>1, <2>2
<1> QED
  BY <1>1, RelayInvariant, PTL

\* A run on the device that nobody ended is canceled only because the relay met
\* a request that had been answered or had run out.
THEOREM RelayKeepsAlive == Spec => []AliveUnlessAnswered
<1>1. RelayInv => AliveUnlessAnswered
  BY DEF RelayInv, CancelSound, Undisturbed, Explained, AliveUnlessAnswered
<1> QED
  BY <1>1, RelayInvariant, PTL

\* A completed result is refused only if a user ended the run or the server
\* still waited for an answer that the device did not need any more.
THEOREM RelayRefusals == Spec => []RefusedOnlyIfWaiting
<1>1. RelayInv => RefusedOnlyIfWaiting
  BY DEF RelayInv
<1> QED
  BY <1>1, RelayInvariant, PTL

-----------------------------------------------------------------------------
(***************************************************************************)
(* Metadata synchronisation.                                               *)
(***************************************************************************)
Change == [e : Entities, ver : Version, on : Version]
Result == [status : {"applied", "conflict"}, ver : Version]
Operation == Devices \X (Nat \ {0})
Row == [cursor : Nat \ {0}, e : Entities, ver : Version, op : Operation \cup {ServerOp}, on : Version]
Tx == [cursor : Nat \ {0}, e : Entities, ver : Version, op : Operation \cup {ServerOp}, on : Version,
       quota : BOOLEAN]
Side == [open : BOOLEAN, mine : Version, theirs : Version]
AgentRecord == [pc : {"idle", "push", "ack", "pull", "apply"}, at : Nat, last : Nat,
                noted : BOOLEAN, full : BOOLEAN, rows : SUBSET Row]

\* Every table and every cycle keeps its domain.
SyncTypes ==
  /\ version \in [Entities -> Version]
  /\ feed \subseteq Row /\ IsFiniteSet(feed)
  /\ drawn \in Nat /\ open \subseteq Tx
  /\ DOMAIN ops \subseteq Operation /\ \A o \in DOMAIN ops : ops[o] \in Result
  /\ copy \in [Devices -> [Entities -> Version]]
  /\ outbox \in [Devices -> Seq(Change)]
  /\ lcur \in [Devices -> Nat] /\ rcur \in [Devices -> Nat]
  /\ conf \in [Devices -> [Entities -> Side]]
  /\ agent \in [Devices -> AgentRecord]
  /\ scene \in Scene /\ stamp \in Nat /\ cuts \in Nat

\* The rows of an entity are its revisions, in the order of their cursors.
RowsSound ==
  /\ \A r \in feed :
       /\ r.cursor <= drawn
       /\ r.ver.rev \in 1..version[r.e].rev
       /\ r.ver.rev = version[r.e].rev => r.ver = version[r.e]
  /\ \A r, q \in feed : r.cursor = q.cursor => r = q
  /\ \A r, q \in feed : r.e = q.e /\ r.cursor < q.cursor => r.ver.rev < q.ver.rev
  /\ \A e \in Entities :
       /\ version[e].rev = 0 => version[e] = Absent
       /\ \A n \in 1..version[e].rev : \E r \in feed : r.e = e /\ r.ver.rev = n
       /\ Cardinality({r \in feed : r.e = e}) = version[e].rev

\* A version the server has, or has had.
Known(e, v) ==
  IF v.rev = 0 THEN v = Absent ELSE \E r \in feed : r.e = e /\ Same(r.ver, v)

\* A write transaction makes the next revision of an entity it has locked.
TxSound ==
  /\ \A t \in open :
       /\ t.cursor <= drawn /\ t.ver.rev = version[t.e].rev + 1
       /\ \A r \in feed : r.cursor # t.cursor /\ (r.e = t.e => r.cursor < t.cursor)
       /\ \A d \in Devices : rcur[d] # t.cursor
  /\ \A t, u \in open : t.e = u.e \/ t.cursor = u.cursor => t = u
  /\ \A d \in Devices : rcur[d] <= drawn

\* A push carries a change of its device's outbox that replaces what the device saw.
PushSound ==
  \A t \in open : t.op[2] # 0 =>
    /\ t.op \in Operation /\ t.op \notin DOMAIN ops /\ t.op[2] <= Len(outbox[t.op[1]])
    /\ outbox[t.op[1]][t.op[2]].e = t.e /\ Same(outbox[t.op[1]][t.op[2]].ver, t.ver)
    /\ Same(t.on, version[t.e]) \/ AfterConflict(t.op, t.e)

\* So does a row, as far as the rows before it go.
ReplacedSound ==
  \A r \in feed : r.op[2] # 0 =>
    \/ AfterConflict(r.op, r.e)
    \/ r.ver.rev = 1 /\ Same(r.on, Absent)
    \/ r.ver.rev > 1 /\ \A q \in feed : q.e = r.e /\ q.ver.rev = r.ver.rev - 1 => Same(r.on, q.ver)

\* The result of an operation is a version of the server; the device has not
\* read past it while it has not acknowledged it.
NotBehind(d, e, n) == \A r \in feed : r.e = e /\ r.cursor <= rcur[d] => r.ver.rev <= n
OpsSound ==
  \A o \in DOMAIN ops :
    LET d == o[1]
        c == outbox[d][o[2]]
    IN /\ o[2] <= Len(outbox[d])
       /\ Known(c.e, ops[o].ver)
       /\ ops[o].status = "applied" => Same(ops[o].ver, c.ver)
       /\ o[2] > lcur[d] /\ <<d, c.e>> \notin passed => NotBehind(d, c.e, ops[o].ver.rev)

\* What a device shows comes from the server or from an edit of its own.
Origin(d, e, v, n) ==
  Known(e, v) \/ \E i \in 1..n : outbox[d][i].e = e /\ outbox[d][i].ver = v
EditsSound ==
  \A d \in Devices :
    /\ \A i \in 1..Len(outbox[d]) :
         LET c == outbox[d][i]
         IN c.ver.rev = c.on.rev + 1 /\ Origin(d, c.e, c.on, i - 1)
    /\ \A e \in Entities : Origin(d, e, copy[d][e], Len(outbox[d]))

\* Where a cycle is: the changes before its place are recorded, and nothing
\* is recorded behind its page.
Started(d, c) == <<d, c>> \in DOMAIN ops \/ \E t \in open : t.op = <<d, c>>
CycleAt(d) ==
  LET a == agent[d]
  IN /\ lcur[d] <= Len(outbox[d])
     /\ \A c \in 1..lcur[d] : <<d, c>> \in DOMAIN ops
     /\ a.pc = "push" => lcur[d] <= a.at /\ a.at < a.last
     /\ a.pc = "ack" => lcur[d] < a.last /\ a.at = a.last
     /\ a.pc \in {"push", "ack"} =>
          /\ a.last <= Len(outbox[d]) /\ a.last <= lcur[d] + PageSize
          /\ \A c \in (lcur[d] + 1)..a.at : <<d, c>> \in DOMAIN ops
     /\ \A c \in Nat : Started(d, c) =>
          /\ a.pc = "idle" => c <= lcur[d] + PageSize
          /\ a.pc \in {"push", "ack"} => c <= a.last
          /\ a.pc \in {"pull", "apply"} => c <= lcur[d]
     /\ a.noted => a.pc = "ack"
CycleSound == \A d \in Devices : CycleAt(d)

\* A page of the feed lies after the cursor and leaves out nothing but what
\* committed late.
PageAt(d) ==
  /\ agent[d].pc # "apply" => agent[d].rows = {}
  /\ agent[d].rows \subseteq feed
  /\ \A p \in agent[d].rows :
       /\ rcur[d] < p.cursor
       /\ \A r \in feed : rcur[d] < r.cursor /\ r.cursor <= p.cursor =>
            r \in agent[d].rows \/ <<d, r.e>> \in passed
PageSound == \A d \in Devices : PageAt(d)

\* A device shows an edit of its own that is still to be acknowledged, after
\* the next k changes, or a version of the server no older than what it has read.
Unacked(d, e, k) ==
  \E i \in (lcur[d] + k + 1)..Len(outbox[d]) : outbox[d][i].e = e /\ outbox[d][i].ver = copy[d][e]
UpToDate(d, e) == Known(e, copy[d][e]) /\ NotBehind(d, e, copy[d][e].rev)
CopyAt(d, e) ==
  /\ conf[d][e].open => Known(e, conf[d][e].theirs)
  /\ <<d, e>> \notin passed =>
       /\ conf[d][e].open => NotBehind(d, e, conf[d][e].theirs.rev)
       /\ conf[d][e].open \/ UpToDate(d, e) \/ Unacked(d, e, 0)
       /\ agent[d].noted /\ outbox[d][lcur[d] + 1].e = e =>
            conf[d][e].open \/ UpToDate(d, e) \/ Unacked(d, e, 1)
CopySound == \A d \in Devices, e \in Entities : CopyAt(d, e)

SyncInv ==
  /\ SyncTypes /\ RowsSound /\ TxSound /\ PushSound /\ ReplacedSound /\ OpsSound
  /\ EditsSound /\ CycleSound /\ PageSound /\ CopySound
-----------------------------------------------------------------------------
(* The log of a device's edits only grows.                                  *)
OutboxGrows ==
  \A b \in Devices :
    /\ Len(outbox[b]) \in Nat /\ Len(outbox'[b]) \in Nat /\ Len(outbox[b]) <= Len(outbox'[b])
    /\ \A i \in 1..Len(outbox[b]) : outbox'[b][i] = outbox[b][i] /\ outbox[b][i] \in Change
OpsGrow ==
  DOMAIN ops \subseteq DOMAIN ops' /\ \A o \in DOMAIN ops : ops'[o] = ops[o]

LEMMA OutboxSame ==
  ASSUME SyncTypes, outbox' = outbox
  PROVE  OutboxGrows
BY DEF SyncTypes, OutboxGrows

LEMMA KnownGrows ==
  ASSUME feed \subseteq feed', NEW e, NEW v, Known(e, v)
  PROVE  Known(e, v)'
BY DEF Known

LEMMA AfterConflictKept ==
  ASSUME SyncTypes, OutboxGrows, OpsGrow, NEW op \in Operation, NEW e, AfterConflict(op, e),
         op[2] <= Len(outbox[op[1]])
  PROVE  AfterConflict(op, e)'
<1>1. op[1] \in Devices /\ op[2] \in Nat
  BY DEF Operation
<1>2. PICK c \in 1..(op[2] - 1) : /\ <<op[1], c>> \in DOMAIN ops /\ ops[<<op[1], c>>].status = "conflict"
                                  /\ outbox[op[1]][c].e = e
  BY DEF AfterConflict
<1>3. c \in 1..Len(outbox[op[1]])
  BY <1>1, <1>2 DEF OutboxGrows
<1>4. outbox'[op[1]][c].e = e
  BY <1>1, <1>2, <1>3 DEF OutboxGrows
<1>5. <<op[1], c>> \in DOMAIN ops' /\ ops'[<<op[1], c>>].status = "conflict"
  BY <1>2 DEF OpsGrow
<1> QED
  BY <1>2, <1>4, <1>5 DEF AfterConflict

\* What a step leaves alone stays sound.
LEMMA RowsKept ==
  ASSUME RowsSound, UNCHANGED <<version, feed, drawn>>
  PROVE  RowsSound'
BY DEF RowsSound

LEMMA TxKept ==
  ASSUME TxSound, UNCHANGED <<version, feed, drawn, open, rcur>>
  PROVE  TxSound'
BY DEF TxSound

LEMMA PageKept ==
  ASSUME PageSound, UNCHANGED <<feed, rcur, agent, passed>>
  PROVE  PageSound'
BY DEF PageSound, PageAt

\* An edit of the user, or a conflict settled in favour of the device.
LEMMA WrittenOutbox ==
  ASSUME SyncTypes, NEW d \in Devices, NEW e \in Entities, NEW v \in Version, NEW on \in Version,
         Written(d, e, v, on)
  PROVE  /\ copy' \in [Devices -> [Entities -> Version]] /\ outbox' \in [Devices -> Seq(Change)]
         /\ OutboxGrows
         /\ Len(outbox'[d]) = Len(outbox[d]) + 1
         /\ outbox'[d][Len(outbox[d]) + 1] = [e |-> e, ver |-> v, on |-> on]
         /\ \A b \in Devices : b # d => outbox'[b] = outbox[b]
         /\ \A b \in Devices, f \in Entities :
              copy'[b][f] = IF b = d /\ f = e THEN v ELSE copy[b][f]
<1> DEFINE x == [e |-> e, ver |-> v, on |-> on]
<1>1. x \in Change
  BY DEF Change
<1>2. outbox[d] \in Seq(Change) /\ outbox' = [outbox EXCEPT ![d] = Append(outbox[d], x)]
  BY DEF SyncTypes, Written
<1>3. Append(outbox[d], x) \in Seq(Change)
  BY <1>1, <1>2
<1>4. outbox' \in [Devices -> Seq(Change)]
  BY <1>2, <1>3 DEF SyncTypes
<1>5. outbox'[d] = Append(outbox[d], x) /\ \A b \in Devices : b # d => outbox'[b] = outbox[b]
  BY <1>2 DEF SyncTypes
<1>6. /\ Len(Append(outbox[d], x)) = Len(outbox[d]) + 1
      /\ Append(outbox[d], x)[Len(outbox[d]) + 1] = x
      /\ \A i \in 1..Len(outbox[d]) : Append(outbox[d], x)[i] = outbox[d][i]
  BY <1>1, <1>2
<1>7. \A b \in Devices : outbox[b] \in Seq(Change) /\ Len(outbox[b]) \in Nat
                         /\ \A i \in 1..Len(outbox[b]) : outbox[b][i] \in Change
  BY DEF SyncTypes
<1>8. OutboxGrows
  <2> SUFFICES ASSUME NEW b \in Devices
               PROVE  /\ Len(outbox[b]) \in Nat /\ Len(outbox'[b]) \in Nat /\ Len(outbox[b]) <= Len(outbox'[b])
                      /\ \A i \in 1..Len(outbox[b]) : outbox'[b][i] = outbox[b][i] /\ outbox[b][i] \in Change
    BY DEF OutboxGrows
  <2>1. CASE b = d
    <3>1. Len(outbox[d]) \in Nat /\ Len(outbox'[d]) = Len(outbox[d]) + 1
      BY <1>5, <1>6, <1>7
    <3> QED
      BY <1>5, <1>6, <1>7, <2>1, <3>1
  <2>2. CASE b # d
    BY <1>5, <1>7, <2>2
  <2> QED
    BY <2>1, <2>2
<1>9. /\ copy' \in [Devices -> [Entities -> Version]]
      /\ \A b \in Devices, f \in Entities :
              copy'[b][f] = IF b = d /\ f = e THEN v ELSE copy[b][f]
  BY DEF SyncTypes, Written
<1> QED
  BY <1>4, <1>5, <1>6, <1>8, <1>9

LEMMA WrittenInv ==
  ASSUME SyncInv, NEW d \in Devices, NEW e \in Entities,
         NEW v \in Version, NEW on \in Version,
         v.rev = on.rev + 1, Origin(d, e, on, Len(outbox[d])), Written(d, e, v, on),
         UNCHANGED <<feedVars, lcur, rcur, agent, passed, scene, cuts>>, stamp' \in Nat,
         conf' = conf \/ conf' = [conf EXCEPT ![d][e] = NoConflict]
  PROVE  SyncInv'
<1> DEFINE n == Len(outbox[d])
           x == [e |-> e, ver |-> v, on |-> on]
<1>0. /\ SyncTypes /\ RowsSound /\ TxSound /\ PushSound /\ ReplacedSound /\ OpsSound
      /\ EditsSound /\ CycleSound /\ PageSound /\ CopySound
  BY DEF SyncInv
<1>u. UNCHANGED <<version, feed, drawn, open, ops, lcur, rcur, agent, passed, scene, cuts>>
  BY DEF feedVars
<1>1. /\ copy' \in [Devices -> [Entities -> Version]] /\ outbox' \in [Devices -> Seq(Change)]
      /\ OutboxGrows
      /\ Len(outbox'[d]) = n + 1 /\ outbox'[d][n + 1] = x
      /\ \A b \in Devices : b # d => outbox'[b] = outbox[b]
      /\ \A b \in Devices, f \in Entities :
              copy'[b][f] = IF b = d /\ f = e THEN v ELSE copy[b][f]
  BY <1>0, WrittenOutbox
<1>2. /\ conf' \in [Devices -> [Entities -> Side]]
      /\ \A b \in Devices, f \in Entities :
           conf'[b][f] = conf[b][f] \/ (b = d /\ f = e /\ conf'[b][f] = NoConflict)
  <2>1. NoConflict \in Side
    BY DEF NoConflict, Side, Absent, Version
  <2>2. conf \in [Devices -> [Entities -> Side]]
    BY <1>0 DEF SyncTypes
  <2>3. CASE conf' = conf
    BY <2>2, <2>3
  <2>4. CASE conf' = [conf EXCEPT ![d][e] = NoConflict]
    BY <2>1, <2>2, <2>4
  <2> QED
    BY <2>3, <2>4
<1>3. OpsGrow
  BY <1>u DEF OpsGrow
<1>4. SyncTypes'
  BY <1>0, <1>1, <1>2, <1>u DEF SyncTypes
<1>5. RowsSound' /\ TxSound' /\ PageSound'
  BY <1>0, <1>u, RowsKept, TxKept, PageKept
<1>6. PushSound'
  <2> SUFFICES ASSUME NEW t \in open, t.op[2] # 0
               PROVE  /\ t.op \in Operation /\ t.op \notin DOMAIN ops /\ t.op[2] <= Len(outbox'[t.op[1]])
                      /\ outbox'[t.op[1]][t.op[2]].e = t.e /\ Same(outbox'[t.op[1]][t.op[2]].ver, t.ver)
                      /\ Same(t.on, version[t.e]) \/ AfterConflict(t.op, t.e)'
    BY <1>u DEF PushSound, Same
  <2>1. /\ t.op \in Operation /\ t.op \notin DOMAIN ops /\ t.op[2] <= Len(outbox[t.op[1]])
        /\ outbox[t.op[1]][t.op[2]].e = t.e /\ Same(outbox[t.op[1]][t.op[2]].ver, t.ver)
        /\ Same(t.on, version[t.e]) \/ AfterConflict(t.op, t.e)
    BY <1>0 DEF PushSound
  <2>2. t.op[1] \in Devices /\ t.op[2] \in 1..Len(outbox[t.op[1]])
    BY <1>1, <2>1 DEF Operation, OutboxGrows
  <2>3. outbox'[t.op[1]][t.op[2]] = outbox[t.op[1]][t.op[2]] /\ Len(outbox[t.op[1]]) <= Len(outbox'[t.op[1]])
    BY <1>1, <2>2 DEF OutboxGrows
  <2>4. AfterConflict(t.op, t.e) => AfterConflict(t.op, t.e)'
    BY <1>0, <1>1, <1>3, <2>1, AfterConflictKept
  <2> QED
    BY <1>1, <2>1, <2>2, <2>3, <2>4 DEF OutboxGrows
<1>7. ReplacedSound'
  <2> SUFFICES ASSUME NEW r \in feed, r.op[2] # 0, AfterConflict(r.op, r.e)
               PROVE  AfterConflict(r.op, r.e)'
    BY <1>0, <1>u DEF ReplacedSound, Same
  <2>1. r.op \in Operation
    BY <1>0 DEF SyncTypes, Row, ServerOp
  <2>2. PICK c \in 1..(r.op[2] - 1) : /\ <<r.op[1], c>> \in DOMAIN ops /\ ops[<<r.op[1], c>>].status = "conflict"
                                      /\ outbox[r.op[1]][c].e = r.e
    BY DEF AfterConflict
  <2>3. r.op[1] \in Devices /\ c \in 1..Len(outbox[r.op[1]])
    <3>1. r.op[1] \in Devices /\ c \in Nat \ {0}
      BY <2>1 DEF Operation
    <3>2. <<r.op[1], c>>[2] <= Len(outbox[<<r.op[1], c>>[1]])
      BY <1>0, <2>2 DEF OpsSound
    <3> QED
      BY <1>1, <3>1, <3>2 DEF OutboxGrows
  <2> QED
    BY <1>1, <1>u, <2>2, <2>3 DEF AfterConflict, OutboxGrows
<1>8. OpsSound'
  <2> SUFFICES ASSUME NEW o \in DOMAIN ops
               PROVE  LET b == o[1]
                          c == outbox'[b][o[2]]
                      IN /\ o[2] <= Len(outbox'[b])
                         /\ Known(c.e, ops[o].ver)
                         /\ ops[o].status = "applied" => Same(ops[o].ver, c.ver)
                         /\ o[2] > lcur[b] /\ <<b, c.e>> \notin passed => NotBehind(b, c.e, ops[o].ver.rev)
    BY <1>u DEF OpsSound, Known, NotBehind, Same
  <2>1. o[1] \in Devices /\ o[2] \in Nat \ {0} /\ o[2] <= Len(outbox[o[1]])
    BY <1>0 DEF OpsSound, SyncTypes, Operation
  <2>2. outbox'[o[1]][o[2]] = outbox[o[1]][o[2]] /\ o[2] <= Len(outbox'[o[1]])
    <3>1. /\ Len(outbox[o[1]]) \in Nat /\ Len(outbox'[o[1]]) \in Nat
          /\ Len(outbox[o[1]]) <= Len(outbox'[o[1]])
      BY <1>1, <2>1 DEF OutboxGrows
    <3>2. o[2] \in 1..Len(outbox[o[1]])
      BY <2>1, <3>1
    <3> QED
      BY <1>1, <2>1, <3>1, <3>2 DEF OutboxGrows
  <2> QED
    BY <1>0, <2>2 DEF OpsSound
<1>9. ASSUME NEW b \in Devices, NEW f, NEW w, NEW k \in Nat, NEW l \in Nat, k <= l,
             k <= Len(outbox[b]), Origin(b, f, w, k)
      PROVE  Origin(b, f, w, l)'
  <2>1. CASE Known(f, w)
    BY <1>u, <2>1 DEF Origin, Known
  <2>2. CASE \E i \in 1..k : outbox[b][i].e = f /\ outbox[b][i].ver = w
    <3>1. PICK i \in 1..k : outbox[b][i].e = f /\ outbox[b][i].ver = w
      BY <2>2
    <3>2. i \in 1..Len(outbox[b]) /\ i \in 1..l
      BY <1>1, <1>9 DEF OutboxGrows
    <3>3. outbox'[b][i] = outbox[b][i]
      BY <1>1, <3>2 DEF OutboxGrows
    <3> QED
      BY <3>1, <3>2, <3>3 DEF Origin
  <2> QED
    BY <1>9, <2>1, <2>2 DEF Origin
<1>10. EditsSound'
  <2>1. ASSUME NEW b \in Devices, NEW i \in 1..Len(outbox'[b])
        PROVE  (LET c == outbox[b][i]
                IN c.ver.rev = c.on.rev + 1 /\ Origin(b, c.e, c.on, i - 1))'
    <3>0. PICK y : y = outbox'[b][i]
      OBVIOUS
    <3>1. y.ver.rev = y.on.rev + 1 /\ Origin(b, y.e, y.on, i - 1)'
      <4>1. CASE i \in 1..Len(outbox[b])
        <5>1. y = outbox[b][i] /\ Len(outbox[b]) \in Nat /\ i - 1 \in Nat /\ i - 1 <= Len(outbox[b])
          BY <1>1, <4>1, <3>0 DEF OutboxGrows
        <5>2. y.ver.rev = y.on.rev + 1 /\ Origin(b, y.e, y.on, i - 1)
          BY <1>0, <4>1, <5>1 DEF EditsSound
        <5> QED
          BY <1>9, <5>1, <5>2
      <4>2. CASE i \notin 1..Len(outbox[b])
        <5>0. PICK m \in Nat : m = Len(outbox[d])
          BY <1>1 DEF OutboxGrows
        <5>1. b = d /\ i = m + 1
          BY <1>1, <4>2, <5>0 DEF OutboxGrows
        <5>2. y.ver = v /\ y.on = on /\ y.e = e /\ i - 1 = m
          BY <1>1, <5>0, <5>1, <3>0
        <5>3. Origin(d, e, on, m)'
          BY <1>9, <5>0
        <5> QED
          BY <5>1, <5>2, <5>3
      <4> QED
        BY <4>1, <4>2
    <3> QED
      BY <3>0, <3>1 DEF Origin, Known
  <2>2. ASSUME NEW b \in Devices, NEW f \in Entities
        PROVE  Origin(b, f, copy[b][f], Len(outbox[b]))'
    <3>0. PICK w, l : w = copy'[b][f] /\ l = Len(outbox'[b])
      OBVIOUS
    <3>1. Origin(b, f, w, l)'
      <4>1. CASE b = d /\ f = e
        <5>1. Len(outbox[d]) + 1 \in 1..l
          BY <1>1, <3>0, <4>1 DEF OutboxGrows
        <5>2. PICK i \in 1..l : i = Len(outbox[d]) + 1
          BY <5>1
        <5>3. outbox'[b][i] = x /\ w = v
          BY <1>1, <3>0, <4>1, <5>2
        <5>4. outbox'[b][i].e = f /\ outbox'[b][i].ver = w
          BY <4>1, <5>3
        <5> QED
          BY <5>2, <5>4 DEF Origin
      <4>2. CASE ~(b = d /\ f = e)
        <5>1. w = copy[b][f]
          BY <1>1, <3>0, <4>2
        <5>2. PICK k \in Nat : k = Len(outbox[b])
          BY <1>1 DEF OutboxGrows
        <5>3. Origin(b, f, w, k)
          BY <1>0, <5>1, <5>2 DEF EditsSound
        <5>4. l \in Nat /\ k <= l
          BY <1>1, <3>0, <5>2 DEF OutboxGrows
        <5> QED
          BY <1>9, <5>2, <5>3, <5>4
      <4> QED
        BY <4>1, <4>2
    <3> QED
      BY <3>0, <3>1 DEF Origin, Known
  <2> QED
    BY <2>1, <2>2 DEF EditsSound
<1>11. CycleSound'
  <2> SUFFICES ASSUME NEW b \in Devices PROVE Len(outbox[b]) <= Len(outbox'[b]) /\ Len(outbox'[b]) \in Nat /\ Len(outbox[b]) \in Nat
    BY <1>0, <1>u DEF CycleSound, CycleAt, Started, SyncTypes, AgentRecord
  <2> QED
    BY <1>1 DEF OutboxGrows
<1>12. CopySound'
  <2> SUFFICES ASSUME NEW b \in Devices, NEW f \in Entities PROVE CopyAt(b, f)'
    BY DEF CopySound
  <2>0. /\ lcur[b] \in Nat /\ lcur[b] <= Len(outbox[b]) /\ Len(outbox[b]) \in Nat
        /\ Len(outbox'[b]) \in Nat /\ Len(outbox[b]) <= Len(outbox'[b])
    BY <1>0, <1>1 DEF SyncTypes, CycleSound, CycleAt, OutboxGrows
  <2>01. agent[b].noted => lcur[b] + 1 \in 1..Len(outbox[b])
    BY <1>0, <2>0 DEF SyncTypes, CycleSound, CycleAt, AgentRecord
  <2>02. CopyAt(b, f)
    BY <1>0 DEF CopySound
  <2>03. (conf[b][f].open => Known(f, conf[b][f].theirs))'
    <3>1. conf'[b][f].open => conf'[b][f] = conf[b][f]
      BY <1>2 DEF NoConflict
    <3> QED
      BY <1>u, <2>02, <3>1 DEF CopyAt, Known
  <2>04. <<b, f>> \notin passed => (conf[b][f].open => NotBehind(b, f, conf[b][f].theirs.rev))'
    <3>1. conf'[b][f].open => conf'[b][f] = conf[b][f]
      BY <1>2 DEF NoConflict
    <3> QED
      BY <1>u, <2>02, <3>1 DEF CopyAt, NotBehind
  <2>1. CASE b = d /\ f = e
    <3>1. n + 1 \in (lcur[d] + 1)..Len(outbox'[d]) /\ outbox'[d][n + 1].e = e /\ outbox'[d][n + 1].ver = copy'[d][e]
      BY <1>1, <2>0, <2>1
    <3>2. agent[b].noted => n + 1 \in (lcur[d] + 1 + 1)..Len(outbox'[d])
      BY <1>1, <2>0, <2>01, <2>1
    <3>3. Unacked(b, f, 0)'
      BY <1>u, <2>0, <2>1, <3>1 DEF Unacked
    <3>4. agent[b].noted => Unacked(b, f, 1)'
      <4> SUFFICES ASSUME agent[b].noted PROVE Unacked(b, f, 1)'
        OBVIOUS
      <4>1. PICK i : i = n + 1
        OBVIOUS
      <4>2. i \in (lcur'[b] + 1 + 1)..Len(outbox'[b]) /\ outbox'[b][i].e = f /\ outbox'[b][i].ver = copy'[b][f]
        BY <1>u, <2>1, <3>1, <3>2, <4>1
      <4> QED
        BY <4>2 DEF Unacked
    <3> QED
      BY <1>u, <2>03, <2>04, <3>3, <3>4 DEF CopyAt
  <2>2. CASE ~(b = d /\ f = e)
    <3>1. copy'[b][f] = copy[b][f] /\ conf'[b][f] = conf[b][f]
      BY <1>1, <1>2, <2>2
    <3>2. UpToDate(b, f) => UpToDate(b, f)'
      BY <1>u, <3>1 DEF UpToDate, Known, NotBehind
    <3>3. ASSUME NEW k \in {0, 1}, Unacked(b, f, k) PROVE Unacked(b, f, k)'
      <4>1. PICK i \in (lcur[b] + k + 1)..Len(outbox[b]) : outbox[b][i].e = f /\ outbox[b][i].ver = copy[b][f]
        BY <3>3 DEF Unacked
      <4>2. i \in 1..Len(outbox[b]) /\ i \in (lcur[b] + k + 1)..Len(outbox'[b])
        BY <2>0
      <4>3. outbox'[b][i] = outbox[b][i]
        BY <1>1, <4>2 DEF OutboxGrows
      <4> QED
        BY <1>u, <3>1, <4>1, <4>2, <4>3 DEF Unacked
    <3>4. agent[b].noted => outbox'[b][lcur[b] + 1] = outbox[b][lcur[b] + 1]
      BY <1>1, <2>01 DEF OutboxGrows
    <3> QED
      BY <1>u, <2>02, <2>03, <2>04, <3>1, <3>2, <3>3, <3>4 DEF CopyAt
  <2> QED
    BY <2>1, <2>2
<1> QED
  BY <1>4, <1>5, <1>6, <1>7, <1>8, <1>10, <1>11, <1>12 DEF SyncInv
-----------------------------------------------------------------------------
\* What a step that writes no edit leaves sound.
LEMMA PushKept ==
  ASSUME SyncTypes, PushSound, OpsGrow, outbox' = outbox, version' = version, open' \subseteq open,
         \A t \in open' : t.op \notin DOMAIN ops' \/ t.op \in DOMAIN ops \/ t.op[2] = 0
  PROVE  PushSound'
<1> SUFFICES ASSUME NEW t \in open', t.op[2] # 0
             PROVE  /\ t.op \in Operation /\ t.op \notin DOMAIN ops' /\ t.op[2] <= Len(outbox[t.op[1]])
                    /\ outbox[t.op[1]][t.op[2]].e = t.e /\ Same(outbox[t.op[1]][t.op[2]].ver, t.ver)
                    /\ Same(t.on, version[t.e]) \/ AfterConflict(t.op, t.e)'
  BY DEF PushSound, Same
<1>1. /\ t.op \in Operation /\ t.op \notin DOMAIN ops /\ t.op[2] <= Len(outbox[t.op[1]])
      /\ outbox[t.op[1]][t.op[2]].e = t.e /\ Same(outbox[t.op[1]][t.op[2]].ver, t.ver)
      /\ Same(t.on, version[t.e]) \/ AfterConflict(t.op, t.e)
  BY DEF PushSound
<1>2. AfterConflict(t.op, t.e) => AfterConflict(t.op, t.e)'
  BY <1>1, OutboxSame, AfterConflictKept
<1> QED
  BY <1>1, <1>2

LEMMA ReplacedKept ==
  ASSUME ReplacedSound, OpsGrow, outbox' = outbox, feed' = feed
  PROVE  ReplacedSound'
<1>1. ASSUME NEW r \in feed, AfterConflict(r.op, r.e)
      PROVE  AfterConflict(r.op, r.e)'
  BY <1>1 DEF AfterConflict, OpsGrow
<1> QED
  BY <1>1 DEF ReplacedSound, Same

LEMMA OpsKept ==
  ASSUME OpsSound, UNCHANGED <<feed, ops, outbox, lcur, rcur, passed>>
  PROVE  OpsSound'
BY DEF OpsSound, Known, NotBehind, Same

LEMMA EditsKept ==
  ASSUME EditsSound, feed \subseteq feed', UNCHANGED <<outbox, copy>>
  PROVE  EditsSound'
<1>1. ASSUME NEW d, NEW e, NEW v, NEW n, Origin(d, e, v, n)
      PROVE  Origin(d, e, v, n)'
  BY <1>1 DEF Origin, Known
<1> QED
  BY <1>1 DEF EditsSound

LEMMA CopyKept ==
  ASSUME CopySound, UNCHANGED <<feed, outbox, copy, lcur, rcur, conf, passed>>,
         \A b \in Devices : agent'[b].noted => agent[b].noted
  PROVE  CopySound'
<1> SUFFICES ASSUME NEW b \in Devices, NEW f \in Entities PROVE CopyAt(b, f)'
  BY DEF CopySound
<1>1. CopyAt(b, f)
  BY DEF CopySound
<1>2. UpToDate(b, f) <=> UpToDate(b, f)'
  BY DEF UpToDate, Known, NotBehind
<1>3. \A k \in {0, 1} : Unacked(b, f, k) <=> Unacked(b, f, k)'
  BY DEF Unacked
<1>4. agent'[b].noted => agent[b].noted
  OBVIOUS
<1>5. conf[b][f].open => Known(f, conf[b][f].theirs)'
  BY <1>1 DEF CopyAt, Known
<1>6. NotBehind(b, f, conf[b][f].theirs.rev) => NotBehind(b, f, conf[b][f].theirs.rev)'
  BY DEF NotBehind
<1> QED
  BY <1>1, <1>2, <1>3, <1>4, <1>5, <1>6 DEF CopyAt

LEMMA OpsSame == ASSUME ops' = ops PROVE OpsGrow
BY DEF OpsGrow

-----------------------------------------------------------------------------
\* Steps that change the agent's cycle alone.
LEMMA AgentInv ==
  ASSUME SyncInv, NEW d \in Devices, NEW a \in AgentRecord, agent' = [agent EXCEPT ![d] = a],
         UNCHANGED <<feedVars, deviceVars, passed, scene, stamp>>, cuts' \in Nat,
         a.noted => agent[d].noted, CycleAt(d)', PageAt(d)'
  PROVE  SyncInv'
<1>0. /\ SyncTypes /\ RowsSound /\ TxSound /\ PushSound /\ ReplacedSound /\ OpsSound
      /\ EditsSound /\ CycleSound /\ PageSound /\ CopySound
  BY DEF SyncInv
<1>u. UNCHANGED <<version, feed, drawn, open, ops, copy, outbox, lcur, rcur, conf, passed, scene, stamp>>
  BY DEF feedVars, deviceVars
<1>1. agent \in [Devices -> AgentRecord]
  BY <1>0 DEF SyncTypes
<1>2. /\ agent' \in [Devices -> AgentRecord] /\ agent'[d] = a
      /\ \A b \in Devices : b # d => agent'[b] = agent[b]
  BY <1>1
<1>3. SyncTypes'
  BY <1>0, <1>2, <1>u DEF SyncTypes
<1>4. CycleSound'
  <2> SUFFICES ASSUME NEW b \in Devices, b # d PROVE CycleAt(b)'
    BY DEF CycleSound
  <2>1. CycleAt(b) /\ agent'[b] = agent[b]
    BY <1>0, <1>2 DEF CycleSound
  <2> QED
    BY <1>u, <2>1 DEF CycleAt, Started
<1>5. PageSound'
  <2> SUFFICES ASSUME NEW b \in Devices, b # d PROVE PageAt(b)'
    BY DEF PageSound
  <2>1. PageAt(b) /\ agent'[b] = agent[b]
    BY <1>0, <1>2 DEF PageSound
  <2> QED
    BY <1>u, <2>1 DEF PageAt
<1>6. \A b \in Devices : agent'[b].noted => agent[b].noted
  BY <1>2
<1>7. OpsGrow
  BY <1>u, OpsSame
<1> QED
  BY <1>0, <1>u, <1>3, <1>4, <1>5, <1>6, <1>7, RowsKept, TxKept, PushKept, ReplacedKept, OpsKept, EditsKept, CopyKept
  DEF SyncInv

LEMMA NoCycleFacts ==
  NoCycle \in AgentRecord /\ NoCycle.pc = "idle" /\ ~NoCycle.noted /\ NoCycle.rows = {}
BY DEF NoCycle, AgentRecord

\* A cycle that ends leaves nothing recorded beyond the next page.
LEMMA EndedCycle ==
  ASSUME SyncInv, NEW d \in Devices, agent'[d] = NoCycle, UNCHANGED <<ops, outbox, lcur>>,
         \A c \in Nat : Started(d, c)' => Started(d, c)
  PROVE  CycleAt(d)'
<1>1. CycleAt(d)
  BY DEF SyncInv, CycleSound
<1>2. lcur[d] \in Nat /\ PageSize \in Nat \ {0} /\ agent[d].last \in Nat
      /\ agent[d].pc \in {"idle", "push", "ack", "pull", "apply"}
  BY SyncAssumption DEF SyncInv, SyncTypes, AgentRecord, SyncAssumption
<1>3. ASSUME NEW c \in Nat, Started(d, c) PROVE c <= lcur[d] + PageSize
  BY <1>1, <1>2, <1>3 DEF CycleAt
<1> QED
  BY <1>1, <1>3, NoCycleFacts DEF CycleAt

LEMMA EndedInv ==
  ASSUME SyncInv, NEW d \in Devices, agent' = [agent EXCEPT ![d] = NoCycle],
         UNCHANGED <<feedVars, deviceVars, passed, scene, stamp>>, cuts' \in Nat
  PROVE  SyncInv'
<1>u. UNCHANGED <<feed, open, ops, outbox, lcur, rcur, passed>>
  BY DEF feedVars, deviceVars
<1>1. agent'[d] = NoCycle
  BY DEF SyncInv, SyncTypes
<1>2. CycleAt(d)'
  BY <1>1, <1>u, EndedCycle DEF Started
<1>3. PageAt(d)'
  BY <1>1, <1>u, NoCycleFacts DEF PageAt
<1> QED
  BY <1>2, <1>3, NoCycleFacts, AgentInv

LEMMA PushRefusedInv ==
  ASSUME SyncInv, NEW d \in Devices, PushRefused(d) PROVE SyncInv'
<1>1. cuts \in Nat
  BY DEF SyncInv, SyncTypes
<1> QED
  BY <1>1, EndedInv DEF PushRefused

LEMMA PushFailedInv ==
  ASSUME SyncInv, NEW d \in Devices, PushFailed(d) PROVE SyncInv'
<1>1. cuts \in Nat
  BY DEF SyncInv, SyncTypes
<1> QED
  BY <1>1, EndedInv DEF PushFailed

LEMMA InterruptedInv ==
  ASSUME SyncInv, NEW d \in Devices, Interrupted(d) PROVE SyncInv'
<1>1. cuts \in Nat
  BY DEF SyncInv, SyncTypes
<1>2. cuts' \in Nat /\ agent' = [agent EXCEPT ![d] = NoCycle]
      /\ UNCHANGED <<feedVars, deviceVars, passed, scene, stamp>>
  BY <1>1 DEF Interrupted
<1> QED
  BY <1>2, EndedInv

\* Only changes of the outbox have been sent.
LEMMA StartedBound ==
  ASSUME SyncInv, NEW d \in Devices, NEW c \in Nat, Started(d, c)
  PROVE  c <= Len(outbox[d])
<1>1. Len(outbox[d]) \in Nat
  BY DEF SyncInv, SyncTypes
<1>2. CASE <<d, c>> \in DOMAIN ops
  BY <1>2 DEF SyncInv, OpsSound
<1>3. CASE \E t \in open : t.op = <<d, c>>
  <2>1. PICK t \in open : t.op = <<d, c>>
    BY <1>3
  <2>2. CASE c = 0
    BY <1>1, <2>2
  <2>3. CASE c # 0
    BY <2>1, <2>3 DEF SyncInv, PushSound
  <2> QED
    BY <2>2, <2>3
<1> QED
  BY <1>2, <1>3 DEF Started

LEMMA PushStartInv ==
  ASSUME SyncInv, NEW d \in Devices, PushStart(d) PROVE SyncInv'
<1> DEFINE a == [NoCycle EXCEPT !.pc = "push", !.at = lcur[d], !.last = PageEnd(d),
                                !.full = PageEnd(d) = lcur[d] + PageSize]
<1>0. /\ agent' = [agent EXCEPT ![d] = a] /\ agent[d].pc = "idle" /\ lcur[d] < Len(outbox[d])
      /\ UNCHANGED <<feed, open, ops, outbox, lcur, rcur, passed>>
  BY DEF PushStart, feedVars, deviceVars
<1>1. lcur[d] \in Nat /\ PageSize \in Nat \ {0} /\ Len(outbox[d]) \in Nat
  BY SyncAssumption DEF SyncInv, SyncTypes, SyncAssumption
<1>2. /\ PageEnd(d) \in Nat /\ lcur[d] < PageEnd(d) /\ PageEnd(d) <= Len(outbox[d])
      /\ PageEnd(d) <= lcur[d] + PageSize
  BY <1>0, <1>1 DEF PageEnd
<1>3. a \in AgentRecord /\ a.pc = "push" /\ a.at = lcur[d] /\ a.last = PageEnd(d) /\ ~a.noted /\ a.rows = {}
  BY <1>1, <1>2 DEF NoCycle, AgentRecord
<1>4. agent'[d] = a
  BY <1>0 DEF SyncInv, SyncTypes
<1>5. CycleAt(d)
  BY DEF SyncInv, CycleSound
<1>6. ASSUME NEW c \in Nat, Started(d, c) PROVE c <= PageEnd(d)
  <2>1. c <= lcur[d] + PageSize
    BY <1>0, <1>5, <1>6 DEF CycleAt
  <2>2. c <= Len(outbox[d])
    BY <1>6, StartedBound
  <2> QED
    BY <1>1, <2>1, <2>2 DEF PageEnd
<1>7. CycleAt(d)'
  <2> HIDE DEF a
  <2>1. \A c \in Nat : Started(d, c)' => c <= a.last
    BY <1>0, <1>3, <1>6 DEF Started
  <2>2. \A c \in (lcur[d] + 1)..a.at : FALSE
    BY <1>1, <1>3
  <2> QED
    BY <1>0, <1>1, <1>2, <1>3, <1>4, <1>5, <2>1, <2>2 DEF CycleAt
<1>8. PageAt(d)'
  BY <1>0, <1>3, <1>4 DEF PageAt
<1>9. cuts \in Nat
  BY DEF SyncInv, SyncTypes
<1> HIDE DEF a
<1>10. UNCHANGED <<feedVars, deviceVars, passed, scene, stamp>> /\ cuts' \in Nat
  BY <1>9 DEF PushStart
<1> QED
  BY <1>0, <1>3, <1>7, <1>8, <1>10, AgentInv

\* The answer for one change of the page.
LEMMA ReturnedCycle ==
  ASSUME SyncInv, NEW d \in Devices, Serving(d), Returned(d), OpsGrow, OpOf(d) \in DOMAIN ops',
         outbox' = outbox, lcur' = lcur,
         \A c \in Nat : Started(d, c)' => Started(d, c) \/ <<d, c>> = OpOf(d)
  PROVE  /\ agent' = [agent EXCEPT ![d] = agent'[d]]
         /\ agent'[d] \in AgentRecord /\ agent'[d].noted = agent[d].noted
         /\ agent'[d].rows = agent[d].rows /\ agent'[d].pc # "apply" /\ agent[d].pc # "apply"
         /\ CycleAt(d)'
<1> DEFINE a == agent[d]
<1>1. /\ agent \in [Devices -> AgentRecord] /\ lcur[d] \in Nat /\ Len(outbox[d]) \in Nat
      /\ CycleAt(d) /\ DOMAIN ops \subseteq Operation
  BY DEF SyncInv, SyncTypes, CycleSound
<1>2. a \in AgentRecord /\ a.pc = "push" /\ a.at \in Nat /\ a.last \in Nat
  BY <1>1 DEF Serving, AgentRecord
<1>3. agent' = [agent EXCEPT ![d] =
                  [a EXCEPT !.at = a.at + 1, !.pc = IF a.at + 1 = a.last THEN "ack" ELSE "push"]]
  BY DEF Returned
<1>4. PICK z : z = [a EXCEPT !.at = a.at + 1, !.pc = IF a.at + 1 = a.last THEN "ack" ELSE "push"]
  OBVIOUS
<1>5. /\ z \in AgentRecord /\ z.at = a.at + 1 /\ z.last = a.last /\ z.noted = a.noted /\ z.rows = a.rows
      /\ z.pc = IF a.at + 1 = a.last THEN "ack" ELSE "push"
  <2>1. a.at + 1 \in Nat /\ (IF a.at + 1 = a.last THEN "ack" ELSE "push") \in {"idle", "push", "ack", "pull", "apply"}
    BY <1>2
  <2>3. PICK n \in Nat, pc \in {"idle", "push", "ack", "pull", "apply"} :
          n = a.at + 1 /\ pc = IF a.at + 1 = a.last THEN "ack" ELSE "push"
    BY <2>1
  <2>4. z = [a EXCEPT !.at = n, !.pc = pc]
    BY <1>4, <2>3
  <2> HIDE DEF a
  <2> QED
    <3>1. /\ z \in AgentRecord /\ z.at = n /\ z.pc = pc /\ z.last = a.last /\ z.noted = a.noted
          /\ z.rows = a.rows
      BY <1>2, <2>4 DEF AgentRecord
    <3> QED
      BY <2>3, <3>1, Zenon
<1>6. agent'[d] = z /\ agent' = [agent EXCEPT ![d] = agent'[d]]
  BY <1>1, <1>3, <1>4
<1>7. lcur[d] <= a.at /\ a.at < a.last /\ a.last <= Len(outbox[d]) /\ a.last <= lcur[d] + PageSize
  BY <1>1, <1>2 DEF CycleAt
<1>8. ASSUME NEW c \in (lcur[d] + 1)..z.at PROVE <<d, c>> \in DOMAIN ops'
  <2>1. CASE c = a.at + 1
    BY <2>1 DEF OpOf
  <2>2. CASE c # a.at + 1
    <3>1. c \in (lcur[d] + 1)..a.at
      BY <1>1, <1>2, <1>5, <2>2
    <3> QED
      BY <1>1, <1>2, <3>1 DEF CycleAt, OpsGrow
  <2> QED
    BY <2>1, <2>2
<1>9. ASSUME NEW c \in Nat, Started(d, c)' PROVE c <= z.last
  <2>1. CASE Started(d, c)
    BY <1>1, <1>2, <1>5, <2>1 DEF CycleAt
  <2>2. CASE <<d, c>> = OpOf(d)
    BY <1>2, <1>5, <1>7, <2>2 DEF OpOf
  <2> QED
    BY <1>9, <2>1, <2>2
<1>10. \A c \in 1..lcur[d] : <<d, c>> \in DOMAIN ops'
  BY <1>1 DEF CycleAt, OpsGrow
<1>11. ~z.noted
  BY <1>1, <1>2, <1>5 DEF CycleAt
<1>12. CycleAt(d)'
  <2> HIDE DEF a
  <2>1. lcur[d] <= Len(outbox[d])
    BY <1>1 DEF CycleAt
  <2>2. z.pc = "push" => lcur[d] <= z.at /\ z.at < z.last
    BY <1>1, <1>2, <1>5, <1>7
  <2>3. z.pc = "ack" => lcur[d] < z.last /\ z.at = z.last
    BY <1>1, <1>2, <1>5, <1>7
  <2>4. z.pc \in {"push", "ack"} /\ z.last <= Len(outbox[d]) /\ z.last <= lcur[d] + PageSize
    BY <1>5, <1>7
  <2> QED
    BY <1>6, <1>8, <1>9, <1>10, <1>11, <2>1, <2>2, <2>3, <2>4 DEF CycleAt
<1> QED
  BY <1>2, <1>5, <1>6, <1>12

LEMMA PushReplayInv ==
  ASSUME SyncInv, NEW d \in Devices, PushReplay(d) PROVE SyncInv'
<1>u. UNCHANGED <<feed, open, ops, outbox, lcur, rcur, passed>> /\ cuts' = cuts
  BY DEF PushReplay, feedVars, deviceVars
<1>1. \A c \in Nat : Started(d, c)' => Started(d, c)
  BY <1>u DEF Started
<1>2. OpsGrow
  BY <1>u, OpsSame
<1>3. /\ agent' = [agent EXCEPT ![d] = agent'[d]]
      /\ agent'[d] \in AgentRecord /\ agent'[d].noted = agent[d].noted
      /\ agent'[d].rows = agent[d].rows /\ agent'[d].pc # "apply" /\ agent[d].pc # "apply"
      /\ CycleAt(d)'
  BY <1>u, <1>1, <1>2, ReturnedCycle DEF PushReplay
<1>4. PageAt(d)'
  BY <1>u, <1>3 DEF SyncInv, PageSound, PageAt
<1>5. cuts' \in Nat
  BY <1>u DEF SyncInv, SyncTypes
<1>6. PICK z \in AgentRecord : z = agent'[d]
  BY <1>3
<1> QED
  BY <1>3, <1>4, <1>5, <1>6, AgentInv DEF PushReplay
\* A page of the feed is every row from the cursor to its last one.
LEMMA PageComplete ==
  ASSUME IsFiniteSet(feed), feed \subseteq Row, PageSize \in Nat, NEW c \in Nat, NEW p \in RowsAfter(c), NEW r \in feed,
         c < r.cursor, r.cursor <= p.cursor
  PROVE  r \in RowsAfter(c)
<1>0. p.cursor \in Nat /\ r.cursor \in Nat /\ p \in feed /\ \A q \in feed : q.cursor \in Nat
  BY DEF Row, RowsAfter
<1>1. Between(c, r.cursor) \subseteq Between(c, p.cursor)
  BY <1>0 DEF Between
<1>2. IsFiniteSet(Between(c, p.cursor)) /\ IsFiniteSet(Between(c, r.cursor))
  BY FS_Subset DEF Between
<1>3. Cardinality(Between(c, r.cursor)) <= Cardinality(Between(c, p.cursor))
  BY <1>1, <1>2, FS_Subset
<1>4. Cardinality(Between(c, r.cursor)) \in Nat /\ Cardinality(Between(c, p.cursor)) \in Nat
  BY <1>2, FS_CardinalityType
<1>5. Cardinality(Between(c, p.cursor)) < PageSize
  BY DEF RowsAfter
<1> QED
  BY <1>3, <1>4, <1>5 DEF RowsAfter

LEMMA PullInv ==
  ASSUME SyncInv, NEW d \in Devices, Pull(d) PROVE SyncInv'
<1> DEFINE rows == RowsAfter(rcur[d])
<1>u. UNCHANGED <<feed, open, ops, outbox, lcur, rcur, passed>> /\ cuts' = cuts
      /\ UNCHANGED <<feedVars, deviceVars, passed, scene, stamp>>
  BY DEF Pull, feedVars, deviceVars
<1>1. cuts' \in Nat
  BY <1>u DEF SyncInv, SyncTypes
<1>2. CASE rows = {}
  BY <1>u, <1>1, <1>2, EndedInv DEF Pull
<1>3. CASE rows # {}
  <2>0. PICK f : f = (Cardinality(rows) = PageSize)
    OBVIOUS
  <2>1. PICK a : a = [NoCycle EXCEPT !.pc = "apply", !.rows = rows, !.full = f]
    OBVIOUS
  <2>2. agent' = [agent EXCEPT ![d] = a] /\ f \in BOOLEAN
    BY <1>3, <2>0, <2>1 DEF Pull
  <2>3. /\ feed \subseteq Row /\ IsFiniteSet(feed) /\ lcur[d] \in Nat /\ rcur[d] \in Nat
        /\ agent \in [Devices -> AgentRecord] /\ PageSize \in Nat
    BY SyncAssumption DEF SyncInv, SyncTypes, SyncAssumption
  <2>4. rows \subseteq feed
    BY DEF RowsAfter
  <2>5. a \in AgentRecord /\ a.pc = "apply" /\ a.rows = rows /\ ~a.noted
    BY <2>1, <2>2, <2>3, <2>4 DEF NoCycle, AgentRecord
  <2>6. agent'[d] = a
    BY <2>2, <2>3
  <2>7. CycleAt(d) /\ lcur[d] <= Len(outbox[d])
    BY DEF SyncInv, CycleSound, CycleAt
  <2>8. ASSUME NEW c \in Nat, Started(d, c) PROVE c <= lcur[d]
    <3>1. CASE agent[d].pc = "pull"
      BY <2>7, <2>8, <3>1 DEF CycleAt
    <3>2. CASE lcur[d] = Len(outbox[d])
      BY <2>8, <3>2, StartedBound
    <3> QED
      BY <3>1, <3>2 DEF Pull
  <2>9. CycleAt(d)'
    BY <1>u, <2>5, <2>6, <2>7, <2>8 DEF CycleAt, Started
  <2>10. PageAt(d)'
    <3>1. \A p \in rows : rcur[d] < p.cursor
      BY <2>3, <2>4 DEF RowsAfter, Row
    <3>2. \A p \in rows, r \in feed : rcur[d] < r.cursor /\ r.cursor <= p.cursor => r \in rows
      BY <2>3, PageComplete
    <3> HIDE DEF rows
    <3> QED
      BY <1>u, <2>4, <2>5, <2>6, <3>1, <3>2 DEF PageAt
  <2> QED
    BY <1>u, <1>1, <2>2, <2>5, <2>9, <2>10, AgentInv
<1> QED
  BY <1>2, <1>3

-----------------------------------------------------------------------------
\* The current version is one the server has, and no row is ahead of it.
LEMMA CurrentKnown ==
  ASSUME SyncInv, NEW e \in Entities
  PROVE  Known(e, version[e]) /\ \A b : NotBehind(b, e, version[e].rev)
<1>1. version[e] \in Version /\ version[e].rev \in Nat
  BY DEF SyncInv, SyncTypes, Version
<1>2. version[e].rev = 0 => Known(e, version[e])
  BY DEF SyncInv, RowsSound, Known
<1>3. version[e].rev # 0 => Known(e, version[e])
  <2> SUFFICES ASSUME version[e].rev # 0 PROVE Known(e, version[e])
    OBVIOUS
  <2>0. version[e].rev \in 1..version[e].rev
    BY <1>1
  <2>1. PICK r \in feed : r.e = e /\ r.ver.rev = version[e].rev
    BY <2>0 DEF SyncInv, RowsSound
  <2>2. r.ver = version[e]
    BY <2>1 DEF SyncInv, RowsSound
  <2> QED
    BY <2>1, <2>2 DEF Known, Same
<1>4. ASSUME NEW b PROVE NotBehind(b, e, version[e].rev)
  BY <1>1 DEF SyncInv, RowsSound, NotBehind
<1> QED
  BY <1>2, <1>3, <1>4

\* A version of the server with the current revision is the current version.
LEMMA KnownCurrent ==
  ASSUME SyncInv, NEW e \in Entities, NEW v, Known(e, v), v.rev = version[e].rev
  PROVE  Same(v, version[e])
<1>1. CASE v.rev = 0
  BY <1>1 DEF SyncInv, RowsSound, Known, Same
<1>2. CASE v.rev # 0
  <2>1. PICK r \in feed : r.e = e /\ Same(r.ver, v)
    BY <1>2 DEF Known
  <2>2. r.ver = version[e]
    BY <2>1 DEF SyncInv, RowsSound, Same
  <2> QED
    BY <2>1, <2>2 DEF Same
<1> QED
  BY <1>1, <1>2

LEMMA CycleOther ==
  ASSUME NEW b, CycleAt(b), agent'[b] = agent[b], outbox' = outbox, lcur' = lcur, OpsGrow,
         \A c \in Nat : Started(b, c)' => Started(b, c)
  PROVE  CycleAt(b)'
BY DEF CycleAt, OpsGrow

\* The server records the result of a push.
LEMMA RecordedOps ==
  ASSUME SyncTypes, NEW o \in Operation, NEW r \in Result, o \notin DOMAIN ops, Recorded(o, r)
  PROVE  /\ OpsGrow /\ DOMAIN ops' = DOMAIN ops \cup {o} /\ ops'[o] = r
         /\ DOMAIN ops' \subseteq Operation /\ \A p \in DOMAIN ops' : ops'[p] \in Result
         /\ \A b, c : Started(b, c)' => (\E t \in open' : t.op = <<b, c>>) \/ Started(b, c) \/ <<b, c>> = o
BY DEF Recorded, SyncTypes, OpsGrow, Started

\* The change a push is at.
LEMMA CurrentChange ==
  ASSUME SyncInv, NEW d \in Devices, Serving(d)
  PROVE  /\ agent[d].at \in Nat /\ agent[d].last \in Nat /\ lcur[d] \in Nat /\ Len(outbox[d]) \in Nat
         /\ lcur[d] <= agent[d].at /\ agent[d].at < agent[d].last /\ agent[d].last <= Len(outbox[d])
         /\ OpOf(d) \in Operation /\ OpOf(d)[1] = d /\ OpOf(d)[2] = agent[d].at + 1
         /\ agent[d].at + 1 \in 1..Len(outbox[d])
         /\ Current(d) = outbox[d][agent[d].at + 1] /\ Current(d) \in Change
         /\ \A c \in 1..agent[d].at : <<d, c>> \in DOMAIN ops
<1>1. /\ agent[d] \in AgentRecord /\ lcur[d] \in Nat /\ outbox[d] \in Seq(Change) /\ CycleAt(d)
  BY DEF SyncInv, SyncTypes, CycleSound
<1>2. agent[d].pc = "push" /\ agent[d].at \in Nat /\ agent[d].last \in Nat /\ Len(outbox[d]) \in Nat
  BY <1>1 DEF Serving, AgentRecord
<1>3. lcur[d] <= agent[d].at /\ agent[d].at < agent[d].last /\ agent[d].last <= Len(outbox[d])
  BY <1>1, <1>2 DEF CycleAt
<1>4. agent[d].at + 1 \in 1..Len(outbox[d])
  BY <1>2, <1>3
<1>5. Current(d) = outbox[d][agent[d].at + 1] /\ Current(d) \in Change
  BY <1>1, <1>4 DEF Current
<1>6. OpOf(d) \in Operation /\ OpOf(d)[1] = d /\ OpOf(d)[2] = agent[d].at + 1
  BY <1>2 DEF OpOf, Operation
<1>7. ASSUME NEW c \in 1..agent[d].at PROVE <<d, c>> \in DOMAIN ops
  <2>1. c \in 1..lcur[d] \/ c \in (lcur[d] + 1)..agent[d].at
    BY <1>1, <1>2, <1>3
  <2> QED
    BY <1>1, <1>2, <2>1 DEF CycleAt
<1> QED
  BY <1>1, <1>2, <1>3, <1>4, <1>5, <1>6, <1>7

LEMMA PushConflictInv ==
  ASSUME SyncInv, NEW d \in Devices, PushConflict(d) PROVE SyncInv'
<1>0. /\ SyncTypes /\ RowsSound /\ TxSound /\ PushSound /\ ReplacedSound /\ OpsSound
      /\ EditsSound /\ CycleSound /\ PageSound /\ CopySound
  BY DEF SyncInv
<1>u. UNCHANGED <<version, feed, drawn, open, copy, outbox, lcur, rcur, conf, passed, scene, stamp, cuts>>
  BY DEF PushConflict, deviceVars
<1>1. /\ Serving(d) /\ OpOf(d) \notin DOMAIN ops /\ \A t \in open : t.op # OpOf(d)
      /\ Recorded(OpOf(d), [status |-> "conflict", ver |-> version[Current(d).e]]) /\ Returned(d)
  BY DEF PushConflict, NewOp
<1>2. /\ OpOf(d) \in Operation /\ OpOf(d)[1] = d /\ OpOf(d)[2] = agent[d].at + 1
      /\ agent[d].at + 1 \in 1..Len(outbox[d]) /\ Len(outbox[d]) \in Nat
      /\ Current(d) = outbox[d][agent[d].at + 1] /\ Current(d) \in Change
  BY <1>1, CurrentChange
<1>3. PICK x : x = [status |-> "conflict", ver |-> version[Current(d).e]]
  OBVIOUS
<1>4. Current(d).e \in Entities /\ version[Current(d).e] \in Version
  BY <1>0, <1>2 DEF Change, SyncTypes
<1>5. x \in Result /\ x.status = "conflict" /\ x.ver = version[Current(d).e]
  BY <1>3, <1>4 DEF Result
<1>6. /\ OpsGrow /\ DOMAIN ops' = DOMAIN ops \cup {OpOf(d)} /\ ops'[OpOf(d)] = x
      /\ DOMAIN ops' \subseteq Operation /\ \A p \in DOMAIN ops' : ops'[p] \in Result
      /\ \A b, c : Started(b, c)' => Started(b, c) \/ <<b, c>> = OpOf(d)
  <2>1. Recorded(OpOf(d), x)
    BY <1>1, <1>3
  <2> QED
    <3>1. PICK o \in Operation : o = OpOf(d) /\ o \notin DOMAIN ops /\ Recorded(o, x)
      BY <1>1, <1>2, <2>1
    <3>2. /\ OpsGrow /\ DOMAIN ops' = DOMAIN ops \cup {o} /\ ops'[o] = x
          /\ DOMAIN ops' \subseteq Operation /\ \A p \in DOMAIN ops' : ops'[p] \in Result
          /\ \A b, c : Started(b, c)' => (\E t \in open' : t.op = <<b, c>>) \/ Started(b, c) \/ <<b, c>> = o
      BY <1>0, <1>5, <3>1, RecordedOps
    <3>3. \A b, c : (\E t \in open' : t.op = <<b, c>>) => Started(b, c)
      BY <1>u DEF Started
    <3> QED
      BY <3>1, <3>2, <3>3
<1>7. /\ agent' = [agent EXCEPT ![d] = agent'[d]]
      /\ agent'[d] \in AgentRecord /\ agent'[d].noted = agent[d].noted
      /\ agent'[d].rows = agent[d].rows /\ agent'[d].pc # "apply" /\ agent[d].pc # "apply"
      /\ CycleAt(d)'
  BY <1>1, <1>6, <1>u, ReturnedCycle
<1>8. agent' \in [Devices -> AgentRecord] /\ \A b \in Devices : b # d => agent'[b] = agent[b]
  BY <1>0, <1>7 DEF SyncTypes
<1>9. SyncTypes'
  BY <1>0, <1>6, <1>8, <1>u DEF SyncTypes
<1>10. PushSound'
  BY <1>0, <1>1, <1>6, <1>u, PushKept
<1>11. OpsSound'
  <2> SUFFICES ASSUME NEW o \in DOMAIN ops'
               PROVE  LET b == o[1]
                          c == outbox[b][o[2]]
                      IN /\ o[2] <= Len(outbox[b])
                         /\ Known(c.e, ops'[o].ver)
                         /\ ops'[o].status = "applied" => Same(ops'[o].ver, c.ver)
                         /\ o[2] > lcur[b] /\ <<b, c.e>> \notin passed => NotBehind(b, c.e, ops'[o].ver.rev)
    BY <1>u DEF OpsSound, Known, NotBehind, Same
  <2>1. CASE o \in DOMAIN ops
    BY <1>0, <1>6, <2>1 DEF OpsSound, OpsGrow
  <2>2. CASE o = OpOf(d)
    <3>1. Known(Current(d).e, x.ver) /\ NotBehind(d, Current(d).e, x.ver.rev)
      BY <1>4, <1>5, CurrentKnown
    <3>2. outbox[o[1]][o[2]] = Current(d) /\ ops'[o] = x /\ o[1] = d /\ o[2] <= Len(outbox[d])
      BY <1>2, <1>6, <2>2
    <3> QED
      BY <1>5, <3>1, <3>2
  <2> QED
    BY <1>6, <2>1, <2>2
<1>12. CycleSound'
  <2> SUFFICES ASSUME NEW b \in Devices, b # d PROVE CycleAt(b)'
    BY <1>7 DEF CycleSound
  <2>1. CycleAt(b) /\ \A c \in Nat : Started(b, c)' => Started(b, c)
    BY <1>0, <1>2, <1>6 DEF CycleSound
  <2> QED
    BY <1>6, <1>8, <1>u, <2>1, CycleOther
<1>13. PageSound'
  <2> SUFFICES ASSUME NEW b \in Devices PROVE PageAt(b)'
    BY DEF PageSound
  <2>1. PageAt(b) /\ agent'[b].rows = agent[b].rows /\ (agent'[b].pc # "apply" <=> agent[b].pc # "apply")
    BY <1>0, <1>7, <1>8 DEF PageSound
  <2> QED
    BY <1>u, <2>1 DEF PageAt
<1>14. \A b \in Devices : agent'[b].noted => agent[b].noted
  BY <1>7, <1>8
<1> QED
  BY <1>0, <1>6, <1>9, <1>10, <1>11, <1>12, <1>13, <1>14, <1>u, RowsKept, TxKept, ReplacedKept, EditsKept, CopyKept
  DEF SyncInv

-----------------------------------------------------------------------------
\* A write transaction takes its locks and draws its cursor.
LEMMA BeginInv ==
  ASSUME SyncInv, NEW t \in Tx, BeginTx(t), EntityFree(t.e), t.cursor = drawn + 1,
         t.ver.rev = version[t.e].rev + 1,
         UNCHANGED <<version, feed, ops, deviceVars, agent, passed, scene, cuts>>, stamp' \in Nat,
         t.op[2] # 0 =>
           /\ t.op[1] \in Devices /\ Serving(t.op[1]) /\ t.op = OpOf(t.op[1]) /\ t.op \notin DOMAIN ops
           /\ outbox[t.op[1]][t.op[2]].e = t.e /\ Same(outbox[t.op[1]][t.op[2]].ver, t.ver)
           /\ Same(t.on, version[t.e]) \/ AfterConflict(t.op, t.e)
  PROVE  SyncInv'
<1>0. /\ SyncTypes /\ RowsSound /\ TxSound /\ PushSound /\ ReplacedSound /\ OpsSound
      /\ EditsSound /\ CycleSound /\ PageSound /\ CopySound
  BY DEF SyncInv
<1>u. UNCHANGED <<version, feed, ops, copy, outbox, lcur, rcur, conf, agent, passed, scene, cuts>>
  BY DEF deviceVars
<1>1. drawn' = drawn + 1 /\ open' = open \cup {t} /\ drawn \in Nat
  BY <1>0 DEF BeginTx, SyncTypes
<1>2. t.op[2] # 0 => /\ t.op \in Operation /\ t.op[2] <= Len(outbox[t.op[1]])
                     /\ t.op[2] = agent[t.op[1]].at + 1 /\ agent[t.op[1]].pc = "push"
                     /\ agent[t.op[1]].at \in Nat /\ agent[t.op[1]].last \in Nat
                     /\ agent[t.op[1]].at < agent[t.op[1]].last
  BY CurrentChange DEF Serving
<1>3. SyncTypes'
  BY <1>0, <1>1, <1>u DEF SyncTypes
<1>4. /\ \A r \in feed : r.cursor \in Nat /\ r.cursor <= drawn
      /\ \A u \in open : u.cursor \in Nat /\ u.cursor <= drawn
      /\ \A b \in Devices : rcur[b] \in Nat /\ rcur[b] <= drawn
  BY <1>0 DEF SyncTypes, Row, Tx, RowsSound, TxSound
<1>5. RowsSound'
  BY <1>0, <1>1, <1>4, <1>u DEF RowsSound
<1>6. TxSound'
  <2>1. \A u \in open' :
          /\ u.cursor <= drawn' /\ u.ver.rev = version[u.e].rev + 1
          /\ \A r \in feed : r.cursor # u.cursor /\ (r.e = u.e => r.cursor < u.cursor)
          /\ \A b \in Devices : rcur[b] # u.cursor
    BY <1>0, <1>1, <1>4 DEF TxSound
  <2>2. \A u \in open : u.e # t.e /\ u.cursor # t.cursor
    BY <1>1, <1>4 DEF EntityFree
  <2>3. \A u, w \in open' : u.e = w.e \/ u.cursor = w.cursor => u = w
    BY <1>0, <1>1, <2>2 DEF TxSound
  <2>4. \A b \in Devices : rcur[b] <= drawn'
    BY <1>1, <1>4
  <2> QED
    BY <1>u, <2>1, <2>3, <2>4 DEF TxSound
<1>7. PushSound'
  <2> SUFFICES ASSUME NEW u \in open', u.op[2] # 0
               PROVE  /\ u.op \in Operation /\ u.op \notin DOMAIN ops /\ u.op[2] <= Len(outbox[u.op[1]])
                      /\ outbox[u.op[1]][u.op[2]].e = u.e /\ Same(outbox[u.op[1]][u.op[2]].ver, u.ver)
                      /\ Same(u.on, version[u.e]) \/ AfterConflict(u.op, u.e)
    BY <1>u DEF PushSound, Same, AfterConflict
  <2>1. CASE u = t
    BY <1>2, <2>1
  <2>2. CASE u \in open
    BY <1>0, <2>2 DEF PushSound
  <2> QED
    BY <1>1, <2>1, <2>2
<1>8. CycleSound'
  <2> SUFFICES ASSUME NEW b \in Devices PROVE CycleAt(b)'
    BY DEF CycleSound
  <2>1. CycleAt(b) /\ agent[b] \in AgentRecord /\ lcur[b] \in Nat
    BY <1>0 DEF CycleSound, SyncTypes
  <2>2. ASSUME NEW c \in Nat, Started(b, c)', ~Started(b, c)
        PROVE  c = 0 \/ (agent[b].pc = "push" /\ c <= agent[b].last)
    <3>1. t.op = <<b, c>>
      BY <1>1, <1>u, <2>2 DEF Started
    <3>2. t.op[1] = b /\ t.op[2] = c
      BY <3>1
    <3> QED
      BY <1>2, <3>2
  <2>3. ASSUME NEW c \in Nat, Started(b, c)'
        PROVE  /\ agent[b].pc = "idle" => c <= lcur[b] + PageSize
               /\ agent[b].pc \in {"push", "ack"} => c <= agent[b].last
               /\ agent[b].pc \in {"pull", "apply"} => c <= lcur[b]
    <3>1. CASE Started(b, c)
      BY <2>1, <3>1 DEF CycleAt
    <3>2. CASE ~Started(b, c) /\ c # 0
      BY <2>2, <2>3, <3>2
    <3>3. CASE c = 0
      BY <2>1, <3>3, SyncAssumption DEF SyncAssumption, AgentRecord
    <3> QED
      BY <3>1, <3>2, <3>3
  <2> QED
    BY <1>u, <2>1, <2>3 DEF CycleAt
<1>9. OpsGrow
  BY <1>u, OpsSame
<1> QED
  BY <1>0, <1>3, <1>5, <1>6, <1>7, <1>8, <1>9, <1>u, ReplacedKept, OpsKept, EditsKept, PageKept, CopyKept
  DEF SyncInv

LEMMA PublishEntityInv ==
  ASSUME SyncInv, NEW e \in Entities, publish_server_entity(e) PROVE SyncInv'
<1>1. stamp \in Nat /\ stamp' = stamp + 1 /\ version[e] \in Version /\ drawn \in Nat
  BY DEF SyncInv, SyncTypes, publish_server_entity
<1>2. PICK t : t = [e |-> e, op |-> ServerOp, quota |-> TRUE, cursor |-> drawn + 1, on |-> version[e],
                    ver |-> [rev |-> version[e].rev + 1, val |-> stamp', dead |-> FALSE]]
  OBVIOUS
<1>3. /\ t \in Tx /\ t.e = e /\ t.cursor = drawn + 1 /\ t.ver.rev = version[e].rev + 1 /\ t.op = ServerOp
  BY <1>1, <1>2 DEF Tx, Version
<1>4. t.op[2] = 0
  BY <1>3 DEF ServerOp
<1>5. /\ BeginTx(t) /\ EntityFree(t.e)
      /\ UNCHANGED <<version, feed, ops, deviceVars, agent, passed, scene, cuts>>
  BY <1>2, <1>3 DEF publish_server_entity
<1> QED
  BY <1>1, <1>3, <1>4, <1>5, BeginInv

LEMMA PublishTombstoneInv ==
  ASSUME SyncInv, NEW e \in Entities, publish_server_tombstone(e) PROVE SyncInv'
<1>1. stamp \in Nat /\ stamp' = stamp + 1 /\ version[e] \in Version /\ drawn \in Nat
  BY DEF SyncInv, SyncTypes, publish_server_tombstone
<1>2. PICK t : t = [e |-> e, op |-> ServerOp, quota |-> FALSE, cursor |-> drawn + 1, on |-> version[e],
                    ver |-> [rev |-> version[e].rev + 1, val |-> 0, dead |-> TRUE]]
  OBVIOUS
<1>3. /\ t \in Tx /\ t.e = e /\ t.cursor = drawn + 1 /\ t.ver.rev = version[e].rev + 1 /\ t.op = ServerOp
  BY <1>1, <1>2 DEF Tx, Version
<1>4. t.op[2] = 0
  BY <1>3 DEF ServerOp
<1>5. /\ BeginTx(t) /\ EntityFree(t.e)
      /\ UNCHANGED <<version, feed, ops, deviceVars, agent, passed, scene, cuts>>
  BY <1>2, <1>3 DEF publish_server_tombstone
<1> QED
  BY <1>1, <1>3, <1>4, <1>5, BeginInv

\* The base revision of a push is that of the version its author saw, or of
\* one an earlier, refused change was to make.
LEMMA PushBegins ==
  ASSUME SyncInv, NEW d \in Devices, Serving(d), BaseMatches(d)
  PROVE  Same(Current(d).on, version[Current(d).e]) \/ AfterConflict(OpOf(d), Current(d).e)
<1>1. PICK c : c = Current(d)
  OBVIOUS
<1>2. /\ agent[d].at \in Nat /\ agent[d].at + 1 \in 1..Len(outbox[d]) /\ c \in Change
      /\ c = outbox[d][agent[d].at + 1] /\ OpOf(d)[1] = d /\ OpOf(d)[2] = agent[d].at + 1
      /\ \A i \in 1..agent[d].at : <<d, i>> \in DOMAIN ops
  BY <1>1, CurrentChange
<1>3. c.e \in Entities /\ c.ver.rev \in Nat /\ c.on.rev \in Nat
  BY <1>2 DEF Change, Version
<1>4. c.ver.rev = c.on.rev + 1 /\ Origin(d, c.e, c.on, agent[d].at)
  <2>1. /\ outbox[d][agent[d].at + 1].ver.rev = outbox[d][agent[d].at + 1].on.rev + 1
        /\ Origin(d, outbox[d][agent[d].at + 1].e, outbox[d][agent[d].at + 1].on, (agent[d].at + 1) - 1)
    BY <1>2 DEF SyncInv, EditsSound
  <2>2. (agent[d].at + 1) - 1 = agent[d].at
    BY <1>2
  <2> QED
    BY <1>2, <2>1, <2>2
<1>5. version[c.e].rev = c.on.rev
  BY <1>1, <1>3, <1>4 DEF BaseMatches
<1>6. CASE Known(c.e, c.on)
  BY <1>1, <1>3, <1>5, <1>6, KnownCurrent
<1>7. CASE \E i \in 1..agent[d].at : outbox[d][i].e = c.e /\ outbox[d][i].ver = c.on
  <2>1. PICK i \in 1..agent[d].at : outbox[d][i].e = c.e /\ outbox[d][i].ver = c.on
    BY <1>7
  <2>2. PICK o : o = <<d, i>>
    OBVIOUS
  <2>3. o \in DOMAIN ops /\ o[1] = d /\ o[2] = i /\ ops[o] \in Result
    BY <1>2, <2>2 DEF SyncInv, SyncTypes
  <2>4. Known(c.e, ops[o].ver) /\ (ops[o].status = "applied" => Same(ops[o].ver, c.on))
    BY <2>1, <2>3 DEF SyncInv, OpsSound
  <2>5. CASE ops[o].status = "applied"
    <3>1. ops[o].ver.rev = version[c.e].rev
      BY <1>5, <2>4, <2>5 DEF Same
    <3>2. Same(ops[o].ver, version[c.e])
      BY <1>3, <2>4, <3>1, KnownCurrent
    <3> QED
      BY <1>1, <2>4, <2>5, <3>2 DEF Same
  <2>6. CASE ops[o].status = "conflict"
    <3>1. i \in 1..(OpOf(d)[2] - 1)
      BY <1>2
    <3> QED
      BY <1>1, <1>2, <2>1, <2>2, <2>3, <2>6, <3>1 DEF AfterConflict
  <2> QED
    BY <2>3, <2>5, <2>6 DEF Result
<1> QED
  BY <1>4, <1>6, <1>7 DEF Origin

LEMMA PushBeginInv ==
  ASSUME SyncInv, NEW d \in Devices, PushBegin(d) PROVE SyncInv'
<1>1. PICK c : c = Current(d)
  OBVIOUS
<1>2. /\ Serving(d) /\ BaseMatches(d) /\ EntityFree(c.e) /\ OpOf(d) \notin DOMAIN ops
      /\ UNCHANGED <<version, feed, ops, deviceVars, agent, passed, scene, stamp, cuts>>
  BY <1>1 DEF PushBegin, NewOp
<1>3. /\ c \in Change /\ c = outbox[d][agent[d].at + 1] /\ OpOf(d) \in Operation
      /\ OpOf(d)[1] = d /\ OpOf(d)[2] = agent[d].at + 1 /\ agent[d].at \in Nat
  BY <1>1, <1>2, CurrentChange
<1>4. PICK w : w = IF c.ver.dead THEN [c.ver EXCEPT !.val = 0] ELSE c.ver
  OBVIOUS
<1>5. PICK t : t = [e |-> c.e, op |-> OpOf(d), quota |-> TRUE, cursor |-> drawn + 1, on |-> c.on, ver |-> w]
  OBVIOUS
<1>6. BeginTx(t)
  BY <1>1, <1>4, <1>5 DEF PushBegin
<1>7. w \in Version /\ Same(c.ver, w) /\ w.rev = c.ver.rev
  BY <1>3, <1>4 DEF Change, Version, Same
<1>8. drawn \in Nat /\ stamp' \in Nat
  BY <1>2 DEF SyncInv, SyncTypes
<1>9. /\ t \in Tx /\ t.e = c.e /\ t.op = OpOf(d) /\ t.cursor = drawn + 1 /\ t.on = c.on /\ t.ver = w
  BY <1>3, <1>5, <1>7, <1>8 DEF Tx, Change
<1>10. w.rev = version[c.e].rev + 1
  BY <1>1, <1>2, <1>3, <1>7 DEF BaseMatches, Change, Version
<1>11. Same(t.on, version[t.e]) \/ AfterConflict(t.op, t.e)
  BY <1>1, <1>2, <1>9, PushBegins
<1> QED
  BY <1>2, <1>3, <1>6, <1>7, <1>8, <1>9, <1>10, <1>11, BeginInv
-----------------------------------------------------------------------------
\* The end of a transaction.  A row that commits behind a device's cursor, or
\* inside the page it is applying, is recorded in passed.
LEMMA CommitRows ==
  ASSUME SyncInv, NEW t \in open, Commit(t),
         NEW x, x = [cursor |-> t.cursor, e |-> t.e, ver |-> t.ver, op |-> t.op, on |-> t.on]
  PROVE  /\ x \in Row /\ x \notin feed /\ feed' = feed \cup {x}
         /\ x.cursor = t.cursor /\ x.e = t.e /\ x.ver = t.ver /\ x.op = t.op /\ x.on = t.on
         /\ t \in Tx /\ t.e \in Entities /\ version' \in [Entities -> Version] /\ version'[t.e] = t.ver
         /\ \A f \in Entities : f # t.e => version'[f] = version[f]
         /\ IsFiniteSet(feed') /\ RowsSound'
<1>1. t \in Tx /\ t.e \in Entities /\ t.ver \in Version /\ t.ver.rev \in Nat /\ t.cursor \in Nat
  BY DEF SyncInv, SyncTypes, Tx, Version
<1>2. /\ x \in Row /\ x.cursor = t.cursor /\ x.e = t.e /\ x.ver = t.ver /\ x.op = t.op /\ x.on = t.on
  BY <1>1 DEF Tx, Row
<1>3. /\ t.cursor <= drawn /\ t.ver.rev = version[t.e].rev + 1
      /\ \A r \in feed : r.cursor # t.cursor /\ (r.e = t.e => r.cursor < t.cursor)
  BY DEF SyncInv, TxSound
<1>4. x \notin feed
  BY <1>2, <1>3
<1>5. feed' = feed \cup {x} /\ drawn' = drawn
  BY DEF Commit
<1>6. /\ version \in [Entities -> Version] /\ version' = [version EXCEPT ![t.e] = t.ver]
      /\ IsFiniteSet(feed) /\ feed \subseteq Row
  BY DEF Commit, SyncInv, SyncTypes
<1>7. /\ version' \in [Entities -> Version] /\ version'[t.e] = t.ver
      /\ \A f \in Entities : f # t.e => version'[f] = version[f]
  BY <1>1, <1>6
<1>8. IsFiniteSet(feed')
  BY <1>5, <1>6, FS_AddElement
<1>9. /\ \A f \in Entities : version[f].rev \in Nat
      /\ \A r \in feed : r.e \in Entities /\ r.cursor \in Nat /\ r.ver.rev \in Nat
  BY <1>6 DEF Version, Row
<1>10. \A r \in feed : r.cursor <= drawn /\ r.ver.rev \in 1..version[r.e].rev
                       /\ (r.ver.rev = version[r.e].rev => r.ver = version[r.e])
  BY DEF SyncInv, RowsSound
<1>11. RowsSound'
  <2>1. ASSUME NEW r \in feed'
        PROVE  /\ r.cursor <= drawn
               /\ r.ver.rev \in 1..version'[r.e].rev
               /\ r.ver.rev = version'[r.e].rev => r.ver = version'[r.e]
    <3>1. CASE r = x
      BY <1>1, <1>2, <1>3, <1>7, <1>9, <3>1
    <3>2. CASE r \in feed /\ r.e = t.e
      BY <1>1, <1>3, <1>7, <1>9, <1>10, <3>2
    <3>3. CASE r \in feed /\ r.e # t.e
      BY <1>7, <1>9, <1>10, <3>3
    <3> QED
      BY <1>5, <3>1, <3>2, <3>3
  <2>2. \A r, q \in feed' : r.cursor = q.cursor => r = q
    BY <1>2, <1>3, <1>5 DEF SyncInv, RowsSound
  <2>3. ASSUME NEW r \in feed', NEW q \in feed', r.e = q.e, r.cursor < q.cursor
        PROVE  r.ver.rev < q.ver.rev
    <3>1. CASE r \in feed /\ q \in feed
      BY <2>3, <3>1 DEF SyncInv, RowsSound
    <3>2. CASE q = x /\ r \in feed
      BY <1>1, <1>2, <1>3, <1>9, <1>10, <2>3, <3>2
    <3>3. CASE r = x
      BY <1>1, <1>2, <1>3, <1>5, <1>9, <2>3, <3>3
    <3> QED
      BY <1>5, <3>1, <3>2, <3>3
  <2>4. ASSUME NEW f \in Entities
        PROVE  /\ version'[f].rev = 0 => version'[f] = Absent
               /\ \A n \in 1..version'[f].rev : \E r \in feed' : r.e = f /\ r.ver.rev = n
               /\ Cardinality({r \in feed' : r.e = f}) = version'[f].rev
    <3>0. /\ version[f].rev = 0 => version[f] = Absent
          /\ \A n \in 1..version[f].rev : \E r \in feed : r.e = f /\ r.ver.rev = n
          /\ Cardinality({r \in feed : r.e = f}) = version[f].rev
      BY DEF SyncInv, RowsSound
    <3>1. CASE f # t.e
      <4>1. {r \in feed' : r.e = f} = {r \in feed : r.e = f}
        BY <1>2, <1>5, <3>1
      <4> QED
        BY <1>5, <1>7, <3>0, <3>1, <4>1
    <3>2. CASE f = t.e
      <4>1. version'[f].rev = version[f].rev + 1 /\ version[f].rev \in Nat
        BY <1>3, <1>7, <1>9, <3>2
      <4>2. ASSUME NEW n \in 1..version'[f].rev PROVE \E r \in feed' : r.e = f /\ r.ver.rev = n
        <5>1. CASE n \in 1..version[f].rev
          BY <1>5, <3>0, <5>1
        <5>2. CASE n = version[f].rev + 1
          BY <1>2, <1>3, <1>5, <3>2, <5>2
        <5> QED
          BY <4>1, <5>1, <5>2
      <4>3. PICK R : R = {r \in feed : r.e = f}
        OBVIOUS
      <4>4. IsFiniteSet(R) /\ x \notin R
        BY <1>4, <1>6, <4>3, FS_Subset
      <4>5. {r \in feed' : r.e = f} = R \cup {x}
        BY <1>2, <1>5, <3>2, <4>3
      <4>6. Cardinality(R \cup {x}) = Cardinality(R) + 1
        BY <4>4, FS_AddElement
      <4>7. Cardinality({r \in feed' : r.e = f}) = version'[f].rev
        BY <3>0, <4>1, <4>3, <4>5, <4>6
      <4>8. version'[f].rev # 0
        BY <4>1
      <4> QED
        BY <4>2, <4>7, <4>8
    <3> QED
      BY <3>1, <3>2
  <2> QED
    BY <1>5, <2>1, <2>2, <2>3, <2>4 DEF RowsSound
<1> QED
  BY <1>1, <1>2, <1>4, <1>5, <1>7, <1>8, <1>11

LEMMA CommitAgent ==
  ASSUME SyncInv, NEW t \in open, Commit(t)
  PROVE  /\ OpsGrow /\ DOMAIN ops' \subseteq Operation /\ \A o \in DOMAIN ops' : ops'[o] \in Result
         /\ DOMAIN ops' \subseteq DOMAIN ops \cup {t.op}
         /\ \A o \in DOMAIN ops' : o \notin DOMAIN ops =>
               o = t.op /\ t.op[2] # 0 /\ ops'[o] = [status |-> "applied", ver |-> t.ver]
         /\ agent' \in [Devices -> AgentRecord] /\ CycleSound'
         /\ \A b \in Devices :
              /\ agent'[b].noted = agent[b].noted /\ agent'[b].rows = agent[b].rows
              /\ agent'[b].pc = "apply" <=> agent[b].pc = "apply"
<1>0. SyncTypes /\ agent \in [Devices -> AgentRecord] /\ t \in Tx /\ t.ver \in Version
  BY DEF SyncInv, SyncTypes, Tx
<1>u. outbox' = outbox /\ lcur' = lcur /\ open' = open \ {t}
  BY DEF Commit, deviceVars
<1>1. t.op[2] # 0 => t.op \in Operation /\ t.op \notin DOMAIN ops
  BY DEF SyncInv, PushSound
<1>2. PICK y : y = [status |-> "applied", ver |-> t.ver]
  OBVIOUS
<1>3. y \in Result
  BY <1>0, <1>2 DEF Result
<1>4. /\ OpsGrow /\ DOMAIN ops' \subseteq Operation /\ \A o \in DOMAIN ops' : ops'[o] \in Result
      /\ DOMAIN ops' \subseteq DOMAIN ops \cup {t.op}
      /\ \A o \in DOMAIN ops' : o \notin DOMAIN ops => o = t.op /\ t.op[2] # 0 /\ ops'[o] = y
      /\ t.op[2] # 0 => t.op \in DOMAIN ops'
  <2>1. CASE t.op[2] = 0
    <3>1. ops' = ops
      BY <2>1 DEF Commit
    <3> QED
      BY <1>0, <2>1, <3>1, OpsSame DEF SyncTypes
  <2>2. CASE t.op[2] # 0
    <3>1. Recorded(t.op, y)
      BY <1>2, <2>2 DEF Commit
    <3>2. /\ OpsGrow /\ DOMAIN ops' = DOMAIN ops \cup {t.op} /\ ops'[t.op] = y
          /\ DOMAIN ops' \subseteq Operation /\ \A p \in DOMAIN ops' : ops'[p] \in Result
      BY <1>0, <1>1, <1>3, <2>2, <3>1, RecordedOps
    <3> QED
      BY <2>2, <3>2
  <2> QED
    BY <2>1, <2>2
<1>5. ASSUME NEW b, NEW c \in Nat, Started(b, c)' PROVE Started(b, c)
  BY <1>4, <1>5, <1>u DEF Started
<1>6. CASE ~Awaiting(t)
  <2>1. agent' = agent
    BY <1>6 DEF Commit
  <2>2. CycleSound'
    <3> SUFFICES ASSUME NEW b \in Devices PROVE CycleAt(b)'
      BY DEF CycleSound
    <3>1. CycleAt(b)
      BY DEF SyncInv, CycleSound
    <3> QED
      BY <1>4, <1>5, <1>u, <2>1, <3>1, CycleOther
  <2> QED
    BY <1>0, <1>2, <1>4, <2>1, <2>2
<1>7. CASE Awaiting(t)
  <2>1. PICK d \in Devices : d = t.op[1]
    BY <1>1, <1>7 DEF Awaiting, Operation
  <2>2. Serving(d) /\ OpOf(d) = t.op /\ Returned(d) /\ OpOf(d) \in DOMAIN ops'
    BY <1>4, <1>7, <2>1 DEF Awaiting, Commit
  <2>3. /\ agent' = [agent EXCEPT ![d] = agent'[d]]
        /\ agent'[d] \in AgentRecord /\ agent'[d].noted = agent[d].noted
        /\ agent'[d].rows = agent[d].rows /\ agent'[d].pc # "apply" /\ agent[d].pc # "apply"
        /\ CycleAt(d)'
    BY <1>4, <1>5, <1>u, <2>2, ReturnedCycle
  <2>4. agent' \in [Devices -> AgentRecord] /\ \A b \in Devices : b # d => agent'[b] = agent[b]
    BY <1>0, <2>3
  <2>5. CycleSound'
    <3> SUFFICES ASSUME NEW b \in Devices, b # d PROVE CycleAt(b)'
      BY <2>3 DEF CycleSound
    <3>1. CycleAt(b) /\ agent'[b] = agent[b]
      BY <2>4 DEF SyncInv, CycleSound
    <3> QED
      BY <1>4, <1>5, <1>u, <3>1, CycleOther
  <2> QED
    BY <1>2, <1>4, <2>3, <2>4, <2>5
<1> QED
  BY <1>6, <1>7

LEMMA CommitInv ==
  ASSUME SyncInv, NEW t \in open, Commit(t) PROVE SyncInv'
<1>0. /\ SyncTypes /\ RowsSound /\ TxSound /\ PushSound /\ ReplacedSound /\ OpsSound
      /\ EditsSound /\ CycleSound /\ PageSound /\ CopySound
  BY DEF SyncInv
<1>u. UNCHANGED <<drawn, copy, outbox, lcur, rcur, conf, scene, stamp, cuts>> /\ open' = open \ {t}
  BY DEF Commit, deviceVars
<1>1. PICK x : x = [cursor |-> t.cursor, e |-> t.e, ver |-> t.ver, op |-> t.op, on |-> t.on]
  OBVIOUS
<1>2. /\ x \in Row /\ x \notin feed /\ feed' = feed \cup {x}
      /\ x.cursor = t.cursor /\ x.e = t.e /\ x.ver = t.ver /\ x.op = t.op /\ x.on = t.on
      /\ t \in Tx /\ t.e \in Entities /\ version' \in [Entities -> Version] /\ version'[t.e] = t.ver
      /\ \A f \in Entities : f # t.e => version'[f] = version[f]
      /\ IsFiniteSet(feed') /\ RowsSound'
  BY <1>1, CommitRows
<1>3. /\ OpsGrow /\ DOMAIN ops' \subseteq Operation /\ \A o \in DOMAIN ops' : ops'[o] \in Result
      /\ DOMAIN ops' \subseteq DOMAIN ops \cup {t.op}
      /\ \A o \in DOMAIN ops' : o \notin DOMAIN ops =>
            o = t.op /\ t.op[2] # 0 /\ ops'[o] = [status |-> "applied", ver |-> t.ver]
      /\ agent' \in [Devices -> AgentRecord] /\ CycleSound'
      /\ \A b \in Devices :
           /\ agent'[b].noted = agent[b].noted /\ agent'[b].rows = agent[b].rows
           /\ agent'[b].pc = "apply" <=> agent[b].pc = "apply"
  BY CommitAgent
<1>4. /\ t.cursor <= drawn /\ t.ver.rev = version[t.e].rev + 1 /\ version[t.e].rev \in Nat
      /\ \A r \in feed : r.cursor # t.cursor /\ (r.e = t.e => r.cursor < t.cursor)
      /\ \A b \in Devices : rcur[b] # t.cursor
      /\ t.cursor \in Nat /\ \A b \in Devices : rcur[b] \in Nat
      /\ \A r \in feed : r.cursor \in Nat /\ r.e \in Entities /\ r.ver.rev \in Nat
  BY <1>0, <1>2 DEF TxSound, SyncTypes, Tx, Version, Row
<1>5. /\ passed \subseteq passed'
      /\ \A b \in Devices : Beyond(b, t.cursor) => <<b, t.e>> \in passed'
  BY DEF Commit
<1>6. SyncTypes'
  BY <1>0, <1>2, <1>3, <1>u DEF SyncTypes
<1>7. TxSound'
  <2>1. ASSUME NEW u \in open' PROVE u \in open /\ u.e # t.e /\ u.cursor # t.cursor /\ u.e \in Entities
    BY <1>0, <1>u DEF TxSound, SyncTypes, Tx
  <2>2. ASSUME NEW u \in open'
        PROVE /\ u.cursor <= drawn /\ u.ver.rev = version'[u.e].rev + 1
              /\ \A r \in feed' : r.cursor # u.cursor /\ (r.e = u.e => r.cursor < u.cursor)
              /\ \A b \in Devices : rcur[b] # u.cursor
    BY <1>0, <1>2, <2>1 DEF TxSound
  <2>3. \A u, w \in open' : u.e = w.e \/ u.cursor = w.cursor => u = w
    BY <1>0, <2>1 DEF TxSound
  <2>4. \A b \in Devices : rcur[b] <= drawn
    BY <1>0 DEF TxSound
  <2> QED
    BY <1>u, <2>2, <2>3, <2>4 DEF TxSound
<1>8. ASSUME NEW o \in Operation, NEW f, AfterConflict(o, f) PROVE AfterConflict(o, f)'
  BY <1>3, <1>8, <1>u DEF AfterConflict, OpsGrow
<1>9. PushSound'
  <2> SUFFICES ASSUME NEW u \in open', u.op[2] # 0
               PROVE  /\ u.op \in Operation /\ u.op \notin DOMAIN ops' /\ u.op[2] <= Len(outbox[u.op[1]])
                      /\ outbox[u.op[1]][u.op[2]].e = u.e /\ Same(outbox[u.op[1]][u.op[2]].ver, u.ver)
                      /\ Same(u.on, version'[u.e]) \/ AfterConflict(u.op, u.e)'
    BY <1>u DEF PushSound, Same
  <2>1. u \in open /\ u.e \in Entities /\ u.e # t.e
    BY <1>0, <1>u DEF SyncTypes, Tx, TxSound
  <2>2. /\ u.op \in Operation /\ u.op \notin DOMAIN ops /\ u.op[2] <= Len(outbox[u.op[1]])
        /\ outbox[u.op[1]][u.op[2]].e = u.e /\ Same(outbox[u.op[1]][u.op[2]].ver, u.ver)
        /\ Same(u.on, version[u.e]) \/ AfterConflict(u.op, u.e)
    BY <1>0, <2>1 DEF PushSound
  <2>3. u.op # t.op
    BY <1>0, <2>1, <2>2 DEF PushSound
  <2>4. u.op \notin DOMAIN ops'
    BY <1>3, <2>2, <2>3
  <2>5. version'[u.e] = version[u.e]
    BY <1>2, <2>1
  <2> QED
    BY <1>8, <2>2, <2>4, <2>5
<1>10. ReplacedSound'
  <2> SUFFICES ASSUME NEW r \in feed', r.op[2] # 0
               PROVE  \/ AfterConflict(r.op, r.e)'
                      \/ r.ver.rev = 1 /\ Same(r.on, Absent)
                      \/ r.ver.rev > 1 /\ \A q \in feed' : q.e = r.e /\ q.ver.rev = r.ver.rev - 1 => Same(r.on, q.ver)
    BY DEF ReplacedSound, Same
  <2>1. r.op \in Operation
    BY <1>0, <1>2 DEF SyncTypes, Row, ServerOp
  <2>2. CASE r \in feed
    <3>1. \/ AfterConflict(r.op, r.e)
          \/ r.ver.rev = 1 /\ Same(r.on, Absent)
          \/ r.ver.rev > 1 /\ \A q \in feed : q.e = r.e /\ q.ver.rev = r.ver.rev - 1 => Same(r.on, q.ver)
      BY <1>0, <2>2 DEF ReplacedSound
    <3>2. r.e = t.e => r.ver.rev <= version[t.e].rev
      BY <1>0, <1>4, <2>2 DEF RowsSound
    <3>3. ~(x.e = r.e /\ x.ver.rev = r.ver.rev - 1)
      BY <1>2, <1>4, <2>2, <3>2
    <3> QED
      BY <1>2, <1>8, <2>1, <3>1, <3>3
  <2>3. CASE r = x
    <3>1. Same(t.on, version[t.e]) \/ AfterConflict(t.op, t.e)
      BY <1>0, <1>2, <2>3 DEF PushSound
    <3>2. CASE AfterConflict(t.op, t.e)
      BY <1>2, <1>8, <2>1, <2>3, <3>2
    <3>3. CASE Same(t.on, version[t.e]) /\ version[t.e].rev = 0
      <4>1. version[t.e] = Absent /\ t.ver.rev = 1
        <5>1. version[t.e] = Absent
          BY <1>0, <1>2, <3>3 DEF RowsSound
        <5> QED
          BY <1>4, <3>3, <5>1
      <4> QED
        BY <1>2, <2>3, <3>3, <4>1
    <3>4. CASE Same(t.on, version[t.e]) /\ version[t.e].rev # 0
      <4>1. t.ver.rev > 1 /\ t.ver.rev - 1 = version[t.e].rev
        BY <1>4, <3>4
      <4>2. ASSUME NEW q \in feed', q.e = t.e, q.ver.rev = version[t.e].rev PROVE Same(t.on, q.ver)
        <5>1. q \in feed
          BY <1>2, <1>4, <4>2
        <5>2. q.ver = version[t.e]
          BY <1>0, <4>2, <5>1 DEF RowsSound
        <5> QED
          BY <3>4, <5>2
      <4> QED
        BY <1>2, <2>3, <4>1, <4>2
    <3> QED
      BY <3>1, <3>2, <3>3, <3>4
  <2> QED
    BY <1>2, <2>2, <2>3
<1>11. ASSUME NEW b \in Devices, NEW f, NEW n, NotBehind(b, f, n), <<b, f>> \notin passed'
       PROVE  NotBehind(b, f, n)'
  <2>1. ~(x.e = f /\ x.cursor <= rcur[b])
    BY <1>2, <1>4, <1>5, <1>11 DEF Beyond
  <2> QED
    BY <1>2, <1>11, <1>u, <2>1 DEF NotBehind
<1>12. OpsSound'
  <2> SUFFICES ASSUME NEW o \in DOMAIN ops', NEW b, NEW c, NEW r,
                      b = o[1], c = outbox'[b][o[2]], r = ops'[o]
               PROVE  /\ o[2] <= Len(outbox[b])
                      /\ Known(c.e, r.ver)'
                      /\ r.status = "applied" => Same(r.ver, c.ver)
                      /\ o[2] > lcur[b] /\ <<b, c.e>> \notin passed' => NotBehind(b, c.e, r.ver.rev)'
    BY <1>u DEF OpsSound, Known, NotBehind, Same
  <2>1. b = o[1] /\ c = outbox[b][o[2]] /\ r = ops'[o]
    BY <1>u
  <2>2. b \in Devices
    BY <1>3, <2>1 DEF Operation
  <2>3. CASE o \in DOMAIN ops
    <3>1. /\ o[2] <= Len(outbox[b]) /\ Known(c.e, r.ver) /\ (r.status = "applied" => Same(r.ver, c.ver))
          /\ o[2] > lcur[b] /\ <<b, c.e>> \notin passed => NotBehind(b, c.e, r.ver.rev)
      BY <1>0, <1>3, <2>1, <2>3 DEF OpsSound, OpsGrow
    <3>2. Known(c.e, r.ver)'
      BY <1>2, <3>1, KnownGrows
    <3>3. o[2] > lcur[b] /\ <<b, c.e>> \notin passed' => NotBehind(b, c.e, r.ver.rev)'
      BY <1>5, <1>11, <2>2, <3>1
    <3> QED
      BY <2>1, <3>1, <3>2, <3>3
  <2>4. CASE o \notin DOMAIN ops
    <3>1. o = t.op /\ t.op[2] # 0 /\ r.status = "applied" /\ r.ver = t.ver
      BY <1>3, <2>1, <2>4
    <3>2. o[2] <= Len(outbox[b]) /\ c.e = t.e /\ Same(c.ver, t.ver)
      BY <1>0, <2>1, <3>1 DEF PushSound
    <3>3. Known(t.e, t.ver)'
      <4>1. t.ver.rev # 0
        BY <1>4
      <4>2. x \in feed' /\ x.e = t.e /\ Same(x.ver, t.ver)
        BY <1>2 DEF Same
      <4> QED
        BY <4>1, <4>2 DEF Known
    <3>4. NotBehind(b, t.e, t.ver.rev)'
      BY <1>2 DEF RowsSound, NotBehind
    <3>5. Same(t.ver, c.ver)
      BY <3>2 DEF Same
    <3> QED
      BY <2>1, <3>1, <3>2, <3>3, <3>4, <3>5
  <2> QED
    BY <2>3, <2>4
<1>13. EditsSound'
  BY <1>0, <1>2, <1>u, EditsKept
<1>14. PageSound'
  <2> SUFFICES ASSUME NEW b \in Devices PROVE PageAt(b)'
    BY DEF PageSound
  <2>1. PageAt(b)
    BY <1>0 DEF PageSound
  <2>2. ASSUME NEW p \in agent[b].rows, rcur[b] < t.cursor, t.cursor <= p.cursor PROVE <<b, t.e>> \in passed'
    <3>1. p \in feed
      BY <2>1 DEF PageAt
    <3>2. p.cursor > t.cursor
      BY <1>4, <2>2, <3>1
    <3> QED
      BY <1>5, <3>2 DEF Beyond
  <2> QED
    BY <1>2, <1>3, <1>5, <1>u, <2>1, <2>2 DEF PageAt
<1>15. CopySound'
  <2> SUFFICES ASSUME NEW b \in Devices, NEW f \in Entities PROVE CopyAt(b, f)'
    BY DEF CopySound
  <2>1. CopyAt(b, f)
    BY <1>0 DEF CopySound
  <2>2. PICK th, cp : th = conf[b][f].theirs /\ cp = copy[b][f]
    OBVIOUS
  <2>3. Known(f, th) => Known(f, th)'
    BY <1>2, KnownGrows
  <2>4. Known(f, cp) => Known(f, cp)'
    BY <1>2, KnownGrows
  <2>5. <<b, f>> \notin passed' => /\ NotBehind(b, f, th.rev) => NotBehind(b, f, th.rev)'
                                   /\ NotBehind(b, f, cp.rev) => NotBehind(b, f, cp.rev)'
    BY <1>11
  <2>6. UpToDate(b, f) /\ <<b, f>> \notin passed' => UpToDate(b, f)'
    BY <1>u, <2>2, <2>4, <2>5 DEF UpToDate
  <2>7. \A k \in {0, 1} : Unacked(b, f, k) => Unacked(b, f, k)'
    BY <1>u DEF Unacked
  <2>8. conf[b][f].open => Known(f, conf[b][f].theirs)'
    BY <1>u, <2>1, <2>2, <2>3 DEF CopyAt, Known
  <2>9. <<b, f>> \notin passed' => /\ <<b, f>> \notin passed
                                   /\ conf[b][f].open => NotBehind(b, f, conf[b][f].theirs.rev)'
    BY <1>5, <1>u, <2>1, <2>2, <2>5 DEF CopyAt, NotBehind
  <2> QED
    BY <1>3, <1>u, <2>1, <2>6, <2>7, <2>8, <2>9 DEF CopyAt
<1> QED
  BY <1>2, <1>3, <1>6, <1>7, <1>9, <1>10, <1>12, <1>13, <1>14, <1>15 DEF SyncInv

LEMMA RollbackInv ==
  ASSUME SyncInv, NEW t \in open, Rollback(t) PROVE SyncInv'
<1>0. /\ SyncTypes /\ RowsSound /\ TxSound /\ PushSound /\ ReplacedSound /\ OpsSound
      /\ EditsSound /\ CycleSound /\ PageSound /\ CopySound
  BY DEF SyncInv
<1>u. UNCHANGED <<version, feed, drawn, ops, copy, outbox, lcur, rcur, conf, passed, scene, stamp>>
      /\ open' = open \ {t} /\ cuts' = cuts + 1
  BY DEF Rollback, deviceVars
<1>1. PICK I \in SUBSET Devices : agent' = [b \in Devices |-> IF b \in I THEN NoCycle ELSE agent[b]]
  <2>1. agent \in [Devices -> AgentRecord]
    BY <1>0 DEF SyncTypes
  <2>2. CASE ~Awaiting(t)
    <3>1. agent' = agent
      BY <2>2 DEF Rollback
    <3>2. agent' = [b \in Devices |-> IF b \in {} THEN NoCycle ELSE agent[b]]
      BY <2>1, <3>1
    <3>3. {} \in SUBSET Devices
      OBVIOUS
    <3> QED
      BY <3>2, <3>3, Zenon
  <2>3. CASE Awaiting(t)
    <3>1. t.op[1] \in Devices
      BY <1>0, <2>3 DEF Awaiting, PushSound, Operation
    <3>2. agent' = [b \in Devices |-> IF b \in {t.op[1]} THEN NoCycle ELSE agent[b]]
      BY <2>1, <2>3, <3>1 DEF Rollback
    <3> QED
      BY <3>1, <3>2
  <2> QED
    BY <2>2, <2>3
<1>2. \A b \in Devices : agent'[b] = agent[b] \/ agent'[b] = NoCycle
  BY <1>1
<1>3. SyncTypes'
  <2>1. agent' \in [Devices -> AgentRecord]
    BY <1>0, <1>1, NoCycleFacts DEF SyncTypes
  <2> QED
    BY <1>0, <1>u, <2>1 DEF SyncTypes
<1>4. TxSound'
  BY <1>0, <1>u DEF TxSound
<1>5. OpsGrow
  BY <1>u, OpsSame
<1>6. PushSound'
  BY <1>0, <1>5, <1>u, PushKept
<1>7. \A b, c : Started(b, c)' => Started(b, c)
  BY <1>u DEF Started
<1>8. CycleSound'
  <2> SUFFICES ASSUME NEW b \in Devices PROVE CycleAt(b)'
    BY DEF CycleSound
  <2>1. CycleAt(b)
    BY <1>0 DEF CycleSound
  <2>2. CASE agent'[b] = agent[b]
    BY <1>5, <1>7, <1>u, <2>1, <2>2, CycleOther
  <2>3. CASE agent'[b] = NoCycle
    BY <1>7, <1>u, <2>3, EndedCycle
  <2> QED
    BY <1>2, <2>2, <2>3
<1>9. PageSound'
  <2> SUFFICES ASSUME NEW b \in Devices PROVE PageAt(b)'
    BY DEF PageSound
  <2>1. PageAt(b)
    BY <1>0 DEF PageSound
  <2> QED
    BY <1>2, <1>u, <2>1, NoCycleFacts DEF PageAt
<1>10. \A b \in Devices : agent'[b].noted => agent[b].noted
  BY <1>2, NoCycleFacts
<1> QED
  BY <1>0, <1>3, <1>4, <1>5, <1>6, <1>8, <1>9, <1>10, <1>u, RowsKept, ReplacedKept, OpsKept, EditsKept, CopyKept
  DEF SyncInv
-----------------------------------------------------------------------------
\* Steps that change what a device shows, or its conflicts.
LEMMA EditsSet ==
  ASSUME EditsSound, feed' = feed, outbox' = outbox,
         \A b \in Devices, f \in Entities : copy'[b][f] = copy[b][f] \/ Known(f, copy'[b][f])
  PROVE  EditsSound'
<1>1. ASSUME NEW d, NEW e, NEW v, NEW n, Origin(d, e, v, n)
      PROVE  Origin(d, e, v, n)'
  BY <1>1 DEF Origin, Known
<1>2. ASSUME NEW b \in Devices, NEW i \in 1..Len(outbox[b])
      PROVE  (LET c == outbox[b][i]
              IN c.ver.rev = c.on.rev + 1 /\ Origin(b, c.e, c.on, i - 1))'
  <2>1. PICK c : c = outbox[b][i]
    OBVIOUS
  <2>2. c.ver.rev = c.on.rev + 1 /\ Origin(b, c.e, c.on, i - 1)
    BY <2>1 DEF EditsSound
  <2>3. Origin(b, c.e, c.on, i - 1)'
    BY <1>1, <2>2
  <2> QED
    BY <2>1, <2>2, <2>3 DEF Origin, Known
<1>3. ASSUME NEW b \in Devices, NEW f \in Entities
      PROVE  Origin(b, f, copy[b][f], Len(outbox[b]))'
  <2>1. PICK v, n : v = copy'[b][f] /\ n = Len(outbox[b])
    OBVIOUS
  <2>2. Origin(b, f, v, n)
    BY <2>1 DEF EditsSound, Origin
  <2>3. Origin(b, f, v, n)'
    BY <1>1, <2>2
  <2> QED
    BY <2>1, <2>3 DEF Origin, Known
<1> QED
  BY <1>2, <1>3 DEF EditsSound

LEMMA CopyAtKept ==
  ASSUME NEW b, NEW f, CopyAt(b, f), UNCHANGED <<feed, outbox, lcur, passed>>,
         copy'[b][f] = copy[b][f], conf'[b][f] = conf[b][f],
         \A r \in feed : r.e = f /\ r.cursor <= rcur'[b] => r.cursor <= rcur[b] \/ <<b, f>> \in passed,
         agent'[b].noted /\ outbox[b][lcur[b] + 1].e = f => agent[b].noted
  PROVE  CopyAt(b, f)'
<1>1. ASSUME NEW n, NotBehind(b, f, n), <<b, f>> \notin passed PROVE NotBehind(b, f, n)'
  BY <1>1 DEF NotBehind
<1>2. PICK th, cp : th = conf[b][f].theirs /\ cp = copy[b][f]
  OBVIOUS
<1>3. <<b, f>> \notin passed => /\ NotBehind(b, f, th.rev) => NotBehind(b, f, th.rev)'
                                /\ NotBehind(b, f, cp.rev) => NotBehind(b, f, cp.rev)'
  BY <1>1
<1>4. (conf[b][f].open => Known(f, conf[b][f].theirs))'
  BY DEF CopyAt, Known
<1>5. <<b, f>> \notin passed => (conf[b][f].open => NotBehind(b, f, conf[b][f].theirs.rev))'
  BY <1>2, <1>3 DEF CopyAt, NotBehind
<1>6. UpToDate(b, f) /\ <<b, f>> \notin passed => UpToDate(b, f)'
  BY <1>2, <1>3 DEF UpToDate, Known, NotBehind
<1>7. \A k \in {0, 1} : Unacked(b, f, k) => Unacked(b, f, k)'
  BY DEF Unacked
<1>8. /\ <<b, f>> \notin passed => conf[b][f].open \/ UpToDate(b, f) \/ Unacked(b, f, 0)
      /\ <<b, f>> \notin passed /\ agent[b].noted /\ outbox[b][lcur[b] + 1].e = f =>
           conf[b][f].open \/ UpToDate(b, f) \/ Unacked(b, f, 1)
  BY DEF CopyAt
<1> QED
  BY <1>4, <1>5, <1>6, <1>7, <1>8 DEF CopyAt

\* A conflict opened, or a version of the server shown, that is not behind
\* what the device has read.
LEMMA CopyAtSet ==
  ASSUME NEW b, NEW f, NEW v, Known(f, v), UNCHANGED <<feed, passed>>,
         <<b, f>> \notin passed => NotBehind(b, f, v.rev)',
         \/ conf'[b][f].open /\ conf'[b][f].theirs = v
         \/ ~conf'[b][f].open /\ copy'[b][f] = v
  PROVE  CopyAt(b, f)'
<1>1. CASE conf'[b][f].open /\ conf'[b][f].theirs = v
  BY <1>1 DEF CopyAt, Known, NotBehind
<1>2. CASE ~conf'[b][f].open /\ copy'[b][f] = v
  <2>1. <<b, f>> \notin passed => UpToDate(b, f)'
    BY <1>2 DEF UpToDate, Known, NotBehind
  <2> QED
    BY <1>2, <2>1 DEF CopyAt
<1> QED
  BY <1>1, <1>2

\* The version a device takes from the server is the server's, but for the
\* payload of a tombstone.
LEMMA RemoteWritten ==
  ASSUME NEW mine \in Version, NEW v \in Version
  PROVE  /\ write_remote_entity(mine, v) \in Version /\ Same(write_remote_entity(mine, v), v)
         /\ write_remote_entity(mine, v).rev = v.rev
BY DEF write_remote_entity, Same, Version

LEMMA KnownSame ==
  ASSUME NEW e, NEW v \in Version, NEW w \in Version, Known(e, v), Same(w, v), v.rev # 0
  PROVE  Known(e, w)
BY DEF Known, Same, Version

LEMMA UseRemoteInv ==
  ASSUME SyncInv, NEW d \in Devices, NEW e \in Entities, use_remote(d, e) PROVE SyncInv'
<1>0. /\ SyncTypes /\ RowsSound /\ TxSound /\ PushSound /\ ReplacedSound /\ OpsSound
      /\ EditsSound /\ CycleSound /\ PageSound /\ CopySound
  BY DEF SyncInv
<1>u. UNCHANGED <<version, feed, drawn, open, ops, outbox, lcur, rcur, agent, passed, scene, stamp, cuts>>
  BY DEF use_remote, feedVars
<1>1. PICK th, w : th = conf[d][e].theirs /\ w = write_remote_entity(copy[d][e], conf[d][e].theirs)
  OBVIOUS
<1>2. conf[d][e].open /\ copy' = [copy EXCEPT ![d][e] = w] /\ conf' = [conf EXCEPT ![d][e] = NoConflict]
  BY <1>1 DEF use_remote
<1>3. th \in Version /\ copy[d][e] \in Version
  BY <1>0, <1>1 DEF SyncTypes, Side
<1>4. w \in Version /\ Same(w, th) /\ w.rev = th.rev
  BY <1>1, <1>3, RemoteWritten
<1>5. Known(e, th) /\ (<<d, e>> \notin passed => NotBehind(d, e, th.rev))
  BY <1>0, <1>1, <1>2 DEF CopySound, CopyAt
<1>6. NoConflict \in Side /\ ~NoConflict.open
  BY DEF NoConflict, Side, Absent, Version
<1>7. /\ copy' \in [Devices -> [Entities -> Version]] /\ copy'[d][e] = w
      /\ \A b \in Devices, f \in Entities : ~(b = d /\ f = e) => copy'[b][f] = copy[b][f]
  BY <1>0, <1>2, <1>4 DEF SyncTypes
<1>8. /\ conf' \in [Devices -> [Entities -> Side]] /\ conf'[d][e] = NoConflict
      /\ \A b \in Devices, f \in Entities : ~(b = d /\ f = e) => conf'[b][f] = conf[b][f]
  BY <1>0, <1>2, <1>6 DEF SyncTypes
<1>9. SyncTypes'
  BY <1>0, <1>7, <1>8, <1>u DEF SyncTypes
<1>10. Known(e, w)
  <2>1. CASE th.rev # 0
    BY <1>3, <1>4, <1>5, <2>1, KnownSame
  <2>2. CASE th.rev = 0
    <3>1. th = Absent
      BY <1>5, <2>2 DEF Known
    <3>2. w = Absent
      BY <1>1, <3>1 DEF write_remote_entity, Absent
    <3> QED
      BY <3>2 DEF Known, Absent
  <2> QED
    BY <2>1, <2>2
<1>11. EditsSound'
  BY <1>0, <1>7, <1>10, <1>u, EditsSet
<1>12. CopySound'
  <2> SUFFICES ASSUME NEW b \in Devices, NEW f \in Entities PROVE CopyAt(b, f)'
    BY DEF CopySound
  <2>1. CASE b = d /\ f = e
    <3>1. <<d, e>> \notin passed => NotBehind(d, e, w.rev)'
      BY <1>4, <1>5, <1>u DEF NotBehind
    <3> QED
      BY <1>6, <1>7, <1>8, <1>10, <1>u, <2>1, <3>1, CopyAtSet
  <2>2. CASE ~(b = d /\ f = e)
    <3>1. CopyAt(b, f) /\ copy'[b][f] = copy[b][f] /\ conf'[b][f] = conf[b][f]
      BY <1>0, <1>7, <1>8, <2>2 DEF CopySound
    <3> QED
      BY <1>u, <3>1, CopyAtKept
  <2> QED
    BY <2>1, <2>2
<1>13. OpsGrow
  BY <1>u, OpsSame
<1>14. CycleSound'
  BY <1>0, <1>u DEF CycleSound, CycleAt, Started
<1> QED
  BY <1>0, <1>9, <1>11, <1>12, <1>13, <1>14, <1>u, RowsKept, TxKept, PushKept, ReplacedKept, OpsKept, PageKept
  DEF SyncInv

\* The two outcomes of apply_remote.
LEMMA RemoteApplied ==
  ASSUME SyncInv, NEW d \in Devices, NEW e \in Entities, NEW v \in Version, apply_remote(d, e, v)
  PROVE  /\ copy' \in [Devices -> [Entities -> Version]] /\ conf' \in [Devices -> [Entities -> Side]]
         /\ \A b \in Devices, f \in Entities :
              ~(b = d /\ f = e) => copy'[b][f] = copy[b][f] /\ conf'[b][f] = conf[b][f]
         /\ \/ /\ conf'[d][e].open /\ conf'[d][e].theirs = v /\ copy'[d][e] = copy[d][e]
            \/ /\ ~PendingLocal(d, e) /\ ~conf[d][e].open /\ ~conf'[d][e].open
               /\ copy'[d][e] = IF copy[d][e].rev > v.rev THEN copy[d][e]
                                ELSE write_remote_entity(copy[d][e], v)
<1>0. copy \in [Devices -> [Entities -> Version]] /\ conf \in [Devices -> [Entities -> Side]]
  BY DEF SyncInv, SyncTypes
<1>1. copy[d][e] \in Version
  BY <1>0
<1>2. CASE PendingLocal(d, e) \/ conf[d][e].open \/ Diverged(copy[d][e], v)
  <2>1. PICK s : s = [open |-> TRUE, mine |-> copy[d][e], theirs |-> v]
    OBVIOUS
  <2>2. s \in Side /\ s.open /\ s.theirs = v
    BY <1>1, <2>1 DEF Side
  <2>3. conf' = [conf EXCEPT ![d][e] = s] /\ copy' = copy
    BY <1>2, <2>1 DEF apply_remote
  <2>4. /\ conf' \in [Devices -> [Entities -> Side]] /\ conf'[d][e] = s
        /\ \A b \in Devices, f \in Entities : ~(b = d /\ f = e) => conf'[b][f] = conf[b][f]
    BY <1>0, <2>2, <2>3
  <2> QED
    BY <1>0, <2>2, <2>3, <2>4
<1>3. CASE ~(PendingLocal(d, e) \/ conf[d][e].open \/ Diverged(copy[d][e], v))
  <2>1. PICK w : w = IF copy[d][e].rev > v.rev THEN copy[d][e] ELSE write_remote_entity(copy[d][e], v)
    OBVIOUS
  <2>2. w \in Version
    BY <1>1, <2>1, RemoteWritten
  <2>3. copy' = [copy EXCEPT ![d][e] = w] /\ conf' = conf
    BY <1>3, <2>1 DEF apply_remote
  <2>4. /\ copy' \in [Devices -> [Entities -> Version]] /\ copy'[d][e] = w
        /\ \A b \in Devices, f \in Entities : ~(b = d /\ f = e) => copy'[b][f] = copy[b][f]
    BY <1>0, <2>2, <2>3
  <2> QED
    BY <1>0, <1>3, <2>1, <2>3, <2>4
<1> QED
  BY <1>2, <1>3

\* The change a cycle acknowledges next.
LEMMA AckedChange ==
  ASSUME SyncInv, NEW d \in Devices, agent[d].pc = "ack"
  PROVE  /\ lcur[d] \in Nat /\ Len(outbox[d]) \in Nat /\ agent[d].last \in Nat
         /\ lcur[d] < agent[d].last /\ agent[d].at = agent[d].last
         /\ agent[d].last <= Len(outbox[d]) /\ agent[d].last <= lcur[d] + PageSize
         /\ lcur[d] + 1 \in 1..Len(outbox[d]) /\ outbox[d][lcur[d] + 1] \in Change
         /\ Acked(d) \in DOMAIN ops /\ ops[Acked(d)] \in Result
         /\ Known(outbox[d][lcur[d] + 1].e, ops[Acked(d)].ver)
         /\ ops[Acked(d)].status = "applied" => Same(ops[Acked(d)].ver, outbox[d][lcur[d] + 1].ver)
         /\ <<d, outbox[d][lcur[d] + 1].e>> \notin passed =>
              NotBehind(d, outbox[d][lcur[d] + 1].e, ops[Acked(d)].ver.rev)
<1>1. /\ agent[d] \in AgentRecord /\ lcur[d] \in Nat /\ outbox[d] \in Seq(Change) /\ CycleAt(d)
  BY DEF SyncInv, SyncTypes, CycleSound
<1>2. agent[d].at \in Nat /\ agent[d].last \in Nat /\ Len(outbox[d]) \in Nat
  BY <1>1 DEF AgentRecord
<1>3. /\ lcur[d] < agent[d].last /\ agent[d].at = agent[d].last
      /\ agent[d].last <= Len(outbox[d]) /\ agent[d].last <= lcur[d] + PageSize
      /\ \A c \in (lcur[d] + 1)..agent[d].at : <<d, c>> \in DOMAIN ops
  BY <1>1 DEF CycleAt
<1>4. lcur[d] + 1 \in 1..Len(outbox[d]) /\ lcur[d] + 1 \in (lcur[d] + 1)..agent[d].at
  BY <1>1, <1>2, <1>3
<1>5. outbox[d][lcur[d] + 1] \in Change
  BY <1>1, <1>4
<1>6. PICK o : o = Acked(d)
  OBVIOUS
<1>7. o \in DOMAIN ops /\ o[1] = d /\ o[2] = lcur[d] + 1 /\ o[2] > lcur[d]
  BY <1>1, <1>3, <1>4, <1>6 DEF Acked
<1>8. /\ Known(outbox[d][lcur[d] + 1].e, ops[o].ver) /\ ops[o] \in Result
      /\ ops[o].status = "applied" => Same(ops[o].ver, outbox[d][lcur[d] + 1].ver)
      /\ <<d, outbox[d][lcur[d] + 1].e>> \notin passed => NotBehind(d, outbox[d][lcur[d] + 1].e, ops[o].ver.rev)
  BY <1>7 DEF SyncInv, OpsSound, SyncTypes
<1> QED
  BY <1>1, <1>2, <1>3, <1>4, <1>5, <1>6, <1>7, <1>8

LEMMA AckConflictInv ==
  ASSUME SyncInv, NEW d \in Devices, AckConflict(d) PROVE SyncInv'
<1>0. /\ SyncTypes /\ RowsSound /\ TxSound /\ PushSound /\ ReplacedSound /\ OpsSound
      /\ EditsSound /\ CycleSound /\ PageSound /\ CopySound
  BY DEF SyncInv
<1>u. UNCHANGED <<version, feed, drawn, open, ops, outbox, lcur, rcur, passed, scene, stamp, cuts>>
  BY DEF AckConflict, feedVars
<1>1. PICK e, v : e = outbox[d][lcur[d] + 1].e /\ v = ops[Acked(d)].ver
  OBVIOUS
<1>2. agent[d].pc = "ack" /\ apply_remote(d, e, v) /\ agent' = [agent EXCEPT ![d].noted = TRUE]
  BY <1>1 DEF AckConflict
<1>3. /\ e \in Entities /\ v \in Version /\ Known(e, v) /\ (<<d, e>> \notin passed => NotBehind(d, e, v.rev))
      /\ lcur[d] + 1 \in (lcur[d] + 1)..Len(outbox[d]) /\ lcur[d] + 1 \in 1..Len(outbox[d])
  BY <1>1, <1>2, AckedChange DEF Change, Result
<1>4. PendingLocal(d, e)
  BY <1>1, <1>3 DEF PendingLocal
<1>5. /\ copy' \in [Devices -> [Entities -> Version]] /\ conf' \in [Devices -> [Entities -> Side]]
      /\ \A b \in Devices, f \in Entities :
           ~(b = d /\ f = e) => copy'[b][f] = copy[b][f] /\ conf'[b][f] = conf[b][f]
      /\ conf'[d][e].open /\ conf'[d][e].theirs = v /\ copy'[d][e] = copy[d][e]
  BY <1>2, <1>3, <1>4, RemoteApplied
<1>6. agent \in [Devices -> AgentRecord]
  BY <1>0 DEF SyncTypes
<1>7. PICK a : a = [agent[d] EXCEPT !.noted = TRUE]
  OBVIOUS
<1>8. /\ a \in AgentRecord /\ a.noted /\ a.pc = "ack" /\ a.at = agent[d].at /\ a.last = agent[d].last
      /\ a.rows = agent[d].rows
  BY <1>2, <1>6, <1>7 DEF AgentRecord
<1>9. /\ agent' \in [Devices -> AgentRecord] /\ agent'[d] = a
      /\ \A b \in Devices : b # d => agent'[b] = agent[b]
  BY <1>2, <1>6, <1>7, <1>8
<1>10. SyncTypes'
  BY <1>0, <1>5, <1>9, <1>u DEF SyncTypes
<1>11. EditsSound'
  BY <1>0, <1>5, <1>u, EditsSet
<1>12. CopySound'
  <2> SUFFICES ASSUME NEW b \in Devices, NEW f \in Entities PROVE CopyAt(b, f)'
    BY DEF CopySound
  <2>1. CASE b = d /\ f = e
    <3>1. <<d, e>> \notin passed => NotBehind(d, e, v.rev)'
      BY <1>3, <1>u DEF NotBehind
    <3> QED
      BY <1>3, <1>5, <1>u, <2>1, <3>1, CopyAtSet
  <2>2. CASE ~(b = d /\ f = e)
    <3>1. CopyAt(b, f) /\ copy'[b][f] = copy[b][f] /\ conf'[b][f] = conf[b][f]
      BY <1>0, <1>5, <2>2 DEF CopySound
    <3>2. agent'[b].noted /\ outbox[b][lcur[b] + 1].e = f => agent[b].noted
      BY <1>1, <1>9, <2>2
    <3> QED
      BY <1>u, <3>1, <3>2, CopyAtKept
  <2> QED
    BY <2>1, <2>2
<1>13. CycleSound'
  <2> SUFFICES ASSUME NEW b \in Devices PROVE CycleAt(b)'
    BY DEF CycleSound
  <2>1. CycleAt(b)
    BY <1>0 DEF CycleSound
  <2>2. CASE b # d
    BY <1>9, <1>u, <2>1, <2>2 DEF CycleAt, Started
  <2>3. CASE b = d
    BY <1>2, <1>8, <1>9, <1>u, <2>1, <2>3 DEF CycleAt, Started
  <2> QED
    BY <2>2, <2>3
<1>14. PageSound'
  <2> SUFFICES ASSUME NEW b \in Devices PROVE PageAt(b)'
    BY DEF PageSound
  <2>1. PageAt(b) /\ agent'[b].rows = agent[b].rows /\ agent'[b].pc = agent[b].pc
    BY <1>0, <1>2, <1>8, <1>9 DEF PageSound
  <2> QED
    BY <1>u, <2>1 DEF PageAt
<1>15. OpsGrow
  BY <1>u, OpsSame
<1> QED
  BY <1>0, <1>10, <1>11, <1>12, <1>13, <1>14, <1>15, <1>u, RowsKept, TxKept, PushKept, ReplacedKept, OpsKept
  DEF SyncInv

LEMMA AckLocalInv ==
  ASSUME SyncInv, NEW d \in Devices, AckLocal(d) PROVE SyncInv'
<1>0. /\ SyncTypes /\ RowsSound /\ TxSound /\ PushSound /\ ReplacedSound /\ OpsSound
      /\ EditsSound /\ CycleSound /\ PageSound /\ CopySound
  BY DEF SyncInv
<1>u. UNCHANGED <<version, feed, drawn, open, ops, copy, outbox, rcur, conf, passed, scene, stamp, cuts>>
  BY DEF AckLocal, feedVars
<1>1. PICK l, m : l = lcur[d] /\ m = agent[d].last
  OBVIOUS
<1>2. PICK c, o : c = outbox[d][l + 1] /\ o = ops[Acked(d)]
  OBVIOUS
<1>3. agent[d].pc = "ack" /\ (o.status = "conflict" => agent[d].noted) /\ lcur' = [lcur EXCEPT ![d] = l + 1]
  BY <1>1, <1>2 DEF AckLocal
<1>4. /\ l \in Nat /\ Len(outbox[d]) \in Nat /\ m \in Nat /\ l < m /\ agent[d].at = m
      /\ m <= Len(outbox[d]) /\ m <= l + PageSize /\ Acked(d) \in DOMAIN ops /\ o \in Result
      /\ Known(c.e, o.ver) /\ (o.status = "applied" => Same(o.ver, c.ver))
      /\ <<d, c.e>> \notin passed => NotBehind(d, c.e, o.ver.rev)
      /\ c \in Change /\ PageSize \in Nat
  BY <1>1, <1>2, <1>3, AckedChange, SyncAssumption DEF SyncAssumption
<1>5. lcur' \in [Devices -> Nat] /\ lcur'[d] = l + 1 /\ \A b \in Devices : b # d => lcur'[b] = lcur[b]
  BY <1>0, <1>3, <1>4 DEF SyncTypes
<1>6. PICK a : a = IF l + 1 < m THEN [agent[d] EXCEPT !.noted = FALSE]
                   ELSE [NoCycle EXCEPT !.pc = IF agent[d].full THEN "idle" ELSE "pull"]
  OBVIOUS
<1>7. agent \in [Devices -> AgentRecord] /\ agent' = [agent EXCEPT ![d] = a]
  BY <1>0, <1>1, <1>6 DEF SyncTypes, AckLocal
<1>8. agent[d].rows = {}
  BY <1>0, <1>3 DEF PageSound, PageAt
<1>9. /\ a \in AgentRecord /\ ~a.noted /\ a.rows = {}
      /\ \/ l + 1 < m /\ a.pc = "ack" /\ a.at = m /\ a.last = m
         \/ l + 1 = m /\ a.pc \in {"idle", "pull"}
  <2>1. CASE l + 1 < m
    <3>1. a = [agent[d] EXCEPT !.noted = FALSE] /\ agent[d] \in AgentRecord
      BY <1>6, <1>7, <2>1
    <3> QED
      BY <1>1, <1>3, <1>4, <1>8, <2>1, <3>1 DEF AgentRecord
  <2>2. CASE ~(l + 1 < m)
    <3>1. l + 1 = m
      BY <1>4, <2>2
    <3>2. PICK pc \in {"idle", "pull"} : a = [NoCycle EXCEPT !.pc = pc]
      BY <1>6, <2>2
    <3> QED
      BY <3>1, <3>2 DEF NoCycle, AgentRecord
  <2> QED
    BY <2>1, <2>2
<1>10. /\ agent' \in [Devices -> AgentRecord] /\ agent'[d] = a
       /\ \A b \in Devices : b # d => agent'[b] = agent[b]
  BY <1>7, <1>9
<1>11. SyncTypes'
  BY <1>0, <1>5, <1>10, <1>u DEF SyncTypes
<1>12. OpsGrow
  BY <1>u, OpsSame
<1>13. OpsSound'
  <2>1. ASSUME NEW b \in Devices, NEW i \in Nat, i > lcur'[b] PROVE i > lcur[b]
    BY <1>1, <1>4, <1>5, <2>1
  <2>2. \A p \in DOMAIN ops : p[1] \in Devices /\ p[2] \in Nat
    BY <1>0 DEF SyncTypes, Operation
  <2> QED
    BY <1>0, <1>u, <2>1, <2>2 DEF OpsSound, Known, NotBehind, Same
<1>14. CycleSound'
  <2> SUFFICES ASSUME NEW b \in Devices PROVE CycleAt(b)'
    BY DEF CycleSound
  <2>1. CycleAt(b)
    BY <1>0 DEF CycleSound
  <2>2. CASE b # d
    BY <1>5, <1>10, <1>u, <2>1, <2>2 DEF CycleAt, Started
  <2>3. CASE b = d
    <3>1. ASSUME NEW i \in 1..(l + 1) PROVE <<d, i>> \in DOMAIN ops
      <4>1. CASE i = l + 1
        BY <1>1, <1>4, <4>1 DEF Acked
      <4>2. CASE i # l + 1
        <5>1. i \in 1..lcur[d]
          BY <1>1, <1>4, <4>2
        <5> QED
          BY <2>1, <2>3, <5>1 DEF CycleAt
      <4> QED
        BY <4>1, <4>2
    <3>2. ASSUME NEW i \in Nat, Started(d, i) PROVE i <= m
      BY <1>1, <1>3, <2>1, <2>3, <3>2 DEF CycleAt
    <3>3. \A i \in Nat : Started(d, i)' => Started(d, i)
      BY <1>u DEF Started
    <3>4. CASE l + 1 < m /\ a.pc = "ack" /\ a.at = m /\ a.last = m
      <4>1. ASSUME NEW i \in (l + 1 + 1)..m PROVE <<d, i>> \in DOMAIN ops
        <5>1. i \in (lcur[d] + 1)..agent[d].at
          BY <1>1, <1>4
        <5> QED
          BY <1>3, <2>1, <2>3, <5>1 DEF CycleAt
      <4>2. l + 1 <= Len(outbox[d]) /\ m <= l + 1 + PageSize
        BY <1>4
      <4> QED
        BY <1>4, <1>5, <1>9, <1>10, <1>u, <2>3, <3>1, <3>2, <3>3, <3>4, <4>1, <4>2 DEF CycleAt
    <3>5. CASE l + 1 = m /\ a.pc \in {"idle", "pull"}
      <4>1. l + 1 <= Len(outbox[d]) /\ m <= l + 1 + PageSize
        BY <1>4, <3>5
      <4>2. ASSUME NEW i \in Nat, Started(d, i) PROVE i <= l + 1 /\ i <= l + 1 + PageSize
        BY <1>4, <3>2, <3>5, <4>2
      <4> QED
        BY <1>5, <1>9, <1>10, <1>u, <2>3, <3>1, <3>3, <3>5, <4>1, <4>2 DEF CycleAt
    <3> QED
      BY <1>9, <3>4, <3>5
  <2> QED
    BY <2>2, <2>3
<1>15. PageSound'
  <2> SUFFICES ASSUME NEW b \in Devices PROVE PageAt(b)'
    BY DEF PageSound
  <2>1. PageAt(b)
    BY <1>0 DEF PageSound
  <2>2. CASE b # d
    BY <1>10, <1>u, <2>1, <2>2 DEF PageAt
  <2>3. CASE b = d
    BY <1>9, <1>10, <2>3 DEF PageAt
  <2> QED
    BY <2>2, <2>3
<1>16. CopySound'
  <2> SUFFICES ASSUME NEW b \in Devices, NEW f \in Entities PROVE CopyAt(b, f)'
    BY DEF CopySound
  <2>0. CopyAt(b, f)
    BY <1>0 DEF CopySound
  <2>1. (conf[b][f].open => Known(f, conf[b][f].theirs))'
    BY <1>u, <2>0 DEF CopyAt, Known
  <2>2. <<b, f>> \notin passed => (conf[b][f].open => NotBehind(b, f, conf[b][f].theirs.rev))'
    BY <1>u, <2>0 DEF CopyAt, NotBehind
  <2>3. UpToDate(b, f) => UpToDate(b, f)'
    BY <1>u DEF UpToDate, Known, NotBehind
  <2>4. CASE b # d
    <3>1. \A k \in {0, 1} : Unacked(b, f, k) => Unacked(b, f, k)'
      BY <1>5, <1>u, <2>4 DEF Unacked
    <3> QED
      BY <1>5, <1>10, <1>u, <2>0, <2>1, <2>2, <2>3, <2>4, <3>1 DEF CopyAt
  <2>5. CASE b = d
    <3>1. Unacked(b, f, 1) => Unacked(b, f, 0)'
      <4>1. (l + 1) + 0 + 1 = l + 1 + 1
        BY <1>4
      <4> QED
        BY <1>1, <1>5, <1>u, <2>5, <4>1 DEF Unacked
    <3>2. ASSUME <<b, f>> \notin passed, Unacked(b, f, 0), ~Unacked(b, f, 1)
          PROVE  conf[b][f].open \/ UpToDate(b, f)
      <4>1. PICK i \in (lcur[b] + 0 + 1)..Len(outbox[b]) : outbox[b][i].e = f /\ outbox[b][i].ver = copy[b][f]
        BY <3>2 DEF Unacked
      <4>2. i = l + 1
        <5>1. i \notin (lcur[b] + 1 + 1)..Len(outbox[b])
          BY <3>2, <4>1 DEF Unacked
        <5> QED
          BY <1>1, <1>4, <2>5, <5>1
      <4>3. c.e = f /\ c.ver = copy[b][f]
        BY <1>2, <2>5, <4>1, <4>2
      <4>4. CASE o.status = "applied"
        <5>1. Same(o.ver, copy[b][f]) /\ Known(f, o.ver) /\ NotBehind(b, f, o.ver.rev)
          BY <1>4, <2>5, <3>2, <4>3, <4>4
        <5>2. o.ver \in Version /\ copy[b][f] \in Version
          BY <1>0, <1>4 DEF Result, SyncTypes
        <5>3. o.ver.rev # 0
          <6>1. c.ver.rev = c.on.rev + 1 /\ c.on.rev \in Nat
            <7>1. l + 1 \in 1..Len(outbox[d])
              BY <1>4
            <7> QED
              BY <1>0, <1>2, <1>4, <7>1 DEF EditsSound, Change, Version
          <6> QED
            BY <4>3, <5>1, <6>1 DEF Same
        <5>4. Same(copy[b][f], o.ver)
          BY <5>1 DEF Same
        <5>5. Known(f, copy[b][f])
          BY <5>1, <5>2, <5>3, <5>4, KnownSame
        <5> QED
          BY <5>1, <5>5 DEF UpToDate, Same
      <4>5. CASE o.status = "conflict"
        <5>1. agent[b].noted /\ outbox[b][lcur[b] + 1].e = f
          BY <1>1, <1>2, <1>3, <2>5, <4>3, <4>5
        <5> QED
          BY <2>0, <3>2, <5>1 DEF CopyAt
      <4> QED
        BY <1>4, <4>4, <4>5 DEF Result
    <3>3. <<b, f>> \notin passed => conf[b][f].open \/ UpToDate(b, f) \/ Unacked(b, f, 0)
      BY <2>0 DEF CopyAt
    <3>4. <<b, f>> \notin passed => conf'[b][f].open \/ UpToDate(b, f)' \/ Unacked(b, f, 0)'
      BY <1>u, <2>3, <3>1, <3>2, <3>3
    <3>5. ~agent'[b].noted
      BY <1>9, <1>10, <2>5
    <3> QED
      BY <1>u, <2>1, <2>2, <3>4, <3>5 DEF CopyAt
  <2> QED
    BY <2>4, <2>5
<1> QED
  BY <1>0, <1>11, <1>12, <1>13, <1>14, <1>15, <1>16, <1>u, RowsKept, TxKept, PushKept, ReplacedKept, EditsKept
  DEF SyncInv

\* The device applies the next row of its page.  Its cursor moves over rows of
\* the page and over late commits only.
LEMMA PullApplyInv ==
  ASSUME SyncInv, NEW d \in Devices, PullApply(d) PROVE SyncInv'
<1>0. /\ SyncTypes /\ RowsSound /\ TxSound /\ PushSound /\ ReplacedSound /\ OpsSound
      /\ EditsSound /\ CycleSound /\ PageSound /\ CopySound
  BY DEF SyncInv
<1>1. PICK row \in agent[d].rows :
       /\ agent[d].pc = "apply"
       /\ \A r \in agent[d].rows : row.cursor <= r.cursor
       /\ apply_remote(d, row.e, row.ver)
       /\ rcur' = [rcur EXCEPT ![d] = IF @ > row.cursor THEN @ ELSE row.cursor]
       /\ agent' = [agent EXCEPT ![d] =
                      IF agent[d].rows # {row}
                      THEN [agent[d] EXCEPT !.rows = @ \ {row}]
                      ELSE [NoCycle EXCEPT !.pc = IF agent[d].full THEN "pull" ELSE "idle"]]
       /\ UNCHANGED <<feedVars, outbox, lcur, passed, scene, stamp, cuts>>
  BY DEF PullApply
<1>u. UNCHANGED <<version, feed, drawn, open, ops, outbox, lcur, passed, scene, stamp, cuts>>
  BY <1>1 DEF feedVars
<1>2. PICK e, v, k : e = row.e /\ v = row.ver /\ k = row.cursor
  OBVIOUS
<1>3. CycleAt(d) /\ PageAt(d) /\ agent[d] \in AgentRecord /\ agent \in [Devices -> AgentRecord]
  BY <1>0 DEF CycleSound, PageSound, SyncTypes
<1>4. /\ row \in feed /\ row \in Row /\ e \in Entities /\ v \in Version /\ k \in Nat /\ rcur[d] \in Nat
      /\ rcur[d] < k /\ lcur[d] \in Nat
      /\ \A r \in feed : r \in Row /\ r.cursor \in Nat /\ r.ver.rev \in Nat
  BY <1>0, <1>2, <1>3 DEF PageAt, SyncTypes, Row, Version
<1>5. rcur' \in [Devices -> Nat] /\ rcur'[d] = k /\ \A b \in Devices : b # d => rcur'[b] = rcur[b]
  BY <1>0, <1>1, <1>2, <1>4 DEF SyncTypes
<1>6. PICK a : a = IF agent[d].rows # {row} THEN [agent[d] EXCEPT !.rows = @ \ {row}]
                   ELSE [NoCycle EXCEPT !.pc = IF agent[d].full THEN "pull" ELSE "idle"]
  OBVIOUS
<1>7. ~agent[d].noted
  BY <1>1, <1>3 DEF CycleAt
<1>8. /\ a \in AgentRecord /\ ~a.noted /\ a.rows = agent[d].rows \ {row}
      /\ a.pc \in {"apply", "pull", "idle"} /\ (a.pc # "apply" => a.rows = {})
  <2>1. CASE agent[d].rows # {row}
    <3>1. PICK S : S = agent[d].rows \ {row}
      OBVIOUS
    <3>2. a = [agent[d] EXCEPT !.rows = S] /\ S \in SUBSET Row
      BY <1>3, <1>6, <2>1, <3>1 DEF AgentRecord
    <3>3. a \in AgentRecord /\ a.noted = agent[d].noted /\ a.rows = S /\ a.pc = agent[d].pc
      BY <1>3, <3>2 DEF AgentRecord
    <3> QED
      BY <1>1, <1>7, <3>1, <3>3
  <2>2. CASE agent[d].rows = {row}
    <3>1. PICK pc \in {"idle", "pull"} : a = [NoCycle EXCEPT !.pc = pc]
      BY <1>6, <2>2
    <3>2. a \in AgentRecord /\ ~a.noted /\ a.rows = {} /\ a.pc = pc
      BY <3>1 DEF NoCycle, AgentRecord
    <3> QED
      BY <2>2, <3>2
  <2> QED
    BY <2>1, <2>2
<1>9. /\ agent' \in [Devices -> AgentRecord] /\ agent'[d] = a
      /\ \A b \in Devices : b # d => agent'[b] = agent[b]
  BY <1>1, <1>3, <1>6, <1>8
<1>10. /\ copy' \in [Devices -> [Entities -> Version]] /\ conf' \in [Devices -> [Entities -> Side]]
       /\ \A b \in Devices, f \in Entities :
            ~(b = d /\ f = e) => copy'[b][f] = copy[b][f] /\ conf'[b][f] = conf[b][f]
       /\ \/ /\ conf'[d][e].open /\ conf'[d][e].theirs = v /\ copy'[d][e] = copy[d][e]
          \/ /\ ~PendingLocal(d, e) /\ ~conf[d][e].open /\ ~conf'[d][e].open
             /\ copy'[d][e] = IF copy[d][e].rev > v.rev THEN copy[d][e]
                              ELSE write_remote_entity(copy[d][e], v)
  BY <1>1, <1>2, <1>4, RemoteApplied
<1>11. SyncTypes'
  BY <1>0, <1>5, <1>9, <1>10, <1>u DEF SyncTypes
<1>12. TxSound'
  <2>1. k <= drawn /\ \A t \in open : k # t.cursor
    BY <1>0, <1>2, <1>4 DEF RowsSound, TxSound
  <2> QED
    BY <1>0, <1>5, <1>u, <2>1 DEF TxSound
<1>13. \A i \in Nat : Started(d, i) => i <= lcur[d]
  BY <1>1, <1>3 DEF CycleAt
<1>14. OpsSound'
  <2> SUFFICES ASSUME NEW o \in DOMAIN ops, NEW b, NEW c, NEW r,
                      b = o[1], c = outbox[b][o[2]], r = ops[o]
               PROVE  /\ o[2] <= Len(outbox[b])
                      /\ Known(c.e, r.ver)
                      /\ r.status = "applied" => Same(r.ver, c.ver)
                      /\ o[2] > lcur[b] /\ <<b, c.e>> \notin passed => NotBehind(b, c.e, r.ver.rev)'
    BY <1>u DEF OpsSound, Known, NotBehind, Same
  <2>1. b \in Devices /\ o[2] \in Nat /\ o = <<b, o[2]>>
    BY <1>0 DEF SyncTypes, Operation
  <2>2. /\ o[2] <= Len(outbox[b])
        /\ Known(c.e, r.ver)
        /\ r.status = "applied" => Same(r.ver, c.ver)
        /\ o[2] > lcur[b] /\ <<b, c.e>> \notin passed => NotBehind(b, c.e, r.ver.rev)
    BY <1>0 DEF OpsSound
  <2>3. CASE b = d
    <3>1. Started(d, o[2])
      BY <2>1, <2>3 DEF Started
    <3>2. ~(o[2] > lcur[b])
      BY <1>4, <1>13, <2>1, <2>3, <3>1
    <3> QED
      BY <2>2, <3>2
  <2>4. CASE b # d
    BY <1>5, <1>u, <2>1, <2>2, <2>4 DEF NotBehind
  <2> QED
    BY <2>3, <2>4
<1>15. CycleSound'
  <2> SUFFICES ASSUME NEW b \in Devices PROVE CycleAt(b)'
    BY DEF CycleSound
  <2>1. CycleAt(b)
    BY <1>0 DEF CycleSound
  <2>2. CASE b # d
    BY <1>9, <1>u, <2>1, <2>2 DEF CycleAt, Started
  <2>3. CASE b = d
    <3>1. \A i \in Nat : Started(d, i)' => i <= lcur[d] /\ i <= lcur[d] + PageSize
      BY <1>4, <1>13, <1>u, SyncAssumption DEF Started, SyncAssumption
    <3> QED
      BY <1>8, <1>9, <1>u, <2>1, <2>3, <3>1 DEF CycleAt
  <2> QED
    BY <2>2, <2>3
<1>16. PageSound'
  <2> SUFFICES ASSUME NEW b \in Devices PROVE PageAt(b)'
    BY DEF PageSound
  <2>1. PageAt(b)
    BY <1>0 DEF PageSound
  <2>2. CASE b # d
    BY <1>5, <1>9, <1>u, <2>1, <2>2 DEF PageAt
  <2>3. CASE b = d
    <3>1. ASSUME NEW p \in agent[d].rows \ {row}
          PROVE  /\ k < p.cursor
                 /\ \A r \in feed : k < r.cursor /\ r.cursor <= p.cursor =>
                      r \in agent[d].rows \ {row} \/ <<d, r.e>> \in passed
      <4>1. p \in feed /\ p.cursor \in Nat /\ k <= p.cursor /\ p # row
        BY <1>1, <1>2, <1>3, <1>4 DEF PageAt
      <4>2. k # p.cursor
        BY <1>0, <1>2, <1>4, <4>1 DEF RowsSound
      <4>3. ASSUME NEW r \in feed, k < r.cursor, r.cursor <= p.cursor
            PROVE  r \in agent[d].rows \ {row} \/ <<d, r.e>> \in passed
        <5>1. rcur[d] < r.cursor /\ r # row
          BY <1>2, <1>4, <4>3
        <5> QED
          BY <1>3, <4>3, <5>1 DEF PageAt
      <4> QED
        BY <1>4, <4>1, <4>2, <4>3
    <3> QED
      BY <1>3, <1>5, <1>8, <1>9, <1>u, <2>3, <3>1 DEF PageAt
  <2> QED
    BY <2>2, <2>3
<1>17. Known(e, v) /\ v.rev \in Nat
  <2>1. v.rev # 0 /\ v.rev \in Nat
    BY <1>0, <1>2, <1>4 DEF RowsSound, Version
  <2> QED
    BY <1>2, <1>4, <2>1 DEF Known, Same
<1>18. NotBehind(d, e, v.rev)'
  <2> SUFFICES ASSUME NEW r \in feed, r.e = e, r.cursor <= k PROVE r.ver.rev <= v.rev
    BY <1>5, <1>u DEF NotBehind
  <2>1. r = row \/ r.cursor < k
    BY <1>0, <1>2, <1>4 DEF RowsSound
  <2>2. r = row \/ r.ver.rev < v.rev
    BY <1>0, <1>2, <1>4, <2>1 DEF RowsSound
  <2> QED
    BY <1>2, <1>4, <1>17, <2>2
<1>19. /\ copy[d][e] \in Version
       /\ write_remote_entity(copy[d][e], v) \in Version /\ Same(write_remote_entity(copy[d][e], v), v)
       /\ write_remote_entity(copy[d][e], v).rev = v.rev
  BY <1>0, <1>4, RemoteWritten DEF SyncTypes
<1>20. v.rev # 0 /\ Known(e, write_remote_entity(copy[d][e], v))
  <2>1. v.rev # 0
    BY <1>0, <1>2, <1>4 DEF RowsSound
  <2> QED
    BY <1>4, <1>17, <1>19, <2>1, KnownSame
<1>21. EditsSound'
  BY <1>0, <1>10, <1>20, <1>u, EditsSet
<1>22. CopySound'
  <2> SUFFICES ASSUME NEW b \in Devices, NEW f \in Entities PROVE CopyAt(b, f)'
    BY DEF CopySound
  <2>0. CopyAt(b, f)
    BY <1>0 DEF CopySound
  <2>1. CASE b = d /\ f = e /\ conf'[d][e].open /\ conf'[d][e].theirs = v
    BY <1>17, <1>18, <1>u, <2>1, CopyAtSet
  <2>2. CASE b = d /\ f = e /\ ~PendingLocal(d, e) /\ ~conf[d][e].open /\ ~conf'[d][e].open
    <3>1. CASE copy[d][e].rev > v.rev
      <4>1. copy'[d][e] = copy[d][e]
        BY <1>10, <2>2, <3>1
      <4>2. <<d, e>> \notin passed => ~Unacked(d, e, 0)
        <5>1. lcur[d] + 0 + 1 = lcur[d] + 1
          BY <1>4
        <5> QED
          BY <2>2, <5>1 DEF Unacked, PendingLocal
      <4>3. <<d, e>> \notin passed => UpToDate(d, e)
        BY <2>0, <2>2, <4>2 DEF CopyAt
      <4>4. PICK w \in Version : w = copy[d][e]
        BY <1>19
      <4>5. <<d, e>> \notin passed => Known(e, w) /\ NotBehind(d, e, w.rev)'
        <5>1. NotBehind(d, e, w.rev)'
          <6>1. w.rev \in Nat /\ v.rev < w.rev
            BY <1>17, <3>1, <4>4 DEF Version
          <6> QED
            BY <1>4, <1>17, <1>18, <1>u, <6>1 DEF NotBehind
        <5> QED
          BY <4>3, <4>4, <5>1 DEF UpToDate
      <4>6. <<d, e>> \notin passed => UpToDate(d, e)'
        BY <1>u, <4>1, <4>4, <4>5 DEF UpToDate, Known, NotBehind
      <4> QED
        BY <1>u, <2>2, <4>6 DEF CopyAt
    <3>2. CASE ~(copy[d][e].rev > v.rev)
      <4>1. PICK w : w = write_remote_entity(copy[d][e], v)
        OBVIOUS
      <4>2. copy'[d][e] = w
        BY <1>10, <2>2, <3>2, <4>1
      <4>3. w.rev = v.rev /\ Known(e, w)
        BY <1>19, <1>20, <4>1
      <4>4. NotBehind(d, e, w.rev)'
        BY <1>18, <4>3 DEF NotBehind
      <4> QED
        BY <1>u, <2>2, <4>2, <4>3, <4>4, CopyAtSet
    <3> QED
      BY <3>1, <3>2
  <2>3. CASE ~(b = d /\ f = e)
    <3>1. copy'[b][f] = copy[b][f] /\ conf'[b][f] = conf[b][f]
      BY <1>10, <2>3
    <3>2. agent'[b].noted => agent[b].noted
      BY <1>8, <1>9
    <3>3. ASSUME NEW r \in feed, r.e = f, r.cursor <= rcur'[b], ~(r.cursor <= rcur[b])
          PROVE  <<b, f>> \in passed
      <4>1. b = d /\ r.cursor <= k
        BY <1>5, <3>3
      <4>2. r \in agent[d].rows \/ <<d, r.e>> \in passed
        BY <1>2, <1>3, <1>4, <3>3, <4>1 DEF PageAt
      <4>3. r \notin agent[d].rows
        <5>1. SUFFICES ASSUME r \in agent[d].rows PROVE FALSE
          OBVIOUS
        <5>2. r.cursor = k
          BY <1>1, <1>2, <1>4, <4>1, <5>1
        <5>3. r = row
          BY <1>0, <1>2, <1>4, <5>2 DEF RowsSound
        <5> QED
          BY <1>2, <2>3, <3>3, <4>1, <5>3
      <4> QED
        BY <3>3, <4>1, <4>2, <4>3
    <3> QED
      BY <1>u, <2>0, <3>1, <3>2, <3>3, CopyAtKept
  <2> QED
    BY <1>10, <2>1, <2>2, <2>3
<1>23. OpsGrow
  BY <1>u, OpsSame
<1> QED
  BY <1>0, <1>11, <1>12, <1>14, <1>15, <1>16, <1>21, <1>22, <1>23, <1>u, RowsKept, PushKept, ReplacedKept
  DEF SyncInv

-----------------------------------------------------------------------------
\* The user's edits and settled conflicts.
LEMMA WriteInv ==
  ASSUME SyncInv, NEW d \in Devices, NEW e \in Entities, write_daemon_entity(d, e) PROVE SyncInv'
<1>1. copy[d][e] \in Version /\ stamp \in Nat /\ stamp' = stamp + 1 /\ Origin(d, e, copy[d][e], Len(outbox[d]))
  BY DEF SyncInv, SyncTypes, EditsSound, write_daemon_entity
<1>2. PICK v, on : v = [rev |-> copy[d][e].rev + 1, val |-> stamp', dead |-> FALSE] /\ on = copy[d][e]
  OBVIOUS
<1>3. v \in Version /\ on \in Version /\ v.rev = on.rev + 1 /\ Origin(d, e, on, Len(outbox[d]))
  BY <1>1, <1>2 DEF Version
<1>4. /\ Written(d, e, v, on) /\ conf' = conf /\ stamp' \in Nat
      /\ UNCHANGED <<feedVars, lcur, rcur, agent, passed, scene, cuts>>
  BY <1>1, <1>2 DEF write_daemon_entity
<1> QED
  BY <1>3, <1>4, WrittenInv

LEMMA TombstoneInv ==
  ASSUME SyncInv, NEW d \in Devices, NEW e \in Entities, tombstone_daemon_entity(d, e) PROVE SyncInv'
<1>1. copy[d][e] \in Version /\ stamp \in Nat /\ stamp' = stamp + 1 /\ Origin(d, e, copy[d][e], Len(outbox[d]))
  BY DEF SyncInv, SyncTypes, EditsSound, tombstone_daemon_entity
<1>2. PICK v, on : v = [copy[d][e] EXCEPT !.rev = @ + 1, !.dead = TRUE] /\ on = copy[d][e]
  OBVIOUS
<1>3. v \in Version /\ on \in Version /\ v.rev = on.rev + 1 /\ Origin(d, e, on, Len(outbox[d]))
  <2>1. on \in Version /\ on.rev + 1 \in Nat
    BY <1>1, <1>2 DEF Version
  <2>2. PICK n \in Nat : n = on.rev + 1
    BY <2>1
  <2>3. v = [on EXCEPT !.rev = n, !.dead = TRUE]
    BY <1>2, <2>2
  <2>4. v \in Version /\ v.rev = n
    BY <2>1, <2>3 DEF Version
  <2> QED
    BY <1>1, <1>2, <2>1, <2>2, <2>4
<1>4. /\ Written(d, e, v, on) /\ conf' = conf /\ stamp' \in Nat
      /\ UNCHANGED <<feedVars, lcur, rcur, agent, passed, scene, cuts>>
  BY <1>1, <1>2 DEF tombstone_daemon_entity
<1> QED
  BY <1>3, <1>4, WrittenInv

LEMMA KeepLocalInv ==
  ASSUME SyncInv, NEW d \in Devices, NEW e \in Entities, keep_local(d, e) PROVE SyncInv'
<1>1. PICK mine, on : mine = conf[d][e].mine /\ on = conf[d][e].theirs
  OBVIOUS
<1>2. conf[d][e].open /\ mine \in Version /\ on \in Version /\ stamp \in Nat
  BY <1>1 DEF SyncInv, SyncTypes, Side, keep_local
<1>3. PICK v : v = [mine EXCEPT !.rev = on.rev + 1]
  OBVIOUS
<1>4. v \in Version /\ v.rev = on.rev + 1
  BY <1>2, <1>3 DEF Version
<1>5. Origin(d, e, on, Len(outbox[d]))
  BY <1>1, <1>2 DEF SyncInv, CopySound, CopyAt, Origin
<1>6. /\ Written(d, e, v, on) /\ conf' = [conf EXCEPT ![d][e] = NoConflict] /\ stamp' \in Nat
      /\ UNCHANGED <<feedVars, lcur, rcur, agent, passed, scene, cuts>>
  BY <1>1, <1>2, <1>3 DEF keep_local
<1> QED
  BY <1>2, <1>4, <1>5, <1>6, WrittenInv

LEMMA SyncStep ==
  ASSUME SyncInv, [SyncNext]_syncVars PROVE SyncInv'
<1>0. scene \in Scene
  BY DEF SyncInv, SyncTypes
<1>1. ASSUME NEW d \in Devices, Cycle(d) PROVE SyncInv'
  BY <1>1, PushStartInv, PushReplayInv, PushRefusedInv, PushConflictInv, PushFailedInv, PushBeginInv,
     AckConflictInv, AckLocalInv, PullInv, PullApplyInv DEF Cycle
<1>2. ASSUME NEW d \in Devices, Interrupted(d) PROVE SyncInv'
  BY <1>2, InterruptedInv
<1>3. ASSUME NEW w \in scene.edits, EditEntity(w[1], w[2]) PROVE SyncInv'
  <2>1. w[1] \in Devices /\ w[2] \in Entities
    BY <1>0 DEF Scene
  <2> QED
    BY <1>3, <2>1, WriteInv, TombstoneInv DEF EditEntity
<1>4. ASSUME NEW d \in Devices, NEW e \in Entities, ResolveConflict(d, e) PROVE SyncInv'
  BY <1>4, UseRemoteInv, KeepLocalInv DEF ResolveConflict
<1>5. ASSUME NEW e \in scene.publishes, ServerWrite(e) PROVE SyncInv'
  <2>1. e \in Entities
    BY <1>0 DEF Scene
  <2> QED
    BY <1>5, <2>1, PublishEntityInv, PublishTombstoneInv DEF ServerWrite
<1>6. ASSUME NEW t \in open, Commit(t) \/ Rollback(t) PROVE SyncInv'
  BY <1>6, CommitInv, RollbackInv
<1>7. CASE UNCHANGED syncVars
  <2>u. /\ UNCHANGED <<version, feed, drawn, open, ops, copy, outbox, lcur, rcur, conf, agent, passed>>
        /\ UNCHANGED <<scene, stamp, cuts>>
    BY <1>7 DEF syncVars, feedVars, deviceVars
  <2>1. /\ SyncTypes /\ RowsSound /\ TxSound /\ PushSound /\ ReplacedSound /\ OpsSound
        /\ EditsSound /\ CycleSound /\ PageSound /\ CopySound
    BY DEF SyncInv
  <2>2. SyncTypes' /\ CycleSound'
    BY <2>1, <2>u DEF SyncTypes, CycleSound, CycleAt, Started
  <2>3. OpsGrow
    BY <2>u, OpsSame
  <2> QED
    BY <2>1, <2>2, <2>3, <2>u, RowsKept, TxKept, PushKept, ReplacedKept, OpsKept, EditsKept, PageKept, CopyKept
    DEF SyncInv
<1> QED
  BY <1>1, <1>2, <1>3, <1>4, <1>5, <1>6, <1>7 DEF SyncNext

\* At the start the feed has the shared entities, each once, and every device
\* has read it.
LEMMA SyncStart ==
  ASSUME SyncInit PROVE SyncInv
<1> DEFINE n == Cardinality(Shared)
           one == [rev |-> 1, val |-> 0, dead |-> FALSE]
           first == [e \in Entities |-> IF e \in Shared THEN one ELSE Absent]
<1>2. IsFiniteSet(Shared) /\ n \in Nat /\ Shared \subseteq Entities
  BY SyncAssumption, FS_Subset, FS_CardinalityType DEF SyncAssumption
<1>4. /\ one \in Version /\ Absent \in Version /\ one.rev = 1 /\ Absent.rev = 0
      /\ NoConflict \in Side /\ ~NoConflict.open
  BY DEF Version, Absent, NoConflict, Side
<1> HIDE DEF one
<1>6. /\ first \in [Entities -> Version]
      /\ \A e \in Shared : first[e] = one
      /\ \A e \in Entities \ Shared : first[e] = Absent
  BY <1>2, <1>4
<1>7. /\ version = first
      /\ \E order \in Bijection(1..n, Shared) :
            feed = {[cursor |-> i, e |-> order[i], ver |-> first[order[i]],
                     op |-> ServerOp, on |-> Absent] : i \in 1..n}
      /\ drawn = n /\ open = {} /\ ops = [o \in {} |-> 0]
      /\ copy = [d \in Devices |-> first]
      /\ outbox = [d \in Devices |-> <<>>]
      /\ lcur = [d \in Devices |-> 0]
      /\ rcur = [d \in Devices |-> n]
      /\ conf = [d \in Devices |-> [e \in Entities |-> NoConflict]]
      /\ agent = [d \in Devices |-> NoCycle]
      /\ passed = {} /\ scene \in Scenes /\ stamp = 0 /\ cuts = 0
  BY DEF SyncInit, one
<1> HIDE DEF n, first
<1>8. PICK order \in Bijection(1..n, Shared) :
            feed = {[cursor |-> i, e |-> order[i], ver |-> first[order[i]],
                     op |-> ServerOp, on |-> Absent] : i \in 1..n}
  BY <1>7
<1>9. /\ order \in [1..n -> Shared]
      /\ \A i, j \in 1..n : order[i] = order[j] => i = j
      /\ \A e \in Shared : \E i \in 1..n : order[i] = e
  BY DEF Bijection, Injection, Surjection, IsInjective
<1>10. PICK row : row = [i \in 1..n |-> [cursor |-> i, e |-> order[i], ver |-> one, op |-> ServerOp, on |-> Absent]]
  OBVIOUS
<1>11. \A i \in 1..n : /\ row[i] = [cursor |-> i, e |-> order[i], ver |-> one, op |-> ServerOp, on |-> Absent]
                       /\ order[i] \in Shared /\ first[order[i]] = one
  BY <1>6, <1>9, <1>10
<1>12. \A i \in 1..n : /\ row[i] \in Row /\ row[i].cursor = i /\ row[i].e = order[i] /\ row[i].ver = one
                       /\ row[i].op = ServerOp
  <2> SUFFICES ASSUME NEW i \in 1..n
               PROVE  /\ row[i] \in Row /\ row[i].cursor = i /\ row[i].e = order[i] /\ row[i].ver = one
                      /\ row[i].op = ServerOp
    OBVIOUS
  <2>1. order[i] \in Shared /\ order[i] \in Entities
    BY <1>2, <1>11
  <2>2. i \in Nat \ {0}
    BY <1>2
  <2> QED
    <3>1. PICK f \in Entities, j \in Nat \ {0} : f = order[i] /\ j = i
      BY <2>1, <2>2
    <3>2. row[i] = [cursor |-> j, e |-> f, ver |-> one, op |-> ServerOp, on |-> Absent]
      BY <1>11, <3>1
    <3>3. /\ row[i] \in Row /\ row[i].cursor = j /\ row[i].e = f /\ row[i].ver = one
          /\ row[i].op = ServerOp
      BY <1>4, <3>2 DEF Row
    <3> QED
      BY <3>1, <3>3
<1>13. feed = {row[i] : i \in 1..n}
  BY <1>8, <1>11
<1>14a. ASSUME NEW r \in feed PROVE r.e \in Shared
  <2>1. PICK i \in 1..n : r = row[i]
    BY <1>13
  <2> QED
    BY <1>11, <1>12, <2>1
<1>14. IsFiniteSet(feed)
  <2>1. row \in Surjection(1..n, feed)
    BY <1>10, <1>13 DEF Surjection
  <2>2. IsFiniteSet(1..n)
    BY <1>2, FS_Interval
  <2> QED
    BY <2>1, <2>2, FS_Surjection
<1>15. SyncTypes
  <2>1. feed \subseteq Row
    BY <1>12, <1>13
  <2>2. copy \in [Devices -> [Entities -> Version]] /\ conf \in [Devices -> [Entities -> Side]]
    BY <1>4, <1>6, <1>7
  <2>3. outbox \in [Devices -> Seq(Change)]
    BY <1>7
  <2>4. agent \in [Devices -> AgentRecord]
    BY <1>7, NoCycleFacts
  <2>5. scene \in Scene
    BY <1>7, SyncAssumption DEF SyncAssumption
  <2> QED
    BY <1>2, <1>6, <1>7, <1>14, <2>1, <2>2, <2>3, <2>4, <2>5 DEF SyncTypes
<1>16. RowsSound
  <2>1. ASSUME NEW r \in feed
        PROVE  /\ r.cursor <= drawn
               /\ r.ver.rev \in 1..version[r.e].rev
               /\ r.ver.rev = version[r.e].rev => r.ver = version[r.e]
    <3>1. PICK i \in 1..n : r = row[i]
      BY <1>13
    <3>2. r.ver = one /\ version[r.e] = one /\ r.cursor = i
      BY <1>7, <1>11, <1>12, <3>1
    <3> QED
      BY <1>2, <1>4, <1>7, <3>2
  <2>2. \A r, q \in feed : r.cursor = q.cursor => r = q
    BY <1>12, <1>13
  <2>3. ASSUME NEW r \in feed, NEW q \in feed, r.e = q.e, r.cursor < q.cursor
        PROVE  r.ver.rev < q.ver.rev
    <3>1. PICK i \in 1..n, j \in 1..n : r = row[i] /\ q = row[j]
      BY <1>13
    <3>2. i = j
      BY <1>9, <1>12, <2>3, <3>1
    <3> QED
      BY <1>12, <2>3, <3>1, <3>2
  <2>4. ASSUME NEW e \in Shared
        PROVE  /\ version[e].rev = 1
               /\ \A k \in 1..1 : \E r \in feed : r.e = e /\ r.ver.rev = k
               /\ Cardinality({r \in feed : r.e = e}) = 1
    <3>1. PICK i \in 1..n : order[i] = e
      BY <1>9
    <3>2. {r \in feed : r.e = e} = {row[i]}
      BY <1>9, <1>12, <1>13, <3>1
    <3>3. row[i] \in feed /\ row[i].e = e /\ row[i].ver.rev = 1
      BY <1>4, <1>12, <1>13, <3>1
    <3>4. \A k \in 1..1 : k = 1
      OBVIOUS
    <3> QED
      BY <1>4, <1>6, <1>7, <3>2, <3>3, <3>4, FS_Singleton
  <2>5. ASSUME NEW e \in Entities \ Shared
        PROVE  /\ version[e] = Absent
               /\ Cardinality({r \in feed : r.e = e}) = 0
    <3>1. {r \in feed : r.e = e} = {}
      BY <1>14a
    <3> QED
      BY <1>6, <1>7, <3>1, FS_EmptySet
  <2>6. ASSUME NEW e \in Entities
        PROVE  /\ version[e].rev = 0 => version[e] = Absent
               /\ \A k \in 1..version[e].rev : \E r \in feed : r.e = e /\ r.ver.rev = k
               /\ Cardinality({r \in feed : r.e = e}) = version[e].rev
    <3>1. CASE e \in Shared
      BY <2>4, <3>1
    <3>2. CASE e \notin Shared
      BY <1>4, <2>5, <3>2
    <3> QED
      BY <3>1, <3>2
  <2> QED
    BY <2>1, <2>2, <2>3, <2>6 DEF RowsSound
<1>17. TxSound /\ PushSound
  BY <1>2, <1>7 DEF TxSound, PushSound
<1>18. ReplacedSound
  <2>1. \A r \in feed : r.op[2] = 0
    BY <1>12, <1>13 DEF ServerOp
  <2> QED
    BY <2>1 DEF ReplacedSound
<1>19. DOMAIN ops = {} /\ OpsSound
  BY <1>7 DEF OpsSound
<1>20. ASSUME NEW e \in Entities PROVE Known(e, first[e]) /\ \A d : NotBehind(d, e, first[e].rev)
  <2>1. CASE e \in Shared
    <3>1. PICK i \in 1..n : order[i] = e
      BY <1>9, <2>1
    <3>2. row[i] \in feed /\ row[i].e = e /\ Same(row[i].ver, first[e]) /\ first[e].rev = 1
      BY <1>4, <1>6, <1>12, <1>13, <2>1, <3>1 DEF Same
    <3>3. \A r \in feed : r.ver.rev <= 1
      BY <1>4, <1>12, <1>13
    <3> QED
      BY <3>2, <3>3 DEF Known, NotBehind
  <2>2. CASE e \notin Shared
    <3>1. \A r \in feed : r.e # e
      BY <1>14a, <2>2
    <3> QED
      BY <1>4, <1>6, <2>2, <3>1 DEF Known, NotBehind
  <2> QED
    BY <2>1, <2>2
<1>21. EditsSound
  <2>1. \A d \in Devices : Len(outbox[d]) = 0
    BY <1>7
  <2>2. \A d \in Devices, e \in Entities : Origin(d, e, copy[d][e], Len(outbox[d]))
    BY <1>7, <1>20 DEF Origin
  <2> QED
    BY <2>1, <2>2 DEF EditsSound
<1>22. CycleSound
  <2> SUFFICES ASSUME NEW d \in Devices PROVE CycleAt(d)
    BY DEF CycleSound
  <2>1. lcur[d] = 0 /\ Len(outbox[d]) = 0 /\ agent[d] = NoCycle
    BY <1>7
  <2>2. \A c \in Nat : ~Started(d, c)
    BY <1>7, <1>19 DEF Started
  <2> QED
    BY <2>1, <2>2, NoCycleFacts DEF CycleAt
<1>23. PageSound
  BY <1>7, NoCycleFacts DEF PageSound, PageAt
<1>24. CopySound
  <2> SUFFICES ASSUME NEW d \in Devices, NEW e \in Entities PROVE CopyAt(d, e)
    BY DEF CopySound
  <2>1. ~conf[d][e].open /\ ~agent[d].noted
    BY <1>4, <1>7, NoCycleFacts
  <2>2. UpToDate(d, e)
    BY <1>7, <1>20 DEF UpToDate
  <2> QED
    BY <2>1, <2>2 DEF CopyAt
<1> QED
  BY <1>15, <1>16, <1>17, <1>18, <1>19, <1>21, <1>22, <1>23, <1>24 DEF SyncInv

-----------------------------------------------------------------------------
LEMMA RevisionRow ==
  ASSUME SyncInv, NEW e \in Entities, NEW n \in 1..version[e].rev
  PROVE  \E r \in feed : r.e = e /\ r.ver.rev = n
<1>1. \A f \in Entities : \A k \in 1..version[f].rev : \E r \in feed : r.e = f /\ r.ver.rev = k
  BY DEF SyncInv, RowsSound
<1> QED
  BY <1>1, Zenon

\* The inductive invariant holds of every behaviour of the synchronisation.
THEOREM SyncInvariant == SyncSpec => []SyncInv
<1>1. SyncInit => SyncInv
  BY SyncStart
<1>2. SyncInv /\ [SyncNext]_syncVars => SyncInv'
  BY SyncStep
<1> QED
  BY <1>1, <1>2, PTL DEF SyncSpec

\* The rows of an entity are its revisions, each once, and the last one is the
\* version the server has: a push and a published change of the same entity
\* (push_changes, publish_server_entity) never write the same revision.
THEOREM FeedCorrect == SyncSpec => []FeedMatchesServer
<1>1. SyncInv => FeedMatchesServer
  <2> SUFFICES ASSUME SyncInv, NEW e \in Entities
               PROVE  /\ {r.ver.rev : r \in {q \in feed : q.e = e}} = 1..version[e].rev
                      /\ Cardinality({r \in feed : r.e = e}) = version[e].rev
                      /\ \A r \in {q \in feed : q.e = e} : r.ver.rev = version[e].rev => r.ver = version[e]
    BY DEF FeedMatchesServer
  <2>1. \A r \in {q \in feed : q.e = e} : r.ver.rev \in 1..version[e].rev
    BY DEF SyncInv, RowsSound
  <2>2. ASSUME NEW n \in 1..version[e].rev PROVE \E r \in {q \in feed : q.e = e} : r.ver.rev = n
    BY RevisionRow
  <2>3. /\ Cardinality({r \in feed : r.e = e}) = version[e].rev
        /\ \A r \in {q \in feed : q.e = e} : r.ver.rev = version[e].rev => r.ver = version[e]
    BY DEF SyncInv, RowsSound
  <2> QED
    BY <2>1, <2>2, <2>3
<1> QED
  BY <1>1, SyncInvariant, PTL

\* A push that is applied replaces the version its author had seen, or follows
\* a refused change of the same device to the same entity.
THEOREM UpdatesKept == SyncSpec => []NoLostUpdate
<1>1. SyncInv => NoLostUpdate
  <2> SUFFICES ASSUME SyncInv, NEW r \in feed, r.op[2] # 0, ~AfterConflict(r.op, r.e)
               PROVE  Same(r.on, Replaced(r))
    BY DEF NoLostUpdate
  <2>1. CASE r.ver.rev = 1
    BY <2>1 DEF SyncInv, ReplacedSound, Replaced
  <2>2. CASE r.ver.rev # 1
    <3>1. /\ r.ver.rev > 1
          /\ \A q \in feed : q.e = r.e /\ q.ver.rev = r.ver.rev - 1 => Same(r.on, q.ver)
      BY <2>2 DEF SyncInv, ReplacedSound
    <3>2. r.e \in Entities /\ r.ver.rev \in 1..version[r.e].rev /\ version[r.e].rev \in Nat
      BY DEF SyncInv, SyncTypes, Row, Version, RowsSound
    <3>3. r.ver.rev - 1 \in 1..version[r.e].rev
      BY <3>1, <3>2
    <3>4. \E q \in feed : q.e = r.e /\ q.ver.rev = r.ver.rev - 1
      BY <3>2, <3>3, RevisionRow
    <3>5. PICK q : q = CHOOSE p \in feed : p.e = r.e /\ p.ver.rev = r.ver.rev - 1
      OBVIOUS
    <3>6. q \in feed /\ q.e = r.e /\ q.ver.rev = r.ver.rev - 1
      BY <3>4, <3>5
    <3>7. Replaced(r) = q.ver
      BY <2>2, <3>5 DEF Replaced
    <3> QED
      BY <3>1, <3>6, <3>7
  <2> QED
    BY <2>1, <2>2
<1> QED
  BY <1>1, SyncInvariant, PTL

\* A device that has sent its outbox and read the feed to its end shows the
\* server's version of every entity, an open conflict, or the entity of a
\* change that committed behind its cursor.
THEOREM CopiesAgree == SyncSpec => []CaughtUpAgrees
<1>1. SyncInv => CaughtUpAgrees
  <2> SUFFICES ASSUME SyncInv, NEW d \in Devices, CaughtUp(d), NEW e \in Entities,
                      ~conf[d][e].open, <<d, e>> \notin passed
               PROVE  Same(copy[d][e], version[e])
    BY DEF CaughtUpAgrees
  <2>1. lcur[d] = Len(outbox[d]) /\ lcur[d] \in Nat /\ \A r \in feed : r.cursor <= rcur[d]
    BY DEF CaughtUp, SyncInv, SyncTypes
  <2>2. ~Unacked(d, e, 0)
    BY <2>1 DEF Unacked
  <2>3. UpToDate(d, e)
    BY <2>2 DEF SyncInv, CopySound, CopyAt
  <2>4. \A r \in feed : r.e = e => r.ver.rev <= copy[d][e].rev
    BY <2>1, <2>3 DEF UpToDate, NotBehind
  <2>5. version[e].rev \in Nat /\ copy[d][e].rev \in Nat
    BY DEF SyncInv, SyncTypes, Version
  <2>6. version[e].rev <= copy[d][e].rev
    <3>1. CASE version[e].rev = 0
      BY <2>5, <3>1
    <3>2. CASE version[e].rev # 0
      <4>1. version[e].rev \in 1..version[e].rev
        BY <2>5, <3>2
      <4>2. PICK r \in feed : r.e = e /\ r.ver.rev = version[e].rev
        BY <4>1 DEF SyncInv, RowsSound
      <4> QED
        BY <2>4, <4>2
    <3> QED
      BY <3>1, <3>2
  <2>7. copy[d][e].rev <= version[e].rev
    <3>1. CASE copy[d][e].rev = 0
      BY <2>5, <3>1
    <3>2. CASE copy[d][e].rev # 0
      <4>1. PICK r \in feed : r.e = e /\ Same(r.ver, copy[d][e])
        BY <2>3, <3>2 DEF UpToDate, Known
      <4>2. r.ver.rev \in 1..version[e].rev
        BY <4>1 DEF SyncInv, RowsSound
      <4> QED
        BY <2>5, <4>1, <4>2 DEF Same
    <3> QED
      BY <3>1, <3>2
  <2>8. copy[d][e].rev = version[e].rev
    BY <2>5, <2>6, <2>7
  <2> QED
    BY <2>3, <2>8, KnownCurrent DEF UpToDate
<1> QED
  BY <1>1, SyncInvariant, PTL
=============================================================================
