---------------------------- MODULE LaptopBridge ----------------------------
(***************************************************************************)
(* The laptop bridge with the endpoint that records its events.            *)
(*                                                                         *)
(* The laptop turns the signals of a glasses adapter into events, holds    *)
(* them in a bounded queue and sends the oldest ones to the bridge on a    *)
(* timer, whether or not an earlier request is still under way.  The       *)
(* bridge remembers the ids it recorded for a while, in memory.  Requests  *)
(* and answers may be lost, and a request whose sender has given up may    *)
(* still arrive.                                                           *)
(*                                                                         *)
(* Events are known by their sequence numbers.  They enter the queue in    *)
(* that order, so the queue is the set of the numbers it holds.  What an   *)
(* event says is left out, and so is how long a retry timer waits.         *)
(***************************************************************************)
EXTENDS Integers, FiniteSets

CONSTANTS
    MaxQueue,     \* upstreamMaxQueueSize
    MaxBatch,     \* upstreamMaxBatchSize
    IngestMax,    \* hardwareBridgeMaxBatchSize, on the other side
    DedupTtl,     \* hardwareBridgeDedupTtlMs
    Malformed,    \* the events that validateHardwareBridgeEvent refuses
    Modes,        \* the adapters: "mock", "xreal_g2_ble_stub", "ble"
    Delivery,     \* the calls of flush that may overlap
    MaxEvents,    \* bound on the events that happen, for each adapter
    MaxAttempts,  \* bound on the attempts to connect that overlap
    MaxTime       \* bound on the bridge's clock

ASSUME BoundsAreNatural ==
    /\ MaxEvents \in [Modes -> Nat]
    /\ MaxAttempts \in Nat
    /\ MaxTime \in Nat
ASSUME LimitsArePositive ==
    /\ MaxQueue \in Nat \ {0}
    /\ MaxBatch \in Nat \ {0}
    /\ IngestMax \in Nat
    /\ DedupTtl \in Nat \ {0}
ASSUME ModesAreKnown == Modes \subseteq {"mock", "xreal_g2_ble_stub", "ble"}

VARIABLES
    mode,         \* config.adapterMode
    phase,        \* of the runtime: off, starting, running, stopped
    adapter,      \* the adapter's status.state
    connecting,   \* calls of adapter.connect that wait, by how far they are
    ticking,      \* interval timers of the mock adapter that run
    held,         \* the mock adapter holds the handle of one
    retry,        \* reconnectTimer is set
    made,         \* sequence: how many events were built
    queue,        \* the buffer
    dropped,      \* history: the events the buffer shifted out
    flush,        \* the calls of flush
    seen,         \* seenEventIds: when each id is forgotten, or Never
    recorded,     \* history: the events that were ever logged
    loggedAt,     \* history: when this bridge process last logged an event
    repeated,     \* history: the events logged again within DedupTtl
    now           \* the bridge's clock

laptop == <<mode, phase, adapter, connecting, ticking, held, retry>>
buffer == <<made, queue, dropped>>
bridge == <<seen, recorded, loggedAt, repeated, now>>
vars == <<laptop, buffer, flush, bridge>>

Never == -1
Event == UNION {1..MaxEvents[m] : m \in Modes}
Stage == {"scanning", "connecting"}

Idle == [pc |-> "idle", batch |-> {}, settled |-> {}]
Calls == [pc : {"idle", "sent", "answered", "given_up"},
          batch : SUBSET Event, settled : SUBSET Event]

TypeOK ==
    /\ mode \in Modes
    /\ phase \in {"off", "starting", "running", "stopped"}
    /\ adapter \in {"idle", "scanning", "connecting", "connected", "absent",
                    "disconnected"}
    /\ connecting \in [Stage -> Nat]
    /\ ticking \in Nat
    /\ held \in BOOLEAN
    /\ retry \in BOOLEAN
    /\ made \in 0..MaxEvents[mode]
    /\ queue \subseteq 1..made
    /\ Cardinality(queue) <= MaxQueue
    /\ dropped \subseteq 1..made
    /\ flush \in [Delivery -> Calls]
    /\ \A f \in Delivery : flush[f].batch \subseteq 1..made
    /\ seen \in [Event -> Int]
    /\ recorded \subseteq (1..made) \ Malformed
    /\ loggedAt \in [Event -> Int]
    /\ repeated \subseteq recorded
    /\ now \in 0..MaxTime

Init ==
    /\ mode \in Modes
    /\ phase = "off"
    /\ adapter = "idle"
    /\ connecting = [s \in Stage |-> 0]
    /\ ticking = 0
    /\ held = FALSE
    /\ retry = FALSE
    /\ made = 0
    /\ queue = {}
    /\ dropped = {}
    /\ flush = [f \in Delivery |-> Idle]
    /\ seen = [e \in Event |-> Never]
    /\ recorded = {}
    /\ loggedAt = [e \in Event |-> Never]
    /\ repeated = {}
    /\ now = 0

-----------------------------------------------------------------------------
(***************************************************************************)
(* The buffer.                                                             *)
(***************************************************************************)

\* The n events that were queued first, and the n that were queued last.
Oldest(Q, n) == {e \in Q : Cardinality({f \in Q : f < e}) < n}

\* Mutant of Newest: the buffer shifts one event too late.
NewestAndOne(Q, n) == {e \in Q : Cardinality({f \in Q : f > e}) <= n}

\* Mutant of Newest: the buffer pops the newest event instead.
NewestPopped(Q, n) == Oldest(Q, n)

Newest(Q, n) == {e \in Q : Cardinality({f \in Q : f > e}) < n}

\* onSignal's listener, n times in a row: an event is built and queued, and
\* the queue is shifted down to its size.
Emit(n) ==
    LET all == queue \cup (made + 1)..(made + n)
    IN  /\ made + n <= MaxEvents[mode]
        /\ made' = made + n
        /\ queue' = Newest(all, MaxQueue)
        /\ dropped' = dropped \cup (all \ queue')

-----------------------------------------------------------------------------
(***************************************************************************)
(* The runtime and its adapter.  "ble" is an adapter as the interface      *)
(* allows it: connect takes a while and may reject.  The mock's connect    *)
(* takes two waits, the stub's none.                                       *)
(***************************************************************************)

Waiting == connecting["scanning"] + connecting["connecting"]

\* tryConnect up to adapter.connect's first wait, with n events before it.
BeginConnect(n) ==
    CASE mode = "mock" ->
            /\ adapter' = "scanning"
            /\ connecting' = [connecting EXCEPT !["scanning"] = @ + 1]
            /\ Emit(n + 1)
      [] mode = "xreal_g2_ble_stub" ->
            /\ adapter' = "absent"
            /\ connecting' = connecting
            /\ Emit(n + 3)
      [] mode = "ble" ->
            /\ adapter' = "connecting"
            /\ connecting' = [connecting EXCEPT !["connecting"] = @ + 1]
            /\ Emit(n)

Start ==
    /\ phase = "off"
    /\ BeginConnect(0)
    /\ phase' = IF mode = "xreal_g2_ble_stub" THEN "running" ELSE "starting"
    /\ UNCHANGED <<mode, ticking, held, retry, flush, bridge>>

\* start waits for the first attempt, however it ends, and then sets timers.
Started == IF phase = "starting" THEN "running" ELSE phase

MockFound ==
    /\ mode = "mock"
    /\ connecting["scanning"] > 0
    /\ connecting' = [connecting EXCEPT !["scanning"] = @ - 1,
                                        !["connecting"] = @ + 1]
    /\ adapter' = "connecting"
    /\ Emit(1)
    /\ UNCHANGED <<mode, phase, ticking, held, retry, flush, bridge>>

\* The mock sets new intervals without clearing those it has.
ConnectSucceeds ==
    /\ connecting["connecting"] > 0
    /\ connecting' = [connecting EXCEPT !["connecting"] = @ - 1]
    /\ adapter' = "connected"
    /\ phase' = Started
    /\ IF mode = "mock" THEN ticking' = ticking + 1 /\ held' = TRUE /\ Emit(1)
                        ELSE UNCHANGED <<ticking, held, buffer>>
    /\ UNCHANGED <<mode, retry, flush, bridge>>

\* Mutant of ConnectFails: started is only set at the end of start.
ConnectFailsAtStart ==
    /\ mode = "ble"
    /\ connecting["connecting"] > 0
    /\ connecting' = [connecting EXCEPT !["connecting"] = @ - 1]
    /\ adapter' = "absent"
    /\ phase' = Started
    /\ retry' = (retry \/ phase = "running")
    /\ Emit(1)
    /\ UNCHANGED <<mode, ticking, held, flush, bridge>>

\* tryConnect's catch, with scheduleReconnect.
ConnectFails ==
    /\ mode = "ble"
    /\ connecting["connecting"] > 0
    /\ connecting' = [connecting EXCEPT !["connecting"] = @ - 1]
    /\ adapter' = "absent"
    /\ phase' = Started
    /\ retry' = (retry \/ phase # "stopped")
    /\ Emit(1)
    /\ UNCHANGED <<mode, ticking, held, flush, bridge>>

RetryFires ==
    /\ retry
    /\ Waiting < MaxAttempts
    /\ retry' = FALSE
    /\ BeginConnect(0)
    /\ UNCHANGED <<mode, phase, ticking, held, flush, bridge>>

\* The resume timer sees that the laptop slept.
ResumeDetected ==
    /\ phase = "running"
    /\ Waiting < MaxAttempts
    /\ BeginConnect(1)
    /\ UNCHANGED <<mode, phase, ticking, held, retry, flush, bridge>>

Signal ==
    /\ \/ mode = "mock" /\ ticking > 0
       \/ mode = "ble" /\ phase # "off"
    /\ Emit(1)
    /\ UNCHANGED <<laptop, flush, bridge>>

\* A lost connection is the adapter's to report; it is a signal like others.
Stop ==
    /\ phase = "running"
    /\ phase' = "stopped"
    /\ retry' = FALSE
    /\ ticking' = IF held THEN ticking - 1 ELSE ticking
    /\ held' = FALSE
    /\ adapter' = "disconnected"
    /\ IF mode = "ble" THEN UNCHANGED buffer ELSE Emit(1)
    /\ UNCHANGED <<mode, connecting, flush, bridge>>

-----------------------------------------------------------------------------
(***************************************************************************)
(* Delivery.                                                               *)
(***************************************************************************)

FlushBegin(f) ==
    /\ phase = "running"
    /\ flush[f].pc = "idle"
    /\ queue # {}
    /\ flush' = [flush EXCEPT ![f] = [pc |-> "sent", settled |-> {},
                                      batch |-> Oldest(queue, MaxBatch)]]
    /\ UNCHANGED <<laptop, buffer, bridge>>

\* Mutant of Remembered: an id is forgotten a tick too early.
RememberedShort == [e \in Event |-> IF seen[e] <= now + 1 THEN Never ELSE seen[e]]

\* cleanupExpired
Remembered == [e \in Event |-> IF seen[e] <= now THEN Never ELSE seen[e]]

Accepted(B) == {e \in B \ Malformed : Remembered[e] = Never}

\* Mutant of Settled: duplicates are not acknowledged.
SettledOnce(B) ==
    IF Cardinality(B) > IngestMax THEN {} ELSE Accepted(B) \cup (B \cap Malformed)

\* A batch that is too large is refused as a whole, under the id "batch".
Settled(B) == IF Cardinality(B) > IngestMax THEN {} ELSE B

\* This process logged the event less than DedupTtl ago.
JustLogged(e) == loggedAt[e] # Never /\ now < loggedAt[e] + DedupTtl

\* ingest: what the bridge logs and remembers.
Record(B) ==
    LET taken == IF Cardinality(B) > IngestMax THEN {} ELSE Accepted(B)
    IN  /\ seen' = [e \in Event |->
                        IF e \in taken THEN now + DedupTtl ELSE Remembered[e]]
        /\ recorded' = recorded \cup taken
        /\ loggedAt' = [e \in Event |-> IF e \in taken THEN now ELSE loggedAt[e]]
        /\ repeated' = repeated \cup {e \in taken : JustLogged(e)}

\* The route.  Accepted, duplicate and refused ids are all the same to the
\* laptop.
Ingest(f) ==
    /\ flush[f].pc = "sent"
    /\ Record(flush[f].batch)
    /\ flush' = [flush EXCEPT ![f].pc = "answered",
                              ![f].settled = Settled(flush[f].batch)]
    /\ UNCHANGED <<laptop, buffer, now>>

\* The same for a request whose sender waits no more.
IngestLate(f) ==
    /\ flush[f].pc = "given_up"
    /\ Record(flush[f].batch)
    /\ flush' = [flush EXCEPT ![f] = Idle]
    /\ UNCHANGED <<laptop, buffer, now>>

\* The rest of flush: deliver returned.
Acknowledge(f) ==
    /\ flush[f].pc = "answered"
    /\ queue' = queue \ flush[f].settled
    /\ flush' = [flush EXCEPT ![f] = Idle]
    /\ UNCHANGED <<laptop, made, dropped, bridge>>

\* Mutant of DeliveryFails: the batch has left the queue already.
DeliveryFailsEmpty(f) ==
    /\ flush[f].pc \in {"sent", "answered"}
    /\ queue' = queue \ flush[f].batch
    /\ flush' = [flush EXCEPT ![f] = Idle]
    /\ UNCHANGED <<laptop, made, dropped, bridge>>

\* deliver threw: no connection, an error status, a broken answer.  The
\* queue stays as it is; the request may be on its way.
DeliveryFails(f) ==
    /\ \/ /\ flush[f].pc = "sent"
          /\ \/ flush' = [flush EXCEPT ![f].pc = "given_up"]
             \/ flush' = [flush EXCEPT ![f] = Idle]
       \/ /\ flush[f].pc = "answered"
          /\ flush' = [flush EXCEPT ![f] = Idle]
    /\ UNCHANGED <<laptop, buffer, bridge>>

\* A request nobody waits for is lost after all.
RequestLost(f) ==
    /\ flush[f].pc = "given_up"
    /\ flush' = [flush EXCEPT ![f] = Idle]
    /\ UNCHANGED <<laptop, buffer, bridge>>

BridgeRestart ==
    /\ seen' = [e \in Event |-> Never]
    /\ loggedAt' = [e \in Event |-> Never]
    /\ UNCHANGED <<laptop, buffer, flush, recorded, repeated, now>>

Tick ==
    /\ now < MaxTime
    /\ now' = now + 1
    /\ UNCHANGED <<laptop, buffer, flush, seen, recorded, loggedAt, repeated>>

-----------------------------------------------------------------------------

RuntimeStep ==
    \/ Start \/ MockFound \/ ConnectSucceeds \/ ConnectFails
    \/ RetryFires \/ ResumeDetected \/ Signal \/ Stop

DeliveryStep(f) ==
    \/ FlushBegin(f) \/ Ingest(f) \/ IngestLate(f)
    \/ Acknowledge(f) \/ DeliveryFails(f) \/ RequestLost(f)

Next ==
    \/ RuntimeStep
    \/ \E f \in Delivery : DeliveryStep(f)
    \/ BridgeRestart
    \/ Tick

Spec == Init /\ [][Next]_vars

\* The flush timer keeps firing while the runtime runs, a call that waits is
\* answered or fails, and a delivery that is tried again and again gets
\* through, there and back, now and then.
Fairness ==
    \A f \in Delivery :
        /\ WF_vars(FlushBegin(f))
        /\ WF_vars(RequestLost(f))
        /\ SF_vars(Ingest(f))
        /\ SF_vars(Acknowledge(f))

FairSpec == Spec /\ Fairness

-----------------------------------------------------------------------------
(***************************************************************************)
(* What should hold.                                                       *)
(***************************************************************************)

Log == INSTANCE EventLog WITH
    Refused <- Malformed, happened <- made, waiting <- queue,
    lost <- dropped, log <- recorded

\* Lost requests, lost answers, late requests and overlapping flushes do not
\* lose an event: it leaves the queue recorded, refused or pushed out, and
\* none is recorded before an earlier one that is still to come.
ImplementsEventLog == Log!Spec

\* An event is never pushed out by fewer than MaxQueue newer ones.
SurvivesMaxQueue == \A e \in dropped : made >= e + MaxQueue

\* While a bridge process remembers an event, sending it again, in whatever
\* batch, does not record it again.
RecordedOnce == repeated = {}

\* As long as the runtime runs, a failed adapter is tried again; a stopped
\* runtime tries no more.
RetriesWhileStarted ==
    /\ phase = "running" /\ mode = "ble" /\ adapter = "absent"
          => retry \/ Waiting > 0
    /\ phase = "stopped" => ~retry

\* An event does not stay in the queue of a runtime that runs.
Delivered ==
    \A e \in Event :
        (phase = "running" /\ e \in queue) ~> (e \notin queue \/ phase = "stopped")

=============================================================================
