------------------------ MODULE LaptopBridge_proofs ------------------------
(***************************************************************************)
(* Theorems about LaptopBridge, for queues, batches and memories of any    *)
(* size and any number of deliveries at once.                              *)
(*                                                                         *)
(* IndInv has two parts that share no step: RuntimeInv is about the        *)
(* adapter and the timers, DeliveryInv about the queue, the requests and   *)
(* the bridge's memory.  All the runtime does to the latter is Emit.       *)
(***************************************************************************)
EXTENDS LaptopBridge, FiniteSetTheorems, TLAPS

RuntimeTypes ==
    /\ mode \in Modes
    /\ phase \in {"off", "starting", "running", "stopped"}
    /\ adapter \in {"idle", "scanning", "connecting", "connected", "absent",
                    "disconnected"}
    /\ connecting \in [Stage -> Nat]
    /\ ticking \in Nat
    /\ held \in BOOLEAN
    /\ retry \in BOOLEAN

\* The handle that is held is that of an interval that runs.
HandlesRun == held => ticking > 0

RuntimeInv == RuntimeTypes /\ HandlesRun /\ RetriesWhileStarted

DeliveryTypes ==
    /\ mode \in Modes
    /\ made \in 0..MaxEvents[mode]
    /\ queue \subseteq 1..made
    /\ Cardinality(queue) <= MaxQueue
    /\ dropped \subseteq 1..made
    /\ flush \in [Delivery -> Calls]
    /\ \A f \in Delivery : flush[f].batch \subseteq 1..made
    /\ seen \in [Event -> Int]
    /\ recorded \subseteq (1..made) \ Malformed
    /\ loggedAt \in [Event -> Int]
    /\ now \in 0..MaxTime

\* Every event has a place.
Accounted ==
    \A e \in 1..made : e \in queue \cup recorded \cup Malformed \cup dropped

\* A batch has no gap: what comes before one of its events is in it, too, or
\* is not waited for.
BatchesHaveNoGap ==
    \A f \in Delivery : \A e \in flush[f].batch : \A g \in 1..e :
        g \in flush[f].batch \cup recorded \cup Malformed \cup dropped

\* What a delivery is about to acknowledge was recorded or refused.
AnswersAreSound ==
    \A f \in Delivery :
        flush[f].pc = "answered" => flush[f].settled \subseteq recorded \cup Malformed

\* The bridge remembers what it logged, for as long as it is to.
MemoryIsSound ==
    \A e \in Event :
        /\ seen[e] # Never => e \in recorded
        /\ loggedAt[e] # Never =>
               /\ loggedAt[e] \in 0..now
               /\ JustLogged(e) => seen[e] = loggedAt[e] + DedupTtl

DeliveryInv ==
    /\ DeliveryTypes
    /\ Accounted
    /\ BatchesHaveNoGap
    /\ AnswersAreSound
    /\ MemoryIsSound
    /\ SurvivesMaxQueue
    /\ RecordedOnce

IndInv == RuntimeInv /\ DeliveryInv

-----------------------------------------------------------------------------
(* The buffer. *)

\* Every bound on events is a set of events.
LEMMA MadeAreEvents ==
    ASSUME NEW m \in Modes, NEW n \in 0..MaxEvents[m]
    PROVE  1..n \subseteq Event
  BY BoundsAreNatural DEF Event

After(Q, e) == {f \in Q : f > e}
Before(Q, e) == {f \in Q : f < e}

\* The events that came after e are fewer for a later e.
LEMMA LaterHasFewer ==
    ASSUME NEW Q, IsFiniteSet(Q), Q \subseteq Nat,
           NEW d \in Q, NEW e \in Q, d < e
    PROVE  /\ Cardinality(After(Q, d)) \in Nat
           /\ Cardinality(After(Q, e)) \in Nat
           /\ Cardinality(After(Q, e)) < Cardinality(After(Q, d))
<1> DEFINE D == After(Q, d)
           E == After(Q, e)
<1>1. /\ IsFiniteSet(D) /\ IsFiniteSet(E)
      /\ Cardinality(D) \in Nat /\ Cardinality(E) \in Nat
  <2>1. D \in SUBSET Q /\ E \in SUBSET Q
    BY DEF After
  <2> HIDE DEF D, E
  <2>2. IsFiniteSet(D) /\ IsFiniteSet(E)
    BY <2>1, FS_Subset
  <2> QED
    BY <2>2, FS_CardinalityType
<1>2. E \in SUBSET D /\ e \in D /\ e \notin E
  <2>1. d \in Nat /\ e \in Nat
    OBVIOUS
  <2>2. e \in D /\ e \notin E
    BY <2>1 DEF After
  <2>3. ASSUME NEW f \in E PROVE f \in D
    <3>1. f \in Q /\ f \in Nat /\ f > e
      BY DEF After
    <3>2. f > d
      BY <2>1, <3>1
    <3> QED
      BY <3>1, <3>2 DEF After
  <2> QED
    BY <2>2, <2>3
<1>3. Cardinality(E) <= Cardinality(D) /\ (Cardinality(D) = Cardinality(E) => D = E)
  <2> HIDE DEF D, E
  <2> QED
    BY <1>1, <1>2, FS_Subset
<1>4. Cardinality(E) # Cardinality(D)
  BY <1>2, <1>3
<1> QED
  BY <1>1, <1>3, <1>4

\* shift leaves no more than it is told to.
LEMMA NewestAreFew ==
    ASSUME NEW Q, IsFiniteSet(Q), Q \subseteq Nat, NEW n \in Nat
    PROVE  Cardinality(Newest(Q, n)) <= n
<1> DEFINE N == Newest(Q, n)
           rank == [e \in N |-> Cardinality(After(Q, e))]
<1>1. N \subseteq Q
  BY DEF Newest
<1>2. \A e \in N : rank[e] \in 0..(n - 1)
  <2> TAKE e \in N
  <2>1. After(Q, e) \in SUBSET Q
    BY DEF After
  <2>2. Cardinality(After(Q, e)) \in Nat
    BY <2>1, FS_Subset, FS_CardinalityType
  <2>3. Cardinality(After(Q, e)) < n
    BY DEF Newest, After
  <2> QED
    BY <2>2, <2>3
<1>3. \A d, e \in N : rank[d] = rank[e] => d = e
  <2> SUFFICES ASSUME NEW d \in N, NEW e \in N, d # e
               PROVE  rank[d] # rank[e]
    OBVIOUS
  <2>1. d \in Nat /\ e \in Nat /\ d \in Q /\ e \in Q
    BY <1>1
  <2>2. rank[d] = Cardinality(After(Q, d)) /\ rank[e] = Cardinality(After(Q, e))
    OBVIOUS
  <2> HIDE DEF rank
  <2>3. ASSUME d < e PROVE rank[e] < rank[d] /\ rank[e] \in Nat /\ rank[d] \in Nat
    BY <2>1, <2>2, <2>3, LaterHasFewer
  <2>4. ASSUME e < d PROVE rank[d] < rank[e] /\ rank[e] \in Nat /\ rank[d] \in Nat
    BY <2>1, <2>2, <2>4, LaterHasFewer
  <2> QED
    BY <2>1, <2>3, <2>4
<1>4. rank \in Injection(N, 0..(n - 1))
  <2> HIDE DEF N
  <2>1. rank \in [N -> 0..(n - 1)]
    BY <1>2
  <2> HIDE DEF rank
  <2> QED
    BY <1>3, <2>1 DEF Injection, IsInjective
<1>5. IsFiniteSet(0..(n - 1)) /\ Cardinality(0..(n - 1)) = n
  BY FS_Interval
<1> HIDE DEF N, rank
<1>6. Cardinality(N) <= Cardinality(0..(n - 1))
  BY <1>4, <1>5, FS_Injection
<1> QED
  BY <1>5, <1>6 DEF N

\* What is shifted out was pushed out by n newer events.
LEMMA ShiftedAreOld ==
    ASSUME NEW m \in Nat, NEW Q \in SUBSET (1..m), NEW n \in Nat,
           NEW e \in Q \ Newest(Q, n)
    PROVE  m >= e + n
<1> DEFINE L == After(Q, e)
<1>1. L \in SUBSET ((e + 1)..m)
  <2> SUFFICES ASSUME NEW f \in L PROVE f \in (e + 1)..m
    OBVIOUS
  <2>1. e \in 1..m /\ f \in 1..m /\ f > e
    BY DEF After
  <2> QED
    BY <2>1
<1>2. IsFiniteSet((e + 1)..m) /\ Cardinality((e + 1)..m) = m - e
  <2>1. e \in 1..m
    OBVIOUS
  <2>2. e + 1 \in Int /\ m \in Int /\ (e + 1 > m => m - e = 0)
    BY <2>1
  <2>3. /\ IsFiniteSet((e + 1)..m)
        /\ Cardinality((e + 1)..m) = IF e + 1 > m THEN 0 ELSE m - (e + 1) + 1
    BY <2>2, FS_Interval
  <2> QED
    BY <2>1, <2>2, <2>3
<1>3. ~(Cardinality(L) < n)
  BY DEF Newest, After
<1> HIDE DEF L
<1>4. Cardinality(L) <= m - e
  BY <1>1, <1>2, FS_Subset
<1>5. Cardinality(L) \in Nat
  BY <1>1, <1>2, FS_Subset, FS_CardinalityType
<1> QED
  BY <1>3, <1>4, <1>5

\* slice takes every event that comes before one it takes.
LEMMA OldestHasNoGap ==
    ASSUME NEW Q, IsFiniteSet(Q), Q \subseteq Nat, NEW n \in Nat,
           NEW e \in Oldest(Q, n), NEW g \in Q, g <= e
    PROVE  g \in Oldest(Q, n)
<1> DEFINE E == Before(Q, e)
           G == Before(Q, g)
<1>1. e \in Q /\ Cardinality(E) < n
  BY DEF Oldest, Before
<1>2. G \in SUBSET E /\ E \in SUBSET Q
  <2>1. ASSUME NEW f \in G PROVE f \in E
    <3>1. f \in Q /\ f \in Nat /\ f < g /\ e \in Nat /\ g \in Nat
      BY <1>1 DEF Before
    <3>2. f < e
      BY <3>1
    <3> QED
      BY <3>1, <3>2 DEF Before
  <2>2. E \in SUBSET Q
    BY DEF Before
  <2> QED
    BY <2>1, <2>2
<1>3. IsFiniteSet(E) /\ IsFiniteSet(G)
  BY <1>2, FS_Subset
<1>4. Cardinality(E) \in Nat /\ Cardinality(G) \in Nat
  BY <1>3, FS_CardinalityType
<1>5. Cardinality(G) <= Cardinality(E)
  <2> HIDE DEF E, G
  <2> QED
    BY <1>2, <1>3, FS_Subset
<1>6. Cardinality(G) < n
  BY <1>1, <1>4, <1>5
<1> QED
  BY <1>6 DEF Oldest, Before

\* A step of the listener on the sets it works on.
LEMMA EmitOnSets ==
    ASSUME DeliveryTypes, NEW n \in Nat, Emit(n)
    PROVE  /\ made \in Nat /\ made' = made + n /\ made' <= MaxEvents[mode]
           /\ queue' \subseteq queue \cup (made + 1)..made'
           /\ dropped' = dropped \cup ((queue \cup (made + 1)..made') \ queue')
           /\ queue' \subseteq 1..made' /\ dropped' \subseteq 1..made'
           /\ Cardinality(queue') <= MaxQueue
           /\ \A e \in dropped' \ dropped : made' >= e + MaxQueue
<1> DEFINE all == queue \cup (made + 1)..(made + n)
<1>1. made \in Nat /\ made' = made + n /\ made' <= MaxEvents[mode]
  BY BoundsAreNatural DEF DeliveryTypes, Emit
<1>2. queue' = Newest(all, MaxQueue) /\ dropped' = dropped \cup (all \ queue')
  BY DEF Emit
<1>3. all \in SUBSET (1..made')
  BY <1>1 DEF DeliveryTypes
<1>4. MaxQueue \in Nat
  BY LimitsArePositive
<1>5. queue' \subseteq all
  BY <1>2 DEF Newest
<1>6. dropped' \subseteq 1..made'
  <2>1. dropped \subseteq 1..made'
    BY <1>1 DEF DeliveryTypes
  <2>2. all \subseteq 1..made'
    BY <1>3
  <2> HIDE DEF all
  <2> QED
    BY <1>2, <2>1, <2>2
<1>7. IsFiniteSet(all) /\ all \subseteq Nat
  <2>1. made' \in Nat /\ 1..made' \subseteq Nat
    BY <1>1
  <2>2. IsFiniteSet(1..made')
    BY <2>1, FS_Interval
  <2> HIDE DEF all
  <2>3. IsFiniteSet(all)
    BY <1>3, <2>2, FS_Subset
  <2> QED
    BY <1>3, <2>1, <2>3
<1> HIDE DEF all
<1>8. Cardinality(queue') <= MaxQueue
  BY <1>2, <1>4, <1>7, NewestAreFew
<1>9. \A e \in dropped' \ dropped : made' >= e + MaxQueue
  <2> SUFFICES ASSUME NEW e \in all \ queue'
               PROVE  made' >= e + MaxQueue
    BY <1>2
  <2>1. made' \in Nat
    BY <1>1
  <2> QED
    BY <1>2, <1>3, <1>4, <2>1, ShiftedAreOld
<1> QED
  BY <1>1, <1>2, <1>3, <1>5, <1>6, <1>8, <1>9 DEF all

-----------------------------------------------------------------------------
(* Initially. *)

LEMMA InitInv == Init => IndInv
<1> SUFFICES ASSUME Init PROVE IndInv
  OBVIOUS
<1>1. RuntimeInv
  BY DEF Init, RuntimeInv, RuntimeTypes, HandlesRun, RetriesWhileStarted, Stage
<1>2. Cardinality({}) <= MaxQueue
  BY FS_EmptySet, LimitsArePositive
<1>3. DeliveryTypes
  BY <1>2, BoundsAreNatural
  DEF Init, DeliveryTypes, Calls, Idle, Never
<1>4. Accounted /\ BatchesHaveNoGap /\ AnswersAreSound
  BY DEF Init, Accounted, BatchesHaveNoGap, AnswersAreSound, Idle
<1>5. MemoryIsSound /\ SurvivesMaxQueue /\ RecordedOnce
  BY DEF Init, MemoryIsSound, SurvivesMaxQueue, RecordedOnce, Never
<1> QED
  BY <1>1, <1>3, <1>4, <1>5 DEF IndInv, DeliveryInv

-----------------------------------------------------------------------------
(* The runtime. *)

\* What a step of the runtime means for the delivery.
OnlyEmits ==
    /\ UNCHANGED <<mode, flush, bridge>>
    /\ UNCHANGED buffer \/ \E n \in Nat : Emit(n)

LEMMA RuntimeOnlyEmits == RuntimeInv /\ RuntimeStep => OnlyEmits
<1> SUFFICES ASSUME RuntimeInv, RuntimeStep PROVE OnlyEmits
  OBVIOUS
<1>1. ASSUME NEW n \in Nat, BeginConnect(n) PROVE \E k \in Nat : Emit(k)
  <2>1. n \in Nat /\ n + 1 \in Nat /\ n + 3 \in Nat
    OBVIOUS
  <2>2. Emit(n) \/ Emit(n + 1) \/ Emit(n + 3)
    BY <1>1, ModesAreKnown DEF BeginConnect, RuntimeInv, RuntimeTypes
  <2> QED
    BY <2>1, <2>2
<1>2. CASE Start
  BY <1>1, <1>2 DEF Start, OnlyEmits
<1>3. CASE MockFound
  BY <1>3 DEF MockFound, OnlyEmits
<1>4. CASE ConnectSucceeds
  BY <1>4 DEF ConnectSucceeds, OnlyEmits
<1>5. CASE ConnectFails
  BY <1>5 DEF ConnectFails, OnlyEmits
<1>6. CASE RetryFires
  BY <1>1, <1>6 DEF RetryFires, OnlyEmits
<1>7. CASE ResumeDetected
  BY <1>1, <1>7 DEF ResumeDetected, OnlyEmits
<1>8. CASE Signal
  BY <1>8 DEF Signal, OnlyEmits, laptop
<1>9. CASE Stop
  BY <1>9 DEF Stop, OnlyEmits
<1> QED
  BY <1>2, <1>3, <1>4, <1>5, <1>6, <1>7, <1>8, <1>9 DEF RuntimeStep

\* Counting the attempts up and down.
LEMMA ConnectingUpdates ==
    ASSUME NEW k \in [Stage -> Nat], NEW s \in Stage
    PROVE  /\ [k EXCEPT ![s] = @ + 1] \in [Stage -> Nat]
           /\ k[s] > 0 => [k EXCEPT ![s] = @ - 1] \in [Stage -> Nat]
  OBVIOUS

\* Beginning an attempt.
LEMMA BeginConnectTyped ==
    ASSUME RuntimeInv, NEW n \in Nat, BeginConnect(n)
    PROVE  /\ adapter' \in {"scanning", "connecting", "absent"}
           /\ mode = "ble" => adapter' = "connecting"
           /\ connecting' \in [Stage -> Nat]
<1>1. mode \in {"mock", "xreal_g2_ble_stub", "ble"} /\ connecting \in [Stage -> Nat]
  BY ModesAreKnown DEF RuntimeInv, RuntimeTypes
<1>2. "scanning" \in Stage /\ "connecting" \in Stage
  BY DEF Stage
<1>3. CASE mode = "mock"
  BY <1>1, <1>2, <1>3, ConnectingUpdates DEF BeginConnect
<1>4. CASE mode = "xreal_g2_ble_stub"
  BY <1>1, <1>4 DEF BeginConnect
<1>5. CASE mode = "ble"
  BY <1>1, <1>2, <1>5, ConnectingUpdates DEF BeginConnect
<1> QED
  BY <1>1, <1>3, <1>4, <1>5

LEMMA RuntimeKeepsRuntime ==
    ASSUME RuntimeInv, RuntimeStep
    PROVE  RuntimeInv'
<1> USE DEF RuntimeInv, RuntimeTypes, HandlesRun, RetriesWhileStarted
<1>1. /\ "scanning" \in Stage /\ "connecting" \in Stage
      /\ connecting \in [Stage -> Nat]
  BY DEF Stage
<1>2. CASE Start
  BY <1>2, BeginConnectTyped, 0 \in Nat DEF Start
<1>3. CASE MockFound
  BY <1>3 DEF MockFound, Stage
<1>4. CASE ConnectSucceeds
  <2>1. connecting' \in [Stage -> Nat]
    BY <1>1, <1>4, ConnectingUpdates DEF ConnectSucceeds
  <2>2. /\ mode' = mode /\ phase' = Started /\ adapter' = "connected"
        /\ retry' = retry
        /\ \/ ticking' = ticking + 1 /\ held' = TRUE
           \/ ticking' = ticking /\ held' = held
    BY <1>4 DEF ConnectSucceeds
  <2>3. RuntimeTypes' /\ HandlesRun'
    <3>1. phase' \in {"off", "starting", "running", "stopped"} /\ mode' \in Modes
      BY <2>2 DEF Started
    <3>2. ticking \in Nat /\ retry' \in BOOLEAN
      BY <2>2
    <3>3. ticking' \in Nat /\ held' \in BOOLEAN /\ HandlesRun'
      <4>1. CASE ticking' = ticking + 1 /\ held' = TRUE
        BY <3>2, <4>1
      <4>2. CASE ticking' = ticking /\ held' = held
        BY <4>2
      <4> QED
        BY <2>2, <4>1, <4>2
    <3> QED
      BY <2>1, <2>2, <3>1, <3>2, <3>3
  <2>4. RetriesWhileStarted'
    BY <2>2 DEF Started
  <2> QED
    BY <2>3, <2>4
<1>5. CASE ConnectFails
  <2>1. connecting' \in [Stage -> Nat]
    BY <1>1, <1>5, ConnectingUpdates DEF ConnectFails
  <2>2. /\ mode' = mode /\ phase' = Started /\ adapter' = "absent"
        /\ retry' = (retry \/ phase # "stopped")
        /\ ticking' = ticking /\ held' = held
    BY <1>5 DEF ConnectFails
  <2>3. RuntimeTypes' /\ HandlesRun'
    <3>1. phase' \in {"off", "starting", "running", "stopped"} /\ mode' \in Modes
      BY <2>2 DEF Started
    <3>2. ticking' \in Nat /\ held' \in BOOLEAN /\ retry' \in BOOLEAN
      BY <2>2
    <3>3. HandlesRun'
      BY <2>2
    <3> QED
      BY <2>1, <2>2, <3>1, <3>2, <3>3
  <2>4. RetriesWhileStarted'
    BY <2>2 DEF Started
  <2> QED
    BY <2>3, <2>4
<1>6. CASE RetryFires
  BY <1>6, BeginConnectTyped, 0 \in Nat DEF RetryFires
<1>7. CASE ResumeDetected
  BY <1>7, BeginConnectTyped, 1 \in Nat DEF ResumeDetected
<1>8. CASE Signal
  BY <1>8 DEF Signal, laptop, Waiting
<1>9. CASE Stop
  <2>1. /\ mode' = mode /\ phase' = "stopped" /\ adapter' = "disconnected"
        /\ retry' = FALSE /\ held' = FALSE /\ connecting' = connecting
        /\ ticking' = IF held THEN ticking - 1 ELSE ticking
    BY <1>9 DEF Stop
  <2>2. ticking' \in Nat
    BY <2>1
  <2> QED
    BY <2>1, <2>2
<1> QED
  BY <1>2, <1>3, <1>4, <1>5, <1>6, <1>7, <1>8, <1>9 DEF RuntimeStep

LEMMA OthersKeepRuntime ==
    ASSUME RuntimeInv, UNCHANGED laptop
    PROVE  RuntimeInv'
  BY DEF RuntimeInv, RuntimeTypes, HandlesRun, RetriesWhileStarted, laptop, Waiting

-----------------------------------------------------------------------------
(* The delivery. *)

\* What the listener does to the events of a delivery.
LEMMA EmitKeepsDelivery ==
    ASSUME DeliveryInv, NEW n \in Nat, Emit(n), UNCHANGED <<mode, flush, bridge>>
    PROVE  DeliveryInv'
<1> USE DEF bridge
<1>1. DeliveryTypes
  BY DEF DeliveryInv
<1>2. /\ made \in Nat /\ made' = made + n /\ made' <= MaxEvents[mode]
      /\ queue' \subseteq queue \cup (made + 1)..made'
      /\ dropped' = dropped \cup ((queue \cup (made + 1)..made') \ queue')
      /\ queue' \subseteq 1..made' /\ dropped' \subseteq 1..made'
      /\ Cardinality(queue') <= MaxQueue
      /\ \A e \in dropped' \ dropped : made' >= e + MaxQueue
  BY <1>1, EmitOnSets
<1>3. made' \in 0..MaxEvents[mode] /\ 1..made \subseteq 1..made'
  BY <1>1, <1>2, BoundsAreNatural DEF DeliveryTypes
<1>4. DeliveryTypes'
  BY <1>1, <1>2, <1>3 DEF DeliveryTypes
<1>5. Accounted'
  BY <1>2 DEF Accounted, DeliveryInv
<1>6. BatchesHaveNoGap' /\ AnswersAreSound'
  BY <1>2 DEF BatchesHaveNoGap, AnswersAreSound, DeliveryInv
<1>7. MemoryIsSound' /\ RecordedOnce'
  BY DEF MemoryIsSound, RecordedOnce, JustLogged, DeliveryInv
<1>8. SurvivesMaxQueue'
  BY <1>1, <1>2, LimitsArePositive DEF SurvivesMaxQueue, DeliveryTypes, DeliveryInv
<1> QED
  BY <1>4, <1>5, <1>6, <1>7, <1>8 DEF DeliveryInv

\* Steps in which calls begin, end or are given up, and nothing is logged.
LEMMA CallsKeepDelivery ==
    ASSUME DeliveryInv, UNCHANGED <<mode, buffer, bridge>>,
           flush' \in [Delivery -> Calls],
           \A f \in Delivery :
               /\ flush'[f].batch \subseteq 1..made
               /\ \A e \in flush'[f].batch : \A g \in 1..e :
                      g \in flush'[f].batch \cup recorded \cup Malformed \cup dropped
               /\ flush'[f].pc = "answered" =>
                      flush'[f].settled \subseteq recorded \cup Malformed
    PROVE  DeliveryInv'
<1> USE DEF buffer, bridge
<1>1. DeliveryTypes'
  BY DEF DeliveryTypes, DeliveryInv
<1>2. Accounted' /\ BatchesHaveNoGap' /\ AnswersAreSound'
  BY DEF Accounted, BatchesHaveNoGap, AnswersAreSound, DeliveryInv
<1>3. MemoryIsSound' /\ RecordedOnce' /\ SurvivesMaxQueue'
  BY DEF MemoryIsSound, RecordedOnce, SurvivesMaxQueue, JustLogged, DeliveryInv
<1> QED
  BY <1>1, <1>2, <1>3 DEF DeliveryInv

LEMMA IdleTyped == Idle \in Calls /\ Idle.batch = {} /\ Idle.pc = "idle"
  BY DEF Idle, Calls

\* Changing one call.
LEMMA CallChanges ==
    ASSUME flush \in [Delivery -> Calls], NEW f \in Delivery, NEW c \in Calls
    PROVE  /\ [flush EXCEPT ![f] = c] \in [Delivery -> Calls]
           /\ [flush EXCEPT ![f] = c][f] = c
           /\ \A g \in Delivery \ {f} : [flush EXCEPT ![f] = c][g] = flush[g]
  OBVIOUS

\* Changing the fields of a call.
LEMMA GivenUpTyped ==
    ASSUME NEW c \in Calls
    PROVE  /\ [c EXCEPT !.pc = "given_up"] \in Calls
           /\ [c EXCEPT !.pc = "given_up"].pc = "given_up"
           /\ [c EXCEPT !.pc = "given_up"].batch = c.batch
  BY DEF Calls

LEMMA AnsweredTyped ==
    ASSUME NEW c \in Calls, NEW S \in SUBSET Event
    PROVE  /\ [c EXCEPT !.pc = "answered", !.settled = S] \in Calls
           /\ [c EXCEPT !.pc = "answered", !.settled = S].pc = "answered"
           /\ [c EXCEPT !.pc = "answered", !.settled = S].batch = c.batch
           /\ [c EXCEPT !.pc = "answered", !.settled = S].settled = S
  BY DEF Calls

\* A batch is the front of the queue: all that comes before it is settled.
LEMMA BeginKeepsDelivery ==
    ASSUME DeliveryInv, NEW f \in Delivery, FlushBegin(f)
    PROVE  DeliveryInv'
<1> DEFINE B == Oldest(queue, MaxBatch)
           c == [pc |-> "sent", settled |-> {}, batch |-> B]
<1>1. DeliveryTypes /\ Accounted /\ BatchesHaveNoGap /\ AnswersAreSound
  BY DEF DeliveryInv
<1>2. /\ flush' = [flush EXCEPT ![f] = c]
      /\ UNCHANGED <<mode, buffer, bridge>>
  BY DEF FlushBegin, laptop
<1>3. made \in Nat /\ MaxBatch \in Nat
  BY <1>1, BoundsAreNatural, LimitsArePositive DEF DeliveryTypes
<1>4. queue \subseteq Nat /\ IsFiniteSet(queue)
  <2>1. IsFiniteSet(1..made)
    BY <1>3, FS_Interval
  <2>2. queue \in SUBSET (1..made) /\ 1..made \subseteq Nat
    BY <1>1, <1>3 DEF DeliveryTypes
  <2>3. IsFiniteSet(queue)
    BY <2>1, <2>2, FS_Subset
  <2> QED
    BY <2>2, <2>3
<1>5. B \subseteq 1..made /\ B \subseteq queue
  BY <1>1 DEF Oldest, DeliveryTypes
<1>6. 1..made \subseteq Event
  BY <1>1, MadeAreEvents DEF DeliveryTypes
<1>7. ASSUME NEW e \in B, NEW g \in 1..e
      PROVE  g \in B \cup recorded \cup Malformed \cup dropped
  <2>1. g \in 1..made /\ g <= e
    BY <1>3, <1>5, <1>7
  <2>2. g \in queue \cup recorded \cup Malformed \cup dropped
    BY <1>1, <2>1 DEF Accounted
  <2>3. ASSUME g \in queue PROVE g \in B
    BY <1>3, <1>4, <2>1, <2>3, OldestHasNoGap
  <2> QED
    BY <2>2, <2>3
<1> HIDE DEF B
<1>8. c \in Calls /\ c.pc = "sent" /\ c.batch = B
  BY <1>5, <1>6 DEF Calls
<1> HIDE DEF c
<1>9. /\ flush' \in [Delivery -> Calls] /\ flush'[f] = c
      /\ \A g \in Delivery \ {f} : flush'[g] = flush[g]
  BY <1>1, <1>2, <1>8, CallChanges DEF DeliveryTypes
<1>10. \A d \in Delivery :
          /\ flush'[d].batch \subseteq 1..made
          /\ \A e \in flush'[d].batch : \A g \in 1..e :
                 g \in flush'[d].batch \cup recorded \cup Malformed \cup dropped
          /\ flush'[d].pc = "answered" =>
                 flush'[d].settled \subseteq recorded \cup Malformed
  <2> TAKE d \in Delivery
  <2>1. CASE d = f
    BY <2>1, <1>5, <1>7, <1>8, <1>9
  <2>2. CASE d # f
    BY <2>2, <1>1, <1>9
    DEF DeliveryTypes, BatchesHaveNoGap, AnswersAreSound
  <2> QED
    BY <2>1, <2>2
<1> QED
  BY <1>2, <1>9, <1>10, CallsKeepDelivery

\* A call that ends, or whose sender gives up, or that changes nothing.
LEMMA EndKeepsDelivery ==
    ASSUME DeliveryInv, NEW f \in Delivery, UNCHANGED <<mode, buffer, bridge>>,
           NEW c \in Calls, flush' = [flush EXCEPT ![f] = c],
           c.pc # "answered", c.batch \in {{}, flush[f].batch}
    PROVE  DeliveryInv'
<1>1. DeliveryTypes /\ BatchesHaveNoGap /\ AnswersAreSound
  BY DEF DeliveryInv
<1>2. /\ flush' \in [Delivery -> Calls] /\ flush'[f] = c
      /\ \A g \in Delivery \ {f} : flush'[g] = flush[g]
  BY <1>1, CallChanges DEF DeliveryTypes
<1>3. \A d \in Delivery :
          /\ flush'[d].batch \subseteq 1..made
          /\ \A e \in flush'[d].batch : \A g \in 1..e :
                 g \in flush'[d].batch \cup recorded \cup Malformed \cup dropped
          /\ flush'[d].pc = "answered" =>
                 flush'[d].settled \subseteq recorded \cup Malformed
  <2> TAKE d \in Delivery
  <2>1. CASE d = f
    BY <2>1, <1>1, <1>2 DEF DeliveryTypes, BatchesHaveNoGap
  <2>2. CASE d # f
    BY <2>2, <1>1, <1>2
    DEF DeliveryTypes, BatchesHaveNoGap, AnswersAreSound
  <2> QED
    BY <2>1, <2>2
<1> QED
  BY <1>2, <1>3, CallsKeepDelivery

LEMMA FailureKeepsDelivery ==
    ASSUME DeliveryInv, NEW f \in Delivery, DeliveryFails(f) \/ RequestLost(f)
    PROVE  DeliveryInv'
<1>1. flush \in [Delivery -> Calls] /\ flush[f] \in Calls
  BY DEF DeliveryInv, DeliveryTypes
<1>2. UNCHANGED <<mode, buffer, bridge>>
  BY DEF DeliveryFails, RequestLost, laptop
<1>3. CASE flush' = [flush EXCEPT ![f].pc = "given_up"]
  <2>1. flush' = [flush EXCEPT ![f] = [flush[f] EXCEPT !.pc = "given_up"]]
    BY <1>3
  <2> QED
    BY <1>1, <1>2, <2>1, GivenUpTyped, EndKeepsDelivery
<1>4. CASE flush' = [flush EXCEPT ![f] = Idle]
  BY <1>2, <1>4, IdleTyped, EndKeepsDelivery
<1> QED
  BY <1>3, <1>4 DEF DeliveryFails, RequestLost

\* What a request that arrives takes, and what is settled by it.
Taken(B) == IF Cardinality(B) > IngestMax THEN {} ELSE Accepted(B)

LEMMA RecordOnSets ==
    ASSUME DeliveryInv, NEW B \in SUBSET (1..made), Record(B), now' = now
    PROVE  /\ Taken(B) \subseteq B \ Malformed
           /\ recorded' = recorded \cup Taken(B)
           /\ recorded' \subseteq (1..made) \ Malformed
           /\ Settled(B) \subseteq B
           /\ Settled(B) \subseteq recorded' \cup Malformed
           /\ Taken(B) # {} => B \subseteq recorded' \cup Malformed
           /\ seen' \in [Event -> Int] /\ loggedAt' \in [Event -> Int]
           /\ RecordedOnce' /\ MemoryIsSound'
<1>1. /\ recorded' = recorded \cup Taken(B)
      /\ seen' = [e \in Event |->
                      IF e \in Taken(B) THEN now + DedupTtl ELSE Remembered[e]]
      /\ loggedAt' = [e \in Event |-> IF e \in Taken(B) THEN now ELSE loggedAt[e]]
      /\ repeated' = repeated \cup {e \in Taken(B) : JustLogged(e)}
  BY DEF Record, Taken
<1>2. /\ made \in 0..MaxEvents[mode] /\ mode \in Modes
      /\ seen \in [Event -> Int] /\ loggedAt \in [Event -> Int]
      /\ recorded \subseteq (1..made) \ Malformed /\ now \in 0..MaxTime
  BY DEF DeliveryInv, DeliveryTypes
<1>3. 1..made \subseteq Event
  BY <1>2, MadeAreEvents
<1>4. Taken(B) \subseteq B \ Malformed /\ Taken(B) \subseteq Event
  BY <1>3 DEF Taken, Accepted
<1>5. now \in Nat /\ DedupTtl \in Nat /\ DedupTtl > 0
  BY <1>2, BoundsAreNatural, LimitsArePositive
<1>6. /\ \A e \in Event : seen[e] # Never => e \in recorded
      /\ \A e \in Event : loggedAt[e] # Never =>
             /\ loggedAt[e] \in 0..now
             /\ JustLogged(e) => seen[e] = loggedAt[e] + DedupTtl
  BY DEF DeliveryInv, MemoryIsSound
<1>7. \A e \in Event : Remembered[e] = IF seen[e] <= now THEN Never ELSE seen[e]
  BY DEF Remembered
<1>8. \A e \in Event : JustLogged(e) => Remembered[e] = seen[e] /\ seen[e] # Never
  BY <1>2, <1>5, <1>6, <1>7 DEF JustLogged, Never
<1>9. \A e \in Taken(B) : Remembered[e] = Never
  BY DEF Taken, Accepted
<1>10. \A e \in B \ Malformed : e \in Accepted(B) \/ e \in recorded
  BY <1>3, <1>6, <1>7 DEF Accepted
<1>11. Cardinality(B) > IngestMax \/ B \subseteq recorded' \cup Malformed
  BY <1>1, <1>10 DEF Taken
<1>12. Settled(B) \subseteq B /\ Settled(B) \subseteq recorded' \cup Malformed
  BY <1>11 DEF Settled
<1>13. Taken(B) # {} => B \subseteq recorded' \cup Malformed
  BY <1>11 DEF Taken
<1>14. seen' \in [Event -> Int] /\ loggedAt' \in [Event -> Int]
  <2>1. \A e \in Event : Remembered[e] \in Int
    BY <1>2, <1>7 DEF Never
  <2> QED
    BY <1>1, <1>2, <1>5, <2>1
<1>15. RecordedOnce'
  BY <1>1, <1>4, <1>8, <1>9 DEF RecordedOnce, DeliveryInv
<1>16. ASSUME NEW e \in Event
       PROVE  /\ seen'[e] # Never => e \in recorded'
              /\ loggedAt'[e] # Never =>
                     /\ loggedAt'[e] \in 0..now'
                     /\ JustLogged(e)' => seen'[e] = loggedAt'[e] + DedupTtl
  <2>1. CASE e \in Taken(B)
    BY <2>1, <1>1, <1>5
  <2>2. CASE e \notin Taken(B)
    <3>1. seen'[e] = Remembered[e] /\ loggedAt'[e] = loggedAt[e]
      BY <2>2, <1>1
    <3>2. JustLogged(e)' <=> JustLogged(e)
      BY <3>1 DEF JustLogged
    <3> QED
      BY <3>1, <3>2, <1>1, <1>6, <1>7, <1>8
  <2> QED
    BY <2>1, <2>2
<1>17. MemoryIsSound'
  BY <1>16 DEF MemoryIsSound
<1> QED
  BY <1>1, <1>2, <1>4, <1>12, <1>13, <1>14, <1>15, <1>17

\* A request arrives: c is what becomes of the call it belongs to.
LEMMA RecordKeepsDelivery ==
    ASSUME DeliveryInv, NEW f \in Delivery, Record(flush[f].batch),
           UNCHANGED <<mode, buffer, now>>,
           NEW c \in Calls, flush' = [flush EXCEPT ![f] = c],
           c.batch \in {{}, flush[f].batch},
           c.pc = "answered" => c.settled = Settled(flush[f].batch)
    PROVE  DeliveryInv'
<1> DEFINE B == flush[f].batch
<1>1. /\ DeliveryTypes /\ Accounted /\ BatchesHaveNoGap /\ AnswersAreSound
      /\ SurvivesMaxQueue
  BY DEF DeliveryInv
<1>2. made' = made /\ queue' = queue /\ dropped' = dropped
  BY DEF buffer
<1>3. B \in SUBSET (1..made)
  BY <1>1 DEF DeliveryTypes
<1>4. /\ recorded' = recorded \cup Taken(B)
      /\ recorded' \subseteq (1..made) \ Malformed
      /\ Settled(B) \subseteq recorded' \cup Malformed
      /\ seen' \in [Event -> Int] /\ loggedAt' \in [Event -> Int]
      /\ RecordedOnce' /\ MemoryIsSound'
  BY <1>3, RecordOnSets
<1>5. /\ flush' \in [Delivery -> Calls] /\ flush'[f] = c
      /\ \A g \in Delivery \ {f} : flush'[g] = flush[g]
  BY <1>1, CallChanges DEF DeliveryTypes
<1>6. \A d \in Delivery : flush'[d].batch \in {{}, flush[d].batch}
  BY <1>5
<1>7. DeliveryTypes'
  BY <1>1, <1>2, <1>4, <1>5, <1>6 DEF DeliveryTypes
<1>8. Accounted'
  BY <1>1, <1>2, <1>4 DEF Accounted
<1>9. BatchesHaveNoGap'
  BY <1>1, <1>2, <1>4, <1>6 DEF BatchesHaveNoGap
<1>10. AnswersAreSound'
  <2> SUFFICES ASSUME NEW d \in Delivery, flush'[d].pc = "answered"
               PROVE  flush'[d].settled \subseteq recorded' \cup Malformed
    BY DEF AnswersAreSound
  <2>1. CASE d = f
    BY <2>1, <1>4, <1>5
  <2>2. CASE d # f
    BY <2>2, <1>1, <1>4, <1>5 DEF AnswersAreSound
  <2> QED
    BY <2>1, <2>2
<1>11. SurvivesMaxQueue'
  BY <1>1, <1>2 DEF SurvivesMaxQueue
<1> QED
  BY <1>4, <1>7, <1>8, <1>9, <1>10, <1>11 DEF DeliveryInv

LEMMA IngestKeepsDelivery ==
    ASSUME DeliveryInv, NEW f \in Delivery, Ingest(f) \/ IngestLate(f)
    PROVE  DeliveryInv'
<1>1. /\ flush \in [Delivery -> Calls] /\ flush[f] \in Calls
      /\ flush[f].batch \in SUBSET (1..made)
      /\ 1..made \subseteq Event
  BY MadeAreEvents DEF DeliveryInv, DeliveryTypes
<1>2. Record(flush[f].batch) /\ UNCHANGED <<mode, buffer, now>>
  BY DEF Ingest, IngestLate, laptop
<1>3. CASE Ingest(f)
  <2> DEFINE S == Settled(flush[f].batch)
             c == [flush[f] EXCEPT !.pc = "answered", !.settled = S]
  <2>1. flush' = [flush EXCEPT ![f] = c]
    BY <1>3 DEF Ingest
  <2>2. S \in SUBSET Event
    BY <1>1 DEF Settled
  <2> HIDE DEF S
  <2>3. c \in Calls /\ c.batch = flush[f].batch /\ c.settled = S
    BY <1>1, <2>2, AnsweredTyped
  <2> HIDE DEF c
  <2> QED
    BY <1>2, <2>1, <2>3, RecordKeepsDelivery DEF S
<1>4. CASE IngestLate(f)
  BY <1>2, <1>4, IdleTyped, RecordKeepsDelivery DEF IngestLate
<1> QED
  BY <1>3, <1>4

\* Only what was recorded or refused leaves the queue.
LEMMA AcknowledgeKeepsDelivery ==
    ASSUME DeliveryInv, NEW f \in Delivery, Acknowledge(f)
    PROVE  DeliveryInv'
<1>1. /\ DeliveryTypes /\ Accounted /\ BatchesHaveNoGap /\ AnswersAreSound
      /\ MemoryIsSound /\ RecordedOnce /\ SurvivesMaxQueue
  BY DEF DeliveryInv
<1>2. /\ queue' = queue \ flush[f].settled
      /\ flush[f].settled \subseteq recorded \cup Malformed
      /\ UNCHANGED <<mode, made, dropped, bridge>>
  BY <1>1 DEF Acknowledge, laptop, AnswersAreSound
<1>3. /\ flush' \in [Delivery -> Calls] /\ flush'[f] = Idle
      /\ \A g \in Delivery \ {f} : flush'[g] = flush[g]
  BY <1>1, IdleTyped, CallChanges DEF Acknowledge, DeliveryTypes
<1>4. Cardinality(queue') <= MaxQueue
  <2>1. made \in Nat /\ queue \in SUBSET (1..made) /\ Cardinality(queue) <= MaxQueue
    BY <1>1, BoundsAreNatural DEF DeliveryTypes
  <2>2. IsFiniteSet(queue)
    <3>1. IsFiniteSet(1..made)
      BY <2>1, FS_Interval
    <3> QED
      BY <2>1, <3>1, FS_Subset
  <2>3. queue' \in SUBSET queue
    BY <1>2
  <2>4. IsFiniteSet(queue') /\ Cardinality(queue') <= Cardinality(queue)
    BY <2>2, <2>3, FS_Subset
  <2>5. Cardinality(queue') \in Nat /\ Cardinality(queue) \in Nat
    BY <2>2, <2>4, FS_CardinalityType
  <2> QED
    BY <2>1, <2>4, <2>5, LimitsArePositive
<1>5. DeliveryTypes'
  BY <1>1, <1>2, <1>3, <1>4, IdleTyped DEF DeliveryTypes, bridge
<1>6. Accounted'
  BY <1>1, <1>2 DEF Accounted, bridge
<1>7. BatchesHaveNoGap' /\ AnswersAreSound'
  BY <1>1, <1>2, <1>3, IdleTyped DEF BatchesHaveNoGap, AnswersAreSound, bridge
<1>8. MemoryIsSound' /\ RecordedOnce' /\ SurvivesMaxQueue'
  BY <1>1, <1>2
  DEF MemoryIsSound, RecordedOnce, SurvivesMaxQueue, JustLogged, bridge
<1> QED
  BY <1>5, <1>6, <1>7, <1>8 DEF DeliveryInv

\* The bridge forgets, or its clock moves.
LEMMA BridgeKeepsDelivery ==
    ASSUME DeliveryInv, BridgeRestart \/ Tick
    PROVE  DeliveryInv'
<1>1. /\ DeliveryTypes /\ Accounted /\ BatchesHaveNoGap /\ AnswersAreSound
      /\ MemoryIsSound /\ RecordedOnce /\ SurvivesMaxQueue
  BY DEF DeliveryInv
<1>2. UNCHANGED <<mode, made, queue, dropped, flush, recorded, repeated>>
  BY DEF BridgeRestart, Tick, laptop, buffer
<1>3. CASE BridgeRestart
  <2>1. seen' = [e \in Event |-> Never] /\ loggedAt' = [e \in Event |-> Never]
        /\ now' = now
    BY <1>3 DEF BridgeRestart
  <2>2. DeliveryTypes'
    BY <1>1, <1>2, <2>1 DEF DeliveryTypes, Never
  <2>3. MemoryIsSound'
    BY <2>1 DEF MemoryIsSound
  <2> QED
    BY <1>1, <1>2, <2>2, <2>3
    DEF DeliveryInv, Accounted, BatchesHaveNoGap, AnswersAreSound,
        RecordedOnce, SurvivesMaxQueue
<1>4. CASE Tick
  <2>1. now' = now + 1 /\ now < MaxTime /\ UNCHANGED <<seen, loggedAt>>
    BY <1>4 DEF Tick
  <2>2. DeliveryTypes'
    BY <1>1, <1>2, <2>1, BoundsAreNatural DEF DeliveryTypes
  <2>3. MemoryIsSound'
    <3> SUFFICES ASSUME NEW e \in Event
                 PROVE  /\ seen'[e] # Never => e \in recorded'
                        /\ loggedAt'[e] # Never =>
                               /\ loggedAt'[e] \in 0..now'
                               /\ JustLogged(e)' => seen'[e] = loggedAt'[e] + DedupTtl
      BY DEF MemoryIsSound
    <3>1. now \in Nat /\ MaxTime \in Nat /\ loggedAt[e] \in Int /\ DedupTtl \in Nat
      BY <1>1, BoundsAreNatural, LimitsArePositive DEF DeliveryTypes
    <3>2. JustLogged(e)' => JustLogged(e)
      BY <2>1, <3>1 DEF JustLogged
    <3> QED
      BY <1>1, <1>2, <2>1, <3>1, <3>2 DEF MemoryIsSound
  <2> QED
    BY <1>1, <1>2, <2>2, <2>3
    DEF DeliveryInv, Accounted, BatchesHaveNoGap, AnswersAreSound,
        RecordedOnce, SurvivesMaxQueue
<1> QED
  BY <1>3, <1>4

-----------------------------------------------------------------------------
(* The theorems. *)

\* One step of the specification, or none, keeps the invariant.
LEMMA Inductive == IndInv /\ [Next]_vars => IndInv'
<1> SUFFICES ASSUME IndInv, [Next]_vars PROVE IndInv'
  OBVIOUS
<1>1. RuntimeInv /\ DeliveryInv
  BY DEF IndInv
<1>2. CASE RuntimeStep
  <2>1. RuntimeInv'
    BY <1>1, <1>2, RuntimeKeepsRuntime
  <2>2. OnlyEmits
    BY <1>1, <1>2, RuntimeOnlyEmits
  <2>3. ASSUME NEW n \in Nat, Emit(n) PROVE DeliveryInv'
    BY <1>1, <2>2, <2>3, EmitKeepsDelivery DEF OnlyEmits
  <2>4. ASSUME UNCHANGED buffer PROVE DeliveryInv'
    <3>1. UNCHANGED <<mode, flush, bridge, buffer>>
      BY <2>2, <2>4 DEF OnlyEmits
    <3> QED
      BY <1>1, <3>1, CallsKeepDelivery
      DEF DeliveryInv, DeliveryTypes, BatchesHaveNoGap, AnswersAreSound
  <2> QED
    BY <2>1, <2>2, <2>3, <2>4 DEF OnlyEmits, IndInv
<1>3. ASSUME NEW f \in Delivery, DeliveryStep(f) PROVE IndInv'
  <2>1. UNCHANGED laptop
    BY <1>3
    DEF DeliveryStep, FlushBegin, Ingest, IngestLate, Acknowledge, DeliveryFails,
        RequestLost
  <2>2. DeliveryInv'
    BY <1>1, <1>3, BeginKeepsDelivery, IngestKeepsDelivery,
       AcknowledgeKeepsDelivery, FailureKeepsDelivery DEF DeliveryStep
  <2> QED
    BY <1>1, <2>1, <2>2, OthersKeepRuntime DEF IndInv
<1>4. CASE BridgeRestart \/ Tick
  <2>1. UNCHANGED laptop
    BY <1>4 DEF BridgeRestart, Tick
  <2> QED
    BY <1>1, <1>4, <2>1, OthersKeepRuntime, BridgeKeepsDelivery DEF IndInv
<1>5. CASE UNCHANGED vars
  <2>1. UNCHANGED laptop /\ UNCHANGED <<mode, flush, bridge, buffer>>
    BY <1>5 DEF vars, laptop
  <2>2. DeliveryInv'
    BY <1>1, <2>1, CallsKeepDelivery
    DEF DeliveryInv, DeliveryTypes, BatchesHaveNoGap, AnswersAreSound
  <2> QED
    BY <1>1, <2>1, <2>2, OthersKeepRuntime DEF IndInv
<1> QED
  BY <1>2, <1>3, <1>4, <1>5 DEF Next

LEMMA AlwaysIndInv == Spec => []IndInv
  BY InitInv, Inductive, PTL DEF Spec

\* The laptop and the bridge are always in states of the right types: the
\* queue is bounded, and no event is dropped, sent or recorded before it is
\* built.
THEOREM DeliveryTypeCorrect == Spec => []TypeOK
<1>1. IndInv => TypeOK
  BY DEF IndInv, RuntimeInv, RuntimeTypes, DeliveryInv, DeliveryTypes, RecordedOnce,
     TypeOK
<1> QED
  BY <1>1, AlwaysIndInv, PTL

\* The buffer gives up an event only for MaxQueue newer ones.
THEOREM QueueHoldsTheNewest == Spec => []SurvivesMaxQueue
<1>1. IndInv => SurvivesMaxQueue
  BY DEF IndInv, DeliveryInv
<1> QED
  BY <1>1, AlwaysIndInv, PTL

\* However flushes overlap and requests arrive late, a bridge process does not
\* log an event again while it is to remember it.
THEOREM NeverRecordedTwice == Spec => []RecordedOnce
<1>1. IndInv => RecordedOnce
  BY DEF IndInv, DeliveryInv
<1> QED
  BY <1>1, AlwaysIndInv, PTL

\* A runtime that runs has an attempt or a timer going for an absent adapter,
\* and one that stopped has no timer.
THEOREM RetriesGoOn == Spec => []RetriesWhileStarted
<1>1. IndInv => RetriesWhileStarted
  BY DEF IndInv, RuntimeInv
<1> QED
  BY <1>1, AlwaysIndInv, PTL

-----------------------------------------------------------------------------
(* The refinement. *)

LEMMA EmitHappens ==
    ASSUME DeliveryInv, NEW n \in Nat, Emit(n), UNCHANGED bridge
    PROVE  Log!Happen
<1>1. DeliveryTypes
  BY DEF DeliveryInv
<1>2. /\ made \in Nat /\ made' = made + n
      /\ queue' \subseteq queue \cup (made + 1)..made'
      /\ dropped' = dropped \cup ((queue \cup (made + 1)..made') \ queue')
  BY <1>1, EmitOnSets
<1> QED
  BY <1>2 DEF Log!Happen, Log!New, bridge

LEMMA ArrivalRecords ==
    ASSUME DeliveryInv, NEW f \in Delivery, Record(flush[f].batch), now' = now,
           UNCHANGED buffer
    PROVE  Log!Record
<1> DEFINE B == flush[f].batch
<1>1. B \in SUBSET (1..made)
  BY DEF DeliveryInv, DeliveryTypes
<1>2. /\ Taken(B) \subseteq B \ Malformed
      /\ recorded' = recorded \cup Taken(B)
      /\ recorded' \subseteq (1..made) \ Malformed
      /\ Taken(B) # {} => B \subseteq recorded' \cup Malformed
  BY <1>1, RecordOnSets
<1>3. ASSUME NEW e \in recorded' \ recorded, NEW g \in 1..e
      PROVE  g \in recorded' \cup dropped \cup Malformed
  <2>1. e \in B /\ B \subseteq recorded' \cup Malformed
    BY <1>2
  <2>2. g \in B \cup recorded \cup Malformed \cup dropped
    BY <2>1 DEF DeliveryInv, BatchesHaveNoGap
  <2> QED
    BY <1>2, <2>1, <2>2
<1> QED
  BY <1>2, <1>3 DEF Log!Record, buffer

LEMMA AcknowledgeSettles ==
    ASSUME DeliveryInv, NEW f \in Delivery, Acknowledge(f)
    PROVE  Log!Settle
  BY DEF DeliveryInv, AnswersAreSound, Acknowledge, Log!Settle, bridge

\* The delivery implements the log: with requests lost, answered late or sent
\* twice, an event leaves the queue recorded, refused or pushed out by newer
\* ones, and no event is recorded before an earlier one that is to come.
THEOREM NothingIsLost == Spec => ImplementsEventLog
<1>1. Init => Log!Init
  BY DEF Init, Log!Init
<1>2. IndInv /\ [Next]_vars => [Log!Next]_(Log!vars)
  <2> SUFFICES ASSUME IndInv, [Next]_vars PROVE Log!Next \/ UNCHANGED Log!vars
    OBVIOUS
  <2>1. RuntimeInv /\ DeliveryInv
    BY DEF IndInv
  <2>2. CASE RuntimeStep
    BY <2>1, <2>2, RuntimeOnlyEmits, EmitHappens
    DEF OnlyEmits, Log!Next, Log!vars, buffer, bridge
  <2>3. ASSUME NEW f \in Delivery, DeliveryStep(f)
        PROVE  Log!Next \/ UNCHANGED Log!vars
    <3>1. CASE Ingest(f) \/ IngestLate(f)
      BY <2>1, <3>1, ArrivalRecords DEF Ingest, IngestLate, Log!Next
    <3>2. CASE Acknowledge(f)
      BY <2>1, <3>2, AcknowledgeSettles DEF Log!Next
    <3>3. CASE FlushBegin(f) \/ DeliveryFails(f) \/ RequestLost(f)
      BY <3>3 DEF FlushBegin, DeliveryFails, RequestLost, Log!vars, buffer, bridge
    <3> QED
      BY <2>3, <3>1, <3>2, <3>3 DEF DeliveryStep
  <2>4. CASE BridgeRestart \/ Tick \/ UNCHANGED vars
    BY <2>4 DEF BridgeRestart, Tick, vars, Log!vars, buffer, bridge
  <2> QED
    BY <2>2, <2>3, <2>4 DEF Next
<1>3. Log!Init /\ [][Log!Next]_(Log!vars) <=> ImplementsEventLog
  BY DEF ImplementsEventLog, Log!Spec
<1> QED
  BY <1>1, <1>2, <1>3, AlwaysIndInv, PTL DEF Spec

=============================================================================
