---------------------------- MODULE Relay_proofs ----------------------------
(***************************************************************************)
(* Theorems about Relay, for any devices, connections, prompts and         *)
(* intervals.  IndInv is inductive: one lemma for each of its parts, with  *)
(* one step for each action that can disturb the part.                     *)
(***************************************************************************)
EXTENDS Relay, TLAPS

(* An action of a request changes neither connections nor the clock, or it  *)
(* is a resume that sets readySent, or it ends the process.                 *)
Quiet == UNCHANGED <<now, connection, active>>

(* What the steps of requests and the cleanup do to connections.            *)
LEMMA RequestsAreQuiet ==
    ASSUME NEW h \in Requests, RequestStep(h)
    PROVE  \/ Quiet
           \/ \E c \in Connections, p \in Prompts : ReceiveResume(h, c, p)
           \/ ProcessEnds(h)
  BY DEF RequestStep, Quiet, ReceiveResume, ReceivePrompt, PostTurn, Lookup,
         ReplyKnown, ReplyInterrupted, AskOpenClaw, CompletionArrives,
         StoreResult, SendReply, CompletionFails, StoreFails, HandlerFails, Finish

(* The initial state has the invariant. *)
LEMMA InitInv == Init => IndInv
  BY RelayAssumption
  DEF Init, IndInv, Types, Owned, TableSound, OnlyActiveIsOpen, TimerWhileActive,
      ClockSound, RelayConnection, Request, PromptResult, NoConnection, NoRequest,
      NoResult, SocketStates, CloseCodes, Steps, Outcomes

-----------------------------------------------------------------------------
(* Types. *)

(* What the actions do to one connection keeps its type. *)
LEMMA ConnectionUpdates ==
    ASSUME NEW r \in RelayConnection, now \in Nat
    PROVE  /\ Stopped(r) \in RelayConnection
           /\ \A code \in CloseCodes : Closed(r, code) \in RelayConnection
           /\ Opened(r) \in RelayConnection
           /\ \A s \in SocketStates : [r EXCEPT !.ws = s] \in RelayConnection
           /\ Pinged(r) \in RelayConnection
           /\ [r EXCEPT !.lastPongAt = now, !.missed = 0] \in RelayConnection
           /\ [r EXCEPT !.readySent = TRUE] \in RelayConnection
  <1>0. /\ {"open", "closing"} \subseteq SocketStates
        /\ now + HeartbeatInterval \in Nat
    BY RelayAssumption DEF SocketStates
  <1>1. Stopped(r) \in RelayConnection
    BY DEF Stopped, RelayConnection
  <1>2. \A code \in CloseCodes : Closed(r, code) \in RelayConnection
    BY <1>0 DEF Closed, RelayConnection
  <1>3. Opened(r) \in RelayConnection
    <2>1. \A b \in Nat : [r EXCEPT !.ws = "open", !.lastPongAt = now, !.timer = TRUE,
                                    !.beatAt = b] \in RelayConnection
      BY <1>0 DEF RelayConnection
    <2> QED
      BY <1>0, <2>1 DEF Opened
  <1>4. \A s \in SocketStates : [r EXCEPT !.ws = s] \in RelayConnection
    BY DEF RelayConnection
  <1>5. Pinged(r) \in RelayConnection
    <2>1. \A b, m \in Nat : [r EXCEPT !.beatAt = b, !.missed = m] \in RelayConnection
      BY DEF RelayConnection
    <2>2. r.missed + 1 \in Nat
      BY DEF RelayConnection
    <2> QED
      BY <1>0, <2>1, <2>2 DEF Pinged
  <1>6. [r EXCEPT !.lastPongAt = now, !.missed = 0] \in RelayConnection
    BY DEF RelayConnection
  <1>7. [r EXCEPT !.readySent = TRUE] \in RelayConnection
    BY DEF RelayConnection
  <1> QED
    BY <1>1, <1>2, <1>3, <1>4, <1>5, <1>6, <1>7

(* Connections keep their type. *)
LEMMA ConnectionTypes ==
    ASSUME Types, Owned, NEW c \in Connections, ConnectionStep(c)
    PROVE  Types'
  <1> USE DEF Types
  <1>0. /\ {"upgrading", "open", "closing", "ending", "closed"} \subseteq SocketStates
        /\ {"replaced", "stale"} \subseteq CloseCodes
    BY DEF SocketStates, CloseCodes
  <1>1. CASE \E d \in Devices : UpgradeBegin(c, d)
    <2>1. \A d \in Devices :
              [NoConnection EXCEPT !.ws = "upgrading", !.device = d] \in RelayConnection
      BY DEF NoConnection, RelayConnection, SocketStates, CloseCodes
    <2>2. connection' \in [Connections -> RelayConnection]
      BY <1>1, <2>1 DEF UpgradeBegin
    <2> QED
      BY <1>1, <2>2 DEF UpgradeBegin
  <1>2. CASE UpgradeAborted(c)
    <2>1. connection' = [connection EXCEPT ![c] = [connection[c] EXCEPT !.ws = "closed"]]
      BY <1>2 DEF UpgradeAborted
    <2>2. [connection[c] EXCEPT !.ws = "closed"] \in RelayConnection
      BY <1>0, ConnectionUpdates
    <2>3. connection' \in [Connections -> RelayConnection]
      BY <2>1, <2>2
    <2> QED
      BY <1>2, <2>3 DEF UpgradeAborted
  <1>3. CASE BindConnection(c)
    <2>1. \A x \in Connections : Opened(connection[x]) \in RelayConnection
      BY ConnectionUpdates
    <2>2. \A x \in Connections : Replaced(connection[x]) \in RelayConnection
      BY <1>0, ConnectionUpdates DEF Replaced
    <2>3. connection' \in [Connections -> RelayConnection]
      BY <1>3, <2>1, <2>2 DEF BindConnection
    <2>4. active' \in [Devices -> Connections \cup {None}]
      BY <1>3 DEF BindConnection
    <2> QED
      BY <1>3, <2>3, <2>4 DEF BindConnection
  <1>4. CASE PeerCloses(c)
    <2>1. connection' = [connection EXCEPT ![c] = [connection[c] EXCEPT !.ws = "ending"]]
      BY <1>4 DEF PeerCloses
    <2>2. [connection[c] EXCEPT !.ws = "ending"] \in RelayConnection
      BY <1>0, ConnectionUpdates
    <2>3. connection' \in [Connections -> RelayConnection]
      BY <2>1, <2>2
    <2> QED
      BY <1>4, <2>3 DEF PeerCloses
  <1>5. CASE SocketError(c)
    <2>1. [Stopped(connection[c]) EXCEPT !.ws = "ending"] \in RelayConnection
      BY <1>0, ConnectionUpdates
    <2>2. connection' \in [Connections -> RelayConnection]
      BY <1>5, <2>1 DEF SocketError
    <2>3. active' \in [Devices -> Connections \cup {None}]
      BY <1>5 DEF SocketError, WithoutActive
    <2> QED
      BY <1>5, <2>2, <2>3 DEF SocketError
  <1>6. CASE CloseEvent(c)
    <2>1. [Stopped(connection[c]) EXCEPT !.ws = "closed"] \in RelayConnection
      BY <1>0, ConnectionUpdates
    <2>2. connection' \in [Connections -> RelayConnection]
      BY <1>6, <2>1 DEF CloseEvent
    <2>3. active' \in [Devices -> Connections \cup {None}]
      BY <1>6 DEF CloseEvent, WithoutActive
    <2> QED
      BY <1>6, <2>2, <2>3 DEF CloseEvent
  <1>7. CASE SendPing(c)
    <2>1. Pinged(connection[c]) \in RelayConnection
      BY ConnectionUpdates
    <2>2. connection' \in [Connections -> RelayConnection]
      BY <1>7, <2>1 DEF SendPing
    <2> QED
      BY <1>7, <2>2 DEF SendPing
  <1>8. CASE DropStale(c)
    <2>1. Stopped(Closed(connection[c], "stale")) \in RelayConnection
      BY <1>0, ConnectionUpdates
    <2>2. connection' \in [Connections -> RelayConnection]
      BY <1>8, <2>1 DEF DropStale
    <2>3. active' \in [Devices -> Connections \cup {None}]
      BY <1>8 DEF DropStale, WithoutActive
    <2> QED
      BY <1>8, <2>2, <2>3 DEF DropStale
  <1>9. CASE ReceivePong(c)
    BY <1>9, ConnectionUpdates DEF ReceivePong
  <1>10. CASE ReceiveHello(c)
    <2>1. connection' = [connection EXCEPT ![c] = [connection[c] EXCEPT !.readySent = TRUE]]
      BY <1>10 DEF ReceiveHello
    <2> QED
      BY <1>10, <2>1, ConnectionUpdates DEF ReceiveHello
  <1> QED
    BY <1>1, <1>2, <1>3, <1>4, <1>5, <1>6, <1>7, <1>8, <1>9, <1>10 DEF ConnectionStep

(* What the steps of a handler do to its record keeps its type. *)
LEMMA RequestUpdates ==
    ASSUME NEW r \in Request
    PROVE  /\ \A s \in Steps : [r EXCEPT !.step = s] \in Request
           /\ \A s \in Steps, o \in Outcomes :
                  [r EXCEPT !.step = s, !.outcome = o] \in Request
           /\ \A s \in Steps, t \in Requests \cup {None} :
                  [r EXCEPT !.step = s, !.text = t] \in Request
           /\ \A s \in Steps, t \in Requests, n \in Nat :
                  [r EXCEPT !.step = s, !.text = t, !.createdAt = n] \in Request
           /\ [r EXCEPT !.known = FALSE] \in Request
  BY DEF Request

(* A new request has its type. *)
LEMMA ArriveTypes ==
    ASSUME Types, NEW h \in Requests, NEW kind \in {"prompt", "resume", "turn"},
           NEW d \in Devices, NEW c \in Connections \cup {None},
           NEW p \in Prompts, Arrive(h, kind, d, c, p)
    PROVE  request' \in [Requests -> Request]
  <1>1. \A b \in BOOLEAN :
            [NoRequest EXCEPT !.kind = kind, !.device = d, !.connection = c,
                              !.prompt = p, !.step = "lookup", !.known = b] \in Request
    BY DEF NoRequest, Request, Steps, Outcomes
  <1> DEFINE new(b) == [NoRequest EXCEPT !.kind = kind, !.device = d, !.connection = c,
                              !.prompt = p, !.step = "lookup", !.known = b]
  <1>2. request' = [request EXCEPT ![h] = new(results[<<d, p>>].text # None)]
    BY DEF Arrive
  <1>3. new(results[<<d, p>>].text # None) \in Request
    BY <1>1
  <1> HIDE DEF new
  <1> QED
    BY <1>2, <1>3 DEF Types

(* The end of the process keeps all types. *)
LEMMA ProcessEndTypes ==
    ASSUME Types, NEW h, ProcessEnds(h)
    PROVE  Types'
  <1> USE DEF Types
  <1>1. connection' \in [Connections -> RelayConnection]
    <2>1. \A x \in Connections :
              [Stopped(connection[x]) EXCEPT !.ws = "closed"] \in RelayConnection
      BY ConnectionUpdates DEF SocketStates
    <2> QED
      BY <2>1 DEF ProcessEnds
  <1>2. request' \in [Requests -> Request]
    <2>1. \A g \in Requests, o \in {"rejected", "lost"} :
              [request[g] EXCEPT !.step = "done", !.outcome = o] \in Request
      BY RequestUpdates DEF Steps, Outcomes
    <2>2. \A g \in Requests :
              [request[g] EXCEPT !.step = "done",
                   !.outcome = IF g = h THEN "rejected" ELSE "lost"] \in Request
      BY <2>1
    <2> QED
      BY <2>2 DEF ProcessEnds
  <1>3. results' \in [Devices \X Prompts -> PromptResult]
    BY DEF ProcessEnds, PromptResult, NoResult
  <1>4. active' \in [Devices -> Connections \cup {None}]
    BY DEF ProcessEnds
  <1> QED
    BY <1>1, <1>2, <1>3, <1>4 DEF ProcessEnds

(* Requests and results keep their types. *)
LEMMA RequestTypes ==
    ASSUME Types, Owned, NEW h \in Requests, RequestStep(h)
    PROVE  Types'
  <1> USE DEF Types
  <1>1. /\ {"found", "completing", "storing", "stored", "done"} \subseteq Steps
        /\ {"final", "interrupted", "unsent", "failed"} \subseteq Outcomes
    BY DEF Steps, Outcomes
  <1>2. ASSUME NEW outcome \in Outcomes, Finish(h, outcome)
        PROVE  Types'
    <2>1. Told(h, outcome) \in Outcomes
      BY <1>1 DEF Told
    <2>2. [request[h] EXCEPT !.step = "done", !.outcome = Told(h, outcome)] \in Request
      BY <1>1, <2>1, RequestUpdates
    <2>3. request' \in [Requests -> Request]
      BY <1>2, <2>2 DEF Finish
    <2> QED
      BY <1>2, <2>3 DEF Finish
  <1>3. CASE \E c \in Connections, p \in Prompts : ReceiveResume(h, c, p)
    <2> PICK c \in Connections, p \in Prompts : ReceiveResume(h, c, p)
      BY <1>3
    <2>1. connection[c].device \in Devices
      BY DEF Owned, ReceiveResume, Hears
    <2>2. request' \in [Requests -> Request]
      BY <2>1, ArriveTypes DEF ReceiveResume
    <2>3. [connection[c] EXCEPT !.readySent = TRUE] \in RelayConnection
      BY ConnectionUpdates
    <2>4. connection' \in [Connections -> RelayConnection]
      BY <2>3 DEF ReceiveResume
    <2> QED
      BY <2>2, <2>4 DEF ReceiveResume
  <1>4. CASE \E c \in Connections, p \in Prompts : ReceivePrompt(h, c, p)
    <2> PICK c \in Connections, p \in Prompts : ReceivePrompt(h, c, p)
      BY <1>4
    <2>1. connection[c].device \in Devices
      BY DEF Owned, ReceivePrompt, Hears
    <2>2. request' \in [Requests -> Request]
      BY <2>1, ArriveTypes DEF ReceivePrompt
    <2> QED
      BY <2>2 DEF ReceivePrompt
  <1>5. CASE \E d \in Devices, p \in Prompts : PostTurn(h, d, p)
    <2>1. request' \in [Requests -> Request]
      BY <1>5, ArriveTypes DEF PostTurn
    <2> QED
      BY <1>5, <2>1 DEF PostTurn
  <1>6. CASE Lookup(h)
    <2>1. Key(h) \in Devices \X Prompts
      BY <1>6 DEF Owned, Lookup, Key
    <2>2. results[Key(h)].text \in Requests \cup {None}
      BY <2>1 DEF PromptResult
    <2>3. [request[h] EXCEPT !.step = "found", !.text = results[Key(h)].text] \in Request
      BY <1>1, <2>2, RequestUpdates
    <2>4. request' \in [Requests -> Request]
      BY <1>6, <2>3 DEF Lookup
    <2> QED
      BY <1>6, <2>4 DEF Lookup
  <1>7. CASE ReplyKnown(h) \/ ReplyInterrupted(h) \/ SendReply(h)
    BY <1>1, <1>2, <1>7 DEF ReplyKnown, ReplyInterrupted, SendReply
  <1>8. CASE AskOpenClaw(h)
    <2>1. [request[h] EXCEPT !.step = "completing"] \in Request
      BY <1>1, RequestUpdates
    <2>2. request' \in [Requests -> Request]
      BY <1>8, <2>1 DEF AskOpenClaw
    <2> QED
      BY <1>8, <2>2 DEF AskOpenClaw
  <1>9. CASE CompletionArrives(h)
    <2>1. [request[h] EXCEPT !.step = "storing", !.text = h, !.createdAt = now] \in Request
      BY <1>1, RequestUpdates
    <2>2. request' \in [Requests -> Request]
      BY <1>9, <2>1 DEF CompletionArrives
    <2> QED
      BY <1>9, <2>2 DEF CompletionArrives
  <1>10. CASE StoreResult(h)
    <2>1. [request[h] EXCEPT !.step = "stored"] \in Request
      BY <1>1, RequestUpdates
    <2>2. request' \in [Requests -> Request]
      BY <1>10, <2>1 DEF StoreResult
    <2>3. [text |-> h, createdAt |-> request[h].createdAt] \in PromptResult
      BY DEF PromptResult, Request
    <2>4. results' \in [Devices \X Prompts -> PromptResult]
      BY <1>10, <2>3 DEF StoreResult
    <2> QED
      BY <1>10, <2>2, <2>4 DEF StoreResult
  <1>11. CASE CompletionFails(h) \/ StoreFails(h)
    BY <1>1, <1>2, <1>11, ProcessEndTypes DEF CompletionFails, StoreFails, HandlerFails
  <1> QED
    BY <1>3, <1>4, <1>5, <1>6, <1>7, <1>8, <1>9, <1>10, <1>11 DEF RequestStep

(* Every step keeps all types. *)
LEMMA TypesStep ==
    ASSUME Types, Owned, [Next]_vars
    PROVE  Types'
  <1> USE DEF Types
  <1>0. {"revoked", "restart"} \subseteq CloseCodes
    BY DEF CloseCodes
  <1>1. CASE \E d \in Devices : RevokeDevice(d)
    <2> PICK d \in Devices : RevokeDevice(d)
      BY <1>1
    <2>1. active[d] \in Connections
      BY DEF RevokeDevice
    <2>2. Stopped(Closed(connection[active[d]], "revoked")) \in RelayConnection
      BY <1>0, <2>1, ConnectionUpdates
    <2>3. connection' \in [Connections -> RelayConnection]
      BY <2>2 DEF RevokeDevice
    <2>4. active' \in [Devices -> Connections \cup {None}]
      BY DEF RevokeDevice
    <2> QED
      BY <2>3, <2>4 DEF RevokeDevice
  <1>2. CASE CloseAll
    <2>1. \A c \in Connections :
              Stopped(Closed(connection[c], "restart")) \in RelayConnection
      BY <1>0, ConnectionUpdates
    <2>2. connection' \in [Connections -> RelayConnection]
      BY <1>2, <2>1 DEF CloseAll
    <2>3. active' \in [Devices -> Connections \cup {None}]
      BY <1>2 DEF CloseAll
    <2> QED
      BY <1>2, <2>2, <2>3 DEF CloseAll
  <1>3. CASE Tick
    BY <1>3 DEF Tick
  <1>4. CASE CleanupPromptResults
    <2>1. \A h \in Requests : [request[h] EXCEPT !.known = FALSE] \in Request
      BY RequestUpdates
    <2>2. request' \in [Requests -> Request]
      BY <1>4, <2>1 DEF CleanupPromptResults
    <2>3. results' \in [Devices \X Prompts -> PromptResult]
      BY <1>4 DEF CleanupPromptResults, PromptResult, NoResult
    <2> QED
      BY <1>4, <2>2, <2>3 DEF CleanupPromptResults
  <1>5. CASE UNCHANGED vars
    BY <1>5 DEF vars
  <1>6. CASE \E c \in Connections : ConnectionStep(c)
    BY <1>6, ConnectionTypes
  <1>7. CASE \E h \in Requests : RequestStep(h)
    BY <1>7, RequestTypes
  <1>8. CASE BridgeRestart
    BY <1>8, ProcessEndTypes DEF BridgeRestart
  <1> QED
    BY <1>1, <1>2, <1>3, <1>4, <1>5, <1>6, <1>7, <1>8 DEF Next

-----------------------------------------------------------------------------
(* Owned. *)

(* Every step keeps connections and requests owned. *)
LEMMA OwnedStep ==
    ASSUME Types, Owned, [Next]_vars
    PROVE  Owned'
  <1> USE DEF Types
  <1> DEFINE Drawn == \A c \in Connections :
                          connection[c].ws # "none" => connection[c].device \in Devices
             Asked == \A h \in Requests :
                          request[h].step # "none" =>
                              request[h].device \in Devices /\ request[h].prompt \in Prompts
  <1>1. ASSUME NEW c \in Connections, ConnectionStep(c)
        PROVE  Drawn'
    <2> USE DEF Owned, RelayConnection
    <2>1. CASE \E d \in Devices : UpgradeBegin(c, d)
      BY <2>1 DEF UpgradeBegin, NoConnection
    <2>2. CASE BindConnection(c)
      <3>1. \A r \in RelayConnection :
                /\ Opened(r).device = r.device
                /\ Replaced(r).device = r.device
                /\ r.ws = "none" => Replaced(r).ws = "none"
        BY DEF Opened, Replaced, Stopped, Closed
      <3> SUFFICES ASSUME NEW x \in Connections, connection'[x].ws # "none"
                   PROVE  connection'[x].device \in Devices
        OBVIOUS
      <3>2. connection[c].device \in Devices /\ connection[x] \in RelayConnection
        BY <2>2 DEF BindConnection
      <3>3. connection'[x] \in {Opened(connection[c]), Replaced(connection[x]), connection[x]}
        BY <2>2 DEF BindConnection
      <3>4. x = c => connection'[x] = Opened(connection[c])
        BY <2>2 DEF BindConnection
      <3> QED
        BY <3>1, <3>2, <3>3, <3>4
    <2>3. CASE UpgradeAborted(c) \/ PeerCloses(c) \/ ReceivePong(c) \/ ReceiveHello(c)
      BY <2>3 DEF UpgradeAborted, PeerCloses, ReceivePong, ReceiveHello, Hears
    <2>4. CASE SocketError(c) \/ CloseEvent(c)
      <3>1. PICK w \in {"ending", "closed"} :
                connection' = [connection EXCEPT ![c] = [Stopped(@) EXCEPT !.ws = w]]
        BY <2>4 DEF SocketError, CloseEvent
      <3>2. /\ connection[c] \in RelayConnection /\ connection[c].ws # "none"
            /\ \A x \in Connections : x # c => connection'[x] = connection[x]
            /\ connection'[c] = [Stopped(connection[c]) EXCEPT !.ws = w]
        BY <2>4, <3>1 DEF SocketError, CloseEvent
      <3>3. connection'[c].device = connection[c].device
        BY <3>2 DEF Stopped
      <3> QED
        BY <3>2, <3>3
    <2>5. CASE SendPing(c)
      BY <2>5 DEF SendPing, Pinged
    <2>6. CASE DropStale(c)
      BY <2>6 DEF DropStale, Stopped, Closed
    <2> QED
      BY <1>1, <2>1, <2>2, <2>3, <2>4, <2>5, <2>6 DEF ConnectionStep
  <1>2. ASSUME NEW c \in Connections, ConnectionStep(c)
        PROVE  Asked'
    BY <1>2 DEF Owned, ConnectionStep, UpgradeBegin, UpgradeAborted, BindConnection,
         PeerCloses, SocketError, CloseEvent, SendPing, DropStale, ReceivePong,
         ReceiveHello
  <1>3. ASSUME NEW h, ProcessEnds(h)
        PROVE  Owned'
    <2>1. Drawn'
      BY <1>3 DEF ProcessEnds, Owned, Stopped, RelayConnection
    <2>2. Asked'
      BY <1>3 DEF ProcessEnds, Owned, Pending, Request
    <2> QED
      BY <2>1, <2>2 DEF Owned
  <1>4. ASSUME NEW h \in Requests, RequestStep(h)
        PROVE  Owned'
    <2>1. ASSUME NEW kind, NEW d \in Devices, NEW c, NEW p \in Prompts, Arrive(h, kind, d, c, p)
          PROVE  Asked'
      BY <2>1 DEF Arrive, NoRequest, Owned
    <2>2. ASSUME NEW o, Finish(h, o), request[h].step # "none"
          PROVE  Owned'
      BY <2>2 DEF Finish, Owned, Request
    <2>3. CASE \E c \in Connections, p \in Prompts :
                  ReceiveResume(h, c, p) \/ ReceivePrompt(h, c, p)
      <3> PICK c \in Connections, p \in Prompts :
                  ReceiveResume(h, c, p) \/ ReceivePrompt(h, c, p)
        BY <2>3
      <3>1. connection[c].device \in Devices
        BY DEF ReceiveResume, ReceivePrompt, Hears, Owned
      <3>2. Asked'
        BY <2>1, <3>1 DEF ReceiveResume, ReceivePrompt
      <3>3. Drawn'
        BY DEF ReceiveResume, ReceivePrompt, Hears, Owned, RelayConnection
      <3> QED
        BY <3>2, <3>3 DEF Owned
    <2>4. CASE \E d \in Devices, p \in Prompts : PostTurn(h, d, p)
      <3>1. Asked'
        BY <2>1, <2>4 DEF PostTurn
      <3> QED
        BY <2>4, <3>1 DEF PostTurn, Owned
    <2>5. CASE Lookup(h) \/ AskOpenClaw(h) \/ CompletionArrives(h) \/ StoreResult(h)
      <3>1. \A g \in Requests :
                /\ request'[g].device = request[g].device
                /\ request'[g].prompt = request[g].prompt
                /\ request[g].step = "none" => request'[g].step = "none"
        <4> USE DEF Request
        <4>1. CASE Lookup(h)
          BY <4>1 DEF Lookup
        <4>2. CASE AskOpenClaw(h)
          BY <4>2 DEF AskOpenClaw
        <4>3. CASE CompletionArrives(h)
          BY <4>3 DEF CompletionArrives
        <4>4. CASE StoreResult(h)
          BY <4>4 DEF StoreResult
        <4> QED
          BY <2>5, <4>1, <4>2, <4>3, <4>4
      <3>2. UNCHANGED connection
        BY <2>5 DEF Lookup, AskOpenClaw, CompletionArrives, StoreResult
      <3> QED
        BY <3>1, <3>2 DEF Owned
    <2>6. CASE ReplyKnown(h) \/ ReplyInterrupted(h) \/ SendReply(h)
      BY <2>2, <2>6 DEF ReplyKnown, ReplyInterrupted, SendReply
    <2>7. CASE CompletionFails(h) \/ StoreFails(h)
      BY <1>3, <2>2, <2>7 DEF CompletionFails, StoreFails, HandlerFails
    <2> QED
      BY <1>4, <2>3, <2>4, <2>5, <2>6, <2>7 DEF RequestStep
  <1> DEFINE SameOwner(x) == /\ connection'[x].device = connection[x].device
                             /\ connection[x].ws = "none" => connection'[x].ws = "none"
  <1>0. \A r \in RelayConnection, code \in {"revoked", "restart"} :
            /\ Stopped(Closed(r, code)).device = r.device
            /\ r.ws = "none" => Stopped(Closed(r, code)).ws = "none"
    BY DEF Stopped, Closed, RelayConnection
  <1>5. CASE \E d \in Devices : RevokeDevice(d)
    <2> PICK d \in Devices : RevokeDevice(d)
      BY <1>5
    <2>1. \A x \in Connections : SameOwner(x)
      BY <1>0 DEF RevokeDevice
    <2> QED
      BY <2>1 DEF Owned, RevokeDevice
  <1>6. CASE CloseAll
    <2>1. \A x \in Connections : SameOwner(x)
      BY <1>6, <1>0 DEF CloseAll
    <2> QED
      BY <1>6, <2>1 DEF Owned, CloseAll
  <1>7. CASE CleanupPromptResults
    BY <1>7 DEF CleanupPromptResults, Owned, Request
  <1>8. CASE Tick \/ UNCHANGED vars
    BY <1>8 DEF Tick, vars, Owned
  <1>9. CASE BridgeRestart
    BY <1>3, <1>9 DEF BridgeRestart
  <1>10. CASE \E c \in Connections : ConnectionStep(c)
    BY <1>1, <1>2, <1>10 DEF Owned
  <1> QED
    BY <1>4, <1>5, <1>6, <1>7, <1>8, <1>9, <1>10 DEF Next

-----------------------------------------------------------------------------
(* The table of connections. *)

(* What must hold of the sockets, their timers and the table together.      *)
TableInv == TableSound /\ OnlyActiveIsOpen /\ TimerWhileActive

(* Steps that leave the table, the timers and the owners alone keep it, if  *)
(* a socket they touch is not opened and, in the table, not closed.         *)
LEMMA TableUnmoved ==
    ASSUME Types, TableInv, UNCHANGED active,
           \A x \in Connections :
               /\ connection'[x].device = connection[x].device
               /\ connection'[x].timer = connection[x].timer
               /\ \/ connection'[x].ws = connection[x].ws
                  \/ connection'[x].ws = "ending"
                  \/ connection'[x].ws = "closed" /\ connection[x].ws = "upgrading"
    PROVE  TableInv'
  BY DEF Types, TableInv, TableSound, OnlyActiveIsOpen, TimerWhileActive

(* Steps that take one device's connection out of the table keep it, if     *)
(* they stop its timer and it is not open afterwards.                       *)
LEMMA TableRemoved ==
    ASSUME Types, TableInv, NEW d \in Devices, NEW c \in Connections,
           connection[c].device = d,
           active' = [active EXCEPT ![d] = IF @ = c THEN None ELSE @],
           ~connection'[c].timer, connection'[c].ws # "open",
           \A x \in Connections \ {c} : connection'[x] = connection[x],
           connection'[c].device = d
    PROVE  TableInv'
  <1> USE RelayAssumption DEF Types, TableInv, TableSound, OnlyActiveIsOpen, TimerWhileActive
  <1>1. \A e \in Devices : active'[e] # None => active'[e] = active[e] /\ active[e] # c
    OBVIOUS
  <1>2. \A e \in Devices : active[e] # c => active'[e] = active[e]
    OBVIOUS
  <1>3. TableSound'
    BY <1>1
  <1>4. OnlyActiveIsOpen'
    BY <1>2
  <1>5. TimerWhileActive'
    BY <1>1, <1>2
  <1> QED
    BY <1>3, <1>4, <1>5

(* A connection's own steps keep the table. *)
LEMMA ConnectionKeepsTable ==
    ASSUME Types, Owned, TableInv, NEW c \in Connections, ConnectionStep(c)
    PROVE  TableInv'
  <1> USE RelayAssumption DEF Types
  <1>0. connection[c] \in RelayConnection
    OBVIOUS
  <1>1. CASE \E d \in Devices : UpgradeBegin(c, d)
    <2>1. /\ connection'[c].ws = "upgrading"
          /\ ~connection'[c].timer
          /\ \A x \in Connections \ {c} : connection'[x] = connection[x]
          /\ active' = active
          /\ connection[c].ws \in {"none", "closed"}
      BY <1>1 DEF UpgradeBegin, NoConnection
    <2>2. \A d \in Devices : active[d] # c
      BY <2>1 DEF TableInv, TableSound
    <2> QED
      BY <2>1, <2>2 DEF TableInv, TableSound, OnlyActiveIsOpen, TimerWhileActive
  <1>2. CASE BindConnection(c)
    <2> DEFINE d == connection[c].device
               old == active[d]
    <2>1. d \in Devices /\ connection[c].ws = "upgrading"
      BY <1>2 DEF BindConnection, Owned
    <2>2. \A e \in Devices : active[e] # c
      BY <2>1 DEF TableInv, TableSound
    <2>3. /\ connection'[c].ws = "open"
          /\ connection'[c].timer
          /\ connection'[c].device = d
      BY <1>0, <1>2 DEF BindConnection, Opened, RelayConnection
    <2>4. old # None => /\ old \in Connections
                        /\ old # c
                        /\ ~connection'[old].timer
                        /\ connection'[old].ws # "open"
      <3> SUFFICES ASSUME old # None
                   PROVE  /\ old \in Connections
                          /\ old # c
                          /\ ~connection'[old].timer
                          /\ connection'[old].ws # "open"
        OBVIOUS
      <3>1. old \in Connections /\ old # c
        BY <2>1, <2>2
      <3>2. connection'[old] = Replaced(connection[old])
        BY <1>2, <3>1 DEF BindConnection
      <3>3. connection[old] \in RelayConnection
        BY <3>1
      <3> QED
        BY <3>1, <3>2, <3>3 DEF Replaced, Stopped, Closed, RelayConnection
    <2>5. \A x \in Connections : x # c /\ x # old => connection'[x] = connection[x]
      BY <1>2 DEF BindConnection
    <2>6. active'[d] = c /\ \A e \in Devices \ {d} : active'[e] = active[e]
      BY <1>2, <2>1 DEF BindConnection
    <2>7. \A e \in Devices \ {d} : active[e] # None => active[e] # old
      BY <2>1 DEF TableInv, TableSound
    <2> HIDE DEF d, old
    <2>8. TableSound'
      BY <2>1, <2>2, <2>3, <2>5, <2>6, <2>7 DEF TableInv, TableSound
    <2>9. OnlyActiveIsOpen'
      <3> SUFFICES ASSUME NEW x \in Connections, connection'[x].ws = "open"
                   PROVE  active'[connection'[x].device] = x
        BY DEF OnlyActiveIsOpen
      <3>1. CASE x = c
        BY <2>3, <2>6, <3>1
      <3>2. CASE x # c
        <4>1. x # old /\ connection'[x] = connection[x]
          BY <2>4, <2>5, <3>2
        <4>2. active[connection[x].device] = x
          BY <4>1 DEF TableInv, OnlyActiveIsOpen
        <4>3. connection[x].device \in Devices /\ connection[x].device # d
          BY <4>1, <4>2 DEF Owned, old
        <4> QED
          BY <2>6, <4>1, <4>2, <4>3
      <3> QED
        BY <3>1, <3>2
    <2>10. TimerWhileActive'
      <3> SUFFICES ASSUME NEW x \in Connections
                   PROVE  connection'[x].timer <=> \E e \in Devices : active'[e] = x
        BY DEF TimerWhileActive
      <3>1. CASE x = c
        BY <2>1, <2>3, <2>6, <3>1
      <3>2. CASE x = old /\ x # c
        BY <2>1, <2>4, <2>6, <2>7, <3>2
      <3>3. CASE x # old /\ x # c
        BY <2>1, <2>5, <2>6, <3>3 DEF TableInv, TimerWhileActive, old
      <3> QED
        BY <3>1, <3>2, <3>3
    <2> QED
      BY <2>8, <2>9, <2>10 DEF TableInv
  <1>3. CASE UpgradeAborted(c) \/ PeerCloses(c) \/ ReceivePong(c) \/ ReceiveHello(c) \/ SendPing(c)
    <2>1. \A x \in Connections :
               /\ connection'[x].device = connection[x].device
               /\ connection'[x].timer = connection[x].timer
               /\ \/ connection'[x].ws = connection[x].ws
                  \/ connection'[x].ws = "ending"
                  \/ connection'[x].ws = "closed" /\ connection[x].ws = "upgrading"
      <3> USE DEF RelayConnection
      <3>1. CASE UpgradeAborted(c) \/ PeerCloses(c)
        BY <3>1 DEF UpgradeAborted, PeerCloses
      <3>2. CASE ReceivePong(c)
        BY <3>2 DEF ReceivePong
      <3>4. CASE ReceiveHello(c)
        BY <3>4 DEF ReceiveHello
      <3>3. CASE SendPing(c)
        BY <3>3 DEF SendPing, Pinged
      <3> QED
        BY <1>3, <3>1, <3>2, <3>3, <3>4
    <2>2. UNCHANGED active
      BY <1>3 DEF UpgradeAborted, PeerCloses, ReceivePong, ReceiveHello, SendPing
    <2> QED
      BY <2>1, <2>2, TableUnmoved
  <1>4. CASE SocketError(c) \/ CloseEvent(c) \/ DropStale(c)
    <2>1. connection[c].ws # "none"
      BY <1>4 DEF SocketError, CloseEvent, DropStale, Beats, TableInv, TableSound,
                  TimerWhileActive
    <2>2. connection[c].device \in Devices
      BY <2>1 DEF Owned
    <2>3. /\ ~connection'[c].timer
          /\ connection'[c].ws # "open"
          /\ connection'[c].device = connection[c].device
          /\ \A x \in Connections \ {c} : connection'[x] = connection[x]
      <3> USE <1>0 DEF Stopped, Closed, RelayConnection
      <3>1. CASE SocketError(c)
        BY <3>1 DEF SocketError
      <3>2. CASE CloseEvent(c)
        BY <3>2 DEF CloseEvent
      <3>3. CASE DropStale(c)
        BY <3>3 DEF DropStale
      <3> QED
        BY <1>4, <3>1, <3>2, <3>3
    <2>4. active' = WithoutActive(c)
      BY <1>4 DEF SocketError, CloseEvent, DropStale
    <2> QED
      BY <2>2, <2>3, <2>4, TableRemoved DEF WithoutActive
  <1> QED
    BY <1>1, <1>2, <1>3, <1>4 DEF ConnectionStep

(* Every step keeps the table. *)
LEMMA TableStep ==
    ASSUME Types, Owned, TableInv, [Next]_vars
    PROVE  TableInv'
  <1> USE RelayAssumption DEF Types
  <1>1. CASE \E d \in Devices : RevokeDevice(d)
    <2> PICK d \in Devices : RevokeDevice(d)
      BY <1>1
    <2>1. active[d] \in Connections /\ connection[active[d]].device = d
      BY DEF RevokeDevice, TableInv, TableSound
    <2>2. /\ ~connection'[active[d]].timer
          /\ connection'[active[d]].ws # "open"
          /\ connection'[active[d]].device = d
          /\ \A x \in Connections \ {active[d]} : connection'[x] = connection[x]
      BY <2>1 DEF RevokeDevice, Stopped, Closed, RelayConnection
    <2>3. active' = [active EXCEPT ![d] = IF @ = active[d] THEN None ELSE @]
      BY DEF RevokeDevice
    <2> QED
      BY <2>1, <2>2, <2>3, TableRemoved
  <1>2. CASE CloseAll
    <2>1. \A d \in Devices : active'[d] = None
      BY <1>2 DEF CloseAll
    <2>2. \A c \in Connections : ~connection'[c].timer /\ connection'[c].ws # "open"
      <3> SUFFICES ASSUME NEW c \in Connections
                   PROVE  ~connection'[c].timer /\ connection'[c].ws # "open"
        OBVIOUS
      <3>1. CASE \E d \in Devices : active[d] = c
        BY <1>2, <3>1 DEF CloseAll, Stopped, Closed, RelayConnection
      <3>2. CASE ~ \E d \in Devices : active[d] = c
        <4>1. connection'[c] = connection[c]
          BY <1>2, <3>2 DEF CloseAll
        <4>2. connection[c].ws # "open"
          BY <3>2 DEF TableInv, OnlyActiveIsOpen, Owned
        <4> QED
          BY <3>2, <4>1, <4>2 DEF TableInv, TimerWhileActive
      <3> QED
        BY <3>1, <3>2
    <2> QED
      BY <2>1, <2>2 DEF TableInv, TableSound, OnlyActiveIsOpen, TimerWhileActive
  <1>3. ASSUME NEW h, ProcessEnds(h)
        PROVE  TableInv'
    <2>1. \A d \in Devices : active'[d] = None
      BY <1>3 DEF ProcessEnds
    <2>2. \A c \in Connections : ~connection'[c].timer /\ connection'[c].ws # "open"
      <3> SUFFICES ASSUME NEW c \in Connections
                   PROVE  ~connection'[c].timer /\ connection'[c].ws # "open"
        OBVIOUS
      <3>1. CASE connection[c].ws = "none"
        <4>1. connection'[c] = connection[c]
          BY <1>3, <3>1 DEF ProcessEnds
        <4>2. ~connection[c].timer
          BY <3>1 DEF TableInv, TableSound, TimerWhileActive
        <4> QED
          BY <3>1, <4>1, <4>2
      <3>2. CASE connection[c].ws # "none"
        BY <1>3, <3>2 DEF ProcessEnds, Stopped, RelayConnection
      <3> QED
        BY <3>1, <3>2
    <2> QED
      BY <2>1, <2>2 DEF TableInv, TableSound, OnlyActiveIsOpen, TimerWhileActive
  <1>4. CASE UNCHANGED <<connection, active>>
    BY <1>4, TableUnmoved
  <1>5. CASE \E h \in Requests : RequestStep(h)
    <2> PICK h \in Requests : RequestStep(h)
      BY <1>5
    <2>1. CASE \E c \in Connections, p \in Prompts : ReceiveResume(h, c, p)
      <3>1. \A x \in Connections :
               /\ connection'[x].device = connection[x].device
               /\ connection'[x].timer = connection[x].timer
               /\ connection'[x].ws = connection[x].ws
        BY <2>1 DEF ReceiveResume, RelayConnection
      <3>2. UNCHANGED active
        BY <2>1 DEF ReceiveResume
      <3> QED
        BY <3>1, <3>2, TableUnmoved
    <2> QED
      BY <1>3, <1>4, <2>1, RequestsAreQuiet DEF Quiet
  <1> QED
    BY <1>1, <1>2, <1>3, <1>4, <1>5, ConnectionKeepsTable
    DEF Next, vars, Tick, CleanupPromptResults, BridgeRestart

-----------------------------------------------------------------------------
(* The clock. *)

(* Multiples of a bound, which the solver is then told once.                *)
LEMMA Multiples ==
    \A m, k \in Nat : m * k \in Nat /\ (m + 1) * k = m * k + k
  OBVIOUS

(* A smaller count has a smaller multiple.                                  *)
LEMMA MultiplesGrow ==
    \A m, n, k \in Nat : m + 1 <= n => (m + 1) * k <= n * k
  OBVIOUS

(* The threshold is a number.                                               *)
LEMMA StaleAfterNat == StaleAfter \in Nat
  BY RelayAssumption, Multiples DEF StaleAfter

ClockOf(r, t) == r.timer =>
    /\ r.lastPongAt <= t
    /\ t <= r.beatAt + TimerLag
    /\ r.beatAt <= t + HeartbeatInterval
    /\ r.beatAt <= r.lastPongAt + StaleAfter + HeartbeatInterval
    /\ r.beatAt <= r.lastPongAt + HeartbeatInterval
                     + r.missed * (HeartbeatInterval + TimerLag)

(* What a bind, a ping and a pong do to the times of a connection.          *)
LEMMA ClockUpdates ==
    ASSUME NEW r \in RelayConnection, now \in Nat, ClockOf(r, now)
    PROVE  /\ ClockOf(Opened(r), now)
           /\ (r.timer /\ r.beatAt <= now /\ now - r.lastPongAt <= StaleAfter)
                  => ClockOf(Pinged(r), now)
           /\ ClockOf([r EXCEPT !.lastPongAt = now, !.missed = 0], now)
  <1> DEFINE K == HeartbeatInterval + TimerLag
             P == r.missed * K
  <1>1. /\ HeartbeatInterval \in Nat
        /\ TimerLag \in Nat
        /\ K \in Nat
        /\ r.lastPongAt \in Nat
        /\ r.beatAt \in Nat
        /\ r.missed \in Nat
    BY RelayAssumption DEF RelayConnection
  <1>2. P \in Nat /\ (r.missed + 1) * K = P + K /\ 0 * K = 0
    BY <1>1, Multiples
  <1>3. ClockOf(Opened(r), now)
    <2>1. /\ Opened(r).lastPongAt = now
          /\ Opened(r).beatAt = now + HeartbeatInterval
          /\ Opened(r).missed = r.missed
      BY DEF Opened, RelayConnection
    <2> HIDE DEF K
    <2>2. r.missed * (HeartbeatInterval + TimerLag) = P
      BY DEF K
    <2> HIDE DEF P
    <2> QED
      BY <1>1, <1>2, <2>1, <2>2, StaleAfterNat DEF ClockOf
  <1>4. ASSUME r.timer, r.beatAt <= now, now - r.lastPongAt <= StaleAfter
        PROVE  ClockOf(Pinged(r), now)
    <2>1. /\ Pinged(r).lastPongAt = r.lastPongAt
          /\ Pinged(r).beatAt = now + HeartbeatInterval
          /\ Pinged(r).missed = r.missed + 1
      BY DEF Pinged, RelayConnection
    <2>2. now <= r.beatAt + TimerLag /\ r.lastPongAt <= now
      BY <1>4 DEF ClockOf
    <2>3. r.beatAt <= r.lastPongAt + HeartbeatInterval + P
      BY <1>4 DEF ClockOf
    <2>4. (r.missed + 1) * (HeartbeatInterval + TimerLag) = P + HeartbeatInterval + TimerLag
      <3>1. (r.missed + 1) * K = P + K
        BY <1>2
      <3> HIDE DEF P
      <3> QED
        BY <1>1, <1>2, <3>1
    <2> HIDE DEF P, K
    <2>5. now + HeartbeatInterval <= r.lastPongAt + StaleAfter + HeartbeatInterval
      BY <1>1, <1>4, StaleAfterNat
    <2>6. now + HeartbeatInterval
             <= r.lastPongAt + HeartbeatInterval + (P + HeartbeatInterval + TimerLag)
      BY <1>1, <1>2, <2>2, <2>3
    <2> QED
      BY <1>1, <2>1, <2>2, <2>4, <2>5, <2>6 DEF ClockOf
  <1>5. ClockOf([r EXCEPT !.lastPongAt = now, !.missed = 0], now)
    <2> DEFINE s == [r EXCEPT !.lastPongAt = now, !.missed = 0]
    <2>1. s.lastPongAt = now /\ s.beatAt = r.beatAt /\ s.missed = 0 /\ s.timer = r.timer
      BY DEF RelayConnection
    <2> HIDE DEF s
    <2>2. ClockOf(s, now)
      BY <1>1, <1>2, <2>1, StaleAfterNat DEF ClockOf
    <2> QED
      BY <2>2 DEF s
  <1> QED
    BY <1>3, <1>4, <1>5

SameClock(r, s) ==
    /\ s.timer = r.timer
    /\ s.lastPongAt = r.lastPongAt
    /\ s.beatAt = r.beatAt
    /\ s.missed = r.missed

(* Steps that stop timers or leave them alone keep the clock.               *)
LEMMA ClockKept ==
    ASSUME ClockSound, UNCHANGED now,
           \A x \in Connections :
               ~connection'[x].timer \/ SameClock(connection[x], connection'[x])
    PROVE  ClockSound'
  BY DEF ClockSound, SameClock, StaleAfter

(* A connection's own steps keep the clock. *)
LEMMA ConnectionKeepsClock ==
    ASSUME Types, ClockSound, NEW c \in Connections, ConnectionStep(c)
    PROVE  ClockSound'
  <1> USE DEF Types
  <1>0. \A x \in Connections :
            connection[x] \in RelayConnection /\ ClockOf(connection[x], now)
    BY DEF ClockSound, ClockOf
  <1>1. ASSUME UNCHANGED now,
               \A x \in Connections :
                   \/ ~connection'[x].timer
                   \/ connection'[x] = connection[x]
                   \/ ClockOf(connection'[x], now)
        PROVE  ClockSound'
    BY <1>0, <1>1 DEF ClockSound, ClockOf, StaleAfter
  <1>2. CASE BindConnection(c)
    <2>1. \A x \in Connections : ~Replaced(connection[x]).timer
      BY <1>0 DEF Replaced, Closed, Stopped, RelayConnection
    <2>2. ClockOf(Opened(connection[c]), now)
      BY <1>0, ClockUpdates
    <2>3. \A x \in Connections :
              \/ x = c /\ connection'[x] = Opened(connection[c])
              \/ connection'[x] = Replaced(connection[x])
              \/ connection'[x] = connection[x]
      BY <1>2 DEF BindConnection
    <2> QED
      BY <1>1, <1>2, <2>1, <2>2, <2>3 DEF BindConnection
  <1>3. CASE SendPing(c)
    <2>1. ClockOf(Pinged(connection[c]), now)
      BY <1>0, <1>3, ClockUpdates DEF SendPing, Beats
    <2> QED
      BY <1>1, <1>3, <2>1 DEF SendPing
  <1>4. CASE ReceivePong(c)
    <2>1. ClockOf([connection[c] EXCEPT !.lastPongAt = now, !.missed = 0], now)
      BY <1>0, ClockUpdates
    <2> QED
      BY <1>1, <1>4, <2>1 DEF ReceivePong
  <1>5. CASE \E d \in Devices : UpgradeBegin(c, d)
    BY <1>1, <1>5 DEF UpgradeBegin, NoConnection
  <1>6. CASE UpgradeAborted(c)
    BY <1>0, <1>6, ClockKept DEF UpgradeAborted, SameClock, RelayConnection
  <1>7. CASE PeerCloses(c)
    BY <1>0, <1>7, ClockKept DEF PeerCloses, SameClock, RelayConnection
  <1>8. CASE ReceiveHello(c)
    BY <1>0, <1>8, ClockKept DEF ReceiveHello, SameClock, RelayConnection
  <1>9. CASE SocketError(c)
    BY <1>0, <1>1, <1>9 DEF SocketError, Stopped, RelayConnection
  <1>10. CASE CloseEvent(c)
    BY <1>0, <1>1, <1>10 DEF CloseEvent, Stopped, RelayConnection
  <1>11. CASE DropStale(c)
    BY <1>0, <1>1, <1>11 DEF DropStale, Stopped, Closed, RelayConnection
  <1> QED
    BY <1>2, <1>3, <1>4, <1>5, <1>6, <1>7, <1>8, <1>9, <1>10, <1>11 DEF ConnectionStep

(* Every step keeps the clock. *)
LEMMA ClockStep ==
    ASSUME Types, ClockSound, [Next]_vars
    PROVE  ClockSound'
  <1> USE DEF Types
  <1>1. CASE \E d \in Devices : RevokeDevice(d)
    <2> PICK d \in Devices : RevokeDevice(d)
      BY <1>1
    <2>1. active[d] \in Connections
      BY DEF RevokeDevice
    <2>2. \A x \in Connections :
              ~connection'[x].timer \/ SameClock(connection[x], connection'[x])
      BY <2>1 DEF RevokeDevice, Stopped, Closed, SameClock, RelayConnection
    <2> QED
      BY <2>2, ClockKept DEF RevokeDevice
  <1>2. CASE CloseAll
    <2>1. \A x \in Connections :
              ~connection'[x].timer \/ SameClock(connection[x], connection'[x])
      BY <1>2 DEF CloseAll, Stopped, Closed, SameClock, RelayConnection
    <2> QED
      BY <1>2, <2>1, ClockKept DEF CloseAll
  <1>3. ASSUME NEW h, ProcessEnds(h)
        PROVE  ClockSound'
    <2>1. \A x \in Connections :
              ~connection'[x].timer \/ SameClock(connection[x], connection'[x])
      BY <1>3 DEF ProcessEnds, Stopped, SameClock, RelayConnection
    <2> QED
      BY <1>3, <2>1, ClockKept DEF ProcessEnds
  <1>4. CASE UNCHANGED <<now, connection>>
    BY <1>4 DEF ClockSound
  <1>5. CASE Tick
    <2> SUFFICES ASSUME NEW c \in Connections, connection[c].timer
                 PROVE  ClockOf(connection[c], now + 1)
      BY <1>5 DEF ClockSound, ClockOf, Tick
    <2>1. /\ connection[c].lastPongAt \in Nat
          /\ connection[c].beatAt \in Nat
          /\ TimerLag \in Nat
          /\ HeartbeatInterval \in Nat
      BY RelayAssumption DEF RelayConnection
    <2>2. now < connection[c].beatAt + TimerLag
      BY <1>5 DEF Tick
    <2>3. ClockOf(connection[c], now)
      BY DEF ClockSound, ClockOf
    <2> QED
      BY <2>1, <2>2, <2>3 DEF ClockOf
  <1>6. CASE \E h \in Requests : RequestStep(h)
    <2> PICK h \in Requests : RequestStep(h)
      BY <1>6
    <2>1. CASE \E c \in Connections, p \in Prompts : ReceiveResume(h, c, p)
      <3>1. \A x \in Connections : SameClock(connection[x], connection'[x])
        BY <2>1 DEF ReceiveResume, SameClock, RelayConnection
      <3> QED
        BY <2>1, <3>1, ClockKept DEF ReceiveResume
    <2> QED
      BY <1>3, <1>4, <2>1, RequestsAreQuiet DEF Quiet
  <1> QED
    BY <1>1, <1>2, <1>3, <1>4, <1>5, <1>6, ConnectionKeepsClock
    DEF Next, vars, CleanupPromptResults, BridgeRestart

-----------------------------------------------------------------------------
(* Stale connections. *)

(* A connection closed as stale keeps the misses that earned it: its timer  *)
(* has stopped, and it is not open again.                                   *)
StaleOf(r) == r.code = "stale" =>
    /\ ~r.timer
    /\ r.missed >= StaleMissCount
    /\ r.ws \in {"closing", "ending", "closed"}

StaleSound == \A c \in Connections : StaleOf(connection[c])

(* A drop was earned, if the timer's lag over StaleMissCount beats does not *)
(* use up the time that a pong is given.                                    *)
LEMMA DropIsEarned ==
    ASSUME StaleMissCount * TimerLag <= PongTimeout,
           Types, ClockSound, NEW c \in Connections, DropStale(c)
    PROVE  connection[c].missed >= StaleMissCount
  <1> DEFINE K == HeartbeatInterval + TimerLag
             m == connection[c].missed
  <1>1. /\ HeartbeatInterval \in Nat
        /\ TimerLag \in Nat
        /\ StaleMissCount \in Nat
        /\ PongTimeout \in Nat
        /\ K \in Nat
        /\ connection[c].lastPongAt \in Nat
        /\ connection[c].beatAt \in Nat
        /\ m \in Nat
        /\ now \in Nat
    BY RelayAssumption DEF Types, RelayConnection
  <1>2. /\ now <= connection[c].beatAt + TimerLag
        /\ connection[c].beatAt <= connection[c].lastPongAt + HeartbeatInterval + m * K
    BY DEF DropStale, Beats, ClockSound
  <1>3. now - connection[c].lastPongAt > StaleAfter
    BY DEF DropStale
  <1>4. m * K \in Nat /\ (m + 1) * K = m * K + K
    BY <1>1, Multiples
  <1>5. StaleMissCount * K = HeartbeatInterval * StaleMissCount + StaleMissCount * TimerLag
    BY <1>1
  <1>6. StaleMissCount * K <= StaleAfter
    <2>1. HeartbeatInterval * StaleMissCount \in Nat /\ StaleMissCount * TimerLag \in Nat
      BY <1>1, Multiples
    <2> QED
      BY <1>1, <1>5, <2>1 DEF StaleAfter
  <1>7. m + 1 <= StaleMissCount => (m + 1) * K <= StaleMissCount * K
    BY <1>1, MultiplesGrow
  <1>8. StaleMissCount * K \in Nat /\ StaleAfter \in Nat
    BY <1>1, Multiples, StaleAfterNat
  <1>9. StaleAfter < m * K + K
    <2>1. K = HeartbeatInterval + TimerLag
      OBVIOUS
    <2> HIDE DEF K, m
    <2> QED
      BY <1>1, <1>2, <1>3, <1>4, <1>8, <2>1
  <1> HIDE DEF K, m
  <1>10. ~(m + 1 <= StaleMissCount)
    <2> SUFFICES ASSUME m + 1 <= StaleMissCount
                 PROVE  FALSE
      OBVIOUS
    <2>1. m * K + K <= StaleMissCount * K
      BY <1>4, <1>7
    <2> QED
      BY <1>1, <1>4, <1>6, <1>8, <1>9, <2>1
  <1> QED
    BY <1>1, <1>10 DEF m

(* What the actions do to one connection keeps it so.                       *)
LEMMA StaleUpdates ==
    ASSUME NEW r \in RelayConnection, StaleOf(r)
    PROVE  /\ StaleOf(Stopped(r))
           /\ \A code \in {"replaced", "revoked", "restart"} :
                  StaleOf(Stopped(Closed(r, code)))
           /\ r.missed >= StaleMissCount => StaleOf(Stopped(Closed(r, "stale")))
           /\ r.ws = "upgrading" => StaleOf(Opened(r))
           /\ r.timer => StaleOf(Pinged(r))
           /\ r.timer => StaleOf([r EXCEPT !.lastPongAt = now, !.missed = 0])
           /\ StaleOf([r EXCEPT !.readySent = TRUE])
           /\ \A s \in {"ending", "closed"} : StaleOf([r EXCEPT !.ws = s])
           /\ \A s \in {"ending", "closed"} : StaleOf([Stopped(r) EXCEPT !.ws = s])
  <1> USE DEF StaleOf, RelayConnection
  <1>1. StaleOf(Stopped(r)) /\ \A s \in {"ending", "closed"} : StaleOf([Stopped(r) EXCEPT !.ws = s])
    BY DEF Stopped
  <1>2. /\ \A code \in {"replaced", "revoked", "restart"} : StaleOf(Stopped(Closed(r, code)))
        /\ r.missed >= StaleMissCount => StaleOf(Stopped(Closed(r, "stale")))
    BY DEF Stopped, Closed
  <1>3. r.ws = "upgrading" => StaleOf(Opened(r))
    BY DEF Opened
  <1>4. r.timer => StaleOf(Pinged(r))
    BY DEF Pinged
  <1>5. /\ r.timer => StaleOf([r EXCEPT !.lastPongAt = now, !.missed = 0])
        /\ StaleOf([r EXCEPT !.readySent = TRUE])
        /\ \A s \in {"ending", "closed"} : StaleOf([r EXCEPT !.ws = s])
    OBVIOUS
  <1> QED
    BY <1>1, <1>2, <1>3, <1>4, <1>5

(* Every step keeps what stale connections have earned. *)
LEMMA StaleStep ==
    ASSUME StaleMissCount * TimerLag <= PongTimeout,
           Types, ClockSound, StaleSound, [Next]_vars
    PROVE  StaleSound'
  <1> USE DEF Types
  <1>0. \A x \in Connections : connection[x] \in RelayConnection /\ StaleOf(connection[x])
    BY DEF StaleSound
  <1>1. ASSUME \A x \in Connections :
                   connection'[x] = connection[x] \/ StaleOf(connection'[x])
        PROVE  StaleSound'
    BY <1>0, <1>1 DEF StaleSound, StaleOf
  <1>2. ASSUME NEW c \in Connections, ConnectionStep(c)
        PROVE  StaleSound'
    <2>1. CASE \E d \in Devices : UpgradeBegin(c, d)
      BY <1>1, <2>1 DEF UpgradeBegin, NoConnection, StaleOf
    <2>2. CASE UpgradeAborted(c)
      <3>1. connection' = [connection EXCEPT ![c] = [connection[c] EXCEPT !.ws = "closed"]]
        BY <2>2 DEF UpgradeAborted
      <3>2. StaleOf([connection[c] EXCEPT !.ws = "closed"])
        BY <1>0, StaleUpdates
      <3> QED
        BY <1>1, <3>1, <3>2
    <2>3. CASE BindConnection(c)
      <3>1. StaleOf(Opened(connection[c]))
        BY <1>0, <2>3, StaleUpdates DEF BindConnection
      <3>2. \A x \in Connections : StaleOf(Replaced(connection[x]))
        BY <1>0, StaleUpdates DEF Replaced
      <3> QED
        BY <1>1, <2>3, <3>1, <3>2 DEF BindConnection
    <2>4. CASE PeerCloses(c)
      <3>1. connection' = [connection EXCEPT ![c] = [connection[c] EXCEPT !.ws = "ending"]]
        BY <2>4 DEF PeerCloses
      <3>2. StaleOf([connection[c] EXCEPT !.ws = "ending"])
        BY <1>0, StaleUpdates
      <3> QED
        BY <1>1, <3>1, <3>2
    <2>5. CASE SocketError(c) \/ CloseEvent(c)
      <3>1. \A s \in {"ending", "closed"} : StaleOf([Stopped(connection[c]) EXCEPT !.ws = s])
        BY <1>0, StaleUpdates
      <3> QED
        BY <1>1, <2>5, <3>1 DEF SocketError, CloseEvent
    <2>6. CASE SendPing(c)
      <3>1. StaleOf(Pinged(connection[c]))
        BY <1>0, <2>6, StaleUpdates DEF SendPing, Beats
      <3> QED
        BY <1>1, <2>6, <3>1 DEF SendPing
    <2>7. CASE DropStale(c)
      <3>1. StaleOf(Stopped(Closed(connection[c], "stale")))
        BY <1>0, <2>7, DropIsEarned, StaleUpdates
      <3> QED
        BY <1>1, <2>7, <3>1 DEF DropStale
    <2>8. CASE ReceivePong(c)
      <3>1. StaleOf([connection[c] EXCEPT !.lastPongAt = now, !.missed = 0])
        BY <1>0, <2>8, StaleUpdates DEF ReceivePong
      <3> QED
        BY <1>1, <2>8, <3>1 DEF ReceivePong
    <2>9. CASE ReceiveHello(c)
      <3>1. connection' = [connection EXCEPT ![c] = [connection[c] EXCEPT !.readySent = TRUE]]
        BY <2>9 DEF ReceiveHello
      <3>2. StaleOf([connection[c] EXCEPT !.readySent = TRUE])
        BY <1>0, StaleUpdates
      <3> QED
        BY <1>1, <3>1, <3>2
    <2> QED
      BY <1>2, <2>1, <2>2, <2>3, <2>4, <2>5, <2>6, <2>7, <2>8, <2>9 DEF ConnectionStep
  <1>3. ASSUME NEW h, ProcessEnds(h)
        PROVE  StaleSound'
    <2>1. \A x \in Connections : StaleOf([Stopped(connection[x]) EXCEPT !.ws = "closed"])
      BY <1>0, StaleUpdates
    <2> QED
      BY <1>1, <1>3, <2>1 DEF ProcessEnds
  <1>4. CASE \E h \in Requests : RequestStep(h)
    <2> PICK h \in Requests : RequestStep(h)
      BY <1>4
    <2>1. CASE \E c \in Connections, p \in Prompts : ReceiveResume(h, c, p)
      <3> PICK c \in Connections, p \in Prompts : ReceiveResume(h, c, p)
        BY <2>1
      <3>1. connection' = [connection EXCEPT ![c] = [connection[c] EXCEPT !.readySent = TRUE]]
        BY DEF ReceiveResume
      <3>2. StaleOf([connection[c] EXCEPT !.readySent = TRUE])
        BY <1>0, StaleUpdates
      <3> QED
        BY <1>1, <3>1, <3>2
    <2> QED
      BY <1>1, <1>3, <2>1, RequestsAreQuiet DEF Quiet
  <1>5. CASE \E d \in Devices : RevokeDevice(d)
    <2> PICK d \in Devices : RevokeDevice(d)
      BY <1>5
    <2>1. StaleOf(Stopped(Closed(connection[active[d]], "revoked")))
      BY <1>0, StaleUpdates DEF RevokeDevice
    <2> QED
      BY <1>1, <2>1 DEF RevokeDevice
  <1>6. CASE CloseAll
    <2>1. \A x \in Connections : StaleOf(Stopped(Closed(connection[x], "restart")))
      BY <1>0, StaleUpdates
    <2> QED
      BY <1>1, <1>6, <2>1 DEF CloseAll
  <1>7. CASE UNCHANGED connection
    BY <1>1, <1>7
  <1> QED
    BY <1>2, <1>3, <1>4, <1>5, <1>6, <1>7
    DEF Next, vars, Tick, CleanupPromptResults, BridgeRestart

-----------------------------------------------------------------------------
(* The theorems. *)

(* The invariant is inductive.                                              *)
LEMMA Inductive == Spec => []IndInv
  <1>1. IndInv /\ [Next]_vars => IndInv'
    BY TypesStep, OwnedStep, TableStep, ClockStep DEF IndInv, TableInv
  <1> QED
    BY InitInv, <1>1, PTL DEF Spec

(* Whatever the table of connections names is an opened socket of that      *)
(* device whose close event has not come, and every value has its type.     *)
THEOREM RelayTypeCorrect == Spec => []TypeOK
  <1>1. IndInv => TypeOK
    BY DEF IndInv, TypeOK
  <1> QED
    BY Inductive, <1>1, PTL

(* The newest websocket wins, and the table finds every open one, for any   *)
(* number of devices and connections and whenever close events arrive.      *)
THEOREM OpenSocketsAreActive == Spec => []OnlyActiveIsOpen
  <1>1. IndInv => OnlyActiveIsOpen
    BY DEF IndInv
  <1> QED
    BY Inductive, <1>1, PTL

(* No heartbeat timer outlives its entry in the table, and no entry is      *)
(* without one.                                                             *)
THEOREM TimersFollowTheTable == Spec => []TimerWhileActive
  <1>1. IndInv => TimerWhileActive
    BY DEF IndInv
  <1> QED
    BY Inductive, <1>1, PTL

(* A silent client is dropped within the stale threshold, one interval and  *)
(* the lag of the timer, whatever the intervals are.                        *)
THEOREM SilenceIsDetected == Spec => []SilenceIsBounded
  <1>1. IndInv => SilenceIsBounded
    <2> SUFFICES ASSUME IndInv, NEW c \in Connections, connection[c].timer
                 PROVE  now <= connection[c].lastPongAt
                                 + HeartbeatInterval * (StaleMissCount + 1)
                                 + PongTimeout + TimerLag
      BY DEF SilenceIsBounded
    <2>1. /\ connection[c].lastPongAt \in Nat
          /\ connection[c].beatAt \in Nat
          /\ now \in Nat
      BY DEF IndInv, Types, RelayConnection
    <2>2. /\ now <= connection[c].beatAt + TimerLag
          /\ connection[c].beatAt
               <= connection[c].lastPongAt + StaleAfter + HeartbeatInterval
      BY DEF IndInv, ClockSound
    <2>3. HeartbeatInterval * (StaleMissCount + 1) + PongTimeout
            = StaleAfter + HeartbeatInterval
      BY RelayAssumption DEF StaleAfter
    <2>4. /\ HeartbeatInterval * (StaleMissCount + 1) \in Nat
          /\ StaleAfter \in Nat
          /\ PongTimeout \in Nat
          /\ HeartbeatInterval \in Nat
          /\ TimerLag \in Nat
      BY RelayAssumption, Multiples, StaleAfterNat
    <2> QED
      BY <2>1, <2>2, <2>3, <2>4
  <1> QED
    BY Inductive, <1>1, PTL

(* A client that answers is never dropped as stale, if the configuration    *)
(* leaves the pong timeout at least the lag of StaleMissCount timers.       *)
THEOREM AnsweringClientsStay ==
    ASSUME StaleMissCount * TimerLag <= PongTimeout
    PROVE  Spec => []DroppedOnlyAfterMisses
  <1>1. Init => StaleSound
    BY DEF Init, NoConnection, StaleSound, StaleOf
  <1>2. IndInv /\ StaleSound /\ [Next]_vars => StaleSound'
    BY StaleStep DEF IndInv
  <1>3. StaleSound => DroppedOnlyAfterMisses
    BY DEF StaleSound, StaleOf, DroppedOnlyAfterMisses
  <1> QED
    BY Inductive, <1>1, <1>2, <1>3, PTL DEF Spec

=============================================================================
