------------------------------- MODULE Relay -------------------------------
(***************************************************************************)
(* The relay (bridge/src/relay.ts): the websockets of the devices, their   *)
(* heartbeat, and the prompts that arrive over them or over POST /v1/turn  *)
(* (bridge/src/server.ts), with the table of remembered results they share.*)
(*                                                                         *)
(* Every await of a prompt handler is a step of its own: the lookup, the   *)
(* completion and the store of its result.  Whether a ticket is good is    *)
(* BridgeAuth's business; here an upgrade starts when its ticket has been  *)
(* consumed.  Texts, conversations and the token.expiring notice, which    *)
(* changes nothing but its own timer, are abstracted away: a text is named *)
(* by the request whose completion produced it.                            *)
(***************************************************************************)
EXTENDS Naturals, FiniteSets

CONSTANTS
    Devices,
    Connections,         \* connectionIds
    Prompts,             \* prompt_ids that clients choose
    Requests,            \* calls of handlePrompt, handleResume and POST /v1/turn
    None,
    HeartbeatInterval,   \* relayHeartbeatIntervalMs
    PongTimeout,         \* relayPongTimeoutMs
    StaleMissCount,      \* relayStaleMissCount
    TimerLag,            \* how late the event loop may run a timer
    Retention,           \* promptResultRetentionMs
    DurableStore,        \* bridgeStoreDriver = "postgres"
    MaxTime

ASSUME RelayAssumption ==
    /\ None \notin Connections \cup Requests \cup Prompts \cup Devices
    /\ HeartbeatInterval \in Nat \ {0}
    /\ PongTimeout \in Nat
    /\ StaleMissCount \in Nat
    /\ TimerLag \in Nat
    /\ Retention \in Nat
    /\ MaxTime \in Nat
    /\ DurableStore \in BOOLEAN

VARIABLES
    now,
    accepting,    \* the upgrade handler is attached
    connection,   \* connectionId -> RelayConnection
    active,       \* activeConnections
    request,      \* the live calls, and what became of the others
    results       \* <<deviceId, promptId>> -> PromptResultRecord

vars == <<now, accepting, connection, active, request, results>>

-----------------------------------------------------------------------------
(* State. *)

(* "closing": the server has closed the socket, but the peer may still be   *)
(* heard; "ending": the peer closed it or it broke, and only the close      *)
(* event is to come.                                                        *)
SocketStates == {"none", "upgrading", "open", "closing", "ending", "closed"}

(* 4009, 4003, 4011 and 4010. *)
CloseCodes == {"none", "replaced", "revoked", "stale", "restart"}

(* missed is history: the heartbeats since the last pong. *)
RelayConnection ==
    [device : Devices \cup {None}, ws : SocketStates, readySent : BOOLEAN,
     lastPongAt : Nat, timer : BOOLEAN, beatAt : Nat,
     code : CloseCodes, missed : Nat]

NoConnection ==
    [device |-> None, ws |-> "none", readySent |-> FALSE,
     lastPongAt |-> 0, timer |-> FALSE, beatAt |-> 0,
     code |-> "none", missed |-> 0]

Steps == {"none", "lookup", "found", "completing", "storing", "stored", "done"}

(* outcome is what the client was told: "unsent" if its socket was no       *)
(* longer open, "rejected" if the handler's own promise was rejected,       *)
(* "lost" if the process ended first, "failed" if a turn got an error.      *)
Outcomes == {"none", "final", "interrupted", "unsent", "rejected", "lost", "failed"}

(* known is history: a result was stored when the request arrived, and has  *)
(* not been cleaned up since.                                               *)
Request ==
    [kind : {"none", "prompt", "resume", "turn"},
     device : Devices \cup {None}, connection : Connections \cup {None},
     prompt : Prompts \cup {None}, step : Steps,
     text : Requests \cup {None}, createdAt : Nat,
     known : BOOLEAN, outcome : Outcomes]

NoRequest ==
    [kind |-> "none", device |-> None, connection |-> None,
     prompt |-> None, step |-> "none", text |-> None, createdAt |-> 0,
     known |-> FALSE, outcome |-> "none"]

PromptResult == [text : Requests \cup {None}, createdAt : Nat]

NoResult == [text |-> None, createdAt |-> 0]

Init ==
    /\ now = 0
    /\ accepting = TRUE
    /\ connection = [c \in Connections |-> NoConnection]
    /\ active = [d \in Devices |-> None]
    /\ request = [h \in Requests |-> NoRequest]
    /\ results = [k \in Devices \X Prompts |-> NoResult]

Key(h) == <<request[h].device, request[h].prompt>>

Pending(h) == request[h].step \notin {"none", "done"}

-----------------------------------------------------------------------------
(* Connections. *)

(* ws.close(code): nothing happens to a socket that is not open. *)
Closed(r, code) ==
    IF r.ws = "open" THEN [r EXCEPT !.ws = "closing", !.code = code] ELSE r

(* cleanupConnection, its clearInterval.  Nobody reads the times of a        *)
(* connection without a timer, so they are forgotten here.                  *)
Stopped(r) == [r EXCEPT !.timer = FALSE, !.lastPongAt = 0, !.beatAt = 0]

\* Mutant of WithoutActive: whichever connection the entry names.
WithoutActiveAny(c) == [active EXCEPT ![connection[c].device] = None]

(* cleanupConnection, its delete: only the entry that is still c's. *)
WithoutActive(c) ==
    [active EXCEPT ![connection[c].device] = IF @ = c THEN None ELSE @]

(* consumeWebSocketTicket has let the upgrade through.  Ids are fresh: an   *)
(* id whose socket is gone and that no handler holds stands for a new one.  *)
UpgradeBegin(c, d) ==
    /\ accepting
    /\ connection[c].ws \in {"none", "closed"}
    /\ \A h \in Requests : Pending(h) => request[h].connection # c
    /\ connection' = [connection EXCEPT
                        ![c] = [NoConnection EXCEPT !.ws = "upgrading", !.device = d]]
    /\ UNCHANGED <<now, accepting, active, request, results>>

(* The peer is gone before handleUpgrade, or the relay no longer accepts.   *)
UpgradeAborted(c) ==
    /\ connection[c].ws = "upgrading"
    /\ connection' = [connection EXCEPT ![c].ws = "closed"]
    /\ UNCHANGED <<now, accepting, active, request, results>>

\* Mutant of Opened: lastPongAtMs starts at nothing.
OpenedAtZero(r) ==
    [r EXCEPT !.ws = "open", !.lastPongAt = 0, !.timer = TRUE,
              !.beatAt = now + HeartbeatInterval]

Opened(r) ==
    [r EXCEPT !.ws = "open", !.lastPongAt = now, !.timer = TRUE,
              !.beatAt = now + HeartbeatInterval]

\* Mutant of Replaced: the socket is closed, the rest left to its close event.
ReplacedUncleaned(r) == Closed(r, "replaced")

(* What bindConnection does to the device's older connection. *)
Replaced(r) == Stopped(Closed(r, "replaced"))

BindConnection(c) ==
    /\ accepting
    /\ connection[c].ws = "upgrading"
    /\ connection' = [x \in Connections |->
                        IF x = c THEN Opened(connection[x])
                        ELSE IF x = active[connection[c].device]
                        THEN Replaced(connection[x])
                        ELSE connection[x]]
    /\ active' = [active EXCEPT ![connection[c].device] = c]
    /\ UNCHANGED <<now, accepting, request, results>>

(* The peer's close frame, or a socket that breaks without an error event.  *)
PeerCloses(c) ==
    /\ connection[c].ws = "open"
    /\ connection' = [connection EXCEPT ![c].ws = "ending"]
    /\ UNCHANGED <<now, accepting, active, request, results>>

SocketError(c) ==
    /\ connection[c].ws \in {"open", "closing"}
    /\ connection' = [connection EXCEPT ![c] = [Stopped(@) EXCEPT !.ws = "ending"]]
    /\ active' = WithoutActive(c)
    /\ UNCHANGED <<now, accepting, request, results>>

\* Mutant of CloseEvent: no handler for it.
CloseEventIgnored(c) ==
    /\ connection[c].ws \in {"closing", "ending"}
    /\ connection' = [connection EXCEPT ![c].ws = "closed"]
    /\ UNCHANGED <<now, accepting, active, request, results>>

(* The close event comes whenever the closing handshake ends, perhaps long  *)
(* after the device has another connection.                                 *)
CloseEvent(c) ==
    /\ connection[c].ws \in {"closing", "ending"}
    /\ connection' = [connection EXCEPT ![c] = [Stopped(@) EXCEPT !.ws = "closed"]]
    /\ active' = WithoutActive(c)
    /\ UNCHANGED <<now, accepting, request, results>>

(* RelayServer.revokeDevice; the store's part is BridgeAuth's RevokeDevice. *)
RevokeDevice(d) ==
    /\ active[d] # None
    /\ connection' = [connection EXCEPT ![active[d]] = Stopped(Closed(@, "revoked"))]
    /\ active' = [active EXCEPT ![d] = None]
    /\ UNCHANGED <<now, accepting, request, results>>

CloseAll ==
    /\ accepting
    /\ accepting' = FALSE
    /\ connection' = [c \in Connections |->
                        IF \E d \in Devices : active[d] = c
                        THEN Stopped(Closed(connection[c], "restart"))
                        ELSE connection[c]]
    /\ active' = [d \in Devices |-> None]
    /\ UNCHANGED <<now, request, results>>

-----------------------------------------------------------------------------
(* Heartbeat. *)

\* Mutant of StaleAfter: one miss too many.
StaleAfterOneMore == HeartbeatInterval * (StaleMissCount + 1) + PongTimeout

(* sendHeartbeat's staleAfterMs. *)
StaleAfter == HeartbeatInterval * StaleMissCount + PongTimeout

Beats(c) == connection[c].timer /\ connection[c].beatAt <= now

\* Mutant of Pinged: a timeout where an interval was meant.
PingedOnce(r) == [r EXCEPT !.timer = FALSE, !.missed = @ + 1]

(* The interval timer is armed again. *)
Pinged(r) == [r EXCEPT !.beatAt = now + HeartbeatInterval, !.missed = @ + 1]

(* sendHeartbeat, when the connection is not stale: a ping. *)
SendPing(c) ==
    /\ Beats(c)
    /\ now - connection[c].lastPongAt <= StaleAfter
    /\ connection' = [connection EXCEPT ![c] = Pinged(@)]
    /\ UNCHANGED <<now, accepting, active, request, results>>

(* sendHeartbeat, when it is. *)
DropStale(c) ==
    /\ Beats(c)
    /\ now - connection[c].lastPongAt > StaleAfter
    /\ connection' = [connection EXCEPT ![c] = Stopped(Closed(@, "stale"))]
    /\ active' = WithoutActive(c)
    /\ UNCHANGED <<now, accepting, request, results>>

(* Date.now() advances; a timer that is due runs within TimerLag. *)
Tick ==
    /\ now < MaxTime
    /\ \A c \in Connections :
           connection[c].timer => now < connection[c].beatAt + TimerLag
    /\ now' = now + 1
    /\ UNCHANGED <<accepting, connection, active, request, results>>

-----------------------------------------------------------------------------
(* Messages.  A socket that the server has closed is still heard. *)

Hears(c) == connection[c].ws \in {"open", "closing"}

(* Without a timer, lastPongAt is written and never read: see Stopped. *)
ReceivePong(c) ==
    /\ Hears(c)
    /\ connection[c].timer
    /\ connection' = [connection EXCEPT
                        ![c] = [@ EXCEPT !.lastPongAt = now, !.missed = 0]]
    /\ UNCHANGED <<now, accepting, active, request, results>>

(* sendReady; a resume without a pending prompt does no more either. *)
ReceiveHello(c) ==
    /\ Hears(c)
    /\ connection' = [connection EXCEPT ![c].readySent = TRUE]
    /\ UNCHANGED <<now, accepting, active, request, results>>

(* The handler has sent its lookup to the store. *)
Arrive(h, kind, d, c, p) ==
    /\ request[h].step = "none"
    /\ request' = [request EXCEPT ![h] =
                     [NoRequest EXCEPT
                        !.kind = kind, !.device = d, !.connection = c,
                        !.prompt = p, !.step = "lookup",
                        !.known = results[<<d, p>>].text # None]]

ReceiveResume(h, c, p) ==
    /\ Hears(c)
    /\ connection' = [connection EXCEPT ![c].readySent = TRUE]
    /\ Arrive(h, "resume", connection[c].device, c, p)
    /\ UNCHANGED <<now, accepting, active, results>>

(* A prompt before hello is only answered with an error. *)
ReceivePrompt(h, c, p) ==
    /\ Hears(c)
    /\ connection[c].readySent
    /\ Arrive(h, "prompt", connection[c].device, c, p)
    /\ UNCHANGED <<now, accepting, connection, active, results>>

(* POST /v1/turn with a good access token.  A request that was on its way   *)
(* when the server began to close is still served.                          *)
PostTurn(h, d, p) ==
    /\ Arrive(h, "turn", d, None, p)
    /\ UNCHANGED <<now, accepting, connection, active, results>>

-----------------------------------------------------------------------------
(* Prompts: each step of a handler runs when the await before it is over. *)

(* sendJson: only an open socket is written to. *)
Told(h, outcome) ==
    IF request[h].kind = "turn" \/ connection[request[h].connection].ws = "open"
    THEN outcome ELSE "unsent"

Finish(h, outcome) ==
    /\ request' = [request EXCEPT
                     ![h] = [@ EXCEPT !.step = "done", !.outcome = Told(h, outcome)]]
    /\ UNCHANGED <<now, accepting, connection, active, results>>

(* The store executes getPromptResult. *)
Lookup(h) ==
    /\ request[h].step = "lookup"
    /\ request' = [request EXCEPT
                     ![h] = [@ EXCEPT !.step = "found", !.text = results[Key(h)].text]]
    /\ UNCHANGED <<now, accepting, connection, active, results>>

ReplyKnown(h) ==
    /\ request[h].step = "found"
    /\ request[h].text # None
    /\ Finish(h, "final")

ReplyInterrupted(h) ==
    /\ request[h].step = "found"
    /\ request[h].text = None
    /\ request[h].kind = "resume"
    /\ Finish(h, "interrupted")

\* Mutant of AskOpenClaw: the lookup's answer is not looked at.
AskOpenClawAgain(h) ==
    /\ request[h].step = "found"
    /\ request[h].kind # "resume"
    /\ request' = [request EXCEPT ![h].step = "completing"]
    /\ UNCHANGED <<now, accepting, connection, active, results>>

AskOpenClaw(h) ==
    /\ request[h].step = "found"
    /\ request[h].text = None
    /\ request[h].kind # "resume"
    /\ request' = [request EXCEPT ![h].step = "completing"]
    /\ UNCHANGED <<now, accepting, connection, active, results>>

\* Mutant of CompletionArrives: the reply is sent and not remembered.
CompletionArrivesUnsaved(h) ==
    /\ request[h].step = "completing"
    /\ request' = [request EXCEPT
                     ![h] = [@ EXCEPT !.step = "stored", !.text = h, !.createdAt = now]]
    /\ UNCHANGED <<now, accepting, connection, active, results>>

(* createChatCompletion resolves; markPromptResult dates the record. *)
CompletionArrives(h) ==
    /\ request[h].step = "completing"
    /\ request' = [request EXCEPT
                     ![h] = [@ EXCEPT !.step = "storing", !.text = h, !.createdAt = now]]
    /\ UNCHANGED <<now, accepting, connection, active, results>>

(* The store executes the upsert: the last one wins. *)
StoreResult(h) ==
    /\ request[h].step = "storing"
    /\ results' = [results EXCEPT ![Key(h)] =
                     [text |-> h, createdAt |-> request[h].createdAt]]
    /\ request' = [request EXCEPT ![h].step = "stored"]
    /\ UNCHANGED <<now, accepting, connection, active>>

SendReply(h) ==
    /\ request[h].step = "stored"
    /\ Finish(h, "final")

(* cleanupExpired, its prompt results. *)
ResultExpired(k) ==
    results[k].text # None /\ results[k].createdAt + Retention <= now

CleanupPromptResults ==
    /\ \E k \in DOMAIN results : ResultExpired(k)
    /\ results' = [k \in DOMAIN results |-> IF ResultExpired(k) THEN NoResult ELSE results[k]]
    /\ request' = [h \in Requests |->
                     IF request[h].step # "none" /\ ResultExpired(Key(h))
                     THEN [request[h] EXCEPT !.known = FALSE] ELSE request[h]]
    /\ UNCHANGED <<now, accepting, connection, active>>

-----------------------------------------------------------------------------
(* Failures. *)

(* The process ends and systemd starts it again: connections and handlers   *)
(* were in memory, results may have been.                                   *)
ProcessEnds(h) ==
    /\ accepting' = TRUE
    /\ connection' = [c \in Connections |->
                        IF connection[c].ws = "none" THEN connection[c]
                        ELSE [Stopped(connection[c]) EXCEPT !.ws = "closed"]]
    /\ active' = [d \in Devices |-> None]
    /\ request' = [g \in Requests |->
                     IF Pending(g)
                     THEN [request[g] EXCEPT
                             !.step = "done",
                             !.outcome = IF g = h THEN "rejected" ELSE "lost"]
                     ELSE request[g]]
    /\ results' = IF DurableStore THEN results
                  ELSE [k \in DOMAIN results |-> NoResult]
    /\ UNCHANGED now

(* An error inside a handler.  The turn route catches it; onMessage is      *)
(* called with void, and an unhandled rejection ends a Node process.        *)
HandlerFails(h) ==
    \/ /\ request[h].kind = "turn"
       /\ Finish(h, "failed")
    \/ /\ request[h].kind # "turn"
       /\ ProcessEnds(h)

CompletionFails(h) ==
    /\ request[h].step = "completing"
    /\ HandlerFails(h)

\* A query that fails, before or after the store has executed it; a turn also
\* writes its device (touchDevice) once its result is stored.
StoreFails(h) ==
    /\ request[h].step \in {"lookup", "storing", "stored"}
    /\ HandlerFails(h)

BridgeRestart == ProcessEnds(None)

-----------------------------------------------------------------------------

ConnectionStep(c) ==
    \/ \E d \in Devices : UpgradeBegin(c, d)
    \/ UpgradeAborted(c)
    \/ BindConnection(c)
    \/ PeerCloses(c)
    \/ SocketError(c)
    \/ CloseEvent(c)
    \/ SendPing(c)
    \/ DropStale(c)
    \/ ReceivePong(c)
    \/ ReceiveHello(c)

RequestStep(h) ==
    \/ \E c \in Connections, p \in Prompts :
           ReceiveResume(h, c, p) \/ ReceivePrompt(h, c, p)
    \/ \E d \in Devices, p \in Prompts : PostTurn(h, d, p)
    \/ Lookup(h)
    \/ ReplyKnown(h)
    \/ ReplyInterrupted(h)
    \/ AskOpenClaw(h)
    \/ CompletionArrives(h)
    \/ StoreResult(h)
    \/ SendReply(h)
    \/ CompletionFails(h)
    \/ StoreFails(h)

Next ==
    \/ \E c \in Connections : ConnectionStep(c)
    \/ \E h \in Requests : RequestStep(h)
    \/ \E d \in Devices : RevokeDevice(d)
    \/ CloseAll
    \/ Tick
    \/ CleanupPromptResults
    \/ BridgeRestart

Spec == Init /\ [][Next]_vars

\* Mutant of Fairness: a completion may stay open for ever.
FairnessNoTimeout ==
    \A h \in Requests :
        /\ WF_vars(Lookup(h) \/ ReplyKnown(h) \/ ReplyInterrupted(h) \/ AskOpenClaw(h))
        /\ WF_vars(StoreResult(h) \/ SendReply(h))

(* The store answers, and so does OpenClaw or its client gives up: until    *)
(* the headers are there, after openclawRequestTimeoutMs; while the body is *)
(* read, after the timeout of fetch itself.  Nothing is assumed of clients, *)
(* sockets or operators.                                                    *)
Fairness ==
    \A h \in Requests :
        /\ WF_vars(Lookup(h) \/ ReplyKnown(h) \/ ReplyInterrupted(h) \/ AskOpenClaw(h))
        /\ WF_vars(StoreResult(h) \/ SendReply(h))
        /\ WF_vars(CompletionArrives(h) \/ CompletionFails(h))

FairSpec == Spec /\ Fairness

-----------------------------------------------------------------------------
(* Properties. *)

Types ==
    /\ now \in Nat
    /\ accepting \in BOOLEAN
    /\ connection \in [Connections -> RelayConnection]
    /\ active \in [Devices -> Connections \cup {None}]
    /\ request \in [Requests -> Request]
    /\ results \in [Devices \X Prompts -> PromptResult]

TableSound ==
    \A d \in Devices : active[d] # None =>
        /\ connection[active[d]].device = d
        /\ connection[active[d]].ws \in {"open", "ending"}

(* Types, and that the table of connections holds sockets that have been    *)
(* opened for that device and whose close event has not come.               *)
TypeOK == Types /\ TableSound

(* One websocket for each device, and the newest wins: a socket is open     *)
(* only while it is its device's entry in activeConnections, so that a      *)
(* revocation, a replacement or a shutdown finds every open socket, however *)
(* late the close events of older ones arrive.                              *)
OnlyActiveIsOpen ==
    \A c \in Connections :
        connection[c].ws = "open" => active[connection[c].device] = c

(* Exactly the connections in the table have a heartbeat timer: none leaks, *)
(* and none is without the check that would find it stale.                  *)
TimerWhileActive ==
    \A c \in Connections :
        connection[c].timer <=> \E d \in Devices : active[d] = c

(* A client that falls silent is disconnected: no connection of the table   *)
(* is without a pong for longer than the stale threshold and one more       *)
(* interval, at whose end the check runs.                                   *)
SilenceIsBounded ==
    \A c \in Connections :
        connection[c].timer =>
            now <= connection[c].lastPongAt + HeartbeatInterval * (StaleMissCount + 1)
                     + PongTimeout + TimerLag

(* A client that answers is not: a connection closed as stale has missed at *)
(* least StaleMissCount heartbeats in a row.                                *)
DroppedOnlyAfterMisses ==
    \A c \in Connections :
        connection[c].code = "stale" => connection[c].missed >= StaleMissCount

(* A prompt that is retried after its result was stored does not go to      *)
(* OpenClaw a second time, over whichever socket or route it comes.         *)
RetryIsFree ==
    \A h \in Requests : request[h].step = "completing" => ~request[h].known

TextExpired(g) == request[g].createdAt + Retention <= now

(* The text of request t is stored for key k; if not, it has expired, or     *)
(* another request stored its own over it: one that had arrived before there *)
(* was a result, and whose text is stored in its turn or has expired.        *)
Remembered(k, t) ==
    \/ results[k].text = t
    \/ TextExpired(t)
    \/ \E g \in Requests \ {t} :
           /\ Key(g) = k
           /\ request[g].text = g
           /\ ~request[g].known
           /\ results[k].text = g \/ TextExpired(g)

(* A reply that a client has seen is the reply it gets after a reconnect or  *)
(* a restart.  The same text stays in the store until it expires; only       *)
(* requests that overlapped, and asked OpenClaw as well, replace each        *)
(* other's: the last upsert wins.                                            *)
AnsweredIsRemembered ==
    \A h \in Requests :
        request[h].outcome = "final" /\ DurableStore
            => Remembered(Key(h), request[h].text)

(* Every prompt, resume and turn comes to an end. *)
RequestsEnd ==
    \A h \in Requests : Pending(h) ~> ~Pending(h)

(* docs/openclaw-mobile-companion-architecture.md:211: "normalize upstream  *)
(* errors into relay-safe error codes".  A failed completion reaches the    *)
(* client as an error and ends nothing else.                                *)
UpstreamErrorsReachClient ==
    \A h \in Requests : request[h].outcome # "rejected"

-----------------------------------------------------------------------------
(* The inductive invariant. *)

(* A connection that was drawn belongs to a device, a request to a device   *)
(* and a prompt.                                                            *)
Owned ==
    /\ \A c \in Connections :
           connection[c].ws # "none" => connection[c].device \in Devices
    /\ \A h \in Requests :
           request[h].step # "none" =>
               request[h].device \in Devices /\ request[h].prompt \in Prompts

(* A timer that runs is not late, and its next beat is within the bounds    *)
(* that the last pong and the heartbeats missed since allow.                *)
ClockSound ==
    \A c \in Connections : connection[c].timer =>
        /\ connection[c].lastPongAt <= now
        /\ now <= connection[c].beatAt + TimerLag
        /\ connection[c].beatAt <= now + HeartbeatInterval
        /\ connection[c].beatAt <= connection[c].lastPongAt + StaleAfter + HeartbeatInterval
        /\ connection[c].beatAt <= connection[c].lastPongAt + HeartbeatInterval
                                     + connection[c].missed * (HeartbeatInterval + TimerLag)

(* What every step preserves; OnlyActiveIsOpen, TimerWhileActive and        *)
(* SilenceIsBounded follow from it, and that a stale drop was earned.        *)
IndInv ==
    /\ Types
    /\ Owned
    /\ TableSound
    /\ OnlyActiveIsOpen
    /\ TimerWhileActive
    /\ ClockSound

=============================================================================
