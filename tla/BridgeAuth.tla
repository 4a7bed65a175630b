------------------------------ MODULE BridgeAuth ------------------------------
(***************************************************************************)
(* The bridge's authentication service (bridge/src/services.ts) over the   *)
(* in-memory store, together with the part of the relay that admits and    *)
(* drops websocket connections (bridge/src/relay.ts).                      *)
(*                                                                         *)
(* An operator creates a pairing session; a client redeems its code for a  *)
(* bootstrap token, registers a device with it, and from then on trades    *)
(* refresh tokens for access tokens, access tokens for websocket tickets   *)
(* and a ticket for the device's relay connection.                         *)
(*                                                                         *)
(* Granularity.  The in-memory store hands out the stored objects          *)
(* themselves and its promises settle as microtasks, so a handler runs     *)
(* without interference up to the next real wait.  The only such wait      *)
(* inside a handler that goes on to write is accessTokens.issue, whose     *)
(* signature is computed on another thread: registerDevice and             *)
(* refreshSession are therefore two actions each.  A handler that answers  *)
(* with an error and writes nothing is a stuttering step and has no        *)
(* action.  withTransaction of this store calls its callback and undoes    *)
(* nothing, so what a handler wrote before it threw stays.                 *)
(***************************************************************************)
EXTENDS Integers, FiniteSets

CONSTANTS
    Sessions,       \* pairing sessions an operator may create
    Bootstraps,     \* bootstrap tokens that may be minted
    Devices,        \* device ids (and with each its one refresh family)
    Tokens,         \* refresh tokens that may be minted
    Tickets,        \* websocket tickets that may be minted
    ClientTypes,    \* "mobile", "even_hub": they select the refresh policy
    None,           \* no token, no bootstrap, no connection
    MaxAttempts,    \* config.pairingCodeMaxAttempts
    PairingTtl, BootstrapTtl, AccessTtl, TicketTtl,
    SlidingTtl, AbsoluteTtl,  \* per client type
    MaxInFlight,    \* bound on refreshes that wait for their signature at once
    MaxTime         \* bound on the clock

ASSUME NoneAssumption ==
    None \notin Bootstraps \cup Tokens \cup Tickets
ASSUME BoundAssumption ==
    MaxAttempts \in Nat \ {0} /\ MaxInFlight \in Nat \ {0} /\ MaxTime \in Nat
ASSUME TtlAssumption ==
    /\ {PairingTtl, BootstrapTtl, AccessTtl, TicketTtl} \subseteq Nat
    /\ SlidingTtl \in [ClientTypes -> Nat]
    /\ AbsoluteTtl \in [ClientTypes -> Nat]

VARIABLES
    now,          \* the service's clock
    pairing,      \* PairingSessionRecord by session
    bootstrap,    \* BootstrapTokenRecord by token
    device,       \* DeviceRecord by device
    family,       \* RefreshTokenFamilyRecord, by the device that owns it
    refresh,      \* RefreshTokenRecord by token
    access,       \* the access tokens (stateless JWTs) handed out so far
    ticket,       \* WebSocketTicketRecord by ticket
    connection,   \* activeConnections: the ticket behind a device's socket
    registering,  \* registerDevice calls waiting for accessTokens.issue
    refreshing    \* refreshSession calls waiting for accessTokens.issue

vars == <<now, pairing, bootstrap, device, family, refresh, access, ticket,
          connection, registering, refreshing>>

-----------------------------------------------------------------------------
(* Records.  "none": not minted yet; "deleted": removed by the cleanup.      *)

PairingSessionRecord ==
    [status : {"none", "pending", "redeemed", "expired", "locked"},
     expiresAt : Nat, failedAttempts : 0..MaxAttempts]

BootstrapTokenRecord ==
    [status : {"none", "unused", "used", "deleted"},
     session : Sessions \cup {None}, expiresAt : Nat]

\* `bootstrap' is history: the token the device was registered with.
DeviceRecord ==
    [status : {"none", "active", "revoked", "repair_required"},
     clientType : ClientTypes \cup {None}, bootstrap : Bootstraps \cup {None}]

RefreshTokenFamilyRecord ==
    [status : {"none", "active", "revoked", "compromised"}, createdAt : Nat]

RefreshTokenRecord ==
    [status : {"none", "stored", "deleted"}, device : Devices \cup {None},
     parent : Tokens \cup {None}, expiresAt : Nat,
     used : BOOLEAN, revoked : BOOLEAN]

\* `opened' is history: how many connections the ticket has opened.
WebSocketTicketRecord ==
    [status : {"none", "unused", "used", "deleted"},
     device : Devices \cup {None}, expiresAt : Nat, opened : Nat]

AccessToken == [device : Devices, expiresAt : Nat]

Registration == [device : Devices, token : Tokens, bootstrap : Bootstraps,
                 clientType : ClientTypes, at : Nat]
Refresh == [device : Devices, token : Tokens, parent : Tokens, at : Nat]

Init ==
    /\ now = 0
    /\ pairing = [s \in Sessions |->
           [status |-> "none", expiresAt |-> 0, failedAttempts |-> 0]]
    /\ bootstrap = [b \in Bootstraps |->
           [status |-> "none", session |-> None, expiresAt |-> 0]]
    /\ device = [d \in Devices |->
           [status |-> "none", clientType |-> None, bootstrap |-> None]]
    /\ family = [d \in Devices |-> [status |-> "none", createdAt |-> 0]]
    /\ refresh = [t \in Tokens |->
           [status |-> "none", device |-> None, parent |-> None,
            expiresAt |-> 0, used |-> FALSE, revoked |-> FALSE]]
    /\ access = {}
    /\ ticket = [k \in Tickets |->
           [status |-> "none", device |-> None, expiresAt |-> 0, opened |-> 0]]
    /\ connection = [d \in Devices |-> None]
    /\ registering = {}
    /\ refreshing = {}

\* Mutant of FreshTokens: an id that a waiting call has drawn is drawn again.
FreshTokensIgnoringPending == {t \in Tokens : refresh[t].status = "none"}

\* createId and createOpaqueToken never return an id twice.
FreshDevices ==
    {d \in Devices : device[d].status = "none"
                       /\ \A f \in registering : f.device # d}
FreshTokens ==
    {t \in Tokens : refresh[t].status = "none"
                      /\ \A f \in registering \cup refreshing : f.token # t}

-----------------------------------------------------------------------------
(* Pairing: createPairingSession and redeemPairingCode.                      *)

CreatePairingSession(s) ==
    /\ pairing[s].status = "none"
    /\ pairing' = [pairing EXCEPT ![s] =
           [status |-> "pending", expiresAt |-> now + PairingTtl,
            failedAttempts |-> 0]]
    /\ UNCHANGED <<now, bootstrap, device, family, refresh, access, ticket,
                   connection, registering, refreshing>>

\* Mutant of AfterWrongCode: one wrong code too many.
AfterWrongCodeLate(s) ==
    LET n == pairing[s].failedAttempts + 1
    IN  [pairing[s] EXCEPT !.failedAttempts = n,
                           !.status = IF n > MaxAttempts THEN "locked" ELSE @]

AfterWrongCode(s) ==
    LET n == pairing[s].failedAttempts + 1
    IN  [pairing[s] EXCEPT !.failedAttempts = n,
                           !.status = IF n >= MaxAttempts THEN "locked" ELSE @]

\* Mutants of Redeemable: the 409, and the 423, forgotten.
RedeemableTwice(s) == pairing[s].status \in {"pending", "expired", "redeemed"}
RedeemableLocked(s) == pairing[s].status \in {"pending", "expired", "locked"}

\* Neither "locked" (423) nor "redeemed" (409), and the session exists (404).
Redeemable(s) == pairing[s].status \in {"pending", "expired"}

RedeemExpired(s) ==
    /\ Redeemable(s)
    /\ pairing[s].expiresAt <= now
    /\ pairing' = [pairing EXCEPT ![s].status = "expired"]
    /\ UNCHANGED <<now, bootstrap, device, family, refresh, access, ticket,
                   connection, registering, refreshing>>

\* Only a request that names the session can present a code that is not its.
RedeemWrongCode(s) ==
    /\ Redeemable(s)
    /\ pairing[s].expiresAt > now
    /\ pairing' = [pairing EXCEPT ![s] = AfterWrongCode(s)]
    /\ UNCHANGED <<now, bootstrap, device, family, refresh, access, ticket,
                   connection, registering, refreshing>>

Redeem(s, b) ==
    /\ Redeemable(s)
    /\ pairing[s].expiresAt > now
    /\ bootstrap[b].status = "none"
    /\ pairing' = [pairing EXCEPT ![s].status = "redeemed"]
    /\ bootstrap' = [bootstrap EXCEPT ![b] =
           [status |-> "unused", session |-> s,
            expiresAt |-> now + BootstrapTtl]]
    /\ UNCHANGED <<now, device, family, refresh, access, ticket, connection,
                   registering, refreshing>>

-----------------------------------------------------------------------------
(* registerDevice, up to accessTokens.issue and from there on.               *)

\* Mutant of RefreshExpiry: the cap forgotten.
RefreshExpirySliding(clientType, createdAt, at) == at + SlidingTtl[clientType]

\* issueRefreshToken: a sliding lifetime, capped by the family's own.
RefreshExpiry(clientType, createdAt, at) ==
    LET sliding  == at + SlidingTtl[clientType]
        absolute == createdAt + AbsoluteTtl[clientType]
    IN  IF sliding < absolute THEN sliding ELSE absolute

\* consumeBootstrapToken marks the token before the handler first waits.
RegisterBegin(b, clientType, d, t) ==
    /\ bootstrap[b].status = "unused"
    /\ bootstrap[b].expiresAt > now
    /\ d \in FreshDevices
    /\ t \in FreshTokens
    /\ bootstrap' = [bootstrap EXCEPT ![b].status = "used"]
    /\ registering' = registering \cup
           {[device |-> d, token |-> t, bootstrap |-> b,
             clientType |-> clientType, at |-> now]}
    /\ UNCHANGED <<now, pairing, device, family, refresh, access, ticket,
                   connection, refreshing>>

RegisterFinish(f) ==
    /\ device' = [device EXCEPT ![f.device] =
           [status |-> "active", clientType |-> f.clientType,
            bootstrap |-> f.bootstrap]]
    /\ family' = [family EXCEPT ![f.device] =
           [status |-> "active", createdAt |-> f.at]]
    /\ refresh' = [refresh EXCEPT ![f.token] =
           [status |-> "stored", device |-> f.device, parent |-> None,
            expiresAt |-> RefreshExpiry(f.clientType, f.at, f.at),
            used |-> FALSE, revoked |-> FALSE]]
    /\ access' = access \cup {[device |-> f.device,
                               expiresAt |-> f.at + AccessTtl]}
    /\ registering' = registering \ {f}
    /\ UNCHANGED <<now, pairing, bootstrap, ticket, connection, refreshing>>

-----------------------------------------------------------------------------
(* refreshSession.                                                           *)

\* The checks every presented token has to pass before its usedAt is read.
Presentable(t) ==
    /\ refresh[t].status = "stored"
    /\ device[refresh[t].device].status = "active"
    /\ family[refresh[t].device].status = "active"

\* Mutant of RefreshBegin: a used token is rotated once more.
RefreshBeginUsed(t, new) ==
    /\ Presentable(t)
    /\ ~refresh[t].revoked
    /\ refresh[t].expiresAt > now
    /\ Cardinality(refreshing) < MaxInFlight
    /\ new \in FreshTokens
    /\ refreshing' = refreshing \cup
           {[device |-> refresh[t].device, token |-> new, parent |-> t,
             at |-> now]}
    /\ UNCHANGED <<now, pairing, bootstrap, device, family, refresh, access,
                   ticket, connection, registering>>

RefreshBegin(t, new) ==
    /\ Presentable(t)
    /\ ~refresh[t].used
    /\ ~refresh[t].revoked
    /\ refresh[t].expiresAt > now
    /\ Cardinality(refreshing) < MaxInFlight
    /\ new \in FreshTokens
    /\ refreshing' = refreshing \cup
           {[device |-> refresh[t].device, token |-> new, parent |-> t,
             at |-> now]}
    /\ UNCHANGED <<now, pairing, bootstrap, device, family, refresh, access,
                   ticket, connection, registering>>

\* Mutant of TouchedDevice: the row as it was when the call began.
TouchedDeviceStale(d) == [device[d] EXCEPT !.status = "active"]

\* updateDevice writes the object it shares with the store: only lastSeenAt
\* and lastIp, which are abstracted away, have changed.
TouchedDevice(d) == device[d]

\* updateRefreshToken puts the presented record back even when the cleanup
\* has removed it in the meantime.
RefreshFinish(f) ==
    /\ refresh' = [refresh EXCEPT
           ![f.parent] = [@ EXCEPT !.status = "stored", !.used = TRUE],
           ![f.token] =
               [status |-> "stored", device |-> f.device, parent |-> f.parent,
                expiresAt |-> RefreshExpiry(device[f.device].clientType,
                                            family[f.device].createdAt, f.at),
                used |-> FALSE, revoked |-> FALSE]]
    /\ device' = [device EXCEPT ![f.device] = TouchedDevice(f.device)]
    /\ access' = access \cup {[device |-> f.device,
                               expiresAt |-> f.at + AccessTtl]}
    /\ refreshing' = refreshing \ {f}
    /\ UNCHANGED <<now, pairing, bootstrap, family, ticket, connection,
                   registering>>

\* listRefreshTokensByFamilyId, each unrevoked one given a revokedAt.
TokensRevoked(d) ==
    [t \in Tokens |->
        IF refresh[t].status = "stored" /\ refresh[t].device = d
        THEN [refresh[t] EXCEPT !.revoked = TRUE]
        ELSE refresh[t]]

\* Mutant of CompromisedDevice: only the family is marked.
CompromisedDeviceForgotten(d) == device[d]

\* The device half of markFamilyCompromised.
CompromisedDevice(d) == [device[d] EXCEPT !.status = "repair_required"]

\* A token that was already used: markFamilyCompromised, then the 401.
RefreshReuse(t) ==
    LET d == refresh[t].device
    IN  /\ Presentable(t)
        /\ refresh[t].used
        /\ family' = [family EXCEPT ![d].status = "compromised"]
        /\ device' = [device EXCEPT ![d] = CompromisedDevice(d)]
        /\ refresh' = TokensRevoked(d)
        /\ UNCHANGED <<now, pairing, bootstrap, access, ticket, connection,
                       registering, refreshing>>

-----------------------------------------------------------------------------
(* Tickets and connections.                                                  *)

\* verifyAccessToken, then the ticket; no wait lies between the two.  The
\* route verifies once more before it answers, so a ticket may be minted that
\* its client never sees: any stored ticket can be presented below.
IssueWebSocketTicket(a, k) ==
    /\ a \in access
    /\ a.expiresAt > now
    /\ device[a.device].status = "active"
    /\ ticket[k].status = "none"
    /\ ticket' = [ticket EXCEPT ![k] =
           [status |-> "unused", device |-> a.device,
            expiresAt |-> now + TicketTtl, opened |-> 0]]
    /\ UNCHANGED <<now, pairing, bootstrap, device, family, refresh, access,
                   connection, registering, refreshing>>

\* Mutant of ConsumedTicket: the ticket stays valid.
ConsumedTicketUnmarked(k) == [ticket[k] EXCEPT !.opened = @ + 1]

\* consumeWebSocketTicket.
ConsumedTicket(k) == [ticket[k] EXCEPT !.status = "used", !.opened = @ + 1]

\* Mutant of Upgrade: the device's status is not looked at.
UpgradeUnchecked(k) ==
    LET d == ticket[k].device
    IN  /\ ticket[k].status = "unused"
        /\ ticket[k].expiresAt > now
        /\ ticket' = [ticket EXCEPT ![k] = ConsumedTicket(k)]
        /\ connection' = [connection EXCEPT ![d] = k]
        /\ UNCHANGED <<now, pairing, bootstrap, device, family, refresh,
                       access, registering, refreshing>>

\* The upgrade: consume the ticket, then bindConnection, which drops the
\* device's older socket (4009) and registers the new one.
Upgrade(k) ==
    LET d == ticket[k].device
    IN  /\ ticket[k].status = "unused"
        /\ ticket[k].expiresAt > now
        /\ device[d].status = "active"
        /\ ticket' = [ticket EXCEPT ![k] = ConsumedTicket(k)]
        /\ connection' = [connection EXCEPT ![d] = k]
        /\ UNCHANGED <<now, pairing, bootstrap, device, family, refresh,
                       access, registering, refreshing>>

\* The socket closes or fails, or a heartbeat finds it stale (4011).
ConnectionClosed(d) ==
    /\ connection[d] # None
    /\ connection' = [connection EXCEPT ![d] = None]
    /\ UNCHANGED <<now, pairing, bootstrap, device, family, refresh, access,
                   ticket, registering, refreshing>>

-----------------------------------------------------------------------------
(* The operator revokes a device; the cleanup timer fires; time passes.      *)

\* Mutant of RelayRevoked: the route forgets the relay.
RelayRevokedForgotten(d) == connection

\* RelayServer.revokeDevice: the socket is closed (4003) and forgotten.
RelayRevoked(d) == [connection EXCEPT ![d] = None]

\* The whole route: services.revokeDevice, then relay.revokeDevice.
RevokeDevice(d) ==
    /\ device[d].status # "none"
    /\ device' = [device EXCEPT ![d].status = "revoked"]
    /\ family' = [family EXCEPT ![d].status = "revoked"]
    /\ refresh' = TokensRevoked(d)
    /\ connection' = RelayRevoked(d)
    /\ UNCHANGED <<now, pairing, bootstrap, access, ticket, registering,
                   refreshing>>

\* Deletable rows of the three tables the cleanup walks.
SweptBootstrap(b) ==
    bootstrap[b].status \in {"unused", "used"} /\ bootstrap[b].expiresAt <= now
SweptRefresh(t) ==
    refresh[t].status = "stored" /\ refresh[t].expiresAt <= now
SweptTicket(k) ==
    \/ ticket[k].status = "used"
    \/ ticket[k].status = "unused" /\ ticket[k].expiresAt <= now

\* Mutant of CleanupExpired: used tokens are passed over.
CleanupExpiredUnused ==
    /\ bootstrap' = [b \in Bootstraps |->
           IF SweptBootstrap(b) THEN [bootstrap[b] EXCEPT !.status = "deleted"]
                                ELSE bootstrap[b]]
    /\ refresh' = [t \in Tokens |->
           IF SweptRefresh(t) /\ ~refresh[t].used
           THEN [refresh[t] EXCEPT !.status = "deleted"]
           ELSE refresh[t]]
    /\ ticket' = [k \in Tickets |->
           IF SweptTicket(k) THEN [ticket[k] EXCEPT !.status = "deleted"]
                             ELSE ticket[k]]
    /\ UNCHANGED <<now, pairing, device, family, access, connection,
                   registering, refreshing>>

CleanupExpired ==
    /\ bootstrap' = [b \in Bootstraps |->
           IF SweptBootstrap(b) THEN [bootstrap[b] EXCEPT !.status = "deleted"]
                                ELSE bootstrap[b]]
    /\ refresh' = [t \in Tokens |->
           IF SweptRefresh(t) THEN [refresh[t] EXCEPT !.status = "deleted"]
                              ELSE refresh[t]]
    /\ ticket' = [k \in Tickets |->
           IF SweptTicket(k) THEN [ticket[k] EXCEPT !.status = "deleted"]
                             ELSE ticket[k]]
    /\ UNCHANGED <<now, pairing, device, family, access, connection,
                   registering, refreshing>>

Tick ==
    /\ now < MaxTime
    /\ now' = now + 1
    /\ UNCHANGED <<pairing, bootstrap, device, family, refresh, access, ticket,
                   connection, registering, refreshing>>

-----------------------------------------------------------------------------
Next ==
    \/ \E s \in Sessions : CreatePairingSession(s)
    \/ \E s \in Sessions : RedeemExpired(s)
    \/ \E s \in Sessions : RedeemWrongCode(s)
    \/ \E s \in Sessions, b \in Bootstraps : Redeem(s, b)
    \/ \E b \in Bootstraps, c \in ClientTypes, d \in Devices, t \in Tokens :
           RegisterBegin(b, c, d, t)
    \/ \E f \in registering : RegisterFinish(f)
    \/ \E t, new \in Tokens : RefreshBegin(t, new)
    \/ \E f \in refreshing : RefreshFinish(f)
    \/ \E t \in Tokens : RefreshReuse(t)
    \/ \E a \in access, k \in Tickets : IssueWebSocketTicket(a, k)
    \/ \E k \in Tickets : Upgrade(k)
    \/ \E d \in Devices : ConnectionClosed(d)
    \/ \E d \in Devices : RevokeDevice(d)
    \/ CleanupExpired
    \/ Tick

Spec == Init /\ [][Next]_vars

\* A signature that was asked for is delivered, and the cleanup interval
\* fires again and again.  Nothing is assumed of clients, operators or time.
Fairness ==
    /\ WF_vars(CleanupExpired)
    /\ WF_vars(\E f \in registering : RegisterFinish(f))
    /\ \A t \in Tokens :
           WF_vars(\E f \in refreshing : f.token = t /\ RefreshFinish(f))

FairSpec == Spec /\ Fairness

-----------------------------------------------------------------------------
(* Properties.                                                               *)

\* Every record the store holds and every pending call has its type; a
\* session never counts more wrong codes than the attempts it allows
\* (redeemPairingCode locks it on the last one).
TypeOK ==
    /\ now \in Nat
    /\ pairing \in [Sessions -> PairingSessionRecord]
    /\ bootstrap \in [Bootstraps -> BootstrapTokenRecord]
    /\ device \in [Devices -> DeviceRecord]
    /\ family \in [Devices -> RefreshTokenFamilyRecord]
    /\ refresh \in [Tokens -> RefreshTokenRecord]
    /\ access \subseteq AccessToken
    /\ ticket \in [Tickets -> WebSocketTicketRecord]
    /\ connection \in [Devices -> Tickets \cup {None}]
    /\ registering \subseteq Registration
    /\ refreshing \subseteq Refresh

\* The devices that exist or are about to, each with its bootstrap token.
Claims ==
    {[device |-> d, bootstrap |-> device[d].bootstrap] :
        d \in {e \in Devices : device[e].status # "none"}}
    \cup {[device |-> f.device, bootstrap |-> f.bootstrap] : f \in registering}

\* One code pairs one device: two devices never go back to the same pairing
\* session, whatever is redeemed, registered or retried at the same time
\* (redeemPairingCode and consumeBootstrapToken make their inputs single use).
OneDevicePerPairing ==
    \A x, y \in Claims :
        bootstrap[x.bootstrap].session = bootstrap[y.bootstrap].session
            => x = y

\* Guessing is bounded: a session that saw MaxAttempts wrong codes never
\* yields a bootstrap token, not even for the right code.
LockedPairingIsDead ==
    \A s \in Sessions :
        (\E b \in Bootstraps :
            bootstrap[b].status # "none" /\ bootstrap[b].session = s)
            => /\ pairing[s].status = "redeemed"
               /\ pairing[s].failedAttempts < MaxAttempts

\* The device row and the family row tell the same story, although four
\* handlers write them one after the other: refreshSession reads both and a
\* disagreement would lock a good device out or let a revoked one in.
StatusesAgree ==
    \A d \in Devices :
        /\ device[d].status = "none" <=> family[d].status = "none"
        /\ device[d].status = "active" <=> family[d].status = "active"
        /\ device[d].status = "revoked" <=> family[d].status = "revoked"

\* A device that was revoked, or sent to repair, never becomes active again,
\* and a revoked one stays revoked: no handler that was under way when the
\* operator revoked it writes the old status back.
RevocationIsFinal ==
    [][\A d \in Devices :
        /\ device[d].status \in {"revoked", "repair_required"}
               => device'[d].status \in {"revoked", "repair_required"}
        /\ device[d].status = "revoked" => device'[d].status = "revoked"]_vars

\* Once the revoke route has returned, the device has no relay connection:
\* neither the one it had nor one opened with a ticket minted before.
RevokedHasNoConnection ==
    \A d \in Devices : device[d].status = "revoked" => connection[d] = None

\* A device that is no longer active opens no connection, also when the loss
\* came from reuse detection, which leaves the old connection in place.
DeadDeviceOpensNothing ==
    [][\A d \in Devices :
        device[d].status \in {"revoked", "repair_required"}
            => connection'[d] \in {None, connection[d]}]_vars

Successors(t) == {u \in Tokens : refresh[u].parent = t}
Pending(t) == {f \in refreshing : f.parent = t}

\* A refresh token is traded in at most once per call that was under way
\* when it was first used: with one call at a time the tokens of a family
\* form a chain, and a second use of a token is always seen as one.
RotationBoundedByOverlap ==
    \A t \in Tokens :
        Cardinality(Successors(t)) + Cardinality(Pending(t)) <= MaxInFlight

\* The end of a family's life.
FamilyEnd(d) == family[d].createdAt + AbsoluteTtl[device[d].clientType]

\* However often a session is refreshed, nothing minted for it outlives the
\* family's absolute lifetime by more than one access token's (the cap in
\* issueRefreshToken is inherited along the chain of refreshes).
AbsoluteLifetime ==
    /\ \A t \in Tokens : refresh[t].status # "none"
           => refresh[t].expiresAt <= FamilyEnd(refresh[t].device)
    /\ \A a \in access : a.expiresAt <= FamilyEnd(a.device) + AccessTtl

\* A ticket opens one connection, whatever the cleanup and a repeated upgrade
\* request do with it.
TicketOpensOnce == \A k \in Tickets : ticket[k].opened <= 1

\* An expired refresh token does not stay in the store: the cleanup removes
\* it, and removes it again when a refresh that was under way puts it back.
ExpiredTokenSwept ==
    \A t \in Tokens : [](SweptRefresh(t) => <>~SweptRefresh(t))

-----------------------------------------------------------------------------
(* The abstract specification.                                               *)

\* What the lifecycle of devices sees of the service.
LockedSessions == {s \in Sessions : pairing[s].status = "locked"}
PairedDevices ==
    [s \in Sessions |->
        {d \in Devices : device[d].status # "none"
                           /\ bootstrap[device[d].bootstrap].session = s}]
Stage == [d \in Devices |-> device[d].status]

Lifecycle == INSTANCE DeviceLifecycle WITH
    locked <- LockedSessions,
    paired <- PairedDevices,
    stage  <- Stage

\* Bootstrap tokens, calls that wait for a signature, expiries, the cleanup and
\* the two records that say whether a device is active add no step to the
\* lifecycle of devices: what was paired once is paired for good, what was
\* revoked or compromised stays so, and nothing else opens a connection.
ImplementsLifecycle == Lifecycle!Spec

-----------------------------------------------------------------------------
(* A statement of the architecture document that the code does not meet.      *)

\* Section 7.4, on reuse: "close active websocket connections for that device".
CompromiseClosesConnection ==
    \A d \in Devices : family[d].status = "compromised" => connection[d] = None

-----------------------------------------------------------------------------
(* What the invariants above rest on; their conjunction is inductive.        *)

\* Records point at records that exist.
WellLinked ==
    /\ \A d \in Devices : device[d].status # "none" =>
           device[d].clientType \in ClientTypes
             /\ device[d].bootstrap \in Bootstraps
    /\ \A t \in Tokens : refresh[t].status # "none" =>
           refresh[t].device \in Devices
             /\ device[refresh[t].device].status # "none"
    /\ \A k \in Tickets : ticket[k].status # "none" =>
           ticket[k].device \in Devices
    /\ \A a \in access : device[a.device].status # "none"
    /\ \A f \in refreshing :
           /\ device[f.device].status # "none"
           /\ refresh[f.parent].status # "none"
           /\ refresh[f.parent].device = f.device

\* The ids a pending call has drawn are in use nowhere else.
FreshIds ==
    /\ \A f \in registering :
           device[f.device].status = "none" /\ refresh[f.token].status = "none"
    /\ \A f \in refreshing : refresh[f.token].status = "none"
    /\ \A f, g \in registering :
           f.device = g.device \/ f.token = g.token => f = g
    /\ \A f, g \in refreshing : f.token = g.token => f = g
    /\ \A f \in registering, g \in refreshing : f.token # g.token

\* Only a locked session has run out of attempts.
AttemptsLeft ==
    \A s \in Sessions : pairing[s].status \in {"pending", "expired", "redeemed"}
        => pairing[s].failedAttempts < MaxAttempts

\* A session has at most one bootstrap token and a bootstrap token at most
\* one device, which it gets when it is used.
SingleUse ==
    /\ \A b \in Bootstraps : bootstrap[b].status # "none" =>
           bootstrap[b].session \in Sessions
             /\ pairing[bootstrap[b].session].status = "redeemed"
    /\ \A b, c \in Bootstraps :
           /\ bootstrap[b].status # "none"
           /\ bootstrap[c].status # "none"
           /\ bootstrap[b].session = bootstrap[c].session
           => b = c
    /\ \A x \in Claims :
           x.bootstrap \in Bootstraps
             /\ bootstrap[x.bootstrap].status \in {"used", "deleted"}
    /\ \A x, y \in Claims : x.bootstrap = y.bootstrap => x = y

\* A pending refresh was admitted before the end of its family's life.
PendingLifetime ==
    \A f \in refreshing : f.at <= FamilyEnd(f.device)

IndInv ==
    /\ TypeOK /\ WellLinked /\ FreshIds /\ AttemptsLeft /\ SingleUse
    /\ StatusesAgree /\ RevokedHasNoConnection
    /\ PendingLifetime /\ AbsoluteLifetime

=============================================================================
