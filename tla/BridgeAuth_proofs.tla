-------------------------- MODULE BridgeAuth_proofs --------------------------
(***************************************************************************)
(* Proofs about BridgeAuth for every value of its constants.  IndInv is    *)
(* inductive; each conjunct is shown to be preserved by every action, with *)
(* the conjuncts it leans on as hypotheses.                                *)
(***************************************************************************)
EXTENDS BridgeAuth, FiniteSetTheorems, TLAPS

\* The lifetime that issueRefreshToken computes is a number of ticks no
\* later than the end of the family.
LEMMA RefreshExpiryBound ==
    ASSUME NEW c \in ClientTypes, NEW created \in Nat, NEW at \in Nat
    PROVE  /\ RefreshExpiry(c, created, at) \in Nat
           /\ RefreshExpiry(c, created, at) <= created + AbsoluteTtl[c]
<1>1. SlidingTtl[c] \in Nat /\ AbsoluteTtl[c] \in Nat
    BY TtlAssumption
<1>2. QED
    BY <1>1 DEF RefreshExpiry

\* The initial state satisfies the inductive invariant.
LEMMA InitInd == Init => IndInv
<1> SUFFICES ASSUME Init PROVE IndInv
    OBVIOUS
<1>1. TypeOK
    BY BoundAssumption
    DEF Init, TypeOK, PairingSessionRecord, BootstrapTokenRecord, DeviceRecord,
        RefreshTokenFamilyRecord, RefreshTokenRecord, AccessToken,
        WebSocketTicketRecord, Registration, Refresh
<1>2. WellLinked /\ FreshIds /\ AttemptsLeft /\ SingleUse
    BY DEF Init, WellLinked, FreshIds, AttemptsLeft, SingleUse, Claims
<1>3. StatusesAgree /\ RevokedHasNoConnection
    BY DEF Init, StatusesAgree, RevokedHasNoConnection
<1>4. PendingLifetime /\ AbsoluteLifetime
    BY DEF Init, PendingLifetime, AbsoluteLifetime
<1>5. QED
    BY <1>1, <1>2, <1>3, <1>4 DEF IndInv

\* Every step keeps the types.
LEMMA TypeStep ==
    ASSUME TypeOK, WellLinked, AttemptsLeft, [Next]_vars
    PROVE  TypeOK'
<1> USE DEF TypeOK
<1>1. ASSUME NEW s \in Sessions, CreatePairingSession(s) PROVE TypeOK'
  <2>1. now + PairingTtl \in Nat /\ 0 \in 0..MaxAttempts
    BY BoundAssumption, TtlAssumption
  <2>2. [status |-> "pending", expiresAt |-> now + PairingTtl,
         failedAttempts |-> 0] \in PairingSessionRecord
    BY <2>1 DEF PairingSessionRecord
  <2>3. QED
    BY <1>1, <2>2 DEF CreatePairingSession
<1>2. ASSUME NEW s \in Sessions, RedeemExpired(s) PROVE TypeOK'
    BY <1>2 DEF RedeemExpired, PairingSessionRecord
<1>3. ASSUME NEW s \in Sessions, RedeemWrongCode(s) PROVE TypeOK'
  <2>1. pairing[s].failedAttempts + 1 \in 0..MaxAttempts
    BY <1>3, BoundAssumption
    DEF RedeemWrongCode, Redeemable, AttemptsLeft, PairingSessionRecord
  <2>2. AfterWrongCode(s) \in PairingSessionRecord
    BY <2>1 DEF AfterWrongCode, PairingSessionRecord
  <2>3. QED
    BY <1>3, <2>2 DEF RedeemWrongCode
<1>4. ASSUME NEW s \in Sessions, NEW b \in Bootstraps, Redeem(s, b)
      PROVE TypeOK'
  <2>1. now + BootstrapTtl \in Nat
    BY TtlAssumption
  <2>2. [pairing EXCEPT ![s].status = "redeemed"]
            \in [Sessions -> PairingSessionRecord]
    BY DEF PairingSessionRecord
  <2>3. [status |-> "unused", session |-> s, expiresAt |-> now + BootstrapTtl]
            \in BootstrapTokenRecord
    BY <2>1 DEF BootstrapTokenRecord
  <2>4. QED
    BY <1>4, <2>2, <2>3 DEF Redeem
<1>5. ASSUME NEW b \in Bootstraps, NEW c \in ClientTypes, NEW d \in Devices,
             NEW t \in Tokens, RegisterBegin(b, c, d, t)
      PROVE TypeOK'
    BY <1>5 DEF RegisterBegin, BootstrapTokenRecord, Registration
<1>6. ASSUME NEW f \in registering, RegisterFinish(f) PROVE TypeOK'
  <2>1. /\ f.device \in Devices /\ f.token \in Tokens /\ f.at \in Nat
        /\ f.bootstrap \in Bootstraps /\ f.clientType \in ClientTypes
    BY DEF Registration
  <2>2. RefreshExpiry(f.clientType, f.at, f.at) \in Nat
    BY <2>1, RefreshExpiryBound
  <2>3. device' \in [Devices -> DeviceRecord]
    BY <1>6, <2>1 DEF RegisterFinish, DeviceRecord
  <2>4. family' \in [Devices -> RefreshTokenFamilyRecord]
    BY <1>6, <2>1 DEF RegisterFinish, RefreshTokenFamilyRecord
  <2>5. refresh' \in [Tokens -> RefreshTokenRecord]
    BY <1>6, <2>1, <2>2 DEF RegisterFinish, RefreshTokenRecord
  <2>6. access' \subseteq AccessToken
    BY <1>6, <2>1, TtlAssumption DEF RegisterFinish, AccessToken
  <2>7. QED
    BY <1>6, <2>3, <2>4, <2>5, <2>6 DEF RegisterFinish
<1>7. ASSUME NEW t \in Tokens, NEW new \in Tokens, RefreshBegin(t, new)
      PROVE TypeOK'
  <2>1. refresh[t].device \in Devices
    BY <1>7 DEF RefreshBegin, Presentable, WellLinked
  <2>2. QED
    BY <1>7, <2>1 DEF RefreshBegin, Refresh
<1>8. ASSUME NEW f \in refreshing, RefreshFinish(f) PROVE TypeOK'
  <2>1. /\ f.device \in Devices /\ f.token \in Tokens /\ f.at \in Nat
        /\ f.parent \in Tokens
    BY DEF Refresh
  <2>2. /\ device[f.device].clientType \in ClientTypes
        /\ family[f.device].createdAt \in Nat
    BY <2>1 DEF WellLinked, RefreshTokenFamilyRecord
  <2>3. RefreshExpiry(device[f.device].clientType,
                      family[f.device].createdAt, f.at) \in Nat
    BY <2>1, <2>2, RefreshExpiryBound
  <2>4. refresh' \in [Tokens -> RefreshTokenRecord]
    BY <1>8, <2>1, <2>3 DEF RefreshFinish, RefreshTokenRecord
  <2>5. access' \subseteq AccessToken
    BY <1>8, <2>1, TtlAssumption DEF RefreshFinish, AccessToken
  <2>6. device' \in [Devices -> DeviceRecord]
    BY <1>8, <2>1 DEF RefreshFinish, TouchedDevice
  <2>7. QED
    BY <1>8, <2>4, <2>5, <2>6 DEF RefreshFinish
<1>9. \A d : TokensRevoked(d) \in [Tokens -> RefreshTokenRecord]
    BY DEF TokensRevoked, RefreshTokenRecord
<1>10. ASSUME NEW t \in Tokens, RefreshReuse(t) PROVE TypeOK'
  <2>1. refresh[t].device \in Devices
    BY <1>10 DEF RefreshReuse, Presentable, WellLinked
  <2>2. device' \in [Devices -> DeviceRecord]
    BY <1>10, <2>1 DEF RefreshReuse, CompromisedDevice, DeviceRecord
  <2>3. family' \in [Devices -> RefreshTokenFamilyRecord]
    BY <1>10, <2>1 DEF RefreshReuse, RefreshTokenFamilyRecord
  <2>4. QED
    BY <1>9, <1>10, <2>2, <2>3 DEF RefreshReuse
<1>11. ASSUME NEW a \in access, NEW k \in Tickets, IssueWebSocketTicket(a, k)
       PROVE TypeOK'
  <2>1. a.device \in Devices /\ now + TicketTtl \in Nat
    BY TtlAssumption DEF AccessToken
  <2>2. QED
    BY <1>11, <2>1 DEF IssueWebSocketTicket, WebSocketTicketRecord
<1>12. ASSUME NEW k \in Tickets, Upgrade(k) PROVE TypeOK'
  <2>1. ticket[k].opened + 1 \in Nat
    BY DEF WebSocketTicketRecord
  <2>2. ConsumedTicket(k) \in WebSocketTicketRecord
    BY <2>1 DEF ConsumedTicket, WebSocketTicketRecord
  <2>3. ticket' \in [Tickets -> WebSocketTicketRecord]
    BY <1>12, <2>2 DEF Upgrade
  <2>4. connection' \in [Devices -> Tickets \cup {None}]
    BY <1>12 DEF Upgrade
  <2>5. QED
    BY <1>12, <2>3, <2>4 DEF Upgrade
<1>13. ASSUME NEW d \in Devices, ConnectionClosed(d) PROVE TypeOK'
    BY <1>13 DEF ConnectionClosed
<1>14. ASSUME NEW d \in Devices, RevokeDevice(d) PROVE TypeOK'
  <2>1. device' \in [Devices -> DeviceRecord]
    BY <1>14 DEF RevokeDevice, DeviceRecord
  <2>2. family' \in [Devices -> RefreshTokenFamilyRecord]
    BY <1>14 DEF RevokeDevice, RefreshTokenFamilyRecord
  <2>3. connection' \in [Devices -> Tickets \cup {None}]
    BY <1>14 DEF RevokeDevice, RelayRevoked
  <2>4. QED
    BY <1>9, <1>14, <2>1, <2>2, <2>3 DEF RevokeDevice
<1>15. ASSUME CleanupExpired PROVE TypeOK'
  <2>1. bootstrap' \in [Bootstraps -> BootstrapTokenRecord]
    BY <1>15 DEF CleanupExpired, BootstrapTokenRecord
  <2>2. refresh' \in [Tokens -> RefreshTokenRecord]
    BY <1>15 DEF CleanupExpired, RefreshTokenRecord
  <2>3. ticket' \in [Tickets -> WebSocketTicketRecord]
    BY <1>15 DEF CleanupExpired, WebSocketTicketRecord
  <2>4. QED
    BY <1>15, <2>1, <2>2, <2>3 DEF CleanupExpired
<1>16. ASSUME Tick PROVE TypeOK'
    BY <1>16 DEF Tick
<1>17. CASE UNCHANGED vars
    BY <1>17 DEF vars
<1>18. QED
    BY <1>1, <1>2, <1>3, <1>4, <1>5, <1>6, <1>7, <1>8, <1>10, <1>11, <1>12,
       <1>13, <1>14, <1>15, <1>16, <1>17 DEF Next

\* Records keep pointing at records that exist.
LEMMA WellLinkedStep ==
    ASSUME TypeOK, WellLinked, FreshIds, SingleUse, [Next]_vars
    PROVE  WellLinked'
<1> USE DEF TypeOK, WellLinked
<1>0. \A f \in refreshing :
          f.device \in Devices /\ f.token \in Tokens /\ f.parent \in Tokens
    BY DEF Refresh
<1>1. ASSUME NEW f \in registering, RegisterFinish(f) PROVE WellLinked'
  <2>1. /\ f.device \in Devices /\ f.token \in Tokens
        /\ f.bootstrap \in Bootstraps /\ f.clientType \in ClientTypes
    BY DEF Registration
  <2>2. \A d \in Devices : device'[d].status # "none" =>
            device'[d].clientType \in ClientTypes
              /\ device'[d].bootstrap \in Bootstraps
    BY <1>1, <2>1 DEF RegisterFinish
  <2>3. \A d \in Devices : device[d].status # "none"
            => device'[d].status # "none"
    BY <1>1, <2>1 DEF RegisterFinish
  <2>4. device'[f.device].status # "none"
    BY <1>1, <2>1 DEF RegisterFinish
  <2>5. \A t \in Tokens : refresh'[t].status # "none" =>
            refresh'[t].device \in Devices
              /\ device'[refresh'[t].device].status # "none"
    BY <1>1, <2>1, <2>3, <2>4 DEF RegisterFinish
  <2>6. \A a \in access' : device'[a.device].status # "none"
    BY <1>1, <2>3, <2>4 DEF RegisterFinish, AccessToken
  <2>7. \A g \in refreshing' :
            /\ device'[g.device].status # "none"
            /\ refresh'[g.parent].status # "none"
            /\ refresh'[g.parent].device = g.device
    <3>1. refresh[f.token].status = "none"
      BY DEF FreshIds
    <3>2. \A g \in refreshing : g.parent # f.token
      BY <3>1
    <3>3. QED
      BY <1>0, <1>1, <2>1, <2>3, <3>2 DEF RegisterFinish
  <2>8. QED
    BY <1>1, <2>2, <2>5, <2>6, <2>7 DEF RegisterFinish
<1>2. ASSUME NEW t \in Tokens, NEW new \in Tokens, RefreshBegin(t, new)
      PROVE WellLinked'
    BY <1>0, <1>2 DEF RefreshBegin, Presentable
<1>3. ASSUME NEW f \in refreshing, RefreshFinish(f) PROVE WellLinked'
  <2>1. f.device \in Devices /\ f.token \in Tokens /\ f.parent \in Tokens
    BY DEF Refresh
  <2>2. device' = device
    BY <1>3, <2>1 DEF RefreshFinish, TouchedDevice
  <2>3. /\ refresh[f.token].status = "none"
        /\ refresh[f.parent].status # "none"
        /\ refresh[f.parent].device = f.device
    BY DEF FreshIds
  <2>4. /\ refresh'[f.token].device = f.device
        /\ refresh'[f.token].status = "stored"
        /\ refresh'[f.parent].device = f.device
        /\ refresh'[f.parent].status = "stored"
        /\ \A t \in Tokens \ {f.token, f.parent} : refresh'[t] = refresh[t]
    BY <1>3, <2>1, <2>3 DEF RefreshFinish, RefreshTokenRecord
  <2>5. \A g \in refreshing : g.parent # f.token
    BY <2>3
  <2>6. \A g \in refreshing' :
            /\ device'[g.device].status # "none"
            /\ refresh'[g.parent].status # "none"
            /\ refresh'[g.parent].device = g.device
    <3>1. \A g \in refreshing' : g \in refreshing
      BY <1>3 DEF RefreshFinish
    <3>2. QED
      BY <1>0, <2>1, <2>2, <2>4, <2>5, <3>1
  <2>7. \A t \in Tokens : refresh'[t].status # "none" =>
            refresh'[t].device \in Devices
              /\ device'[refresh'[t].device].status # "none"
    BY <2>1, <2>2, <2>4
  <2>8. \A a \in access' : device'[a.device].status # "none"
    BY <1>3, <2>1, <2>2 DEF RefreshFinish
  <2>9. QED
    BY <1>3, <2>2, <2>6, <2>7, <2>8 DEF RefreshFinish
<1>4. ASSUME NEW t \in Tokens, RefreshReuse(t) PROVE WellLinked'
  <2>1. refresh[t].device \in Devices
    BY <1>4 DEF RefreshReuse, Presentable
  <2>2. /\ \A d \in Devices :
               /\ device'[d].status # "none" <=> device[d].status # "none"
               /\ device'[d].clientType = device[d].clientType
               /\ device'[d].bootstrap = device[d].bootstrap
    BY <1>4, <2>1 DEF RefreshReuse, Presentable, CompromisedDevice
  <2>3. \A u \in Tokens : /\ refresh'[u].status = refresh[u].status
                          /\ refresh'[u].device = refresh[u].device
    BY <1>4 DEF RefreshReuse, TokensRevoked
  <2>4. QED
    BY <1>0, <1>4, <2>2, <2>3 DEF RefreshReuse, AccessToken
<1>5. ASSUME NEW a \in access, NEW k \in Tickets, IssueWebSocketTicket(a, k)
      PROVE WellLinked'
    BY <1>5 DEF IssueWebSocketTicket, AccessToken
<1>6. ASSUME NEW k \in Tickets, Upgrade(k) PROVE WellLinked'
    BY <1>6 DEF Upgrade, ConsumedTicket
<1>7. ASSUME NEW d \in Devices, RevokeDevice(d) PROVE WellLinked'
  <2>1. /\ \A e \in Devices :
               /\ device'[e].status # "none" <=> device[e].status # "none"
               /\ device'[e].clientType = device[e].clientType
               /\ device'[e].bootstrap = device[e].bootstrap
    BY <1>7 DEF RevokeDevice
  <2>2. \A u \in Tokens : /\ refresh'[u].status = refresh[u].status
                          /\ refresh'[u].device = refresh[u].device
    BY <1>7 DEF RevokeDevice, TokensRevoked
  <2>3. QED
    BY <1>0, <1>7, <2>1, <2>2 DEF RevokeDevice, AccessToken
<1>8. ASSUME CleanupExpired PROVE WellLinked'
  <2>1. \A u \in Tokens :
            /\ refresh'[u].status # "none" <=> refresh[u].status # "none"
            /\ refresh'[u].device = refresh[u].device
    BY <1>8 DEF CleanupExpired, SweptRefresh
  <2>2. \A k \in Tickets :
            /\ ticket'[k].status # "none" <=> ticket[k].status # "none"
            /\ ticket'[k].device = ticket[k].device
    BY <1>8 DEF CleanupExpired, SweptTicket
  <2>3. QED
    BY <1>0, <1>8, <2>1, <2>2 DEF CleanupExpired
<1>9. ASSUME UNCHANGED <<device, refresh, ticket, access, refreshing>>
      PROVE WellLinked'
    BY <1>9
<1>10. QED
    BY <1>1, <1>2, <1>3, <1>4, <1>5, <1>6, <1>7, <1>8, <1>9
    DEF Next, vars, CreatePairingSession, RedeemExpired, RedeemWrongCode,
        Redeem, RegisterBegin, ConnectionClosed, Tick

\* An id drawn by a pending call stays unused until that call returns.
LEMMA FreshIdsStep ==
    ASSUME TypeOK, WellLinked, FreshIds, [Next]_vars
    PROVE  FreshIds'
<1> USE DEF TypeOK, FreshIds
<1>0. /\ \A f \in registering : f.device \in Devices /\ f.token \in Tokens
      /\ \A f \in refreshing : f.token \in Tokens /\ f.parent \in Tokens
    BY DEF Registration, Refresh
<1>1. ASSUME NEW b \in Bootstraps, NEW c \in ClientTypes, NEW d \in Devices,
             NEW t \in Tokens, RegisterBegin(b, c, d, t)
      PROVE FreshIds'
    BY <1>1 DEF RegisterBegin, FreshDevices, FreshTokens
<1>2. ASSUME NEW f \in registering, RegisterFinish(f) PROVE FreshIds'
  <2>1. \A g \in registering' :
            g \in registering /\ g.device # f.device /\ g.token # f.token
    BY <1>2 DEF RegisterFinish
  <2>2. /\ \A d \in Devices \ {f.device} : device'[d] = device[d]
        /\ \A t \in Tokens \ {f.token} : refresh'[t] = refresh[t]
        /\ refreshing' = refreshing
    BY <1>0, <1>2 DEF RegisterFinish
  <2>3. \A g \in refreshing : g.token # f.token
    OBVIOUS
  <2>4. QED
    BY <1>0, <2>1, <2>2, <2>3
<1>3. ASSUME NEW t \in Tokens, NEW new \in Tokens, RefreshBegin(t, new)
      PROVE FreshIds'
    BY <1>3 DEF RefreshBegin, FreshTokens
<1>4. ASSUME NEW f \in refreshing, RefreshFinish(f) PROVE FreshIds'
  <2>1. refresh[f.parent].status # "none"
    BY DEF WellLinked
  <2>2. \A g \in refreshing' :
            g \in refreshing /\ g.token # f.token /\ g.token # f.parent
    BY <1>4, <2>1 DEF RefreshFinish
  <2>3. \A g \in registering : g.token # f.token /\ g.token # f.parent
    BY <2>1
  <2>4. /\ \A t \in Tokens \ {f.token, f.parent} : refresh'[t] = refresh[t]
        /\ device' = device /\ registering' = registering
    BY <1>0, <1>4 DEF RefreshFinish, TouchedDevice
  <2>5. QED
    BY <1>0, <2>2, <2>3, <2>4
<1>5. ASSUME NEW t \in Tokens, RefreshReuse(t) PROVE FreshIds'
  <2>1. /\ \A d \in Devices : device[d].status = "none"
               => device'[d].status = "none"
        /\ \A u \in Tokens : refresh'[u].status = refresh[u].status
        /\ registering' = registering /\ refreshing' = refreshing
    BY <1>5 DEF RefreshReuse, Presentable, CompromisedDevice, TokensRevoked
  <2>2. QED
    BY <1>0, <2>1
<1>6. ASSUME NEW d \in Devices, RevokeDevice(d) PROVE FreshIds'
  <2>1. /\ \A e \in Devices : device[e].status = "none"
               => device'[e].status = "none"
        /\ \A u \in Tokens : refresh'[u].status = refresh[u].status
        /\ registering' = registering /\ refreshing' = refreshing
    BY <1>6 DEF RevokeDevice, TokensRevoked
  <2>2. QED
    BY <1>0, <2>1
<1>7. ASSUME CleanupExpired PROVE FreshIds'
  <2>1. \A t \in Tokens : refresh[t].status = "none"
            => refresh'[t].status = "none"
    BY <1>7 DEF CleanupExpired, SweptRefresh
  <2>2. QED
    BY <1>0, <1>7, <2>1 DEF CleanupExpired
<1>8. ASSUME UNCHANGED <<device, refresh, registering, refreshing>>
      PROVE FreshIds'
    BY <1>8
<1>9. QED
    BY <1>1, <1>2, <1>3, <1>4, <1>5, <1>6, <1>7, <1>8
    DEF Next, vars, CreatePairingSession, RedeemExpired, RedeemWrongCode,
        Redeem, IssueWebSocketTicket, Upgrade, ConnectionClosed, Tick

\* A session that can still be redeemed has an attempt left.
LEMMA AttemptsStep ==
    ASSUME TypeOK, AttemptsLeft, [Next]_vars
    PROVE  AttemptsLeft'
<1> USE DEF TypeOK, AttemptsLeft
<1>1. ASSUME NEW s \in Sessions, CreatePairingSession(s) PROVE AttemptsLeft'
    BY <1>1, BoundAssumption DEF CreatePairingSession
<1>2. ASSUME NEW s \in Sessions, RedeemExpired(s) PROVE AttemptsLeft'
    BY <1>2 DEF RedeemExpired, Redeemable, PairingSessionRecord
<1>3. ASSUME NEW s \in Sessions, RedeemWrongCode(s) PROVE AttemptsLeft'
  <2>1. pairing' = [pairing EXCEPT ![s] = AfterWrongCode(s)]
    BY <1>3 DEF RedeemWrongCode
  <2>2. AfterWrongCode(s).status \in {"pending", "expired", "redeemed"}
            => AfterWrongCode(s).failedAttempts < MaxAttempts
    BY BoundAssumption DEF AfterWrongCode, PairingSessionRecord
  <2>3. QED
    BY <2>1, <2>2
<1>4. ASSUME NEW s \in Sessions, NEW b \in Bootstraps, Redeem(s, b)
      PROVE AttemptsLeft'
    BY <1>4 DEF Redeem, Redeemable, PairingSessionRecord
<1>5. ASSUME UNCHANGED pairing PROVE AttemptsLeft'
    BY <1>5
<1>6. QED
    BY <1>1, <1>2, <1>3, <1>4, <1>5
    DEF Next, vars, RegisterBegin, RegisterFinish, RefreshBegin, RefreshFinish,
        RefreshReuse, IssueWebSocketTicket, Upgrade, ConnectionClosed,
        RevokeDevice, CleanupExpired, Tick

\* Device row and family row change together.
LEMMA StatusesStep ==
    ASSUME TypeOK, WellLinked, StatusesAgree, [Next]_vars
    PROVE  StatusesAgree'
<1> USE DEF TypeOK, StatusesAgree
<1>1. ASSUME NEW f \in registering, RegisterFinish(f) PROVE StatusesAgree'
    BY <1>1 DEF RegisterFinish, Registration
<1>2. ASSUME NEW f \in refreshing, RefreshFinish(f) PROVE StatusesAgree'
    BY <1>2 DEF RefreshFinish, TouchedDevice, Refresh
<1>3. ASSUME NEW t \in Tokens, RefreshReuse(t) PROVE StatusesAgree'
  <2>1. refresh[t].device \in Devices
    BY <1>3 DEF RefreshReuse, Presentable, WellLinked
  <2>2. QED
    BY <1>3, <2>1
    DEF RefreshReuse, CompromisedDevice, DeviceRecord, RefreshTokenFamilyRecord
<1>4. ASSUME NEW d \in Devices, RevokeDevice(d) PROVE StatusesAgree'
    BY <1>4 DEF RevokeDevice, DeviceRecord, RefreshTokenFamilyRecord
<1>5. ASSUME UNCHANGED <<device, family>> PROVE StatusesAgree'
    BY <1>5
<1>6. QED
    BY <1>1, <1>2, <1>3, <1>4, <1>5
    DEF Next, vars, CreatePairingSession, RedeemExpired, RedeemWrongCode,
        Redeem, RegisterBegin, RefreshBegin, IssueWebSocketTicket, Upgrade,
        ConnectionClosed, CleanupExpired, Tick

\* A revoked device has no connection and gets none.
LEMMA ConnectionStep ==
    ASSUME TypeOK, WellLinked, RevokedHasNoConnection, [Next]_vars
    PROVE  RevokedHasNoConnection'
<1> USE DEF TypeOK, RevokedHasNoConnection
<1>1. ASSUME NEW f \in registering, RegisterFinish(f)
      PROVE RevokedHasNoConnection'
    BY <1>1 DEF RegisterFinish, Registration
<1>2. ASSUME NEW f \in refreshing, RefreshFinish(f)
      PROVE RevokedHasNoConnection'
    BY <1>2 DEF RefreshFinish, TouchedDevice, Refresh
<1>3. ASSUME NEW t \in Tokens, RefreshReuse(t) PROVE RevokedHasNoConnection'
    BY <1>3
    DEF RefreshReuse, Presentable, WellLinked, CompromisedDevice, DeviceRecord
<1>4. ASSUME NEW k \in Tickets, Upgrade(k) PROVE RevokedHasNoConnection'
    BY <1>4 DEF Upgrade, WellLinked
<1>5. ASSUME NEW d \in Devices, ConnectionClosed(d)
      PROVE RevokedHasNoConnection'
    BY <1>5 DEF ConnectionClosed
<1>6. ASSUME NEW d \in Devices, RevokeDevice(d) PROVE RevokedHasNoConnection'
    BY <1>6 DEF RevokeDevice, RelayRevoked
<1>7. ASSUME UNCHANGED <<device, connection>> PROVE RevokedHasNoConnection'
    BY <1>7
<1>8. QED
    BY <1>1, <1>2, <1>3, <1>4, <1>5, <1>6, <1>7
    DEF Next, vars, CreatePairingSession, RedeemExpired, RedeemWrongCode,
        Redeem, RegisterBegin, RefreshBegin, IssueWebSocketTicket,
        CleanupExpired, Tick

\* One bootstrap token for a session, one device for a bootstrap token.
LEMMA SingleUseStep ==
    ASSUME TypeOK, WellLinked, FreshIds, SingleUse, [Next]_vars
    PROVE  SingleUse'
<1> USE DEF TypeOK, SingleUse
<1>0. \A f \in registering : f.device \in Devices /\ f.bootstrap \in Bootstraps
    BY DEF Registration
<1>1. ASSUME Claims' = Claims, bootstrap' = bootstrap,
             \A b \in Bootstraps : bootstrap[b].status # "none"
                 => pairing'[bootstrap[b].session].status = "redeemed"
      PROVE SingleUse'
    BY <1>1
<1>2. ASSUME UNCHANGED <<device, registering>> PROVE Claims' = Claims
    BY <1>2 DEF Claims
<1>3. ASSUME NEW s \in Sessions, CreatePairingSession(s) PROVE SingleUse'
    BY <1>1, <1>2, <1>3 DEF CreatePairingSession
<1>4. ASSUME NEW s \in Sessions, RedeemExpired(s) PROVE SingleUse'
    BY <1>1, <1>2, <1>4 DEF RedeemExpired, Redeemable
<1>5. ASSUME NEW s \in Sessions, RedeemWrongCode(s) PROVE SingleUse'
    BY <1>1, <1>2, <1>5 DEF RedeemWrongCode, Redeemable
<1>6. ASSUME NEW s \in Sessions, NEW b \in Bootstraps, Redeem(s, b)
      PROVE SingleUse'
  <2>1. \A c \in Bootstraps : bootstrap[c].status # "none"
            => c # b /\ bootstrap[c].session # s
    BY <1>6 DEF Redeem, Redeemable
  <2>2. /\ bootstrap'[b].status = "unused" /\ bootstrap'[b].session = s
        /\ \A c \in Bootstraps \ {b} : bootstrap'[c] = bootstrap[c]
        /\ pairing'[s].status = "redeemed"
        /\ \A r \in Sessions \ {s} : pairing'[r] = pairing[r]
        /\ Claims' = Claims
    BY <1>2, <1>6 DEF Redeem, PairingSessionRecord
  <2>3. \A x \in Claims : x.bootstrap # b
    BY <1>6 DEF Redeem
  <2>4. \A c \in Bootstraps : bootstrap'[c].status # "none" =>
            bootstrap'[c].session \in Sessions
              /\ pairing'[bootstrap'[c].session].status = "redeemed"
    BY <2>1, <2>2
  <2>5. \A c, e \in Bootstraps :
            /\ bootstrap'[c].status # "none"
            /\ bootstrap'[e].status # "none"
            /\ bootstrap'[c].session = bootstrap'[e].session
            => c = e
    BY <2>1, <2>2
  <2>6. \A x \in Claims : bootstrap'[x.bootstrap] = bootstrap[x.bootstrap]
    BY <2>2, <2>3
  <2>7. \A x \in Claims' :
            x.bootstrap \in Bootstraps
              /\ bootstrap'[x.bootstrap].status \in {"used", "deleted"}
    BY <2>2, <2>6
  <2>8. \A x, y \in Claims' : x.bootstrap = y.bootstrap => x = y
    BY <2>2
  <2>9. QED
    BY <2>4, <2>5, <2>7, <2>8
<1>7. ASSUME NEW b \in Bootstraps, NEW c \in ClientTypes, NEW d \in Devices,
             NEW t \in Tokens, RegisterBegin(b, c, d, t)
      PROVE SingleUse'
  <2>1. Claims' = Claims \cup {[device |-> d, bootstrap |-> b]}
    <3> DEFINE r == [device |-> d, token |-> t, bootstrap |-> b,
                     clientType |-> c, at |-> now]
               Claim(f) == [device |-> f.device, bootstrap |-> f.bootstrap]
    <3>1. device' = device /\ registering' = registering \cup {r}
      BY <1>7 DEF RegisterBegin
    <3>2. Claim(r) = [device |-> d, bootstrap |-> b]
      OBVIOUS
    <3>3. {Claim(f) : f \in registering'}
              = {Claim(f) : f \in registering} \cup {Claim(r)}
      BY <3>1
    <3>4. QED
      BY <3>1, <3>2, <3>3 DEF Claims
  <2>2. \A x \in Claims : x.bootstrap # b
    BY <1>7 DEF RegisterBegin
  <2>3. /\ \A e \in Bootstraps :
               /\ bootstrap'[e].session = bootstrap[e].session
               /\ e # b => bootstrap'[e] = bootstrap[e]
        /\ bootstrap'[b].status = "used" /\ bootstrap[b].status # "none"
        /\ pairing' = pairing
    BY <1>7 DEF RegisterBegin, BootstrapTokenRecord
  <2>4. QED
    BY <2>1, <2>2, <2>3
<1>8. ASSUME NEW f \in registering, RegisterFinish(f) PROVE SingleUse'
  <2>1. /\ device'[f.device].status = "active"
        /\ device'[f.device].bootstrap = f.bootstrap
        /\ \A d \in Devices \ {f.device} : device'[d] = device[d]
        /\ registering' = registering \ {f}
        /\ device[f.device].status = "none"
    BY <1>0, <1>8 DEF RegisterFinish, FreshIds
  <2>2. Claims' = Claims
    BY <1>0, <2>1 DEF Claims
  <2>3. QED
    BY <1>1, <1>8, <2>2 DEF RegisterFinish
<1>9. ASSUME NEW f \in refreshing, RefreshFinish(f) PROVE SingleUse'
  <2>1. device' = device
    BY <1>9 DEF RefreshFinish, TouchedDevice, Refresh
  <2>2. QED
    BY <1>1, <1>2, <1>9, <2>1 DEF RefreshFinish
<1>10. ASSUME registering' = registering,
              \A d \in Devices :
                  /\ device'[d].status # "none" <=> device[d].status # "none"
                  /\ device'[d].bootstrap = device[d].bootstrap
       PROVE Claims' = Claims
    BY <1>10 DEF Claims
<1>11. ASSUME NEW t \in Tokens, RefreshReuse(t) PROVE SingleUse'
    BY <1>1, <1>10, <1>11
    DEF RefreshReuse, Presentable, CompromisedDevice, DeviceRecord
<1>12. ASSUME NEW d \in Devices, RevokeDevice(d) PROVE SingleUse'
    BY <1>1, <1>10, <1>12 DEF RevokeDevice, DeviceRecord
<1>13. ASSUME CleanupExpired PROVE SingleUse'
  <2>1. /\ \A b \in Bootstraps :
               /\ bootstrap'[b].session = bootstrap[b].session
               /\ bootstrap'[b].status # "none"
                      <=> bootstrap[b].status # "none"
               /\ bootstrap[b].status \in {"used", "deleted"}
                      => bootstrap'[b].status \in {"used", "deleted"}
        /\ pairing' = pairing
        /\ Claims' = Claims
    BY <1>2, <1>13 DEF CleanupExpired, SweptBootstrap, BootstrapTokenRecord
  <2>2. QED
    BY <2>1
<1>14. ASSUME UNCHANGED <<pairing, bootstrap, device, registering>>
       PROVE SingleUse'
    BY <1>1, <1>2, <1>14
<1>15. QED
    BY <1>3, <1>4, <1>5, <1>6, <1>7, <1>8, <1>9, <1>11, <1>12, <1>13, <1>14
    DEF Next, vars, RefreshBegin, IssueWebSocketTicket, Upgrade,
        ConnectionClosed, Tick

\* What is minted for a family ends with it.
LEMMA LifetimeStep ==
    ASSUME TypeOK, WellLinked, FreshIds, PendingLifetime, AbsoluteLifetime,
           [Next]_vars
    PROVE  PendingLifetime' /\ AbsoluteLifetime'
<1> USE DEF TypeOK, PendingLifetime, AbsoluteLifetime
<1> DEFINE End(d) == family'[d].createdAt + AbsoluteTtl[device'[d].clientType]
<1>0. /\ \A f \in refreshing : f.device \in Devices /\ f.token \in Tokens
             /\ f.parent \in Tokens /\ f.at \in Nat
      /\ \A a \in access : a.device \in Devices /\ a.expiresAt \in Nat
      /\ \A d \in Devices : device[d].status # "none"
             => FamilyEnd(d) \in Nat
    BY TtlAssumption
    DEF Refresh, AccessToken, FamilyEnd, WellLinked, RefreshTokenFamilyRecord
<1>1. ASSUME \A d \in Devices : device[d].status # "none"
                 => End(d) = FamilyEnd(d),
             \A t \in Tokens : /\ refresh'[t].status # "none"
                                      => refresh[t].status # "none"
                               /\ refresh'[t].device = refresh[t].device
                               /\ refresh'[t].expiresAt = refresh[t].expiresAt,
             access' = access, refreshing' = refreshing
      PROVE  PendingLifetime' /\ AbsoluteLifetime'
  <2>1. \A f \in refreshing : f.at <= End(f.device)
    BY <1>0, <1>1 DEF WellLinked
  <2>2. \A t \in Tokens : refresh'[t].status # "none"
            => refresh'[t].expiresAt <= End(refresh[t].device)
    BY <1>1 DEF WellLinked
  <2>3. \A a \in access : a.expiresAt <= End(a.device) + AccessTtl
    BY <1>0, <1>1 DEF WellLinked
  <2>4. QED
    BY <1>1, <2>1, <2>2, <2>3 DEF FamilyEnd
<1>2. ASSUME NEW f \in registering, RegisterFinish(f)
      PROVE PendingLifetime' /\ AbsoluteLifetime'
  <2>1. /\ f.device \in Devices /\ f.token \in Tokens /\ f.at \in Nat
        /\ f.clientType \in ClientTypes
        /\ device[f.device].status = "none"
    BY DEF Registration, FreshIds
  <2>2. \A d \in Devices : device[d].status # "none"
            => End(d) = FamilyEnd(d)
    BY <1>2, <2>1 DEF RegisterFinish, FamilyEnd
  <2>3. End(f.device) = f.at + AbsoluteTtl[f.clientType]
    BY <1>2, <2>1 DEF RegisterFinish, FamilyEnd
  <2>4. /\ RefreshExpiry(f.clientType, f.at, f.at)
               <= f.at + AbsoluteTtl[f.clientType]
        /\ AbsoluteTtl[f.clientType] \in Nat /\ AccessTtl \in Nat
    BY <2>1, RefreshExpiryBound, TtlAssumption
  <2>5. refresh'[f.token].expiresAt <= End(refresh'[f.token].device)
    BY <1>2, <2>1, <2>3, <2>4 DEF RegisterFinish
  <2>6. \A t \in Tokens \ {f.token} : refresh'[t].status # "none"
            => refresh'[t].expiresAt <= End(refresh'[t].device)
    BY <1>2, <2>1, <2>2 DEF RegisterFinish, WellLinked
  <2>7. f.at + AccessTtl <= End(f.device) + AccessTtl
    BY <2>1, <2>3, <2>4
  <2>8. \A a \in access : a.expiresAt <= End(a.device) + AccessTtl
    BY <1>0, <2>2 DEF WellLinked
  <2>9. \A a \in access' : a.expiresAt <= End(a.device) + AccessTtl
    BY <1>2, <2>7, <2>8 DEF RegisterFinish
  <2>10. \A g \in refreshing' : g.at <= End(g.device)
    BY <1>0, <1>2, <2>2 DEF RegisterFinish, WellLinked
  <2>11. QED
    BY <2>5, <2>6, <2>9, <2>10 DEF FamilyEnd
<1>3. ASSUME NEW t \in Tokens, NEW new \in Tokens, RefreshBegin(t, new)
      PROVE PendingLifetime' /\ AbsoluteLifetime'
  <2>1. /\ \A d \in Devices : End(d) = FamilyEnd(d)
        /\ refresh' = refresh /\ access' = access
    BY <1>3 DEF RefreshBegin, FamilyEnd
  <2>2. refresh[t].device \in Devices
        /\ now <= FamilyEnd(refresh[t].device)
    BY <1>0, <1>3 DEF RefreshBegin, Presentable, WellLinked, RefreshTokenRecord
  <2>3. \A g \in refreshing' : g.at <= End(g.device)
    BY <1>0, <1>3, <2>1, <2>2 DEF RefreshBegin
  <2>4. \A u \in Tokens : refresh'[u].status # "none"
            => refresh'[u].expiresAt <= End(refresh'[u].device)
    BY <2>1 DEF WellLinked
  <2>5. \A a \in access' : a.expiresAt <= End(a.device) + AccessTtl
    BY <1>0, <2>1
  <2>6. QED
    BY <2>3, <2>4, <2>5 DEF FamilyEnd
<1>4. ASSUME NEW f \in refreshing, RefreshFinish(f)
      PROVE PendingLifetime' /\ AbsoluteLifetime'
  <2>1. /\ device' = device /\ family' = family
        /\ device[f.device].clientType \in ClientTypes
        /\ family[f.device].createdAt \in Nat
        /\ AccessTtl \in Nat /\ FamilyEnd(f.device) \in Nat
    BY <1>0, <1>4, TtlAssumption
    DEF RefreshFinish, TouchedDevice, WellLinked, RefreshTokenFamilyRecord
  <2>2. \A d \in Devices : End(d) = FamilyEnd(d)
    BY <2>1 DEF FamilyEnd
  <2>3. RefreshExpiry(device[f.device].clientType,
                      family[f.device].createdAt, f.at)
            <= FamilyEnd(f.device)
    BY <1>0, <2>1, RefreshExpiryBound DEF FamilyEnd
  <2>4. refresh'[f.token].expiresAt <= End(refresh'[f.token].device)
    BY <1>0, <1>4, <2>2, <2>3 DEF RefreshFinish
  <2>5. refresh[f.parent].status # "none" /\ refresh[f.token].status = "none"
    BY DEF WellLinked, FreshIds
  <2>6. \A t \in Tokens \ {f.token} :
            /\ refresh'[t].status # "none" => refresh[t].status # "none"
            /\ refresh'[t].device = refresh[t].device
            /\ refresh'[t].expiresAt = refresh[t].expiresAt
    <3>1. \A t \in Tokens \ {f.token, f.parent} : refresh'[t] = refresh[t]
      BY <1>0, <1>4 DEF RefreshFinish
    <3>2. refresh'[f.parent] =
              [refresh[f.parent] EXCEPT !.status = "stored", !.used = TRUE]
      BY <1>0, <1>4, <2>5 DEF RefreshFinish
    <3>3. /\ refresh'[f.parent].device = refresh[f.parent].device
          /\ refresh'[f.parent].expiresAt = refresh[f.parent].expiresAt
      BY <1>0, <3>2 DEF RefreshTokenRecord
    <3>4. QED
      BY <2>5, <3>1, <3>3
  <2>7. \A t \in Tokens \ {f.token} : refresh'[t].status # "none"
            => refresh'[t].expiresAt <= End(refresh'[t].device)
    BY <2>2, <2>6 DEF WellLinked
  <2>8. f.at + AccessTtl <= FamilyEnd(f.device) + AccessTtl
    BY <1>0, <2>1
  <2>9. \A a \in access' : a.expiresAt <= End(a.device) + AccessTtl
    BY <1>0, <1>4, <2>2, <2>8 DEF RefreshFinish
  <2>10. \A g \in refreshing' : g.at <= End(g.device)
    BY <1>0, <1>4, <2>2 DEF RefreshFinish
  <2>11. QED
    BY <2>4, <2>7, <2>9, <2>10 DEF FamilyEnd
<1>5. ASSUME NEW t \in Tokens, RefreshReuse(t)
      PROVE PendingLifetime' /\ AbsoluteLifetime'
    BY <1>1, <1>5
    DEF RefreshReuse, FamilyEnd, CompromisedDevice, TokensRevoked,
        DeviceRecord, RefreshTokenFamilyRecord, RefreshTokenRecord
<1>6. ASSUME NEW d \in Devices, RevokeDevice(d)
      PROVE PendingLifetime' /\ AbsoluteLifetime'
    BY <1>1, <1>6
    DEF RevokeDevice, FamilyEnd, TokensRevoked,
        DeviceRecord, RefreshTokenFamilyRecord, RefreshTokenRecord
<1>7. ASSUME CleanupExpired
      PROVE PendingLifetime' /\ AbsoluteLifetime'
    BY <1>1, <1>7
    DEF CleanupExpired, SweptRefresh, FamilyEnd, RefreshTokenRecord
<1>8. ASSUME UNCHANGED <<device, family, refresh, access, refreshing>>
      PROVE PendingLifetime' /\ AbsoluteLifetime'
    BY <1>1, <1>8 DEF FamilyEnd
<1>9. QED
    BY <1>2, <1>3, <1>4, <1>5, <1>6, <1>7, <1>8
    DEF Next, vars, CreatePairingSession, RedeemExpired, RedeemWrongCode,
        Redeem, RegisterBegin, IssueWebSocketTicket, Upgrade,
        ConnectionClosed, Tick

-----------------------------------------------------------------------------
\* The inductive invariant holds in every reachable state.
THEOREM Inductive == Spec => []IndInv
<1>1. IndInv /\ [Next]_vars => IndInv'
    BY TypeStep, WellLinkedStep, FreshIdsStep, AttemptsStep, SingleUseStep,
       StatusesStep, ConnectionStep, LifetimeStep DEF IndInv
<1>2. QED
    BY InitInd, <1>1, PTL DEF Spec

\* Type correctness of the service's state.
THEOREM TypeCorrect == Spec => []TypeOK
<1>1. IndInv => TypeOK
    BY DEF IndInv
<1>2. QED
    BY Inductive, <1>1, PTL

\* However many sessions, codes, clients and calls at once: one code pairs
\* at most one device.
THEOREM OneCodeOneDevice == Spec => []OneDevicePerPairing
<1>1. IndInv => OneDevicePerPairing
    BY DEF IndInv, SingleUse, OneDevicePerPairing
<1>2. QED
    BY Inductive, <1>1, PTL

\* A session that saw its last allowed wrong code yields nothing.
THEOREM GuessingIsBounded == Spec => []LockedPairingIsDead
<1>1. IndInv => LockedPairingIsDead
    BY DEF IndInv, SingleUse, AttemptsLeft, LockedPairingIsDead
<1>2. QED
    BY Inductive, <1>1, PTL

\* Device row and refresh family row never disagree.
THEOREM RowsAgree == Spec => []StatusesAgree
<1>1. IndInv => StatusesAgree
    BY DEF IndInv
<1>2. QED
    BY Inductive, <1>1, PTL

\* A revoked device has no relay connection.
THEOREM RevocationDisconnects == Spec => []RevokedHasNoConnection
<1>1. IndInv => RevokedHasNoConnection
    BY DEF IndInv
<1>2. QED
    BY Inductive, <1>1, PTL

\* Refreshing does not extend a family's life.
THEOREM RefreshingEnds == Spec => []AbsoluteLifetime
<1>1. IndInv => AbsoluteLifetime
    BY DEF IndInv
<1>2. QED
    BY Inductive, <1>1, PTL

\* No step brings a revoked device back, or one that was sent to repair.
THEOREM NoResurrection == Spec => RevocationIsFinal
<1>1. ASSUME IndInv, [Next]_vars, NEW d \in Devices
      PROVE  /\ device[d].status \in {"revoked", "repair_required"}
                    => device'[d].status \in {"revoked", "repair_required"}
             /\ device[d].status = "revoked" => device'[d].status = "revoked"
  <2> USE DEF IndInv, TypeOK
  <2>1. ASSUME NEW f \in registering, RegisterFinish(f)
        PROVE device[d].status # "none" => device'[d] = device[d]
    <3>1. f.device \in Devices /\ device[f.device].status = "none"
      BY <1>1 DEF Registration, FreshIds
    <3>2. QED
      BY <2>1, <3>1 DEF RegisterFinish
  <2>2. ASSUME NEW f \in refreshing, RefreshFinish(f)
        PROVE device'[d] = device[d]
    BY <1>1, <2>2 DEF RefreshFinish, TouchedDevice, Refresh
  <2>3. ASSUME NEW t \in Tokens, RefreshReuse(t)
        PROVE \/ device'[d] = device[d]
              \/ device[d].status = "active"
    BY <1>1, <2>3 DEF RefreshReuse, Presentable, CompromisedDevice, WellLinked
  <2>4. ASSUME NEW e \in Devices, RevokeDevice(e)
        PROVE device'[d] = device[d] \/ device'[d].status = "revoked"
    BY <1>1, <2>4 DEF RevokeDevice, DeviceRecord
  <2>5. CASE UNCHANGED device
    BY <2>5
  <2>6. QED
    BY <1>1, <2>1, <2>2, <2>3, <2>4, <2>5
    DEF Next, vars, CreatePairingSession, RedeemExpired, RedeemWrongCode,
        Redeem, RegisterBegin, RefreshBegin, IssueWebSocketTicket, Upgrade,
        ConnectionClosed, CleanupExpired, Tick
<1>2. IndInv /\ [Next]_vars =>
          [\A d \in Devices :
              /\ device[d].status \in {"revoked", "repair_required"}
                     => device'[d].status \in {"revoked", "repair_required"}
              /\ device[d].status = "revoked"
                     => device'[d].status = "revoked"]_vars
    BY <1>1
<1>3. QED
    BY <1>2, Inductive, PTL DEF RevocationIsFinal, Spec

\* A device that is not active opens no connection.
THEOREM DeadStaysClosed == Spec => DeadDeviceOpensNothing
<1>1. ASSUME IndInv, [Next]_vars, NEW d \in Devices,
             device[d].status \in {"revoked", "repair_required"}
      PROVE  connection'[d] \in {None, connection[d]}
  <2> USE DEF IndInv, TypeOK
  <2>1. ASSUME NEW k \in Tickets, Upgrade(k) PROVE connection'[d] = connection[d]
    <3>1. ticket[k].device # d
      BY <1>1, <2>1 DEF Upgrade
    <3>2. QED
      BY <1>1, <2>1, <3>1 DEF Upgrade
  <2>2. ASSUME NEW e \in Devices, ConnectionClosed(e) \/ RevokeDevice(e)
        PROVE  connection'[d] \in {None, connection[d]}
    BY <1>1, <2>2 DEF ConnectionClosed, RevokeDevice, RelayRevoked
  <2>3. QED
    BY <1>1, <2>1, <2>2
    DEF Next, vars, CreatePairingSession, RedeemExpired, RedeemWrongCode,
        Redeem, RegisterBegin, RegisterFinish, RefreshBegin, RefreshFinish,
        RefreshReuse, IssueWebSocketTicket, CleanupExpired, Tick
<1>2. IndInv /\ [Next]_vars =>
          [\A d \in Devices :
              device[d].status \in {"revoked", "repair_required"}
                  => connection'[d] \in {None, connection[d]}]_vars
    BY <1>1
<1>3. QED
    BY <1>2, Inductive, PTL DEF DeadDeviceOpensNothing, Spec

-----------------------------------------------------------------------------
\* A ticket that may still open a connection has opened none.
OpenedOnce ==
    \A k \in Tickets :
        /\ ticket[k].opened <= 1
        /\ ticket[k].status \in {"none", "unused"} => ticket[k].opened = 0

\* A ticket opens one connection, in every interleaving of upgrades with the
\* cleanup.
THEOREM TicketsAreSpent == Spec => []TicketOpensOnce
<1>1. Init => OpenedOnce
    BY DEF Init, OpenedOnce
<1>2. ASSUME IndInv, OpenedOnce, [Next]_vars PROVE OpenedOnce'
  <2> USE <1>2 DEF IndInv, TypeOK, OpenedOnce, WebSocketTicketRecord
  <2>1. ASSUME NEW a \in access, NEW k \in Tickets, IssueWebSocketTicket(a, k)
        PROVE  OpenedOnce'
    BY <2>1 DEF IssueWebSocketTicket
  <2>2. ASSUME NEW k \in Tickets, Upgrade(k) PROVE OpenedOnce'
    BY <2>2 DEF Upgrade, ConsumedTicket
  <2>3. CASE CleanupExpired
    BY <2>3 DEF CleanupExpired
  <2>4. CASE UNCHANGED ticket
    BY <2>4
  <2>5. QED
    BY <2>1, <2>2, <2>3, <2>4
    DEF Next, vars, CreatePairingSession, RedeemExpired, RedeemWrongCode,
        Redeem, RegisterBegin, RegisterFinish, RefreshBegin, RefreshFinish,
        RefreshReuse, ConnectionClosed, RevokeDevice, Tick
<1>3. OpenedOnce => TicketOpensOnce
    BY DEF OpenedOnce, TicketOpensOnce
<1>4. IndInv /\ OpenedOnce /\ [Next]_vars => OpenedOnce'
    BY <1>2
<1>5. QED
    BY <1>1, <1>3, <1>4, Inductive, PTL DEF Spec

-----------------------------------------------------------------------------
\* Calls that wait are counted; a token that was traded in is marked; what a
\* token was traded for, and what it is being traded for, are together no more
\* than the calls that may wait at once.
Rotation ==
    /\ IsFiniteSet(refreshing) /\ Cardinality(refreshing) <= MaxInFlight
    /\ \A t \in Tokens :
           /\ refresh[t].status = "none" => refresh[t].parent = None /\ ~refresh[t].used
           /\ IsFiniteSet(Successors(t))
           /\ Successors(t) # {} => refresh[t].used
           /\ Cardinality(Successors(t)) + Cardinality(Pending(t)) <= MaxInFlight

LEMMA RotationInit == Init => Rotation
<1> SUFFICES ASSUME Init PROVE Rotation
    OBVIOUS
<1>1. \A t \in Tokens : Successors(t) = {} /\ Pending(t) = {}
    BY NoneAssumption DEF Init, Successors, Pending
<1>2. /\ IsFiniteSet({}) /\ Cardinality({}) = 0
      /\ MaxInFlight \in Nat
    BY FS_EmptySet, BoundAssumption
<1>3. IsFiniteSet(refreshing) /\ Cardinality(refreshing) <= MaxInFlight
    BY <1>2 DEF Init
<1>4. \A t \in Tokens :
          /\ refresh[t].parent = None /\ ~refresh[t].used
          /\ IsFiniteSet(Successors(t))
          /\ Cardinality(Successors(t)) + Cardinality(Pending(t)) <= MaxInFlight
  <2> TAKE t \in Tokens
  <2>1. Cardinality(Successors(t)) = 0 /\ Cardinality(Pending(t)) = 0
    BY <1>1, <1>2
  <2>2. refresh[t].parent = None /\ ~refresh[t].used
    BY DEF Init
  <2>3. QED
    BY <1>1, <1>2, <2>1, <2>2
<1>5. QED
    BY <1>1, <1>3, <1>4 DEF Rotation

\* Steps that neither trade a token in nor forget that one was.
LEMMA RotationStays ==
    ASSUME Rotation, refreshing' = refreshing,
           \A t \in Tokens : /\ refresh'[t].parent = refresh[t].parent
                             /\ refresh'[t].used = refresh[t].used
                             /\ refresh'[t].status = "none" => refresh[t].status = "none"
    PROVE  Rotation'
<1>1. \A t \in Tokens : Successors(t)' = Successors(t) /\ Pending(t)' = Pending(t)
    BY DEF Successors, Pending
<1>2. QED
    BY <1>1 DEF Rotation

LEMMA RotationBegins ==
    ASSUME IndInv, Rotation, NEW t \in Tokens, NEW new \in Tokens, RefreshBegin(t, new)
    PROVE  Rotation'
<1> DEFINE r == [device |-> refresh[t].device, token |-> new, parent |-> t, at |-> now]
<1>1. /\ refresh' = refresh /\ refreshing' = refreshing \cup {r} /\ r.parent = t
      /\ ~refresh[t].used /\ Cardinality(refreshing) < MaxInFlight
      /\ IsFiniteSet(refreshing) /\ MaxInFlight \in Nat
    BY BoundAssumption DEF RefreshBegin, Rotation
<1> HIDE DEF r
<1>2. /\ IsFiniteSet(refreshing') /\ Cardinality(refreshing') \in Nat
      /\ Cardinality(refreshing') <= MaxInFlight
    BY <1>1, FS_AddElement, FS_CardinalityType
<1>3. \A u \in Tokens : Successors(u)' = Successors(u)
    BY <1>1 DEF Successors
<1>4. Successors(t) = {} /\ Cardinality(Successors(t)) = 0
    BY <1>1, FS_EmptySet DEF Rotation
<1>5. Cardinality(Pending(t)') <= Cardinality(refreshing')
  <2>1. Pending(t)' \in SUBSET refreshing'
    BY DEF Pending
  <2>2. QED
    BY <1>2, <2>1, FS_Subset
<1>6. Cardinality(Pending(t)') \in Nat
  <2>1. Pending(t)' \in SUBSET refreshing'
    BY DEF Pending
  <2>2. QED
    BY <1>2, <2>1, FS_Subset, FS_CardinalityType
<1>7. \A u \in Tokens \ {t} : Pending(u)' = Pending(u)
    BY <1>1 DEF Pending
<1>8. \A u \in Tokens : Cardinality(Successors(u)') + Cardinality(Pending(u)') <= MaxInFlight
  <2> TAKE u \in Tokens
  <2>1. CASE u = t
    BY <1>1, <1>2, <1>3, <1>4, <1>5, <1>6, <2>1
  <2>2. CASE u # t
    BY <1>3, <1>7, <2>2 DEF Rotation
  <2>3. QED
    BY <2>1, <2>2
<1>9. QED
    BY <1>1, <1>2, <1>3, <1>8 DEF Rotation

\* The call that ends moves from those that wait to the tokens it was traded for.
LEMMA RotationEnds ==
    ASSUME IndInv, Rotation, NEW f \in refreshing, RefreshFinish(f)
    PROVE  Rotation'
<1> DEFINE t == f.parent
           n == f.token
<1>1. /\ t \in Tokens /\ n \in Tokens /\ t # n
      /\ refresh[n].status = "none" /\ refresh[t].status # "none"
      /\ refreshing' = refreshing \ {f} /\ None \notin Tokens
    BY NoneAssumption DEF IndInv, TypeOK, WellLinked, FreshIds, Refresh, RefreshFinish
<1>2. /\ \A u \in Tokens \ {n} : refresh'[u].parent = refresh[u].parent
      /\ \A u \in Tokens \ {t, n} : refresh'[u] = refresh[u]
      /\ refresh'[t].status = "stored" /\ refresh'[t].used
      /\ refresh'[n].status = "stored" /\ refresh'[n].parent = t
      /\ ~refresh'[n].used
  <2>1. /\ refresh \in [Tokens -> RefreshTokenRecord]
        /\ refresh' = [refresh EXCEPT
               ![t] = [refresh[t] EXCEPT !.status = "stored", !.used = TRUE],
               ![n] = [status |-> "stored", device |-> f.device, parent |-> t,
                       expiresAt |-> RefreshExpiry(device[f.device].clientType,
                                                   family[f.device].createdAt, f.at),
                       used |-> FALSE, revoked |-> FALSE]]
    BY DEF IndInv, TypeOK, RefreshFinish
  <2> HIDE DEF t, n
  <2>2. /\ refresh'[t] = [refresh[t] EXCEPT !.status = "stored", !.used = TRUE]
        /\ refresh[t] \in RefreshTokenRecord
        /\ \A u \in Tokens \ {t, n} : refresh'[u] = refresh[u]
    BY <1>1, <2>1
  <2>3. /\ refresh'[t].status = "stored" /\ refresh'[t].used
        /\ refresh'[t].parent = refresh[t].parent
    BY <2>2 DEF RefreshTokenRecord
  <2>4. /\ refresh'[n].status = "stored" /\ refresh'[n].parent = t
        /\ refresh'[n].used = FALSE
    BY <1>1, <2>1
  <2>5. QED
    BY <2>2, <2>3, <2>4
<1>3. refresh[n].parent = None /\ ~refresh[n].used /\ Successors(n) = {}
    BY <1>1 DEF Rotation
<1>4. /\ Successors(t)' = Successors(t) \cup {n} /\ n \notin Successors(t)
      /\ \A u \in Tokens \ {t} : Successors(u)' = Successors(u)
    BY <1>1, <1>2, <1>3 DEF Successors
<1>5. /\ Pending(t)' = Pending(t) \ {f} /\ f \in Pending(t)
      /\ \A u \in Tokens \ {t} : Pending(u)' = Pending(u)
    BY <1>1 DEF Pending
<1> HIDE DEF t, n
<1>6. /\ IsFiniteSet(refreshing) /\ Cardinality(refreshing) <= MaxInFlight
      /\ IsFiniteSet(refreshing') /\ Cardinality(refreshing') <= MaxInFlight
    <2>1. /\ IsFiniteSet(refreshing) /\ Cardinality(refreshing) <= MaxInFlight
          /\ MaxInFlight \in Nat
      BY BoundAssumption DEF Rotation
    <2>2. IsFiniteSet(refreshing') /\ Cardinality(refreshing') = Cardinality(refreshing) - 1
      BY <1>1, <2>1, FS_RemoveElement
    <2>3. Cardinality(refreshing) \in Nat
      BY <2>1, FS_CardinalityType
    <2>4. QED
      BY <2>1, <2>2, <2>3
<1>7. /\ IsFiniteSet(Successors(t)) /\ IsFiniteSet(Successors(t)')
      /\ Cardinality(Successors(t)) \in Nat
      /\ Cardinality(Successors(t)') = Cardinality(Successors(t)) + 1
    <2>1. IsFiniteSet(Successors(t))
      BY <1>1 DEF Rotation
    <2>2. QED
      BY <1>4, <2>1, FS_AddElement, FS_CardinalityType
<1>8. /\ Cardinality(Pending(t)) \in Nat
      /\ Cardinality(Pending(t)') = Cardinality(Pending(t)) - 1
    <2>1. IsFiniteSet(Pending(t))
      <3>1. Pending(t) \in SUBSET refreshing
        BY DEF Pending
      <3>2. QED
        BY <1>6, <3>1, FS_Subset
    <2>2. QED
      BY <1>5, <2>1, FS_RemoveElement, FS_CardinalityType
<1>9. Cardinality(Successors(t)') + Cardinality(Pending(t)') <= MaxInFlight
  <2>1. Cardinality(Successors(t)) + Cardinality(Pending(t)) <= MaxInFlight
    BY <1>1 DEF Rotation
  <2>2. QED
    BY <1>7, <1>8, <2>1, BoundAssumption
<1>10. \A u \in Tokens :
           /\ refresh'[u].status = "none" => refresh'[u].parent = None /\ ~refresh'[u].used
           /\ IsFiniteSet(Successors(u)')
           /\ Successors(u)' # {} => refresh'[u].used
           /\ Cardinality(Successors(u)') + Cardinality(Pending(u)') <= MaxInFlight
  <2> TAKE u \in Tokens
  <2>1. CASE u = t
    BY <1>2, <1>7, <1>9, <2>1
  <2>2. CASE u = n
    BY <1>1, <1>2, <1>3, <1>4, <1>5, <2>2 DEF Rotation
  <2>3. CASE u \notin {t, n}
    BY <1>2, <1>4, <1>5, <2>3 DEF Rotation
  <2>4. QED
    BY <2>1, <2>2, <2>3
<1>11. QED
    BY <1>6, <1>10 DEF Rotation

LEMMA RotationStep ==
    ASSUME IndInv, Rotation, [Next]_vars
    PROVE  Rotation'
<1> USE DEF IndInv, TypeOK
<1>1. ASSUME NEW f \in registering, RegisterFinish(f) PROVE Rotation'
  <2>1. /\ f.token \in Tokens /\ refresh[f.token].status = "none"
        /\ refresh[f.token].parent = None /\ refresh[f.token].used = FALSE
    BY DEF Registration, FreshIds, Rotation, RefreshTokenRecord
  <2>2. QED
    BY <1>1, <2>1, RotationStays DEF RegisterFinish
<1>2. ASSUME NEW t \in Tokens, NEW new \in Tokens, RefreshBegin(t, new) PROVE Rotation'
    BY <1>2, RotationBegins
<1>3. ASSUME NEW f \in refreshing, RefreshFinish(f) PROVE Rotation'
    BY <1>3, RotationEnds
<1>4. ASSUME NEW d, refresh' = TokensRevoked(d), refreshing' = refreshing PROVE Rotation'
    BY <1>4, RotationStays DEF TokensRevoked, RefreshTokenRecord
<1>5. CASE CleanupExpired
    BY <1>5, RotationStays DEF CleanupExpired, RefreshTokenRecord, SweptRefresh
<1>6. CASE UNCHANGED <<refresh, refreshing>>
    BY <1>6, RotationStays
<1>7. QED
    BY <1>1, <1>2, <1>3, <1>4, <1>5, <1>6
    DEF Next, vars, CreatePairingSession, RedeemExpired, RedeemWrongCode,
        Redeem, RegisterBegin, RefreshReuse, IssueWebSocketTicket, Upgrade,
        ConnectionClosed, RevokeDevice, Tick

\* However refreshes overlap, a token is traded in no more often than calls may
\* wait at once; with one call at a time, once.
THEOREM RotationIsBounded == Spec => []RotationBoundedByOverlap
<1>1. Rotation => RotationBoundedByOverlap
    BY DEF Rotation, RotationBoundedByOverlap
<1>2. IndInv /\ Rotation /\ [Next]_vars => Rotation'
    BY RotationStep
<1>3. QED
    BY <1>1, <1>2, RotationInit, Inductive, PTL DEF Spec

-----------------------------------------------------------------------------
(* The service implements the lifecycle of devices.                          *)

\* A device that exists was made with a bootstrap token that was minted for a
\* session whose code was accepted.
LEMMA MadeFrom ==
    ASSUME IndInv, NEW d \in Devices, device[d].status # "none"
    PROVE  /\ device[d].bootstrap \in Bootstraps
           /\ bootstrap[device[d].bootstrap].status # "none"
           /\ bootstrap[device[d].bootstrap].session \in Sessions
           /\ pairing[bootstrap[device[d].bootstrap].session].status = "redeemed"
<1>1. [device |-> d, bootstrap |-> device[d].bootstrap] \in Claims
    BY DEF Claims
<1>2. QED
    BY <1>1 DEF IndInv, SingleUse

\* Nothing is paired by a step that only changes statuses, and those of
\* devices that exist.
LEMMA NothingPaired ==
    ASSUME IndInv,
           \A d \in Devices : /\ device'[d].bootstrap = device[d].bootstrap
                              /\ device'[d].status = "none" <=> device[d].status = "none",
           \A b \in Bootstraps : bootstrap[b].status # "none"
               => bootstrap'[b].session = bootstrap[b].session
    PROVE  PairedDevices' = PairedDevices
<1>1. \A d \in Devices : device[d].status # "none" =>
          bootstrap'[device'[d].bootstrap].session = bootstrap[device[d].bootstrap].session
    BY MadeFrom
<1>2. ASSUME NEW s
      PROVE  {d \in Devices : device'[d].status # "none"
                                /\ bootstrap'[device'[d].bootstrap].session = s}
             = {d \in Devices : device[d].status # "none"
                                  /\ bootstrap[device[d].bootstrap].session = s}
    BY <1>1
<1>3. QED
    BY <1>2 DEF PairedDevices

LEMMA LifecycleLocks ==
    ASSUME IndInv, NEW s \in Sessions, RedeemWrongCode(s)
    PROVE  Lifecycle!Lock(s) \/ UNCHANGED Lifecycle!vars
<1>1. PairedDevices[s] = {}
    BY MadeFrom DEF RedeemWrongCode, Redeemable, PairedDevices
<1>2. /\ pairing' = [pairing EXCEPT ![s] = AfterWrongCode(s)]
      /\ pairing \in [Sessions -> PairingSessionRecord]
      /\ pairing[s].status \in {"pending", "expired"}
    BY DEF RedeemWrongCode, Redeemable, IndInv, TypeOK
<1>3. /\ \A r \in Sessions \ {s} : pairing'[r] = pairing[r]
      /\ pairing'[s].status = "locked" \/ pairing'[s].status = pairing[s].status
    BY <1>2 DEF AfterWrongCode, PairingSessionRecord
<1>4. LockedSessions' = LockedSessions \cup {s} \/ LockedSessions' = LockedSessions
    BY <1>2, <1>3 DEF LockedSessions
<1>5. PairedDevices' = PairedDevices /\ Stage' = Stage /\ connection' = connection
    BY DEF RedeemWrongCode, PairedDevices, Stage
<1>6. QED
    BY <1>1, <1>4, <1>5 DEF Lifecycle!Lock, Lifecycle!vars

\* Accepting a code mints a bootstrap token, which has made no device yet.
LEMMA LifecycleRedeems ==
    ASSUME IndInv, NEW s \in Sessions, NEW b \in Bootstraps, Redeem(s, b)
    PROVE  UNCHANGED Lifecycle!vars
<1>1. \A c \in Bootstraps : bootstrap[c].status # "none" => bootstrap'[c] = bootstrap[c]
    BY DEF Redeem, IndInv, TypeOK
<1>2. PairedDevices' = PairedDevices
    BY <1>1, NothingPaired DEF Redeem
<1>3. LockedSessions' = LockedSessions
    BY DEF Redeem, Redeemable, LockedSessions, IndInv, TypeOK, PairingSessionRecord
<1>4. QED
    BY <1>2, <1>3 DEF Redeem, Stage, Lifecycle!vars

LEMMA LifecyclePairs ==
    ASSUME IndInv, NEW f \in registering, RegisterFinish(f)
    PROVE  \E s \in Sessions : Lifecycle!Pair(s, f.device)
<1> DEFINE d == f.device
           s == bootstrap[f.bootstrap].session
<1>1. /\ d \in Devices /\ f.bootstrap \in Bootstraps /\ device[d].status = "none"
    BY DEF IndInv, TypeOK, Registration, FreshIds
<1>2. [device |-> d, bootstrap |-> f.bootstrap] \in Claims
    BY DEF Claims
<1>3. /\ s \in Sessions /\ pairing[s].status = "redeemed"
      /\ bootstrap[f.bootstrap].status # "none"
    BY <1>1, <1>2 DEF IndInv, SingleUse
<1>4. PairedDevices[s] = {}
  <2> SUFFICES ASSUME NEW e \in Devices, device[e].status # "none",
                      bootstrap[device[e].bootstrap].session = s
               PROVE  FALSE
    BY <1>3 DEF PairedDevices
  <2>1. device[e].bootstrap = f.bootstrap
    BY <1>1, <1>3, MadeFrom DEF IndInv, SingleUse
  <2>2. [device |-> e, bootstrap |-> f.bootstrap] \in Claims
    BY <2>1 DEF Claims
  <2>3. [device |-> e, bootstrap |-> f.bootstrap] = [device |-> d, bootstrap |-> f.bootstrap]
    BY <1>2, <2>2 DEF IndInv, SingleUse
  <2>4. QED
    BY <1>1, <2>3
<1>5. /\ device' = [device EXCEPT ![d] =
             [status |-> "active", clientType |-> f.clientType, bootstrap |-> f.bootstrap]]
      /\ device = [e \in Devices |-> device[e]]
      /\ UNCHANGED <<pairing, bootstrap, connection>>
    BY DEF RegisterFinish, IndInv, TypeOK
<1>6. /\ device'[d].status = "active" /\ device'[d].bootstrap = f.bootstrap
      /\ \A e \in Devices \ {d} : device'[e] = device[e]
    BY <1>1, <1>5
<1>7. PairedDevices' = [PairedDevices EXCEPT ![s] = {d}]
  <2>1. ASSUME NEW r \in Sessions
        PROVE  PairedDevices'[r] = IF r = s THEN {d} ELSE PairedDevices[r]
    <3>1. PairedDevices'[r] =
              {e \in Devices : device'[e].status # "none"
                                 /\ bootstrap[device'[e].bootstrap].session = r}
      BY <1>5 DEF PairedDevices
    <3>2. PairedDevices[r] =
              {e \in Devices : device[e].status # "none"
                                 /\ bootstrap[device[e].bootstrap].session = r}
      BY DEF PairedDevices
    <3>3. QED
      BY <1>1, <1>4, <1>6, <3>1, <3>2
  <2>2. /\ PairedDevices = [r \in Sessions |-> PairedDevices[r]]
        /\ PairedDevices' = [r \in Sessions |-> PairedDevices'[r]]
    BY DEF PairedDevices
  <2> HIDE DEF s, d
  <2>3. QED
    BY <2>1, <2>2
<1>8. Stage' = [Stage EXCEPT ![d] = "active"] /\ Stage[d] = "none"
    BY <1>1, <1>6 DEF Stage
<1>9. s \notin LockedSessions /\ LockedSessions' = LockedSessions
    BY <1>3, <1>5 DEF LockedSessions
<1>10. QED
    BY <1>3, <1>4, <1>5, <1>7, <1>8, <1>9 DEF Lifecycle!Pair

\* A step that gives an existing device another status.
LEMMA StageMoves ==
    ASSUME IndInv, NEW d \in Devices, device[d].status # "none", NEW status,
           status # "none", device' = [device EXCEPT ![d].status = status],
           UNCHANGED <<pairing, bootstrap>>
    PROVE  /\ Stage' = [Stage EXCEPT ![d] = status] /\ Stage[d] = device[d].status
           /\ PairedDevices' = PairedDevices /\ LockedSessions' = LockedSessions
<1>1. /\ device'[d].status = status /\ device'[d].bootstrap = device[d].bootstrap
      /\ \A e \in Devices \ {d} : device'[e] = device[e]
    BY DEF IndInv, TypeOK, DeviceRecord
<1>2. Stage' = [Stage EXCEPT ![d] = status] /\ Stage[d] = device[d].status
  <2>1. /\ Stage = [e \in Devices |-> Stage[e]] /\ Stage[d] = device[d].status
        /\ Stage' = [e \in Devices |-> Stage'[e]]
    BY DEF Stage
  <2>2. ASSUME NEW e \in Devices PROVE Stage'[e] = IF e = d THEN status ELSE Stage[e]
    BY <1>1 DEF Stage
  <2>3. QED
    BY <2>1, <2>2
<1>3. PairedDevices' = PairedDevices
    BY <1>1, NothingPaired
<1>4. QED
    BY <1>2, <1>3 DEF LockedSessions

\* A step that touches neither pairing sessions nor devices, and of bootstrap
\* tokens the status.
LEMMA LifecycleStays ==
    ASSUME IndInv, device' = device, pairing' = pairing,
           \A b \in Bootstraps : bootstrap'[b].session = bootstrap[b].session
    PROVE  /\ Stage' = Stage /\ LockedSessions' = LockedSessions
           /\ PairedDevices' = PairedDevices
<1>1. PairedDevices' = PairedDevices
    BY NothingPaired
<1>2. QED
    BY <1>1 DEF Stage, LockedSessions

LEMMA LifecycleStep ==
    ASSUME IndInv, [Next]_vars
    PROVE  [Lifecycle!Next]_(Lifecycle!vars)
<1> USE DEF Lifecycle!Next, Lifecycle!vars
<1> DEFINE Goal == Lifecycle!Next \/ UNCHANGED Lifecycle!vars
<1>1. ASSUME NEW s \in Sessions, CreatePairingSession(s) \/ RedeemExpired(s) PROVE Goal
  <2>1. LockedSessions' = LockedSessions
    BY <1>1 DEF CreatePairingSession, RedeemExpired, Redeemable, LockedSessions, IndInv,
                TypeOK, PairingSessionRecord
  <2>2. QED
    BY <1>1, <2>1 DEF CreatePairingSession, RedeemExpired, PairedDevices, Stage
<1>2. ASSUME NEW s \in Sessions, RedeemWrongCode(s) PROVE Goal
    BY <1>2, LifecycleLocks
<1>3. ASSUME NEW s \in Sessions, NEW b \in Bootstraps, Redeem(s, b) PROVE Goal
    BY <1>3, LifecycleRedeems
<1>4. ASSUME NEW b \in Bootstraps, NEW c \in ClientTypes, NEW d \in Devices,
             NEW t \in Tokens, RegisterBegin(b, c, d, t)
      PROVE  Goal
  <2>1. \A e \in Bootstraps : bootstrap'[e].session = bootstrap[e].session
    BY <1>4 DEF RegisterBegin, IndInv, TypeOK, BootstrapTokenRecord
  <2>2. QED
    BY <1>4, <2>1, LifecycleStays DEF RegisterBegin
<1>5. ASSUME NEW f \in registering, RegisterFinish(f) PROVE Goal
  <2>1. f.device \in Devices
    BY DEF IndInv, TypeOK, Registration
  <2>2. QED
    BY <1>5, <2>1, LifecyclePairs
<1>6. ASSUME NEW f \in refreshing, RefreshFinish(f) PROVE Goal
  <2>1. device' = device
    BY <1>6 DEF RefreshFinish, TouchedDevice, IndInv, TypeOK
  <2>2. QED
    BY <1>6, <2>1, LifecycleStays DEF RefreshFinish
<1>7. ASSUME NEW t \in Tokens, RefreshReuse(t) PROVE Goal
  <2> DEFINE d == refresh[t].device
  <2>1. d \in Devices /\ device[d].status = "active"
    BY <1>7 DEF RefreshReuse, Presentable, IndInv, WellLinked
  <2>2. /\ device' = [device EXCEPT ![d].status = "repair_required"]
        /\ UNCHANGED <<pairing, bootstrap, connection>>
    BY <1>7 DEF RefreshReuse, CompromisedDevice
  <2>3. Lifecycle!Compromise(d)
    BY <2>1, <2>2, StageMoves DEF Lifecycle!Compromise
  <2>4. QED
    BY <2>1, <2>3
<1>8. ASSUME NEW k \in Tickets, Upgrade(k) PROVE Goal
  <2> DEFINE d == ticket[k].device
  <2>1. d \in Devices /\ device[d].status = "active"
    BY <1>8 DEF Upgrade, IndInv, WellLinked
  <2>2. /\ UNCHANGED <<device, pairing, bootstrap>>
        /\ connection' = [connection EXCEPT ![d] = k]
    BY <1>8 DEF Upgrade
  <2>3. Lifecycle!Connect(d, k)
    BY <2>1, <2>2, LifecycleStays DEF Lifecycle!Connect, Stage
  <2>4. QED
    BY <2>1, <2>3
<1>9. ASSUME NEW d \in Devices, ConnectionClosed(d) PROVE Goal
  <2>1. Lifecycle!Disconnect(d)
    BY <1>9, LifecycleStays DEF ConnectionClosed, Lifecycle!Disconnect
  <2>2. QED
    BY <2>1
<1>10. ASSUME NEW d \in Devices, RevokeDevice(d) PROVE Goal
  <2>1. Lifecycle!Revoke(d)
    BY <1>10, StageMoves DEF RevokeDevice, RelayRevoked, Lifecycle!Revoke
  <2>2. QED
    BY <2>1
<1>11. ASSUME CleanupExpired PROVE Goal
  <2>1. \A b \in Bootstraps : bootstrap'[b].session = bootstrap[b].session
    BY <1>11 DEF CleanupExpired, IndInv, TypeOK, BootstrapTokenRecord
  <2>2. QED
    BY <1>11, <2>1, LifecycleStays DEF CleanupExpired
<1>12. ASSUME UNCHANGED <<pairing, bootstrap, device, connection>> PROVE Goal
    BY <1>12, LifecycleStays
<1> HIDE DEF Goal, Lifecycle!Next, Lifecycle!vars
<1>13. ASSUME \/ \E t, new \in Tokens : RefreshBegin(t, new)
              \/ \E a \in access, k \in Tickets : IssueWebSocketTicket(a, k)
              \/ Tick \/ UNCHANGED vars
       PROVE  Goal
    BY <1>12, <1>13 DEF RefreshBegin, IssueWebSocketTicket, Tick, vars
<1>14. Goal
    BY <1>1, <1>2, <1>3, <1>4, <1>5, <1>6, <1>7, <1>8, <1>9, <1>10, <1>11, <1>13
    DEF Next
<1>15. QED
    BY <1>14 DEF Goal

\* Seen from outside, the service is the lifecycle of devices: whatever calls
\* overlap, codes are guessed, tokens expire or are removed, it adds no step.
THEOREM DevicesLiveOnce == Spec => ImplementsLifecycle
<1>1. Init => Lifecycle!Init
    BY DEF Init, Lifecycle!Init, LockedSessions, PairedDevices, Stage
<1>2. IndInv /\ [Next]_vars => [Lifecycle!Next]_(Lifecycle!vars)
    BY LifecycleStep
<1>3. Lifecycle!Init /\ [][Lifecycle!Next]_(Lifecycle!vars) <=> ImplementsLifecycle
    BY DEF ImplementsLifecycle, Lifecycle!Spec
<1>4. QED
    BY <1>1, <1>2, <1>3, Inductive, PTL DEF Spec

=============================================================================
