----------------------- MODULE MobileCompanion_proofs -----------------------
(***************************************************************************)
(* Theorems about MobileCompanion and its RelaySession, for any number of  *)
(* handlers that run at one time, of sockets, and any bounds.              *)
(*                                                                         *)
(* StoredTokenWorks is the hard one.  Handlers share one registration and  *)
(* no lock, so a handler that saves late could put a token back that an-   *)
(* other has rotated.  CarriedIsNewest says why it does not: as long as a  *)
(* token is on its way to storage, the access token that came with it is   *)
(* fresh, and nobody starts to refresh.  The other properties follow from  *)
(* what each handler owes (KeepsTrying) and what each prompt and token is  *)
(* known to (PromptsAreNew, TokensKnown).                                  *)
(***************************************************************************)
EXTENDS MobileCompanion, TLAPS

\* The handlers that refresh the session, and then go their ways.
Refreshing == {"connect", "network", "prompt", "refresh"}

\* Which handler can wait for what.
CallSound(k) ==
    /\ k.pc = "load" => k.op = "connect"
    /\ k.pc = "register" => k.op = "pair"
    /\ k.pc \in {"refresh", "refreshed"} => k.op \in Refreshing
    /\ k.pc = "save" => k.op \in Refreshing \cup {"pair"}
    /\ k.pc = "ticket" => k.op \in {"connect", "network"}

OpsMatch == \A c \in Calls : CallSound(call[c])

\* While storage is read at the start there is nothing else.
StartsAlone ==
    \A c \in Calls : call[c].pc = "load" =>
        /\ \A x \in Calls : x # c => call[x] = Idle
        /\ busy /\ ~timer /\ registration = 0
        /\ \A s \in Sockets : ~Live(s)

\* The session's sockets have tickets, and this.socket is alive.
SocketsSound ==
    /\ lastTicket # 0 => lastTicket \in DOMAIN ticketOf
    /\ timer => lastTicket # 0
    /\ \A s \in Sockets :
           /\ Live(s) => lastTicket # 0
           /\ wire[s].phase = "opening" => wire[s].ticket \in DOMAIN ticketOf
    /\ socket # NoSocket => Live(socket)

\* The socket that is being opened will ask for the prompt.
PendingWillBeAsked ==
    socket # NoSocket /\ wire[socket].phase = "opening" /\ pending \in known
        => wire[socket].resumes = pending

\* A prompt that a handler has still to send is nobody else's, and new to
\* the bridge.
PromptsAreNew ==
    /\ known \subseteq 1..prompts
    /\ \A c \in Calls : call[c].op = "prompt" =>
           /\ call[c].prompt \in 1..prompts
           /\ call[c].prompt \notin known
           /\ \A x \in Calls : x # c /\ call[x].op = "prompt"
                                  => call[x].prompt # call[c].prompt

\* What k waits for, or has, brings a registration.
Brings(k) == k.pc \in {"load", "refresh", "refreshed", "save"}

\* A token that is on its way from the bridge to storage.
Carries(k) == k.pc \in {"refreshed", "save"} /\ k.token # 0

\* A registration that is kept was issued, and not forgotten since.
Legit(t) == t # 0 => t \in DOMAIN tokenOf /\ ~signedOut

CallLegit(k) ==
    /\ k.pc \in {"refresh", "save"} => k.token \in DOMAIN tokenOf
    /\ k.pc = "refreshed" => k.token = 0 \/ k.token \in DOMAIN tokenOf
    /\ k.pc = "ticket" => k.token \in 0..devices
    /\ Brings(k) => ~signedOut

TokensKnown ==
    /\ devices <= Len(tokenOf)
    /\ access \in 0..devices
    /\ Legit(stored)
    /\ Legit(registration)
    /\ \A c \in Calls : CallLegit(call[c])

\* A token that is carried was not rotated, and nobody is about to: until it
\* is saved, the access token that came with it is fresh.
CarriedIsNewest ==
    /\ \A c \in Calls : Carries(call[c]) =>
           /\ call[c].token \notin used
           /\ \A x \in Calls : call[x].pc = "refresh" => call[x].token # call[c].token
    /\ \A c \in Calls : call[c].pc = "refreshed" /\ call[c].token # 0 =>
           /\ registration # call[c].token
           /\ \A x \in Calls : x # c /\ call[x].pc = "refreshed"
                                  => call[x].token # call[c].token
    /\ (\E c \in Calls : call[c].pc = "save") => registration = 0 \/ (access # 0 /\ fresh)

\* The part of the invariant that the session's own steps touch, too.
SessionSound ==
    /\ SessionTypeOK
    /\ SocketsSound
    /\ PendingWillBeAsked
    /\ PendingIsAsked
    /\ KeepsTrying
    /\ StartsAlone

HandlersSound ==
    /\ call \in [Calls -> Call]
    /\ prompts \in 0..MaxPrompts
    /\ OpsMatch
    /\ PromptsAreNew

TokensSound ==
    /\ registration \in 0..MaxTokens
    /\ access \in 0..MaxDevices
    /\ fresh \in BOOLEAN
    /\ ticketed \in BOOLEAN
    /\ stored \in 0..MaxTokens
    /\ devices \in 0..MaxDevices
    /\ tokenOf \in Seq(1..devices) /\ Len(tokenOf) <= MaxTokens
    /\ used \subseteq DOMAIN tokenOf
    /\ wasted \subseteq Device
    /\ signedOut \in BOOLEAN
    /\ TokensKnown
    /\ CarriedIsNewest
    /\ StoredTokenWorks

MInv == SessionSound /\ HandlersSound /\ TokensSound

LEMMA Bounds ==
    /\ 0 \in 0..MaxTokens /\ 0 \in 0..MaxPrompts /\ 0 \in 0..MaxDevices /\ 0 \in 0..MaxTickets
    /\ 0 \notin Prompt /\ Prompt \subseteq 0..MaxPrompts /\ Device \subseteq 0..MaxDevices
  BY MobileBounds, SessionBounds DEF Prompt, Device

LEMMA IdleCall ==
    /\ Idle \in Call /\ Idle.op = "none" /\ Idle.pc = "idle" /\ Idle.token = 0
    /\ CallSound(Idle) /\ ~Occupies(Idle) /\ ~Connects(Idle)
    /\ ~Brings(Idle) /\ ~Carries(Idle)
  BY Bounds DEF Idle, Call, CallSound, Occupies, Connects, Brings, Carries

LEMMA FreeWire == Free \in Wire /\ Free.phase = "none" /\ Free.asked = {}
  BY Bounds DEF Free, Wire

LEMMA InitInv == Init => MInv
<1> SUFFICES ASSUME Init PROVE MInv
  OBVIOUS
<1>0. PICK c \in Calls : call = Booting(c)
  BY DEF Init
<1>1. /\ call \in [Calls -> Call] /\ call[c].op = "connect" /\ call[c].pc = "load"
      /\ \A x \in Calls : x # c => call[x] = Idle
  <2>1. LET k == [Idle EXCEPT !.op = "connect", !.pc = "load"]
        IN  k \in Call /\ k.op = "connect" /\ k.pc = "load"
    BY Bounds DEF Idle, Call
  <2> QED
    BY <1>0, <2>1, IdleCall DEF Booting
<1>2. SessionSound
  <2>1. SessionTypeOK
    <3>1. wire \in [Sockets -> Wire]
      BY FreeWire DEF Init, SessionInit
    <3>2. ticketOf \in Seq(Device) /\ Len(ticketOf) <= MaxTickets
      BY SessionBounds DEF Init, SessionInit
    <3> QED
      BY <3>1, <3>2, Bounds DEF Init, SessionInit, SessionTypeOK
  <2>2. \A s \in Sockets : ~Live(s) /\ wire[s].phase # "opening"
    BY FreeWire DEF Init, SessionInit, Live
  <2>3. KeepsTrying
    BY <1>1 DEF KeepsTrying, Trying, Occupies, Connects
  <2>4. StartsAlone
    BY <1>1, <2>2, IdleCall DEF StartsAlone, Init, SessionInit
  <2> QED
    BY <2>1, <2>2, <2>3, <2>4
       DEF SessionSound, SocketsSound, PendingWillBeAsked, PendingIsAsked, IsOpen,
           Init, SessionInit
<1>3. HandlersSound
  BY <1>1, IdleCall, Bounds
     DEF HandlersSound, OpsMatch, CallSound, PromptsAreNew, Init, SessionInit
<1>4. TokensSound
  <2>1. \A x \in Calls : call[x].pc \in {"load", "idle"} /\ ~Carries(call[x])
    BY <1>1, IdleCall DEF Carries
  <2>2. /\ tokenOf = <<>> /\ Len(tokenOf) = 0 /\ tokenOf \in Seq(1..devices) /\ used = {}
        /\ Len(tokenOf) <= MaxTokens
    BY MobileBounds DEF Init
  <2>3. TokensKnown
    BY <2>1, <2>2 DEF Init, TokensKnown, Legit, CallLegit, Brings
  <2>4. CarriedIsNewest
    BY <2>1 DEF CarriedIsNewest
  <2> QED
    BY <2>2, <2>3, <2>4, Bounds DEF TokensSound, Init, StoredTokenWorks
<1> QED
  BY <1>2, <1>3, <1>4 DEF MInv

-----------------------------------------------------------------------------
(* The session's own steps. *)

\* What a socket, or the timer, does is not during the start.
LEMMA NotAtStart ==
    ASSUME MInv, timer \/ \E s \in Sockets : Live(s)
    PROVE  \A c \in Calls : call[c].pc # "load"
  BY DEF MInv, SessionSound, StartsAlone

LEMMA Screens ==
    \A scr \in {"pair", "connecting", "connected", "repair"}, on \in BOOLEAN :
        Shown(scr, on) \in {"pair", "connecting", "connected", "repair"}
  BY DEF Shown

LEMMA OpensKeeps ==
    ASSUME MInv, NEW s \in Sockets, SocketOpens(s), UNCHANGED phone
    PROVE  SessionSound'
<1> DEFINE r == [Free EXCEPT !.phase = "open", !.device = ticketOf[wire[s].ticket]]
           opened == [wire EXCEPT ![s] = r]
           target == IF socket = s \/ IsOpen(socket) THEN socket ELSE NoSocket
           asks == IF wire[s].resumes = 0 THEN {} ELSE {wire[s].resumes}
           w == [opened EXCEPT ![target].greeted = TRUE, ![target].asked = @ \cup asks]
<1>1. /\ wire \in [Sockets -> Wire] /\ wire[s].phase = "opening"
      /\ wire[s].ticket \in DOMAIN ticketOf /\ ticketOf \in Seq(Device)
      /\ spent \subseteq DOMAIN ticketOf
  BY DEF MInv, SessionSound, SessionTypeOK, SocketsSound, SocketOpens
<1>2. /\ spent' = spent \cup {wire[s].ticket}
      /\ wire' = IF target = NoSocket THEN opened ELSE w
      /\ UNCHANGED <<session, ui, ticketOf, revoked, known, call, registration>>
  BY DEF SocketOpens, phone, memory
<1>3. ticketOf[wire[s].ticket] \in 0..MaxDevices
  <2>1. ticketOf[wire[s].ticket] \in Device
    BY <1>1
  <2> QED
    BY <2>1, Bounds
<1>4. r \in Wire /\ r.phase = "open" /\ r.asked = {}
  BY <1>3, FreeWire, Bounds DEF Free, Wire
<1>5. asks \subseteq Prompt
  <2>1. wire[s].resumes \in 0..MaxPrompts
    BY <1>1 DEF Wire
  <2> QED
    BY <2>1, SessionBounds DEF Prompt
<1> HIDE DEF r
<1>6. /\ opened \in [Sockets -> Wire] /\ opened[s] = r
      /\ \A x \in Sockets : x # s => opened[x] = wire[x]
  BY <1>1, <1>4
<1>7. target = NoSocket \/ target \in Sockets
  BY DEF MInv, SessionSound, SessionTypeOK
<1> HIDE DEF opened, asks
<1>8. ASSUME target # NoSocket
      PROVE  /\ w \in [Sockets -> Wire]
             /\ w[target].phase = opened[target].phase
             /\ w[target].ticket = opened[target].ticket
             /\ w[target].asked = opened[target].asked \cup asks
             /\ \A x \in Sockets : x # target => w[x] = opened[x]
  <2> DEFINE q == [opened[target] EXCEPT !.greeted = TRUE,
                                         !.asked = opened[target].asked \cup asks]
  <2>1. opened[target] \in Wire /\ target \in Sockets
    BY <1>6, <1>7, <1>8
  <2>2. /\ q \in Wire /\ q.phase = opened[target].phase
        /\ q.ticket = opened[target].ticket
        /\ q.asked = opened[target].asked \cup asks
    BY <1>5, <2>1 DEF Wire
  <2>3. w = [opened EXCEPT ![target] = q]
    BY <1>6, <2>1
  <2> HIDE DEF q
  <2> QED
    BY <1>6, <2>1, <2>2, <2>3
<1> HIDE DEF w
<1>9. wire' \in [Sockets -> Wire]
  BY <1>2, <1>6, <1>8
<1>10. \A x \in Sockets : /\ wire'[x].phase = opened[x].phase
                          /\ wire'[x].ticket = opened[x].ticket
                          /\ opened[x].asked \subseteq wire'[x].asked
                          /\ x # target => wire'[x] = opened[x]
                          /\ x = target => asks \subseteq wire'[x].asked
  BY <1>2, <1>7, <1>8, NoSocketIsNoSocket
<1>11. SessionTypeOK'
  BY <1>1, <1>2, <1>9
     DEF MInv, SessionSound, SessionTypeOK, session, ui
<1>12. \A x \in Sockets : Live(x) => Live(x)'
  BY <1>4, <1>6, <1>10 DEF Live
<1>13. \A x \in Sockets : wire'[x].phase = "opening"
                             => x # s /\ wire[x].phase = "opening"
                                /\ wire'[x].ticket = wire[x].ticket
  BY <1>4, <1>6, <1>10
<1>14. \A x \in Sockets : Live(x)' => Live(x)
  BY <1>1, <1>6, <1>10 DEF Live
<1>15. SocketsSound' /\ KeepsTrying'
  BY <1>2, <1>12, <1>13, <1>14
     DEF MInv, SessionSound, SocketsSound, KeepsTrying, Trying, session, ui, SessionTypeOK
<1>16. PendingWillBeAsked'
  <2> SUFFICES ASSUME socket # NoSocket, wire'[socket].phase = "opening", pending \in known
               PROVE  wire'[socket].resumes = pending
    BY <1>2 DEF PendingWillBeAsked, session
  <2>1. socket \in Sockets /\ socket # s /\ wire[socket].phase = "opening"
    BY <1>13 DEF MInv, SessionSound, SessionTypeOK
  <2>2. socket # target
    BY <2>1 DEF IsOpen
  <2>3. wire'[socket] = wire[socket]
    BY <1>6, <1>10, <2>1, <2>2
  <2> QED
    BY <2>1, <2>3 DEF MInv, SessionSound, PendingWillBeAsked
<1>17. PendingIsAsked'
  <2> SUFFICES ASSUME IsOpen(socket)', pending \in known
               PROVE  pending \in wire'[socket].asked
    BY <1>2 DEF PendingIsAsked, session
  <2>1. socket \in Sockets /\ socket # NoSocket /\ socket' = socket
    BY <1>2 DEF IsOpen, MInv, SessionSound, SessionTypeOK, session
  <2>2. CASE socket = s
    <3>1. wire[s].resumes = pending
      BY <1>1, <2>1, <2>2 DEF MInv, SessionSound, PendingWillBeAsked
    <3>2. pending # 0
      BY Bounds DEF MInv, SessionSound, SessionTypeOK
    <3>3. pending \in asks /\ target = socket
      BY <2>2, <3>1, <3>2 DEF asks
    <3> QED
      BY <1>10, <2>1, <3>3
  <2>3. CASE socket # s
    <3>1. wire'[socket].phase = wire[socket].phase
      BY <1>6, <1>10, <2>1, <2>3
    <3>2. IsOpen(socket)
      BY <2>1, <3>1 DEF IsOpen
    <3>3. pending \in wire[socket].asked
      BY <3>2 DEF MInv, SessionSound, PendingIsAsked
    <3> QED
      BY <1>6, <1>10, <2>1, <2>3, <3>3
  <2> QED
    BY <2>2, <2>3
<1>18. StartsAlone'
  <2>1. Live(s)
    BY <1>1 DEF Live
  <2> QED
    BY <1>2, <2>1, NotAtStart DEF StartsAlone
<1> QED
  BY <1>11, <1>15, <1>16, <1>17, <1>18 DEF SessionSound

\* A socket is gone, and the session follows.
LEMMA ClosedKeeps ==
    ASSUME MInv, NEW s \in Sockets, Live(s), NEW b \in BOOLEAN, Closed(s, b),
           UNCHANGED <<ticketOf, revoked, known, call>>,
           spent' \subseteq DOMAIN ticketOf, busy' \in BOOLEAN,
           screen' \in {"pair", "connecting", "connected", "repair"},
           ~b => ~busy' /\ screen' # "connecting"
    PROVE  SessionSound'
<1>1. /\ wire' = [wire EXCEPT ![s] = Free] /\ socket' = NoSocket
      /\ timer' = (timer \/ (b /\ lastTicket # 0)) /\ online' = FALSE
      /\ UNCHANGED <<lastTicket, pending>>
  BY DEF Closed, Again
<1>2. /\ wire' \in [Sockets -> Wire] /\ wire'[s] = Free
      /\ \A x \in Sockets : x # s => wire'[x] = wire[x]
      /\ lastTicket # 0 /\ timer \in BOOLEAN
  BY <1>1, FreeWire DEF MInv, SessionSound, SessionTypeOK, SocketsSound
<1>3. SessionTypeOK'
  BY <1>1, <1>2 DEF MInv, SessionSound, SessionTypeOK
<1>4. SocketsSound'
  BY <1>1, <1>2, FreeWire DEF MInv, SessionSound, SocketsSound, Live
<1>5. PendingWillBeAsked' /\ PendingIsAsked'
  BY <1>1 DEF PendingWillBeAsked, PendingIsAsked, IsOpen
<1>6. KeepsTrying'
  BY <1>1, <1>2 DEF KeepsTrying, Trying
<1>7. StartsAlone'
  BY NotAtStart DEF StartsAlone
<1> QED
  BY <1>3, <1>4, <1>5, <1>6, <1>7 DEF SessionSound

\* What a socket that is open says.
LEMMA MessageKeeps ==
    ASSUME MInv, NEW s \in Sockets, IsOpen(s),
           UNCHANGED <<lastTicket, socket, timer, wire, bridge, call>>,
           pending' \in {0, pending}, online' \in BOOLEAN, busy' \in BOOLEAN,
           screen' \in {"pair", "connecting", "connected", "repair"}
    PROVE  SessionSound'
<1>1. Live(s) /\ Live(s)'
  BY DEF Live, IsOpen
<1>2. 0 \notin known /\ 0 \in 0..MaxPrompts
  BY Bounds DEF MInv, SessionSound, SessionTypeOK
<1>3. SessionTypeOK'
  BY <1>2 DEF MInv, SessionSound, SessionTypeOK, bridge
<1>4. SocketsSound'
  BY DEF MInv, SessionSound, SocketsSound, Live, bridge
<1>5. PendingWillBeAsked' /\ PendingIsAsked'
  BY <1>2 DEF MInv, SessionSound, PendingWillBeAsked, PendingIsAsked, IsOpen, bridge
<1>6. KeepsTrying'
  BY <1>1 DEF KeepsTrying, Trying
<1>7. StartsAlone'
  BY <1>1, NotAtStart DEF StartsAlone
<1> QED
  BY <1>3, <1>4, <1>5, <1>6, <1>7 DEF SessionSound

\* A socket is made; what it resumes is what the session waits for.
LEMMA ConnectKeeps ==
    ASSUME MInv, NEW s \in Sockets, NEW k \in Nat, NEW p \in 0..MaxPrompts, Connect(s, k, p),
           p # 0 => p = pending,
           k # 0, k \in DOMAIN ticketOf', DOMAIN ticketOf \subseteq DOMAIN ticketOf',
           ticketOf' \in Seq(Device), Len(ticketOf') <= MaxTickets,
           UNCHANGED <<spent, revoked, known, busy>>,
           screen' \in {"pair", "connecting", "connected", "repair"},
           \A c \in Calls : call'[c].pc # "load"
    PROVE  SessionSound'
<1> DEFINE r == [Free EXCEPT !.phase = "opening", !.ticket = k, !.resumes = p]
<1>1. /\ ~Live(s) /\ lastTicket' = k /\ pending' = p /\ timer' = FALSE
      /\ online' = FALSE /\ socket' = s /\ wire' = [wire EXCEPT ![s] = r]
  BY DEF Connect
<1>2. k \in 0..MaxTickets
  BY SessionBounds
<1>3. r \in Wire /\ r.phase = "opening" /\ r.ticket = k /\ r.resumes = p
  BY <1>2, Bounds DEF Free, Wire
<1> HIDE DEF r
<1>4. /\ wire' \in [Sockets -> Wire] /\ wire'[s] = r
      /\ \A x \in Sockets : x # s => wire'[x] = wire[x]
  BY <1>1, <1>3 DEF MInv, SessionSound, SessionTypeOK
<1>5. SessionTypeOK'
  BY <1>1, <1>2, <1>4 DEF MInv, SessionSound, SessionTypeOK
<1>6. Live(s)'
  BY <1>3, <1>4 DEF Live
<1>7. SocketsSound'
  BY <1>1, <1>3, <1>4, <1>6 DEF MInv, SessionSound, SocketsSound, Live
<1>8. PendingWillBeAsked' /\ PendingIsAsked'
  BY <1>1, <1>3, <1>4 DEF PendingWillBeAsked, PendingIsAsked, IsOpen
<1>9. KeepsTrying'
  BY <1>6 DEF KeepsTrying, Trying
<1>10. StartsAlone'
  BY DEF StartsAlone
<1> QED
  BY <1>5, <1>7, <1>8, <1>9, <1>10 DEF SessionSound

LEMMA RevokeKeeps ==
    ASSUME MInv, NEW d \in Device, Revoke(d), UNCHANGED phone
    PROVE  SessionSound'
<1>1. /\ revoked' = revoked \cup {d}
      /\ UNCHANGED <<session, ui, ticketOf, spent, known, call, registration>>
      /\ wire \in [Sockets -> Wire]
  BY DEF Revoke, phone, memory, MInv, SessionSound, SessionTypeOK
<1>2. ASSUME NEW x \in Sockets
      PROVE  /\ wire'[x] \in Wire
             /\ wire'[x].asked = wire[x].asked /\ wire'[x].resumes = wire[x].resumes
             /\ wire'[x].ticket = wire[x].ticket
             /\ wire'[x].phase = "opening" <=> wire[x].phase = "opening"
             /\ wire'[x].phase = "none" <=> wire[x].phase = "none"
             /\ wire'[x].phase \in {"open", "revoking"} <=>
                    wire[x].phase \in {"open", "revoking"}
  <2> DEFINE r == [wire[x] EXCEPT !.phase = "revoking"]
  <2>1. /\ r \in Wire /\ r.phase = "revoking" /\ r.asked = wire[x].asked
        /\ r.resumes = wire[x].resumes /\ r.ticket = wire[x].ticket
        /\ wire[x] \in Wire
    BY <1>1 DEF Wire
  <2>2. wire'[x] = IF wire[x].phase = "open" /\ wire[x].device = d THEN r ELSE wire[x]
    BY DEF Revoke
  <2> HIDE DEF r
  <2> QED
    BY <2>1, <2>2
<1>3. wire' \in [Sockets -> Wire]
  BY <1>2 DEF Revoke
<1>4. SessionTypeOK'
  BY <1>1, <1>3 DEF MInv, SessionSound, SessionTypeOK, session, ui
<1>5. \A x \in Sockets : Live(x)' <=> Live(x)
  BY <1>2 DEF Live
<1>6. SocketsSound' /\ KeepsTrying' /\ StartsAlone'
  BY <1>1, <1>2, <1>5
     DEF MInv, SessionSound, SessionTypeOK, SocketsSound, KeepsTrying, Trying, StartsAlone,
         session, ui
<1>7. PendingWillBeAsked' /\ PendingIsAsked'
  BY <1>1, <1>2
     DEF MInv, SessionSound, SessionTypeOK, PendingWillBeAsked, PendingIsAsked, IsOpen,
         session
<1> QED
  BY <1>4, <1>6, <1>7 DEF SessionSound

LEMMA SessionStepKeeps ==
    ASSUME MInv, SessionStep, UNCHANGED phone
    PROVE  SessionSound' /\ revoked \subseteq revoked' /\ UNCHANGED known
<1>0. /\ UNCHANGED call /\ screen \in {"pair", "connecting", "connected", "repair"}
      /\ busy \in BOOLEAN /\ online \in BOOLEAN /\ spent \subseteq DOMAIN ticketOf
      /\ {TRUE, FALSE} \subseteq BOOLEAN
  BY DEF phone, MInv, SessionSound, SessionTypeOK
<1>1. ASSUME NEW s \in Sockets, SocketCloses(s) \/ RevokedArrives(s)
      PROVE  SessionSound' /\ revoked \subseteq revoked' /\ UNCHANGED known
  <2>1. Live(s)
    BY <1>1 DEF SocketCloses, RevokedArrives, Live
  <2>2. CASE SocketCloses(s)
    <3>1. spent' \subseteq DOMAIN ticketOf
      <4>1. wire[s].phase = "opening" => wire[s].ticket \in DOMAIN ticketOf
        BY DEF MInv, SessionSound, SocketsSound
      <4> QED
        BY <1>0, <2>2, <4>1 DEF SocketCloses
    <3>2. /\ Closed(s, TRUE) /\ UNCHANGED <<busy, ticketOf, revoked, known>>
          /\ screen' \in {"pair", "connecting", "connected", "repair"}
      BY <1>0, <2>2, Screens DEF SocketCloses
    <3> QED
      BY <1>0, <2>1, <3>1, <3>2, ClosedKeeps
  <2>3. CASE RevokedArrives(s)
    BY <1>0, <2>1, <2>3, ClosedKeeps DEF RevokedArrives, bridge
  <2> QED
    BY <1>1, <2>2, <2>3
<1>2. ASSUME NEW s \in Sockets,
             \/ ReadyArrives(s) \/ DeltaArrives(s) \/ ErrorArrives(s)
             \/ \E p \in Prompt : FinalArrives(s, p)
      PROVE  SessionSound' /\ revoked \subseteq revoked' /\ UNCHANGED known
  <2>1. /\ IsOpen(s) /\ UNCHANGED <<lastTicket, socket, timer, wire, bridge>>
        /\ pending' \in {0, pending} /\ online' \in BOOLEAN /\ busy' \in BOOLEAN
        /\ screen' \in {"pair", "connecting", "connected", "repair"}
    BY <1>0, <1>2, Screens
       DEF ReadyArrives, DeltaArrives, ErrorArrives, FinalArrives, session
  <2> QED
    BY <1>0, <2>1, MessageKeeps DEF bridge
<1>3. ASSUME NEW s \in Sockets, TimerFires(s)
      PROVE  SessionSound' /\ revoked \subseteq revoked' /\ UNCHANGED known
  <2>1. /\ lastTicket # 0 /\ timer /\ Connect(s, lastTicket, pending)
        /\ UNCHANGED <<busy, bridge>> /\ screen' = Shown(screen, FALSE)
    BY <1>3 DEF TimerFires
  <2>2. /\ lastTicket \in DOMAIN ticketOf /\ lastTicket \in Nat
        /\ pending \in 0..MaxPrompts /\ ticketOf \in Seq(Device)
        /\ Len(ticketOf) <= MaxTickets
    BY <2>1 DEF MInv, SessionSound, SocketsSound, SessionTypeOK
  <2>3. \A c \in Calls : call'[c].pc # "load"
    BY <1>0, <2>1, NotAtStart
  <2> QED
    BY <1>0, <2>1, <2>2, <2>3, ConnectKeeps, Screens DEF bridge
<1>4. ASSUME NEW s \in Sockets, SocketOpens(s)
      PROVE  SessionSound' /\ revoked \subseteq revoked' /\ UNCHANGED known
  BY <1>4, OpensKeeps DEF SocketOpens
<1>5. ASSUME NEW d \in Device, Revoke(d)
      PROVE  SessionSound' /\ revoked \subseteq revoked' /\ UNCHANGED known
  BY <1>5, RevokeKeeps DEF Revoke
<1> QED
  BY <1>1, <1>2, <1>3, <1>4, <1>5 DEF SessionStep

-----------------------------------------------------------------------------
(* How a handler goes on. *)

View == [screen : {"pair", "connecting", "connected", "repair"}, busy : BOOLEAN]

\* Only c's record changes.
OnlyCall(c) == \A x \in Calls : x # c => call'[x] = call[x]

\* j and the view v leave nobody waiting whom k, or the view before, did not.
Owes(k, j, v) ==
    /\ v.busy => /\ busy \/ Occupies(j)
                 /\ Occupies(k) => Occupies(j)
    /\ v.screen = "connecting" => /\ screen = "connecting" \/ Connects(j)
                                  /\ Connects(k) => Connects(j)

\* j's prompt, if it has one to send, is k's or the next one.
PromptOf(k, j) ==
    j.op = "prompt" =>
        \/ k.op = "prompt" /\ j.prompt = k.prompt
        \/ j.prompt = prompts + 1 /\ prompts' = prompts + 1

\* What the bridge may have got by then.
Sent(k, j) ==
    {p \in Prompt : /\ j.op # "prompt"
                    /\ \/ k.op = "prompt" /\ p = k.prompt
                       \/ p = prompts + 1 /\ prompts' = prompts + 1}

\* The part of the invariant that the handlers' ways of going on keep.
Goes == SessionSound' /\ HandlersSound'

LEMMA NowIsView == MInv => Now \in View /\ Now.screen = screen /\ Now.busy = busy
  BY DEF MInv, SessionSound, SessionTypeOK, View, Now

LEMMA FailedIsView ==
    \A reg, u : /\ Failed(reg, u) \in View /\ ~Failed(reg, u).busy
                /\ Failed(reg, u).screen # "connecting"
  BY DEF Failed, View

\* Handlers whose record becomes j have the prompts that they should.
LEMMA PromptsStayNew ==
    ASSUME MInv, NEW c \in Calls, NEW j \in Call,
           call' = [call EXCEPT ![c] = j], CallSound(j), PromptOf(call[c], j),
           prompts' \in 0..MaxPrompts, prompts <= prompts',
           known' \subseteq known \cup Sent(call[c], j)
    PROVE  HandlersSound'
<1>1. /\ call' \in [Calls -> Call] /\ call'[c] = j /\ OnlyCall(c)
      /\ \A x \in Calls : call[x] \in Call
      /\ prompts \in Nat /\ prompts' \in Nat
  BY SessionBounds DEF MInv, HandlersSound, OnlyCall
<1>2. OpsMatch'
  BY <1>1 DEF MInv, HandlersSound, OpsMatch, OnlyCall
<1>3. known' \subseteq 1..prompts'
  <2> SUFFICES ASSUME NEW p \in known' PROVE p \in 1..prompts'
    OBVIOUS
  <2>1. CASE p \in known
    BY <1>1, <2>1 DEF MInv, HandlersSound, PromptsAreNew
  <2>2. CASE call[c].op = "prompt" /\ p = call[c].prompt
    BY <1>1, <2>2 DEF MInv, HandlersSound, PromptsAreNew
  <2>3. CASE p = prompts + 1 /\ prompts' = prompts + 1
    BY <1>1, <2>3
  <2> QED
    BY <2>1, <2>2, <2>3 DEF Sent
<1>4. ASSUME NEW x \in Calls, call'[x].op = "prompt"
      PROVE  /\ call'[x].prompt \in 1..prompts'
             /\ call'[x].prompt \notin known'
             /\ \/ call[x].op = "prompt" /\ call'[x].prompt = call[x].prompt
                \/ x = c /\ call'[x].prompt = prompts + 1
  <2>1. CASE call[x].op = "prompt" /\ call'[x].prompt = call[x].prompt
    <3>1. call[x].prompt \in 1..prompts /\ call[x].prompt \notin known
      BY <2>1 DEF MInv, HandlersSound, PromptsAreNew
    <3>2. call[x].prompt \notin Sent(call[c], j)
      <4>1. call[x].prompt # prompts + 1
        BY <1>1, <3>1
      <4>2. CASE x = c
        BY <1>1, <1>4, <4>2 DEF Sent
      <4>3. CASE x # c
        BY <2>1, <4>1, <4>3 DEF MInv, HandlersSound, PromptsAreNew, Sent
      <4> QED
        BY <4>2, <4>3
    <3> QED
      BY <1>1, <2>1, <3>1, <3>2
  <2>2. CASE x = c /\ j.prompt = prompts + 1 /\ prompts' = prompts + 1
    <3>1. prompts + 1 \notin known
      BY <1>1 DEF MInv, HandlersSound, PromptsAreNew
    <3>2. known' \subseteq known
      BY <1>1, <1>4, <2>2 DEF Sent
    <3> QED
      BY <1>1, <2>2, <3>1, <3>2
  <2>3. x = c \/ call'[x] = call[x]
    BY <1>1 DEF OnlyCall
  <2> QED
    BY <1>1, <1>4, <2>1, <2>2, <2>3 DEF PromptOf
<1>5. ASSUME NEW x \in Calls, NEW y \in Calls, x # y,
             call'[x].op = "prompt", call'[y].op = "prompt"
      PROVE  call'[x].prompt # call'[y].prompt
  <2>1. \A z \in Calls : call[z].op = "prompt" => call[z].prompt \in 1..prompts
    BY DEF MInv, HandlersSound, PromptsAreNew
  <2>2. CASE /\ call[x].op = "prompt" /\ call'[x].prompt = call[x].prompt
             /\ call[y].op = "prompt" /\ call'[y].prompt = call[y].prompt
    BY <1>5, <2>2 DEF MInv, HandlersSound, PromptsAreNew
  <2> QED
    BY <1>1, <1>4, <1>5, <2>1, <2>2
<1>6. PromptsAreNew'
  BY <1>3, <1>4, <1>5 DEF PromptsAreNew
<1> QED
  BY <1>1, <1>2, <1>6 DEF HandlersSound

LEMMA AwaitGoes ==
    ASSUME MInv, NEW c \in Calls, NEW j \in Call, NEW v \in View, Await(c, j, v),
           \A x \in Calls : x # c => call[x].pc # "load",
           j.pc # "load", CallSound(j), Owes(call[c], j, v), PromptOf(call[c], j),
           prompts' \in 0..MaxPrompts, prompts <= prompts',
           UNCHANGED <<ticketOf, spent>>, revoked' \subseteq Device
    PROVE  Goes /\ OnlyCall(c) /\ call'[c] = j
<1>1. /\ call' = [call EXCEPT ![c] = j] /\ screen' = v.screen /\ busy' = v.busy
      /\ UNCHANGED <<session, wire, known>>
      /\ call \in [Calls -> Call]
  BY DEF Await, Show, MInv, HandlersSound
<1>2. call'[c] = j /\ OnlyCall(c)
  BY <1>1 DEF OnlyCall
<1>3. SessionTypeOK'
  BY <1>1 DEF MInv, SessionSound, SessionTypeOK, session, View
<1>4. SocketsSound' /\ PendingWillBeAsked' /\ PendingIsAsked'
  BY <1>1 DEF MInv, SessionSound, SocketsSound, PendingWillBeAsked, PendingIsAsked,
              IsOpen, Live, session
<1>5. KeepsTrying'
  <2>1. ASSUME busy'
        PROVE  Trying \/ \E x \in Calls : Occupies(call'[x])
    <3>1. CASE Occupies(j)
      BY <1>2, <3>1
    <3>2. CASE ~Occupies(j)
      BY <1>1, <1>2, <2>1, <3>2 DEF Owes, OnlyCall, MInv, SessionSound,
              KeepsTrying, Trying
    <3> QED
      BY <3>1, <3>2
  <2>2. ASSUME screen' = "connecting"
        PROVE  Trying \/ \E x \in Calls : Connects(call'[x])
    <3>1. CASE Connects(j)
      BY <1>2, <3>1
    <3>2. CASE ~Connects(j)
      BY <1>1, <1>2, <2>2, <3>2 DEF Owes, OnlyCall, MInv, SessionSound,
              KeepsTrying, Trying
    <3> QED
      BY <3>1, <3>2
  <2>3. Trying => Trying'
    BY <1>1 DEF Trying, Live, session
  <2> QED
    BY <1>1, <2>1, <2>2, <2>3 DEF KeepsTrying
<1>6. StartsAlone'
  BY <1>2 DEF StartsAlone, OnlyCall
<1>7. HandlersSound'
  BY <1>1, PromptsStayNew
<1> QED
  BY <1>2, <1>3, <1>4, <1>5, <1>6, <1>7 DEF Goes, SessionSound

\* A handler that ends owes nothing if it was nobody's, or sets the view right.
LEMMA EndGoes ==
    ASSUME MInv, NEW c \in Calls, NEW v \in View, End(c, v),
           \A x \in Calls : x # c => call[x].pc # "load",
           v.busy => busy /\ ~Occupies(call[c]),
           v.screen = "connecting" => screen = "connecting" /\ ~Connects(call[c]),
           prompts' \in 0..MaxPrompts, prompts <= prompts',
           UNCHANGED <<ticketOf, spent>>, revoked' \subseteq Device
    PROVE  Goes /\ OnlyCall(c) /\ call'[c] = Idle
<1>1. Owes(call[c], Idle, v) /\ PromptOf(call[c], Idle)
  BY IdleCall DEF Owes, PromptOf
<1> QED
  BY <1>1, IdleCall, AwaitGoes DEF End

\* A prompt goes to the bridge, or waits in the session.
LEMMA PromptGoes ==
    ASSUME MInv, NEW c \in Calls, NEW p, NEW v \in View,
           call' = [call EXCEPT ![c] = Idle],
           \/ SendGoesOut(p) /\ Show(v)
           \/ SendThrows(p) /\ Show(Failed(registration, v)),
           \/ call[c].op = "prompt" /\ call[c].prompt = p /\ UNCHANGED prompts
           \/ p = prompts + 1 /\ prompts' = prompts + 1 /\ prompts < MaxPrompts,
           \A x \in Calls : x # c => call[x].pc # "load",
           UNCHANGED <<ticketOf, spent, revoked>>
    PROVE  Goes /\ OnlyCall(c) /\ call'[c] = Idle
<1>1. /\ call'[c] = Idle /\ OnlyCall(c) /\ call[c] \in Call
      /\ prompts \in 0..MaxPrompts /\ MaxPrompts \in Nat
  BY SessionBounds DEF MInv, HandlersSound, OnlyCall
<1>2. p \in Prompt /\ p \in 0..MaxPrompts /\ p \notin known
  <2>1. known \subseteq 1..prompts
    BY DEF MInv, HandlersSound, PromptsAreNew
  <2>2. CASE call[c].op = "prompt" /\ call[c].prompt = p
    <3>1. p \in 1..prompts /\ p \notin known
      BY <2>2 DEF MInv, HandlersSound, PromptsAreNew
    <3> QED
      BY <1>1, <3>1 DEF Prompt
  <2>3. CASE p = prompts + 1 /\ prompts < MaxPrompts
    BY <1>1, <2>1, <2>3 DEF Prompt
  <2> QED
    BY <2>2, <2>3
<1>3. HandlersSound'
  <2>1. known' \subseteq known \cup {p} /\ PromptOf(call[c], Idle)
    BY IdleCall DEF SendGoesOut, SendThrows, PromptOf
  <2>2. p \in Sent(call[c], Idle)
    BY <1>2, IdleCall DEF Sent
  <2>3. prompts' \in 0..MaxPrompts /\ prompts <= prompts'
    BY <1>1
  <2>4. known' \subseteq known \cup Sent(call[c], Idle)
    BY <2>1, <2>2
  <2> QED
    BY <2>1, <2>3, <2>4, IdleCall, PromptsStayNew
<1>4. StartsAlone'
  BY <1>1, IdleCall DEF StartsAlone, OnlyCall
<1>5. CASE SendGoesOut(p) /\ Show(v)
  <2> DEFINE r == [wire[socket] EXCEPT !.asked = wire[socket].asked \cup {p}]
  <2>1. /\ socket \in Sockets /\ wire[socket].phase \in {"open", "revoking"}
        /\ wire[socket] \in Wire /\ wire \in [Sockets -> Wire]
    BY <1>5 DEF SendGoesOut, IsOpen, MInv, SessionSound, SessionTypeOK
  <2>2. /\ r \in Wire /\ r.phase = wire[socket].phase /\ r.ticket = wire[socket].ticket
        /\ r.asked = wire[socket].asked \cup {p}
    BY <1>2, <2>1 DEF Wire
  <2>3. /\ pending' = p /\ wire' = [wire EXCEPT ![socket] = r]
        /\ known' \subseteq known \cup {p}
        /\ UNCHANGED <<lastTicket, socket, timer, online>>
        /\ screen' = v.screen /\ busy' = v.busy
    BY <1>5, <2>1 DEF SendGoesOut, Show
  <2> HIDE DEF r
  <2>4. /\ wire' \in [Sockets -> Wire] /\ wire'[socket] = r
        /\ \A x \in Sockets : x # socket => wire'[x] = wire[x]
    BY <2>1, <2>2, <2>3
  <2>5. SessionTypeOK'
    BY <1>2, <2>3, <2>4 DEF MInv, SessionSound, SessionTypeOK, View
  <2>6. \A x \in Sockets : (Live(x)' <=> Live(x)) /\ wire'[x].phase = wire[x].phase
                           /\ wire'[x].ticket = wire[x].ticket
    BY <2>1, <2>2, <2>4 DEF Live
  <2>7. SocketsSound'
    BY <2>3, <2>6 DEF MInv, SessionSound, SessionTypeOK, SocketsSound
  <2>8. PendingWillBeAsked' /\ PendingIsAsked'
    BY <2>1, <2>2, <2>3, <2>4 DEF PendingWillBeAsked, PendingIsAsked
  <2>9. KeepsTrying'
    BY <2>1, <2>6 DEF KeepsTrying, Trying, Live
  <2> QED
    BY <1>1, <1>3, <1>4, <2>5, <2>7, <2>8, <2>9 DEF Goes, SessionSound
<1>6. CASE SendThrows(p) /\ Show(Failed(registration, v))
  <2>1. /\ pending' = p /\ UNCHANGED <<lastTicket, socket, timer, online, wire, known>>
        /\ ~busy' /\ screen' # "connecting" /\ busy' \in BOOLEAN
        /\ screen' \in {"pair", "connecting", "connected", "repair"}
    BY <1>6, FailedIsView DEF SendThrows, Show, View
  <2>2. SessionTypeOK'
    BY <1>2, <2>1 DEF MInv, SessionSound, SessionTypeOK
  <2>3. SocketsSound'
    BY <2>1 DEF MInv, SessionSound, SocketsSound, Live
  <2>4. PendingWillBeAsked' /\ PendingIsAsked' /\ KeepsTrying'
    BY <1>2, <2>1 DEF PendingWillBeAsked, PendingIsAsked, KeepsTrying, Trying
  <2> QED
    BY <1>1, <1>3, <1>4, <2>2, <2>3, <2>4 DEF Goes, SessionSound
<1> QED
  BY <1>5, <1>6

\* k's prompt, if it has one to send, is call[c]'s or was just written.
Asks(c, k) ==
    \/ /\ prompts' = prompts
       /\ k.op = "prompt" => call[c].op = "prompt" /\ k.prompt = call[c].prompt
    \/ /\ prompts' = prompts + 1 /\ prompts < MaxPrompts
       /\ k.op = "prompt" /\ k.prompt = prompts + 1

\* What becomes of a handler whose session is fresh.
Proceeds(j) == j = Idle \/ (j.pc = "ticket" /\ j.token = access)

\* A handler that asks for a token holds the registration's, and for a reason.
Refreshes(j, reg) ==
    j.pc = "refresh" /\ j.token = reg /\ reg # 0 /\ ~(access # 0 /\ fresh)

LEMMA AsksIsBounded ==
    ASSUME MInv, NEW c \in Calls, NEW k \in Call, Asks(c, k)
    PROVE  /\ prompts' \in 0..MaxPrompts /\ prompts <= prompts'
           /\ PromptOf(call[c], k)
  BY SessionBounds DEF MInv, HandlersSound, Asks, PromptOf

\* The catch of a handler.
LEMMA FailGoes ==
    ASSUME MInv, NEW c \in Calls, NEW k \in Call, NEW reg, NEW v \in View, Fail(c, k, reg, v),
           \A x \in Calls : x # c => call[x].pc # "load",
           k.op = "network" => Owes(call[c], k, v), Asks(c, k),
           UNCHANGED <<ticketOf, spent>>, revoked' \subseteq Device
    PROVE  Goes /\ OnlyCall(c) /\ call'[c] = Idle
<1>1. prompts' \in 0..MaxPrompts /\ prompts <= prompts'
  BY AsksIsBounded
<1>2. CASE k.op = "network"
  <2>1. /\ v.busy => busy /\ ~Occupies(call[c])
        /\ v.screen = "connecting" => screen = "connecting" /\ ~Connects(call[c])
    BY <1>2 DEF Owes, Occupies, Connects
  <2>2. End(c, v)
    BY <1>2 DEF Fail
  <2> QED
    BY <1>1, <2>1, <2>2, EndGoes
<1>3. CASE k.op # "network"
  <2> DEFINE w == Failed(reg, v)
  <2>1. w \in View /\ ~w.busy /\ w.screen # "connecting"
    BY FailedIsView
  <2>2. End(c, w)
    BY <1>3 DEF Fail
  <2> HIDE DEF w
  <2> QED
    BY <1>1, <2>1, <2>2, EndGoes
<1> QED
  BY <1>2, <1>3

LEMMA RefusedGoes ==
    ASSUME MInv, NEW c \in Calls, Refused(c),
           \A x \in Calls : x # c => call[x].pc # "load",
           UNCHANGED <<prompts, ticketOf, spent>>, revoked' \subseteq Device
    PROVE  /\ Goes /\ OnlyCall(c) /\ call'[c] \in Call
           /\ call'[c].pc \in {"idle", "clear"} /\ call'[c].token = 0
<1> DEFINE j == [Idle EXCEPT !.op = "connect", !.pc = "clear"]
<1>0. prompts \in 0..MaxPrompts /\ prompts' = prompts /\ prompts <= prompts'
  BY SessionBounds DEF MInv, HandlersSound
<1>1. j \in Call /\ j.op = "connect" /\ j.pc = "clear" /\ j.token = 0
  BY Bounds DEF Idle, Call
<1>2. CASE call[c].op = "network"
  <2>1. End(c, Now) /\ ~Occupies(call[c]) /\ ~Connects(call[c])
    BY <1>2 DEF Refused, Occupies, Connects
  <2>2. Goes /\ OnlyCall(c) /\ call'[c] = Idle
    BY <1>0, <2>1, NowIsView, EndGoes
  <2> QED
    BY <2>2, IdleCall
<1>3. CASE call[c].op # "network"
  <2>1. Await(c, j, Now)
    BY <1>3 DEF Refused
  <2> HIDE DEF j
  <2>2. Owes(call[c], j, Now) /\ PromptOf(call[c], j) /\ CallSound(j) /\ j.pc # "load"
    BY <1>1 DEF Owes, PromptOf, CallSound, Occupies, Connects
  <2>3. Goes /\ OnlyCall(c) /\ call'[c] = j
    BY <1>0, <1>1, <2>1, <2>2, NowIsView, AwaitGoes
  <2> QED
    BY <1>1, <2>3
<1> QED
  BY <1>2, <1>3

LEMMA ProceedGoes ==
    ASSUME MInv, NEW c \in Calls, NEW k \in Call, NEW v \in View, Proceed(c, k, v),
           k.op \in Refreshing,
           \A x \in Calls : x # c => call[x].pc # "load",
           Owes(call[c], k, v), Asks(c, k),
           UNCHANGED <<ticketOf, spent, revoked>>
    PROVE  Goes /\ OnlyCall(c) /\ call'[c] \in Call /\ Proceeds(call'[c])
<1> DEFINE j == [k EXCEPT !.pc = "ticket", !.token = access]
           w == [v EXCEPT !.busy = FALSE]
<1>0. /\ prompts' \in 0..MaxPrompts /\ prompts <= prompts' /\ PromptOf(call[c], k)
      /\ revoked' \subseteq Device
  BY AsksIsBounded DEF MInv, SessionSound, SessionTypeOK
<1>1. j \in Call /\ j.pc = "ticket" /\ j.token = access /\ j.op = k.op /\ j.prompt = k.prompt
  <2>1. access \in 0..MaxTokens
    BY MobileBounds, SessionBounds DEF MInv, TokensSound, TokensKnown
  <2> QED
    BY <2>1 DEF Call
<1>2. w \in View /\ ~w.busy /\ w.screen = v.screen
  BY DEF View
<1>3. CASE Await(c, j, v) /\ k.op \in {"connect", "network"}
  <2> HIDE DEF j
  <2>1. /\ Owes(call[c], j, v) /\ PromptOf(call[c], j) /\ CallSound(j)
        /\ j.pc # "load"
    BY <1>0, <1>1, <1>3 DEF Owes, PromptOf, CallSound, Occupies, Connects
  <2>2. Goes /\ OnlyCall(c) /\ call'[c] = j
    BY <1>0, <1>1, <1>3, <2>1, AwaitGoes
  <2> QED
    BY <1>1, <2>2 DEF Proceeds
<1>4. CASE k.op = "network" /\ End(c, v)
  <2>1. /\ v.busy => busy /\ ~Occupies(call[c])
        /\ v.screen = "connecting" => screen = "connecting" /\ ~Connects(call[c])
    BY <1>4 DEF Owes, Occupies, Connects
  <2>2. Goes /\ OnlyCall(c) /\ call'[c] = Idle
    BY <1>0, <1>4, <2>1, EndGoes
  <2> QED
    BY <2>2, IdleCall DEF Proceeds
<1>5. CASE k.op = "refresh" /\ End(c, w)
  <2>1. w.screen = "connecting" => screen = "connecting" /\ ~Connects(call[c])
    BY <1>2, <1>5 DEF Owes, Connects
  <2> HIDE DEF w
  <2>2. Goes /\ OnlyCall(c) /\ call'[c] = Idle
    BY <1>0, <1>2, <1>5, <2>1, EndGoes
  <2> QED
    BY <2>2, IdleCall DEF Proceeds
<1>6. CASE /\ k.op = "prompt" /\ call' = [call EXCEPT ![c] = Idle]
           /\ \/ SendGoesOut(k.prompt) /\ Show(v)
              \/ SendThrows(k.prompt) /\ Show(Failed(registration, v))
  <2>1. \/ call[c].op = "prompt" /\ call[c].prompt = k.prompt /\ UNCHANGED prompts
        \/ k.prompt = prompts + 1 /\ prompts' = prompts + 1 /\ prompts < MaxPrompts
    BY <1>6 DEF Asks
  <2>2. Goes /\ OnlyCall(c) /\ call'[c] = Idle
    BY <1>6, <2>1, PromptGoes
  <2> QED
    BY <2>2, IdleCall DEF Proceeds
<1>7. \/ k.op \in {"connect", "network"} /\ Await(c, j, v)
      \/ k.op = "network" /\ End(c, v)
      \/ k.op = "refresh" /\ End(c, w)
      \/ /\ k.op = "prompt" /\ call' = [call EXCEPT ![c] = Idle]
         /\ \/ SendGoesOut(k.prompt) /\ Show(v)
            \/ SendThrows(k.prompt) /\ Show(Failed(registration, v))
  <2>1. CASE k.op = "connect"
    BY <2>1 DEF Proceed
  <2>2. CASE k.op = "network"
    BY <2>2 DEF Proceed
  <2>3. CASE k.op = "prompt"
    BY <2>3 DEF Proceed
  <2>4. CASE k.op = "refresh"
    BY <2>4 DEF Proceed
  <2> QED
    BY <2>1, <2>2, <2>3, <2>4 DEF Refreshing
<1> QED
  BY <1>3, <1>4, <1>5, <1>6, <1>7

LEMMA EnsureFreshGoes ==
    ASSUME MInv, NEW c \in Calls, NEW k \in Call, NEW reg \in 0..MaxTokens, NEW v \in View,
           EnsureFresh(c, k, reg, v), k.op \in Refreshing,
           \A x \in Calls : x # c => call[x].pc # "load",
           Owes(call[c], k, v), Asks(c, k),
           UNCHANGED <<ticketOf, spent, revoked>>
    PROVE  /\ Goes /\ OnlyCall(c) /\ call'[c] \in Call
           /\ Proceeds(call'[c]) \/ Refreshes(call'[c], reg)
<1> DEFINE j == [k EXCEPT !.pc = "refresh", !.token = reg]
<1>0. /\ prompts' \in 0..MaxPrompts /\ prompts <= prompts' /\ PromptOf(call[c], k)
      /\ revoked' \subseteq Device
  BY AsksIsBounded DEF MInv, SessionSound, SessionTypeOK
<1>1. CASE reg = 0
  <2>1. Fail(c, k, reg, v)
    BY <1>1 DEF EnsureFresh
  <2>2. Goes /\ OnlyCall(c) /\ call'[c] = Idle
    BY <1>0, <2>1, FailGoes
  <2> QED
    BY <2>2, IdleCall DEF Proceeds
<1>2. CASE reg # 0 /\ access # 0 /\ fresh
  <2>1. Proceed(c, k, v)
    BY <1>2 DEF EnsureFresh
  <2> QED
    BY <2>1, ProceedGoes
<1>3. CASE reg # 0 /\ ~(access # 0 /\ fresh)
  <2>1. Await(c, j, v)
    BY <1>3 DEF EnsureFresh
  <2>2. j \in Call /\ j.pc = "refresh" /\ j.token = reg /\ j.op = k.op /\ j.prompt = k.prompt
    BY DEF Call
  <2> HIDE DEF j
  <2>3. Owes(call[c], j, v) /\ PromptOf(call[c], j) /\ CallSound(j) /\ j.pc # "load"
    BY <1>0, <2>2 DEF Owes, PromptOf, CallSound, Occupies, Connects
  <2>4. Goes /\ OnlyCall(c) /\ call'[c] = j
    BY <1>0, <2>1, <2>2, <2>3, AwaitGoes
  <2> QED
    BY <1>3, <2>2, <2>4 DEF Refreshes
<1> QED
  BY <1>1, <1>2, <1>3

-----------------------------------------------------------------------------
(* What the handlers do to the tokens. *)

\* What the handler that moves waits for next brings nothing that the phone
\* does not have.
Plain(j) == ~Brings(j) /\ (j.pc = "ticket" => j.token = access)

LEMMA ProceedsIsPlain ==
    \A j : Proceeds(j) => Plain(j)
  BY IdleCall DEF Proceeds, Plain, Brings

LEMMA PlainCarriesNothing ==
    \A j : Plain(j) => ~Carries(j)
  BY DEF Plain, Carries, Brings

\* A handler that gives up what it brought, or starts to refresh.
LEMMA CallsKeep ==
    ASSUME MInv, NEW c \in Calls, OnlyCall(c),
           UNCHANGED <<memory, auth, signedOut>>,
           Plain(call'[c]) \/ Refreshes(call'[c], registration)
    PROVE  CarriedIsNewest' /\ \A x \in Calls : CallLegit(call[x])'
<1>1. /\ UNCHANGED <<registration, access, fresh, devices, tokenOf, used, signedOut>>
      /\ \A x \in Calls : x # c => call'[x] = call[x]
  BY DEF memory, auth, OnlyCall
<1>2. ~Carries(call'[c]) /\ call'[c].pc \notin {"refreshed", "save"}
  BY DEF Plain, Brings, Refreshes, Carries
<1>3. ASSUME NEW x \in Calls PROVE CallLegit(call[x])'
  <2>1. CASE x # c
    BY <1>1, <2>1 DEF MInv, TokensSound, TokensKnown, CallLegit, Brings
  <2>2. CASE x = c /\ Plain(call'[c])
    BY <1>1, <2>2 DEF MInv, TokensSound, TokensKnown, CallLegit, Plain, Brings
  <2>3. CASE x = c /\ Refreshes(call'[c], registration)
    BY <1>1, <2>3 DEF MInv, TokensSound, TokensKnown, CallLegit, Refreshes, Legit, Brings
  <2> QED
    BY <2>1, <2>2, <2>3
<1>4. ASSUME NEW y \in Calls, Carries(call[y])', call'[c].pc = "refresh"
      PROVE  call'[c].token # call'[y].token
  <2>1. y # c /\ call[y] = call'[y] /\ Refreshes(call'[c], registration)
    BY <1>1, <1>2, <1>4 DEF Plain, Brings
  <2>2. CASE call[y].pc = "save"
    BY <2>1, <2>2 DEF MInv, TokensSound, CarriedIsNewest, Refreshes
  <2>3. CASE call[y].pc = "refreshed"
    BY <1>4, <2>1, <2>3 DEF MInv, TokensSound, CarriedIsNewest, Refreshes, Carries
  <2> QED
    BY <1>4, <2>1, <2>2, <2>3 DEF Carries
<1>5. \A y \in Calls : Carries(call[y])' => /\ call'[y].token \notin used'
                                            /\ \A x \in Calls : call'[x].pc = "refresh"
                                                  => call'[x].token # call'[y].token
  <2> SUFFICES ASSUME NEW y \in Calls, Carries(call[y])'
               PROVE  /\ call'[y].token \notin used
                      /\ \A x \in Calls : call'[x].pc = "refresh"
                             => call'[x].token # call'[y].token
    BY <1>1
  <2>1. y # c /\ call'[y] = call[y] /\ Carries(call[y])
    BY <1>1, <1>2 DEF Carries
  <2> QED
    BY <1>1, <1>4, <2>1 DEF MInv, TokensSound, CarriedIsNewest
<1>6. \A y \in Calls : call'[y].pc = "refreshed" /\ call'[y].token # 0 =>
          /\ registration # call'[y].token
          /\ \A x \in Calls : x # y /\ call'[x].pc = "refreshed"
                                 => call'[x].token # call'[y].token
  BY <1>1, <1>2 DEF MInv, TokensSound, CarriedIsNewest
<1>7. (\E y \in Calls : call'[y].pc = "save") => registration = 0 \/ (access # 0 /\ fresh)
  BY <1>1, <1>2 DEF MInv, TokensSound, CarriedIsNewest
<1> QED
  BY <1>1, <1>3, <1>5, <1>6, <1>7 DEF CarriedIsNewest

\* The same, when storage and what is lost account for what it brought.
LEMMA TokensStay ==
    ASSUME MInv, NEW c \in Calls, OnlyCall(c), call' \in [Calls -> Call],
           UNCHANGED <<memory, stored, auth, signedOut>>,
           wasted' \subseteq Device, wasted \subseteq wasted', revoked \subseteq revoked',
           Carries(call[c]) => tokenOf[call[c].token] \in wasted',
           Plain(call'[c]) \/ Refreshes(call'[c], registration)
    PROVE  TokensSound'
<1>1. /\ UNCHANGED <<registration, access, fresh, ticketed, devices, tokenOf, used, signedOut>>
      /\ \A x \in Calls : x # c => call'[x] = call[x]
  BY DEF memory, auth, OnlyCall
<1>2. CarriedIsNewest' /\ \A x \in Calls : CallLegit(call[x])'
  BY CallsKeep
<1>3. TokensKnown'
  BY <1>1, <1>2 DEF MInv, TokensSound, TokensKnown, Legit
<1>4. StoredTokenWorks'
  <2> SUFFICES ASSUME stored \in used, tokenOf[stored] \notin revoked' \cup wasted'
               PROVE  \E x \in Calls : /\ call'[x].pc \in {"refreshed", "save"}
                                       /\ call'[x].token # 0
                                       /\ tokenOf[call'[x].token] = tokenOf[stored]
    BY <1>1 DEF StoredTokenWorks
  <2>1. PICK x \in Calls : /\ Carries(call[x])
                           /\ tokenOf[call[x].token] = tokenOf[stored]
    BY DEF MInv, TokensSound, StoredTokenWorks, Carries
  <2>2. x # c
    BY <2>1
  <2> QED
    BY <1>1, <2>1, <2>2 DEF Carries
<1> QED
  BY <1>1, <1>2, <1>3, <1>4 DEF MInv, TokensSound

\* The same for what leaves all of them alone.
LEMMA UntouchedStays ==
    ASSUME MInv, NEW c \in Calls, OnlyCall(c), call' \in [Calls -> Call],
           UNCHANGED <<memory, stored, auth, history>>, revoked \subseteq revoked',
           ~Carries(call[c]),
           Plain(call'[c]) \/ Refreshes(call'[c], registration)
    PROVE  TokensSound'
<1>1. UNCHANGED <<wasted, signedOut>> /\ wasted \subseteq Device
  BY DEF history, MInv, TokensSound
<1> QED
  BY <1>1, TokensStay

-----------------------------------------------------------------------------
(* The buttons, and the network listener. *)

\* When the app is not busy, or has a registration, or another handler waits,
\* the start is over.
LEMMA StartIsOver ==
    ASSUME MInv, NEW c \in Calls,
           \/ ~busy
           \/ registration # 0
           \/ call[c].pc \notin {"idle", "load"}
    PROVE  \A x \in Calls : x # c => call[x].pc # "load"
  BY IdleCall DEF MInv, SessionSound, StartsAlone

LEMMA PressingIsCall ==
    \A op \in {"pair", "connect", "refresh", "prompt", "repair", "network"} :
        /\ Pressing(op) \in Call
        /\ Pressing(op).op = op /\ Pressing(op).pc = "idle"
  BY Bounds DEF Pressing, Idle, Call

LEMMA PressAwaits ==
    ASSUME MInv, NEW c \in Calls, NEW j \in Call, NEW v \in View,
           call[c] = Idle, ~busy, Await(c, j, v), UNCHANGED prompts, Untouched,
           j.pc \in {"register", "clear"}, CallSound(j), j.op # "prompt", Occupies(j),
           v.screen = "connecting" => screen = "connecting" \/ Connects(j)
    PROVE  MInv'
<1>1. /\ UNCHANGED <<memory, stored, auth, history, ticketOf, spent, revoked>>
      /\ prompts' \in 0..MaxPrompts /\ prompts <= prompts' /\ revoked' \subseteq Device
      /\ revoked \subseteq revoked'
  BY SessionBounds DEF Untouched, MInv, SessionSound, SessionTypeOK, HandlersSound
<1>2. Owes(call[c], j, v) /\ PromptOf(call[c], j) /\ j.pc # "load" /\ ~Carries(call[c])
  BY IdleCall DEF Owes, PromptOf
<1>3. \A x \in Calls : x # c => call[x].pc # "load"
  BY StartIsOver
<1>4. Goes /\ OnlyCall(c) /\ call'[c] = j
  BY <1>1, <1>2, <1>3, AwaitGoes
<1>5. Plain(call'[c]) /\ call' \in [Calls -> Call]
  BY <1>4 DEF Plain, Brings, Goes, HandlersSound
<1>6. TokensSound'
  BY <1>1, <1>2, <1>4, <1>5, UntouchedStays
<1> QED
  BY <1>4, <1>6 DEF MInv, Goes

\* Whatever becomes of a handler that was just started.
LEMMA StartedStays ==
    ASSUME MInv, NEW c \in Calls, NEW k \in Call, NEW v \in View,
           call[c] = Idle, ~busy \/ registration # 0,
           EnsureFresh(c, k, registration, v), k.op \in Refreshing,
           v.busy => busy \/ Occupies(k),
           v.screen = "connecting" => screen = "connecting" \/ Connects(k),
           Asks(c, k), Untouched
    PROVE  MInv'
<1>1. /\ UNCHANGED <<memory, stored, auth, history, ticketOf, spent, revoked>>
      /\ revoked \subseteq revoked' /\ registration \in 0..MaxTokens
  BY DEF Untouched, MInv, TokensSound
<1>2. Owes(call[c], k, v) /\ ~Carries(call[c])
  BY IdleCall DEF Owes
<1>3. \A x \in Calls : x # c => call[x].pc # "load"
  BY StartIsOver
<1>4. /\ Goes /\ OnlyCall(c)
      /\ Proceeds(call'[c]) \/ Refreshes(call'[c], registration)
  BY <1>1, <1>2, <1>3, EnsureFreshGoes
<1>5. /\ Plain(call'[c]) \/ Refreshes(call'[c], registration)
      /\ call' \in [Calls -> Call]
  BY <1>4, ProceedsIsPlain DEF Goes, HandlersSound
<1>6. TokensSound'
  BY <1>1, <1>2, <1>4, <1>5, UntouchedStays
<1> QED
  BY <1>4, <1>6 DEF MInv, Goes

LEMMA PressKeeps ==
    ASSUME MInv, NEW c \in Calls, Press(c)
    PROVE  MInv'
<1>0. /\ screen \in {"pair", "connecting", "connected", "repair"}
      /\ prompts \in 0..MaxPrompts /\ {TRUE, FALSE} \subseteq BOOLEAN
  BY DEF MInv, SessionSound, SessionTypeOK, HandlersSound
<1> DEFINE connecting == [screen |-> "connecting", busy |-> TRUE]
           same == [screen |-> screen, busy |-> TRUE]
<1>1. /\ connecting \in View /\ connecting.screen = "connecting" /\ connecting.busy
      /\ same \in View /\ same.screen = screen /\ same.busy
  BY <1>0 DEF View
<1>2. CASE SubmitPairing(c)
  <2> DEFINE j == [Pressing("pair") EXCEPT !.pc = "register"]
  <2>1. j \in Call /\ j.op = "pair" /\ j.pc = "register"
    BY PressingIsCall DEF Call
  <2>2. /\ call[c] = Idle /\ ~busy /\ Await(c, j, connecting) /\ UNCHANGED prompts
        /\ Untouched
    BY <1>2 DEF SubmitPairing, Pressed
  <2> HIDE DEF j, connecting
  <2>3. CallSound(j) /\ Occupies(j) /\ Connects(j)
    BY <2>1 DEF CallSound, Occupies, Connects
  <2> QED
    BY <1>1, <2>1, <2>2, <2>3, PressAwaits
<1>3. CASE Reconnect(c)
  <2> DEFINE k == Pressing("connect")
  <2>1. k \in Call /\ k.op = "connect"
    BY PressingIsCall
  <2>2. /\ call[c] = Idle /\ ~busy /\ EnsureFresh(c, k, registration, connecting)
        /\ UNCHANGED prompts /\ Untouched
    BY <1>3 DEF Reconnect, Pressed
  <2> HIDE DEF k, connecting
  <2>3. Asks(c, k) /\ Occupies(k) /\ Connects(k) /\ k.op \in Refreshing
    BY <2>1, <2>2 DEF Asks, Occupies, Connects, Refreshing
  <2> QED
    BY <1>1, <2>1, <2>2, <2>3, StartedStays
<1>4. CASE RefreshSession(c)
  <2> DEFINE k == Pressing("refresh")
  <2>1. k \in Call /\ k.op = "refresh"
    BY PressingIsCall
  <2>2. /\ call[c] = Idle /\ ~busy /\ EnsureFresh(c, k, registration, same)
        /\ UNCHANGED prompts /\ Untouched
    BY <1>4 DEF RefreshSession, Pressed
  <2> HIDE DEF k, same
  <2>3. Asks(c, k) /\ Occupies(k) /\ k.op \in Refreshing
    BY <2>1, <2>2 DEF Asks, Occupies, Refreshing
  <2> QED
    BY <1>1, <2>1, <2>2, <2>3, StartedStays
<1>5. CASE SendPrompt(c)
  <2> DEFINE k == [Pressing("prompt") EXCEPT !.prompt = prompts + 1]
  <2>1. /\ call[c] = Idle /\ ~busy /\ EnsureFresh(c, k, registration, same)
        /\ prompts < MaxPrompts /\ prompts' = prompts + 1 /\ Untouched
    BY <1>5 DEF SendPrompt, Pressed
  <2>2. k \in Call /\ k.op = "prompt" /\ k.prompt = prompts + 1
    <3>1. prompts + 1 \in 0..MaxPrompts
      BY <1>0, <2>1, SessionBounds
    <3> QED
      BY <3>1, PressingIsCall DEF Call
  <2> HIDE DEF k, same
  <2>3. Asks(c, k) /\ Occupies(k) /\ k.op \in Refreshing
    BY <2>1, <2>2 DEF Asks, Occupies, Refreshing
  <2> QED
    BY <1>1, <2>1, <2>2, <2>3, StartedStays
<1>6. CASE Repair(c)
  <2> DEFINE j == [Pressing("repair") EXCEPT !.pc = "clear"]
  <2>1. j \in Call /\ j.op = "repair" /\ j.pc = "clear"
    BY PressingIsCall DEF Call
  <2>2. /\ call[c] = Idle /\ ~busy /\ Await(c, j, same) /\ UNCHANGED prompts
        /\ Untouched
    BY <1>6 DEF Repair, Pressed
  <2> HIDE DEF j, same
  <2>3. CallSound(j) /\ Occupies(j)
    BY <2>1 DEF CallSound, Occupies
  <2> QED
    BY <1>1, <2>1, <2>2, <2>3, PressAwaits
<1> QED
  BY <1>2, <1>3, <1>4, <1>5, <1>6 DEF Press

\* At the start there is no registration, and the listener's handler is over
\* before it waits for anything.
LEMMA NetworkUpKeeps ==
    ASSUME MInv, NEW c \in Calls, NetworkUp(c)
    PROVE  MInv' \/ UNCHANGED vars
<1> DEFINE k == Pressing("network")
<1>1. k \in Call /\ k.op = "network"
  BY PressingIsCall
<1>2. /\ call[c] = Idle /\ EnsureFresh(c, k, registration, Now)
      /\ UNCHANGED prompts /\ Untouched
  BY DEF NetworkUp
<1> HIDE DEF k
<1>3. CASE registration = 0
  <2>1. End(c, Now)
    BY <1>1, <1>2, <1>3 DEF EnsureFresh, Fail
  <2>2. call' = call /\ UNCHANGED <<screen, busy, session, wire, known>>
    BY <1>2, <2>1 DEF End, Await, Show, Now, MInv, HandlersSound
  <2> QED
    BY <1>2, <2>2 DEF Untouched, vars, ui, bridge, phone
<1>4. CASE registration # 0
  <2>1. Asks(c, k) /\ k.op \in Refreshing
    BY <1>1, <1>2 DEF Asks, Refreshing
  <2> QED
    BY <1>1, <1>2, <1>4, <2>1, NowIsView, StartedStays
<1> QED
  BY <1>3, <1>4

-----------------------------------------------------------------------------
(* What a handler waited for. *)

\* Storage is read at the start, when nothing else happens.
LEMMA LoadKeeps ==
    ASSUME MInv, NEW c \in Calls, LoadReturns(c)
    PROVE  MInv'
<1> DEFINE pairing == [screen |-> "pair", busy |-> FALSE]
           connecting == [screen |-> "connecting", busy |-> TRUE]
<1>1. /\ call[c].pc = "load" /\ call[c] \in Call /\ call[c].op = "connect"
      /\ \A x \in Calls : x # c => call[x] = Idle
      /\ registration = 0 /\ stored \in 0..MaxTokens
  BY DEF LoadReturns, At, MInv, SessionSound, StartsAlone, HandlersSound, OpsMatch,
         CallSound, TokensSound
<1>2. /\ registration' = stored
      /\ UNCHANGED <<access, fresh, ticketed, stored, prompts, devices, tokenOf, used,
                     wasted, signedOut, ticketOf, spent, revoked>>
      /\ prompts' \in 0..MaxPrompts /\ prompts <= prompts' /\ revoked' \subseteq Device
  BY SessionBounds
     DEF LoadReturns, auth, history, MInv, HandlersSound, SessionSound, SessionTypeOK
<1>3. /\ pairing \in View /\ ~pairing.busy /\ pairing.screen = "pair"
      /\ connecting \in View
  BY DEF View
<1>4. \A x \in Calls : x # c => call[x].pc # "load"
  BY <1>1, IdleCall
<1>5. /\ Goes /\ OnlyCall(c)
      /\ Proceeds(call'[c]) \/ Refreshes(call'[c], stored)
  <2>1. CASE stored = 0
    <3>1. End(c, pairing)
      BY <2>1 DEF LoadReturns
    <3> HIDE DEF pairing
    <3>2. Goes /\ OnlyCall(c) /\ call'[c] = Idle
      BY <1>2, <1>3, <1>4, <3>1, EndGoes
    <3> QED
      BY <3>2 DEF Proceeds
  <2>2. CASE stored # 0
    <3>1. EnsureFresh(c, call[c], stored, connecting)
      BY <2>2 DEF LoadReturns
    <3>2. Owes(call[c], call[c], connecting) /\ Asks(c, call[c])
      BY <1>1, <1>2 DEF Owes, Asks, Occupies, Connects
    <3>3. call[c].op \in Refreshing /\ UNCHANGED <<ticketOf, spent, revoked>>
      BY <1>1, <1>2 DEF Refreshing
    <3> HIDE DEF connecting
    <3> QED
      BY <1>1, <1>3, <1>4, <3>1, <3>2, <3>3, EnsureFreshGoes
  <2> QED
    BY <2>1, <2>2
<1>6. \A x \in Calls : ~Carries(call[x]) /\ call[x].pc \in {"idle", "load"}
  BY <1>1, IdleCall DEF Carries
<1>7. \A x \in Calls : ~Carries(call'[x]) /\ call'[x].pc \notin {"refreshed", "save"}
  BY <1>5, <1>6, ProceedsIsPlain DEF OnlyCall, Plain, Brings, Refreshes, Carries
<1>8. CarriedIsNewest'
  BY <1>7 DEF CarriedIsNewest
<1>9. TokensKnown'
  <2>1. ASSUME NEW x \in Calls PROVE CallLegit(call[x])'
    <3>1. CASE x # c
      BY <1>1, <1>5, <3>1, IdleCall DEF OnlyCall, CallLegit, Brings
    <3>2. CASE x = c /\ Proceeds(call'[c])
      BY <1>2, <3>2, ProceedsIsPlain
         DEF MInv, TokensSound, TokensKnown, CallLegit, Plain, Brings
    <3>3. CASE x = c /\ Refreshes(call'[c], stored)
      BY <1>2, <3>3
         DEF MInv, TokensSound, TokensKnown, CallLegit, Refreshes, Legit, Brings
    <3> QED
      BY <1>5, <3>1, <3>2, <3>3
  <2> QED
    BY <1>2, <2>1 DEF MInv, TokensSound, TokensKnown, Legit
<1>10. StoredTokenWorks'
  BY <1>2, <1>6 DEF MInv, TokensSound, StoredTokenWorks, Carries
<1>11. TokensSound'
  BY <1>1, <1>2, <1>8, <1>9, <1>10 DEF MInv, TokensSound
<1> QED
  BY <1>5, <1>11 DEF MInv, Goes

\* The handler waits on, with a token that the bridge gave it.
LEMMA WaitsOn ==
    ASSUME MInv, NEW c \in Calls, NEW pc, NEW t \in 0..MaxTokens,
           pc \in {"refreshed", "save"},
           call[c].pc \in {"register", "refresh", "refreshed"},
           pc = "refreshed" => call[c].pc = "refresh",
           Await(c, [call[c] EXCEPT !.pc = pc, !.token = t], Now),
           UNCHANGED <<prompts, ticketOf, spent>>, revoked' \subseteq Device
    PROVE  Goes /\ OnlyCall(c) /\ call'[c].pc = pc /\ call'[c].token = t
<1> DEFINE j == [call[c] EXCEPT !.pc = pc, !.token = t]
<1>1. /\ call[c] \in Call /\ CallSound(call[c])
      /\ prompts' \in 0..MaxPrompts /\ prompts <= prompts'
  BY SessionBounds DEF MInv, HandlersSound, OpsMatch
<1>2. /\ j \in Call /\ j.op = call[c].op /\ j.pc = pc /\ j.token = t
      /\ j.prompt = call[c].prompt
  BY <1>1 DEF Call
<1> HIDE DEF j
<1>3. CallSound(j) /\ PromptOf(call[c], j)
  BY <1>1, <1>2 DEF CallSound, PromptOf
<1>4. Owes(call[c], j, Now)
  BY <1>2, NowIsView DEF Owes, Occupies, Connects
<1>5. \A x \in Calls : x # c => call[x].pc # "load"
  BY StartIsOver
<1>6. Await(c, j, Now)
  BY DEF j
<1> QED
  BY <1>1, <1>2, <1>3, <1>4, <1>5, <1>6, NowIsView, AwaitGoes

LEMMA RegisterKeeps ==
    ASSUME MInv, NEW c \in Calls, RegisterReturns(c)
    PROVE  MInv'
<1> DEFINE n == Len(tokenOf) + 1
<1>1. /\ tokenOf \in Seq(1..devices) /\ devices \in Nat /\ devices < MaxDevices
      /\ devices' = devices + 1 /\ tokenOf' = Append(tokenOf, devices')
      /\ access' = devices' /\ fresh' = TRUE /\ signedOut' = FALSE
      /\ UNCHANGED <<ticketed, stored, prompts, used, wasted, ticketOf, spent, revoked>>
      /\ used \subseteq DOMAIN tokenOf /\ devices <= Len(tokenOf) /\ stored \in 0..MaxTokens
      /\ ticketed \in BOOLEAN /\ wasted \subseteq Device
  BY SessionBounds DEF RegisterReturns, MInv, TokensSound, TokensKnown
<1>2. /\ Len(tokenOf') = n /\ DOMAIN tokenOf = 1..Len(tokenOf) /\ Len(tokenOf) \in Nat
      /\ DOMAIN tokenOf' = 1..n
      /\ \A t \in DOMAIN tokenOf : tokenOf'[t] = tokenOf[t]
  BY <1>1
<1>3. tokenOf' \in Seq(1..devices')
  <2>1. tokenOf \in Seq(1..devices') /\ devices' \in 1..devices'
    BY <1>1
  <2> QED
    BY <1>1, <2>1
<1>4. n <= MaxTokens /\ MaxTokens \in Nat
  BY <1>2, MobileBounds DEF RegisterReturns, WithinBounds
<1>5. Goes /\ OnlyCall(c) /\ call'[c].pc = "save" /\ call'[c].token = n
  <2>1. /\ call[c].pc = "register" /\ Await(c, [call[c] EXCEPT !.pc = "save", !.token = n], Now)
        /\ n \in 0..MaxTokens /\ revoked' \subseteq Device
    BY <1>1, <1>2, <1>4 DEF RegisterReturns, At, MInv, SessionSound, SessionTypeOK
  <2> HIDE DEF n
  <2> QED
    BY <1>1, <2>1, WaitsOn
<1>6. registration' = n
  BY <1>2 DEF RegisterReturns
<1>7. \A x \in Calls : x # c => call'[x] = call[x]
  BY <1>5 DEF OnlyCall
<1>8. \A x \in Calls : CallLegit(call[x])
  BY DEF MInv, TokensSound, TokensKnown
<1>9. ASSUME NEW x \in Calls PROVE CallLegit(call[x])'
  <2>1. CASE x = c
    BY <1>1, <1>2, <1>5, <2>1 DEF CallLegit
  <2>2. CASE x # c
    BY <1>1, <1>2, <1>7, <1>8, <2>2 DEF CallLegit
  <2> QED
    BY <2>1, <2>2
<1>10. TokensKnown'
  <2>1. Legit(stored)' /\ Legit(registration)'
    BY <1>1, <1>2, <1>6 DEF Legit, MInv, TokensSound, TokensKnown
  <2> QED
    BY <1>1, <1>2, <1>9, <2>1 DEF TokensKnown
<1>11. CarriedIsNewest'
  <2>1. n \notin DOMAIN tokenOf /\ n # 0
    BY <1>2
  <2>2. \A x \in Calls : /\ call[x].pc = "refresh" => call[x].token \in DOMAIN tokenOf
                         /\ Carries(call[x]) => call[x].token \in DOMAIN tokenOf
    BY <1>8 DEF CallLegit, Carries
  <2>3. \A x \in Calls : Carries(call'[x]) =>
            /\ call'[x].token \notin used'
            /\ \A y \in Calls : call'[y].pc = "refresh" => call'[y].token # call'[x].token
    <3> SUFFICES ASSUME NEW x \in Calls, Carries(call'[x])
                 PROVE  /\ call'[x].token \notin used'
                        /\ \A y \in Calls : call'[y].pc = "refresh"
                                              => call'[y].token # call'[x].token
      OBVIOUS
    <3>1. CASE x = c
      BY <1>1, <1>5, <1>7, <2>1, <2>2, <3>1
    <3>2. CASE x # c
      BY <1>1, <1>5, <1>7, <3>2 DEF MInv, TokensSound, CarriedIsNewest
    <3> QED
      BY <3>1, <3>2
  <2>4. \A x \in Calls : call'[x].pc = "refreshed" /\ call'[x].token # 0 =>
            /\ registration' # call'[x].token
            /\ \A y \in Calls : y # x /\ call'[y].pc = "refreshed"
                                   => call'[y].token # call'[x].token
    <3> SUFFICES ASSUME NEW x \in Calls, call'[x].pc = "refreshed", call'[x].token # 0
                 PROVE  /\ registration' # call'[x].token
                        /\ \A y \in Calls : y # x /\ call'[y].pc = "refreshed"
                                               => call'[y].token # call'[x].token
      OBVIOUS
    <3>1. x # c /\ call'[x] = call[x] /\ Carries(call[x])
      BY <1>5, <1>7 DEF Carries
    <3>2. call[x].token \in DOMAIN tokenOf
      BY <2>2, <3>1
    <3> QED
      BY <1>5, <1>6, <1>7, <2>1, <3>1, <3>2 DEF MInv, TokensSound, CarriedIsNewest
  <2>5. access' # 0 /\ fresh'
    BY <1>1
  <2> QED
    BY <2>3, <2>4, <2>5 DEF CarriedIsNewest
<1>12. StoredTokenWorks'
  <2> SUFFICES ASSUME stored \in used, tokenOf[stored] \notin revoked \cup wasted
               PROVE  \E x \in Calls : /\ call'[x].pc \in {"refreshed", "save"}
                                       /\ call'[x].token # 0
                                       /\ tokenOf'[call'[x].token] = tokenOf[stored]
    BY <1>1, <1>2 DEF StoredTokenWorks
  <2>1. PICK x \in Calls : /\ call[x].pc \in {"refreshed", "save"} /\ call[x].token # 0
                           /\ tokenOf[call[x].token] = tokenOf[stored]
    BY DEF MInv, TokensSound, StoredTokenWorks
  <2>2. x # c /\ call[x].token \in DOMAIN tokenOf
    BY <1>8, <2>1 DEF CallLegit, RegisterReturns, At
  <2> QED
    BY <1>2, <1>7, <2>1, <2>2
<1>13. TokensSound'
  <2>1. registration' \in 0..MaxTokens /\ Len(tokenOf') <= MaxTokens
    BY <1>2, <1>4, <1>6
  <2>2. access' \in 0..MaxDevices /\ devices' \in 0..MaxDevices
    BY <1>1, SessionBounds
  <2>3. used' \subseteq DOMAIN tokenOf'
    BY <1>1, <1>2
  <2> QED
    BY <1>1, <1>3, <1>10, <1>11, <1>12, <2>1, <2>2, <2>3 DEF TokensSound
<1> QED
  BY <1>5, <1>13 DEF MInv, Goes

\* The bridge answers a refresh with a new token, or refuses it.
LEMMA AuthRefreshKeeps ==
    ASSUME MInv, NEW c \in Calls, AuthRefresh(c)
    PROVE  MInv'
<1> DEFINE t == call[c].token
           d == tokenOf[t]
           n == Len(tokenOf) + 1
<1>1. /\ call[c].pc = "refresh" /\ t \in DOMAIN tokenOf
      /\ tokenOf \in Seq(1..devices) /\ devices \in 0..MaxDevices /\ MaxDevices \in Nat
      /\ UNCHANGED <<registration, access, fresh, ticketed, stored, prompts, devices,
                     wasted, signedOut, ticketOf, spent>>
      /\ used \subseteq DOMAIN tokenOf
  BY SessionBounds
     DEF AuthRefresh, At, MInv, TokensSound, TokensKnown, CallLegit, memory, history
<1>2. d \in Device /\ d \in 1..devices
  <2>1. d \in 1..devices
    BY <1>1
  <2> QED
    BY <1>1, <2>1 DEF Device
<1>3. /\ DOMAIN tokenOf = 1..Len(tokenOf) /\ Len(tokenOf) \in Nat
      /\ Len(tokenOf) <= MaxTokens /\ MaxTokens \in Nat /\ revoked \subseteq Device
  BY <1>1, MobileBounds DEF MInv, TokensSound, SessionSound, SessionTypeOK
<1>4. \A x \in Calls : CallLegit(call[x])
  BY DEF MInv, TokensSound, TokensKnown
<1>5. CASE /\ d \notin revoked /\ t \notin used
           /\ tokenOf' = Append(tokenOf, d) /\ used' = used \cup {t} /\ revoked' = revoked
           /\ Await(c, [call[c] EXCEPT !.pc = "refreshed", !.token = Len(tokenOf')], Now)
  <2>1. /\ Len(tokenOf') = n /\ DOMAIN tokenOf' = 1..n /\ tokenOf'[n] = d
        /\ \A x \in DOMAIN tokenOf : tokenOf'[x] = tokenOf[x]
    BY <1>1, <1>2, <1>3, <1>5
  <2>2. n <= MaxTokens
    BY <2>1 DEF AuthRefresh, WithinBounds
  <2>3. tokenOf' \in Seq(1..devices')
    BY <1>1, <1>2, <1>5
  <2>4. Goes /\ OnlyCall(c) /\ call'[c].pc = "refreshed" /\ call'[c].token = n
    <3>1. /\ Await(c, [call[c] EXCEPT !.pc = "refreshed", !.token = n], Now)
          /\ n \in 0..MaxTokens /\ revoked' \subseteq Device
      BY <1>3, <1>5, <2>1, <2>2
    <3> HIDE DEF n
    <3> QED
      BY <1>1, <3>1, WaitsOn
  <2>5. \A x \in Calls : x # c => call'[x] = call[x]
    BY <2>4 DEF OnlyCall
  <2>6. n # 0 /\ n \notin DOMAIN tokenOf /\ DOMAIN tokenOf \subseteq DOMAIN tokenOf'
        /\ n \in DOMAIN tokenOf'
    BY <1>3, <2>1
  <2> HIDE DEF n
  <2>7. TokensKnown'
    <3>1. ASSUME NEW x \in Calls PROVE CallLegit(call[x])'
      <4>1. CASE x = c
        BY <1>1, <1>4, <2>4, <2>6, <4>1 DEF CallLegit, Brings
      <4>2. CASE x # c
        BY <1>1, <1>4, <2>5, <2>6, <4>2 DEF CallLegit, Brings
      <4> QED
        BY <4>1, <4>2
    <3>2. Legit(stored)' /\ Legit(registration)'
      BY <1>1, <2>6 DEF MInv, TokensSound, TokensKnown, Legit
    <3>3. devices <= Len(tokenOf')
      BY <1>3, <2>1 DEF MInv, TokensSound, TokensKnown, n
    <3> QED
      BY <1>1, <3>1, <3>2, <3>3 DEF MInv, TokensSound, TokensKnown
  <2>8. CarriedIsNewest'
    <3>1. \A x \in Calls : Carries(call[x]) => call[x].token \in DOMAIN tokenOf
      BY <1>4 DEF CallLegit, Carries
    <3>2. \A x \in Calls : call[x].pc = "refresh" => call[x].token \in DOMAIN tokenOf
      BY <1>4 DEF CallLegit
    <3>3. registration # n
      BY <2>6 DEF MInv, TokensSound, TokensKnown, Legit
    <3>4. \A x \in Calls : Carries(call'[x]) =>
              /\ call'[x].token \notin used'
              /\ \A y \in Calls : call'[y].pc = "refresh" => call'[y].token # call'[x].token
      <4> SUFFICES ASSUME NEW x \in Calls, Carries(call'[x])
                   PROVE  /\ call'[x].token \notin used'
                          /\ \A y \in Calls : call'[y].pc = "refresh"
                                                => call'[y].token # call'[x].token
        OBVIOUS
      <4>1. CASE x = c
        <5>1. n \notin used /\ n # t
          BY <1>1, <2>6
        <5>2. \A y \in Calls : call'[y].pc = "refresh" => call'[y].token # n
          BY <2>4, <2>5, <2>6, <3>2
        <5> QED
          BY <1>5, <2>4, <4>1, <5>1, <5>2
      <4>2. CASE x # c
        <5>1. Carries(call[x]) /\ call'[x] = call[x]
          BY <2>5, <4>2
        <5>2. call[x].token \notin used /\ call[x].token # t
          BY <1>1, <5>1 DEF MInv, TokensSound, CarriedIsNewest
        <5>3. \A y \in Calls : call'[y].pc = "refresh" => call'[y].token # call[x].token
          BY <2>4, <2>5, <5>1 DEF MInv, TokensSound, CarriedIsNewest
        <5> QED
          BY <1>5, <5>1, <5>2, <5>3
      <4> QED
        BY <4>1, <4>2
    <3>5. \A x \in Calls : call'[x].pc = "refreshed" /\ call'[x].token # 0 =>
              /\ registration # call'[x].token
              /\ \A y \in Calls : y # x /\ call'[y].pc = "refreshed"
                                     => call'[y].token # call'[x].token
      <4> SUFFICES ASSUME NEW x \in Calls, call'[x].pc = "refreshed", call'[x].token # 0
                   PROVE  /\ registration # call'[x].token
                          /\ \A y \in Calls : y # x /\ call'[y].pc = "refreshed"
                                                 => call'[y].token # call'[x].token
        OBVIOUS
      <4>1. \A y \in Calls : y # c /\ call'[y].pc = "refreshed" => call'[y].token # n
        BY <2>5, <2>6, <3>1 DEF Carries
      <4>2. CASE x = c
        BY <2>4, <3>3, <4>1, <4>2
      <4>3. CASE x # c
        <5>1. /\ registration # call[x].token
              /\ \A y \in Calls : y # x /\ call[y].pc = "refreshed"
                                     => call[y].token # call[x].token
          BY <2>5, <4>3 DEF MInv, TokensSound, CarriedIsNewest
        <5> QED
          BY <2>4, <2>5, <4>1, <4>3, <5>1
      <4> QED
        BY <4>2, <4>3
    <3>6. (\E x \in Calls : call'[x].pc = "save") => registration = 0 \/ (access # 0 /\ fresh)
      BY <2>4, <2>5 DEF MInv, TokensSound, CarriedIsNewest
    <3> QED
      BY <1>1, <3>4, <3>5, <3>6 DEF CarriedIsNewest
  <2>9. StoredTokenWorks'
    <3> SUFFICES ASSUME stored \in used', tokenOf'[stored] \notin revoked \cup wasted
                 PROVE  \E x \in Calls : /\ call'[x].pc \in {"refreshed", "save"}
                                         /\ call'[x].token # 0
                                         /\ tokenOf'[call'[x].token] = tokenOf'[stored]
      BY <1>1, <1>5 DEF StoredTokenWorks
    <3>1. CASE stored = t
      BY <1>1, <2>1, <2>4, <2>6, <3>1
    <3>2. CASE stored # t
      <4>1. stored \in used /\ tokenOf'[stored] = tokenOf[stored]
        BY <1>1, <1>5, <2>1, <3>2
      <4>2. PICK x \in Calls : /\ call[x].pc \in {"refreshed", "save"} /\ call[x].token # 0
                               /\ tokenOf[call[x].token] = tokenOf[stored]
        BY <4>1 DEF MInv, TokensSound, StoredTokenWorks
      <4>3. x # c /\ call[x].token \in DOMAIN tokenOf
        BY <1>1, <1>4, <4>2 DEF CallLegit
      <4> QED
        BY <2>1, <2>5, <4>1, <4>2, <4>3
    <3> QED
      BY <3>1, <3>2
  <2>10. used' \subseteq DOMAIN tokenOf'
    BY <1>1, <1>5, <2>6
  <2>11. TokensSound'
    BY <1>1, <2>1, <2>2, <2>3, <2>7, <2>8, <2>9, <2>10 DEF MInv, TokensSound
  <2> QED
    BY <2>4, <2>11 DEF MInv, Goes
<1>6. CASE /\ revoked' = revoked \cup {d} /\ UNCHANGED <<tokenOf, used>>
           /\ Await(c, [call[c] EXCEPT !.pc = "refreshed", !.token = 0], Now)
  <2>1. Goes /\ OnlyCall(c) /\ call'[c].pc = "refreshed" /\ call'[c].token = 0
    <3>1. revoked' \subseteq Device /\ UNCHANGED <<prompts, ticketOf, spent>>
      BY <1>1, <1>2, <1>3, <1>6
    <3> QED
      BY <1>1, <1>6, <3>1, Bounds, WaitsOn
  <2>2. \A x \in Calls : x # c => call'[x] = call[x]
    BY <2>1 DEF OnlyCall
  <2>3. ASSUME NEW x \in Calls PROVE CallLegit(call[x])'
    <3>1. CASE x = c
      BY <1>1, <1>4, <2>1, <3>1 DEF CallLegit, Brings
    <3>2. CASE x # c
      BY <1>1, <1>4, <1>6, <2>2, <3>2 DEF CallLegit, Brings
    <3> QED
      BY <3>1, <3>2
  <2>4. TokensKnown'
    BY <1>1, <1>6, <2>3 DEF MInv, TokensSound, TokensKnown, Legit
  <2>5. CarriedIsNewest'
    <3>1. ~Carries(call'[c]) /\ call'[c].pc \notin {"refresh", "save"}
      BY <2>1 DEF Carries
    <3>2. \A x \in Calls : Carries(call'[x]) =>
              /\ call'[x].token \notin used
              /\ \A y \in Calls : call'[y].pc = "refresh" => call'[y].token # call'[x].token
      BY <2>2, <3>1 DEF MInv, TokensSound, CarriedIsNewest
    <3>3. \A x \in Calls : call'[x].pc = "refreshed" /\ call'[x].token # 0 =>
              /\ registration # call'[x].token
              /\ \A y \in Calls : y # x /\ call'[y].pc = "refreshed"
                                     => call'[y].token # call'[x].token
      BY <2>1, <2>2 DEF MInv, TokensSound, CarriedIsNewest
    <3>4. (\E x \in Calls : call'[x].pc = "save") => registration = 0 \/ (access # 0 /\ fresh)
      BY <2>2, <3>1 DEF MInv, TokensSound, CarriedIsNewest
    <3> QED
      BY <1>1, <1>6, <3>2, <3>3, <3>4 DEF CarriedIsNewest
  <2>6. StoredTokenWorks'
    <3> SUFFICES ASSUME stored \in used, tokenOf[stored] \notin revoked \cup wasted
                 PROVE  \E x \in Calls : /\ call'[x].pc \in {"refreshed", "save"}
                                         /\ call'[x].token # 0
                                         /\ tokenOf[call'[x].token] = tokenOf[stored]
      BY <1>1, <1>6 DEF StoredTokenWorks
    <3>1. PICK x \in Calls : /\ call[x].pc \in {"refreshed", "save"} /\ call[x].token # 0
                             /\ tokenOf[call[x].token] = tokenOf[stored]
      BY DEF MInv, TokensSound, StoredTokenWorks
    <3> QED
      BY <1>1, <2>2, <3>1
  <2>7. TokensSound'
    BY <1>1, <1>6, <2>4, <2>5, <2>6 DEF MInv, TokensSound
  <2> QED
    BY <2>1, <2>7 DEF MInv, Goes
<1> QED
  BY <1>5, <1>6 DEF AuthRefresh

LEMMA RegisterFailsKeeps ==
    ASSUME MInv, NEW c \in Calls, RegisterFails(c)
    PROVE  MInv'
<1>1. /\ call[c].pc = "register" /\ call[c] \in Call /\ call[c].op = "pair"
      /\ Fail(c, call[c], registration, Now) /\ UNCHANGED prompts
      /\ UNCHANGED <<memory, stored, auth, history, ticketOf, spent, revoked>>
      /\ revoked' \subseteq Device /\ revoked \subseteq revoked'
  BY DEF RegisterFails, At, Untouched, MInv, HandlersSound, OpsMatch, CallSound,
         SessionSound, SessionTypeOK
<1>2. Asks(c, call[c]) /\ ~Carries(call[c])
  BY <1>1 DEF Asks, Carries
<1>3. \A x \in Calls : x # c => call[x].pc # "load"
  BY <1>1, StartIsOver
<1>4. Goes /\ OnlyCall(c) /\ call'[c] = Idle
  BY <1>1, <1>2, <1>3, NowIsView, FailGoes
<1>5. Plain(call'[c]) /\ call' \in [Calls -> Call]
  BY <1>4, ProceedsIsPlain DEF Proceeds, Goes, HandlersSound
<1>6. TokensSound'
  BY <1>1, <1>2, <1>4, <1>5, UntouchedStays
<1> QED
  BY <1>4, <1>6 DEF MInv, Goes

\* The request, or its answer, is lost.
LEMMA RefreshFailsKeeps ==
    ASSUME MInv, NEW c \in Calls, RefreshFails(c)
    PROVE  MInv'
<1>1. /\ call[c].pc \in {"refresh", "refreshed"} /\ call[c] \in Call
      /\ Fail(c, call[c], registration, Now)
      /\ UNCHANGED <<memory, stored, prompts, auth, signedOut, ticketOf, spent, revoked>>
      /\ revoked' \subseteq Device /\ revoked \subseteq revoked'
  BY DEF RefreshFails, MInv, HandlersSound, SessionSound, SessionTypeOK
<1>2. Asks(c, call[c]) /\ Owes(call[c], call[c], Now)
  BY <1>1, NowIsView DEF Asks, Owes
<1>3. \A x \in Calls : x # c => call[x].pc # "load"
  BY <1>1, StartIsOver
<1>4. Goes /\ OnlyCall(c) /\ call'[c] = Idle
  BY <1>1, <1>2, <1>3, NowIsView, FailGoes
<1>5. Plain(call'[c]) /\ call' \in [Calls -> Call]
  BY <1>4, ProceedsIsPlain DEF Proceeds, Goes, HandlersSound
<1>6. wasted' = IF Carries(call[c]) THEN wasted \cup {tokenOf[call[c].token]} ELSE wasted
  BY <1>1 DEF RefreshFails, At, Carries
<1>7. Carries(call[c]) => tokenOf[call[c].token] \in Device
  <2> SUFFICES ASSUME Carries(call[c]) PROVE tokenOf[call[c].token] \in Device
    OBVIOUS
  <2>1. /\ call[c].token \in DOMAIN tokenOf /\ tokenOf \in Seq(1..devices)
        /\ devices \in 0..MaxDevices /\ MaxDevices \in Nat
    BY SessionBounds DEF MInv, TokensSound, TokensKnown, CallLegit, Carries
  <2>2. tokenOf[call[c].token] \in 1..devices
    BY <2>1
  <2> QED
    BY <2>1, <2>2 DEF Device
<1>8. wasted' \subseteq Device /\ wasted \subseteq wasted'
      /\ (Carries(call[c]) => tokenOf[call[c].token] \in wasted')
  BY <1>6, <1>7 DEF MInv, TokensSound
<1>9. TokensSound'
  BY <1>1, <1>4, <1>5, <1>8, TokensStay
<1> QED
  BY <1>4, <1>9 DEF MInv, Goes

\* The new token is in memory, and has yet to be stored.
LEMMA RefreshReturnsKeeps ==
    ASSUME MInv, NEW c \in Calls, RefreshReturns(c)
    PROVE  MInv'
<1> DEFINE t == call[c].token
<1>1. /\ call[c].pc = "refreshed" /\ call[c] \in Call /\ call[c].op \in Refreshing
      /\ UNCHANGED <<stored, prompts, devices, tokenOf, used, wasted, signedOut, ticketOf,
                     spent, revoked>>
      /\ revoked' \subseteq Device /\ revoked \subseteq revoked'
  BY DEF RefreshReturns, At, auth, history, MInv, HandlersSound, OpsMatch, CallSound,
         SessionSound, SessionTypeOK
<1>2. CASE t = 0
  <2>1. Refused(c) /\ UNCHANGED memory
    BY <1>2 DEF RefreshReturns
  <2>2. \A x \in Calls : x # c => call[x].pc # "load"
    BY <1>1, StartIsOver
  <2>3. Goes /\ OnlyCall(c) /\ call'[c].pc \in {"idle", "clear"}
    BY <1>1, <2>1, <2>2, RefusedGoes
  <2>4. Plain(call'[c]) /\ call' \in [Calls -> Call] /\ ~Carries(call[c])
    BY <1>2, <2>3 DEF Plain, Brings, Goes, HandlersSound, Carries
  <2>5. TokensSound'
    BY <1>1, <2>1, <2>3, <2>4, UntouchedStays DEF auth, history
  <2> QED
    BY <2>3, <2>5 DEF MInv, Goes
<1>3. CASE t # 0
  <2>1. t \in DOMAIN tokenOf /\ ~signedOut
    BY <1>1, <1>3 DEF MInv, TokensSound, TokensKnown, CallLegit, Brings
  <2>2. tokenOf[t] \in 1..devices /\ devices \in 0..MaxDevices /\ MaxDevices \in Nat
    BY <2>1, SessionBounds DEF MInv, TokensSound
  <2>3. /\ access' = tokenOf[t] /\ fresh' = TRUE /\ registration' = t /\ ticketed' = ticketed
        /\ Await(c, [call[c] EXCEPT !.pc = "save", !.token = t], Now)
    BY <1>3 DEF RefreshReturns, Kept
  <2>4. Goes /\ OnlyCall(c) /\ call'[c].pc = "save" /\ call'[c].token = t
    <3>1. t \in 0..MaxTokens
      BY <1>1 DEF Call
    <3> QED
      BY <1>1, <2>3, <3>1, WaitsOn
  <2>5. \A x \in Calls : x # c => call'[x] = call[x]
    BY <2>4 DEF OnlyCall
  <2>6. Carries(call[c]) /\ Carries(call'[c])
    BY <1>1, <1>3, <2>4 DEF Carries
  <2>7. access' # 0 /\ access' \in 0..devices /\ access' \in 0..MaxDevices
    BY <2>2, <2>3
  <2>8. TokensKnown'
    <3>1. ASSUME NEW x \in Calls PROVE CallLegit(call[x])'
      <4>1. CASE x = c
        BY <1>1, <2>1, <2>4, <4>1 DEF CallLegit, Brings
      <4>2. CASE x # c
        BY <1>1, <2>5, <4>2 DEF MInv, TokensSound, TokensKnown, CallLegit, Brings
      <4> QED
        BY <4>1, <4>2
    <3>2. Legit(stored)' /\ Legit(registration)'
      BY <1>1, <2>1, <2>3 DEF MInv, TokensSound, TokensKnown, Legit
    <3> QED
      BY <1>1, <2>7, <3>1, <3>2 DEF MInv, TokensSound, TokensKnown
  <2>9. CarriedIsNewest'
    <3>1. \A x \in Calls : Carries(call'[x]) =>
              /\ call'[x].token \notin used
              /\ \A y \in Calls : call'[y].pc = "refresh" => call'[y].token # call'[x].token
      <4> SUFFICES ASSUME NEW x \in Calls, Carries(call'[x])
                   PROVE  /\ call'[x].token \notin used
                          /\ \A y \in Calls : call'[y].pc = "refresh"
                                                => call'[y].token # call'[x].token
        OBVIOUS
      <4>1. Carries(call[x]) /\ call'[x].token = call[x].token
        BY <2>4, <2>5, <2>6
      <4>2. \A y \in Calls : call'[y].pc = "refresh" => call'[y] = call[y]
        BY <2>4, <2>5
      <4> QED
        BY <4>1, <4>2 DEF MInv, TokensSound, CarriedIsNewest
    <3>2. \A x \in Calls : call'[x].pc = "refreshed" /\ call'[x].token # 0 =>
              /\ registration' # call'[x].token
              /\ \A y \in Calls : y # x /\ call'[y].pc = "refreshed"
                                     => call'[y].token # call'[x].token
      <4> SUFFICES ASSUME NEW x \in Calls, call'[x].pc = "refreshed", call'[x].token # 0
                   PROVE  /\ registration' # call'[x].token
                          /\ \A y \in Calls : y # x /\ call'[y].pc = "refreshed"
                                                 => call'[y].token # call'[x].token
        OBVIOUS
      <4>1. x # c /\ call'[x] = call[x]
        BY <2>4, <2>5
      <4>2. call[x].token # t
        BY <1>1, <4>1 DEF MInv, TokensSound, CarriedIsNewest
      <4> QED
        BY <2>3, <2>4, <2>5, <4>1, <4>2 DEF MInv, TokensSound, CarriedIsNewest
    <3> QED
      BY <1>1, <2>3, <2>7, <3>1, <3>2 DEF CarriedIsNewest
  <2>10. StoredTokenWorks'
    <3> SUFFICES ASSUME stored \in used, tokenOf[stored] \notin revoked \cup wasted
                 PROVE  \E x \in Calls : /\ call'[x].pc \in {"refreshed", "save"}
                                         /\ call'[x].token # 0
                                         /\ tokenOf[call'[x].token] = tokenOf[stored]
      BY <1>1 DEF StoredTokenWorks
    <3>1. PICK x \in Calls : /\ call[x].pc \in {"refreshed", "save"} /\ call[x].token # 0
                             /\ tokenOf[call[x].token] = tokenOf[stored]
      BY DEF MInv, TokensSound, StoredTokenWorks
    <3> QED
      BY <2>4, <2>5, <3>1
  <2>11. TokensSound'
    <3>1. registration' \in 0..MaxTokens
      BY <1>1, <2>3 DEF Call
    <3> QED
      BY <1>1, <2>3, <2>7, <2>8, <2>9, <2>10, <3>1 DEF MInv, TokensSound
  <2> QED
    BY <2>4, <2>11 DEF MInv, Goes
<1> QED
  BY <1>2, <1>3

\* The token that was carried is the stored one now, and nobody has used it.
LEMMA SaveKeeps ==
    ASSUME MInv, NEW c \in Calls, SaveReturns(c)
    PROVE  MInv'
<1> DEFINE k == IF call[c].op = "pair" THEN [call[c] EXCEPT !.op = "connect"] ELSE call[c]
<1>1. /\ call[c].pc = "save" /\ call[c] \in Call /\ call[c].op \in Refreshing \cup {"pair"}
      /\ stored' = call[c].token
      /\ UNCHANGED <<memory, prompts, auth, history, ticketOf, spent, revoked>>
      /\ revoked \subseteq revoked'
  BY DEF SaveReturns, At, MInv, HandlersSound, OpsMatch, CallSound
<1>2. /\ k \in Call /\ k.op \in Refreshing /\ k.prompt = call[c].prompt
      /\ k.op = "prompt" => call[c].op = "prompt"
      /\ Occupies(call[c]) => Occupies(k)
      /\ Connects(call[c]) => Connects(k)
  <2>1. CASE call[c].op = "pair"
    BY <1>1, <2>1 DEF Call, Refreshing, Occupies, Connects
  <2>2. CASE call[c].op # "pair"
    BY <1>1, <2>2
  <2> QED
    BY <2>1, <2>2
<1>3. EnsureFresh(c, k, registration, Now) \/ Proceed(c, k, Now)
  BY DEF SaveReturns
<1> HIDE DEF k
<1>4. Asks(c, k) /\ Owes(call[c], k, Now)
  BY <1>1, <1>2, NowIsView DEF Asks, Owes
<1>5. \A x \in Calls : x # c => call[x].pc # "load"
  BY <1>1, StartIsOver
<1>6. registration \in 0..MaxTokens
  BY DEF MInv, TokensSound
<1>7. /\ Goes /\ OnlyCall(c) /\ call'[c] \in Call
      /\ Proceeds(call'[c]) \/ Refreshes(call'[c], registration)
  <2>1. CASE EnsureFresh(c, k, registration, Now)
    BY <1>1, <1>2, <1>4, <1>5, <1>6, <2>1, NowIsView, EnsureFreshGoes
  <2>2. CASE Proceed(c, k, Now)
    BY <1>1, <1>2, <1>4, <1>5, <2>2, NowIsView, ProceedGoes
  <2> QED
    BY <1>3, <2>1, <2>2
<1>8. CarriedIsNewest' /\ \A x \in Calls : CallLegit(call[x])'
  BY <1>1, <1>7, ProceedsIsPlain, CallsKeep DEF history
<1>9. call[c].token \in DOMAIN tokenOf /\ ~signedOut
  BY <1>1 DEF MInv, TokensSound, TokensKnown, CallLegit, Brings
<1>10. call[c].token \notin used
  <2>1. call[c].token # 0
    BY <1>9 DEF MInv, TokensSound
  <2> QED
    BY <1>1, <2>1 DEF MInv, TokensSound, CarriedIsNewest, Carries
<1>11. TokensKnown' /\ StoredTokenWorks'
  BY <1>1, <1>8, <1>9, <1>10
     DEF MInv, TokensSound, TokensKnown, Legit, StoredTokenWorks, memory, auth, history
<1>12. TokensSound'
  <2>1. stored' \in 0..MaxTokens
    BY <1>1 DEF Call
  <2> QED
    BY <1>1, <1>8, <1>11, <2>1 DEF MInv, TokensSound, memory, auth, history
<1> QED
  BY <1>7, <1>12 DEF MInv, Goes

\* The session gets a ticket, and a socket or a timer with it.
LEMMA TicketKeeps ==
    ASSUME MInv, NEW c \in Calls, TicketReturns(c)
    PROVE  MInv'
<1> DEFINE k == Len(ticketOf) + 1
           d == call[c].token
           j == [call[c] EXCEPT !.pc = "ble", !.token = 0]
<1>1. /\ call[c].pc = "ticket" /\ call[c] \in Call /\ call[c].op \in {"connect", "network"}
      /\ k <= MaxTickets /\ ticketOf' = Append(ticketOf, d) /\ ticketed' = TRUE
      /\ UNCHANGED <<busy, registration, access, fresh, stored, prompts, auth, history, spent,
                     revoked, known>>
  BY DEF TicketReturns, At, MInv, HandlersSound, OpsMatch, CallSound
<1>2. d \in Device
  <2>1. d \in 0..devices /\ d # 0 /\ devices \in 0..MaxDevices
    BY <1>1 DEF TicketReturns, MInv, TokensSound, TokensKnown, CallLegit
  <2> QED
    BY <2>1, SessionBounds DEF Device
<1>3. /\ ticketOf \in Seq(Device) /\ spent \subseteq DOMAIN ticketOf
      /\ screen \in {"pair", "connecting", "connected", "repair"} /\ call \in [Calls -> Call]
      /\ prompts \in 0..MaxPrompts /\ MaxPrompts \in Nat /\ MaxTickets \in Nat
  BY SessionBounds DEF MInv, SessionSound, SessionTypeOK, HandlersSound
<1>4. /\ ticketOf' \in Seq(Device) /\ Len(ticketOf') = k /\ DOMAIN ticketOf' = 1..k
      /\ DOMAIN ticketOf \subseteq DOMAIN ticketOf' /\ k \in DOMAIN ticketOf'
      /\ k # 0 /\ k \in Nat /\ k \in 0..MaxTickets
  <2>1. DOMAIN ticketOf = 1..Len(ticketOf) /\ Len(ticketOf) \in Nat
    BY <1>3
  <2>2. ticketOf' \in Seq(Device) /\ Len(ticketOf') = k
    BY <1>1, <1>2, <1>3
  <2>3. DOMAIN ticketOf' = 1..k
    BY <2>2
  <2> QED
    BY <1>1, <1>3, <2>1, <2>2, <2>3
<1> HIDE DEF k, d
<1>5. \A x \in Calls : x # c => call[x].pc # "load"
  BY <1>1, StartIsOver
<1>6. /\ SessionSound' /\ HandlersSound' /\ OnlyCall(c)
      /\ call'[c].pc \in {"idle", "ble"}
  <2>1. CASE call[c].op = "network"
    <3>1. /\ RecoverWith(k) /\ call' = [call EXCEPT ![c] = Idle]
          /\ screen' = IF screen = "pair" THEN "pair" ELSE "connecting"
      BY <2>1 DEF TicketReturns, k
    <3>2. /\ OnlyCall(c) /\ call'[c] = Idle
      BY <1>3, <3>1 DEF OnlyCall
    <3>3. HandlersSound'
      <4>1. PromptOf(call[c], Idle) /\ known' \subseteq known \cup Sent(call[c], Idle)
        BY <1>1, IdleCall DEF PromptOf
      <4>2. prompts' \in 0..MaxPrompts /\ prompts <= prompts'
        BY <1>1, <1>3
      <4> QED
        BY <3>1, <4>1, <4>2, IdleCall, PromptsStayNew
    <3>4. /\ lastTicket' = k /\ timer' = TRUE /\ online' = FALSE
          /\ UNCHANGED <<socket, pending, wire>>
          /\ screen' \in {"pair", "connecting"}
      BY <1>3, <3>1 DEF RecoverWith
    <3>5. SessionTypeOK'
      BY <1>1, <1>4, <3>4 DEF MInv, SessionSound, SessionTypeOK
    <3>6. SocketsSound'
      BY <1>4, <3>4 DEF MInv, SessionSound, SocketsSound, Live
    <3>7. PendingWillBeAsked' /\ PendingIsAsked'
      BY <1>1, <3>4 DEF MInv, SessionSound, PendingWillBeAsked, PendingIsAsked, IsOpen
    <3>8. KeepsTrying'
      BY <1>4, <3>4 DEF KeepsTrying, Trying
    <3>9. StartsAlone'
      BY <1>5, <3>2, IdleCall DEF StartsAlone, OnlyCall
    <3> QED
      BY <3>2, <3>3, <3>5, <3>6, <3>7, <3>8, <3>9, IdleCall DEF SessionSound
  <2>2. CASE call[c].op # "network"
    <3>1. PICK s \in Sockets : Connect(s, k, 0)
      BY <2>2 DEF TicketReturns, k
    <3>2. screen' = Shown(screen, FALSE) /\ call' = [call EXCEPT ![c] = j]
      BY <1>3, <2>2 DEF TicketReturns
    <3>3. j \in Call /\ j.op = call[c].op /\ j.pc = "ble" /\ j.token = 0
      BY <1>1, Bounds DEF Call
    <3> HIDE DEF j
    <3>4. OnlyCall(c) /\ call'[c] = j
      BY <1>3, <3>2 DEF OnlyCall
    <3>5. screen' \in {"pair", "connecting", "connected", "repair"}
      BY <1>3, <3>2, Screens
    <3>6. HandlersSound'
      <4>1. /\ PromptOf(call[c], j) /\ CallSound(j)
            /\ known' \subseteq known \cup Sent(call[c], j)
        BY <1>1, <3>3 DEF PromptOf, CallSound
      <4>2. prompts' \in 0..MaxPrompts /\ prompts <= prompts'
        BY <1>1, <1>3
      <4> QED
        BY <3>2, <3>3, <4>1, <4>2, PromptsStayNew
    <3>7. \A x \in Calls : call'[x].pc # "load"
      BY <1>5, <3>3, <3>4 DEF OnlyCall
    <3>8. SessionSound'
      <4>1. Len(ticketOf') <= MaxTickets /\ 0 \in 0..MaxPrompts
        BY <1>1, <1>4, Bounds
      <4>2. UNCHANGED <<spent, revoked, known, busy>>
        BY <1>1
      <4> QED
        BY <1>4, <3>1, <3>5, <3>7, <4>1, <4>2, ConnectKeeps
    <3> QED
      BY <3>3, <3>4, <3>6, <3>8
  <2> QED
    BY <2>1, <2>2
<1>7. ~Carries(call[c]) /\ ~Carries(call'[c]) /\ Plain(call'[c])
  BY <1>1, <1>6 DEF Carries, Plain, Brings
<1>8. \A x \in Calls : x # c => call'[x] = call[x]
  BY <1>6 DEF OnlyCall
<1>9. TokensKnown'
  <2>1. ASSUME NEW x \in Calls PROVE CallLegit(call[x])'
    <3>1. CASE x = c
      BY <1>6, <3>1 DEF CallLegit, Brings
    <3>2. CASE x # c
      BY <1>1, <1>8, <3>2
         DEF MInv, TokensSound, TokensKnown, CallLegit, Brings, auth, history
    <3> QED
      BY <3>1, <3>2
  <2> QED
    BY <1>1, <2>1 DEF MInv, TokensSound, TokensKnown, Legit, auth, history
<1>10. CarriedIsNewest'
  <2>1. call'[c].pc \notin {"refresh", "refreshed", "save"}
    BY <1>6
  <2>2. \A x \in Calls : Carries(call'[x]) =>
            /\ call'[x].token \notin used'
            /\ \A y \in Calls : call'[y].pc = "refresh" => call'[y].token # call'[x].token
    BY <1>1, <1>7, <1>8, <2>1 DEF MInv, TokensSound, CarriedIsNewest, auth
  <2>3. \A x \in Calls : call'[x].pc = "refreshed" /\ call'[x].token # 0 =>
            /\ registration' # call'[x].token
            /\ \A y \in Calls : y # x /\ call'[y].pc = "refreshed"
                                   => call'[y].token # call'[x].token
    BY <1>1, <1>8, <2>1 DEF MInv, TokensSound, CarriedIsNewest
  <2>4. (\E x \in Calls : call'[x].pc = "save") => registration' = 0 \/ (access' # 0 /\ fresh')
    BY <1>1, <1>8, <2>1 DEF MInv, TokensSound, CarriedIsNewest
  <2> QED
    BY <2>2, <2>3, <2>4 DEF CarriedIsNewest
<1>11. StoredTokenWorks'
  <2> SUFFICES ASSUME stored \in used, tokenOf[stored] \notin revoked \cup wasted
               PROVE  \E x \in Calls : /\ call'[x].pc \in {"refreshed", "save"}
                                       /\ call'[x].token # 0
                                       /\ tokenOf[call'[x].token] = tokenOf[stored]
    BY <1>1 DEF StoredTokenWorks, auth, history
  <2>1. PICK x \in Calls : /\ call[x].pc \in {"refreshed", "save"} /\ call[x].token # 0
                           /\ tokenOf[call[x].token] = tokenOf[stored]
    BY DEF MInv, TokensSound, StoredTokenWorks
  <2> QED
    BY <1>1, <1>8, <2>1
<1>12. TokensSound'
  BY <1>1, <1>9, <1>10, <1>11 DEF MInv, TokensSound, auth, history
<1> QED
  BY <1>6, <1>12 DEF MInv

LEMMA TicketFailsKeeps ==
    ASSUME MInv, NEW c \in Calls, TicketFails(c)
    PROVE  MInv'
<1>1. /\ call[c].pc = "ticket" /\ call[c] \in Call /\ UNCHANGED prompts
      /\ UNCHANGED <<memory, stored, auth, history, ticketOf, spent, revoked>>
      /\ revoked' \subseteq Device /\ revoked \subseteq revoked'
  BY DEF TicketFails, At, Untouched, MInv, HandlersSound, SessionSound, SessionTypeOK
<1>2. /\ Asks(c, call[c]) /\ Owes(call[c], call[c], Now) /\ ~Carries(call[c])
  BY <1>1, NowIsView DEF Asks, Owes, Carries
<1>3. \A x \in Calls : x # c => call[x].pc # "load"
  BY <1>1, StartIsOver
<1>4. Goes /\ OnlyCall(c) /\ call'[c].pc \in {"idle", "clear"}
  <2>1. CASE Fail(c, call[c], registration, Now)
    <3>1. Goes /\ OnlyCall(c) /\ call'[c] = Idle
      BY <1>1, <1>2, <1>3, <2>1, NowIsView, FailGoes
    <3> QED
      BY <3>1, IdleCall
  <2>2. CASE Refused(c)
    BY <1>1, <1>3, <2>2, RefusedGoes
  <2> QED
    BY <2>1, <2>2 DEF TicketFails
<1>5. Plain(call'[c]) /\ call' \in [Calls -> Call]
  BY <1>4 DEF Plain, Brings, Goes, HandlersSound
<1>6. TokensSound'
  BY <1>1, <1>2, <1>4, <1>5, UntouchedStays
<1> QED
  BY <1>4, <1>6 DEF MInv, Goes

LEMMA BleKeeps ==
    ASSUME MInv, NEW c \in Calls, BleReturns(c)
    PROVE  MInv'
<1> DEFINE v == [screen |-> "connected", busy |-> FALSE]
<1>1. /\ call[c].pc = "ble" /\ End(c, v) /\ UNCHANGED prompts
      /\ UNCHANGED <<memory, stored, auth, history, ticketOf, spent, revoked>>
      /\ revoked' \subseteq Device /\ revoked \subseteq revoked'
      /\ prompts' \in 0..MaxPrompts /\ prompts <= prompts'
  BY SessionBounds
     DEF BleReturns, At, Untouched, MInv, HandlersSound, SessionSound, SessionTypeOK
<1>2. v \in View /\ ~v.busy /\ v.screen = "connected"
  BY DEF View
<1> HIDE DEF v
<1>3. \A x \in Calls : x # c => call[x].pc # "load"
  BY <1>1, StartIsOver
<1>4. Goes /\ OnlyCall(c) /\ call'[c] = Idle
  BY <1>1, <1>2, <1>3, EndGoes
<1>5. Plain(call'[c]) /\ call' \in [Calls -> Call] /\ ~Carries(call[c])
  BY <1>1, <1>4, ProceedsIsPlain DEF Proceeds, Goes, HandlersSound, Carries
<1>6. TokensSound'
  BY <1>1, <1>4, <1>5, UntouchedStays
<1> QED
  BY <1>4, <1>6 DEF MInv, Goes

\* Storage and memory forget the registration.
LEMMA ClearKeeps ==
    ASSUME MInv, NEW c \in Calls, ClearReturns(c)
    PROVE  MInv'
<1> DEFINE j == [call[c] EXCEPT !.pc = "unlink"]
<1>1. /\ call[c].pc = "clear" /\ call[c] \in Call /\ Await(c, j, Now)
      /\ stored' = 0 /\ registration' = 0 /\ access' = 0 /\ fresh' = FALSE
      /\ ticketed' = FALSE /\ signedOut' = \A x \in Calls : ~MayRegister(x)
      /\ UNCHANGED <<prompts, devices, tokenOf, used, wasted, ticketOf, spent, revoked>>
      /\ revoked' \subseteq Device /\ prompts' \in 0..MaxPrompts /\ prompts <= prompts'
  BY SessionBounds
     DEF ClearReturns, At, Forgotten, auth, MInv, HandlersSound, SessionSound, SessionTypeOK
<1>2. j \in Call /\ j.op = call[c].op /\ j.pc = "unlink" /\ j.prompt = call[c].prompt
  BY <1>1 DEF Call
<1> HIDE DEF j
<1>3. /\ Owes(call[c], j, Now) /\ PromptOf(call[c], j) /\ CallSound(j) /\ j.pc # "load"
  BY <1>2, NowIsView DEF Owes, PromptOf, CallSound, Occupies, Connects
<1>4. \A x \in Calls : x # c => call[x].pc # "load"
  BY <1>1, StartIsOver
<1>5. Goes /\ OnlyCall(c) /\ call'[c] = j
  BY <1>1, <1>2, <1>3, <1>4, NowIsView, AwaitGoes
<1>6. \A x \in Calls : x # c => call'[x] = call[x]
  BY <1>5 DEF OnlyCall
<1>7. TokensKnown'
  <2>1. ASSUME NEW x \in Calls PROVE CallLegit(call[x])'
    <3>1. CASE x = c
      BY <1>2, <1>5, <3>1 DEF CallLegit, Brings
    <3>2. CASE x # c
      <4>1. Brings(call[x]) => ~signedOut'
        BY <1>1 DEF Brings, MayRegister
      <4> QED
        BY <1>1, <1>6, <3>2, <4>1 DEF MInv, TokensSound, TokensKnown, CallLegit, Brings
    <3> QED
      BY <3>1, <3>2
  <2> QED
    BY <1>1, <2>1 DEF MInv, TokensSound, TokensKnown, Legit
<1>8. CarriedIsNewest'
  <2>1. call'[c].pc \notin {"refresh", "refreshed", "save"} /\ ~Carries(call'[c])
    BY <1>2, <1>5 DEF Carries
  <2>2. \A x \in Calls : Carries(call'[x]) =>
            /\ call'[x].token \notin used
            /\ \A y \in Calls : call'[y].pc = "refresh" => call'[y].token # call'[x].token
    BY <1>6, <2>1 DEF MInv, TokensSound, CarriedIsNewest
  <2>3. \A x \in Calls : call'[x].pc = "refreshed" /\ call'[x].token # 0 =>
            \A y \in Calls : y # x /\ call'[y].pc = "refreshed"
                                => call'[y].token # call'[x].token
    BY <1>6, <2>1 DEF MInv, TokensSound, CarriedIsNewest
  <2> QED
    BY <1>1, <2>2, <2>3 DEF CarriedIsNewest
<1>9. 0 \notin used
  BY DEF MInv, TokensSound
<1>10. TokensSound'
  BY <1>1, <1>7, <1>8, <1>9, Bounds DEF MInv, TokensSound, StoredTokenWorks
<1> QED
  BY <1>5, <1>10 DEF MInv, Goes

\* The session lets go of its socket, and the app shows its buttons again.
LEMMA UnlinkKeeps ==
    ASSUME MInv, NEW c \in Calls, UnlinkReturns(c)
    PROVE  MInv'
<1>1. /\ call[c].pc = "unlink" /\ call' = [call EXCEPT ![c] = Idle]
      /\ UNCHANGED <<known, prompts>>
      /\ timer' = FALSE /\ online' = FALSE /\ socket' = NoSocket
      /\ UNCHANGED <<lastTicket, pending, wire>>
      /\ UNCHANGED <<memory, stored, auth, history, ticketOf, spent, revoked>>
      /\ revoked \subseteq revoked'
      /\ prompts' \in 0..MaxPrompts /\ prompts <= prompts'
  BY SessionBounds DEF UnlinkReturns, At, Disconnect, Untouched, MInv, HandlersSound
<1>2. /\ ~busy' /\ busy' \in BOOLEAN /\ screen' # "connecting"
      /\ screen' \in {"pair", "connecting", "connected", "repair"}
  BY FailedIsView DEF UnlinkReturns, Show, View
<1>3. /\ call'[c] = Idle /\ OnlyCall(c) /\ call' \in [Calls -> Call]
  BY <1>1, IdleCall DEF MInv, HandlersSound, OnlyCall
<1>4. \A x \in Calls : call'[x].pc # "load"
  BY <1>1, <1>3, StartIsOver, IdleCall DEF OnlyCall
<1>5. SessionTypeOK'
  BY <1>1, <1>2 DEF MInv, SessionSound, SessionTypeOK
<1>6. SocketsSound'
  BY <1>1 DEF MInv, SessionSound, SocketsSound, Live
<1>7. PendingWillBeAsked' /\ PendingIsAsked' /\ KeepsTrying' /\ StartsAlone'
  BY <1>1, <1>2, <1>4 DEF PendingWillBeAsked, PendingIsAsked, IsOpen, KeepsTrying, Trying, StartsAlone
<1>8. HandlersSound'
  <2>1. PromptOf(call[c], Idle) /\ known' \subseteq known \cup Sent(call[c], Idle)
    BY <1>1, IdleCall DEF PromptOf
  <2> QED
    BY <1>1, <2>1, IdleCall, PromptsStayNew
<1>9. Plain(call'[c]) /\ ~Carries(call[c])
  BY <1>1, <1>3, ProceedsIsPlain DEF Proceeds, Carries
<1>10. TokensSound'
  BY <1>1, <1>3, <1>9, UntouchedStays
<1> QED
  BY <1>5, <1>6, <1>7, <1>8, <1>10 DEF MInv, SessionSound

-----------------------------------------------------------------------------
(* The rest, and the theorems. *)

LEMMA SessionKeeps ==
    ASSUME MInv, SessionStep, UNCHANGED phone
    PROVE  MInv'
<1>1. SessionSound' /\ revoked \subseteq revoked' /\ UNCHANGED known
  BY SessionStepKeeps
<1>2. UNCHANGED <<registration, access, fresh, ticketed, stored, call, prompts, devices,
                  tokenOf, used, wasted, signedOut>>
  BY DEF phone, memory, auth, history
<1>3. HandlersSound'
  BY <1>1, <1>2 DEF MInv, HandlersSound, OpsMatch, PromptsAreNew
<1>4. TokensKnown' /\ CarriedIsNewest'
  BY <1>2 DEF MInv, TokensSound, TokensKnown, Legit, CallLegit, CarriedIsNewest
<1>5. StoredTokenWorks'
  BY <1>1, <1>2 DEF MInv, TokensSound, StoredTokenWorks
<1>6. TokensSound'
  BY <1>2, <1>4, <1>5 DEF MInv, TokensSound
<1> QED
  BY <1>1, <1>3, <1>6 DEF MInv

LEMMA ExpireKeeps ==
    ASSUME MInv, Expire
    PROVE  MInv'
<1>1. /\ fresh' = FALSE /\ \A c \in Calls : call[c].pc # "save"
      /\ UNCHANGED <<session, ui, wire, bridge, registration, access, ticketed, stored, call,
                     prompts, devices, tokenOf, used, wasted, signedOut>>
  BY DEF Expire, At, auth, history
<1>2. SessionSound'
  <2>1. SessionTypeOK' /\ SocketsSound'
    BY <1>1
       DEF MInv, SessionSound, SessionTypeOK, SocketsSound, Live, session, ui, bridge
  <2>2. PendingWillBeAsked' /\ PendingIsAsked'
    BY <1>1
       DEF MInv, SessionSound, PendingWillBeAsked, PendingIsAsked, IsOpen, session, bridge
  <2>3. KeepsTrying' /\ StartsAlone'
    BY <1>1 DEF MInv, SessionSound, KeepsTrying, Trying, StartsAlone, Live, session, ui
  <2> QED
    BY <2>1, <2>2, <2>3 DEF SessionSound
<1>3. HandlersSound'
  BY <1>1 DEF MInv, HandlersSound, OpsMatch, PromptsAreNew, bridge
<1>4. TokensKnown' /\ StoredTokenWorks'
  BY <1>1
     DEF MInv, TokensSound, TokensKnown, Legit, CallLegit, StoredTokenWorks, bridge
<1>5. CarriedIsNewest'
  BY <1>1 DEF MInv, TokensSound, CarriedIsNewest
<1>6. TokensSound'
  BY <1>1, <1>4, <1>5 DEF MInv, TokensSound
<1> QED
  BY <1>2, <1>3, <1>6 DEF MInv

\* What was on its way to storage is lost with the app.
LEMMA RestartKeeps ==
    ASSUME MInv, NEW c \in Calls, Restart(c)
    PROVE  MInv'
<1> DEFINE carriers == {x \in Calls : call[x].pc \in {"refreshed", "save"} /\ call[x].token # 0}
<1>1. /\ wasted' = wasted \cup {tokenOf[call[x].token] : x \in carriers}
      /\ call' = Booting(c) /\ registration' = 0 /\ access' = 0 /\ fresh' = FALSE
      /\ ticketed' = FALSE /\ lastTicket' = 0 /\ socket' = NoSocket /\ timer' = FALSE
      /\ pending' = 0 /\ online' = FALSE /\ screen' = "connecting" /\ busy' = TRUE
      /\ wire' = [s \in Sockets |-> Free] /\ signedOut' = FALSE
      /\ UNCHANGED <<ticketOf, spent, revoked, known, stored, prompts, devices, tokenOf, used>>
  BY DEF Restart, bridge, auth
<1>2. /\ call' \in [Calls -> Call] /\ call'[c].op = "connect" /\ call'[c].pc = "load"
      /\ \A x \in Calls : x # c => call'[x] = Idle
  <2>1. LET k == [Idle EXCEPT !.op = "connect", !.pc = "load"]
        IN  k \in Call /\ k.op = "connect" /\ k.pc = "load"
    BY Bounds DEF Idle, Call
  <2> QED
    BY <1>1, <2>1, IdleCall DEF Booting
<1>3. SessionSound'
  <2>1. SessionTypeOK'
    <3>1. wire' \in [Sockets -> Wire]
      BY <1>1, FreeWire
    <3> QED
      BY <1>1, <3>1, Bounds DEF MInv, SessionSound, SessionTypeOK
  <2>2. \A s \in Sockets : ~Live(s)' /\ wire'[s].phase # "opening"
    BY <1>1, FreeWire DEF Live
  <2>3. KeepsTrying'
    BY <1>2 DEF KeepsTrying, Trying, Occupies, Connects
  <2>4. StartsAlone'
    BY <1>1, <1>2, <2>2, IdleCall DEF StartsAlone
  <2> QED
    BY <1>1, <2>1, <2>2, <2>3, <2>4
       DEF SessionSound, SocketsSound, PendingWillBeAsked, PendingIsAsked, IsOpen
<1>4. HandlersSound'
  BY <1>1, <1>2, IdleCall DEF MInv, HandlersSound, OpsMatch, CallSound, PromptsAreNew
<1>5. TokensSound'
  <2>1. \A x \in Calls : call'[x].pc \in {"load", "idle"} /\ ~Carries(call'[x])
    BY <1>2, IdleCall DEF Carries
  <2>2. TokensKnown'
    BY <1>1, <2>1 DEF MInv, TokensSound, TokensKnown, Legit, CallLegit, Brings
  <2>3. CarriedIsNewest'
    BY <2>1 DEF CarriedIsNewest
  <2>4. wasted' \subseteq Device
    <3>1. ASSUME NEW x \in carriers PROVE tokenOf[call[x].token] \in Device
      <4>1. /\ call[x].token \in DOMAIN tokenOf /\ tokenOf \in Seq(1..devices)
            /\ devices \in 0..MaxDevices /\ MaxDevices \in Nat
        BY SessionBounds DEF MInv, TokensSound, TokensKnown, CallLegit
      <4>2. tokenOf[call[x].token] \in 1..devices
        BY <4>1
      <4> QED
        BY <4>1, <4>2 DEF Device
    <3> QED
      BY <1>1, <3>1 DEF MInv, TokensSound
  <2>5. StoredTokenWorks'
    <3>1. ASSUME stored \in used PROVE tokenOf[stored] \in revoked \cup wasted'
      BY <1>1, <3>1 DEF MInv, TokensSound, StoredTokenWorks
    <3> QED
      BY <1>1, <3>1 DEF StoredTokenWorks
  <2> QED
    BY <1>1, <2>2, <2>3, <2>4, <2>5, Bounds DEF MInv, TokensSound
<1> QED
  BY <1>3, <1>4, <1>5 DEF MInv

LEMMA ReturnKeeps ==
    ASSUME MInv, NEW c \in Calls, Return(c)
    PROVE  MInv'
  BY LoadKeeps, RegisterKeeps, RegisterFailsKeeps, AuthRefreshKeeps, RefreshReturnsKeeps,
     RefreshFailsKeeps, SaveKeeps, TicketKeeps, TicketFailsKeeps, BleKeeps, ClearKeeps,
     UnlinkKeeps
     DEF Return

LEMMA StutterKeeps ==
    ASSUME MInv, UNCHANGED vars
    PROVE  MInv'
<1>1. UNCHANGED <<session, ui, wire, bridge, call, prompts, registration, access, fresh,
                  ticketed, stored, devices, tokenOf, used, wasted, signedOut>>
  BY DEF vars, phone, memory, auth, history
<1>2. SessionTypeOK' /\ SocketsSound'
  BY <1>1
     DEF MInv, SessionSound, SessionTypeOK, SocketsSound, Live, session, ui, bridge
<1>3. PendingWillBeAsked' /\ PendingIsAsked'
  BY <1>1
     DEF MInv, SessionSound, PendingWillBeAsked, PendingIsAsked, IsOpen, session, bridge
<1>4. KeepsTrying' /\ StartsAlone'
  BY <1>1 DEF MInv, SessionSound, KeepsTrying, Trying, StartsAlone, Live, session, ui
<1>5. HandlersSound'
  BY <1>1 DEF MInv, HandlersSound, OpsMatch, PromptsAreNew, bridge
<1>6. TokensKnown' /\ StoredTokenWorks' /\ CarriedIsNewest'
  BY <1>1
     DEF MInv, TokensSound, TokensKnown, Legit, CallLegit, StoredTokenWorks,
         CarriedIsNewest, bridge
<1>7. TokensSound'
  BY <1>1, <1>6 DEF MInv, TokensSound
<1> QED
  BY <1>2, <1>3, <1>4, <1>5, <1>7 DEF MInv, SessionSound

LEMMA NextKeeps == MInv /\ [Next]_vars => MInv'
<1> SUFFICES ASSUME MInv, [Next]_vars PROVE MInv'
  OBVIOUS
<1>1. CASE SessionStep /\ UNCHANGED phone
  BY <1>1, SessionKeeps
<1>2. ASSUME NEW c \in Calls, Press(c) \/ NetworkUp(c) \/ Return(c) \/ Restart(c)
      PROVE  MInv'
  BY <1>2, PressKeeps, NetworkUpKeeps, ReturnKeeps, RestartKeeps, StutterKeeps
<1>3. CASE Expire
  BY <1>3, ExpireKeeps
<1>4. CASE UNCHANGED vars
  BY <1>4, StutterKeeps
<1> QED
  BY <1>1, <1>2, <1>3, <1>4 DEF Next

LEMMA Inductive == Spec => []MInv
  BY InitInv, NextKeeps, PTL DEF Spec

\* Every field of the phone, and of the bridge as the phone knows it, stays
\* in its range.
THEOREM CompanionTypeCorrect == Spec => []TypeOK
<1>1. MInv => TypeOK
  BY DEF MInv, SessionSound, HandlersSound, TokensSound, TypeOK
<1> QED
  BY <1>1, Inductive, PTL

\* On every socket that the phone uses, however often it reconnects, the
\* bridge was asked for the prompt that the phone still waits for.
THEOREM PromptsAreResumed == Spec => []PendingIsAsked
<1>1. MInv => PendingIsAsked
  BY DEF MInv, SessionSound
<1> QED
  BY <1>1, Inductive, PTL

\* However many handlers refresh and save at one time, storage does not go
\* back to a token that was rotated, unless its successor is on its way, or
\* was lost.
THEOREM StorageKeepsUp == Spec => []StoredTokenWorks
<1>1. MInv => StoredTokenWorks
  BY DEF MInv, TokensSound
<1> QED
  BY <1>1, Inductive, PTL

\* What storage was told to forget does not come back.
THEOREM ForgottenForGood == Spec => []SignedOutStaysOut
<1>1. MInv => SignedOutStaysOut
  BY DEF MInv, TokensSound, TokensKnown, Legit, SignedOutStaysOut
<1> QED
  BY <1>1, Inductive, PTL

\* However the events of several sockets interleave with the handlers, the
\* phone does not leave its user waiting without a handler under way, a socket
\* or a timer that holds a ticket.  That the ticket is good is not claimed.
THEOREM PhoneKeepsTrying == Spec => []KeepsTrying
<1>1. MInv => KeepsTrying
  BY DEF MInv, SessionSound
<1> QED
  BY <1>1, Inductive, PTL

=============================================================================
