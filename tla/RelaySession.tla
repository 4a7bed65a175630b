---------------------------- MODULE RelaySession ----------------------------
(***************************************************************************)
(* The phone's websocket session, with what the bridge's end of a socket   *)
(* does to it and what the app's listeners make of it.                     *)
(*                                                                         *)
(* A session may have more than one socket: connect leaves the old one to  *)
(* the bridge, which closes it when the new one opens.  The handlers of    *)
(* every socket work on the session's own fields, whichever socket those   *)
(* belong to by then.  Event ids, delays and texts are left out.           *)
(***************************************************************************)
EXTENDS Integers, Sequences

CONSTANTS
    Sockets,      \* the sockets that exist at one time
    NoSocket,     \* null
    MaxDevices,   \* bound on the devices that are registered
    MaxTickets,   \* bound on the tickets that are issued
    MaxPrompts    \* bound on the prompts that are written

ASSUME SessionBounds ==
    /\ MaxDevices \in Nat
    /\ MaxTickets \in Nat
    /\ MaxPrompts \in Nat
ASSUME NoSocketIsNoSocket == NoSocket \notin Sockets

VARIABLES
    lastTicket,   \* the ticket connect or replaceTicket got last, or 0
    socket,       \* this.socket
    timer,        \* reconnectTimer is set
    pending,      \* pendingPromptId, or 0
    online,       \* state.status is "connected"
    screen,       \* uiState.screen
    busy,         \* uiState.busy
    wire,         \* every socket, as the phone and the bridge see it
    ticketOf,     \* the device of each ticket the bridge issued
    spent,        \* the tickets the bridge consumed
    revoked,      \* the devices the bridge no longer serves
    known         \* the prompts the bridge got

session == <<lastTicket, socket, timer, pending, online>>
ui == <<screen, busy>>
bridge == <<ticketOf, spent, revoked, known>>

Device == 1..MaxDevices
Ticket == 1..MaxTickets
Prompt == 1..MaxPrompts

Free == [phase |-> "none", ticket |-> 0, device |-> 0, resumes |-> 0, greeted |-> FALSE,
         asked |-> {}]

\* `resumes' is the prompt that connect was given, `asked' are the prompts
\* the socket has carried to the bridge.
Wire == [phase : {"none", "opening", "open", "revoking"},
         ticket : 0..MaxTickets, device : 0..MaxDevices, resumes : 0..MaxPrompts, greeted : BOOLEAN,
         asked : SUBSET Prompt]

SessionTypeOK ==
    /\ lastTicket \in 0..MaxTickets
    /\ socket \in Sockets \cup {NoSocket}
    /\ timer \in BOOLEAN
    /\ pending \in 0..MaxPrompts
    /\ online \in BOOLEAN
    /\ screen \in {"pair", "connecting", "connected", "repair"}
    /\ busy \in BOOLEAN
    /\ wire \in [Sockets -> Wire]
    /\ ticketOf \in Seq(Device) /\ Len(ticketOf) <= MaxTickets
    /\ spent \subseteq DOMAIN ticketOf
    /\ revoked \subseteq Device
    /\ known \subseteq Prompt

SessionInit ==
    /\ lastTicket = 0
    /\ socket = NoSocket
    /\ timer = FALSE
    /\ pending = 0
    /\ online = FALSE
    /\ screen = "connecting"
    /\ busy = TRUE
    /\ wire = [s \in Sockets |-> Free]
    /\ ticketOf = <<>>
    /\ spent = {}
    /\ revoked = {}
    /\ known = {}

Live(s) == wire[s].phase # "none"

\* readyState is 1.
IsOpen(s) == s # NoSocket /\ wire[s].phase \in {"open", "revoking"}

\* Mutant of Shown: the screen is the status.
ShownStatus(scr, on) == IF on THEN "connected" ELSE "closed"

\* setState's listener: the screen that follows a screen and a status.
Shown(scr, on) ==
    IF scr \in {"pair", "repair"} THEN scr
    ELSE IF on THEN "connected" ELSE "connecting"

-----------------------------------------------------------------------------
(***************************************************************************)
(* The session's methods.  They are steps of the callers in MobileCompanion *)
(* and of the timer.                                                       *)
(***************************************************************************)

\* Mutant of Connect: the pending prompt is forgotten.
ConnectForgetful(s, k, p) ==
    /\ ~Live(s)
    /\ lastTicket' = k
    /\ pending' = p
    /\ timer' = FALSE
    /\ online' = FALSE
    /\ socket' = s
    /\ wire' = [wire EXCEPT ![s] = [Free EXCEPT !.phase = "opening",
                                                !.ticket = k]]

\* connect; s is the socket the factory makes.
Connect(s, k, p) ==
    /\ ~Live(s)
    /\ lastTicket' = k
    /\ pending' = p
    /\ timer' = FALSE
    /\ online' = FALSE
    /\ socket' = s
    /\ wire' = [wire EXCEPT ![s] = [Free EXCEPT !.phase = "opening",
                                                !.ticket = k, !.resumes = p]]

\* disconnect keeps the ticket.  The socket's close event is yet to come.
Disconnect ==
    /\ timer' = FALSE
    /\ online' = FALSE
    /\ socket' = NoSocket
    /\ UNCHANGED <<lastTicket, pending, wire>>

\* replaceTicket, then handleNetworkRecovered.
RecoverWith(k) ==
    /\ lastTicket' = k
    /\ timer' = TRUE
    /\ online' = FALSE
    /\ UNCHANGED <<socket, pending, wire>>

\* sendPrompt throws when the socket is not open, and keeps the prompt.  A
\* socket that onerror closes is not open, and yet its close event is to come.
SendThrows(p) ==
    /\ pending' = p
    /\ UNCHANGED <<lastTicket, socket, timer, online, wire, known>>

\* What is sent reaches the bridge, unless the connection is gone already.
SendGoesOut(p) ==
    /\ IsOpen(socket)
    /\ pending' = p
    /\ wire' = [wire EXCEPT ![socket].asked = @ \cup {p}]
    /\ known' \in {known, known \cup {p}}
    /\ UNCHANGED <<lastTicket, socket, timer, online>>

-----------------------------------------------------------------------------
(***************************************************************************)
(* Events of the sockets, and the timer.                                   *)
(***************************************************************************)

Serves(s) == /\ wire[s].ticket \notin spent
             /\ ticketOf[wire[s].ticket] \notin revoked

\* onopen sends its first message through this.socket.
SocketOpens(s) ==
    /\ wire[s].phase = "opening"
    /\ Serves(s)
    /\ spent' = spent \cup {wire[s].ticket}
    /\ LET opened == [wire EXCEPT ![s] = [Free EXCEPT !.phase = "open",
                                            !.device = ticketOf[wire[s].ticket]]]
           target == IF socket = s \/ IsOpen(socket) THEN socket ELSE NoSocket
           asks   == IF wire[s].resumes = 0 THEN {} ELSE {wire[s].resumes}
       IN  wire' = IF target = NoSocket THEN opened
                   ELSE [opened EXCEPT ![target].greeted = TRUE,
                                       ![target].asked = @ \cup asks]
    /\ UNCHANGED <<session, ui, ticketOf, revoked, known>>

Again(reconnectable) == reconnectable /\ lastTicket # 0

\* Mutant of Closed: a socket that is not the session's is followed by none.
ClosedQuietly(s, reconnectable) ==
    /\ wire' = [wire EXCEPT ![s] = Free]
    /\ socket' = NoSocket
    /\ timer' = (timer \/ (Again(reconnectable) /\ socket = s))
    /\ online' = FALSE
    /\ UNCHANGED <<lastTicket, pending>>

\* onclose, whichever socket it is that closed.
Closed(s, reconnectable) ==
    /\ wire' = [wire EXCEPT ![s] = Free]
    /\ socket' = NoSocket
    /\ timer' = (timer \/ Again(reconnectable))
    /\ online' = FALSE
    /\ UNCHANGED <<lastTicket, pending>>

\* A socket is refused, lost, replaced (4009), stale (4011), closed by a
\* restart (4010) or by the phone (1000).
SocketCloses(s) ==
    /\ Live(s)
    /\ Closed(s, TRUE)
    /\ \/ spent' = spent
       \/ /\ wire[s].phase = "opening"
          /\ Serves(s)
          /\ spent' = spent \cup {wire[s].ticket}
    /\ screen' = Shown(screen, FALSE)
    /\ UNCHANGED <<busy, ticketOf, revoked, known>>

\* "ready" answers hello and resume.
ReadyArrives(s) ==
    /\ IsOpen(s)
    /\ wire[s].greeted
    /\ busy' = FALSE
    /\ online' = TRUE
    /\ screen' = "connected"
    /\ UNCHANGED <<lastTicket, socket, timer, pending, wire, bridge>>

\* "reply.delta"
DeltaArrives(s) ==
    /\ IsOpen(s)
    /\ wire[s].asked \cap known # {}
    /\ screen' = Shown(screen, online)
    /\ UNCHANGED <<session, busy, wire, bridge>>

\* "reply.final"; the screen becomes "connected" and then what the status says.
FinalArrives(s, p) ==
    /\ IsOpen(s)
    /\ p \in wire[s].asked \cap known
    /\ pending' = IF p = pending THEN 0 ELSE pending
    /\ busy' = FALSE
    /\ screen' = Shown("connected", online)
    /\ UNCHANGED <<lastTicket, socket, timer, online, wire, bridge>>

\* "error", of which the prompt that is interrupted is one.
ErrorArrives(s) ==
    /\ IsOpen(s)
    /\ busy' = FALSE
    /\ screen' \in {screen, "repair"}
    /\ UNCHANGED <<session, wire, bridge>>

\* "revoked" and the close with 4003 right behind it.
RevokedArrives(s) ==
    /\ wire[s].phase = "revoking"
    /\ busy' = FALSE
    /\ screen' = "repair"
    /\ Closed(s, FALSE)
    /\ UNCHANGED bridge

\* The operator revokes a device; the bridge tells its socket.
Revoke(d) ==
    /\ d \notin revoked
    /\ revoked' = revoked \cup {d}
    /\ wire' = [s \in Sockets |->
           IF wire[s].phase = "open" /\ wire[s].device = d
           THEN [wire[s] EXCEPT !.phase = "revoking"] ELSE wire[s]]
    /\ UNCHANGED <<session, ui, ticketOf, spent, known>>

\* The reconnect timer.  The ticket is the one the session has, used or not.
TimerFires(s) ==
    /\ timer
    /\ lastTicket # 0
    /\ Connect(s, lastTicket, pending)
    /\ screen' = Shown(screen, FALSE)
    /\ UNCHANGED <<busy, bridge>>

SessionStep ==
    \/ \E s \in Sockets :
           \/ SocketOpens(s) \/ SocketCloses(s) \/ ReadyArrives(s)
           \/ DeltaArrives(s) \/ ErrorArrives(s) \/ RevokedArrives(s)
           \/ \E p \in Prompt : FinalArrives(s, p)
           \/ TimerFires(s)
    \/ \E d \in Device : Revoke(d)

-----------------------------------------------------------------------------
(***************************************************************************)
(* What should hold.                                                       *)
(***************************************************************************)

\* A prompt that the bridge has and the phone still waits for is asked about
\* on every socket the phone opens afterwards: on the one it uses, as soon as
\* that is open, the bridge has seen the prompt or the question for it.
PendingIsAsked ==
    (IsOpen(socket) /\ pending \in known) => pending \in wire[socket].asked

\* "App requests a new websocket ticket": no socket is made with a ticket
\* that has opened one before.
ReconnectsWithNewTicket ==
    \A s \in Sockets : wire[s].phase = "opening" => wire[s].ticket \notin spent

=============================================================================
