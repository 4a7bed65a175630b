-------------------------- MODULE MobileCompanion ---------------------------
(***************************************************************************)
(* The phone app: its buttons, its controller, secure storage, and the     *)
(* bridge's side of the calls it makes.                                    *)
(*                                                                         *)
(* A call is one run of an asynchronous handler of the app, from one wait  *)
(* to the next.  A button starts one unless the app is busy; a network     *)
(* that comes back always does.  A registration is known by the refresh    *)
(* token it holds.  The requests that pair a device are one wait, as are   *)
(* those to secure storage; what the glasses' radio does is a wait, too.   *)
(***************************************************************************)
EXTENDS RelaySession

CONSTANTS
    Calls,        \* the handlers that may run at one time
    MaxTokens,    \* bound on the refresh tokens that are issued
    MaxWork       \* bound on those tokens and the prompts together

ASSUME MobileBounds == MaxTokens \in Nat /\ MaxWork \in Nat

VARIABLES
    registration, \* this.registration, as its refresh token, or 0
    access,       \* the device of the access token, or 0
    fresh,        \* the access token does not expire soon
    ticketed,     \* latestTicket is set
    stored,       \* the registration in secure storage, or 0
    call,         \* the handlers that run
    prompts,      \* promptCounterRef
    devices,      \* how many devices the bridge registered
    tokenOf,      \* the device of each refresh token the bridge issued
    used,         \* the refresh tokens that were rotated
    wasted,       \* history: devices whose newest token never arrived
    signedOut     \* history: cleared, with no call that could undo it

memory == <<registration, access, fresh, ticketed>>
auth == <<devices, tokenOf, used>>
history == <<wasted, signedOut>>
phone == <<memory, stored, call, prompts, auth, history>>
vars == <<session, ui, wire, bridge, phone>>

Token == 1..MaxTokens

WithinBounds == Len(tokenOf') <= MaxTokens /\ prompts' + Len(tokenOf') <= MaxWork

Idle == [op |-> "none", pc |-> "idle", token |-> 0, prompt |-> 0]
\* Once it connects, it does not matter to a handler what it did before.
\* `token' is a device while a ticket is under way.
Call == [op : {"none", "pair", "connect", "refresh", "prompt", "repair",
               "network"},
         pc : {"idle", "load", "register", "refresh", "refreshed", "save",
               "ticket", "ble", "clear", "unlink"},
         token : 0..MaxTokens, prompt : 0..MaxPrompts]

TypeOK ==
    /\ SessionTypeOK
    /\ registration \in 0..MaxTokens
    /\ access \in 0..MaxDevices
    /\ fresh \in BOOLEAN
    /\ ticketed \in BOOLEAN
    /\ stored \in 0..MaxTokens
    /\ call \in [Calls -> Call]
    /\ prompts \in 0..MaxPrompts
    /\ devices \in 0..MaxDevices
    /\ tokenOf \in Seq(1..devices) /\ Len(tokenOf) <= MaxTokens
    /\ used \subseteq DOMAIN tokenOf
    /\ wasted \subseteq Device
    /\ signedOut \in BOOLEAN

Booting(c) ==
    [x \in Calls |-> IF x = c THEN [Idle EXCEPT !.op = "connect", !.pc = "load"]
                     ELSE Idle]

Init ==
    /\ SessionInit
    /\ registration = 0
    /\ access = 0
    /\ fresh = FALSE
    /\ ticketed = FALSE
    /\ stored = 0
    /\ \E c \in Calls : call = Booting(c)
    /\ prompts = 0
    /\ devices = 0
    /\ tokenOf = <<>>
    /\ used = {}
    /\ wasted = {}
    /\ signedOut = FALSE

-----------------------------------------------------------------------------
(***************************************************************************)
(* How a handler goes on.  k is the call and u what the screen shows, after *)
(* what the step did so far.                                               *)
(***************************************************************************)

Now == [screen |-> screen, busy |-> busy]
Show(u) == screen' = u.screen /\ busy' = u.busy

Await(c, k, u) ==
    /\ call' = [call EXCEPT ![c] = k]
    /\ Show(u)
    /\ UNCHANGED <<session, wire, known>>

End(c, u) == Await(c, Idle, u)

\* The catch of a handler, when repairFromError does not clear.
Failed(reg, u) ==
    [screen |-> IF reg = 0 THEN "pair" ELSE "repair", busy |-> FALSE]

Fail(c, k, reg, u) ==
    End(c, IF k.op = "network" THEN u ELSE Failed(reg, u))

\* The same when the bridge says that the device must be paired again.
Refused(c) ==
    IF call[c].op = "network" THEN End(c, Now)
    ELSE Await(c, [Idle EXCEPT !.op = "connect", !.pc = "clear"], Now)

\* The session is fresh: connect, reconnectAfterNetworkRecovery, sendPrompt
\* and refreshSession go their ways.
Proceed(c, k, u) ==
    CASE k.op = "connect" ->
            Await(c, [k EXCEPT !.pc = "ticket", !.token = access], u)
      [] k.op = "network" ->
            IF ~ticketed \/ registration = 0 THEN End(c, u)
            ELSE Await(c, [k EXCEPT !.pc = "ticket", !.token = access], u)
      [] k.op = "prompt" ->
            /\ call' = [call EXCEPT ![c] = Idle]
            /\ \/ SendGoesOut(k.prompt) /\ Show(u)
               \/ SendThrows(k.prompt) /\ Show(Failed(registration, u))
      [] k.op = "refresh" ->
            End(c, [u EXCEPT !.busy = FALSE])

\* requireRegistration and ensureFreshSession up to its wait.  There is no
\* single flight: every call that finds no fresh token asks for one.
EnsureFresh(c, k, reg, u) ==
    IF reg = 0 THEN Fail(c, k, reg, u)
    ELSE IF access # 0 /\ fresh THEN Proceed(c, k, u)
    ELSE Await(c, [k EXCEPT !.pc = "refresh", !.token = reg], u)

-----------------------------------------------------------------------------
(***************************************************************************)
(* The buttons, and the network listener.                                  *)
(***************************************************************************)

Pressed(c) == call[c] = Idle /\ ~busy

Pressing(op) == [Idle EXCEPT !.op = op]

Untouched == UNCHANGED <<memory, stored, auth, history, ticketOf,
                         spent, revoked>>

SubmitPairing(c) ==
    /\ Pressed(c)
    /\ screen = "pair"
    /\ Await(c, [Pressing("pair") EXCEPT !.pc = "register"],
             [screen |-> "connecting", busy |-> TRUE])
    /\ UNCHANGED prompts
    /\ Untouched

Reconnect(c) ==
    /\ Pressed(c)
    /\ screen \in {"connected", "repair"}
    /\ EnsureFresh(c, Pressing("connect"), registration,
                   [screen |-> "connecting", busy |-> TRUE])
    /\ UNCHANGED prompts
    /\ Untouched

RefreshSession(c) ==
    /\ Pressed(c)
    /\ screen \in {"connected", "repair"}
    /\ EnsureFresh(c, Pressing("refresh"), registration,
                   [screen |-> screen, busy |-> TRUE])
    /\ UNCHANGED prompts
    /\ Untouched

SendPrompt(c) ==
    /\ Pressed(c)
    /\ screen = "connected"
    /\ prompts < MaxPrompts
    /\ prompts' = prompts + 1
    /\ EnsureFresh(c, [Pressing("prompt") EXCEPT !.prompt = prompts + 1],
                   registration, [screen |-> screen, busy |-> TRUE])
    /\ Untouched
    /\ WithinBounds

Repair(c) ==
    /\ Pressed(c)
    /\ screen = "repair"
    /\ Await(c, [Pressing("repair") EXCEPT !.pc = "clear"],
             [screen |-> screen, busy |-> TRUE])
    /\ UNCHANGED prompts
    /\ Untouched

\* NetInfo says that there is a network, as it also does at the start.
NetworkUp(c) ==
    /\ call[c] = Idle
    /\ EnsureFresh(c, Pressing("network"), registration, Now)
    /\ UNCHANGED prompts
    /\ Untouched

-----------------------------------------------------------------------------
(***************************************************************************)
(* What a handler waited for.                                              *)
(***************************************************************************)

At(c, pc) == call[c].pc = pc

\* restore
LoadReturns(c) ==
    /\ At(c, "load")
    /\ registration' = stored
    /\ IF stored = 0 THEN End(c, [screen |-> "pair", busy |-> FALSE])
       ELSE EnsureFresh(c, call[c], stored, [screen |-> "connecting", busy |-> TRUE])
    /\ UNCHANGED <<access, fresh, ticketed, stored, prompts, auth,
                   history, ticketOf, spent, revoked>>

\* pair: the code is redeemed and a device registered.
RegisterReturns(c) ==
    /\ At(c, "register")
    /\ devices < MaxDevices
    /\ devices' = devices + 1
    /\ tokenOf' = Append(tokenOf, devices')
    /\ access' = devices'
    /\ fresh' = TRUE
    /\ registration' = Len(tokenOf')
    /\ signedOut' = FALSE
    /\ Await(c, [call[c] EXCEPT !.pc = "save", !.token = Len(tokenOf')], Now)
    /\ UNCHANGED <<ticketed, stored, prompts, used, wasted, ticketOf,
                   spent, revoked>>
    /\ WithinBounds

RegisterFails(c) ==
    /\ At(c, "register")
    /\ Fail(c, call[c], registration, Now)
    /\ UNCHANGED prompts
    /\ Untouched

\* The bridge takes a refresh request.
AuthRefresh(c) ==
    LET t == call[c].token
        d == tokenOf[t]
    IN  /\ At(c, "refresh")
        /\ \/ /\ d \notin revoked
              /\ t \notin used
              /\ tokenOf' = Append(tokenOf, d)
              /\ used' = used \cup {t}
              /\ revoked' = revoked
              /\ Await(c, [call[c] EXCEPT !.pc = "refreshed",
                                          !.token = Len(tokenOf')], Now)
           \/ /\ d \in revoked \/ t \in used
              /\ revoked' = revoked \cup {d}
              /\ Await(c, [call[c] EXCEPT !.pc = "refreshed", !.token = 0], Now)
              /\ UNCHANGED <<tokenOf, used>>
        /\ UNCHANGED <<memory, stored, prompts, devices, history,
                       ticketOf, spent>>
        /\ WithinBounds

\* Mutant of Kept: the registration keeps the token it was refreshed with.
KeptOld(t) == IF registration = 0 THEN t ELSE registration

\* The registration that a refresh makes.
Kept(t) == t

RefreshReturns(c) ==
    /\ At(c, "refreshed")
    /\ IF call[c].token = 0
       THEN Refused(c) /\ UNCHANGED memory
       ELSE /\ access' = tokenOf[call[c].token]
            /\ fresh' = TRUE
            /\ registration' = Kept(call[c].token)
            /\ Await(c, [call[c] EXCEPT !.pc = "save", !.token = registration'],
                     Now)
            /\ UNCHANGED ticketed
    /\ UNCHANGED <<stored, prompts, auth, history, ticketOf, spent,
                   revoked>>

\* The request or its answer is lost.
RefreshFails(c) ==
    /\ call[c].pc \in {"refresh", "refreshed"}
    /\ wasted' = IF At(c, "refreshed") /\ call[c].token # 0
                 THEN wasted \cup {tokenOf[call[c].token]} ELSE wasted
    /\ Fail(c, call[c], registration, Now)
    /\ UNCHANGED <<memory, stored, prompts, auth, signedOut, ticketOf,
                   spent, revoked>>

SaveReturns(c) ==
    /\ At(c, "save")
    /\ stored' = call[c].token
    /\ IF call[c].op = "pair"
       THEN EnsureFresh(c, [call[c] EXCEPT !.op = "connect"], registration, Now)
       ELSE Proceed(c, call[c], Now)
    /\ UNCHANGED <<memory, prompts, auth, history, ticketOf, spent,
                   revoked>>

\* issueWebSocketTicket, and what the controller does with the ticket.
TicketReturns(c) ==
    LET k == Len(ticketOf) + 1
        d == call[c].token
    IN  /\ At(c, "ticket")
        /\ d # 0
        /\ d \notin revoked
        /\ k <= MaxTickets
        /\ ticketOf' = Append(ticketOf, d)
        /\ ticketed' = TRUE
        /\ IF call[c].op = "network"
           THEN /\ RecoverWith(k)
                /\ screen' = IF screen = "pair" THEN "pair" ELSE "connecting"
                /\ call' = [call EXCEPT ![c] = Idle]
           ELSE /\ \E s \in Sockets : Connect(s, k, 0)
                /\ screen' = Shown(screen, FALSE)
                /\ call' = [call EXCEPT ![c].pc = "ble", ![c].token = 0]
        /\ UNCHANGED <<busy, registration, access, fresh, stored, prompts, auth,
                       history, spent, revoked, known>>

TicketFails(c) ==
    /\ At(c, "ticket")
    /\ \/ Fail(c, call[c], registration, Now)
       \/ call[c].token \in revoked /\ Refused(c)
    /\ UNCHANGED prompts
    /\ Untouched

\* bleBridge.connect never rejects.
BleReturns(c) ==
    /\ At(c, "ble")
    /\ End(c, [screen |-> "connected", busy |-> FALSE])
    /\ UNCHANGED prompts
    /\ Untouched

\* Another handler may still bring a registration.
MayRegister(c) == call[c].pc \in {"load", "register", "refresh", "refreshed", "save"}

\* Mutant of Forgotten: the registration stays in memory.
ForgottenInStoreOnly == registration

\* clearRegistration's "this.registration = null".
Forgotten == 0

\* clearRegistration up to its second wait.
ClearReturns(c) ==
    /\ At(c, "clear")
    /\ stored' = 0
    /\ registration' = Forgotten
    /\ access' = 0
    /\ fresh' = FALSE
    /\ ticketed' = FALSE
    /\ signedOut' = \A x \in Calls : ~MayRegister(x)
    /\ Await(c, [call[c] EXCEPT !.pc = "unlink"], Now)
    /\ UNCHANGED <<prompts, auth, wasted, ticketOf, spent, revoked>>

\* Its rest, and the rest of the handler that called it.
UnlinkReturns(c) ==
    /\ At(c, "unlink")
    /\ Disconnect
    /\ call' = [call EXCEPT ![c] = Idle]
    /\ Show(IF call[c].op = "repair" THEN Failed(0, Now)
            ELSE Failed(registration, Now))
    /\ UNCHANGED <<known, prompts>>
    /\ Untouched

-----------------------------------------------------------------------------

\* A token outlives every write to secure storage by far.
Expire ==
    /\ fresh
    /\ \A c \in Calls : ~At(c, "save")
    /\ fresh' = FALSE
    /\ UNCHANGED <<session, ui, wire, bridge, registration, access,
                   ticketed, stored, call, prompts, auth, history>>

\* The app dies and is started again: secure storage and the bridge remain.
Restart(c) ==
    /\ wasted' = wasted \cup {tokenOf[call[x].token] : x \in
           {y \in Calls : call[y].pc \in {"refreshed", "save"} /\ call[y].token # 0}}
    /\ call' = Booting(c)
    /\ registration' = 0
    /\ access' = 0
    /\ fresh' = FALSE
    /\ ticketed' = FALSE
    /\ lastTicket' = 0
    /\ socket' = NoSocket
    /\ timer' = FALSE
    /\ pending' = 0
    /\ online' = FALSE
    /\ screen' = "connecting"
    /\ busy' = TRUE
    /\ wire' = [s \in Sockets |-> Free]
    /\ signedOut' = FALSE
    /\ UNCHANGED <<bridge, stored, prompts, auth>>

Press(c) ==
    \/ SubmitPairing(c) \/ Reconnect(c) \/ RefreshSession(c)
    \/ SendPrompt(c) \/ Repair(c)

Return(c) ==
    \/ LoadReturns(c) \/ RegisterReturns(c) \/ RegisterFails(c)
    \/ AuthRefresh(c) \/ RefreshReturns(c) \/ RefreshFails(c) \/ SaveReturns(c)
    \/ TicketReturns(c) \/ TicketFails(c) \/ BleReturns(c)
    \/ ClearReturns(c) \/ UnlinkReturns(c)

Next ==
    \/ SessionStep /\ UNCHANGED phone
    \/ \E c \in Calls : Press(c) \/ NetworkUp(c) \/ Return(c) \/ Restart(c)
    \/ Expire

Spec == Init /\ [][Next]_vars

-----------------------------------------------------------------------------
(***************************************************************************)
(* What should hold.                                                       *)
(***************************************************************************)

\* The registration in secure storage is of use: its refresh token was not
\* rotated, or the next one is on its way to the storage, or the bridge wants
\* the device paired again, or the next one was lost with an answer or with
\* the app.
StoredTokenWorks ==
    stored \in used =>
        \/ tokenOf[stored] \in revoked \cup wasted
        \/ \E c \in Calls :
               /\ call[c].pc \in {"refreshed", "save"}
               /\ call[c].token # 0
               /\ tokenOf[call[c].token] = tokenOf[stored]

\* The credentials of a phone that was told to forget them do not come back
\* into secure storage before it is paired again, unless a handler with a
\* registration of its own was still waiting.
SignedOutStaysOut == signedOut => stored = 0

\* A handler that leaves the app idle when it ends, and one that then leaves
\* a screen with buttons.
Occupies(k) == k.op \notin {"none", "network"}
Connects(k) == k.op \in {"pair", "connect"}

\* A socket is opening or open, or the timer will try the ticket it has.
Trying == (timer /\ lastTicket # 0) \/ \E s \in Sockets : Live(s)

\* The phone does not give up while its user can only wait: as long as it is
\* busy, or shows "connecting", which has no buttons, one of its handlers is
\* still to end that or the session goes on trying, in whatever order the
\* close events of older and newer sockets come.  Whether trying helps is
\* another matter: with a spent ticket it does not (ReconnectsWithNewTicket),
\* and only a network event or a restart of the app ends the wait.
KeepsTrying ==
    /\ busy => Trying \/ \E c \in Calls : Occupies(call[c])
    /\ screen = "connecting" => Trying \/ \E c \in Calls : Connects(call[c])

=============================================================================
