------------------------- MODULE GlassesController -------------------------
(***************************************************************************)
(* The app on the glasses: its buttons and gestures, its controller, the   *)
(* host's local storage, and what the bridge does with its requests.       *)
(*                                                                         *)
(* A call is one run of an asynchronous method of the controller, from one *)
(* wait to the next; nothing keeps a second one from starting.  A          *)
(* registration is known by its refresh token.  The requests that pair a   *)
(* device are one wait, as are those to local storage.  Events of the host *)
(* come between waits: what a rejected fetch sets off is over before the   *)
(* next one.                                                               *)
(***************************************************************************)
EXTENDS Integers, Sequences

CONSTANTS
    Calls,        \* the methods that may run at one time
    NoCall,       \* null
    MaxTokens,    \* bound on the refresh tokens that are issued
    MaxPrompts,   \* bound on the prompts that are written
    MaxWork       \* bound on those tokens and prompts together

ASSUME GlassesBounds == MaxTokens \in Nat /\ MaxPrompts \in Nat /\ MaxWork \in Nat
ASSUME NoCallIsNoCall == NoCall \notin Calls

VARIABLES
    snapshot,     \* this.snapshot
    access,       \* the device of the access token, or 0
    controller,   \* the call that made currentAbortController, or null
    backgrounded,
    legacy,       \* hasLegacyConfig
    stored,       \* the registration in local storage, or 0
    call,         \* the methods that run
    prompts,      \* how many prompts were written
    tokenOf,      \* the device of each refresh token the bridge issued
    used,         \* the refresh tokens that were rotated
    revoked,      \* the devices the bridge no longer serves
    forgotten,    \* history: repaired, with no call that could undo it
    cancelled     \* history: the prompts a double click cancelled since the start

bridge == <<tokenOf, used, revoked>>
history == <<forgotten, cancelled>>
vars == <<snapshot, access, controller, backgrounded, legacy, stored, call,
          prompts, bridge, history>>

WithinBounds == Len(tokenOf') <= MaxTokens /\ prompts' + Len(tokenOf') <= MaxWork

Token == 1..MaxTokens
Prompt == 1..MaxPrompts
\* A device has one token at least.
Device == Token

\* `fresh' says that the access token does not expire soon; `shown' is the
\* prompt of the last reply.
Snapshot == [status : {"booting", "unpaired", "pairing", "connected",
                       "request_in_progress", "repair_required",
                       "reconnect_needed"},
             mode : {"none", "paired_v1", "legacy_v0"},
             registration : 0..MaxTokens, fresh : BOOLEAN,
             pending : 0..MaxPrompts, shown : 0..MaxPrompts]

Idle == [op |-> "none", pc |-> "idle", token |-> 0, prompt |-> 0,
         aborted |-> FALSE]
\* `token' is a device while a turn is under way.
Call == [op : {"none", "boot", "pair", "resume", "direct", "refresh", "prompt",
               "retry", "legacy", "repair"},
         pc : {"idle", "load", "register", "refresh", "refreshed", "save",
               "health", "turn", "clear"},
         token : 0..MaxTokens, prompt : 0..MaxPrompts, aborted : BOOLEAN]

TypeOK ==
    /\ snapshot \in Snapshot
    /\ access \in 0..MaxTokens
    /\ controller \in Calls \cup {NoCall}
    /\ backgrounded \in BOOLEAN
    /\ legacy \in BOOLEAN
    /\ stored \in 0..MaxTokens
    /\ call \in [Calls -> Call]
    /\ prompts \in 0..MaxPrompts
    /\ tokenOf \in Seq(Device) /\ Len(tokenOf) <= MaxTokens
    /\ used \subseteq DOMAIN tokenOf
    /\ revoked \subseteq Device
    /\ forgotten \in BOOLEAN
    /\ cancelled \subseteq Prompt

Blank == [status |-> "booting", mode |-> "none", registration |-> 0,
          fresh |-> FALSE, pending |-> 0, shown |-> 0]

Booting(c) ==
    [x \in Calls |-> IF x = c THEN [Idle EXCEPT !.op = "boot", !.pc = "load"]
                     ELSE Idle]

Init ==
    /\ snapshot = Blank
    /\ access = 0
    /\ controller = NoCall
    /\ backgrounded = FALSE
    /\ legacy \in BOOLEAN
    /\ stored = 0
    /\ \E c \in Calls : call = Booting(c)
    /\ prompts = 0
    /\ tokenOf = <<>>
    /\ used = {}
    /\ revoked = {}
    /\ forgotten = FALSE
    /\ cancelled = {}

-----------------------------------------------------------------------------
(***************************************************************************)
(* What the snapshot becomes.                                              *)
(***************************************************************************)

Reachable(s) == s.registration # 0 \/ legacy

ModeOf(s) ==
    IF s.registration # 0 THEN "paired_v1"
    ELSE IF legacy THEN "legacy_v0" ELSE "none"

Unpaired(s) == [s EXCEPT !.status = "unpaired"]

Connected(s, m) == [s EXCEPT !.status = "connected", !.mode = m]

\* Mutant of Suspended: a status of its own, which no screen knows.
SuspendedByName(s) ==
    [s EXCEPT !.status = IF Reachable(s) THEN "backgrounded" ELSE "unpaired"]

\* What the exits of the host make of it.
Suspended(s) ==
    [s EXCEPT !.status = IF Reachable(s) THEN "reconnect_needed" ELSE "unpaired"]

\* handleOperationalError, when the bridge does not want the device repaired.
OperationalError(s) == [Suspended(s) EXCEPT !.mode = ModeOf(s)]

RepairRequired(s) == [s EXCEPT !.status = "repair_required"]

\* Mutant of Interrupted: the catch of an AbortError leaves the status alone.
InterruptedSilently(s, b) == s

\* The catch of sendPrompt for an AbortError; b is this.backgrounded.
Interrupted(s, b) ==
    [s EXCEPT !.status = IF b THEN "reconnect_needed" ELSE "connected"]

\* A reply arrived.
Answered(s, p) ==
    [Connected(s, IF s.registration # 0 THEN "paired_v1" ELSE "legacy_v0")
        EXCEPT !.pending = 0, !.shown = p]

-----------------------------------------------------------------------------
(***************************************************************************)
(* How a method goes on.                                                   *)
(***************************************************************************)

At(c, pc) == call[c].pc = pc

Prompting(c) == call[c].op \in {"prompt", "retry", "legacy"}

Await(c, k, s) ==
    /\ call' = [call EXCEPT ![c] = k]
    /\ snapshot' = s

\* Whoever the controller belongs to, a prompt that ends drops it.
Ends(c, s) ==
    /\ call' = [call EXCEPT ![c] = Idle]
    /\ snapshot' = s
    /\ controller' = IF Prompting(c) THEN NoCall ELSE controller

Fails(c) == Ends(c, OperationalError(snapshot))

\* The session is fresh: resumeStoredSession, refreshCurrentSession,
\* sendPairedTurn and sendTurnWithRetry go their ways.  An aborted signal
\* rejects the request before it is sent.
Proceed(c, k, s) ==
    CASE k.op = "resume" ->
            Await(c, [k EXCEPT !.pc = "health", !.token = 0], s)
            /\ UNCHANGED controller
      [] k.op = "refresh" ->
            Ends(c, [s EXCEPT !.status = "connected"])
      [] k.op \in {"prompt", "retry"} ->
            IF k.aborted THEN Ends(c, Interrupted(s, backgrounded))
            ELSE /\ Await(c, [k EXCEPT !.pc = "turn", !.token = access], s)
                 /\ UNCHANGED controller

\* refreshAccessToken up to its first wait.
StartRefresh(c, k, s) ==
    /\ s.registration # 0
    /\ Await(c, [k EXCEPT !.pc = "refresh", !.token = s.registration], s)

\* resumeStoredSession and resumeLegacySession, as handleForegroundEnter and
\* reconnect choose between them.
Resume(c) ==
    LET k == [Idle EXCEPT !.op = "resume"]
        s == [snapshot EXCEPT !.status = "booting"]
    IN  IF snapshot.registration # 0
        THEN IF access # 0 /\ snapshot.fresh THEN Proceed(c, k, s)
             ELSE StartRefresh(c, k, s) /\ UNCHANGED controller
        ELSE /\ IF legacy
                THEN Await(c, [k EXCEPT !.op = "direct", !.pc = "health"],
                           [s EXCEPT !.mode = "legacy_v0"])
                ELSE snapshot' = Unpaired(snapshot) /\ UNCHANGED call
             /\ UNCHANGED controller

\* currentAbortController.abort().  A turn ends at once: with an AbortError,
\* or, when its answer was being read, with an error of another kind.  A
\* refresh has no signal, and its call goes on.
Abort(s, b) ==
    /\ controller' = NoCall
    /\ IF controller = NoCall THEN snapshot' = s /\ UNCHANGED call
       ELSE IF At(controller, "turn")
       THEN /\ call' = [call EXCEPT ![controller] = Idle]
            /\ snapshot' \in {Interrupted(s, b), OperationalError(s)}
       ELSE /\ call' = [call EXCEPT ![controller].aborted = TRUE]
            /\ snapshot' = s

-----------------------------------------------------------------------------
(***************************************************************************)
(* Buttons and gestures.                                                   *)
(***************************************************************************)

Starts(c) == call[c] = Idle

Elsewhere == UNCHANGED <<access, legacy, stored, bridge, forgotten>>

SubmitPairing(c) ==
    /\ Starts(c)
    /\ snapshot.status # "pairing"
    /\ Await(c, [Idle EXCEPT !.op = "pair", !.pc = "register"],
             [snapshot EXCEPT !.status = "pairing"])
    /\ UNCHANGED <<controller, backgrounded, prompts, cancelled>>
    /\ Elsewhere

HandleForegroundEnter(c) ==
    /\ Starts(c)
    /\ backgrounded' = FALSE
    /\ Resume(c)
    /\ UNCHANGED <<prompts, cancelled>>
    /\ Elsewhere

HandleForegroundExit ==
    /\ backgrounded' = TRUE
    /\ Abort(Suspended(snapshot), TRUE)
    /\ UNCHANGED <<prompts, cancelled>>
    /\ Elsewhere

HandleAbnormalExit ==
    /\ Abort(Suspended(snapshot), backgrounded)
    /\ UNCHANGED <<backgrounded, prompts, cancelled>>
    /\ Elsewhere

Reconnect(c) ==
    /\ Starts(c)
    /\ snapshot.registration # 0 \/ snapshot.mode = "legacy_v0"
    /\ snapshot.status # "pairing"
    /\ Resume(c)
    /\ UNCHANGED <<backgrounded, prompts, cancelled>>
    /\ Elsewhere

RefreshCurrentSession(c) ==
    /\ Starts(c)
    /\ snapshot.mode = "paired_v1"
    /\ snapshot.status # "pairing"
    /\ StartRefresh(c, [Idle EXCEPT !.op = "refresh"], snapshot)
    /\ UNCHANGED <<controller, backgrounded, prompts, cancelled>>
    /\ Elsewhere

\* A click.
SendPrompt(c) ==
    LET p == IF snapshot.pending # 0 THEN snapshot.pending ELSE prompts + 1
        s == [snapshot EXCEPT !.status = "request_in_progress", !.pending = p]
        k == [Idle EXCEPT !.op = "prompt", !.prompt = p]
    IN  /\ Starts(c)
        /\ Reachable(snapshot)
        /\ controller = NoCall
        /\ p <= MaxPrompts
        /\ controller' = c
        /\ prompts' = IF p > prompts THEN p ELSE prompts
        /\ IF snapshot.registration = 0
           THEN Await(c, [k EXCEPT !.op = "legacy", !.pc = "turn"], s)
           ELSE IF access # 0 /\ snapshot.fresh
           THEN Await(c, [k EXCEPT !.pc = "turn", !.token = access], s)
           ELSE StartRefresh(c, k, s)
        /\ UNCHANGED <<backgrounded, cancelled>>
        /\ Elsewhere
        /\ WithinBounds

SendUnpaired ==
    /\ ~Reachable(snapshot)
    /\ snapshot' = Unpaired(snapshot)
    /\ UNCHANGED <<controller, backgrounded, call, prompts, cancelled>>
    /\ Elsewhere

\* A double click.
CancelOrReturnIdle ==
    /\ IF controller # NoCall
       THEN /\ cancelled' = cancelled \cup {call[controller].prompt}
            /\ Abort([snapshot EXCEPT !.status = "connected", !.pending = 0],
                     backgrounded)
       ELSE /\ snapshot' = [snapshot EXCEPT
                  !.status = IF Reachable(snapshot) THEN "connected" ELSE "unpaired",
                  !.mode = ModeOf(snapshot)]
            /\ UNCHANGED <<controller, call, cancelled>>
    /\ UNCHANGED <<backgrounded, prompts>>
    /\ Elsewhere

\* repair up to its wait.
Repair(c) ==
    /\ Starts(c)
    /\ snapshot.status # "pairing"
    /\ Await(c, [Idle EXCEPT !.op = "repair", !.pc = "clear"], snapshot)
    /\ UNCHANGED <<controller, backgrounded, prompts, cancelled>>
    /\ Elsewhere

\* The token is typed or wiped out.
SetLegacyBridgeToken ==
    /\ legacy' = ~legacy
    /\ UNCHANGED <<snapshot, access, controller, backgrounded, stored, call,
                   prompts, bridge, history>>

-----------------------------------------------------------------------------
(***************************************************************************)
(* What a method waited for.                                               *)
(***************************************************************************)

Aside == UNCHANGED <<backgrounded, legacy, prompts, cancelled>>

\* boot
LoadReturns(c) ==
    LET k == [Idle EXCEPT !.op = "resume"]
        s == [snapshot EXCEPT !.status = "booting", !.registration = stored]
    IN  /\ At(c, "load")
        /\ IF stored # 0
           THEN IF access # 0 /\ snapshot.fresh THEN Proceed(c, k, s)
                ELSE StartRefresh(c, k, s) /\ UNCHANGED controller
           ELSE IF legacy
           THEN /\ Await(c, [k EXCEPT !.op = "direct", !.pc = "health"],
                         [snapshot EXCEPT !.status = "booting",
                                          !.mode = "legacy_v0"])
                /\ UNCHANGED controller
           ELSE Ends(c, [Unpaired(s) EXCEPT !.mode = "none"])
        /\ UNCHANGED <<access, stored, bridge, forgotten>>
        /\ Aside

\* submitPairing: the code is redeemed and a device registered.
RegisterReturns(c) ==
    LET t == Len(tokenOf) + 1
    IN  /\ At(c, "register")
        /\ tokenOf' = Append(tokenOf, t)
        /\ access' = t
        /\ forgotten' = FALSE
        /\ Await(c, [call[c] EXCEPT !.pc = "save", !.token = t], snapshot)
        /\ UNCHANGED <<controller, stored, used, revoked>>
        /\ Aside
        /\ WithinBounds

\* The bridge takes a refresh request.
AuthRefresh(c) ==
    LET t == call[c].token
        d == tokenOf[t]
        n == Len(tokenOf) + 1
    IN  /\ At(c, "refresh")
        /\ \/ /\ d \notin revoked
              /\ t \notin used
              /\ tokenOf' = Append(tokenOf, d)
              /\ used' = used \cup {t}
              /\ Await(c, [call[c] EXCEPT !.pc = "refreshed", !.token = n], snapshot)
              /\ UNCHANGED revoked
           \/ /\ d \in revoked \/ t \in used
              /\ revoked' = revoked \cup {d}
              /\ Await(c, [call[c] EXCEPT !.pc = "refreshed", !.token = 0], snapshot)
              /\ UNCHANGED <<tokenOf, used>>
        /\ UNCHANGED <<access, controller, stored, forgotten>>
        /\ Aside
        /\ WithinBounds

RefreshReturns(c) ==
    /\ At(c, "refreshed")
    /\ call[c].token # 0
    /\ access' = tokenOf[call[c].token]
    /\ Await(c, [call[c] EXCEPT !.pc = "save"], snapshot)
    /\ UNCHANGED <<controller, stored, bridge, forgotten>>
    /\ Aside

\* The bridge wants the device repaired.
RefreshRefused(c) ==
    /\ At(c, "refreshed")
    /\ call[c].token = 0
    /\ access' = 0
    /\ Ends(c, RepairRequired(snapshot))
    /\ UNCHANGED <<stored, bridge, forgotten>>
    /\ Aside

SaveReturns(c) ==
    LET s == [snapshot EXCEPT !.registration = call[c].token, !.fresh = TRUE]
    IN  /\ At(c, "save")
        /\ stored' = call[c].token
        /\ IF call[c].op = "pair"
           THEN /\ Await(c, [call[c] EXCEPT !.pc = "health", !.token = 0], s)
                /\ UNCHANGED controller
           ELSE Proceed(c, call[c], [s EXCEPT !.mode = "paired_v1"])
        /\ UNCHANGED <<access, bridge, forgotten>>
        /\ Aside

HealthReturns(c) ==
    /\ At(c, "health")
    /\ Ends(c, Connected(snapshot, IF call[c].op = "direct" THEN "legacy_v0"
                                   ELSE "paired_v1"))
    /\ UNCHANGED <<access, stored, bridge, forgotten>>
    /\ Aside

TurnReturns(c) ==
    /\ At(c, "turn")
    /\ \/ call[c].op = "legacy"
       \/ call[c].token # 0 /\ call[c].token \notin revoked
    /\ Ends(c, Answered(snapshot, call[c].prompt))
    /\ UNCHANGED <<access, stored, bridge, forgotten>>
    /\ Aside

TurnRefused(c) ==
    /\ At(c, "turn")
    /\ call[c].op # "legacy"
    /\ call[c].token \in revoked
    /\ access' = 0
    /\ Ends(c, RepairRequired(snapshot))
    /\ UNCHANGED <<stored, bridge, forgotten>>
    /\ Aside

\* "access_invalid": the first time, the session is refreshed for the turn.
\* The bridge goes by its own clock and its own keys.
TurnNeedsRefresh(c) ==
    /\ At(c, "turn")
    /\ call[c].op = "prompt"
    /\ call[c].token # 0
    /\ IF snapshot.registration = 0 THEN Fails(c)
       ELSE /\ StartRefresh(c, [call[c] EXCEPT !.op = "retry"], snapshot)
            /\ UNCHANGED controller
    /\ UNCHANGED <<access, stored, bridge, forgotten>>
    /\ Aside

\* A request or its answer is lost, or answered with another error.
RequestFails(c) ==
    /\ call[c].pc \in {"register", "refresh", "refreshed", "health", "turn"}
    /\ Fails(c)
    /\ UNCHANGED <<access, stored, bridge, forgotten>>
    /\ Aside

\* Another call may still bring a registration.
MayRegister(c) == call[c].pc \in {"load", "register", "refresh", "refreshed", "save"}

\* Mutant of Forgotten: the snapshot keeps the registration.
ForgottenInStoreOnly(s) == [s EXCEPT !.fresh = FALSE, !.pending = 0, !.shown = 0]

\* The snapshot without the device.
Forgotten(s) ==
    [s EXCEPT !.registration = 0, !.fresh = FALSE, !.pending = 0, !.shown = 0]

\* The rest of repair, which stops no other call.
ClearReturns(c) ==
    /\ At(c, "clear")
    /\ stored' = 0
    /\ access' = 0
    /\ forgotten' = \A x \in Calls : ~MayRegister(x)
    /\ Ends(c, [Forgotten(snapshot) EXCEPT
                   !.status = IF legacy THEN "connected" ELSE "unpaired",
                   !.mode = IF legacy THEN "legacy_v0" ELSE "none"])
    /\ UNCHANGED bridge
    /\ Aside

-----------------------------------------------------------------------------

Expire ==
    /\ snapshot.fresh
    /\ snapshot' = [snapshot EXCEPT !.fresh = FALSE]
    /\ UNCHANGED <<controller, call, backgrounded, prompts, cancelled>>
    /\ Elsewhere

\* The operator revokes a device.
Revoke(t) ==
    /\ t \in DOMAIN tokenOf
    /\ revoked' = revoked \cup {tokenOf[t]}
    /\ UNCHANGED <<snapshot, access, controller, backgrounded, legacy, stored,
                   call, prompts, tokenOf, used, history>>

\* The web view is started again: storage and the bridge remain.
Restart(c) ==
    /\ call' = Booting(c)
    /\ snapshot' = Blank
    /\ access' = 0
    /\ controller' = NoCall
    /\ backgrounded' = FALSE
    /\ forgotten' = FALSE
    /\ cancelled' = {}
    /\ UNCHANGED <<legacy, stored, prompts, bridge>>

Press(c) ==
    \/ SubmitPairing(c) \/ HandleForegroundEnter(c) \/ Reconnect(c)
    \/ RefreshCurrentSession(c) \/ SendPrompt(c) \/ Repair(c)

Return(c) ==
    \/ LoadReturns(c) \/ RegisterReturns(c) \/ AuthRefresh(c)
    \/ RefreshReturns(c) \/ RefreshRefused(c) \/ SaveReturns(c)
    \/ HealthReturns(c) \/ TurnReturns(c) \/ TurnRefused(c)
    \/ TurnNeedsRefresh(c) \/ RequestFails(c) \/ ClearReturns(c)

Next ==
    \/ \E c \in Calls : Press(c) \/ Return(c) \/ Restart(c)
    \/ HandleForegroundExit \/ HandleAbnormalExit
    \/ SendUnpaired \/ CancelOrReturnIdle \/ SetLegacyBridgeToken
    \/ Expire
    \/ \E t \in Token : Revoke(t)

Spec == Init /\ [][Next]_vars

-----------------------------------------------------------------------------
(***************************************************************************)
(* What should hold.                                                       *)
(***************************************************************************)

\* What the display says is under way is under way: a status that promises
\* an end has a call that will set another, and while it is a prompt, a double
\* click stops that very prompt.
WorkIsUnderWay ==
    /\ snapshot.status = "booting" =>
           \E c \in Calls : call[c].op \in {"boot", "resume", "direct"}
    /\ snapshot.status = "pairing" => \E c \in Calls : call[c].op = "pair"
    /\ snapshot.status = "request_in_progress" =>
           /\ controller # NoCall
           /\ Prompting(controller)
           /\ ~call[controller].aborted
           /\ call[controller].prompt = snapshot.pending

\* After a repair the registration does not come back before the device is
\* paired again, unless a call with a registration of its own was waiting.
RepairForgets == forgotten => stored = 0 /\ snapshot.registration = 0

\* README.md says of the glasses that a double click cancels: the reply to a
\* cancelled prompt is not shown.
CancelledIsNotAnswered == snapshot.shown \notin cancelled

=============================================================================
