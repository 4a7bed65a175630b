---------------------- MODULE GlassesController_proofs ----------------------
(***************************************************************************)
(* Theorems about GlassesController, for any number of methods that run at *)
(* one time and any bounds.                                                *)
(*                                                                         *)
(* WorkIsUnderWay is kept because a method takes its promise with it: what *)
(* its record says it is (SameWork) stays until it ends, and when it ends, *)
(* by itself or by an abort, the status is one that promises nothing       *)
(* (Settled).  RepairForgets needs to know where a registration could come *)
(* back from: storage, the snapshot, and the methods that Brings names.    *)
(***************************************************************************)
EXTENDS GlassesController, TLAPS

\* A status that no call has to end.
Settled == {"unpaired", "connected", "repair_required", "reconnect_needed"}

Loading == {"boot", "resume", "direct"}

Prompts == {"prompt", "retry", "legacy"}

\* The methods that refresh the session or save a registration.
Refreshing == {"pair", "resume", "refresh", "prompt", "retry"}

\* Which method can wait for what, and has a prompt.
CallSound(k) ==
    /\ k.op \in Prompts => k.prompt # 0
    /\ k.pc = "load" => k.op = "boot"
    /\ k.pc = "register" => k.op = "pair"
    /\ k.pc \in {"refresh", "refreshed", "save"} => k.op \in Refreshing

OpsMatch == \A c \in Calls : CallSound(call[c])

\* The controller is that of a prompt which has not been cancelled.
ControllerPrompts ==
    controller # NoCall => Prompting(controller) /\ ~call[controller].aborted

Control == OpsMatch /\ ControllerPrompts /\ WorkIsUnderWay

\* What k waits for, or has, brings a registration.
Brings(k) == k.pc \in {"load", "refresh", "refreshed", "save"}

\* A registration that is kept was issued, and not forgotten since.
Legit(t) == t # 0 => t \in DOMAIN tokenOf /\ ~forgotten

CallLegit(k) ==
    /\ k.pc \in {"refresh", "save"} => k.token \in DOMAIN tokenOf
    /\ k.pc = "refreshed" => k.token = 0 \/ k.token \in DOMAIN tokenOf
    /\ Brings(k) => ~forgotten

TokensKnown ==
    /\ Legit(stored)
    /\ Legit(snapshot.registration)
    /\ \A c \in Calls : CallLegit(call[c])

GInv == TypeOK /\ Control /\ TokensKnown

LEMMA ZeroIsThere == 0 \in 0..MaxTokens /\ 0 \in 0..MaxPrompts
  BY GlassesBounds

LEMMA InitInv == Init => GInv
<1> SUFFICES ASSUME Init PROVE GInv
  OBVIOUS
<1>0. PICK c \in Calls : call = Booting(c)
  BY DEF Init
<1>1. TypeOK
  <2>1. call \in [Calls -> Call]
    <3>1. Idle \in Call /\ [Idle EXCEPT !.op = "boot", !.pc = "load"] \in Call
      BY ZeroIsThere DEF Idle, Call
    <3> QED
      BY <1>0, <3>1 DEF Booting
  <2>2. snapshot \in Snapshot
    BY ZeroIsThere DEF Init, Blank, Snapshot
  <2>3. tokenOf \in Seq(Device) /\ Len(tokenOf) <= MaxTokens /\ used \subseteq DOMAIN tokenOf
    BY GlassesBounds DEF Init
  <2> QED
    BY <2>1, <2>2, <2>3, ZeroIsThere DEF Init, TypeOK
<1>2. \A x \in Calls : /\ CallSound(call[x])
                       /\ call[x].pc \in {"load", "idle"}
  BY <1>0 DEF Booting, Idle, CallSound, Prompts
<1>3. Control
  <2>1. call[c].op = "boot"
    BY <1>0 DEF Booting, Idle
  <2> QED
    BY <1>2, <2>1 DEF Init, Blank, Control, OpsMatch, ControllerPrompts, WorkIsUnderWay
<1>4. TokensKnown
  BY <1>2 DEF Init, Blank, TokensKnown, Legit, CallLegit
<1> QED
  BY <1>1, <1>3, <1>4 DEF GInv

-----------------------------------------------------------------------------
(* Records. *)

\* What the operators on snapshots make of one.
LEMMA SnapshotUpdates ==
    ASSUME NEW s \in Snapshot
    PROVE  /\ \A t \in {Unpaired(s), Suspended(s), OperationalError(s), RepairRequired(s)} :
                  /\ t \in Snapshot /\ t.status \in Settled
                  /\ t.registration = s.registration
           /\ \A m \in {"none", "paired_v1", "legacy_v0"} :
                  /\ Connected(s, m) \in Snapshot /\ Connected(s, m).status \in Settled
                  /\ Connected(s, m).registration = s.registration
           /\ \A b \in BOOLEAN :
                  /\ Interrupted(s, b) \in Snapshot /\ Interrupted(s, b).status \in Settled
                  /\ Interrupted(s, b).registration = s.registration
           /\ \A p \in 0..MaxPrompts :
                  /\ Answered(s, p) \in Snapshot /\ Answered(s, p).status \in Settled
                  /\ Answered(s, p).registration = s.registration
<1>1. \A t \in {Unpaired(s), Suspended(s), OperationalError(s), RepairRequired(s)} :
          t \in Snapshot /\ t.status \in Settled /\ t.registration = s.registration
  BY DEF Snapshot, Settled, Unpaired, Suspended, OperationalError, ModeOf, RepairRequired
<1>2. \A m \in {"none", "paired_v1", "legacy_v0"} :
          /\ Connected(s, m) \in Snapshot /\ Connected(s, m).status \in Settled
          /\ Connected(s, m).registration = s.registration
  BY DEF Snapshot, Settled, Connected
<1>3. \A b \in BOOLEAN :
          /\ Interrupted(s, b) \in Snapshot /\ Interrupted(s, b).status \in Settled
          /\ Interrupted(s, b).registration = s.registration
  BY DEF Snapshot, Settled, Interrupted
<1>4. \A p \in 0..MaxPrompts :
          /\ Answered(s, p) \in Snapshot /\ Answered(s, p).status \in Settled
          /\ Answered(s, p).registration = s.registration
  <2> TAKE p \in 0..MaxPrompts
  <2>1. PICK m \in {"none", "paired_v1", "legacy_v0"} :
            Answered(s, p) = [Connected(s, m) EXCEPT !.pending = 0, !.shown = p]
    BY DEF Answered
  <2> QED
    BY <1>2, <2>1, ZeroIsThere DEF Snapshot
<1> QED
  BY <1>1, <1>2, <1>3, <1>4

LEMMA IdleCall ==
    /\ Idle \in Call /\ Idle.op = "none" /\ Idle.pc = "idle"
    /\ Idle.prompt = 0 /\ Idle.aborted = FALSE
    /\ CallSound(Idle) /\ CallLegit(Idle)
  BY GlassesBounds DEF Idle, Call, CallSound, CallLegit, Brings, Prompts

-----------------------------------------------------------------------------
(* How a method goes on. *)

\* k is what j was, as far as its promise is concerned.
SameWork(j, k) ==
    /\ j.op \in Loading => k.op \in Loading
    /\ j.op = "pair" => k.op = "pair"
    /\ j.op \in Prompts =>
           k.op \in Prompts /\ k.prompt = j.prompt /\ k.aborted = j.aborted

\* The status that s shows is k's promise, or was someone's before.
StatusGoes(k, s) ==
    \/ s.status = snapshot.status /\ s.pending = snapshot.pending
    \/ s.status = "booting" /\ k.op \in Loading
    \/ s.status = "pairing" /\ k.op = "pair"
    \/ s.status \in Settled

\* The part of the invariant that the methods share.
Goes ==
    /\ call' \in [Calls -> Call]
    /\ snapshot' \in Snapshot
    /\ controller' \in Calls \cup {NoCall}
    /\ Control'

LEMMA AwaitGoes ==
    ASSUME GInv, NEW c \in Calls, NEW k \in Call, NEW s \in Snapshot,
           Await(c, k, s), UNCHANGED controller,
           CallSound(k), SameWork(call[c], k), StatusGoes(k, s)
    PROVE  Goes
<1>1. /\ call' \in [Calls -> Call] /\ snapshot' = s
      /\ call'[c] = k /\ \A x \in Calls : x # c => call'[x] = call[x]
  BY DEF Await, GInv, TypeOK
<1>2. OpsMatch'
  BY <1>1 DEF GInv, Control, OpsMatch
<1>3. ControllerPrompts'
  BY <1>1 DEF GInv, Control, TypeOK, ControllerPrompts, Prompting, SameWork, Prompts
<1>4. WorkIsUnderWay'
  <2>1. ASSUME snapshot'.status = "booting"
        PROVE  \E x \in Calls : call'[x].op \in {"boot", "resume", "direct"}
    <3>1. CASE k.op \in Loading
      BY <1>1, <3>1 DEF Loading
    <3>2. CASE s.status = snapshot.status
      BY <1>1, <2>1, <3>2 DEF GInv, Control, WorkIsUnderWay, SameWork, Loading
    <3> QED
      BY <1>1, <2>1, <3>1, <3>2 DEF StatusGoes, Settled
  <2>2. ASSUME snapshot'.status = "pairing"
        PROVE  \E x \in Calls : call'[x].op = "pair"
    <3>1. CASE k.op = "pair"
      BY <1>1, <3>1
    <3>2. CASE s.status = snapshot.status
      BY <1>1, <2>2, <3>2 DEF GInv, Control, WorkIsUnderWay, SameWork
    <3> QED
      BY <1>1, <2>2, <3>1, <3>2 DEF StatusGoes, Settled
  <2>3. ASSUME snapshot'.status = "request_in_progress"
        PROVE  /\ controller' # NoCall
               /\ Prompting(controller)'
               /\ ~call'[controller'].aborted
               /\ call'[controller'].prompt = snapshot'.pending
    <3>1. s.status = snapshot.status /\ s.pending = snapshot.pending
      BY <1>1, <2>3 DEF StatusGoes, Settled
    <3>2. /\ controller # NoCall /\ Prompting(controller)
          /\ call[controller].prompt = snapshot.pending
      BY <1>1, <2>3, <3>1 DEF GInv, Control, WorkIsUnderWay
    <3> QED
      BY <1>1, <1>3, <3>1, <3>2
         DEF GInv, TypeOK, ControllerPrompts, Prompting, SameWork, Prompts
  <2> QED
    BY <2>1, <2>2, <2>3 DEF WorkIsUnderWay, Prompting
<1> QED
  BY <1>1, <1>2, <1>3, <1>4 DEF Goes, Control, GInv, TypeOK

LEMMA EndsGoes ==
    ASSUME GInv, NEW c \in Calls, NEW s \in Snapshot, Ends(c, s), s.status \in Settled
    PROVE  Goes
<1>1. /\ call' \in [Calls -> Call] /\ snapshot' = s
      /\ call'[c] = Idle /\ \A x \in Calls : x # c => call'[x] = call[x]
  BY IdleCall DEF Ends, GInv, TypeOK
<1>2. OpsMatch'
  BY <1>1, IdleCall DEF GInv, Control, OpsMatch
<1>3. /\ controller' \in {controller, NoCall}
      /\ controller' # NoCall => controller # c
  BY DEF Ends, GInv, Control, ControllerPrompts, TypeOK
<1>4. ControllerPrompts'
  BY <1>1, <1>3 DEF GInv, Control, TypeOK, ControllerPrompts, Prompting
<1>5. WorkIsUnderWay'
  BY <1>1 DEF WorkIsUnderWay, Settled
<1> QED
  BY <1>1, <1>2, <1>3, <1>4, <1>5 DEF Goes, Control, GInv, TypeOK

\* Aborting leaves a settled status, whoever is aborted.
LEMMA AbortGoes ==
    ASSUME GInv, NEW s \in Snapshot, NEW b \in BOOLEAN, Abort(s, b), s.status \in Settled
    PROVE  /\ Goes
           /\ snapshot'.registration = s.registration
           /\ \A x \in Calls : /\ call'[x].pc \in {"idle", call[x].pc}
                               /\ call'[x].token = call[x].token \/ call'[x].pc = "idle"
<1>1. ASSUME NEW x \in Calls
      PROVE  LET k == [call[x] EXCEPT !.aborted = TRUE]
             IN  /\ k \in Call /\ k.op = call[x].op /\ k.pc = call[x].pc
                 /\ k.token = call[x].token /\ k.prompt = call[x].prompt
  BY DEF GInv, TypeOK, Call
<1>2. /\ snapshot' \in Snapshot /\ snapshot'.status \in Settled
      /\ snapshot'.registration = s.registration
  BY SnapshotUpdates DEF Abort
<1>3. /\ call' \in [Calls -> Call]
      /\ \A x \in Calls : /\ call'[x].pc \in {"idle", call[x].pc}
                          /\ call'[x].token = call[x].token \/ call'[x].pc = "idle"
                          /\ \/ call'[x] = Idle
                             \/ /\ call'[x].op = call[x].op
                                /\ call'[x].prompt = call[x].prompt
  <2>1. CASE controller = NoCall
    BY <2>1 DEF Abort, GInv, TypeOK
  <2>2. CASE controller # NoCall /\ At(controller, "turn")
    BY <2>2, IdleCall DEF Abort, GInv, TypeOK
  <2>3. CASE controller # NoCall /\ ~At(controller, "turn")
    <3> DEFINE k == [call[controller] EXCEPT !.aborted = TRUE]
    <3>1. controller \in Calls
      BY <2>3 DEF GInv, TypeOK
    <3>2. call' = [call EXCEPT ![controller] = k]
      BY <2>3 DEF Abort
    <3>3. /\ k \in Call /\ k.op = call[controller].op /\ k.pc = call[controller].pc
          /\ k.token = call[controller].token /\ k.prompt = call[controller].prompt
      BY <1>1, <3>1
    <3> HIDE DEF k
    <3> QED
      BY <3>1, <3>2, <3>3 DEF GInv, TypeOK
  <2> QED
    BY <2>1, <2>2, <2>3
<1>4. OpsMatch'
  BY <1>3, IdleCall DEF GInv, Control, OpsMatch, CallSound
<1>5. controller' = NoCall
  BY DEF Abort
<1> QED
  BY <1>2, <1>3, <1>4, <1>5
     DEF Goes, Control, ControllerPrompts, WorkIsUnderWay, Settled

\* Only c's record changes.
OnlyCall(c) == \A x \in Calls : x # c => call'[x] = call[x]

LEMMA AwaitIsItsOwn ==
    ASSUME GInv, NEW c \in Calls, NEW k, NEW s, Await(c, k, s)
    PROVE  OnlyCall(c) /\ call'[c] = k /\ snapshot' = s
  BY DEF Await, OnlyCall, GInv, TypeOK

LEMMA EndIsItsOwn ==
    ASSUME GInv, NEW c \in Calls, NEW s, Ends(c, s)
    PROVE  OnlyCall(c) /\ ~Brings(call'[c]) /\ snapshot' = s
  BY IdleCall DEF Ends, OnlyCall, Brings, GInv, TypeOK

LEMMA FailGoes ==
    ASSUME GInv, NEW c \in Calls, Fails(c)
    PROVE  /\ Goes /\ OnlyCall(c) /\ ~Brings(call'[c])
           /\ snapshot'.registration = snapshot.registration
<1>1. snapshot \in Snapshot /\ Ends(c, OperationalError(snapshot))
  BY DEF Fails, GInv, TypeOK
<1> QED
  BY <1>1, SnapshotUpdates, EndsGoes, EndIsItsOwn

LEMMA StartRefreshGoes ==
    ASSUME GInv, NEW c \in Calls, NEW k \in Call, NEW s \in Snapshot,
           StartRefresh(c, k, s), UNCHANGED controller,
           k.op \in Refreshing, CallSound(k), SameWork(call[c], k), StatusGoes(k, s)
    PROVE  /\ Goes /\ OnlyCall(c)
           /\ call'[c].pc = "refresh" /\ call'[c].token = s.registration
           /\ s.registration # 0 /\ snapshot'.registration = s.registration
<1> DEFINE j == [k EXCEPT !.pc = "refresh", !.token = s.registration]
<1>1. s.registration \in 0..MaxTokens
  BY DEF Snapshot
<1>2. /\ j \in Call /\ j.op = k.op /\ j.pc = "refresh" /\ j.token = s.registration
      /\ j.prompt = k.prompt /\ j.aborted = k.aborted
  BY <1>1 DEF Call
<1>3. Await(c, j, s) /\ s.registration # 0
  BY DEF StartRefresh
<1> HIDE DEF j
<1>4. CallSound(j) /\ SameWork(call[c], j) /\ StatusGoes(j, s)
  BY <1>2 DEF CallSound, SameWork, StatusGoes
<1> QED
  BY <1>2, <1>3, <1>4, AwaitGoes, AwaitIsItsOwn

LEMMA ProceedGoes ==
    ASSUME GInv, NEW c \in Calls, NEW k \in Call, NEW s \in Snapshot, Proceed(c, k, s),
           k.op \in {"resume", "refresh", "prompt", "retry"},
           CallSound(k), SameWork(call[c], k), StatusGoes(k, s)
    PROVE  /\ Goes /\ OnlyCall(c) /\ ~Brings(call'[c])
           /\ snapshot'.registration = s.registration
<1>1. CASE k.op = "resume"
  <2> DEFINE j == [k EXCEPT !.pc = "health", !.token = 0]
  <2>1. /\ j \in Call /\ j.op = k.op /\ j.pc = "health"
        /\ j.prompt = k.prompt /\ j.aborted = k.aborted
    BY ZeroIsThere DEF Call
  <2>2. Await(c, j, s) /\ UNCHANGED controller
    BY <1>1 DEF Proceed
  <2> HIDE DEF j
  <2>3. CallSound(j) /\ SameWork(call[c], j) /\ StatusGoes(j, s) /\ ~Brings(j)
    BY <2>1 DEF CallSound, SameWork, StatusGoes, Brings
  <2> QED
    BY <2>1, <2>2, <2>3, AwaitGoes, AwaitIsItsOwn
<1>2. CASE k.op = "refresh"
  <2> DEFINE t == [s EXCEPT !.status = "connected"]
  <2>1. t \in Snapshot /\ t.status \in Settled /\ t.registration = s.registration
    BY DEF Snapshot, Settled
  <2>2. Ends(c, t)
    BY <1>2 DEF Proceed
  <2> HIDE DEF t
  <2> QED
    BY <2>1, <2>2, EndsGoes, EndIsItsOwn
<1>3. CASE k.op \in {"prompt", "retry"}
  <2>1. CASE k.aborted
    <3>1. Ends(c, Interrupted(s, backgrounded)) /\ backgrounded \in BOOLEAN
      BY <1>3, <2>1 DEF Proceed, GInv, TypeOK
    <3> QED
      BY <3>1, SnapshotUpdates, EndsGoes, EndIsItsOwn
  <2>2. CASE ~k.aborted
    <3> DEFINE j == [k EXCEPT !.pc = "turn", !.token = access]
    <3>1. access \in 0..MaxTokens
      BY DEF GInv, TypeOK
    <3>2. /\ j \in Call /\ j.op = k.op /\ j.pc = "turn"
          /\ j.prompt = k.prompt /\ j.aborted = k.aborted
      BY <3>1 DEF Call
    <3>3. Await(c, j, s) /\ UNCHANGED controller
      BY <1>3, <2>2 DEF Proceed
    <3> HIDE DEF j
    <3>4. CallSound(j) /\ SameWork(call[c], j) /\ StatusGoes(j, s) /\ ~Brings(j)
      BY <3>2 DEF CallSound, SameWork, StatusGoes, Brings
    <3> QED
      BY <3>2, <3>3, <3>4, AwaitGoes, AwaitIsItsOwn
  <2> QED
    BY <2>1, <2>2
<1> QED
  BY <1>1, <1>2, <1>3

-----------------------------------------------------------------------------
(* Tokens. *)

LEMMA TokensStay ==
    ASSUME TokensKnown, DOMAIN tokenOf \subseteq DOMAIN tokenOf', forgotten' => forgotten,
           stored' = stored \/ Legit(stored)',
           snapshot'.registration = snapshot.registration
               \/ Legit(snapshot.registration)',
           \A x \in Calls :
               \/ call'[x].pc = call[x].pc /\ call'[x].token = call[x].token
               \/ ~Brings(call'[x])
               \/ CallLegit(call[x])'
    PROVE  TokensKnown'
<1>1. Legit(stored)' /\ Legit(snapshot.registration)'
  BY DEF TokensKnown, Legit
<1>2. \A x \in Calls : CallLegit(call[x])'
  BY DEF TokensKnown, CallLegit, Brings
<1> QED
  BY <1>1, <1>2 DEF TokensKnown

\* What the app does by itself changes no token.
LEMMA ElsewhereKeeps ==
    ASSUME GInv, Goes, Elsewhere, snapshot'.registration = snapshot.registration,
           backgrounded' \in BOOLEAN, prompts' \in 0..MaxPrompts, cancelled' \subseteq Prompt,
           \A x \in Calls :
               \/ call'[x].pc = call[x].pc /\ call'[x].token = call[x].token
               \/ ~Brings(call'[x])
               \/ /\ call'[x].pc = "refresh"
                  /\ call'[x].token # 0
                  /\ call'[x].token = snapshot.registration
    PROVE  GInv'
<1>1. \A x \in Calls :
           call'[x].pc = "refresh" /\ call'[x].token # 0
           /\ call'[x].token = snapshot.registration => CallLegit(call[x])'
  BY DEF GInv, TokensKnown, Legit, CallLegit, Brings, Elsewhere, bridge
<1>2. TokensKnown'
  BY <1>1, TokensStay DEF GInv, Elsewhere, bridge
<1> QED
  BY <1>2 DEF GInv, Goes, TypeOK, Elsewhere, bridge

\* Resume asks of its method what ElsewhereKeeps does.
LEMMA ResumeGoes ==
    ASSUME GInv, NEW c \in Calls, Starts(c), Resume(c), UNCHANGED legacy
    PROVE  /\ Goes /\ OnlyCall(c)
           /\ snapshot'.registration = snapshot.registration
           /\ \/ ~Brings(call'[c])
              \/ /\ call'[c].pc = "refresh"
                 /\ call'[c].token # 0
                 /\ call'[c].token = snapshot.registration
<1> DEFINE k == [Idle EXCEPT !.op = "resume"]
           j == [Idle EXCEPT !.op = "direct", !.pc = "health"]
           s == [snapshot EXCEPT !.status = "booting"]
           t == [s EXCEPT !.mode = "legacy_v0"]
<1>1. /\ k \in Call /\ k.op = "resume" /\ k.pc = "idle" /\ j \in Call /\ j.op = "direct" /\ j.pc = "health"
  BY ZeroIsThere DEF Idle, Call
<1>2. /\ s \in Snapshot /\ s.status = "booting" /\ s.registration = snapshot.registration
      /\ t \in Snapshot /\ t.status = "booting" /\ t.registration = snapshot.registration
      /\ s.fresh = snapshot.fresh
  BY DEF GInv, TypeOK, Snapshot
<1>3. \/ snapshot.registration # 0 /\ Proceed(c, k, s)
      \/ snapshot.registration # 0 /\ StartRefresh(c, k, s) /\ UNCHANGED controller
      \/ Await(c, j, t) /\ UNCHANGED controller
      \/ snapshot' = Unpaired(snapshot) /\ UNCHANGED <<call, controller>>
  BY DEF Resume
<1> HIDE DEF k, j, s, t
<1>4. /\ SameWork(call[c], k) /\ SameWork(call[c], j) /\ CallSound(k) /\ CallSound(j) /\ ~Brings(j)
      /\ StatusGoes(k, s) /\ StatusGoes(j, t)
  BY <1>1, <1>2, IdleCall
     DEF Starts, SameWork, StatusGoes, CallSound, Brings, Loading, Prompts
<1>5. CASE Proceed(c, k, s)
  BY <1>1, <1>2, <1>4, <1>5, ProceedGoes
<1>6. CASE StartRefresh(c, k, s) /\ UNCHANGED controller
  BY <1>1, <1>2, <1>4, <1>6, StartRefreshGoes DEF Refreshing
<1>7. CASE Await(c, j, t) /\ UNCHANGED controller
  BY <1>1, <1>2, <1>4, <1>7, AwaitGoes, AwaitIsItsOwn
<1>8. CASE snapshot' = Unpaired(snapshot) /\ UNCHANGED <<call, controller>>
  <2>1. /\ Unpaired(snapshot) \in Snapshot /\ Unpaired(snapshot).status \in Settled
        /\ Unpaired(snapshot).registration = snapshot.registration
    BY SnapshotUpdates DEF GInv, TypeOK
  <2>2. Control'
    BY <1>8, <2>1 DEF GInv, Control, OpsMatch, ControllerPrompts, Prompting,
                      WorkIsUnderWay, Settled
  <2>3. ~Brings(call'[c])
    BY <1>8, IdleCall DEF Starts, Brings
  <2> QED
    BY <1>8, <2>1, <2>2, <2>3 DEF Goes, OnlyCall, GInv, TypeOK
<1> QED
  BY <1>3, <1>5, <1>6, <1>7, <1>8

-----------------------------------------------------------------------------
(* Buttons and gestures. *)

LEMMA PressKeeps ==
    ASSUME GInv, NEW c \in Calls,
           \/ SubmitPairing(c) \/ HandleForegroundEnter(c) \/ Reconnect(c)
           \/ RefreshCurrentSession(c) \/ Repair(c)
    PROVE  GInv'
<1>0. /\ backgrounded \in BOOLEAN /\ prompts \in 0..MaxPrompts /\ cancelled \subseteq Prompt
      /\ snapshot \in Snapshot
  BY DEF GInv, TypeOK
<1>1. CASE SubmitPairing(c)
  <2> DEFINE k == [Idle EXCEPT !.op = "pair", !.pc = "register"]
             s == [snapshot EXCEPT !.status = "pairing"]
  <2>1. Await(c, k, s) /\ UNCHANGED controller /\ Starts(c)
    BY <1>1 DEF SubmitPairing
  <2>2. k \in Call /\ k.op = "pair" /\ k.pc = "register"
    BY ZeroIsThere DEF Idle, Call
  <2>3. s \in Snapshot /\ s.status = "pairing" /\ s.registration = snapshot.registration
    BY <1>0 DEF Snapshot
  <2> HIDE DEF k, s
  <2>4. CallSound(k) /\ SameWork(call[c], k) /\ StatusGoes(k, s) /\ ~Brings(k)
    BY <2>1, <2>2, <2>3, IdleCall
       DEF CallSound, SameWork, StatusGoes, Brings, Starts, Loading, Prompts
  <2>5. Goes /\ OnlyCall(c) /\ call'[c] = k /\ snapshot' = s
    BY <2>1, <2>2, <2>3, <2>4, AwaitGoes, AwaitIsItsOwn
  <2> QED
    BY <1>0, <1>1, <2>3, <2>4, <2>5, ElsewhereKeeps DEF SubmitPairing, OnlyCall
<1>2. CASE HandleForegroundEnter(c) \/ Reconnect(c)
  <2>1. /\ Starts(c) /\ Resume(c) /\ Elsewhere /\ UNCHANGED <<prompts, cancelled>>
        /\ backgrounded' \in BOOLEAN /\ UNCHANGED legacy
    BY <1>0, <1>2 DEF HandleForegroundEnter, Reconnect, Elsewhere
  <2>2. /\ Goes /\ OnlyCall(c) /\ snapshot'.registration = snapshot.registration
        /\ \/ ~Brings(call'[c])
           \/ /\ call'[c].pc = "refresh" /\ call'[c].token # 0
              /\ call'[c].token = snapshot.registration
    BY <2>1, ResumeGoes
  <2> QED
    BY <1>0, <2>1, <2>2, ElsewhereKeeps DEF OnlyCall
<1>3. CASE RefreshCurrentSession(c)
  <2> DEFINE k == [Idle EXCEPT !.op = "refresh"]
  <2>1. StartRefresh(c, k, snapshot) /\ UNCHANGED controller /\ Starts(c)
    BY <1>3 DEF RefreshCurrentSession
  <2>2. k \in Call /\ k.op = "refresh" /\ k.pc = "idle"
    BY ZeroIsThere DEF Idle, Call
  <2> HIDE DEF k
  <2>3. CallSound(k) /\ SameWork(call[c], k) /\ StatusGoes(k, snapshot)
    BY <2>1, <2>2, IdleCall DEF CallSound, SameWork, StatusGoes, Starts, Loading, Prompts
  <2>4. /\ Goes /\ OnlyCall(c)
        /\ call'[c].pc = "refresh" /\ call'[c].token = snapshot.registration
        /\ snapshot.registration # 0 /\ snapshot'.registration = snapshot.registration
    BY <1>0, <2>1, <2>2, <2>3, StartRefreshGoes DEF Refreshing
  <2> QED
    BY <1>0, <1>3, <2>4, ElsewhereKeeps DEF RefreshCurrentSession, OnlyCall
<1>4. CASE Repair(c)
  <2> DEFINE k == [Idle EXCEPT !.op = "repair", !.pc = "clear"]
  <2>1. Await(c, k, snapshot) /\ UNCHANGED controller /\ Starts(c)
    BY <1>4 DEF Repair
  <2>2. k \in Call /\ k.op = "repair" /\ k.pc = "clear"
    BY ZeroIsThere DEF Idle, Call
  <2> HIDE DEF k
  <2>3. CallSound(k) /\ SameWork(call[c], k) /\ StatusGoes(k, snapshot) /\ ~Brings(k)
    BY <2>1, <2>2, IdleCall
       DEF CallSound, SameWork, StatusGoes, Brings, Starts, Loading, Prompts
  <2>4. Goes /\ OnlyCall(c) /\ call'[c] = k /\ snapshot' = snapshot
    BY <1>0, <2>1, <2>2, <2>3, AwaitGoes, AwaitIsItsOwn
  <2> QED
    BY <1>0, <1>4, <2>3, <2>4, ElsewhereKeeps DEF Repair, OnlyCall
<1> QED
  BY <1>1, <1>2, <1>3, <1>4

\* A prompt takes the controller, which nobody has.
LEMMA PromptGoes ==
    ASSUME GInv, NEW c \in Calls, Starts(c), NEW k \in Call, NEW s \in Snapshot,
           Await(c, k, s), controller = NoCall, controller' = c,
           CallSound(k), k.op \in Prompts, ~k.aborted, k.prompt = s.pending,
           s.status = "request_in_progress"
    PROVE  Goes
<1>1. OnlyCall(c) /\ call'[c] = k /\ snapshot' = s /\ call' \in [Calls -> Call]
  BY AwaitIsItsOwn DEF Await, GInv, TypeOK
<1>2. OpsMatch'
  BY <1>1 DEF GInv, Control, OpsMatch, OnlyCall
<1>3. ControllerPrompts' /\ WorkIsUnderWay'
  BY <1>1, NoCallIsNoCall DEF ControllerPrompts, WorkIsUnderWay, Prompting, Prompts
<1> QED
  BY <1>1, <1>2, <1>3 DEF Goes, Control

LEMMA SendPromptKeeps ==
    ASSUME GInv, NEW c \in Calls, SendPrompt(c)
    PROVE  GInv'
<1> DEFINE p == IF snapshot.pending # 0 THEN snapshot.pending ELSE prompts + 1
           s == [snapshot EXCEPT !.status = "request_in_progress", !.pending = p]
           k == [Idle EXCEPT !.op = "prompt", !.prompt = p]
           direct == [k EXCEPT !.op = "legacy", !.pc = "turn"]
           turn == [k EXCEPT !.pc = "turn", !.token = access]
           refresh == [k EXCEPT !.pc = "refresh", !.token = s.registration]
<1>0. /\ backgrounded \in BOOLEAN /\ prompts \in 0..MaxPrompts /\ cancelled \subseteq Prompt
      /\ snapshot \in Snapshot /\ access \in 0..MaxTokens
      /\ snapshot.registration \in 0..MaxTokens
      /\ MaxPrompts \in Nat
  BY GlassesBounds DEF GInv, TypeOK, Snapshot
<1>1. p \in 0..MaxPrompts /\ p # 0
  <2>1. snapshot.pending \in 0..MaxPrompts /\ p <= MaxPrompts
    BY <1>0 DEF Snapshot, SendPrompt
  <2> QED
    BY <1>0, <2>1
<1>2. prompts' \in 0..MaxPrompts
  BY <1>0, <1>1 DEF SendPrompt
<1>3. /\ Starts(c) /\ controller = NoCall /\ controller' = c
      /\ UNCHANGED <<backgrounded, cancelled>> /\ Elsewhere
      /\ \/ Await(c, direct, s)
         \/ Await(c, turn, s)
         \/ s.registration # 0 /\ Await(c, refresh, s)
  BY DEF SendPrompt, StartRefresh
<1> HIDE DEF p
<1>4. /\ s \in Snapshot /\ s.status = "request_in_progress" /\ s.pending = p
      /\ s.registration = snapshot.registration
  BY <1>0, <1>1 DEF Snapshot
<1> HIDE DEF s
<1>5. /\ direct \in Call /\ direct.op = "legacy" /\ direct.pc = "turn"
      /\ direct.prompt = p /\ ~direct.aborted
  BY <1>1, ZeroIsThere DEF Idle, Call
<1>6. /\ turn \in Call /\ turn.op = "prompt" /\ turn.pc = "turn"
      /\ turn.prompt = p /\ ~turn.aborted
  BY <1>0, <1>1, ZeroIsThere DEF Idle, Call
<1>7. /\ refresh \in Call /\ refresh.op = "prompt" /\ refresh.pc = "refresh"
      /\ refresh.prompt = p /\ ~refresh.aborted /\ refresh.token = s.registration
  BY <1>0, <1>1, <1>4, ZeroIsThere DEF Idle, Call
<1> HIDE DEF direct, turn, refresh, k
<1>8. PICK j \in Call :
          /\ Await(c, j, s) /\ j.op \in Prompts /\ j.prompt = p /\ ~j.aborted /\ CallSound(j)
          /\ \/ ~Brings(j)
             \/ j.pc = "refresh" /\ j.token # 0 /\ j.token = snapshot.registration
  <2>1. CASE Await(c, direct, s)
    BY <1>1, <1>5, <2>1 DEF Prompts, CallSound, Brings
  <2>2. CASE Await(c, turn, s)
    BY <1>1, <1>6, <2>2 DEF Prompts, CallSound, Brings
  <2>3. CASE s.registration # 0 /\ Await(c, refresh, s)
    BY <1>1, <1>4, <1>7, <2>3 DEF Prompts, CallSound, Refreshing
  <2> QED
    BY <1>3, <2>1, <2>2, <2>3
<1>9. Goes /\ OnlyCall(c) /\ call'[c] = j /\ snapshot' = s
  BY <1>3, <1>4, <1>8, PromptGoes, AwaitIsItsOwn
<1> QED
  BY <1>0, <1>2, <1>3, <1>4, <1>8, <1>9, ElsewhereKeeps DEF OnlyCall

\* The exits, a click without a bridge, and a double click.
LEMMA GestureKeeps ==
    ASSUME GInv,
           HandleForegroundExit \/ HandleAbnormalExit \/ SendUnpaired \/ CancelOrReturnIdle
    PROVE  GInv'
<1>0. /\ backgrounded \in BOOLEAN /\ prompts \in 0..MaxPrompts /\ cancelled \subseteq Prompt
      /\ snapshot \in Snapshot /\ controller \in Calls \cup {NoCall}
  BY DEF GInv, TypeOK
<1>1. ASSUME NEW s \in Snapshot, s.status \in Settled, NEW b \in BOOLEAN, Abort(s, b),
             s.registration = snapshot.registration, UNCHANGED prompts, Elsewhere,
             backgrounded' \in BOOLEAN, cancelled' \subseteq Prompt
      PROVE  GInv'
  <2>1. /\ Goes /\ snapshot'.registration = snapshot.registration
        /\ \A x \in Calls : /\ call'[x].pc \in {"idle", call[x].pc}
                            /\ call'[x].token = call[x].token \/ call'[x].pc = "idle"
    BY <1>1, AbortGoes
  <2>2. \A x \in Calls :
            \/ call'[x].pc = call[x].pc /\ call'[x].token = call[x].token
            \/ ~Brings(call'[x])
    BY <2>1 DEF Brings
  <2> QED
    BY <1>0, <1>1, <2>1, <2>2, ElsewhereKeeps
<1>2. ASSUME snapshot' \in Snapshot, snapshot'.status \in Settled,
             snapshot'.registration = snapshot.registration,
             UNCHANGED <<controller, call, backgrounded, prompts, cancelled>>, Elsewhere
      PROVE  GInv'
  <2>1. Control'
    BY <1>2 DEF GInv, Control, OpsMatch, ControllerPrompts, Prompting,
                WorkIsUnderWay, Settled
  <2>2. Goes
    BY <1>2, <2>1 DEF Goes, GInv, TypeOK
  <2> QED
    BY <1>0, <1>2, <2>2, ElsewhereKeeps
<1>3. /\ Suspended(snapshot) \in Snapshot /\ Suspended(snapshot).status \in Settled
      /\ Suspended(snapshot).registration = snapshot.registration
      /\ Unpaired(snapshot) \in Snapshot /\ Unpaired(snapshot).status \in Settled
      /\ Unpaired(snapshot).registration = snapshot.registration
  BY <1>0, SnapshotUpdates
<1>4. CASE HandleForegroundExit
  BY <1>0, <1>1, <1>3, <1>4 DEF HandleForegroundExit
<1>5. CASE HandleAbnormalExit
  BY <1>0, <1>1, <1>3, <1>5 DEF HandleAbnormalExit
<1>6. CASE SendUnpaired
  BY <1>2, <1>3, <1>6 DEF SendUnpaired
<1>7. CASE CancelOrReturnIdle /\ controller # NoCall
  <2> DEFINE s == [snapshot EXCEPT !.status = "connected", !.pending = 0]
  <2>1. s \in Snapshot /\ s.status \in Settled /\ s.registration = snapshot.registration
    BY <1>0, ZeroIsThere DEF Snapshot, Settled
  <2>2. Abort(s, backgrounded) /\ UNCHANGED <<backgrounded, prompts>> /\ Elsewhere
    BY <1>7 DEF CancelOrReturnIdle
  <2> HIDE DEF s
  <2>3. call[controller].prompt \in Prompt
    <3>1. call[controller].prompt \in 0..MaxPrompts /\ controller \in Calls
      BY <1>0, <1>7 DEF GInv, TypeOK, Call
    <3>2. call[controller].prompt # 0
      BY <1>7, <3>1 DEF GInv, Control, OpsMatch, CallSound, ControllerPrompts, Prompting, Prompts
    <3> QED
      BY <3>1, <3>2, GlassesBounds DEF Prompt
  <2>4. cancelled' \subseteq Prompt
    BY <1>0, <1>7, <2>3 DEF CancelOrReturnIdle
  <2> QED
    BY <1>0, <1>1, <2>1, <2>2, <2>4
<1>8. CASE CancelOrReturnIdle /\ controller = NoCall
  <2>1. /\ snapshot' \in Snapshot /\ snapshot'.status \in Settled
        /\ snapshot'.registration = snapshot.registration
    BY <1>0, <1>8 DEF CancelOrReturnIdle, ModeOf, Snapshot, Settled
  <2> QED
    BY <1>2, <1>8, <2>1 DEF CancelOrReturnIdle
<1> QED
  BY <1>4, <1>5, <1>6, <1>7, <1>8

-----------------------------------------------------------------------------
(* What a method waited for. *)

LEMMA AsideKeeps ==
    ASSUME GInv, Goes, Aside, TokensKnown', access' \in 0..MaxTokens,
           stored' \in 0..MaxTokens, forgotten' \in BOOLEAN,
           \/ UNCHANGED bridge
           \/ /\ tokenOf' \in Seq(Device) /\ Len(tokenOf') <= MaxTokens
              /\ used' \subseteq DOMAIN tokenOf'
              /\ revoked' \subseteq Device
    PROVE  GInv'
  BY DEF GInv, Goes, TypeOK, Aside, bridge

\* A method that ends, or goes on without a token, and changes none.
LEMMA EndKeeps ==
    ASSUME GInv, Goes, Aside, NEW c \in Calls, OnlyCall(c), ~Brings(call'[c]),
           access' \in 0..MaxTokens, UNCHANGED <<stored, bridge, forgotten>>,
           snapshot'.registration = snapshot.registration
    PROVE  GInv'
<1>1. \A x \in Calls :
          \/ call'[x].pc = call[x].pc /\ call'[x].token = call[x].token
          \/ ~Brings(call'[x])
  BY DEF OnlyCall
<1>2. TokensKnown'
  BY <1>1, TokensStay DEF GInv, bridge
<1>3. stored' \in 0..MaxTokens /\ forgotten' \in BOOLEAN
  BY DEF GInv, TypeOK
<1> QED
  BY <1>2, <1>3, AsideKeeps

LEMMA LoadKeeps ==
    ASSUME GInv, NEW c \in Calls, LoadReturns(c)
    PROVE  GInv'
<1> DEFINE k == [Idle EXCEPT !.op = "resume"]
           j == [k EXCEPT !.op = "direct", !.pc = "health"]
           s == [snapshot EXCEPT !.status = "booting", !.registration = stored]
           t == [snapshot EXCEPT !.status = "booting", !.mode = "legacy_v0"]
           u == [Unpaired(s) EXCEPT !.mode = "none"]
<1>0. /\ call[c].pc = "load" /\ call[c].op = "boot"
      /\ snapshot \in Snapshot /\ access \in 0..MaxTokens /\ stored \in 0..MaxTokens
      /\ forgotten \in BOOLEAN
      /\ ~forgotten /\ Legit(stored)
  BY DEF LoadReturns, At, GInv, Control, OpsMatch, CallSound, TypeOK,
         TokensKnown, CallLegit, Brings
<1>1. /\ k \in Call /\ k.op = "resume" /\ k.pc = "idle"
      /\ j \in Call /\ j.op = "direct" /\ j.pc = "health"
  BY ZeroIsThere DEF Idle, Call
<1>2. /\ s \in Snapshot /\ s.status = "booting" /\ s.registration = stored
      /\ s.fresh = snapshot.fresh
      /\ t \in Snapshot /\ t.status = "booting" /\ t.registration = snapshot.registration
      /\ u \in Snapshot /\ u.status \in Settled /\ u.registration = stored
  BY <1>0 DEF Snapshot, Settled, Unpaired
<1>3. /\ \/ Proceed(c, k, s)
         \/ StartRefresh(c, k, s) /\ UNCHANGED controller
         \/ Await(c, j, t) /\ UNCHANGED controller
         \/ Ends(c, u)
      /\ UNCHANGED <<access, stored, bridge, forgotten>> /\ Aside
  BY DEF LoadReturns
<1> HIDE DEF k, j, s, t, u
<1>4. /\ SameWork(call[c], k) /\ SameWork(call[c], j) /\ ~Brings(j)
      /\ CallSound(k) /\ CallSound(j)
      /\ StatusGoes(k, s) /\ StatusGoes(j, t)
  BY <1>0, <1>1, <1>2
     DEF SameWork, StatusGoes, CallSound, Brings, Loading, Prompts
<1>5. /\ Goes /\ OnlyCall(c)
      /\ snapshot'.registration \in {stored, snapshot.registration}
      /\ \/ ~Brings(call'[c])
         \/ call'[c].pc = "refresh" /\ call'[c].token = stored /\ stored # 0
  <2>1. CASE Proceed(c, k, s)
    BY <1>1, <1>2, <1>4, <2>1, ProceedGoes
  <2>2. CASE StartRefresh(c, k, s) /\ UNCHANGED controller
    BY <1>1, <1>2, <1>4, <2>2, StartRefreshGoes DEF Refreshing
  <2>3. CASE Await(c, j, t) /\ UNCHANGED controller
    BY <1>1, <1>2, <1>4, <2>3, AwaitGoes, AwaitIsItsOwn
  <2>4. CASE Ends(c, u)
    BY <1>2, <2>4, EndsGoes, EndIsItsOwn
  <2> QED
    BY <1>3, <2>1, <2>2, <2>3, <2>4
<1>6. Legit(snapshot.registration)'
  BY <1>0, <1>3, <1>5 DEF Legit, bridge, GInv, TokensKnown
<1>7. ~Brings(call'[c]) \/ CallLegit(call[c])'
  BY <1>0, <1>3, <1>5 DEF Legit, CallLegit, bridge
<1>8. TokensKnown'
  BY <1>3, <1>5, <1>6, <1>7, TokensStay DEF GInv, bridge, OnlyCall
<1> QED
  BY <1>0, <1>3, <1>5, <1>8, AsideKeeps

LEMMA RegisterKeeps ==
    ASSUME GInv, NEW c \in Calls, RegisterReturns(c)
    PROVE  GInv'
<1> DEFINE t == Len(tokenOf) + 1
           k == [call[c] EXCEPT !.pc = "save", !.token = t]
<1>0. /\ call[c] \in Call /\ call[c].op = "pair" /\ snapshot \in Snapshot
      /\ tokenOf \in Seq(Device) /\ used \subseteq DOMAIN tokenOf /\ revoked \subseteq Device
      /\ stored \in 0..MaxTokens
  BY DEF RegisterReturns, At, GInv, Control, OpsMatch, CallSound, TypeOK
<1>1. /\ tokenOf' = Append(tokenOf, t) /\ access' = t /\ forgotten' = FALSE
      /\ Await(c, k, snapshot) /\ UNCHANGED <<controller, stored, used, revoked>> /\ Aside
      /\ Len(tokenOf') <= MaxTokens
  BY DEF RegisterReturns, WithinBounds
<1>2. /\ Len(tokenOf') = t /\ t \in DOMAIN tokenOf' /\ DOMAIN tokenOf \subseteq DOMAIN tokenOf'
      /\ t \in Nat /\ t >= 1
  BY <1>0, <1>1
<1>3. t \in Device /\ t \in 0..MaxTokens
  BY <1>1, <1>2, GlassesBounds DEF Device, Token
<1>4. tokenOf' \in Seq(Device) /\ used' \subseteq DOMAIN tokenOf'
  BY <1>0, <1>1, <1>2, <1>3
<1> HIDE DEF t
<1>5. k \in Call /\ k.op = "pair" /\ k.pc = "save" /\ k.token = t
  BY <1>0, <1>3 DEF Call
<1> HIDE DEF k
<1>6. CallSound(k) /\ SameWork(call[c], k) /\ StatusGoes(k, snapshot)
  BY <1>0, <1>5 DEF CallSound, SameWork, StatusGoes, Refreshing, Loading, Prompts
<1>7. Goes /\ OnlyCall(c) /\ call'[c] = k /\ snapshot' = snapshot
  BY <1>0, <1>1, <1>5, <1>6, AwaitGoes, AwaitIsItsOwn
<1>8. CallLegit(call[c])'
  BY <1>1, <1>2, <1>5, <1>7 DEF CallLegit
<1>9. TokensKnown'
  BY <1>1, <1>2, <1>7, <1>8, TokensStay DEF GInv, OnlyCall
<1> QED
  BY <1>0, <1>1, <1>3, <1>4, <1>7, <1>9, AsideKeeps

\* The bridge rotates the token, or refuses it and revokes the device.
LEMMA AuthRefreshKeeps ==
    ASSUME GInv, NEW c \in Calls, AuthRefresh(c)
    PROVE  GInv'
<1> DEFINE t == call[c].token
           n == Len(tokenOf) + 1
           good == [call[c] EXCEPT !.pc = "refreshed", !.token = n]
           bad == [call[c] EXCEPT !.pc = "refreshed", !.token = 0]
<1>0. /\ call[c] \in Call /\ call[c].pc = "refresh" /\ CallSound(call[c])
      /\ call[c].op \in Refreshing /\ snapshot \in Snapshot
      /\ tokenOf \in Seq(Device) /\ used \subseteq DOMAIN tokenOf /\ revoked \subseteq Device
      /\ Len(tokenOf) <= MaxTokens
      /\ stored \in 0..MaxTokens /\ access \in 0..MaxTokens /\ forgotten \in BOOLEAN
      /\ t \in DOMAIN tokenOf /\ ~forgotten
  BY DEF AuthRefresh, At, GInv, Control, OpsMatch, CallSound, TypeOK,
         TokensKnown, CallLegit, Brings
<1>1. tokenOf[t] \in Device
  BY <1>0
<1>2. /\ UNCHANGED <<access, controller, stored, forgotten>> /\ Aside
      /\ Len(tokenOf') <= MaxTokens
  BY DEF AuthRefresh, WithinBounds
<1>3. CASE /\ tokenOf' = Append(tokenOf, tokenOf[t]) /\ used' = used \cup {t}
           /\ Await(c, good, snapshot) /\ UNCHANGED revoked
  <2>1. /\ n \in DOMAIN tokenOf' /\ DOMAIN tokenOf \subseteq DOMAIN tokenOf'
        /\ n \in 0..MaxTokens /\ tokenOf' \in Seq(Device)
    BY <1>0, <1>1, <1>2, <1>3, GlassesBounds
  <2>2. used' \subseteq DOMAIN tokenOf'
    BY <1>0, <1>3, <2>1
  <2> HIDE DEF n
  <2>3. /\ good \in Call /\ good.op = call[c].op /\ good.pc = "refreshed"
        /\ good.token = n /\ good.prompt = call[c].prompt /\ good.aborted = call[c].aborted
    BY <1>0, <2>1 DEF Call
  <2> HIDE DEF good
  <2>4. CallSound(good) /\ SameWork(call[c], good) /\ StatusGoes(good, snapshot)
    BY <1>0, <2>3 DEF CallSound, SameWork, StatusGoes
  <2>5. Goes /\ OnlyCall(c) /\ call'[c] = good /\ snapshot' = snapshot
    BY <1>0, <1>2, <1>3, <2>3, <2>4, AwaitGoes, AwaitIsItsOwn
  <2>6. CallLegit(call[c])'
    BY <1>0, <1>2, <2>1, <2>3, <2>5 DEF CallLegit
  <2>7. TokensKnown'
    BY <1>2, <2>1, <2>5, <2>6, TokensStay DEF GInv, OnlyCall
  <2> QED
    BY <1>0, <1>2, <1>3, <2>1, <2>2, <2>5, <2>7, AsideKeeps
<1>4. CASE /\ revoked' = revoked \cup {tokenOf[t]}
           /\ Await(c, bad, snapshot) /\ UNCHANGED <<tokenOf, used>>
  <2>3. /\ bad \in Call /\ bad.op = call[c].op /\ bad.pc = "refreshed"
        /\ bad.token = 0 /\ bad.prompt = call[c].prompt /\ bad.aborted = call[c].aborted
    BY <1>0, ZeroIsThere DEF Call
  <2> HIDE DEF bad
  <2>4. CallSound(bad) /\ SameWork(call[c], bad) /\ StatusGoes(bad, snapshot)
    BY <1>0, <2>3 DEF CallSound, SameWork, StatusGoes
  <2>5. Goes /\ OnlyCall(c) /\ call'[c] = bad /\ snapshot' = snapshot
    BY <1>0, <1>2, <1>4, <2>3, <2>4, AwaitGoes, AwaitIsItsOwn
  <2>6. CallLegit(call[c])'
    BY <1>0, <1>2, <2>3, <2>5 DEF CallLegit
  <2>7. TokensKnown'
    BY <1>2, <1>4, <2>5, <2>6, TokensStay DEF GInv, OnlyCall
  <2>8. revoked' \subseteq Device
    BY <1>0, <1>1, <1>4
  <2> QED
    BY <1>0, <1>2, <1>4, <2>5, <2>7, <2>8, AsideKeeps
<1> QED
  BY <1>3, <1>4 DEF AuthRefresh

LEMMA RefreshReturnsKeeps ==
    ASSUME GInv, NEW c \in Calls, RefreshReturns(c)
    PROVE  GInv'
<1> DEFINE k == [call[c] EXCEPT !.pc = "save"]
<1>0. /\ call[c] \in Call /\ call[c].pc = "refreshed" /\ CallSound(call[c])
      /\ call[c].op \in Refreshing /\ snapshot \in Snapshot
      /\ tokenOf \in Seq(Device) /\ stored \in 0..MaxTokens /\ forgotten \in BOOLEAN
      /\ call[c].token \in DOMAIN tokenOf /\ ~forgotten
  BY DEF RefreshReturns, At, GInv, Control, OpsMatch, CallSound, TypeOK,
         TokensKnown, CallLegit, Brings
<1>1. /\ access' = tokenOf[call[c].token] /\ Await(c, k, snapshot)
      /\ UNCHANGED <<controller, stored, bridge, forgotten>> /\ Aside
  BY DEF RefreshReturns
<1>2. access' \in 0..MaxTokens
  <2>1. access' \in Device
    BY <1>0, <1>1
  <2> QED
    BY <2>1, GlassesBounds DEF Device, Token
<1>3. /\ k \in Call /\ k.op = call[c].op /\ k.pc = "save" /\ k.token = call[c].token
      /\ k.prompt = call[c].prompt /\ k.aborted = call[c].aborted
  BY <1>0 DEF Call
<1> HIDE DEF k
<1>4. CallSound(k) /\ SameWork(call[c], k) /\ StatusGoes(k, snapshot)
  BY <1>0, <1>3 DEF CallSound, SameWork, StatusGoes
<1>5. Goes /\ OnlyCall(c) /\ call'[c] = k /\ snapshot' = snapshot
  BY <1>0, <1>1, <1>3, <1>4, AwaitGoes, AwaitIsItsOwn
<1>6. CallLegit(call[c])'
  BY <1>0, <1>1, <1>3, <1>5 DEF CallLegit, bridge
<1>7. TokensKnown'
  BY <1>1, <1>5, <1>6, TokensStay DEF GInv, OnlyCall, bridge
<1> QED
  BY <1>0, <1>1, <1>2, <1>5, <1>7, AsideKeeps

LEMMA SaveKeeps ==
    ASSUME GInv, NEW c \in Calls, SaveReturns(c)
    PROVE  GInv'
<1> DEFINE k == [call[c] EXCEPT !.pc = "health", !.token = 0]
           s == [snapshot EXCEPT !.registration = call[c].token, !.fresh = TRUE]
           t == [s EXCEPT !.mode = "paired_v1"]
<1>0. /\ call[c] \in Call /\ call[c].pc = "save" /\ CallSound(call[c])
      /\ call[c].op \in Refreshing /\ snapshot \in Snapshot /\ call[c].token \in 0..MaxTokens
      /\ access \in 0..MaxTokens /\ forgotten \in BOOLEAN
      /\ call[c].token \in DOMAIN tokenOf /\ ~forgotten
  BY DEF SaveReturns, At, GInv, Control, OpsMatch, CallSound, TypeOK, Call,
         TokensKnown, CallLegit, Brings
<1>1. /\ stored' = call[c].token
      /\ UNCHANGED <<access, bridge, forgotten>> /\ Aside
      /\ \/ call[c].op = "pair" /\ Await(c, k, s) /\ UNCHANGED controller
         \/ call[c].op # "pair" /\ Proceed(c, call[c], t)
  BY DEF SaveReturns
<1>2. /\ s \in Snapshot /\ s.status = snapshot.status /\ s.pending = snapshot.pending
      /\ s.registration = call[c].token
      /\ t \in Snapshot /\ t.status = snapshot.status /\ t.pending = snapshot.pending
      /\ t.registration = call[c].token
  BY <1>0 DEF Snapshot
<1> HIDE DEF s, t
<1>3. /\ k \in Call /\ k.op = call[c].op /\ k.pc = "health"
      /\ k.prompt = call[c].prompt /\ k.aborted = call[c].aborted
  BY <1>0, ZeroIsThere DEF Call
<1> HIDE DEF k
<1>4. /\ CallSound(k) /\ SameWork(call[c], k) /\ StatusGoes(k, s) /\ ~Brings(k)
      /\ SameWork(call[c], call[c]) /\ StatusGoes(call[c], t)
  BY <1>0, <1>2, <1>3 DEF CallSound, SameWork, StatusGoes, Brings
<1>5. /\ Goes /\ OnlyCall(c) /\ ~Brings(call'[c])
      /\ snapshot'.registration = call[c].token
  <2>1. CASE call[c].op = "pair" /\ Await(c, k, s) /\ UNCHANGED controller
    BY <1>2, <1>3, <1>4, <2>1, AwaitGoes, AwaitIsItsOwn
  <2>2. CASE call[c].op # "pair" /\ Proceed(c, call[c], t)
    BY <1>0, <1>2, <1>4, <2>2, ProceedGoes DEF Refreshing
  <2> QED
    BY <1>1, <2>1, <2>2
<1>6. Legit(stored)' /\ Legit(snapshot.registration)'
  BY <1>0, <1>1, <1>5 DEF Legit, bridge
<1>7. TokensKnown'
  BY <1>1, <1>5, <1>6, TokensStay DEF GInv, OnlyCall, bridge
<1> QED
  BY <1>0, <1>1, <1>5, <1>7, AsideKeeps

\* The methods that end, and the turn that is tried again.
LEMMA LastReturnsKeep ==
    ASSUME GInv, NEW c \in Calls,
           \/ RefreshRefused(c) \/ HealthReturns(c) \/ TurnReturns(c) \/ TurnRefused(c)
           \/ TurnNeedsRefresh(c) \/ RequestFails(c)
    PROVE  GInv'
<1>0. /\ call[c] \in Call /\ CallSound(call[c]) /\ snapshot \in Snapshot
      /\ access \in 0..MaxTokens /\ 0 \in 0..MaxTokens /\ call[c].prompt \in 0..MaxPrompts
      /\ stored \in 0..MaxTokens /\ forgotten \in BOOLEAN
  BY ZeroIsThere DEF GInv, Control, OpsMatch, TypeOK, Call
<1>1. ASSUME NEW s \in Snapshot, s.status \in Settled,
             s.registration = snapshot.registration, Ends(c, s), Aside,
             access' \in 0..MaxTokens, UNCHANGED <<stored, bridge, forgotten>>
      PROVE  GInv'
  BY <1>1, EndsGoes, EndIsItsOwn, EndKeeps
<1>2. ASSUME Fails(c), Aside, UNCHANGED <<access, stored, bridge, forgotten>>
      PROVE  GInv'
  BY <1>0, <1>2, FailGoes, EndKeeps
<1>3. CASE RefreshRefused(c) \/ TurnRefused(c)
  <2>1. /\ Ends(c, RepairRequired(snapshot)) /\ access' = 0
        /\ UNCHANGED <<stored, bridge, forgotten>> /\ Aside
    BY <1>3 DEF RefreshRefused, TurnRefused
  <2> QED
    BY <1>0, <1>1, <2>1, SnapshotUpdates
<1>4. CASE HealthReturns(c)
  <2>1. PICK m \in {"none", "paired_v1", "legacy_v0"} : Ends(c, Connected(snapshot, m))
    BY <1>4 DEF HealthReturns
  <2> QED
    BY <1>0, <1>1, <1>4, <2>1, SnapshotUpdates DEF HealthReturns
<1>5. CASE TurnReturns(c)
  BY <1>0, <1>1, <1>5, SnapshotUpdates DEF TurnReturns
<1>6. CASE RequestFails(c)
  BY <1>2, <1>6 DEF RequestFails
<1>7. CASE TurnNeedsRefresh(c) /\ snapshot.registration = 0
  BY <1>2, <1>7 DEF TurnNeedsRefresh
<1>8. CASE TurnNeedsRefresh(c) /\ snapshot.registration # 0
  <2> DEFINE k == [call[c] EXCEPT !.op = "retry"]
  <2>1. /\ call[c].op = "prompt" /\ call[c].pc = "turn"
        /\ StartRefresh(c, k, snapshot) /\ UNCHANGED controller
        /\ UNCHANGED <<access, stored, bridge, forgotten>> /\ Aside
    BY <1>8 DEF TurnNeedsRefresh, At
  <2>2. /\ k \in Call /\ k.op = "retry" /\ k.pc = "turn"
        /\ k.prompt = call[c].prompt /\ k.aborted = call[c].aborted
    BY <1>0, <2>1 DEF Call
  <2> HIDE DEF k
  <2>3. CallSound(k) /\ SameWork(call[c], k) /\ StatusGoes(k, snapshot) /\ k.op \in Refreshing
    BY <1>0, <2>1, <2>2
       DEF CallSound, SameWork, StatusGoes, Refreshing, Loading, Prompts
  <2>4. /\ Goes /\ OnlyCall(c)
        /\ call'[c].pc = "refresh" /\ call'[c].token = snapshot.registration
        /\ snapshot'.registration = snapshot.registration
    BY <1>0, <2>1, <2>2, <2>3, StartRefreshGoes
  <2>5. CallLegit(call[c])'
    BY <1>8, <2>1, <2>4 DEF GInv, TokensKnown, Legit, CallLegit, bridge
  <2>6. TokensKnown'
    BY <2>1, <2>4, <2>5, TokensStay DEF GInv, OnlyCall, bridge
  <2> QED
    BY <1>0, <2>1, <2>4, <2>6, AsideKeeps
<1> QED
  BY <1>3, <1>4, <1>5, <1>6, <1>7, <1>8

\* What is forgotten is gone from everywhere it could come back from, or the
\* history says that it may.
LEMMA ClearKeeps ==
    ASSUME GInv, NEW c \in Calls, ClearReturns(c)
    PROVE  GInv'
<1> DEFINE s == [Forgotten(snapshot) EXCEPT
                    !.status = IF legacy THEN "connected" ELSE "unpaired",
                    !.mode = IF legacy THEN "legacy_v0" ELSE "none"]
<1>1. /\ s \in Snapshot /\ s.status \in Settled /\ s.registration = 0
  BY ZeroIsThere DEF Forgotten, Snapshot, Settled, GInv, TypeOK
<1>2. /\ stored' = 0 /\ access' = 0 /\ forgotten' = (\A x \in Calls : ~MayRegister(x))
      /\ Ends(c, s) /\ UNCHANGED bridge /\ Aside
  BY DEF ClearReturns
<1> HIDE DEF s
<1>3. Goes /\ OnlyCall(c) /\ ~Brings(call'[c]) /\ snapshot' = s
  BY <1>1, <1>2, EndsGoes, EndIsItsOwn
<1>4. \A x \in Calls : CallLegit(call[x])'
  BY <1>2, <1>3 DEF GInv, TokensKnown, CallLegit, Brings, OnlyCall, MayRegister, bridge
<1>5. TokensKnown'
  BY <1>1, <1>2, <1>3, <1>4 DEF TokensKnown, Legit
<1> QED
  BY <1>2, <1>3, <1>5, ZeroIsThere, AsideKeeps

-----------------------------------------------------------------------------
(* The others. *)

LEMMA RestartKeeps ==
    ASSUME GInv, NEW c \in Calls, Restart(c)
    PROVE  GInv'
<1>1. /\ Idle \in Call /\ [Idle EXCEPT !.op = "boot", !.pc = "load"] \in Call
      /\ [Idle EXCEPT !.op = "boot", !.pc = "load"].op = "boot"
      /\ [Idle EXCEPT !.op = "boot", !.pc = "load"].pc = "load"
  BY ZeroIsThere DEF Idle, Call
<1>2. /\ call' \in [Calls -> Call] /\ call'[c].op = "boot" /\ call'[c].pc = "load"
      /\ \A x \in Calls : x # c => call'[x] = Idle
  BY <1>1 DEF Restart, Booting
<1>3. snapshot' \in Snapshot /\ snapshot'.status = "booting" /\ snapshot'.registration = 0
  BY ZeroIsThere DEF Restart, Blank, Snapshot
<1>4. TypeOK'
  BY <1>2, <1>3, ZeroIsThere DEF GInv, TypeOK, Restart, bridge
<1>5. Control'
  <2>1. OpsMatch'
    BY <1>2, IdleCall DEF OpsMatch, CallSound, Prompts
  <2>2. ControllerPrompts' /\ WorkIsUnderWay'
    BY <1>2, <1>3 DEF Restart, ControllerPrompts, WorkIsUnderWay
  <2> QED
    BY <2>1, <2>2 DEF Control
<1>6. TokensKnown'
  BY <1>2, <1>3, IdleCall
     DEF Restart, GInv, TokensKnown, Legit, CallLegit, Brings, bridge
<1> QED
  BY <1>4, <1>5, <1>6 DEF GInv

LEMMA OthersKeep ==
    ASSUME GInv,
           \/ Expire \/ SetLegacyBridgeToken \/ UNCHANGED vars
           \/ \E t \in Token : Revoke(t)
    PROVE  GInv'
<1>1. CASE Expire
  <2>1. /\ snapshot' \in Snapshot /\ snapshot'.status = snapshot.status
        /\ snapshot'.registration = snapshot.registration
        /\ snapshot'.pending = snapshot.pending
        /\ UNCHANGED <<controller, call, backgrounded, prompts, cancelled>> /\ Elsewhere
    BY <1>1 DEF Expire, GInv, TypeOK, Snapshot
  <2>2. Goes
    BY <2>1 DEF Goes, GInv, TypeOK, Control, OpsMatch, ControllerPrompts, Prompting,
                WorkIsUnderWay
  <2> QED
    BY <2>1, <2>2, ElsewhereKeeps DEF GInv, TypeOK
<1>2. CASE SetLegacyBridgeToken \/ UNCHANGED vars
  <2>1. /\ UNCHANGED <<snapshot, access, controller, backgrounded, stored, call,
                       prompts, tokenOf, used, revoked, forgotten, cancelled>>
        /\ legacy' \in BOOLEAN
    BY <1>2 DEF SetLegacyBridgeToken, vars, bridge, history, GInv, TypeOK
  <2>2. TypeOK'
    BY <2>1 DEF GInv, TypeOK
  <2>3. Control' /\ TokensKnown'
    BY <2>1 DEF GInv, Control, OpsMatch, ControllerPrompts, Prompting, WorkIsUnderWay,
                TokensKnown, Legit, CallLegit
  <2> QED
    BY <2>2, <2>3 DEF GInv
<1>3. CASE \E t \in Token : Revoke(t)
  <2>1. PICK t \in DOMAIN tokenOf :
            /\ revoked' = revoked \cup {tokenOf[t]}
            /\ UNCHANGED <<snapshot, access, controller, backgrounded, legacy, stored,
                           call, prompts, tokenOf, used, forgotten, cancelled>>
    BY <1>3 DEF Revoke, history
  <2>2. tokenOf[t] \in Device
    BY DEF GInv, TypeOK
  <2>3. TypeOK'
    BY <2>1, <2>2 DEF GInv, TypeOK
  <2>4. Control' /\ TokensKnown'
    BY <2>1 DEF GInv, Control, OpsMatch, ControllerPrompts, Prompting, WorkIsUnderWay,
                TokensKnown, Legit, CallLegit
  <2> QED
    BY <2>3, <2>4 DEF GInv
<1> QED
  BY <1>1, <1>2, <1>3

LEMMA Step == GInv /\ [Next]_vars => GInv'
<1> SUFFICES ASSUME GInv, [Next]_vars PROVE GInv'
  OBVIOUS
<1>1. ASSUME NEW c \in Calls, Press(c) PROVE GInv'
  BY <1>1, PressKeeps, SendPromptKeeps DEF Press
<1>2. ASSUME NEW c \in Calls, Return(c) PROVE GInv'
  BY <1>2, LoadKeeps, RegisterKeeps, AuthRefreshKeeps, RefreshReturnsKeeps, SaveKeeps,
     LastReturnsKeep, ClearKeeps DEF Return
<1> QED
  BY <1>1, <1>2, RestartKeeps, GestureKeeps, OthersKeep DEF Next

LEMMA Inductive == Spec => []GInv
  BY InitInv, Step, PTL DEF Spec

-----------------------------------------------------------------------------
(* Theorems. *)

(* The app stays in states of the right types: every status is one that a   *)
(* screen knows, every token was issued.                                    *)
THEOREM GlassesTypeCorrect == Spec => []TypeOK
<1>1. GInv => TypeOK
  BY DEF GInv
<1> QED
  BY Inductive, <1>1, PTL

(* No status promises an end that no method will bring, and the prompt on   *)
(* the display is the one that a double click stops, however many methods   *)
(* run at one time and whatever the host does to the app.                   *)
THEOREM PromisesHaveMethods == Spec => []WorkIsUnderWay
<1>1. GInv => WorkIsUnderWay
  BY DEF GInv, Control
<1> QED
  BY Inductive, <1>1, PTL

(* A registration that repair has forgotten comes back from nowhere but a   *)
(* method that already had one on its way.                                  *)
THEOREM RepairIsFinal == Spec => []RepairForgets
<1>1. GInv => RepairForgets
  BY DEF GInv, TokensKnown, Legit, RepairForgets
<1> QED
  BY Inductive, <1>1, PTL

=============================================================================
