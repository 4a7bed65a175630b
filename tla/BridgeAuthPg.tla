----------------------------- MODULE BridgeAuthPg -----------------------------
(***************************************************************************)
(* The handlers of bridge/src/services.ts over the Postgres store          *)
(* (bridge/src/postgres-store.ts): what BridgeAuth shows for the in-memory *)
(* store, looked at one SQL statement at a time.                           *)
(*                                                                         *)
(* withTransaction runs a handler between BEGIN and COMMIT on a client of  *)
(* the pool and answers every throw with ROLLBACK.  The database is at its *)
(* default isolation level: a select sees the last committed row, an       *)
(* update waits for the transaction that holds the row and then overwrites *)
(* it.  The selects lock nothing, and the updates name the row by its key  *)
(* and write back every column of the object read before, those another    *)
(* transaction has changed since included.                                 *)
(*                                                                         *)
(* Time does not pass here: expiry is BridgeAuth's subject.  Nothing is    *)
(* deleted, and an access token, once handed out, stays valid.             *)
(***************************************************************************)
EXTENDS Integers, Sequences, FiniteSets, Relation

CONSTANTS
    Sessions, Bootstraps, Devices, Tokens, Tickets,   \* primary keys
    Txs,          \* clients of the pool: transactions that may run at once
    Kinds,        \* the requests that arrive
    MaxAttempts,  \* config.pairingCodeMaxAttempts
    MaxGuesses,   \* bound on the wrong codes that are tried for a session
    None

ASSUME NoneIsNoId ==
    None \notin Sessions \cup Bootstraps \cup Devices \cup Tokens \cup Tickets
ASSUME PgBounds == MaxAttempts \in Nat \ {0} /\ MaxGuesses \in Nat
ASSUME KindsArrive ==
    Kinds \subseteq {"redeem", "guess", "register", "refresh", "revoke", "issue",
                    "consume", "touch"}

VARIABLES
    db,          \* committed rows, by <<table, key>>
    tx,          \* the transaction each client of the pool runs
    connection,  \* the relay's activeConnections: a ticket for each device
    guesses,     \* history: wrong codes answered, by session
    replayed,    \* history: devices whose replayed token was answered as reuse
    revokeDone,  \* history: devices whose revoke route reached the relay
    opened       \* history: connections opened, by ticket

vars == <<db, tx, connection, guesses, replayed, revokeDone, opened>>

-----------------------------------------------------------------------------
(* Rows.                                                                     *)

Keys == ({"pairing"} \X Sessions) \cup ({"bootstrap"} \X Bootstraps)
          \cup ({"device", "family"} \X Devices)
          \cup ({"refresh"} \X Tokens) \cup ({"ticket"} \X Tickets)

NoRow(table) ==
    CASE table = "pairing"   -> [status |-> "none", failedAttempts |-> 0]
      [] table = "bootstrap" -> [status |-> "none", session |-> None]
      [] table = "device"    -> [status |-> "none", bootstrap |-> None]
      [] table = "family"    -> [status |-> "none"]
      [] table = "refresh"   -> [status |-> "none", device |-> None,
                                 used |-> FALSE, revoked |-> FALSE]
      [] table = "ticket"    -> [status |-> "none", device |-> None]

-----------------------------------------------------------------------------
(* Handlers as the statements they send.                                     *)

\* check: a select whose row may make the handler throw; read: one that may
\* not; list: the tokens of a family, each then updated unless revoked.
Check(table, role) == [op |-> "check", table |-> table, role |-> role]
Read(table, role)  == [op |-> "read",  table |-> table, role |-> role]
Write(table, role) == [op |-> "write", table |-> table, role |-> role]
RevokeTokens       == [op |-> "list",  table |-> "refresh", role |-> "device"]

RedeemProgram ==
    << Check("pairing", "session"), Write("pairing", "session"),
       Write("bootstrap", "bootstrap") >>

\* A wrong code for the session: the attempt is counted, then the 400 or 423.
GuessProgram ==
    << Check("pairing", "session"), Write("pairing", "session") >>

RegisterProgram ==
    << Check("bootstrap", "bootstrap"), Write("bootstrap", "bootstrap"),
       Read("pairing", "session"), Write("device", "device"),
       Write("family", "device"), Write("refresh", "new") >>

\* Mutant of RefreshProgram: the family row is read and not looked at.
RefreshProgramNoFamily ==
    << Check("device", "device"), Check("refresh", "token"),
       Read("family", "device"), Write("refresh", "token"),
       Write("refresh", "new"), Write("device", "device") >>

RefreshProgram ==
    << Check("device", "device"), Check("refresh", "token"),
       Check("family", "device"), Write("refresh", "token"),
       Write("refresh", "new"), Write("device", "device") >>

\* The same three selects found the token used: markFamilyCompromised.
ReplayProgram ==
    << Check("device", "device"), Check("refresh", "token"),
       Check("family", "device"), Write("family", "device"),
       Write("device", "device"), RevokeTokens >>

\* Mutants of RevokeProgram: the tokens first; the family forgotten.
RevokeProgramTokensFirst ==
    << Read("device", "device"), RevokeTokens, Write("device", "device"),
       Read("family", "device"), Write("family", "device") >>
RevokeProgramNoFamily ==
    << Read("device", "device"), Write("device", "device"), RevokeTokens >>

RevokeProgram ==
    << Read("device", "device"), Write("device", "device"),
       Read("family", "device"), Write("family", "device"), RevokeTokens >>

\* verifyAccessToken selects the device before the transaction begins.
IssueProgram ==
    << Check("device", "device"), Write("ticket", "ticket"),
       Read("device", "device"), Write("device", "device") >>

\* touchDevice runs outside any transaction: nothing is held between the two.
TouchProgram == << Read("device", "device"), Write("device", "device") >>

\* Mutant of ConsumeProgram: the ticket is not marked.
ConsumeProgramUnmarked ==
    << Check("ticket", "ticket"), Check("device", "device"),
       Write("device", "device") >>

ConsumeProgram ==
    << Check("ticket", "ticket"), Check("device", "device"),
       Write("ticket", "ticket"), Write("device", "device") >>

Program(kind) ==
    CASE kind = "redeem"   -> RedeemProgram
      [] kind = "guess"    -> GuessProgram
      [] kind = "register" -> RegisterProgram
      [] kind = "refresh"  -> RefreshProgram
      [] kind = "replay"   -> ReplayProgram
      [] kind = "revoke"   -> RevokeProgram
      [] kind = "issue"    -> IssueProgram
      [] kind = "consume"  -> ConsumeProgram
      [] kind = "touch"    -> TouchProgram

\* Mutant of Throws: the attempt's count is committed before the 400.
ThrowsReplayOnly == {"replay"}

\* The handlers whose last act is to throw.
Throws == {"guess", "replay"}

\* What a select must find for the handler to go on.
Required(table) ==
    CASE table = "pairing"   -> "pending"
      [] table = "bootstrap" -> "unused"
      [] table = "device"    -> "active"
      [] table = "family"    -> "active"
      [] table = "refresh"   -> "stored"
      [] table = "ticket"    -> "unused"

-----------------------------------------------------------------------------
(* Transactions.                                                             *)

Roles == {"session", "bootstrap", "device", "token", "new", "ticket"}
NoArg == [r \in Roles |-> None]
Empty == [k \in {} |-> None]

\* Rows laid over others, and one row laid over them.
Over(rows, others) ==
    [key \in DOMAIN rows \cup DOMAIN others |->
        IF key \in DOMAIN rows THEN rows[key] ELSE others[key]]
Put(key, row, others) ==
    [k \in DOMAIN others \cup {key} |-> IF k = key THEN row ELSE others[k]]

\* copy: the handler's objects; wrote: its uncommitted rows, which it holds
\* locked; todo: tokens still to be revoked; answer: committed, and the answer
\* on its way to the handler.  late is history: the family was revoked before
\* the request arrived.
Idle == [kind |-> "idle", arg |-> NoArg, pc |-> 1, copy |-> Empty,
         wrote |-> Empty, todo |-> {}, answer |-> FALSE, late |-> FALSE]

Init ==
    /\ db = [key \in Keys |-> NoRow(key[1])]
    /\ tx = [x \in Txs |-> Idle]
    /\ connection = [d \in Devices |-> None]
    /\ guesses = [s \in Sessions |-> 0]
    /\ replayed = {}
    /\ revokeDone = {}
    /\ opened = [k \in Tickets |-> 0]

Running(x) == tx[x].kind # "idle" /\ ~tx[x].answer
Finished(x) ==
    Running(x) /\ tx[x].pc > Len(Program(tx[x].kind)) /\ tx[x].todo = {}
Statement(x) == Program(tx[x].kind)[tx[x].pc]
At(x, ops) ==
    /\ Running(x)
    /\ tx[x].todo = {}
    /\ tx[x].pc <= Len(Program(tx[x].kind))
    /\ Statement(x).op \in ops
Key(x) == <<Statement(x).table, tx[x].arg[Statement(x).role]>>

Holds(x, key) == key \in DOMAIN tx[x].wrote

\* A select sees the transaction's own writes and the committed rest.
Row(x, key) == IF Holds(x, key) THEN tx[x].wrote[key] ELSE db[key]

\* An update waits for the transaction that holds the row.
Wanted(x) ==
    IF At(x, {"write"}) THEN {Key(x)}
    ELSE {<<"refresh", t>> : t \in tx[x].todo}
Waits == [x, y \in Txs |-> x # y /\ \E key \in Wanted(x) : Holds(y, key)]
Deadlocked(x) == TransitiveClosure(Waits, Txs)[x, x]

\* Mutant of RolledBack: the client goes back with its transaction open.
RolledBackOpen(x) == [tx EXCEPT ![x] = [Idle EXCEPT !.wrote = tx[x].wrote]]

\* ROLLBACK: the rows are released and the client goes back to the pool.
RolledBack(x) == [tx EXCEPT ![x] = Idle]

-----------------------------------------------------------------------------
(* Requests arrive.                                                          *)

\* Ids are random: one that a request has drawn is drawn by no other.
Fresh(table, role, ids) ==
    {i \in ids : db[<<table, i>>].status = "none"
                   /\ \A x \in Txs : tx[x].arg[role] # i}

Stored(table, ids) == {i \in ids : db[<<table, i>>].status # "none"}

\* What a request names, and the ids its handler draws.
Arguments(kind) ==
    CASE kind = "redeem" ->
           {[NoArg EXCEPT !["session"] = s, !["bootstrap"] = b] :
               s \in Stored("pairing", Sessions),
               b \in Fresh("bootstrap", "bootstrap", Bootstraps)}
      [] kind = "guess" ->
           {[NoArg EXCEPT !["session"] = s] :
               s \in {r \in Stored("pairing", Sessions) :
                          guesses[r] < MaxGuesses}}
      [] kind = "register" ->
           {[NoArg EXCEPT !["bootstrap"] = b, !["device"] = d, !["new"] = t,
                          !["session"] = db[<<"bootstrap", b>>].session] :
               b \in Stored("bootstrap", Bootstraps),
               d \in Fresh("device", "device", Devices),
               t \in Fresh("refresh", "new", Tokens)}
      [] kind = "refresh" ->
           {[NoArg EXCEPT !["token"] = t, !["new"] = u,
                          !["device"] = db[<<"refresh", t>>].device] :
               t \in Stored("refresh", Tokens),
               u \in Fresh("refresh", "new", Tokens)}
      [] kind \in {"revoke", "touch"} ->
           {[NoArg EXCEPT !["device"] = d] : d \in Stored("device", Devices)}
      [] kind = "issue" ->
           {[NoArg EXCEPT !["device"] = d, !["ticket"] = k] :
               d \in Stored("device", Devices),
               k \in Fresh("ticket", "ticket", Tickets)}
      [] kind = "consume" ->
           {[NoArg EXCEPT !["ticket"] = k,
                          !["device"] = db[<<"ticket", k>>].device] :
               k \in Stored("ticket", Tickets)}

Begin(x, kind, arg) ==
    /\ tx[x] = Idle
    /\ tx' = [tx EXCEPT ![x] =
           [Idle EXCEPT !.kind = kind, !.arg = arg,
                        !.late = arg["device"] # None
                            /\ db[<<"family", arg["device"]>>].status = "revoked"]]
    /\ UNCHANGED <<db, connection, guesses, replayed, revokeDone, opened>>

\* createPairingSession: one insert.
CreatePairingSession(s) ==
    /\ db[<<"pairing", s>>].status = "none"
    /\ db' = [db EXCEPT ![<<"pairing", s>>].status = "pending"]
    /\ UNCHANGED <<tx, connection, guesses, replayed, revokeDone, opened>>

-----------------------------------------------------------------------------
(* Statements.                                                               *)

\* What the row just selected makes of the request.  With the family row in
\* hand refreshSession looks at the token it selected before.
Verdict(x, row) ==
    LET st == Statement(x)
        family == tx[x].kind = "refresh" /\ st.table = "family"
        token == tx[x].copy[<<"refresh", tx[x].arg["token"]>>]
    IN  IF st.op = "check" /\ row.status # Required(st.table) THEN "throw"
        ELSE IF ~family THEN tx[x].kind
        ELSE IF token.used THEN "replay"
        ELSE IF token.revoked THEN "throw"
        ELSE "refresh"

Select(x) ==
    /\ At(x, {"check", "read"})
    /\ LET row == Row(x, Key(x))
           verdict == Verdict(x, row)
       IN  tx' = IF verdict = "throw" THEN RolledBack(x)
                 ELSE [tx EXCEPT ![x].kind = verdict,
                                 ![x].copy = Put(Key(x), row, @),
                                 ![x].pc = @ + 1]
    /\ UNCHANGED <<db, connection, guesses, replayed, revokeDone, opened>>

AfterWrongCode(row) ==
    [row EXCEPT !.failedAttempts = @ + 1,
                !.status = IF row.failedAttempts + 1 >= MaxAttempts
                           THEN "locked" ELSE @]

\* The whole row an update or insert sends: the copy with the handler's change.
\* updateDevice after a touch, a refresh, an issue or a consume changes only
\* lastSeenAt and lastIp, which are abstracted away.
Written(x) ==
    LET st == Statement(x)
        kind == tx[x].kind
        arg == tx[x].arg
        copy == tx[x].copy[Key(x)]
    IN  CASE st.table = "pairing" /\ kind = "redeem" ->
               [copy EXCEPT !.status = "redeemed"]
          [] st.table = "pairing" /\ kind = "guess" -> AfterWrongCode(copy)
          [] st.table = "bootstrap" /\ kind = "redeem" ->
               [status |-> "unused", session |-> arg["session"]]
          [] st.table = "bootstrap" /\ kind = "register" ->
               [copy EXCEPT !.status = "used"]
          [] st.table = "device" /\ kind = "register" ->
               [status |-> "active", bootstrap |-> arg["bootstrap"]]
          [] st.table = "device" /\ kind = "revoke" ->
               [copy EXCEPT !.status = "revoked"]
          [] st.table = "device" /\ kind = "replay" ->
               [copy EXCEPT !.status = "repair_required"]
          [] st.table = "device" /\ kind \in {"refresh", "issue", "consume",
                                              "touch"} -> copy
          [] st.table = "family" /\ kind = "register" -> [status |-> "active"]
          [] st.table = "family" /\ kind = "revoke" ->
               [copy EXCEPT !.status = "revoked"]
          [] st.table = "family" /\ kind = "replay" ->
               [copy EXCEPT !.status = "compromised"]
          [] st.table = "refresh" /\ st.role = "new" ->
               [status |-> "stored", device |-> arg["device"],
                used |-> FALSE, revoked |-> FALSE]
          [] st.table = "refresh" /\ st.role = "token" ->
               [copy EXCEPT !.used = TRUE]
          [] st.table = "ticket" /\ kind = "issue" ->
               [status |-> "unused", device |-> arg["device"]]
          [] st.table = "ticket" /\ kind = "consume" ->
               [copy EXCEPT !.status = "used"]

Update(x) ==
    /\ At(x, {"write"})
    /\ \A y \in Txs \ {x} : ~Holds(y, Key(x))
    /\ tx' = [tx EXCEPT ![x].wrote = Put(Key(x), Written(x), @),
                        ![x].pc = @ + 1]
    /\ UNCHANGED <<db, connection, guesses, replayed, revokeDone, opened>>

\* listRefreshTokensByFamilyId: the unrevoked tokens are the ones to update.
ListTokens(x) ==
    /\ At(x, {"list"})
    /\ LET family == {t \in Tokens :
                         Row(x, <<"refresh", t>>).device = tx[x].arg["device"]}
       IN  tx' = [tx EXCEPT
               ![x].copy = Over([key \in {"refresh"} \X family |-> Row(x, key)], @),
               ![x].todo = {t \in family : ~Row(x, <<"refresh", t>>).revoked},
               ![x].pc = @ + 1]
    /\ UNCHANGED <<db, connection, guesses, replayed, revokeDone, opened>>

\* One turn of the loop over them.  The loop goes by issue time; two loops on
\* one family never overlap, so the order makes no difference here.
RevokeToken(x, t) ==
    LET key == <<"refresh", t>>
    IN  /\ Running(x)
        /\ t \in tx[x].todo
        /\ \A y \in Txs \ {x} : ~Holds(y, key)
        /\ tx' = [tx EXCEPT
               ![x].wrote = Put(key, [tx[x].copy[key] EXCEPT !.revoked = TRUE], @),
               ![x].todo = @ \ {t}]
        /\ UNCHANGED <<db, connection, guesses, replayed, revokeDone, opened>>

-----------------------------------------------------------------------------
(* The end of a transaction.                                                 *)

\* COMMIT; the handler hears of it later.
Commit(x) ==
    /\ Finished(x)
    /\ tx[x].kind \notin Throws
    /\ db' = Over(tx[x].wrote, db)
    /\ tx' = [tx EXCEPT ![x] = [Idle EXCEPT !.kind = tx[x].kind,
                                            !.arg = tx[x].arg,
                                            !.answer = TRUE]]
    /\ UNCHANGED <<connection, guesses, replayed, revokeDone, opened>>

\* The handler throws on purpose: ROLLBACK, and the client gets its 4xx.
Throw(x) ==
    /\ Finished(x)
    /\ tx[x].kind \in Throws
    /\ tx' = RolledBack(x)
    /\ guesses' = IF tx[x].kind = "guess"
                  THEN [guesses EXCEPT ![tx[x].arg["session"]] = @ + 1]
                  ELSE guesses
    /\ replayed' = IF tx[x].kind = "replay"
                   THEN replayed \cup {tx[x].arg["device"]}
                   ELSE replayed
    /\ UNCHANGED <<db, connection, revokeDone, opened>>

\* A statement fails: a lost connection, or Postgres picks a deadlock victim.
Fail(x) ==
    /\ Running(x)
    /\ tx' = RolledBack(x)
    /\ UNCHANGED <<db, connection, guesses, replayed, revokeDone, opened>>

\* The answer to COMMIT arrives.  An upgrade goes on to bindConnection, a
\* revocation to relay.revokeDevice.
Bound(x) == [connection EXCEPT ![tx[x].arg["device"]] = tx[x].arg["ticket"]]
Dropped(x) == [connection EXCEPT ![tx[x].arg["device"]] = None]

Return(x) ==
    /\ tx[x].answer
    /\ tx' = [tx EXCEPT ![x] = Idle]
    /\ CASE tx[x].kind = "consume" ->
              /\ connection' = Bound(x)
              /\ opened' = [opened EXCEPT ![tx[x].arg["ticket"]] = @ + 1]
              /\ UNCHANGED revokeDone
         [] tx[x].kind = "revoke" ->
              /\ connection' = Dropped(x)
              /\ revokeDone' = revokeDone \cup {tx[x].arg["device"]}
              /\ UNCHANGED opened
         [] OTHER -> UNCHANGED <<connection, opened, revokeDone>>
    /\ UNCHANGED <<db, guesses, replayed>>

ConnectionClosed(d) ==
    /\ connection[d] # None
    /\ connection' = [connection EXCEPT ![d] = None]
    /\ UNCHANGED <<db, tx, guesses, replayed, revokeDone, opened>>

\* The bridge process dies: open transactions are rolled back by the server,
\* committed answers are lost, and the relay starts with no connection.
BridgeRestart ==
    /\ tx' = [x \in Txs |-> Idle]
    /\ connection' = [d \in Devices |-> None]
    /\ UNCHANGED <<db, guesses, replayed, revokeDone, opened>>

-----------------------------------------------------------------------------
Next ==
    \/ \E s \in Sessions : CreatePairingSession(s)
    \/ \E x \in Txs, kind \in Kinds : \E arg \in Arguments(kind) :
           Begin(x, kind, arg)
    \/ \E x \in Txs : Select(x)
    \/ \E x \in Txs : Update(x)
    \/ \E x \in Txs : ListTokens(x)
    \/ \E x \in Txs, t \in Tokens : RevokeToken(x, t)
    \/ \E x \in Txs : Commit(x)
    \/ \E x \in Txs : Throw(x)
    \/ \E x \in Txs : Fail(x)
    \/ \E x \in Txs : Return(x)
    \/ \E d \in Devices : ConnectionClosed(d)
    \/ BridgeRestart

Spec == Init /\ [][Next]_vars

\* A statement that was sent is executed; one that waits for a row is next in
\* line when the row is released (Postgres queues the waiters, hence SF); a
\* deadlock is detected.  Nothing makes a connection fail or a request arrive.
Fairness ==
    \A x \in Txs :
        /\ WF_vars(Select(x) \/ ListTokens(x) \/ Commit(x) \/ Throw(x)
                     \/ Return(x))
        /\ SF_vars(Update(x) \/ \E t \in Tokens : RevokeToken(x, t))
        /\ WF_vars(Deadlocked(x) /\ Fail(x))

FairSpec == Spec /\ Fairness

-----------------------------------------------------------------------------
(* Properties.                                                               *)

Rows ==
    [status : {"none", "pending", "redeemed", "locked"},
     failedAttempts : 0..MaxAttempts]
    \cup [status : {"none", "unused", "used"}, session : Sessions \cup {None}]
    \cup [status : {"none", "active", "revoked"},
          bootstrap : Bootstraps \cup {None}]
    \cup [status : {"none", "active", "revoked"}]
    \cup [status : {"none", "stored"}, device : Devices \cup {None},
          used : BOOLEAN, revoked : BOOLEAN]
    \cup [status : {"none", "unused", "used"}, device : Devices \cup {None}]

\* Committed rows have their types, no two transactions hold the same row, and
\* a transaction holds only rows of its own request.
TypeOK ==
    /\ db \in [Keys -> Rows]
    /\ connection \in [Devices -> Tickets \cup {None}]
    /\ \A x, y \in Txs :
           x # y => DOMAIN tx[x].wrote \cap DOMAIN tx[y].wrote = {}
    /\ \A x \in Txs : tx[x].kind = "idle" => tx[x] = Idle

\* A redeemed pairing session stays redeemed, although a wrong code may have
\* read it while it was still pending and writes back the whole row: what
\* saves it is that the wrong code's transaction never commits.
RedeemedIsFinal ==
    [][\A s \in Sessions : db[<<"pairing", s>>].status = "redeemed"
           => db'[<<"pairing", s>>].status = "redeemed"]_vars

\* A used refresh token never becomes unused: the loops that revoke a family
\* write back token rows they read before, but only after they have locked the
\* device row, which every refresh has to write before it commits.
UsedIsFinal ==
    [][\A t \in Tokens : db[<<"refresh", t>>].used
           => db'[<<"refresh", t>>].used]_vars

\* A refresh that arrives after a device was revoked mints nothing, even when
\* an older request has written the device row's "active" back since: the
\* family row is the backstop.
LateRefreshMintsNothing ==
    \A x \in Txs : tx[x].kind = "refresh" /\ tx[x].late => tx[x].wrote = Empty

\* A revocation is committed as a whole and no concurrent request takes back
\* any part of the family's half of it.
RevokedTogether ==
    [][\A d \in Devices :
        /\ db'[<<"device", d>>].status = "revoked"
               => db'[<<"family", d>>].status = "revoked"
        /\ db[<<"family", d>>].status = "revoked"
               => db'[<<"family", d>>].status = "revoked"]_vars

\* The relay's connections were admitted by tickets whose use is committed:
\* no failure of the database, and no restart, lets a ticket open a
\* connection and be valid still.
BoundAfterCommit ==
    \A d \in Devices : connection[d] # None
        => db[<<"ticket", connection[d]>>] = [status |-> "used", device |-> d]

\* Every request is answered: transactions that wait for each other in a ring
\* (a refresh locks token and then device, a revocation device and then
\* token) are broken up, and no error leaves a row locked.
EveryTransactionEnds ==
    \A x \in Txs : tx[x].kind # "idle" ~> tx[x].kind = "idle"

-----------------------------------------------------------------------------
(* Statements of the architecture document that this store does not meet.    *)

\* Sections 7.3 and 7.4: "lock the pairing session after 10 failed attempts";
\* "if an already-used refresh token is presented again: mark the family as
\* `compromised`".  What a handler records before it answers with an error
\* stays recorded.
RecordedBeforeTheError ==
    /\ \A s \in Sessions : guesses[s] >= MaxAttempts
           => db[<<"pairing", s>>].status # "pending"
    /\ \A d \in replayed : db[<<"family", d>>].status # "active"

\* Section 13: "Single-use pairing codes, single-use bootstrap tokens,
\* single-use websocket tickets".
CredentialsAreSingleUse ==
    /\ \A b, c \in Stored("bootstrap", Bootstraps) :
           db[<<"bootstrap", b>>].session = db[<<"bootstrap", c>>].session
               => b = c
    /\ \A d, e \in Stored("device", Devices) :
           db[<<"device", d>>].bootstrap = db[<<"device", e>>].bootstrap
               => d = e
    /\ \A k \in Tickets : opened[k] <= 1

\* Section 8.6: "Auth service marks device and token family revoked"; "Relay
\* closes the websocket with a revoke close code".
RevocationHolds ==
    \A d \in revokeDone :
        /\ db[<<"device", d>>].status = "revoked"
        /\ connection[d] = None

=============================================================================
