------------------------- MODULE BridgeAuthPg_proofs -------------------------
(***************************************************************************)
(* Theorems about BridgeAuthPg, for any number of clients of the pool and  *)
(* any ids.                                                                *)
(*                                                                         *)
(* Selects lock nothing, so what keeps a row final is which rows the       *)
(* transactions hold when they commit.  IndInv says of each transaction by *)
(* itself (TxSound) what its copies and its uncommitted rows are, and how  *)
(* far they agree with the database; what another transaction commits in   *)
(* the meantime disturbs that only where Later says, and the rows both     *)
(* would have to hold (LocksDisjoint) rule out the rest.                   *)
(***************************************************************************)
EXTENDS BridgeAuthPg, TLAPS

\* The requests a transaction may be at work for.
AllKinds == {"redeem", "guess", "register", "refresh", "replay", "revoke", "issue",
             "consume", "touch"}

\* The rows of each table that are ever committed.  "locked", "repair_required"
\* and "compromised" are not among them: their transactions throw.
IsRow(table, row) ==
    /\ table = "pairing" =>
           row \in [status : {"none", "pending", "redeemed"}, failedAttempts : {0}]
    /\ table = "bootstrap" =>
           \/ row = NoRow("bootstrap")
           \/ row \in [status : {"unused", "used"}, session : Sessions]
    /\ table = "device" =>
           \/ row = NoRow("device")
           \/ row \in [status : {"active", "revoked"}, bootstrap : Bootstraps]
    /\ table = "family" => row \in [status : {"none", "active", "revoked"}]
    /\ table = "refresh" =>
           \/ row = NoRow("refresh")
           \/ row \in [status : {"stored"}, device : Devices, used : BOOLEAN,
                       revoked : BOOLEAN]
    /\ table = "ticket" =>
           \/ row = NoRow("ticket")
           \/ row \in [status : {"unused", "used"}, device : Devices]

\* The committed rows fit each other.
DbSound(data) ==
    /\ data = [key \in Keys |-> data[key]]
    /\ \A key \in Keys : IsRow(key[1], data[key])
    /\ \A d \in Devices :
           /\ data[<<"device", d>>].status = "none" => data[<<"family", d>>].status = "none"
           /\ data[<<"device", d>>].status = "revoked"
                  => data[<<"family", d>>].status = "revoked"
    /\ \A t \in Tokens : data[<<"refresh", t>>].status # "none" =>
           data[<<"device", data[<<"refresh", t>>].device>>].status # "none"
    /\ \A k \in Tickets : data[<<"ticket", k>>].status # "none" =>
           data[<<"device", data[<<"ticket", k>>].device>>].status # "none"

-----------------------------------------------------------------------------
(* One transaction, k, over the database data. *)

IsTx(k) == k = [kind |-> k.kind, arg |-> k.arg, pc |-> k.pc, copy |-> k.copy,
                wrote |-> k.wrote, todo |-> k.todo, answer |-> k.answer,
                late |-> k.late]

Clean(k) == k.copy = Empty /\ k.wrote = Empty /\ k.todo = {} /\ k.pc = 1

Shape(k) ==
    /\ IsTx(k)
    /\ k.kind \in AllKinds \cup {"idle"}
    /\ k.kind = "idle" => k = Idle
    /\ k.kind # "idle" => k.pc \in 1..(Len(Program(k.kind)) + 1)
    /\ k.answer => Clean(k)
    /\ k.todo # {} => k.kind \in {"revoke", "replay"} /\ k.pc = Len(Program(k.kind)) + 1
    /\ \A t \in k.todo : t \in Tokens /\ <<"refresh", t>> \in DOMAIN k.copy

\* What its request named.
ArgsSound(k) ==
    /\ k.kind \in {"redeem", "guess", "register"} => k.arg["session"] \in Sessions
    /\ k.kind \in {"redeem", "register"} => k.arg["bootstrap"] \in Bootstraps
    /\ k.kind \in {"register", "refresh", "replay", "revoke", "touch", "issue", "consume"}
           => k.arg["device"] \in Devices
    /\ k.kind \in {"refresh", "replay"} => k.arg["token"] \in Tokens
    /\ k.kind \in {"register", "refresh", "replay"} => k.arg["new"] \in Tokens
    /\ k.kind \in {"issue", "consume"} => k.arg["ticket"] \in Tickets

\* What exists does not go away.
NamedExists(k, data) ==
    /\ k.kind \in {"refresh", "replay", "revoke", "touch", "issue", "consume"}
           => data[<<"device", k.arg["device"]>>].status # "none"
    /\ k.kind \in {"refresh", "replay"}
           => data[<<"refresh", k.arg["token"]>>].device = k.arg["device"]
    /\ k.kind = "consume" => data[<<"ticket", k.arg["ticket"]>>].device = k.arg["device"]

\* The statements behind it, by what they do; the row each is about.
Past(k, ops) == {i \in 1..(k.pc - 1) : Program(k.kind)[i].op \in ops}
KeyOf(k, i) == <<Program(k.kind)[i].table, k.arg[Program(k.kind)[i].role]>>

\* It has a copy of every row it selected, and the copy's device and, for a
\* device that was revoked, the family's status are those of the database.
CopiesSound(k, data) ==
    /\ \A i \in Past(k, {"check", "read"}) : KeyOf(k, i) \in DOMAIN k.copy
    /\ \A key \in DOMAIN k.copy :
           /\ key \in Keys
           /\ IsRow(key[1], k.copy[key])
           /\ key[1] = "bootstrap" => k.copy[key].session \in Sessions
           /\ key[1] = "device" =>
                  /\ k.copy[key].status # "none"
                  /\ k.copy[key].status = "revoked"
                         => data[<<"family", key[2]>>].status = "revoked"
           /\ key[1] \in {"refresh", "ticket"} =>
                  k.copy[key].device \in Devices /\ data[key].device = k.copy[key].device

\* It holds the rows that it has updated, and no others.
LocksSound(k) ==
    /\ \A i \in Past(k, {"write"}) : KeyOf(k, i) \in DOMAIN k.wrote
    /\ \A key \in DOMAIN k.wrote :
           \/ \E i \in Past(k, {"write"}) : key = KeyOf(k, i)
           \/ /\ Past(k, {"list"}) # {}
              /\ \E t \in Tokens : key = <<"refresh", t>>
              /\ key \in DOMAIN k.copy

\* What it will commit.
RowSound(kind, arg, key, row, data) ==
    /\ IsRow(key[1], row)
    /\ key[1] = "pairing" => row.status = "redeemed"
    /\ key[1] = "device" =>
           /\ row.status # "none"
           /\ row.status = "revoked" =>
                  kind = "revoke" \/ data[<<"family", key[2]>>].status = "revoked"
    /\ key[1] = "family" /\ kind = "revoke" => row.status = "revoked"
    /\ key[1] \in {"refresh", "ticket"} => row.device = arg["device"]
    /\ key[1] = "refresh" /\ kind = "refresh" /\ key[2] = arg["token"] => row.used
    /\ key[1] = "ticket" /\ kind = "consume" => row.status = "used"

RowsSound(k, data) ==
    k.kind \notin Throws => \A key \in DOMAIN k.wrote :
        RowSound(k.kind, k.arg, key, k.wrote[key], data)

\* A revocation has its family's tokens before it, as they are.
TokensSeen(k, data) ==
    k.kind = "revoke" => \A key \in DOMAIN k.copy : key[1] = "refresh" =>
        /\ Past(k, {"list"}) # {}
        /\ k.copy[key].device = k.arg["device"]
        /\ data[key].used => k.copy[key].used
        /\ key \in DOMAIN k.wrote => k.wrote[key].used = k.copy[key].used

\* A refresh that came late gets no further than the family row.
LateSound(k, data) ==
    k.late /\ k.kind = "refresh" =>
        /\ k.wrote = Empty
        /\ k.pc <= 3
        /\ data[<<"family", k.arg["device"]>>].status = "revoked"

\* A ticket whose use was committed.
Admitted(d, t, data) == data[<<"ticket", t>>] = [status |-> "used", device |-> d]

AnswerSound(k, data) ==
    k.answer /\ k.kind = "consume" => Admitted(k.arg["device"], k.arg["ticket"], data)

TxSound(k, data) ==
    /\ Shape(k)
    /\ ArgsSound(k)
    /\ NamedExists(k, data)
    /\ CopiesSound(k, data)
    /\ LocksSound(k)
    /\ RowsSound(k, data)
    /\ TokensSeen(k, data)
    /\ LateSound(k, data)
    /\ AnswerSound(k, data)

-----------------------------------------------------------------------------
(* Transactions together. *)

\* Where the ids are used that a handler draws.
Draws(kind) ==
    CASE kind = "register" -> {<<"device", "device">>, <<"family", "device">>,
                               <<"refresh", "new">>}
      [] kind \in {"refresh", "replay"} -> {<<"refresh", "new">>}
      [] kind = "issue" -> {<<"ticket", "ticket">>}
      [] OTHER -> {}

\* Until it is committed, nobody else knows an id that a handler drew.
DrawsSound ==
    \A x \in Txs : ~tx[x].answer => \A draw \in Draws(tx[x].kind) :
        /\ db[<<draw[1], tx[x].arg[draw[2]]>>].status = "none"
        /\ \A y \in Txs \ {x} : tx[y].arg[draw[2]] # tx[x].arg[draw[2]]

LocksDisjoint ==
    \A x, y \in Txs : x # y => DOMAIN tx[x].wrote \cap DOMAIN tx[y].wrote = {}

ConnectionsSound ==
    /\ connection \in [Devices -> Tickets \cup {None}]
    /\ \A d \in Devices : connection[d] # None => Admitted(d, connection[d], db)

IndInv ==
    /\ DbSound(db)
    /\ tx = [x \in Txs |-> tx[x]]
    /\ \A x \in Txs : TxSound(tx[x], db)
    /\ DrawsSound
    /\ LocksDisjoint
    /\ ConnectionsSound

-----------------------------------------------------------------------------
(* Programs. *)

Tables == {"pairing", "bootstrap", "device", "family", "refresh", "ticket"}

\* The statements one by one.
LEMMA ProgramsAre ==
    /\ /\ Len(Program("redeem")) = 3
       /\ Program("redeem")[1] = Check("pairing", "session")
       /\ Program("redeem")[2] = Write("pairing", "session")
       /\ Program("redeem")[3] = Write("bootstrap", "bootstrap")
    /\ /\ Len(Program("guess")) = 2
       /\ Program("guess")[1] = Check("pairing", "session")
       /\ Program("guess")[2] = Write("pairing", "session")
    /\ /\ Len(Program("register")) = 6
       /\ Program("register")[1] = Check("bootstrap", "bootstrap")
       /\ Program("register")[2] = Write("bootstrap", "bootstrap")
       /\ Program("register")[3] = Read("pairing", "session")
       /\ Program("register")[4] = Write("device", "device")
       /\ Program("register")[5] = Write("family", "device")
       /\ Program("register")[6] = Write("refresh", "new")
    /\ /\ Len(Program("refresh")) = 6
       /\ Program("refresh")[1] = Check("device", "device")
       /\ Program("refresh")[2] = Check("refresh", "token")
       /\ Program("refresh")[3] = Check("family", "device")
       /\ Program("refresh")[4] = Write("refresh", "token")
       /\ Program("refresh")[5] = Write("refresh", "new")
       /\ Program("refresh")[6] = Write("device", "device")
    /\ /\ Len(Program("replay")) = 6
       /\ Program("replay")[1] = Check("device", "device")
       /\ Program("replay")[2] = Check("refresh", "token")
       /\ Program("replay")[3] = Check("family", "device")
       /\ Program("replay")[4] = Write("family", "device")
       /\ Program("replay")[5] = Write("device", "device")
       /\ Program("replay")[6] = RevokeTokens
    /\ /\ Len(Program("revoke")) = 5
       /\ Program("revoke")[1] = Read("device", "device")
       /\ Program("revoke")[2] = Write("device", "device")
       /\ Program("revoke")[3] = Read("family", "device")
       /\ Program("revoke")[4] = Write("family", "device")
       /\ Program("revoke")[5] = RevokeTokens
    /\ /\ Len(Program("issue")) = 4
       /\ Program("issue")[1] = Check("device", "device")
       /\ Program("issue")[2] = Write("ticket", "ticket")
       /\ Program("issue")[3] = Read("device", "device")
       /\ Program("issue")[4] = Write("device", "device")
    /\ /\ Len(Program("consume")) = 4
       /\ Program("consume")[1] = Check("ticket", "ticket")
       /\ Program("consume")[2] = Check("device", "device")
       /\ Program("consume")[3] = Write("ticket", "ticket")
       /\ Program("consume")[4] = Write("device", "device")
    /\ /\ Len(Program("touch")) = 2
       /\ Program("touch")[1] = Read("device", "device")
       /\ Program("touch")[2] = Write("device", "device")
<1>1. /\ Len(Program("redeem")) = 3
      /\ Program("redeem")[1] = Check("pairing", "session")
      /\ Program("redeem")[2] = Write("pairing", "session")
      /\ Program("redeem")[3] = Write("bootstrap", "bootstrap")
  BY DEF Program, RedeemProgram
<1>2. /\ Len(Program("guess")) = 2
      /\ Program("guess")[1] = Check("pairing", "session")
      /\ Program("guess")[2] = Write("pairing", "session")
  BY DEF Program, GuessProgram
<1>3. /\ Len(Program("register")) = 6
      /\ Program("register")[1] = Check("bootstrap", "bootstrap")
      /\ Program("register")[2] = Write("bootstrap", "bootstrap")
      /\ Program("register")[3] = Read("pairing", "session")
      /\ Program("register")[4] = Write("device", "device")
      /\ Program("register")[5] = Write("family", "device")
      /\ Program("register")[6] = Write("refresh", "new")
  BY DEF Program, RegisterProgram
<1>4. /\ Len(Program("refresh")) = 6
      /\ Program("refresh")[1] = Check("device", "device")
      /\ Program("refresh")[2] = Check("refresh", "token")
      /\ Program("refresh")[3] = Check("family", "device")
      /\ Program("refresh")[4] = Write("refresh", "token")
      /\ Program("refresh")[5] = Write("refresh", "new")
      /\ Program("refresh")[6] = Write("device", "device")
  BY DEF Program, RefreshProgram
<1>5. /\ Len(Program("replay")) = 6
      /\ Program("replay")[1] = Check("device", "device")
      /\ Program("replay")[2] = Check("refresh", "token")
      /\ Program("replay")[3] = Check("family", "device")
      /\ Program("replay")[4] = Write("family", "device")
      /\ Program("replay")[5] = Write("device", "device")
      /\ Program("replay")[6] = RevokeTokens
  BY DEF Program, ReplayProgram
<1>6. /\ Len(Program("revoke")) = 5
      /\ Program("revoke")[1] = Read("device", "device")
      /\ Program("revoke")[2] = Write("device", "device")
      /\ Program("revoke")[3] = Read("family", "device")
      /\ Program("revoke")[4] = Write("family", "device")
      /\ Program("revoke")[5] = RevokeTokens
  BY DEF Program, RevokeProgram
<1>7. /\ Len(Program("issue")) = 4
      /\ Program("issue")[1] = Check("device", "device")
      /\ Program("issue")[2] = Write("ticket", "ticket")
      /\ Program("issue")[3] = Read("device", "device")
      /\ Program("issue")[4] = Write("device", "device")
  BY DEF Program, IssueProgram
<1>8. /\ Len(Program("consume")) = 4
      /\ Program("consume")[1] = Check("ticket", "ticket")
      /\ Program("consume")[2] = Check("device", "device")
      /\ Program("consume")[3] = Write("ticket", "ticket")
      /\ Program("consume")[4] = Write("device", "device")
  BY DEF Program, ConsumeProgram
<1>9. /\ Len(Program("touch")) = 2
      /\ Program("touch")[1] = Read("device", "device")
      /\ Program("touch")[2] = Write("device", "device")
  BY DEF Program, TouchProgram
<1> QED
  BY <1>1, <1>2, <1>3, <1>4, <1>5, <1>6, <1>7, <1>8, <1>9

\* An update names its row by the argument of its table, and writes back a
\* copy unless it inserts.
WriteSound(kind, i) ==
    LET st == Program(kind)[i]
        copied == \E j \in 1..(i - 1) :
                      /\ Program(kind)[j].op \in {"check", "read"}
                      /\ Program(kind)[j].table = st.table
                      /\ Program(kind)[j].role = st.role
    IN  \/ /\ st.table = "pairing" /\ st.role = "session"
           /\ kind \in {"redeem", "guess"} /\ copied
        \/ /\ st.table = "bootstrap" /\ st.role = "bootstrap"
           /\ kind = "redeem" \/ (kind = "register" /\ copied)
        \/ /\ st.table = "device" /\ st.role = "device"
           /\ \/ kind = "register"
              \/ /\ kind \in {"refresh", "replay", "revoke", "issue", "consume", "touch"}
                 /\ copied
        \/ /\ st.table = "family" /\ st.role = "device"
           /\ kind = "register" \/ (kind \in {"revoke", "replay"} /\ copied)
        \/ /\ st.table = "refresh"
           /\ \/ st.role = "new" /\ kind \in {"register", "refresh"}
              \/ st.role = "token" /\ kind = "refresh" /\ copied
        \/ /\ st.table = "ticket" /\ st.role = "ticket"
           /\ kind = "issue" \/ (kind = "consume" /\ copied)

\* A select names its row by the argument of its table, too, and comes before
\* the updates of that table.
SelectSound(kind, i) ==
    LET st == Program(kind)[i]
    IN  /\ \/ /\ st.table = "pairing" /\ st.role = "session"
              /\ kind \in {"redeem", "guess", "register"}
           \/ st.table = "bootstrap" /\ st.role = "bootstrap" /\ kind = "register"
           \/ /\ st.table = "device" /\ st.role = "device"
              /\ kind \in {"refresh", "replay", "revoke", "issue", "consume", "touch"}
           \/ /\ st.table = "family" /\ st.role = "device"
              /\ kind \in {"refresh", "replay", "revoke"}
           \/ st.table = "refresh" /\ st.role = "token" /\ kind \in {"refresh", "replay"}
           \/ st.table = "ticket" /\ st.role = "ticket" /\ kind = "consume"
        /\ \A j \in 1..(i - 1) :
               /\ Program(kind)[j].op = "write" => Program(kind)[j].table # st.table
               /\ Program(kind)[j].op # "list"

\* The list comes last.
ListSound(kind, i) ==
    /\ kind \in {"revoke", "replay"}
    /\ i = Len(Program(kind))
    /\ \A j \in 1..(i - 1) :
           /\ Program(kind)[j].op = "write" => Program(kind)[j].table \in {"device", "family"}
           /\ Program(kind)[j].op # "list"

LEMMA ProgramsSound ==
    ASSUME NEW kind \in AllKinds, NEW i \in 1..Len(Program(kind))
    PROVE  /\ Program(kind)[i].op \in {"check", "read", "write", "list"}
           /\ Program(kind)[i].op = "write" => WriteSound(kind, i)
           /\ Program(kind)[i].op \in {"check", "read"} => SelectSound(kind, i)
           /\ Program(kind)[i].op = "list" => ListSound(kind, i)
<1> USE DEF Check, Read, Write, RevokeTokens, WriteSound, SelectSound, ListSound
<1>1. CASE kind = "redeem"
  <2>1. CASE i = 1
    BY <1>1, <2>1, ProgramsAre
  <2>2. CASE i = 2
    BY <1>1, <2>2, ProgramsAre
  <2>3. CASE i = 3
    BY <1>1, <2>3, ProgramsAre
  <2> i \in 1..3
    BY <1>1, ProgramsAre
  <2> QED
    BY <2>1, <2>2, <2>3
<1>2. CASE kind = "guess"
  <2>1. CASE i = 1
    BY <1>2, <2>1, ProgramsAre
  <2>2. CASE i = 2
    BY <1>2, <2>2, ProgramsAre
  <2> i \in 1..2
    BY <1>2, ProgramsAre
  <2> QED
    BY <2>1, <2>2
<1>3. CASE kind = "register"
  <2>1. CASE i = 1
    BY <1>3, <2>1, ProgramsAre
  <2>2. CASE i = 2
    BY <1>3, <2>2, ProgramsAre
  <2>3. CASE i = 3
    BY <1>3, <2>3, ProgramsAre
  <2>4. CASE i = 4
    BY <1>3, <2>4, ProgramsAre
  <2>5. CASE i = 5
    BY <1>3, <2>5, ProgramsAre
  <2>6. CASE i = 6
    BY <1>3, <2>6, ProgramsAre
  <2> i \in 1..6
    BY <1>3, ProgramsAre
  <2> QED
    BY <2>1, <2>2, <2>3, <2>4, <2>5, <2>6
<1>4. CASE kind = "refresh"
  <2>1. CASE i = 1
    BY <1>4, <2>1, ProgramsAre
  <2>2. CASE i = 2
    BY <1>4, <2>2, ProgramsAre
  <2>3. CASE i = 3
    BY <1>4, <2>3, ProgramsAre
  <2>4. CASE i = 4
    BY <1>4, <2>4, ProgramsAre
  <2>5. CASE i = 5
    BY <1>4, <2>5, ProgramsAre
  <2>6. CASE i = 6
    BY <1>4, <2>6, ProgramsAre
  <2> i \in 1..6
    BY <1>4, ProgramsAre
  <2> QED
    BY <2>1, <2>2, <2>3, <2>4, <2>5, <2>6
<1>5. CASE kind = "replay"
  <2>1. CASE i = 1
    BY <1>5, <2>1, ProgramsAre
  <2>2. CASE i = 2
    BY <1>5, <2>2, ProgramsAre
  <2>3. CASE i = 3
    BY <1>5, <2>3, ProgramsAre
  <2>4. CASE i = 4
    BY <1>5, <2>4, ProgramsAre
  <2>5. CASE i = 5
    BY <1>5, <2>5, ProgramsAre
  <2>6. CASE i = 6
    BY <1>5, <2>6, ProgramsAre
  <2> i \in 1..6
    BY <1>5, ProgramsAre
  <2> QED
    BY <2>1, <2>2, <2>3, <2>4, <2>5, <2>6
<1>6. CASE kind = "revoke"
  <2>1. CASE i = 1
    BY <1>6, <2>1, ProgramsAre
  <2>2. CASE i = 2
    BY <1>6, <2>2, ProgramsAre
  <2>3. CASE i = 3
    BY <1>6, <2>3, ProgramsAre
  <2>4. CASE i = 4
    BY <1>6, <2>4, ProgramsAre
  <2>5. CASE i = 5
    BY <1>6, <2>5, ProgramsAre
  <2> i \in 1..5
    BY <1>6, ProgramsAre
  <2> QED
    BY <2>1, <2>2, <2>3, <2>4, <2>5
<1>7. CASE kind = "issue"
  <2>1. CASE i = 1
    BY <1>7, <2>1, ProgramsAre
  <2>2. CASE i = 2
    BY <1>7, <2>2, ProgramsAre
  <2>3. CASE i = 3
    BY <1>7, <2>3, ProgramsAre
  <2>4. CASE i = 4
    BY <1>7, <2>4, ProgramsAre
  <2> i \in 1..4
    BY <1>7, ProgramsAre
  <2> QED
    BY <2>1, <2>2, <2>3, <2>4
<1>8. CASE kind = "consume"
  <2>1. CASE i = 1
    BY <1>8, <2>1, ProgramsAre
  <2>2. CASE i = 2
    BY <1>8, <2>2, ProgramsAre
  <2>3. CASE i = 3
    BY <1>8, <2>3, ProgramsAre
  <2>4. CASE i = 4
    BY <1>8, <2>4, ProgramsAre
  <2> i \in 1..4
    BY <1>8, ProgramsAre
  <2> QED
    BY <2>1, <2>2, <2>3, <2>4
<1>9. CASE kind = "touch"
  <2>1. CASE i = 1
    BY <1>9, <2>1, ProgramsAre
  <2>2. CASE i = 2
    BY <1>9, <2>2, ProgramsAre
  <2> i \in 1..2
    BY <1>9, ProgramsAre
  <2> QED
    BY <2>1, <2>2
<1> QED
  BY <1>1, <1>2, <1>3, <1>4, <1>5, <1>6, <1>7, <1>8, <1>9 DEF AllKinds

-----------------------------------------------------------------------------
(* Keys and rows. *)

LEMMA KeysOfTables ==
    /\ \A s \in Sessions : <<"pairing", s>> \in Keys
    /\ \A b \in Bootstraps : <<"bootstrap", b>> \in Keys
    /\ \A d \in Devices : <<"device", d>> \in Keys /\ <<"family", d>> \in Keys
    /\ \A t \in Tokens : <<"refresh", t>> \in Keys
    /\ \A k \in Tickets : <<"ticket", k>> \in Keys
  BY DEF Keys

LEMMA TablesOfKeys ==
    ASSUME NEW key \in Keys
    PROVE  /\ key = <<key[1], key[2]>>
           /\ key[1] \in Tables
           /\ key[1] = "pairing" => key[2] \in Sessions
           /\ key[1] = "bootstrap" => key[2] \in Bootstraps
           /\ key[1] \in {"device", "family"} => key[2] \in Devices
           /\ key[1] = "refresh" => key[2] \in Tokens
           /\ key[1] = "ticket" => key[2] \in Tickets
  BY DEF Keys, Tables

\* A row of a table that names a device is there, and the other way round.
LEMMA RowsOfTables ==
    ASSUME NEW row
    PROVE  /\ IsRow("refresh", row) => (row.device \in Devices <=> row.status # "none")
           /\ IsRow("refresh", row) => row.used \in BOOLEAN /\ row.revoked \in BOOLEAN
           /\ IsRow("refresh", row) /\ row.status = "none" => ~row.used
           /\ IsRow("ticket", row) => (row.device \in Devices <=> row.status # "none")
           /\ IsRow("bootstrap", row) => (row.session \in Sessions <=> row.status # "none")
           /\ IsRow("device", row) => row.status \in {"none", "active", "revoked"}
           /\ IsRow("family", row) => row.status \in {"none", "active", "revoked"}
           /\ IsRow("family", row) => row = [status |-> row.status]
           /\ IsRow("pairing", row) => row.status \in {"none", "pending", "redeemed"}
<1>1. ASSUME IsRow("refresh", row)
      PROVE  /\ row.device \in Devices <=> row.status # "none"
             /\ row.used \in BOOLEAN /\ row.revoked \in BOOLEAN
             /\ row.status = "none" => ~row.used
  <2>1. CASE row = NoRow("refresh")
    <3>1. /\ row.status = "none" /\ row.device = None
          /\ row.used = FALSE /\ row.revoked = FALSE
      BY <2>1 DEF NoRow
    <3> QED
      BY <3>1, NoneIsNoId
  <2>2. CASE row \in [status : {"stored"}, device : Devices, used : BOOLEAN, revoked : BOOLEAN]
    BY <2>2
  <2> QED
    BY <1>1, <2>1, <2>2 DEF IsRow
<1>2. IsRow("ticket", row) => (row.device \in Devices <=> row.status # "none")
  BY NoneIsNoId DEF IsRow, NoRow
<1>3. IsRow("bootstrap", row) => (row.session \in Sessions <=> row.status # "none")
  BY NoneIsNoId DEF IsRow, NoRow
<1>4. /\ IsRow("device", row) => row.status \in {"none", "active", "revoked"}
      /\ IsRow("family", row) => row.status \in {"none", "active", "revoked"}
      /\ IsRow("pairing", row) => row.status \in {"none", "pending", "redeemed"}
  BY DEF IsRow, NoRow
<1>5. IsRow("family", row) => row = [status |-> row.status]
  BY DEF IsRow
<1> QED
  BY <1>1, <1>2, <1>3, <1>4, <1>5

LEMMA IsRowOfTable ==
    ASSUME NEW table, NEW row
    PROVE  /\ table \notin Tables => IsRow(table, row)
           /\ \A other \in Tables : table = other => (IsRow(table, row) <=> IsRow(other, row))
  BY DEF IsRow, Tables

-----------------------------------------------------------------------------
(* What a transaction holds, by table. *)

WroteSound(k, key) ==
    \/ key = <<"pairing", k.arg["session"]>> /\ k.kind \in {"redeem", "guess"}
    \/ key = <<"bootstrap", k.arg["bootstrap"]>> /\ k.kind \in {"redeem", "register"}
    \/ /\ key = <<"device", k.arg["device"]>>
       /\ k.kind \in {"register", "refresh", "replay", "revoke", "issue", "consume", "touch"}
    \/ key = <<"family", k.arg["device"]>> /\ k.kind \in {"register", "revoke", "replay"}
    \/ key = <<"refresh", k.arg["new"]>> /\ k.kind \in {"register", "refresh"}
    \/ key = <<"refresh", k.arg["token"]>> /\ k.kind = "refresh"
    \/ /\ \E t \in Tokens : key = <<"refresh", t>>
       /\ k.kind \in {"revoke", "replay"}
       /\ Past(k, {"list"}) # {}
       /\ key \in DOMAIN k.copy
    \/ key = <<"ticket", k.arg["ticket"]>> /\ k.kind \in {"issue", "consume"}

LEMMA PastIsProgram ==
    ASSUME NEW k, Shape(k), NEW ops, NEW i \in Past(k, ops)
    PROVE  /\ k.kind \in AllKinds
           /\ i \in 1..Len(Program(k.kind)) /\ i < k.pc
           /\ Program(k.kind)[i].op \in ops
<1>1. k.kind # "idle"
  BY DEF Shape, Past, Idle
<1>2. Len(Program(k.kind)) \in Nat
  BY <1>1, ProgramsAre DEF Shape, AllKinds
<1> QED
  BY <1>1, <1>2 DEF Shape, Past

LEMMA HoldsOwnRows ==
    ASSUME NEW k, Shape(k), ArgsSound(k), LocksSound(k), NEW key \in DOMAIN k.wrote
    PROVE  /\ WroteSound(k, key)
           /\ key \in Keys
           /\ k.kind \in AllKinds /\ ~k.answer
<1>1. ~k.answer
  BY DEF Shape, Clean, Empty
<1>2. CASE \E i \in Past(k, {"write"}) : key = KeyOf(k, i)
  <2>1. PICK i \in Past(k, {"write"}) : key = KeyOf(k, i)
    BY <1>2
  <2>2. k.kind \in AllKinds /\ WriteSound(k.kind, i)
    BY PastIsProgram, ProgramsSound
  <2>3. WroteSound(k, key)
    BY <2>1, <2>2 DEF WriteSound, WroteSound, KeyOf
  <2>4. \/ key = <<"pairing", k.arg["session"]>> /\ k.kind \in {"redeem", "guess"}
        \/ key = <<"bootstrap", k.arg["bootstrap"]>> /\ k.kind \in {"redeem", "register"}
        \/ /\ key = <<"device", k.arg["device"]>>
           /\ k.kind \in {"register", "refresh", "replay", "revoke", "issue", "consume", "touch"}
        \/ key = <<"family", k.arg["device"]>> /\ k.kind \in {"register", "revoke", "replay"}
        \/ key = <<"refresh", k.arg["new"]>> /\ k.kind \in {"register", "refresh"}
        \/ key = <<"refresh", k.arg["token"]>> /\ k.kind = "refresh"
        \/ key = <<"ticket", k.arg["ticket"]>> /\ k.kind \in {"issue", "consume"}
    BY <2>1, <2>2 DEF WriteSound, KeyOf
  <2>5. key \in Keys
    BY <2>4, KeysOfTables DEF ArgsSound
  <2> QED
    BY <1>1, <2>2, <2>3, <2>5
<1>3. CASE /\ Past(k, {"list"}) # {}
           /\ \E t \in Tokens : key = <<"refresh", t>>
           /\ key \in DOMAIN k.copy
  <2>1. PICK i \in Past(k, {"list"}) : TRUE
    BY <1>3
  <2>2. k.kind \in {"revoke", "replay"} /\ k.kind \in AllKinds
    BY PastIsProgram, ProgramsSound DEF ListSound
  <2> QED
    BY <1>1, <1>3, <2>2, KeysOfTables DEF WroteSound
<1> QED
  BY <1>2, <1>3 DEF LocksSound

-----------------------------------------------------------------------------
(* One transaction's steps. *)

\* r has sent one statement more than k.
OneMore(k, r) ==
    /\ \A ops : \A i \in Past(k, ops) : i \in Past(r, ops)
    /\ \A ops : Program(k.kind)[k.pc].op \in ops => k.pc \in Past(r, ops)
    /\ \A ops : \A i \in Past(r, ops) :
           i \in Past(k, ops) \/ (i = k.pc /\ Program(k.kind)[k.pc].op \in ops)
    /\ KeyOf(r, k.pc) = KeyOf(k, k.pc)
    /\ \A ops : \A i \in Past(k, ops) : KeyOf(r, i) = KeyOf(k, i)

LEMMA PastGrows ==
    ASSUME NEW k, NEW r, k.pc \in Nat \ {0}, r.pc = k.pc + 1, r.arg = k.arg,
           \A i \in 1..k.pc : Program(r.kind)[i] = Program(k.kind)[i]
    PROVE  OneMore(k, r)
<1>1. /\ 1..(r.pc - 1) = 1..k.pc
      /\ \A i \in 1..k.pc : i \in 1..(k.pc - 1) \/ i = k.pc
      /\ \A i \in 1..(k.pc - 1) : i \in 1..k.pc
      /\ k.pc \in 1..k.pc
  OBVIOUS
<1>2. /\ \A ops : \A i \in Past(k, ops) : i \in Past(r, ops)
      /\ \A ops : Program(k.kind)[k.pc].op \in ops => k.pc \in Past(r, ops)
      /\ \A ops : \A i \in Past(r, ops) :
             i \in Past(k, ops) \/ (i = k.pc /\ Program(k.kind)[k.pc].op \in ops)
  BY <1>1 DEF Past
<1>3. \A i \in 1..k.pc : KeyOf(r, i) = KeyOf(k, i)
  BY DEF KeyOf
<1> QED
  BY <1>1, <1>2, <1>3 DEF Past, OneMore

\* What the row has to be for the handler to go on; a refresh whose token was
\* used becomes a replay.
Accepts(k, row, kind) ==
    /\ Program(k.kind)[k.pc].op = "check"
           => row.status = Required(Program(k.kind)[k.pc].table)
    /\ kind = k.kind \/ (kind = "replay" /\ k.kind = "refresh" /\ k.pc = 3)

Works(k, ops) ==
    /\ k.kind \in AllKinds
    /\ k.pc \in 1..Len(Program(k.kind))
    /\ Program(k.kind)[k.pc].op \in ops
    /\ k.todo = {}
    /\ ~k.answer

LEMMA SelectedRow ==
    ASSUME NEW data, DbSound(data), NEW k, TxSound(k, data), Works(k, {"check", "read"}),
           NEW kind, Accepts(k, data[KeyOf(k, k.pc)], kind)
    PROVE  LET key == KeyOf(k, k.pc)
               row == data[key]
           IN  /\ key \in Keys
               /\ IsRow(key[1], row)
               /\ key[1] = "bootstrap" => row.session \in Sessions
               /\ key[1] = "device" => /\ row.status # "none"
                                       /\ row.status = "revoked"
                                              => data[<<"family", key[2]>>].status = "revoked"
               /\ key[1] \in {"refresh", "ticket"} => row.device \in Devices
               /\ key[1] = "refresh" => k.kind # "revoke"
<1> DEFINE st == Program(k.kind)[k.pc]
           key == KeyOf(k, k.pc)
           row == data[key]
<1>1. SelectSound(k.kind, k.pc) /\ key = <<st.table, k.arg[st.role]>>
  BY ProgramsSound DEF Works, KeyOf
<1>2. ArgsSound(k) /\ NamedExists(k, data)
  BY DEF TxSound
<1>3. /\ key \in Keys
      /\ key[1] = st.table /\ key[2] = k.arg[st.role]
  <2>1. \/ key = <<"pairing", k.arg["session"]>> /\ k.kind \in {"redeem", "guess", "register"}
        \/ key = <<"bootstrap", k.arg["bootstrap"]>> /\ k.kind = "register"
        \/ /\ key = <<"device", k.arg["device"]>>
           /\ k.kind \in {"refresh", "replay", "revoke", "issue", "consume", "touch"}
        \/ /\ key = <<"family", k.arg["device"]>>
           /\ k.kind \in {"refresh", "replay", "revoke"}
        \/ key = <<"refresh", k.arg["token"]>> /\ k.kind \in {"refresh", "replay"}
        \/ key = <<"ticket", k.arg["ticket"]>> /\ k.kind = "consume"
    BY <1>1 DEF SelectSound
  <2> HIDE DEF key, st
  <2>2. key \in Keys
    BY <1>2, <2>1, KeysOfTables DEF ArgsSound
  <2> QED
    BY <1>1, <2>2
<1>4. IsRow(key[1], row)
  BY <1>3 DEF DbSound
<1>5. ASSUME key[1] = "bootstrap" PROVE row.session \in Sessions
  <2>1. row.status = "unused"
    <3>1. k.kind = "register" /\ k.pc = 1
      <4>1. k.kind = "register"
        BY <1>1, <1>3, <1>5 DEF SelectSound
      <4>2. k.pc \in 1..6
        BY <4>1, ProgramsAre DEF Works
      <4>3. k.pc = 1 \/ k.pc = 2 \/ k.pc = 3 \/ k.pc = 4 \/ k.pc = 5 \/ k.pc = 6
        BY <4>2
      <4>4. /\ Program("register")[k.pc].op \in {"check", "read"}
            /\ Program("register")[k.pc].table = "bootstrap"
        BY <1>3, <1>5, <4>1 DEF Works
      <4>5. /\ Program("register")[2].op = "write" /\ Program("register")[3].table = "pairing"
            /\ Program("register")[4].op = "write" /\ Program("register")[5].op = "write"
            /\ Program("register")[6].op = "write"
        BY ProgramsAre DEF Read, Write
      <4> QED
        BY <4>1, <4>3, <4>4, <4>5
    <3> QED
      BY <3>1, ProgramsAre DEF Accepts, Check, Required
  <2>2. IsRow("bootstrap", row)
    BY <1>4, <1>5
  <2> QED
    BY <2>1, <2>2, RowsOfTables
<1>6. ASSUME key[1] = "device"
      PROVE  /\ row.status # "none"
             /\ row.status = "revoked" => data[<<"family", key[2]>>].status = "revoked"
  <2>1. key = <<"device", k.arg["device"]>>
        /\ k.kind \in {"refresh", "replay", "revoke", "issue", "consume", "touch"}
    BY <1>1, <1>3, <1>6 DEF SelectSound
  <2>2. row.status # "none" /\ key[2] \in Devices /\ key = <<"device", key[2]>>
    BY <1>2, <2>1 DEF NamedExists, ArgsSound
  <2> QED
    BY <2>2 DEF DbSound
<1>7. ASSUME key[1] = "refresh" PROVE row.device \in Devices /\ k.kind # "revoke"
  <2>1. key = <<"refresh", k.arg["token"]>> /\ k.kind \in {"refresh", "replay"}
    BY <1>1, <1>3, <1>7 DEF SelectSound
  <2> QED
    BY <1>2, <2>1 DEF NamedExists, ArgsSound
<1>8. ASSUME key[1] = "ticket" PROVE row.device \in Devices
  <2>1. key = <<"ticket", k.arg["ticket"]>> /\ k.kind = "consume"
    BY <1>1, <1>3, <1>8 DEF SelectSound
  <2> QED
    BY <1>2, <2>1 DEF NamedExists, ArgsSound
<1> QED
  BY <1>3, <1>4, <1>5, <1>6, <1>7, <1>8

LEMMA Puts ==
    ASSUME NEW key, NEW row, NEW others
    PROVE  /\ key \in DOMAIN Put(key, row, others)
           /\ Put(key, row, others)[key] = row
           /\ \A x \in DOMAIN others : x \in DOMAIN Put(key, row, others)
           /\ \A x \in DOMAIN Put(key, row, others) :
                  x = key \/ (x \in DOMAIN others /\ Put(key, row, others)[x] = others[x])
  BY DEF Put

LEMMA SelectKeepsTx ==
    ASSUME NEW data, DbSound(data), NEW k, TxSound(k, data), Works(k, {"check", "read"}),
           NEW kind, Accepts(k, data[KeyOf(k, k.pc)], kind),
           NEW r,
           r = [k EXCEPT !.kind = kind,
                         !.copy = Put(KeyOf(k, k.pc), data[KeyOf(k, k.pc)], k.copy),
                         !.pc = k.pc + 1]
    PROVE  TxSound(r, data)
<1> DEFINE key == KeyOf(k, k.pc)
           row == data[key]
           copy == Put(key, row, k.copy)
<1>1. /\ IsTx(r) /\ r.kind = kind /\ r.copy = copy /\ r.wrote = k.wrote /\ r.todo = {}
      /\ r.pc = k.pc + 1 /\ r.arg = k.arg /\ ~r.answer /\ r.late = k.late
  <2>1. IsTx(k) /\ k.todo = {} /\ ~k.answer
    BY DEF TxSound, Shape, Works
  <2>2. r = [k EXCEPT !.kind = kind, !.copy = copy, !.pc = k.pc + 1]
    OBVIOUS
  <2> HIDE DEF copy, row, key
  <2>3. /\ IsTx(r) /\ r.kind = kind /\ r.copy = copy /\ r.wrote = k.wrote /\ r.todo = {}
        /\ r.pc = k.pc + 1 /\ r.arg = k.arg /\ r.answer = k.answer /\ r.late = k.late
    BY <2>1, <2>2 DEF IsTx
  <2> QED
    BY <2>1, <2>3
<1>2. /\ key \in DOMAIN copy /\ copy[key] = row
      /\ \A x \in DOMAIN k.copy : x \in DOMAIN copy
      /\ \A x \in DOMAIN copy : x = key \/ (x \in DOMAIN k.copy /\ copy[x] = k.copy[x])
  BY Puts
<1>3. /\ key \in Keys
      /\ IsRow(key[1], row)
      /\ key[1] = "bootstrap" => row.session \in Sessions
      /\ key[1] = "device" => /\ row.status # "none"
                              /\ row.status = "revoked"
                                     => data[<<"family", key[2]>>].status = "revoked"
      /\ key[1] \in {"refresh", "ticket"} => row.device \in Devices
      /\ key[1] = "refresh" => k.kind # "revoke"
  BY SelectedRow
<1>4. /\ kind \in AllKinds
      /\ k.pc \in Nat \ {0} /\ k.pc \in 1..Len(Program(k.kind))
      /\ k.pc + 1 \in 1..(Len(Program(kind)) + 1)
      /\ \A i \in 1..k.pc : Program(kind)[i] = Program(k.kind)[i]
  <2>1. CASE kind = k.kind
    <3>1. Len(Program(k.kind)) \in Nat
      BY ProgramsAre DEF Works, AllKinds
    <3> QED
      BY <2>1, <3>1 DEF Works
  <2>2. CASE kind = "replay" /\ k.kind = "refresh" /\ k.pc = 3
    <3>1. \A i \in 1..3 : i = 1 \/ i = 2 \/ i = 3
      OBVIOUS
    <3> QED
      BY <2>2, <3>1, ProgramsAre DEF AllKinds
  <2> QED
    BY <2>1, <2>2 DEF Accepts
<1> HIDE DEF copy, row, key
<1>5. OneMore(k, r)
  <2>1. /\ r.pc = k.pc + 1 /\ r.arg = k.arg
        /\ \A i \in 1..k.pc : Program(r.kind)[i] = Program(k.kind)[i]
    BY <1>1, <1>4
  <2> QED
    BY <1>4, <2>1, PastGrows
<1>6. Shape(r)
  BY <1>1, <1>4 DEF Shape, AllKinds
<1>7. ArgsSound(r)
  BY <1>1 DEF TxSound, ArgsSound, Accepts
<1>8. NamedExists(r, data)
  BY <1>1 DEF TxSound, NamedExists, Accepts
<1>9. CopiesSound(r, data)
  <2>1. CopiesSound(k, data)
    BY DEF TxSound
  <2>2. \A i \in Past(r, {"check", "read"}) : KeyOf(r, i) \in DOMAIN r.copy
    BY <1>1, <1>2, <1>5, <2>1 DEF CopiesSound, OneMore, key
  <2>3. ASSUME NEW x \in DOMAIN r.copy
        PROVE  /\ x \in Keys
               /\ IsRow(x[1], r.copy[x])
               /\ x[1] = "bootstrap" => r.copy[x].session \in Sessions
               /\ x[1] = "device" =>
                      /\ r.copy[x].status # "none"
                      /\ r.copy[x].status = "revoked"
                             => data[<<"family", x[2]>>].status = "revoked"
               /\ x[1] \in {"refresh", "ticket"} =>
                      r.copy[x].device \in Devices /\ data[x].device = r.copy[x].device
    <3>1. CASE x = key
      BY <1>1, <1>2, <1>3, <3>1 DEF row
    <3>2. CASE x \in DOMAIN k.copy /\ r.copy[x] = k.copy[x]
      BY <2>1, <3>2 DEF CopiesSound
    <3> QED
      BY <1>1, <1>2, <3>1, <3>2
  <2> QED
    BY <2>2, <2>3 DEF CopiesSound
<1>10. LocksSound(r)
  <2>1. LocksSound(k) /\ Program(k.kind)[k.pc].op \notin {"write", "list"}
    BY DEF TxSound, Works
  <2> QED
    BY <1>1, <1>2, <1>5, <2>1 DEF LocksSound, OneMore
<1>11. RowsSound(r, data)
  <2>1. kind = k.kind \/ kind \in Throws
    BY DEF Accepts, Throws
  <2>2. ASSUME kind = k.kind PROVE RowsSound(r, data)
    <3>1. RowsSound(k, data) /\ r.kind = k.kind /\ r.wrote = k.wrote /\ r.arg = k.arg
      BY <1>1, <2>2 DEF TxSound
    <3> QED
      BY <3>1 DEF RowsSound
  <2>3. ASSUME kind \in Throws PROVE RowsSound(r, data)
    BY <1>1, <2>3 DEF RowsSound
  <2> QED
    BY <2>1, <2>2, <2>3
<1>12. TokensSeen(r, data)
  <2> SUFFICES ASSUME r.kind = "revoke", NEW x \in DOMAIN r.copy, x[1] = "refresh"
               PROVE  /\ Past(r, {"list"}) # {}
                      /\ r.copy[x].device = r.arg["device"]
                      /\ data[x].used => r.copy[x].used
                      /\ x \in DOMAIN r.wrote => r.wrote[x].used = r.copy[x].used
    BY DEF TokensSeen
  <2>1. k.kind = "revoke" /\ TokensSeen(k, data)
    BY <1>1 DEF Accepts, TxSound
  <2>2. x \in DOMAIN k.copy /\ r.copy[x] = k.copy[x]
    BY <1>1, <1>2, <1>3, <2>1
  <2> QED
    BY <1>1, <1>5, <2>1, <2>2 DEF TokensSeen, OneMore
<1>13. LateSound(r, data)
  <2> SUFFICES ASSUME r.late, r.kind = "refresh"
               PROVE  /\ r.wrote = Empty /\ r.pc <= 3
                      /\ data[<<"family", r.arg["device"]>>].status = "revoked"
    BY DEF LateSound
  <2>1. /\ k.kind = "refresh"
        /\ k.wrote = Empty /\ k.pc <= 3
        /\ data[<<"family", k.arg["device"]>>].status = "revoked"
    BY <1>1 DEF Accepts, TxSound, LateSound
  <2>2. k.pc # 3
    <3> SUFFICES ASSUME k.pc = 3 PROVE FALSE
      OBVIOUS
    <3>1. Program(k.kind)[k.pc] = Check("family", "device")
      BY <2>1, ProgramsAre
    <3>2. row.status = "active" /\ key = <<"family", k.arg["device"]>>
      BY <3>1 DEF Check, Accepts, Required, row, key, KeyOf
    <3> QED
      BY <2>1, <3>2 DEF row
  <2> QED
    BY <1>1, <1>4, <2>1, <2>2
<1> QED
  BY <1>1, <1>6, <1>7, <1>8, <1>9, <1>10, <1>11, <1>12, <1>13 DEF TxSound, AnswerSound

\* An update that copies a row has selected it before.
LEMMA CopiedBefore ==
    ASSUME NEW data, NEW k, TxSound(k, data), Works(k, {"write"}),
           NEW j \in 1..(k.pc - 1), Program(k.kind)[j].op \in {"check", "read"},
           Program(k.kind)[j].table = Program(k.kind)[k.pc].table,
           Program(k.kind)[j].role = Program(k.kind)[k.pc].role
    PROVE  KeyOf(k, k.pc) \in DOMAIN k.copy
<1>1. j \in Past(k, {"check", "read"}) /\ KeyOf(k, j) = KeyOf(k, k.pc)
  BY DEF Past, KeyOf
<1> QED
  BY <1>1 DEF TxSound, CopiesSound

LEMMA WrittenSound ==
    ASSUME NEW x \in Txs, TxSound(tx[x], db), Works(tx[x], {"write"}),
           Key(x) = KeyOf(tx[x], tx[x].pc),
           tx[x].kind = "refresh" => tx[x].arg["new"] # tx[x].arg["token"]
    PROVE  /\ Key(x) \in Keys
           /\ tx[x].kind = "revoke" => Key(x)[1] # "refresh"
           /\ tx[x].kind \notin Throws
                  => RowSound(tx[x].kind, tx[x].arg, Key(x), Written(x), db)
<1> DEFINE k == tx[x]
           st == Statement(x)
           key == Key(x)
           copy == k.copy[key]
<1>1. /\ WriteSound(k.kind, k.pc)
      /\ st = Program(k.kind)[k.pc] /\ key = <<st.table, k.arg[st.role]>>
      /\ key[1] = st.table /\ key[2] = k.arg[st.role]
  BY ProgramsSound DEF Works, KeyOf, Statement
<1>2. ArgsSound(k) /\ NamedExists(k, db) /\ CopiesSound(k, db)
  BY DEF TxSound
<1>3. (\E j \in 1..(k.pc - 1) : /\ Program(k.kind)[j].op \in {"check", "read"}
                                /\ Program(k.kind)[j].table = st.table
                                /\ Program(k.kind)[j].role = st.role)
          => /\ key \in DOMAIN k.copy
             /\ IsRow(key[1], copy)
             /\ key[1] = "bootstrap" => copy.session \in Sessions
             /\ key[1] = "device" =>
                    /\ copy.status # "none"
                    /\ copy.status = "revoked"
                           => db[<<"family", key[2]>>].status = "revoked"
             /\ key[1] \in {"refresh", "ticket"} =>
                    copy.device \in Devices /\ db[key].device = copy.device
  <2> HAVE \E j \in 1..(k.pc - 1) : /\ Program(k.kind)[j].op \in {"check", "read"}
                                    /\ Program(k.kind)[j].table = st.table
                                    /\ Program(k.kind)[j].role = st.role
  <2>1. key \in DOMAIN k.copy
    BY <1>1, CopiedBefore
  <2> QED
    BY <1>2, <2>1 DEF CopiesSound
<1>4. CASE st.table = "pairing" /\ st.role = "session" /\ k.kind \in {"redeem", "guess"}
  <2>1. key = <<"pairing", k.arg["session"]>> /\ key \in Keys
    BY <1>1, <1>2, <1>4, KeysOfTables DEF ArgsSound
  <2>2. ASSUME k.kind = "redeem" PROVE RowSound(k.kind, k.arg, key, Written(x), db)
    <3>1. Written(x) = [copy EXCEPT !.status = "redeemed"]
      BY <1>4, <2>2 DEF Written
    <3>2. IsRow("pairing", copy)
      BY <1>1, <1>3, <1>4 DEF WriteSound
    <3>3. Written(x) \in [status : {"redeemed"}, failedAttempts : {0}]
      BY <3>1, <3>2 DEF IsRow
    <3> QED
      BY <1>1, <1>4, <2>2, <3>3 DEF RowSound, IsRow
  <2> QED
    BY <1>1, <1>4, <2>1, <2>2 DEF Throws
<1>5. CASE st.table = "bootstrap" /\ st.role = "bootstrap" /\ k.kind \in {"redeem", "register"}
  <2>1. key = <<"bootstrap", k.arg["bootstrap"]>> /\ key \in Keys
    BY <1>1, <1>2, <1>5, KeysOfTables DEF ArgsSound
  <2>2. Written(x) \in [status : {"unused", "used"}, session : Sessions]
    <3>1. CASE k.kind = "redeem"
      BY <1>2, <1>5, <3>1 DEF Written, ArgsSound
    <3>2. CASE k.kind = "register"
      <4>1. Written(x) = [copy EXCEPT !.status = "used"]
        BY <1>5, <3>2 DEF Written
      <4>2. IsRow("bootstrap", copy) /\ copy.session \in Sessions
        BY <1>1, <1>3, <1>5, <3>2 DEF WriteSound
      <4>3. copy \in [status : {"unused", "used"}, session : Sessions]
        BY <4>2, NoneIsNoId DEF IsRow, NoRow
      <4> QED
        BY <4>1, <4>3
    <3> QED
      BY <1>5, <3>1, <3>2
  <2> QED
    BY <1>1, <1>5, <2>1, <2>2 DEF RowSound, IsRow
<1>6. CASE /\ st.table = "device" /\ st.role = "device"
           /\ k.kind \in {"register", "refresh", "replay", "revoke", "issue", "consume", "touch"}
  <2>1. key = <<"device", k.arg["device"]>> /\ key \in Keys
    BY <1>1, <1>2, <1>6, KeysOfTables DEF ArgsSound
  <2>2. k.kind # "register" =>
            /\ copy \in [status : {"active", "revoked"}, bootstrap : Bootstraps]
            /\ copy.status = "revoked" => db[<<"family", key[2]>>].status = "revoked"
    <3> HAVE k.kind # "register"
    <3>1. /\ IsRow("device", copy) /\ copy.status # "none"
          /\ copy.status = "revoked" => db[<<"family", key[2]>>].status = "revoked"
      BY <1>1, <1>3, <1>6 DEF WriteSound
    <3> QED
      BY <3>1 DEF IsRow, NoRow
  <2>3. k.kind # "replay" =>
            /\ Written(x) \in [status : {"active", "revoked"}, bootstrap : Bootstraps]
            /\ Written(x).status = "revoked" =>
                   k.kind = "revoke" \/ db[<<"family", key[2]>>].status = "revoked"
    <3>1. CASE k.kind = "register"
      <4>1. Written(x) = [status |-> "active", bootstrap |-> k.arg["bootstrap"]]
        BY <1>6, <3>1 DEF Written
      <4> QED
        BY <1>2, <3>1, <4>1 DEF ArgsSound
    <3>2. CASE k.kind = "revoke"
      <4>1. Written(x) = [copy EXCEPT !.status = "revoked"]
        BY <1>6, <3>2 DEF Written
      <4> QED
        BY <2>2, <3>2, <4>1
    <3>3. CASE k.kind \in {"refresh", "issue", "consume", "touch"}
      <4>1. Written(x) = copy
        BY <1>6, <3>3 DEF Written
      <4> QED
        BY <2>2, <3>3, <4>1
    <3> QED
      BY <1>6, <3>1, <3>2, <3>3
  <2> QED
    BY <1>1, <1>6, <2>1, <2>3 DEF RowSound, IsRow, Throws
<1>7. CASE /\ st.table = "family" /\ st.role = "device"
           /\ k.kind \in {"register", "revoke", "replay"}
  <2>1. key = <<"family", k.arg["device"]>> /\ key \in Keys
    BY <1>1, <1>2, <1>7, KeysOfTables DEF ArgsSound
  <2>2. CASE k.kind = "register"
    <3>1. Written(x) = [status |-> "active"]
      BY <1>7, <2>2 DEF Written
    <3> QED
      BY <1>1, <1>7, <2>1, <2>2, <3>1 DEF RowSound, IsRow
  <2>3. CASE k.kind = "revoke"
    <3>1. Written(x) = [copy EXCEPT !.status = "revoked"]
      BY <1>7, <2>3 DEF Written
    <3>2. IsRow("family", copy)
      BY <1>1, <1>3, <1>7, <2>3 DEF WriteSound
    <3>3. Written(x) \in [status : {"revoked"}]
      BY <3>1, <3>2 DEF IsRow
    <3> QED
      BY <1>1, <1>7, <2>1, <2>3, <3>3 DEF RowSound, IsRow
  <2> QED
    BY <1>1, <1>7, <2>1, <2>2, <2>3 DEF Throws
<1>8. CASE /\ st.table = "refresh" /\ st.role = "new"
           /\ k.kind \in {"register", "refresh"}
  <2>1. key = <<"refresh", k.arg["new"]>> /\ key \in Keys
    BY <1>1, <1>2, <1>8, KeysOfTables DEF ArgsSound
  <2>2. Written(x) = [status |-> "stored", device |-> k.arg["device"],
                      used |-> FALSE, revoked |-> FALSE]
    BY <1>8 DEF Written
  <2>3. Written(x) \in [status : {"stored"}, device : Devices, used : BOOLEAN,
                        revoked : BOOLEAN]
    BY <1>2, <1>8, <2>2 DEF ArgsSound
  <2>4. Written(x).device = k.arg["device"] /\ (k.kind = "refresh" => key[2] # k.arg["token"])
    BY <1>1, <1>8, <2>2
  <2> QED
    BY <1>1, <1>8, <2>1, <2>3, <2>4 DEF RowSound, IsRow
<1>9. CASE st.table = "refresh" /\ st.role = "token" /\ k.kind = "refresh"
  <2>1. key = <<"refresh", k.arg["token"]>> /\ key \in Keys
    BY <1>1, <1>2, <1>9, KeysOfTables DEF ArgsSound
  <2>2. Written(x) = [copy EXCEPT !.used = TRUE]
    BY <1>9 DEF Written
  <2>3. /\ IsRow("refresh", copy) /\ copy.device \in Devices
        /\ copy.device = k.arg["device"]
    BY <1>1, <1>2, <1>3, <1>9, <2>1 DEF WriteSound, NamedExists
  <2>4. copy \in [status : {"stored"}, device : Devices, used : BOOLEAN, revoked : BOOLEAN]
    BY <2>3, RowsOfTables, NoneIsNoId DEF IsRow, NoRow
  <2>5. /\ Written(x) \in [status : {"stored"}, device : Devices, used : BOOLEAN,
                           revoked : BOOLEAN]
        /\ Written(x).device = k.arg["device"] /\ Written(x).used = TRUE
    BY <2>2, <2>3, <2>4
  <2> QED
    BY <1>1, <1>9, <2>1, <2>5 DEF RowSound, IsRow
<1>10. CASE /\ st.table = "ticket" /\ st.role = "ticket"
            /\ k.kind \in {"issue", "consume"}
  <2>1. key = <<"ticket", k.arg["ticket"]>> /\ key \in Keys
    BY <1>1, <1>2, <1>10, KeysOfTables DEF ArgsSound
  <2>2. /\ Written(x) \in [status : {"unused", "used"}, device : Devices]
        /\ Written(x).device = k.arg["device"]
        /\ k.kind = "consume" => Written(x).status = "used"
    <3>1. CASE k.kind = "issue"
      <4>1. Written(x) = [status |-> "unused", device |-> k.arg["device"]]
        BY <1>10, <3>1 DEF Written
      <4> QED
        BY <1>2, <3>1, <4>1 DEF ArgsSound
    <3>2. CASE k.kind = "consume"
      <4>1. Written(x) = [copy EXCEPT !.status = "used"]
        BY <1>10, <3>2 DEF Written
      <4>2. /\ IsRow("ticket", copy) /\ copy.device \in Devices
            /\ copy.device = k.arg["device"]
        BY <1>1, <1>2, <1>3, <1>10, <2>1, <3>2 DEF WriteSound, NamedExists
      <4>3. copy \in [status : {"unused", "used"}, device : Devices]
        BY <4>2, NoneIsNoId DEF IsRow, NoRow
      <4> QED
        BY <4>1, <4>2, <4>3
    <3> QED
      BY <1>10, <3>1, <3>2
  <2> QED
    BY <1>1, <1>10, <2>1, <2>2 DEF RowSound, IsRow
<1> QED
  BY <1>1, <1>4, <1>5, <1>6, <1>7, <1>8, <1>9, <1>10 DEF WriteSound

LEMMA UpdateKeepsTx ==
    ASSUME NEW data, NEW k, TxSound(k, data), Works(k, {"write"}), NEW row,
           KeyOf(k, k.pc) \in Keys,
           k.kind = "revoke" => KeyOf(k, k.pc)[1] # "refresh",
           k.kind \notin Throws => RowSound(k.kind, k.arg, KeyOf(k, k.pc), row, data),
           NEW r,
           r = [k EXCEPT !.wrote = Put(KeyOf(k, k.pc), row, k.wrote), !.pc = k.pc + 1]
    PROVE  TxSound(r, data)
<1> DEFINE key == KeyOf(k, k.pc)
           wrote == Put(key, row, k.wrote)
<1>1. /\ IsTx(r) /\ r.kind = k.kind /\ r.copy = k.copy /\ r.wrote = wrote /\ r.todo = {}
      /\ r.pc = k.pc + 1 /\ r.arg = k.arg /\ ~r.answer /\ r.late = k.late
  <2>1. IsTx(k) /\ k.todo = {} /\ ~k.answer
    BY DEF TxSound, Shape, Works
  <2>2. r = [k EXCEPT !.wrote = wrote, !.pc = k.pc + 1]
    OBVIOUS
  <2> HIDE DEF wrote
  <2> QED
    BY <2>1, <2>2 DEF IsTx
<1>2. /\ key \in DOMAIN wrote /\ wrote[key] = row
      /\ \A x \in DOMAIN k.wrote : x \in DOMAIN wrote
      /\ \A x \in DOMAIN wrote : x = key \/ (x \in DOMAIN k.wrote /\ wrote[x] = k.wrote[x])
  BY Puts
<1>3. k.pc \in Nat \ {0} /\ k.pc \in 1..Len(Program(k.kind)) /\ Len(Program(k.kind)) \in Nat
  BY ProgramsAre DEF Works, AllKinds
<1>4. OneMore(k, r)
  <2>1. /\ r.pc = k.pc + 1 /\ r.arg = k.arg
        /\ \A i \in 1..k.pc : Program(r.kind)[i] = Program(k.kind)[i]
    BY <1>1
  <2> QED
    BY <1>3, <2>1, PastGrows
<1>5. Program(k.kind)[k.pc].op = "write"
  BY DEF Works
<1> HIDE DEF wrote, key
<1>6. Shape(r)
  BY <1>1, <1>3 DEF Shape, TxSound, Works, AllKinds
<1>7. ArgsSound(r) /\ NamedExists(r, data)
  BY <1>1 DEF TxSound, ArgsSound, NamedExists
<1>8. CopiesSound(r, data)
  <2>1. CopiesSound(k, data)
    BY DEF TxSound
  <2>2. \A i \in Past(r, {"check", "read"}) : KeyOf(r, i) \in DOMAIN r.copy
    BY <1>1, <1>4, <1>5, <2>1 DEF CopiesSound, OneMore
  <2> QED
    BY <1>1, <2>1, <2>2 DEF CopiesSound
<1>9. LocksSound(r)
  <2>1. LocksSound(k)
    BY DEF TxSound
  <2>2. \A i \in Past(r, {"write"}) : KeyOf(r, i) \in DOMAIN r.wrote
    BY <1>1, <1>2, <1>4, <2>1 DEF LocksSound, OneMore, key
  <2>3. ASSUME NEW x \in DOMAIN r.wrote
        PROVE  \/ \E i \in Past(r, {"write"}) : x = KeyOf(r, i)
               \/ /\ Past(r, {"list"}) # {}
                  /\ \E t \in Tokens : x = <<"refresh", t>>
                  /\ x \in DOMAIN r.copy
    <3>1. CASE x = key
      <4>1. k.pc \in Past(r, {"write"}) /\ KeyOf(r, k.pc) = key
        BY <1>4, <1>5 DEF OneMore, key
      <4> QED
        BY <3>1, <4>1
    <3>2. CASE x \in DOMAIN k.wrote
      BY <1>1, <1>4, <2>1, <3>2 DEF LocksSound, OneMore
    <3> QED
      BY <1>1, <1>2, <3>1, <3>2
  <2> QED
    BY <2>2, <2>3 DEF LocksSound
<1>10. RowsSound(r, data)
  <2> SUFFICES ASSUME k.kind \notin Throws, NEW x \in DOMAIN r.wrote
               PROVE  RowSound(r.kind, r.arg, x, r.wrote[x], data)
    BY <1>1 DEF RowsSound
  <2>1. CASE x = key
    BY <1>1, <1>2, <2>1 DEF key
  <2>2. CASE x \in DOMAIN k.wrote /\ wrote[x] = k.wrote[x]
    BY <1>1, <2>2 DEF TxSound, RowsSound
  <2> QED
    BY <1>1, <1>2, <2>1, <2>2
<1>11. TokensSeen(r, data)
  <2> SUFFICES ASSUME k.kind = "revoke", NEW x \in DOMAIN k.copy, x[1] = "refresh"
               PROVE  /\ Past(r, {"list"}) # {}
                      /\ r.copy[x].device = r.arg["device"]
                      /\ data[x].used => r.copy[x].used
                      /\ x \in DOMAIN r.wrote => r.wrote[x].used = r.copy[x].used
    BY <1>1 DEF TokensSeen
  <2>1. TokensSeen(k, data)
    BY DEF TxSound
  <2>2. x # key
    BY DEF key
  <2> QED
    BY <1>1, <1>2, <1>4, <2>1, <2>2 DEF TokensSeen, OneMore
<1>12. LateSound(r, data)
  <2> SUFFICES ASSUME k.late, k.kind = "refresh" PROVE FALSE
    BY <1>1 DEF LateSound
  <2>1. k.pc = 1 \/ k.pc = 2 \/ k.pc = 3
    BY <1>3 DEF TxSound, LateSound
  <2>2. Program("refresh")[k.pc].op = "check"
    BY <2>1, ProgramsAre DEF Check
  <2> QED
    BY <1>5, <2>2
<1> QED
  BY <1>1, <1>6, <1>7, <1>8, <1>9, <1>10, <1>11, <1>12 DEF TxSound, AnswerSound

LEMMA Overs ==
    ASSUME NEW rows, NEW others
    PROVE  /\ \A x \in DOMAIN rows : x \in DOMAIN Over(rows, others)
                                         /\ Over(rows, others)[x] = rows[x]
           /\ \A x \in DOMAIN others : x \in DOMAIN Over(rows, others)
           /\ \A x \in DOMAIN Over(rows, others) :
                  \/ x \in DOMAIN rows
                  \/ x \in DOMAIN others /\ Over(rows, others)[x] = others[x]
  BY DEF Over

LEMMA ListKeepsTx ==
    ASSUME NEW data, DbSound(data), NEW k, TxSound(k, data), Works(k, {"list"}),
           NEW family,
           family = {t \in Tokens : data[<<"refresh", t>>].device = k.arg["device"]},
           NEW todo \in SUBSET family, NEW rows,
           rows = [key \in {"refresh"} \X family |-> data[key]],
           NEW r,
           r = [k EXCEPT !.copy = Over(rows, k.copy), !.todo = todo, !.pc = k.pc + 1]
    PROVE  TxSound(r, data)
<1> DEFINE copy == Over(rows, k.copy)
<1>1. /\ IsTx(r) /\ r.kind = k.kind /\ r.copy = copy /\ r.wrote = k.wrote /\ r.todo = todo
      /\ r.pc = k.pc + 1 /\ r.arg = k.arg /\ ~r.answer /\ r.late = k.late
  <2>1. IsTx(k) /\ ~k.answer
    BY DEF TxSound, Shape, Works
  <2>2. r = [k EXCEPT !.copy = copy, !.todo = todo, !.pc = k.pc + 1]
    OBVIOUS
  <2> HIDE DEF copy
  <2> QED
    BY <2>1, <2>2 DEF IsTx
<1>2. /\ \A x \in DOMAIN rows : x \in DOMAIN copy /\ copy[x] = rows[x]
      /\ \A x \in DOMAIN k.copy : x \in DOMAIN copy
      /\ \A x \in DOMAIN copy : x \in DOMAIN rows \/ (x \in DOMAIN k.copy /\ copy[x] = k.copy[x])
  BY Overs
<1>3. k.pc \in Nat \ {0} /\ k.pc \in 1..Len(Program(k.kind)) /\ Len(Program(k.kind)) \in Nat
  BY ProgramsAre DEF Works, AllKinds
<1>4. OneMore(k, r)
  <2>1. /\ r.pc = k.pc + 1 /\ r.arg = k.arg
        /\ \A i \in 1..k.pc : Program(r.kind)[i] = Program(k.kind)[i]
    BY <1>1
  <2> QED
    BY <1>3, <2>1, PastGrows
<1>5. /\ Program(k.kind)[k.pc].op = "list"
      /\ k.kind \in {"revoke", "replay"} /\ k.pc = Len(Program(k.kind))
      /\ Past(r, {"list"}) # {}
      /\ Past(k, {"list"}) = {}
      /\ \A i \in Past(k, {"write"}) : Program(k.kind)[i].table # "refresh"
  <2>1. Program(k.kind)[k.pc].op = "list" /\ ListSound(k.kind, k.pc)
    BY ProgramsSound DEF Works
  <2> QED
    BY <1>4, <2>1 DEF ListSound, OneMore, Past
<1>6. \A x \in DOMAIN rows : /\ x[1] = "refresh" /\ x[2] \in family /\ x = <<"refresh", x[2]>>
                             /\ rows[x] = data[x]
  <2>1. DOMAIN rows = {"refresh"} \X family
    OBVIOUS
  <2>2. \A x \in {"refresh"} \X family : x[1] = "refresh" /\ x[2] \in family
                                            /\ x = <<"refresh", x[2]>>
    <3> TAKE x \in {"refresh"} \X family
    <3>1. PICK t \in family : x = <<"refresh", t>>
      OBVIOUS
    <3> QED
      BY <3>1
  <2>3. \A x \in {"refresh"} \X family : rows[x] = data[x]
    OBVIOUS
  <2> QED
    BY <2>1, <2>2, <2>3
<1>7. \A x \in DOMAIN rows : /\ x \in Keys
                             /\ rows[x].device = k.arg["device"]
                             /\ rows[x].device \in Devices
  BY <1>5, <1>6, KeysOfTables DEF TxSound, ArgsSound
<1> HIDE DEF copy
<1>8. Shape(r)
  <2>1. \A t \in todo : t \in Tokens /\ <<"refresh", t>> \in DOMAIN copy
    <3> TAKE t \in todo
    <3>1. t \in family /\ t \in Tokens /\ <<"refresh", t>> \in DOMAIN rows
      OBVIOUS
    <3> QED
      BY <1>2, <3>1
  <2>2. k.pc + 1 = Len(Program(k.kind)) + 1 /\ k.pc + 1 \in 1..(Len(Program(k.kind)) + 1)
    <3>1. k.pc = Len(Program(k.kind))
      BY <1>5
    <3> QED
      BY <1>3, <3>1
  <2>3. r.kind \in AllKinds /\ r.kind # "idle"
    BY <1>1, <1>5 DEF AllKinds
  <2> QED
    BY <1>1, <1>5, <2>1, <2>2, <2>3 DEF Shape
<1>9. ArgsSound(r) /\ NamedExists(r, data)
  BY <1>1 DEF TxSound, ArgsSound, NamedExists
<1>10. CopiesSound(r, data)
  <2>1. CopiesSound(k, data)
    BY DEF TxSound
  <2>2. \A i \in Past(r, {"check", "read"}) : KeyOf(r, i) \in DOMAIN r.copy
    <3>1. Program(k.kind)[k.pc].op \notin {"check", "read"}
      BY <1>5
    <3> TAKE i \in Past(r, {"check", "read"})
    <3>2. i \in Past(k, {"check", "read"}) /\ KeyOf(r, i) = KeyOf(k, i)
      BY <1>4, <3>1 DEF OneMore
    <3>3. KeyOf(k, i) \in DOMAIN k.copy
      BY <2>1, <3>2 DEF CopiesSound
    <3> QED
      BY <1>1, <1>2, <3>2, <3>3
  <2>3. ASSUME NEW x \in DOMAIN r.copy
        PROVE  /\ x \in Keys
               /\ IsRow(x[1], r.copy[x])
               /\ x[1] = "bootstrap" => r.copy[x].session \in Sessions
               /\ x[1] = "device" =>
                      /\ r.copy[x].status # "none"
                      /\ r.copy[x].status = "revoked"
                             => data[<<"family", x[2]>>].status = "revoked"
               /\ x[1] \in {"refresh", "ticket"} =>
                      r.copy[x].device \in Devices /\ data[x].device = r.copy[x].device
    <3>1. CASE x \in DOMAIN rows
      <4>1. r.copy[x] = data[x] /\ x[1] = "refresh"
        BY <1>1, <1>2, <1>6, <3>1
      <4>2. x \in Keys /\ data[x].device \in Devices
        BY <1>6, <1>7, <3>1
      <4> QED
        BY <4>1, <4>2 DEF DbSound
    <3>2. CASE x \in DOMAIN k.copy /\ r.copy[x] = k.copy[x]
      BY <2>1, <3>2 DEF CopiesSound
    <3> QED
      BY <1>1, <1>2, <3>1, <3>2
  <2> QED
    BY <2>2, <2>3 DEF CopiesSound
<1>11. LocksSound(r)
  <2>1. LocksSound(k)
    BY DEF TxSound
  <2>2. Program(k.kind)[k.pc].op \notin {"write"} /\ Past(r, {"list"}) # {}
    BY <1>5
  <2>3. /\ \A i \in Past(r, {"write"}) : i \in Past(k, {"write"}) /\ KeyOf(r, i) = KeyOf(k, i)
        /\ \A i \in Past(k, {"write"}) : i \in Past(r, {"write"}) /\ KeyOf(r, i) = KeyOf(k, i)
    BY <1>4, <2>2 DEF OneMore
  <2>4. \A i \in Past(r, {"write"}) : KeyOf(r, i) \in DOMAIN r.wrote
    BY <1>1, <2>1, <2>3 DEF LocksSound
  <2>5. \A x \in DOMAIN r.wrote :
            \/ \E i \in Past(r, {"write"}) : x = KeyOf(r, i)
            \/ /\ Past(r, {"list"}) # {}
               /\ \E t \in Tokens : x = <<"refresh", t>>
               /\ x \in DOMAIN r.copy
    <3> TAKE x \in DOMAIN r.wrote
    <3>1. \/ \E i \in Past(k, {"write"}) : x = KeyOf(k, i)
          \/ (\E t \in Tokens : x = <<"refresh", t>>) /\ x \in DOMAIN k.copy
      BY <1>1, <2>1 DEF LocksSound
    <3>2. CASE \E i \in Past(k, {"write"}) : x = KeyOf(k, i)
      <4>1. PICK i \in Past(k, {"write"}) : x = KeyOf(k, i)
        BY <3>2
      <4>2. i \in Past(r, {"write"}) /\ x = KeyOf(r, i)
        BY <2>3, <4>1
      <4> QED
        BY <4>2
    <3>3. CASE (\E t \in Tokens : x = <<"refresh", t>>) /\ x \in DOMAIN k.copy
      BY <1>1, <1>2, <2>2, <3>3
    <3> QED
      BY <3>1, <3>2, <3>3
  <2> QED
    BY <2>4, <2>5 DEF LocksSound
<1>12. RowsSound(r, data)
  BY <1>1 DEF TxSound, RowsSound
<1>13. TokensSeen(r, data)
  <2> SUFFICES ASSUME k.kind = "revoke", NEW x \in DOMAIN r.copy, x[1] = "refresh"
               PROVE  /\ Past(r, {"list"}) # {}
                      /\ r.copy[x].device = r.arg["device"]
                      /\ data[x].used => r.copy[x].used
                      /\ x \in DOMAIN r.wrote => r.wrote[x].used = r.copy[x].used
    BY <1>1 DEF TokensSeen
  <2>1. x \notin DOMAIN k.copy
    BY <1>5 DEF TxSound, TokensSeen
  <2>2. r.copy[x] = data[x] /\ data[x].device = k.arg["device"]
    <3>1. x \in DOMAIN rows
      BY <1>1, <1>2, <2>1
    <3>2. r.copy[x] = rows[x]
      BY <1>1, <1>2, <3>1
    <3> QED
      BY <1>6, <1>7, <3>1, <3>2
  <2>3. x \notin DOMAIN k.wrote
    <3>1. \A i \in Past(k, {"write"}) : x # KeyOf(k, i)
      <4> TAKE i \in Past(k, {"write"})
      <4>1. KeyOf(k, i)[1] = Program(k.kind)[i].table
        BY DEF KeyOf
      <4> QED
        BY <1>5, <4>1
    <3> QED
      BY <1>5, <3>1 DEF TxSound, LocksSound
  <2> QED
    BY <1>1, <1>5, <2>2, <2>3
<1>14. LateSound(r, data)
  BY <1>1, <1>5 DEF LateSound
<1> QED
  BY <1>1, <1>8, <1>9, <1>10, <1>11, <1>12, <1>13, <1>14 DEF TxSound, AnswerSound

LEMMA TokenKeepsTx ==
    ASSUME NEW data, NEW k, TxSound(k, data), NEW t \in k.todo, NEW row,
           row = [k.copy[<<"refresh", t>>] EXCEPT !.revoked = TRUE],
           NEW r,
           r = [k EXCEPT !.wrote = Put(<<"refresh", t>>, row, k.wrote),
                         !.todo = k.todo \ {t}]
    PROVE  /\ TxSound(r, data)
           /\ k.kind = "revoke" => row.device = k.arg["device"]
<1> DEFINE key == <<"refresh", t>>
           wrote == Put(key, row, k.wrote)
           todo == k.todo \ {t}
<1>1. /\ k.kind \in {"revoke", "replay"} /\ k.pc = Len(Program(k.kind)) + 1
      /\ t \in Tokens /\ key \in DOMAIN k.copy /\ ~k.answer
  BY DEF TxSound, Shape, Clean
<1>2. /\ IsTx(r) /\ r.kind = k.kind /\ r.copy = k.copy /\ r.wrote = wrote /\ r.todo = todo
      /\ r.pc = k.pc /\ r.arg = k.arg /\ ~r.answer /\ r.late = k.late
  <2>1. IsTx(k)
    BY DEF TxSound, Shape
  <2>2. r = [k EXCEPT !.wrote = wrote, !.todo = todo]
    OBVIOUS
  <2> HIDE DEF wrote, todo
  <2> QED
    BY <1>1, <2>1, <2>2 DEF IsTx
<1>3. /\ key \in DOMAIN wrote /\ wrote[key] = row
      /\ \A x \in DOMAIN k.wrote : x \in DOMAIN wrote
      /\ \A x \in DOMAIN wrote : x = key \/ (x \in DOMAIN k.wrote /\ wrote[x] = k.wrote[x])
  BY Puts
<1>4. /\ \A ops : Past(r, ops) = Past(k, ops)
      /\ \A i : KeyOf(r, i) = KeyOf(k, i)
  BY <1>2 DEF Past, KeyOf
<1>5. Past(k, {"list"}) # {}
  <2>1. Len(Program(k.kind)) \in 1..(k.pc - 1) /\ Program(k.kind)[Len(Program(k.kind))].op = "list"
    <3>1. \A kind \in {"revoke", "replay"} : /\ Len(Program(kind)) \in Nat \ {0}
                                              /\ Program(kind)[Len(Program(kind))].op = "list"
      BY ProgramsAre DEF RevokeTokens
    <3>2. Len(Program(k.kind)) \in Nat \ {0} /\ k.pc - 1 = Len(Program(k.kind))
      BY <1>1, <3>1
    <3> QED
      BY <1>1, <3>1, <3>2
  <2> QED
    BY <2>1 DEF Past
<1>6. /\ IsRow("refresh", k.copy[key]) /\ k.copy[key].device \in Devices
      /\ key[1] = "refresh"
  BY <1>1 DEF TxSound, CopiesSound
<1>7. k.copy[key] \in [status : {"stored"}, device : Devices, used : BOOLEAN, revoked : BOOLEAN]
  BY <1>6, NoneIsNoId DEF IsRow, NoRow
<1>8. /\ row \in [status : {"stored"}, device : Devices, used : BOOLEAN, revoked : BOOLEAN]
      /\ row.device = k.copy[key].device /\ row.used = k.copy[key].used
  BY <1>7
<1>9. k.kind = "revoke" => row.device = k.arg["device"]
  BY <1>1, <1>6, <1>8 DEF TxSound, TokensSeen
<1> HIDE DEF key, wrote, todo
<1>10. Shape(r)
  <2>1. todo \subseteq k.todo
    BY DEF todo
  <2> QED
    BY <1>1, <1>2, <2>1 DEF TxSound, Shape, AllKinds
<1>11. ArgsSound(r) /\ NamedExists(r, data)
  BY <1>2 DEF TxSound, ArgsSound, NamedExists
<1>12. CopiesSound(r, data)
  BY <1>2, <1>4 DEF TxSound, CopiesSound
<1>13. LocksSound(r)
  <2>1. LocksSound(k)
    BY DEF TxSound
  <2>2. \A i \in Past(r, {"write"}) : KeyOf(r, i) \in DOMAIN r.wrote
    BY <1>2, <1>3, <1>4, <2>1 DEF LocksSound
  <2>3. ASSUME NEW x \in DOMAIN r.wrote
        PROVE  \/ \E i \in Past(r, {"write"}) : x = KeyOf(r, i)
               \/ /\ Past(r, {"list"}) # {}
                  /\ \E u \in Tokens : x = <<"refresh", u>>
                  /\ x \in DOMAIN r.copy
    <3>1. CASE x = key
      BY <1>1, <1>2, <1>4, <1>5, <3>1 DEF key
    <3>2. CASE x \in DOMAIN k.wrote
      BY <1>2, <1>4, <2>1, <3>2 DEF LocksSound
    <3> QED
      BY <1>2, <1>3, <3>1, <3>2
  <2> QED
    BY <2>2, <2>3 DEF LocksSound
<1>14. RowsSound(r, data)
  <2> SUFFICES ASSUME k.kind = "revoke", NEW x \in DOMAIN r.wrote
               PROVE  RowSound(r.kind, r.arg, x, r.wrote[x], data)
    BY <1>1, <1>2 DEF RowsSound, Throws
  <2>1. CASE x = key
    <3>1. IsRow("refresh", row)
      BY <1>8 DEF IsRow
    <3> QED
      BY <1>2, <1>3, <1>6, <1>9, <2>1, <3>1 DEF RowSound
  <2>2. CASE x \in DOMAIN k.wrote /\ wrote[x] = k.wrote[x]
    BY <1>2, <2>2 DEF TxSound, RowsSound, Throws
  <2> QED
    BY <1>2, <1>3, <2>1, <2>2
<1>15. TokensSeen(r, data)
  <2>1. TokensSeen(k, data)
    BY DEF TxSound
  <2> QED
    BY <1>2, <1>3, <1>4, <1>8, <2>1 DEF TokensSeen
<1>16. LateSound(r, data)
  BY <1>1, <1>2 DEF LateSound
<1> QED
  BY <1>2, <1>9, <1>10, <1>11, <1>12, <1>13, <1>14, <1>15, <1>16 DEF TxSound, AnswerSound

-----------------------------------------------------------------------------
(* COMMIT. *)

\* What no commit takes back.
Later(data, new) ==
    /\ \A d \in Devices :
           /\ data[<<"device", d>>].status # "none" => new[<<"device", d>>].status # "none"
           /\ data[<<"family", d>>].status = "revoked"
                  => new[<<"family", d>>].status = "revoked"
    /\ \A t \in Tokens :
           /\ data[<<"refresh", t>>].device \in Devices
                  => new[<<"refresh", t>>].device = data[<<"refresh", t>>].device
           /\ data[<<"refresh", t>>].used => new[<<"refresh", t>>].used
    /\ \A k \in Tickets :
           /\ data[<<"ticket", k>>].device \in Devices
                  => new[<<"ticket", k>>].device = data[<<"ticket", k>>].device
           /\ data[<<"ticket", k>>].status = "used" => new[<<"ticket", k>>].status = "used"
    /\ \A s \in Sessions :
           data[<<"pairing", s>>].status = "redeemed"
               => new[<<"pairing", s>>].status = "redeemed"

LEMMA AdmittedStays ==
    ASSUME NEW data, NEW new, DbSound(new), Later(data, new),
           NEW d \in Devices, NEW t \in Tickets, Admitted(d, t, data)
    PROVE  Admitted(d, t, new)
<1>1. data[<<"ticket", t>>].status = "used" /\ data[<<"ticket", t>>].device = d
  BY DEF Admitted
<1>2. new[<<"ticket", t>>].status = "used" /\ new[<<"ticket", t>>].device = d
  BY <1>1 DEF Later
<1>3. IsRow("ticket", new[<<"ticket", t>>])
  BY KeysOfTables DEF DbSound
<1>4. new[<<"ticket", t>>] \in [status : {"unused", "used"}, device : Devices]
  BY <1>2, <1>3 DEF IsRow, NoRow
<1> QED
  BY <1>2, <1>4 DEF Admitted

\* A revocation that has listed its tokens holds the device row: nobody marks
\* one of them used.
NoneUsedSince(k, data, new) ==
    k.kind = "revoke" /\ Past(k, {"list"}) # {} =>
        \A t \in Tokens :
            data[<<"refresh", t>>].device = k.arg["device"] /\ new[<<"refresh", t>>].used
                => data[<<"refresh", t>>].used

LEMMA OthersKeep ==
    ASSUME NEW data, NEW new, DbSound(new), Later(data, new),
           NEW k, TxSound(k, data), NoneUsedSince(k, data, new)
    PROVE  TxSound(k, new)
<1>1. Shape(k) /\ ArgsSound(k) /\ LocksSound(k)
  BY DEF TxSound
<1>2. NamedExists(k, new)
  BY <1>1 DEF TxSound, NamedExists, ArgsSound, Later
<1>3. CopiesSound(k, new)
  <2>1. CopiesSound(k, data)
    BY DEF TxSound
  <2>2. ASSUME NEW x \in DOMAIN k.copy
        PROVE  /\ x[1] = "device" /\ k.copy[x].status = "revoked"
                      => new[<<"family", x[2]>>].status = "revoked"
               /\ x[1] \in {"refresh", "ticket"} => new[x].device = k.copy[x].device
    <3>1. x \in Keys
      BY <2>1 DEF CopiesSound
    <3>2. /\ x = <<x[1], x[2]>>
          /\ x[1] = "device" => x[2] \in Devices
          /\ x[1] = "refresh" => x[2] \in Tokens
          /\ x[1] = "ticket" => x[2] \in Tickets
      BY <3>1, TablesOfKeys
    <3>3. ASSUME x[1] = "device", k.copy[x].status = "revoked"
          PROVE  new[<<"family", x[2]>>].status = "revoked"
      BY <2>1, <3>2, <3>3 DEF CopiesSound, Later
    <3>4. ASSUME x[1] = "refresh" PROVE new[x].device = k.copy[x].device
      <4>1. k.copy[x].device \in Devices /\ data[x].device = k.copy[x].device
        BY <2>1, <3>4 DEF CopiesSound
      <4>2. x = <<"refresh", x[2]>> /\ x[2] \in Tokens
        BY <3>2, <3>4
      <4> QED
        BY <4>1, <4>2 DEF Later
    <3>5. ASSUME x[1] = "ticket" PROVE new[x].device = k.copy[x].device
      <4>1. k.copy[x].device \in Devices /\ data[x].device = k.copy[x].device
        BY <2>1, <3>5 DEF CopiesSound
      <4>2. x = <<"ticket", x[2]>> /\ x[2] \in Tickets
        BY <3>2, <3>5
      <4> QED
        BY <4>1, <4>2 DEF Later
    <3> QED
      BY <3>3, <3>4, <3>5
  <2> QED
    BY <2>1, <2>2 DEF CopiesSound
<1>4. RowsSound(k, new)
  <2> SUFFICES ASSUME k.kind \notin Throws, NEW x \in DOMAIN k.wrote
               PROVE  RowSound(k.kind, k.arg, x, k.wrote[x], new)
    BY DEF RowsSound
  <2>1. RowSound(k.kind, k.arg, x, k.wrote[x], data)
    BY DEF TxSound, RowsSound
  <2>2. x \in Keys
    BY <1>1, HoldsOwnRows
  <2>3. x[1] = "device" => x[2] \in Devices
    BY <2>2, TablesOfKeys
  <2>4. x[1] = "device" /\ data[<<"family", x[2]>>].status = "revoked"
            => new[<<"family", x[2]>>].status = "revoked"
    BY <2>3 DEF Later
  <2> QED
    BY <2>1, <2>4 DEF RowSound
<1>5. TokensSeen(k, new)
  <2> SUFFICES ASSUME k.kind = "revoke", NEW x \in DOMAIN k.copy, x[1] = "refresh"
               PROVE  /\ Past(k, {"list"}) # {}
                      /\ k.copy[x].device = k.arg["device"]
                      /\ new[x].used => k.copy[x].used
                      /\ x \in DOMAIN k.wrote => k.wrote[x].used = k.copy[x].used
    BY DEF TokensSeen
  <2>1. /\ Past(k, {"list"}) # {}
        /\ k.copy[x].device = k.arg["device"]
        /\ data[x].used => k.copy[x].used
        /\ x \in DOMAIN k.wrote => k.wrote[x].used = k.copy[x].used
    BY DEF TxSound, TokensSeen
  <2>2. x \in Keys /\ data[x].device = k.copy[x].device
    BY DEF TxSound, CopiesSound
  <2>3. x = <<"refresh", x[2]>> /\ x[2] \in Tokens
    BY <2>2, TablesOfKeys
  <2>4. new[x].used => data[x].used
    BY <2>1, <2>2, <2>3 DEF NoneUsedSince
  <2> QED
    BY <2>1, <2>4
<1>6. LateSound(k, new)
  BY <1>1 DEF TxSound, LateSound, ArgsSound, Later
<1>7. AnswerSound(k, new)
  BY <1>1, AdmittedStays DEF TxSound, AnswerSound, ArgsSound
<1> QED
  BY <1>1, <1>2, <1>3, <1>4, <1>5, <1>6, <1>7 DEF TxSound

\* A transaction that commits has made all its updates.
Done(k) ==
    /\ k.kind \in AllKinds
    /\ k.kind \notin Throws
    /\ k.pc > Len(Program(k.kind))
    /\ k.todo = {}
    /\ ~k.answer

LEMMA DoneHolds ==
    ASSUME NEW data, NEW k, TxSound(k, data), Done(k)
    PROVE  /\ k.kind \in {"register", "refresh", "revoke"}
                  => <<"device", k.arg["device"]>> \in DOMAIN k.wrote
           /\ k.kind \in {"register", "revoke"}
                  => <<"family", k.arg["device"]>> \in DOMAIN k.wrote
           /\ k.kind = "consume" => <<"ticket", k.arg["ticket"]>> \in DOMAIN k.wrote
<1>1. LocksSound(k) /\ Len(Program(k.kind)) \in Nat /\ k.pc = Len(Program(k.kind)) + 1
  <2>1. Len(Program(k.kind)) \in Nat
    BY ProgramsAre DEF Done, AllKinds
  <2>2. k.pc \in 1..(Len(Program(k.kind)) + 1)
    BY DEF TxSound, Shape, Done, AllKinds
  <2> QED
    BY <2>1, <2>2 DEF TxSound, Done
<1>2. \A i \in 1..Len(Program(k.kind)) :
          Program(k.kind)[i].op = "write" => KeyOf(k, i) \in DOMAIN k.wrote
  BY <1>1 DEF LocksSound, Past
<1>3. ASSUME k.kind = "register"
      PROVE  /\ <<"device", k.arg["device"]>> \in DOMAIN k.wrote
             /\ <<"family", k.arg["device"]>> \in DOMAIN k.wrote
  <2>1. /\ Len(Program(k.kind)) = 6
        /\ Program(k.kind)[4] = Write("device", "device")
        /\ Program(k.kind)[5] = Write("family", "device")
    BY <1>3, ProgramsAre
  <2> QED
    BY <1>2, <2>1 DEF Write, KeyOf
<1>4. ASSUME k.kind = "refresh" PROVE <<"device", k.arg["device"]>> \in DOMAIN k.wrote
  <2>1. Len(Program(k.kind)) = 6 /\ Program(k.kind)[6] = Write("device", "device")
    BY <1>4, ProgramsAre
  <2> QED
    BY <1>2, <2>1 DEF Write, KeyOf
<1>5. ASSUME k.kind = "revoke"
      PROVE  /\ <<"device", k.arg["device"]>> \in DOMAIN k.wrote
             /\ <<"family", k.arg["device"]>> \in DOMAIN k.wrote
  <2>1. /\ Len(Program(k.kind)) = 5
        /\ Program(k.kind)[2] = Write("device", "device")
        /\ Program(k.kind)[4] = Write("family", "device")
    BY <1>5, ProgramsAre
  <2> QED
    BY <1>2, <2>1 DEF Write, KeyOf
<1>6. ASSUME k.kind = "consume" PROVE <<"ticket", k.arg["ticket"]>> \in DOMAIN k.wrote
  <2>1. Len(Program(k.kind)) = 4 /\ Program(k.kind)[3] = Write("ticket", "ticket")
    BY <1>6, ProgramsAre
  <2> QED
    BY <1>2, <2>1 DEF Write, KeyOf
<1> QED
  BY <1>3, <1>4, <1>5, <1>6

\* The rows that a handler inserts are not there yet.
Drawn(k, data) ==
    \A draw \in Draws(k.kind) : data[<<draw[1], k.arg[draw[2]]>>].status = "none"

LEMMA DrawnRows ==
    ASSUME NEW data, NEW k, Drawn(k, data)
    PROVE  /\ k.kind = "register" =>
                  /\ data[<<"device", k.arg["device"]>>].status = "none"
                  /\ data[<<"family", k.arg["device"]>>].status = "none"
                  /\ data[<<"refresh", k.arg["new"]>>].status = "none"
           /\ k.kind \in {"refresh", "replay"} =>
                  data[<<"refresh", k.arg["new"]>>].status = "none"
           /\ k.kind = "issue" => data[<<"ticket", k.arg["ticket"]>>].status = "none"
<1>1. ASSUME k.kind = "register"
      PROVE  /\ data[<<"device", k.arg["device"]>>].status = "none"
             /\ data[<<"family", k.arg["device"]>>].status = "none"
             /\ data[<<"refresh", k.arg["new"]>>].status = "none"
  <2>1. Draws(k.kind) = {<<"device", "device">>, <<"family", "device">>, <<"refresh", "new">>}
    BY <1>1 DEF Draws
  <2> QED
    BY <2>1 DEF Drawn
<1>2. ASSUME k.kind \in {"refresh", "replay"}
      PROVE  data[<<"refresh", k.arg["new"]>>].status = "none"
  <2>1. Draws(k.kind) = {<<"refresh", "new">>}
    BY <1>2 DEF Draws
  <2> QED
    BY <2>1 DEF Drawn
<1>3. ASSUME k.kind = "issue" PROVE data[<<"ticket", k.arg["ticket"]>>].status = "none"
  <2>1. Draws(k.kind) = {<<"ticket", "ticket">>}
    BY <1>3 DEF Draws
  <2> QED
    BY <2>1 DEF Drawn
<1> QED
  BY <1>1, <1>2, <1>3

LEMMA CommitMovesOn ==
    ASSUME NEW data, DbSound(data), NEW k, TxSound(k, data), Done(k), Drawn(k, data),
           NEW new, new = Over(k.wrote, data)
    PROVE  /\ Later(data, new)
           /\ DbSound(new)
           /\ \A key \in DOMAIN k.wrote : new[key] = k.wrote[key]
           /\ \A key \in Keys : key \notin DOMAIN k.wrote => new[key] = data[key]
<1> DEFINE W == DOMAIN k.wrote
<1>1. /\ Shape(k) /\ ArgsSound(k) /\ NamedExists(k, data) /\ CopiesSound(k, data)
      /\ LocksSound(k) /\ TokensSeen(k, data)
      /\ k.kind \notin Throws /\ k.kind # "replay" /\ k.kind # "guess"
  BY DEF TxSound, Done, Throws
<1>2. \A key \in W : /\ WroteSound(k, key) /\ key \in Keys
                     /\ RowSound(k.kind, k.arg, key, k.wrote[key], data)
  BY <1>1, HoldsOwnRows DEF TxSound, RowsSound
<1>3. /\ \A key \in W : new[key] = k.wrote[key]
      /\ \A key \in Keys : key \notin W => new[key] = data[key]
      /\ new = [key \in Keys |-> new[key]]
  BY <1>2 DEF Over, DbSound
<1>4. \A key \in Keys : IsRow(key[1], new[key])
  BY <1>2, <1>3 DEF DbSound, RowSound
<1>5. ASSUME NEW d \in Devices, <<"device", d>> \in W
      PROVE  /\ d = k.arg["device"]
             /\ new[<<"device", d>>].status # "none"
             /\ new[<<"device", d>>].status = "revoked" =>
                    k.kind = "revoke" \/ data[<<"family", d>>].status = "revoked"
  <2>1. WroteSound(k, <<"device", d>>) /\ new[<<"device", d>>] = k.wrote[<<"device", d>>]
    BY <1>2, <1>3, <1>5
  <2>2. RowSound(k.kind, k.arg, <<"device", d>>, new[<<"device", d>>], data)
    BY <1>2, <1>5, <2>1
  <2> QED
    BY <2>1, <2>2 DEF WroteSound, RowSound
<1>6. ASSUME NEW d \in Devices, <<"family", d>> \in W
      PROVE  /\ d = k.arg["device"]
             /\ k.kind \in {"register", "revoke"}
             /\ k.kind = "revoke" => new[<<"family", d>>].status = "revoked"
  <2>1. WroteSound(k, <<"family", d>>) /\ new[<<"family", d>>] = k.wrote[<<"family", d>>]
    BY <1>2, <1>3, <1>6
  <2>2. RowSound(k.kind, k.arg, <<"family", d>>, new[<<"family", d>>], data)
    BY <1>2, <1>6, <2>1
  <2> QED
    BY <1>1, <2>1, <2>2 DEF WroteSound, RowSound
<1>7. ASSUME NEW t \in Tokens, <<"refresh", t>> \in W
      PROVE  /\ new[<<"refresh", t>>].device = k.arg["device"]
             /\ k.kind \in {"register", "refresh", "revoke"}
             /\ \/ data[<<"refresh", t>>].status = "none"
                \/ /\ data[<<"refresh", t>>].device = k.arg["device"]
                   /\ data[<<"refresh", t>>].used => new[<<"refresh", t>>].used
  <2>1. WroteSound(k, <<"refresh", t>>) /\ new[<<"refresh", t>>] = k.wrote[<<"refresh", t>>]
    BY <1>2, <1>3, <1>7
  <2>2. RowSound(k.kind, k.arg, <<"refresh", t>>, new[<<"refresh", t>>], data)
    BY <1>2, <1>7, <2>1
  <2>3. new[<<"refresh", t>>].device = k.arg["device"]
    BY <2>2 DEF RowSound
  <2>4. CASE t = k.arg["new"] /\ k.kind \in {"register", "refresh"}
    BY <2>3, <2>4, DrawnRows
  <2>5. CASE t = k.arg["token"] /\ k.kind = "refresh"
    BY <1>1, <2>2, <2>3, <2>5 DEF NamedExists, RowSound
  <2>6. CASE k.kind = "revoke" /\ <<"refresh", t>> \in DOMAIN k.copy
    <3>1. /\ k.copy[<<"refresh", t>>].device = k.arg["device"]
          /\ data[<<"refresh", t>>].used => k.copy[<<"refresh", t>>].used
          /\ k.wrote[<<"refresh", t>>].used = k.copy[<<"refresh", t>>].used
      BY <1>1, <1>7, <2>6 DEF TokensSeen
    <3>2. data[<<"refresh", t>>].device = k.copy[<<"refresh", t>>].device
      BY <1>1, <2>6 DEF CopiesSound
    <3> QED
      BY <2>1, <2>3, <2>6, <3>1, <3>2
  <2> QED
    BY <1>1, <2>1, <2>4, <2>5, <2>6 DEF WroteSound
<1>8. ASSUME NEW t \in Tickets, <<"ticket", t>> \in W
      PROVE  /\ new[<<"ticket", t>>].device = k.arg["device"]
             /\ k.kind \in {"issue", "consume"}
             /\ \/ data[<<"ticket", t>>].status = "none"
                \/ /\ data[<<"ticket", t>>].device = k.arg["device"]
                   /\ new[<<"ticket", t>>].status = "used"
  <2>1. WroteSound(k, <<"ticket", t>>) /\ new[<<"ticket", t>>] = k.wrote[<<"ticket", t>>]
    BY <1>2, <1>3, <1>8
  <2>2. RowSound(k.kind, k.arg, <<"ticket", t>>, new[<<"ticket", t>>], data)
    BY <1>2, <1>8, <2>1
  <2>3. t = k.arg["ticket"] /\ k.kind \in {"issue", "consume"}
    BY <2>1 DEF WroteSound
  <2> QED
    BY <1>1, <2>2, <2>3, DrawnRows DEF NamedExists, RowSound
<1>9. ASSUME NEW s \in Sessions, <<"pairing", s>> \in W
      PROVE  new[<<"pairing", s>>].status = "redeemed"
  <2>1. RowSound(k.kind, k.arg, <<"pairing", s>>, new[<<"pairing", s>>], data)
    BY <1>2, <1>3, <1>9
  <2> QED
    BY <2>1 DEF RowSound
<1> HIDE DEF W
<1>10. Later(data, new)
  <2>1. ASSUME NEW d \in Devices
        PROVE  /\ data[<<"device", d>>].status # "none" => new[<<"device", d>>].status # "none"
               /\ data[<<"family", d>>].status = "revoked"
                      => new[<<"family", d>>].status = "revoked"
    <3>1. data[<<"device", d>>].status # "none" => new[<<"device", d>>].status # "none"
      BY <1>3, <1>5, KeysOfTables
    <3>2. ASSUME data[<<"family", d>>].status = "revoked"
          PROVE  new[<<"family", d>>].status = "revoked"
      <4>1. CASE <<"family", d>> \in W
        BY <1>6, <3>2, <4>1, DrawnRows
      <4>2. CASE <<"family", d>> \notin W
        BY <1>3, <3>2, <4>2, KeysOfTables
      <4> QED
        BY <4>1, <4>2
    <3> QED
      BY <3>1, <3>2
  <2>2. ASSUME NEW t \in Tokens
        PROVE  /\ data[<<"refresh", t>>].device \in Devices
                      => new[<<"refresh", t>>].device = data[<<"refresh", t>>].device
               /\ data[<<"refresh", t>>].used => new[<<"refresh", t>>].used
    <3>1. IsRow("refresh", data[<<"refresh", t>>])
      BY KeysOfTables DEF DbSound
    <3>2. data[<<"refresh", t>>].status = "none" =>
              data[<<"refresh", t>>].device \notin Devices /\ ~data[<<"refresh", t>>].used
      BY <3>1, RowsOfTables
    <3>3. CASE <<"refresh", t>> \in W
      BY <1>7, <3>2, <3>3
    <3>4. CASE <<"refresh", t>> \notin W
      <4>1. new[<<"refresh", t>>] = data[<<"refresh", t>>]
        BY <1>3, <3>4, KeysOfTables
      <4> QED
        BY <4>1
    <3> QED
      BY <3>3, <3>4
  <2>3. ASSUME NEW t \in Tickets
        PROVE  /\ data[<<"ticket", t>>].device \in Devices
                      => new[<<"ticket", t>>].device = data[<<"ticket", t>>].device
               /\ data[<<"ticket", t>>].status = "used" => new[<<"ticket", t>>].status = "used"
    <3>1. IsRow("ticket", data[<<"ticket", t>>])
      BY KeysOfTables DEF DbSound
    <3>2. data[<<"ticket", t>>].status = "none" => data[<<"ticket", t>>].device \notin Devices
      BY <3>1, RowsOfTables
    <3>3. CASE <<"ticket", t>> \in W
      BY <1>8, <3>2, <3>3
    <3>4. CASE <<"ticket", t>> \notin W
      BY <1>3, <3>4, KeysOfTables
    <3> QED
      BY <3>3, <3>4
  <2>4. ASSUME NEW s \in Sessions, data[<<"pairing", s>>].status = "redeemed"
        PROVE  new[<<"pairing", s>>].status = "redeemed"
    <3>1. CASE <<"pairing", s>> \in W
      BY <1>9, <3>1
    <3>2. CASE <<"pairing", s>> \notin W
      BY <1>3, <2>4, <3>2, KeysOfTables
    <3> QED
      BY <3>1, <3>2
  <2> QED
    BY <2>1, <2>2, <2>3, <2>4 DEF Later
<1>11. k.kind \in {"register", "refresh", "revoke", "issue", "consume"}
           => k.arg["device"] \in Devices /\ new[<<"device", k.arg["device"]>>].status # "none"
  <2>1. k.kind \in {"register", "refresh", "revoke", "issue", "consume"}
            => k.arg["device"] \in Devices
    BY <1>1 DEF ArgsSound
  <2>2. k.kind = "register" => <<"device", k.arg["device"]>> \in W
    BY DoneHolds DEF W
  <2>3. k.kind \in {"refresh", "revoke", "issue", "consume"}
            => data[<<"device", k.arg["device"]>>].status # "none"
    BY <1>1 DEF NamedExists
  <2> QED
    BY <1>5, <1>10, <2>1, <2>2, <2>3 DEF Later
<1>12. DbSound(new)
  <2>1. ASSUME NEW d \in Devices
        PROVE  /\ new[<<"device", d>>].status = "none" => new[<<"family", d>>].status = "none"
               /\ new[<<"device", d>>].status = "revoked"
                      => new[<<"family", d>>].status = "revoked"
    <3>1. ASSUME new[<<"device", d>>].status = "none"
          PROVE  new[<<"family", d>>].status = "none"
      <4>1. data[<<"device", d>>].status = "none"
        BY <1>10, <3>1 DEF Later
      <4>2. data[<<"family", d>>].status = "none"
        BY <4>1 DEF DbSound
      <4>3. <<"family", d>> \notin W
        BY <1>6, <1>11, <3>1
      <4> QED
        BY <1>3, <4>2, <4>3, KeysOfTables
    <3>2. ASSUME new[<<"device", d>>].status = "revoked"
          PROVE  new[<<"family", d>>].status = "revoked"
      <4>1. CASE <<"device", d>> \in W
        <5>1. d = k.arg["device"] /\ (k.kind = "revoke" \/ data[<<"family", d>>].status = "revoked")
          BY <1>5, <3>2, <4>1
        <5>2. CASE k.kind = "revoke"
          <6>1. <<"family", d>> \in W
            BY <5>1, <5>2, DoneHolds DEF W
          <6> QED
            BY <1>6, <5>2, <6>1
        <5>3. CASE data[<<"family", d>>].status = "revoked"
          BY <1>10, <5>3 DEF Later
        <5> QED
          BY <5>1, <5>2, <5>3
      <4>2. CASE <<"device", d>> \notin W
        <5>1. data[<<"device", d>>].status = "revoked"
          BY <1>3, <3>2, <4>2, KeysOfTables
        <5>2. data[<<"family", d>>].status = "revoked"
          BY <5>1 DEF DbSound
        <5> QED
          BY <1>10, <5>2 DEF Later
      <4> QED
        BY <4>1, <4>2
    <3> QED
      BY <3>1, <3>2
  <2>2. ASSUME NEW t \in Tokens, new[<<"refresh", t>>].status # "none"
        PROVE  new[<<"device", new[<<"refresh", t>>].device>>].status # "none"
    <3>1. CASE <<"refresh", t>> \in W
      BY <1>7, <1>11, <3>1
    <3>2. CASE <<"refresh", t>> \notin W
      <4>1. new[<<"refresh", t>>] = data[<<"refresh", t>>]
        BY <1>3, <3>2, KeysOfTables
      <4>2. data[<<"refresh", t>>].status # "none" /\ IsRow("refresh", data[<<"refresh", t>>])
        BY <2>2, <4>1, KeysOfTables DEF DbSound
      <4>3. /\ data[<<"refresh", t>>].device \in Devices
            /\ data[<<"device", data[<<"refresh", t>>].device>>].status # "none"
        BY <4>2, RowsOfTables DEF DbSound
      <4>4. \A d \in Devices : data[<<"device", d>>].status # "none"
                                => new[<<"device", d>>].status # "none"
        BY <1>10 DEF Later
      <4>5. new[<<"refresh", t>>].device = data[<<"refresh", t>>].device
        BY <4>1
      <4> QED
        BY <4>3, <4>4, <4>5
    <3> QED
      BY <3>1, <3>2
  <2>3. ASSUME NEW t \in Tickets, new[<<"ticket", t>>].status # "none"
        PROVE  new[<<"device", new[<<"ticket", t>>].device>>].status # "none"
    <3>1. CASE <<"ticket", t>> \in W
      BY <1>8, <1>11, <3>1
    <3>2. CASE <<"ticket", t>> \notin W
      <4>1. new[<<"ticket", t>>] = data[<<"ticket", t>>]
        BY <1>3, <3>2, KeysOfTables
      <4>2. data[<<"ticket", t>>].status # "none" /\ IsRow("ticket", data[<<"ticket", t>>])
        BY <2>3, <4>1, KeysOfTables DEF DbSound
      <4>3. /\ data[<<"ticket", t>>].device \in Devices
            /\ data[<<"device", data[<<"ticket", t>>].device>>].status # "none"
        BY <4>2, RowsOfTables DEF DbSound
      <4>4. \A d \in Devices : data[<<"device", d>>].status # "none"
                                => new[<<"device", d>>].status # "none"
        BY <1>10 DEF Later
      <4>5. new[<<"ticket", t>>].device = data[<<"ticket", t>>].device
        BY <4>1
      <4> QED
        BY <4>3, <4>4, <4>5
    <3> QED
      BY <3>1, <3>2
  <2> QED
    BY <1>3, <1>4, <2>1, <2>2, <2>3 DEF DbSound
<1> QED
  BY <1>3, <1>10, <1>12 DEF W

-----------------------------------------------------------------------------
(* Steps of the system. *)

LEMMA Fields ==
    /\ IsTx(Idle)
    /\ Idle.kind = "idle" /\ Idle.arg = NoArg /\ Idle.pc = 1 /\ Idle.copy = Empty
    /\ Idle.wrote = Empty /\ Idle.todo = {} /\ Idle.answer = FALSE /\ Idle.late = FALSE
    /\ DOMAIN Empty = {}
  BY DEF Idle, IsTx, Empty

\* A transaction that has just begun, or was just committed.
LEMMA CleanTx ==
    ASSUME NEW data, NEW k, IsTx(k), Clean(k),
           k.kind \in AllKinds \cup {"idle"}, k.kind = "idle" => k = Idle,
           ArgsSound(k), NamedExists(k, data), LateSound(k, data), AnswerSound(k, data)
    PROVE  TxSound(k, data)
<1>1. /\ k.copy = Empty /\ k.wrote = Empty /\ k.todo = {} /\ k.pc = 1
      /\ DOMAIN k.copy = {} /\ DOMAIN k.wrote = {}
  BY Fields DEF Clean
<1>2. \A ops : Past(k, ops) = {}
  BY <1>1 DEF Past
<1>3. Shape(k)
  <2>1. k.kind # "idle" => Len(Program(k.kind)) \in Nat
    BY ProgramsAre DEF AllKinds
  <2> QED
    BY <1>1, <2>1 DEF Shape
<1>4. CopiesSound(k, data) /\ LocksSound(k)
  BY <1>1, <1>2 DEF CopiesSound, LocksSound
<1>5. RowsSound(k, data) /\ TokensSeen(k, data)
  BY <1>1 DEF RowsSound, TokensSeen
<1> QED
  BY <1>3, <1>4, <1>5 DEF TxSound

LEMMA IdleSound == ASSUME NEW data PROVE TxSound(Idle, data)
<1>1. /\ ArgsSound(Idle) /\ NamedExists(Idle, data) /\ LateSound(Idle, data)
      /\ AnswerSound(Idle, data) /\ Clean(Idle)
  BY Fields DEF ArgsSound, NamedExists, LateSound, AnswerSound, Clean
<1> QED
  BY <1>1, Fields, CleanTx

LEMMA AtWorks ==
    ASSUME NEW x \in Txs, TxSound(tx[x], db), NEW ops, At(x, ops)
    PROVE  /\ Works(tx[x], ops)
           /\ Key(x) = KeyOf(tx[x], tx[x].pc)
           /\ Statement(x) = Program(tx[x].kind)[tx[x].pc]
<1>1. /\ tx[x].kind \in AllKinds /\ tx[x].kind # "idle" /\ ~tx[x].answer
      /\ tx[x].pc \in 1..(Len(Program(tx[x].kind)) + 1)
      /\ tx[x].pc <= Len(Program(tx[x].kind))
      /\ tx[x].todo = {} /\ Statement(x).op \in ops
  BY DEF At, Running, TxSound, Shape
<1>2. Len(Program(tx[x].kind)) \in Nat
  BY <1>1, ProgramsAre DEF AllKinds
<1>3. tx[x].pc \in 1..Len(Program(tx[x].kind))
  BY <1>1, <1>2
<1> QED
  BY <1>1, <1>3 DEF Works, Statement, Key, KeyOf

\* Every select comes before the updates of its table, so what it sees is
\* committed.
LEMMA SelectsCommitted ==
    ASSUME NEW x \in Txs, TxSound(tx[x], db), At(x, {"check", "read"})
    PROVE  Row(x, Key(x)) = db[Key(x)]
<1> DEFINE k == tx[x]
<1>1. Works(k, {"check", "read"}) /\ Key(x) = KeyOf(k, k.pc)
  BY AtWorks
<1>2. SelectSound(k.kind, k.pc)
  BY <1>1, ProgramsSound DEF Works
<1>3. Past(k, {"list"}) = {}
  BY <1>2 DEF SelectSound, Past
<1>4. \A i \in Past(k, {"write"}) : KeyOf(k, i) # KeyOf(k, k.pc)
  <2> TAKE i \in Past(k, {"write"})
  <2>1. Program(k.kind)[i].table # Program(k.kind)[k.pc].table
    BY <1>2 DEF SelectSound, Past
  <2>2. /\ KeyOf(k, i)[1] = Program(k.kind)[i].table
        /\ KeyOf(k, k.pc)[1] = Program(k.kind)[k.pc].table
    BY DEF KeyOf
  <2> QED
    BY <2>1, <2>2
<1>5. Key(x) \notin DOMAIN k.wrote
  BY <1>1, <1>3, <1>4 DEF TxSound, LocksSound
<1> QED
  BY <1>5 DEF Row, Holds

LEMMA ListsCommitted ==
    ASSUME NEW x \in Txs, TxSound(tx[x], db), At(x, {"list"})
    PROVE  \A t \in Tokens : Row(x, <<"refresh", t>>) = db[<<"refresh", t>>]
<1> DEFINE k == tx[x]
<1>1. Works(k, {"list"})
  BY AtWorks
<1>2. ListSound(k.kind, k.pc)
  BY <1>1, ProgramsSound DEF Works
<1>3. Past(k, {"list"}) = {}
  BY <1>2 DEF ListSound, Past
<1>4. \A i \in Past(k, {"write"}) : KeyOf(k, i)[1] # "refresh"
  <2> TAKE i \in Past(k, {"write"})
  <2>1. Program(k.kind)[i].table \in {"device", "family"}
    BY <1>2 DEF ListSound, Past
  <2>2. KeyOf(k, i)[1] = Program(k.kind)[i].table
    BY DEF KeyOf
  <2> QED
    BY <2>1, <2>2
<1>5. \A t \in Tokens : <<"refresh", t>> \notin DOMAIN k.wrote
  <2> TAKE t \in Tokens
  <2>1. <<"refresh", t>>[1] = "refresh"
    OBVIOUS
  <2> QED
    BY <1>3, <1>4, <2>1 DEF TxSound, LocksSound
<1> QED
  BY <1>5 DEF Row, Holds

\* What a handler draws is a key.
LEMMA DrawnKeys ==
    ASSUME NEW k, ArgsSound(k), NEW draw \in Draws(k.kind)
    PROVE  /\ <<draw[1], k.arg[draw[2]]>> \in Keys
           /\ draw \in {<<"device", "device">>, <<"family", "device">>, <<"refresh", "new">>,
                        <<"ticket", "ticket">>}
<1>1. CASE k.kind = "register"
  <2>1. Draws(k.kind) = {<<"device", "device">>, <<"family", "device">>, <<"refresh", "new">>}
    BY <1>1 DEF Draws
  <2>2. k.arg["device"] \in Devices /\ k.arg["new"] \in Tokens
    BY <1>1 DEF ArgsSound
  <2>3. /\ <<"device", k.arg["device"]>> \in Keys /\ <<"family", k.arg["device"]>> \in Keys
        /\ <<"refresh", k.arg["new"]>> \in Keys
    BY <2>2, KeysOfTables
  <2> QED
    BY <2>1, <2>3
<1>2. CASE k.kind \in {"refresh", "replay"}
  <2>1. Draws(k.kind) = {<<"refresh", "new">>}
    BY <1>2 DEF Draws
  <2> QED
    BY <1>2, <2>1, KeysOfTables DEF ArgsSound
<1>3. CASE k.kind = "issue"
  <2>1. Draws(k.kind) = {<<"ticket", "ticket">>}
    BY <1>3 DEF Draws
  <2> QED
    BY <1>3, <2>1, KeysOfTables DEF ArgsSound
<1>4. CASE k.kind \notin {"register", "refresh", "replay", "issue"}
  BY <1>4 DEF Draws
<1> QED
  BY <1>1, <1>2, <1>3, <1>4

LEMMA DrawsAreSomething ==
    ASSUME NEW k, ArgsSound(k), NEW draw \in Draws(k.kind)
    PROVE  /\ k.arg[draw[2]] # None
           /\ draw[2] \in {"device", "new", "ticket"}
<1>1. /\ <<draw[1], k.arg[draw[2]]>> \in Keys
      /\ draw \in {<<"device", "device">>, <<"family", "device">>, <<"refresh", "new">>,
                   <<"ticket", "ticket">>}
  BY DrawnKeys
<1>2. k.arg[draw[2]] \in Devices \cup Tokens \cup Tickets
  BY <1>1, TablesOfKeys
<1> QED
  BY <1>1, <1>2, NoneIsNoId

\* One transaction moves on, and the database stays as it is.
LEMMA TxStep ==
    ASSUME IndInv, NEW x \in Txs, NEW r, tx' = [tx EXCEPT ![x] = r], db' = db,
           TxSound(r, db), ConnectionsSound',
           \A y \in Txs \ {x} : DOMAIN r.wrote \cap DOMAIN tx[y].wrote = {},
           \/ r = Idle
           \/ /\ r.arg = tx[x].arg /\ r.answer = tx[x].answer
              /\ Draws(r.kind) = Draws(tx[x].kind)
    PROVE  IndInv'
<1>1. /\ tx' = [y \in Txs |-> tx'[y]]
      /\ tx'[x] = r
      /\ \A y \in Txs \ {x} : tx'[y] = tx[y]
  BY DEF IndInv
<1>2. \A y \in Txs : TxSound(tx'[y], db)
  BY <1>1 DEF IndInv
<1>3. DrawsSound'
  <2> SUFFICES ASSUME NEW y \in Txs, ~tx'[y].answer, NEW draw \in Draws(tx'[y].kind)
               PROVE  /\ db[<<draw[1], tx'[y].arg[draw[2]]>>].status = "none"
                      /\ \A z \in Txs \ {y} : tx'[z].arg[draw[2]] # tx'[y].arg[draw[2]]
    BY DEF DrawsSound
  <2>1. tx'[y] # Idle
    BY Fields DEF Draws
  <2>2. /\ tx'[y].arg = tx[y].arg
        /\ ~tx[y].answer /\ draw \in Draws(tx[y].kind)
    BY <1>1, <2>1
  <2>3. /\ db[<<draw[1], tx[y].arg[draw[2]]>>].status = "none"
        /\ \A z \in Txs \ {y} : tx[z].arg[draw[2]] # tx[y].arg[draw[2]]
    BY <2>2 DEF IndInv, DrawsSound
  <2>4. tx[y].arg[draw[2]] # None /\ draw[2] \in {"device", "new", "ticket"}
    BY <2>2, DrawsAreSomething DEF IndInv, TxSound
  <2>5. \A z \in Txs : tx'[z].arg = tx[z].arg \/ tx'[z].arg = NoArg
    BY <1>1, Fields
  <2>6. NoArg[draw[2]] = None
    BY <2>4 DEF NoArg, Roles
  <2> QED
    BY <2>2, <2>3, <2>4, <2>5, <2>6
<1>4. LocksDisjoint'
  BY <1>1 DEF IndInv, LocksDisjoint
<1> QED
  BY <1>1, <1>2, <1>3, <1>4 DEF IndInv

LEMMA RollBackKeepsInv ==
    ASSUME IndInv, NEW x \in Txs, tx' = RolledBack(x), db' = db, ConnectionsSound'
    PROVE  IndInv'
<1>1. tx' = [tx EXCEPT ![x] = Idle]
  BY DEF RolledBack
<1>2. \A y \in Txs \ {x} : DOMAIN Idle.wrote \cap DOMAIN tx[y].wrote = {}
  BY Fields
<1> QED
  BY <1>1, <1>2, IdleSound, TxStep

LEMMA SelectKeepsInv == ASSUME IndInv, NEW x \in Txs, Select(x) PROVE IndInv'
<1> DEFINE k == tx[x]
           row == Row(x, Key(x))
           verdict == Verdict(x, row)
           r == [k EXCEPT !.kind = verdict, !.copy = Put(Key(x), row, k.copy), !.pc = k.pc + 1]
<1>1. /\ TxSound(k, db) /\ At(x, {"check", "read"}) /\ db' = db /\ ConnectionsSound'
      /\ tx = [y \in Txs |-> tx[y]] /\ DbSound(db)
  BY DEF IndInv, Select, ConnectionsSound, Admitted
<1>2. CASE verdict = "throw"
  <2>1. tx' = RolledBack(x)
    BY <1>2 DEF Select
  <2> QED
    BY <1>1, <2>1, RollBackKeepsInv
<1>3. CASE verdict # "throw"
  <2>1. tx' = [tx EXCEPT ![x] = r]
    <3>1. tx' = [tx EXCEPT ![x].kind = verdict, ![x].copy = Put(Key(x), row, @),
                           ![x].pc = @ + 1]
      BY <1>3 DEF Select
    <3>2. IsTx(k)
      BY <1>1 DEF TxSound, Shape
    <3> HIDE DEF verdict, row
    <3> QED
      BY <3>1, <3>2 DEF IsTx
  <2>2. /\ Works(k, {"check", "read"}) /\ Key(x) = KeyOf(k, k.pc)
        /\ Statement(x) = Program(k.kind)[k.pc]
        /\ row = db[KeyOf(k, k.pc)]
    BY <1>1, AtWorks, SelectsCommitted
  <2>3. verdict = k.kind \/ (verdict = "replay" /\ k.kind = "refresh" /\ k.pc = 3)
    <3>1. \/ verdict = k.kind
          \/ /\ k.kind = "refresh" /\ Statement(x).table = "family"
             /\ verdict \in {"replay", "refresh"}
      BY <1>3 DEF Verdict
    <3>2. ASSUME k.kind = "refresh", Statement(x).table = "family" PROVE k.pc = 3
      <4>1. k.pc = 1 \/ k.pc = 2 \/ k.pc = 3 \/ k.pc = 4 \/ k.pc = 5 \/ k.pc = 6
        <5>1. k.pc \in 1..6
          BY <2>2, <3>2, ProgramsAre DEF Works
        <5> QED
          BY <5>1
      <4>2. Program("refresh")[k.pc].table = "family"
        BY <2>2, <3>2
      <4>3. /\ Program("refresh")[1].table # "family" /\ Program("refresh")[2].table # "family"
            /\ Program("refresh")[4].table # "family" /\ Program("refresh")[5].table # "family"
            /\ Program("refresh")[6].table # "family"
        BY ProgramsAre DEF Check, Write
      <4> HIDE DEF k
      <4> QED
        BY <4>1, <4>2, <4>3
    <3> QED
      BY <3>1, <3>2
  <2>4. Accepts(k, row, verdict)
    <3>1. Statement(x).op = "check" => row.status = Required(Statement(x).table)
      BY <1>3 DEF Verdict
    <3> QED
      BY <2>2, <2>3, <3>1 DEF Accepts
  <2>5. TxSound(r, db)
    <3>1. r = [k EXCEPT !.kind = verdict,
                        !.copy = Put(KeyOf(k, k.pc), db[KeyOf(k, k.pc)], k.copy),
                        !.pc = k.pc + 1]
      BY <2>2
    <3>2. Accepts(k, db[KeyOf(k, k.pc)], verdict)
      BY <2>2, <2>4
    <3> HIDE DEF r, k, verdict, row
    <3> QED
      BY <1>1, <2>2, <3>1, <3>2, SelectKeepsTx
  <2>6. r.wrote = k.wrote /\ r.arg = k.arg /\ r.answer = k.answer /\ r.kind = verdict
    BY <1>1 DEF TxSound, Shape, IsTx
  <2>7. Draws(r.kind) = Draws(k.kind)
    BY <2>3, <2>6 DEF Draws
  <2>8. \A y \in Txs \ {x} : DOMAIN r.wrote \cap DOMAIN tx[y].wrote = {}
    BY <2>6 DEF IndInv, LocksDisjoint
  <2> HIDE DEF r
  <2> QED
    BY <1>1, <2>1, <2>5, <2>6, <2>7, <2>8, TxStep
<1> QED
  BY <1>2, <1>3

LEMMA UpdateKeepsInv == ASSUME IndInv, NEW x \in Txs, Update(x) PROVE IndInv'
<1> DEFINE k == tx[x]
           r == [k EXCEPT !.wrote = Put(Key(x), Written(x), k.wrote), !.pc = k.pc + 1]
<1>1. /\ TxSound(k, db) /\ At(x, {"write"}) /\ db' = db /\ ConnectionsSound'
      /\ tx = [y \in Txs |-> tx[y]] /\ IsTx(k)
  BY DEF IndInv, Update, ConnectionsSound, Admitted, TxSound, Shape
<1>2. tx' = [tx EXCEPT ![x] = r]
  BY <1>1 DEF Update, IsTx
<1>3. Works(k, {"write"}) /\ Key(x) = KeyOf(k, k.pc)
  BY <1>1, AtWorks
<1>4. k.kind = "refresh" => k.arg["new"] # k.arg["token"]
  <2> HAVE k.kind = "refresh"
  <2>1. db[<<"refresh", k.arg["new"]>>].status = "none"
    <3>1. Drawn(k, db)
      BY <1>3 DEF Works, IndInv, DrawsSound, Drawn
    <3> QED
      BY <3>1, DrawnRows
  <2>2. /\ k.arg["token"] \in Tokens /\ k.arg["device"] \in Devices
        /\ db[<<"refresh", k.arg["token"]>>].device = k.arg["device"]
    BY <1>1 DEF TxSound, ArgsSound, NamedExists
  <2>3. db[<<"refresh", k.arg["token"]>>].status # "none"
    <3>1. IsRow("refresh", db[<<"refresh", k.arg["token"]>>])
      BY <2>2, KeysOfTables DEF IndInv, DbSound
    <3> QED
      BY <2>2, <3>1, RowsOfTables
  <2> QED
    BY <2>1, <2>3
<1>5. /\ Key(x) \in Keys
      /\ k.kind = "revoke" => Key(x)[1] # "refresh"
      /\ k.kind \notin Throws => RowSound(k.kind, k.arg, Key(x), Written(x), db)
  BY <1>1, <1>3, <1>4, WrittenSound
<1>6. TxSound(r, db)
  <2>1. r = [k EXCEPT !.wrote = Put(KeyOf(k, k.pc), Written(x), k.wrote), !.pc = k.pc + 1]
    BY <1>3
  <2>2. /\ KeyOf(k, k.pc) \in Keys
        /\ k.kind = "revoke" => KeyOf(k, k.pc)[1] # "refresh"
        /\ k.kind \notin Throws => RowSound(k.kind, k.arg, KeyOf(k, k.pc), Written(x), db)
    BY <1>3, <1>5
  <2> HIDE DEF r, k
  <2> QED
    BY <1>1, <1>3, <2>1, <2>2, UpdateKeepsTx
<1>7. /\ r.wrote = Put(Key(x), Written(x), k.wrote) /\ r.arg = k.arg /\ r.answer = k.answer
      /\ r.kind = k.kind
  BY <1>1 DEF IsTx
<1> HIDE DEF r
<1>8. \A y \in Txs \ {x} : DOMAIN r.wrote \cap DOMAIN tx[y].wrote = {}
  <2> TAKE y \in Txs \ {x}
  <2>1. Key(x) \notin DOMAIN tx[y].wrote
    BY DEF Update, Holds
  <2>2. DOMAIN k.wrote \cap DOMAIN tx[y].wrote = {}
    BY DEF IndInv, LocksDisjoint
  <2>3. \A key \in DOMAIN r.wrote : key = Key(x) \/ key \in DOMAIN k.wrote
    BY <1>7, Puts
  <2> QED
    BY <2>1, <2>2, <2>3
<1> QED
  BY <1>1, <1>2, <1>6, <1>7, <1>8, TxStep

LEMMA ListTokensKeepsInv == ASSUME IndInv, NEW x \in Txs, ListTokens(x) PROVE IndInv'
<1> DEFINE k == tx[x]
           family == {t \in Tokens : Row(x, <<"refresh", t>>).device = k.arg["device"]}
           rows == [key \in {"refresh"} \X family |-> Row(x, key)]
           todo == {t \in family : ~Row(x, <<"refresh", t>>).revoked}
           r == [k EXCEPT !.copy = Over(rows, k.copy), !.todo = todo, !.pc = k.pc + 1]
<1>1. /\ TxSound(k, db) /\ At(x, {"list"}) /\ db' = db /\ ConnectionsSound'
      /\ tx = [y \in Txs |-> tx[y]] /\ IsTx(k) /\ DbSound(db)
  BY DEF IndInv, ListTokens, ConnectionsSound, Admitted, TxSound, Shape
<1>2. tx' = [tx EXCEPT ![x] = r]
  <2>1. tx' = [tx EXCEPT ![x].copy = Over(rows, @), ![x].todo = todo, ![x].pc = @ + 1]
    BY DEF ListTokens
  <2> HIDE DEF rows, todo
  <2> QED
    BY <1>1, <2>1 DEF IsTx
<1>3. Works(k, {"list"})
  BY <1>1, AtWorks
<1>4. \A t \in Tokens : Row(x, <<"refresh", t>>) = db[<<"refresh", t>>]
  BY <1>1, ListsCommitted
<1>5. /\ family = {t \in Tokens : db[<<"refresh", t>>].device = k.arg["device"]}
      /\ todo \in SUBSET family
  BY <1>4
<1>6. rows = [key \in {"refresh"} \X family |-> db[key]]
  <2>1. \A key \in {"refresh"} \X family : Row(x, key) = db[key]
    <3> TAKE key \in {"refresh"} \X family
    <3>1. PICK t \in Tokens : key = <<"refresh", t>>
      OBVIOUS
    <3> QED
      BY <1>4, <3>1
  <2> QED
    BY <2>1
<1> HIDE DEF family, rows, todo
<1>7. TxSound(r, db)
  <2>1. r = [k EXCEPT !.copy = Over(rows, k.copy), !.todo = todo, !.pc = k.pc + 1]
    OBVIOUS
  <2> HIDE DEF r, k
  <2> QED
    BY <1>1, <1>3, <1>5, <1>6, <2>1, ListKeepsTx
<1>8. r.wrote = k.wrote /\ r.arg = k.arg /\ r.answer = k.answer /\ r.kind = k.kind
  BY <1>1 DEF IsTx
<1>9. \A y \in Txs \ {x} : DOMAIN r.wrote \cap DOMAIN tx[y].wrote = {}
  BY <1>8 DEF IndInv, LocksDisjoint
<1> HIDE DEF r
<1> QED
  BY <1>1, <1>2, <1>7, <1>8, <1>9, TxStep

LEMMA RevokeTokenKeepsInv ==
    ASSUME IndInv, NEW x \in Txs, NEW t \in Tokens, RevokeToken(x, t)
    PROVE  IndInv'
<1> DEFINE k == tx[x]
           key == <<"refresh", t>>
           row == [k.copy[key] EXCEPT !.revoked = TRUE]
           r == [k EXCEPT !.wrote = Put(key, row, k.wrote), !.todo = k.todo \ {t}]
<1>1. /\ TxSound(k, db) /\ t \in k.todo /\ db' = db /\ ConnectionsSound'
      /\ tx = [y \in Txs |-> tx[y]] /\ IsTx(k)
  BY DEF IndInv, RevokeToken, ConnectionsSound, Admitted, TxSound, Shape
<1>2. tx' = [tx EXCEPT ![x] = r]
  <2>1. tx' = [tx EXCEPT ![x].wrote = Put(key, row, @), ![x].todo = @ \ {t}]
    BY DEF RevokeToken
  <2> HIDE DEF row, key
  <2> QED
    BY <1>1, <2>1 DEF IsTx
<1>3. TxSound(r, db)
  <2>1. /\ row = [k.copy[<<"refresh", t>>] EXCEPT !.revoked = TRUE]
        /\ r = [k EXCEPT !.wrote = Put(<<"refresh", t>>, row, k.wrote), !.todo = k.todo \ {t}]
    OBVIOUS
  <2> HIDE DEF r, k, row
  <2> QED
    BY <1>1, <2>1, TokenKeepsTx
<1>4. /\ r.wrote = Put(key, row, k.wrote) /\ r.arg = k.arg /\ r.answer = k.answer
      /\ r.kind = k.kind
  BY <1>1 DEF IsTx
<1>5. \A y \in Txs \ {x} : key \notin DOMAIN tx[y].wrote
  BY DEF RevokeToken, Holds
<1> HIDE DEF r, row, key
<1>6. \A y \in Txs \ {x} : DOMAIN r.wrote \cap DOMAIN tx[y].wrote = {}
  <2> TAKE y \in Txs \ {x}
  <2>1. DOMAIN k.wrote \cap DOMAIN tx[y].wrote = {}
    BY DEF IndInv, LocksDisjoint
  <2>2. \A other \in DOMAIN r.wrote : other = key \/ other \in DOMAIN k.wrote
    BY <1>4, Puts
  <2> QED
    BY <1>5, <2>1, <2>2
<1> QED
  BY <1>1, <1>2, <1>3, <1>4, <1>6, TxStep

\* What COMMIT leaves of a transaction.
Answered(kind, arg) == [Idle EXCEPT !.kind = kind, !.arg = arg, !.answer = TRUE]

LEMMA AnsweredTx ==
    ASSUME NEW kind, NEW arg, NEW r, r = Answered(kind, arg)
    PROVE  /\ IsTx(r) /\ Clean(r)
           /\ r.kind = kind /\ r.arg = arg /\ r.answer /\ ~r.late /\ r.wrote = Empty
<1>1. r = [kind |-> kind, arg |-> arg, pc |-> 1, copy |-> Empty, wrote |-> Empty,
           todo |-> {}, answer |-> TRUE, late |-> FALSE]
  BY DEF Idle, Answered
<1>2. IsTx(r)
  BY <1>1 DEF IsTx
<1>3. /\ r.kind = kind /\ r.arg = arg /\ r.answer /\ ~r.late /\ r.wrote = Empty
      /\ r.copy = Empty /\ r.todo = {} /\ r.pc = 1
  BY <1>1
<1> QED
  BY <1>2, <1>3 DEF Clean

LEMMA CommitKeepsInv == ASSUME IndInv, NEW x \in Txs, Commit(x) PROVE IndInv' /\ Later(db, db')
<1> DEFINE k == tx[x]
           r == Answered(k.kind, k.arg)
<1>1. /\ TxSound(k, db) /\ DbSound(db) /\ tx' = [tx EXCEPT ![x] = r]
      /\ db' = Over(k.wrote, db) /\ connection' = connection
      /\ tx = [y \in Txs |-> tx[y]]
  BY DEF IndInv, Commit, Answered
<1>2. Done(k)
  BY <1>1 DEF Commit, Finished, Running, Done, TxSound, Shape
<1>3. Drawn(k, db)
  BY <1>2 DEF Done, IndInv, DrawsSound, Drawn
<1>4. /\ Later(db, db') /\ DbSound(db')
      /\ \A key \in DOMAIN k.wrote : db'[key] = k.wrote[key]
      /\ \A key \in Keys : key \notin DOMAIN k.wrote => db'[key] = db[key]
  BY <1>1, <1>2, <1>3, CommitMovesOn
<1>5. /\ IsTx(r) /\ Clean(r) /\ r.kind = k.kind /\ r.arg = k.arg /\ r.answer
      /\ ~r.late /\ r.wrote = Empty
  <2>1. r = Answered(k.kind, k.arg)
    OBVIOUS
  <2> HIDE DEF r
  <2> QED
    BY <2>1, AnsweredTx
<1>6. /\ tx'[x] = r
      /\ \A y \in Txs \ {x} : tx'[y] = tx[y]
      /\ tx' = [y \in Txs |-> tx'[y]]
  BY <1>1
<1> HIDE DEF r
<1>7. TxSound(r, db')
  <2>1. ArgsSound(r)
    BY <1>1, <1>5 DEF TxSound, ArgsSound
  <2>2. NamedExists(r, db')
    <3>1. NamedExists(k, db') /\ r.kind = k.kind /\ r.arg = k.arg
      BY <1>1, <1>4, <1>5 DEF TxSound, NamedExists, ArgsSound, Later
    <3> QED
      BY <3>1 DEF NamedExists
  <2>3. LateSound(r, db')
    BY <1>5 DEF LateSound
  <2>4. ASSUME k.kind = "consume" PROVE Admitted(k.arg["device"], k.arg["ticket"], db')
    <3> DEFINE key == <<"ticket", k.arg["ticket"]>>
    <3>1. /\ key \in DOMAIN k.wrote /\ k.arg["ticket"] \in Tickets
          /\ k.arg["device"] \in Devices
      BY <1>1, <1>2, <2>4, DoneHolds DEF TxSound, ArgsSound
    <3>2. RowSound(k.kind, k.arg, key, k.wrote[key], db)
      BY <1>1, <1>2, <3>1 DEF TxSound, RowsSound, Done
    <3>3. db'[key].status = "used" /\ db'[key].device = k.arg["device"]
      BY <1>4, <2>4, <3>1, <3>2 DEF RowSound
    <3>4. IsRow("ticket", db'[key])
      BY <1>4, <3>1, KeysOfTables DEF DbSound
    <3>5. db'[key] \in [status : {"unused", "used"}, device : Devices]
      BY <3>1, <3>3, <3>4 DEF IsRow, NoRow
    <3> QED
      BY <3>3, <3>5 DEF Admitted
  <2>5. AnswerSound(r, db')
    BY <1>5, <2>4 DEF AnswerSound
  <2>6. k.kind \in AllKinds /\ k.kind # "idle"
    BY <1>2 DEF Done, AllKinds
  <2> QED
    BY <1>5, <2>1, <2>2, <2>3, <2>5, <2>6, CleanTx
<1>8. ASSUME NEW y \in Txs \ {x} PROVE TxSound(tx[y], db')
  <2>1. TxSound(tx[y], db)
    BY DEF IndInv
  <2>2. NoneUsedSince(tx[y], db, db')
    <3> SUFFICES ASSUME tx[y].kind = "revoke", Past(tx[y], {"list"}) # {}, NEW t \in Tokens,
                        db[<<"refresh", t>>].device = tx[y].arg["device"],
                        db'[<<"refresh", t>>].used, ~db[<<"refresh", t>>].used
                 PROVE  FALSE
      BY DEF NoneUsedSince
    <3> DEFINE d == tx[y].arg["device"]
               key == <<"refresh", t>>
    <3>1. d \in Devices /\ key \in Keys
      BY <2>1, KeysOfTables DEF TxSound, ArgsSound
    <3>2. key \in DOMAIN k.wrote
      BY <1>4, <3>1
    <3>3. WroteSound(k, key) /\ RowSound(k.kind, k.arg, key, k.wrote[key], db)
      BY <1>1, <1>2, <3>2, HoldsOwnRows DEF TxSound, RowsSound, Done
    <3>4. k.arg["device"] = d
      <4>1. db'[key].device = d
        BY <1>4, <3>1 DEF Later
      <4>2. db'[key].device = k.arg["device"]
        BY <1>4, <3>2, <3>3 DEF RowSound
      <4> QED
        BY <4>1, <4>2
    <3>5. k.kind \in {"refresh", "revoke"}
      <4>1. k.kind \in {"register", "refresh", "revoke"}
        BY <1>2, <3>3 DEF WroteSound, Done, Throws
      <4>2. k.kind = "register" => db[<<"device", d>>].status = "none"
        <5>1. k.kind = "register" => db[<<"device", k.arg["device"]>>].status = "none"
          BY <1>3, DrawnRows
        <5> QED
          BY <3>4, <5>1
      <4>3. db[<<"device", d>>].status # "none"
        BY <2>1 DEF TxSound, NamedExists
      <4> QED
        BY <4>1, <4>2, <4>3
    <3>6. <<"device", d>> \in DOMAIN k.wrote
      BY <1>1, <1>2, <3>4, <3>5, DoneHolds
    <3>7. <<"device", d>> \in DOMAIN tx[y].wrote
      <4>1. PICK i \in Past(tx[y], {"list"}) : TRUE
        OBVIOUS
      <4>2. /\ i \in 1..Len(Program(tx[y].kind)) /\ i < tx[y].pc
            /\ tx[y].kind \in AllKinds
            /\ Program(tx[y].kind)[i].op = "list"
        BY <2>1, PastIsProgram DEF TxSound
      <4>3. i = 5
        <5>1. ListSound(tx[y].kind, i)
          BY <4>2, ProgramsSound
        <5> QED
          BY <5>1, ProgramsAre DEF ListSound
      <4>4. tx[y].pc \in Nat
        <5>1. tx[y].pc \in 1..(Len(Program(tx[y].kind)) + 1)
          BY <2>1, <4>2 DEF TxSound, Shape, AllKinds
        <5> QED
          BY <5>1
      <4>5. 2 \in 1..(tx[y].pc - 1)
        BY <4>2, <4>3, <4>4
      <4>6. Program(tx[y].kind)[2] = Write("device", "device")
        BY ProgramsAre
      <4>7. 2 \in Past(tx[y], {"write"}) /\ KeyOf(tx[y], 2) = <<"device", d>>
        BY <4>5, <4>6 DEF Past, KeyOf, Write
      <4> QED
        BY <2>1, <4>7 DEF TxSound, LocksSound
    <3> QED
      BY <3>6, <3>7 DEF IndInv, LocksDisjoint
  <2> QED
    BY <1>4, <2>1, <2>2, OthersKeep
<1>9. \A y \in Txs : TxSound(tx'[y], db')
  BY <1>6, <1>7, <1>8
<1>10. DrawsSound'
  <2> SUFFICES ASSUME NEW y \in Txs, ~tx'[y].answer, NEW draw \in Draws(tx'[y].kind)
               PROVE  /\ db'[<<draw[1], tx'[y].arg[draw[2]]>>].status = "none"
                      /\ \A z \in Txs \ {y} : tx'[z].arg[draw[2]] # tx'[y].arg[draw[2]]
    BY DEF DrawsSound
  <2>1. y # x /\ tx'[y] = tx[y]
    BY <1>5, <1>6
  <2>2. /\ db[<<draw[1], tx[y].arg[draw[2]]>>].status = "none"
        /\ \A z \in Txs \ {y} : tx[z].arg[draw[2]] # tx[y].arg[draw[2]]
    BY <2>1 DEF IndInv, DrawsSound
  <2>3. \A z \in Txs : tx'[z].arg = tx[z].arg
    BY <1>5, <1>6
  <2> DEFINE key == <<draw[1], tx[y].arg[draw[2]]>>
  <2>4. /\ key \in Keys /\ ArgsSound(tx[y])
        /\ draw \in {<<"device", "device">>, <<"family", "device">>, <<"refresh", "new">>,
                     <<"ticket", "ticket">>}
    BY <2>1, DrawnKeys DEF IndInv, TxSound
  <2>5. key \notin DOMAIN k.wrote
    <3> SUFFICES ASSUME key \in DOMAIN k.wrote PROVE FALSE
      OBVIOUS
    <3>1. WroteSound(k, key) /\ k.arg[draw[2]] # tx[y].arg[draw[2]]
      BY <1>1, <2>1, <2>2, HoldsOwnRows DEF TxSound
    <3>2. CASE draw = <<"device", "device">> \/ draw = <<"family", "device">>
      BY <3>1, <3>2 DEF WroteSound
    <3>3. CASE draw = <<"ticket", "ticket">>
      BY <3>1, <3>3 DEF WroteSound
    <3>4. CASE draw = <<"refresh", "new">>
      <4>1. \/ key = <<"refresh", k.arg["token"]>> /\ k.kind = "refresh"
            \/ key \in DOMAIN k.copy
        BY <3>1, <3>4 DEF WroteSound
      <4>2. db[key].device \in Devices
        <5>1. CASE key = <<"refresh", k.arg["token"]>> /\ k.kind = "refresh"
          BY <1>1, <5>1 DEF TxSound, NamedExists, ArgsSound
        <5>2. CASE key \in DOMAIN k.copy
          <6>1. key[1] = "refresh"
            BY <3>4
          <6> QED
            BY <1>1, <5>2, <6>1 DEF TxSound, CopiesSound
        <5> QED
          BY <4>1, <5>1, <5>2
      <4>3. IsRow("refresh", db[key])
        <5>1. key[1] = "refresh"
          BY <3>4
        <5> QED
          BY <1>1, <2>4, <5>1 DEF DbSound
      <4> QED
        BY <2>2, <4>2, <4>3, RowsOfTables
    <3> QED
      BY <2>4, <3>2, <3>3, <3>4
  <2>6. db'[key].status = "none"
    BY <1>4, <2>2, <2>4, <2>5
  <2> QED
    BY <2>1, <2>2, <2>3, <2>6
<1>11. LocksDisjoint'
  BY <1>5, <1>6, Fields DEF IndInv, LocksDisjoint
<1>12. ConnectionsSound'
  <2>1. ASSUME NEW d \in Devices, connection[d] # None PROVE Admitted(d, connection[d], db')
    <3>1. connection[d] \in Tickets /\ Admitted(d, connection[d], db)
      BY <2>1 DEF IndInv, ConnectionsSound
    <3> QED
      BY <1>4, <3>1, AdmittedStays
  <2> QED
    BY <1>1, <2>1 DEF IndInv, ConnectionsSound
<1> QED
  BY <1>4, <1>6, <1>9, <1>10, <1>11, <1>12 DEF IndInv

\* Steps of no transaction that only add to the database.
LEMMA RowsAreAdded ==
    ASSUME IndInv, tx' = tx, connection' = connection, DbSound(db'), Later(db, db'),
           \A t \in Tokens : db'[<<"refresh", t>>] = db[<<"refresh", t>>],
           \A key \in Keys : key[1] # "pairing" => db'[key] = db[key]
    PROVE  IndInv'
<1>1. \A x \in Txs : TxSound(tx[x], db')
  <2> TAKE x \in Txs
  <2>1. TxSound(tx[x], db) /\ NoneUsedSince(tx[x], db, db')
    BY DEF IndInv, NoneUsedSince
  <2> QED
    BY <2>1, OthersKeep
<1>2. DrawsSound'
  <2> SUFFICES ASSUME NEW y \in Txs, ~tx[y].answer, NEW draw \in Draws(tx[y].kind)
               PROVE  /\ db'[<<draw[1], tx[y].arg[draw[2]]>>].status = "none"
                      /\ \A z \in Txs \ {y} : tx[z].arg[draw[2]] # tx[y].arg[draw[2]]
    BY DEF DrawsSound
  <2>1. /\ db[<<draw[1], tx[y].arg[draw[2]]>>].status = "none"
        /\ \A z \in Txs \ {y} : tx[z].arg[draw[2]] # tx[y].arg[draw[2]]
    BY DEF IndInv, DrawsSound
  <2>2. /\ <<draw[1], tx[y].arg[draw[2]]>> \in Keys
        /\ draw[1] # "pairing"
    BY DrawnKeys DEF IndInv, TxSound
  <2> QED
    BY <2>1, <2>2
<1>3. LocksDisjoint'
  BY DEF IndInv, LocksDisjoint
<1>4. ConnectionsSound'
  <2>1. ASSUME NEW d \in Devices, connection[d] # None PROVE Admitted(d, connection[d], db')
    <3>1. connection[d] \in Tickets /\ Admitted(d, connection[d], db)
      BY <2>1 DEF IndInv, ConnectionsSound
    <3> QED
      BY <3>1, AdmittedStays
  <2> QED
    BY <2>1 DEF IndInv, ConnectionsSound
<1>5. /\ DbSound(db)' /\ tx' = [x \in Txs |-> tx'[x]]
      /\ \A x \in Txs : TxSound(tx[x], db)'
  BY <1>1 DEF IndInv
<1> QED
  BY <1>2, <1>3, <1>4, <1>5 DEF IndInv

LEMMA CreateKeepsInv ==
    ASSUME IndInv, NEW s \in Sessions, CreatePairingSession(s)
    PROVE  IndInv' /\ Later(db, db')
<1> DEFINE new == <<"pairing", s>>
<1>1. /\ DbSound(db) /\ db = [key \in Keys |-> db[key]] /\ db[new].status = "none"
      /\ db' = [db EXCEPT ![new].status = "pending"] /\ tx' = tx /\ connection' = connection
      /\ new \in Keys /\ new[1] = "pairing"
  BY KeysOfTables DEF IndInv, DbSound, CreatePairingSession
<1> HIDE DEF new
<1>2. /\ db' = [key \in Keys |-> db'[key]]
      /\ \A key \in Keys : key # new => db'[key] = db[key]
      /\ db'[new] = [db[new] EXCEPT !.status = "pending"]
  BY <1>1
<1>3. \A key \in Keys : key[1] # "pairing" => db'[key] = db[key]
  BY <1>1, <1>2
<1>4. /\ \A d \in Devices : /\ db'[<<"device", d>>] = db[<<"device", d>>]
                            /\ db'[<<"family", d>>] = db[<<"family", d>>]
      /\ \A t \in Tokens : db'[<<"refresh", t>>] = db[<<"refresh", t>>]
      /\ \A k \in Tickets : db'[<<"ticket", k>>] = db[<<"ticket", k>>]
  <2>1. \A id : /\ <<"device", id>>[1] # "pairing" /\ <<"family", id>>[1] # "pairing"
                /\ <<"refresh", id>>[1] # "pairing" /\ <<"ticket", id>>[1] # "pairing"
    OBVIOUS
  <2> QED
    BY <1>3, <2>1, KeysOfTables
<1>5. DbSound(db')
  <2>1. \A key \in Keys : IsRow(key[1], db'[key])
    <3> TAKE key \in Keys
    <3>1. IsRow(key[1], db[key])
      BY <1>1 DEF DbSound
    <3>2. CASE key = new
      <4>1. db[new] \in [status : {"none", "pending", "redeemed"}, failedAttempts : {0}]
        BY <1>1, <3>1, <3>2 DEF IsRow
      <4>2. db'[new] \in [status : {"none", "pending", "redeemed"}, failedAttempts : {0}]
        BY <1>2, <4>1
      <4> QED
        BY <1>1, <3>2, <4>2 DEF IsRow
    <3>3. CASE key # new
      BY <1>2, <3>1, <3>3
    <3> QED
      BY <3>2, <3>3
  <2>2. \A t \in Tokens : db[<<"refresh", t>>].status # "none"
                              => db[<<"refresh", t>>].device \in Devices
    <3> TAKE t \in Tokens
    <3>1. IsRow("refresh", db[<<"refresh", t>>])
      BY <1>1, KeysOfTables DEF DbSound
    <3> QED
      BY <3>1, RowsOfTables
  <2>3. \A k \in Tickets : db[<<"ticket", k>>].status # "none"
                               => db[<<"ticket", k>>].device \in Devices
    <3> TAKE k \in Tickets
    <3>1. IsRow("ticket", db[<<"ticket", k>>])
      BY <1>1, KeysOfTables DEF DbSound
    <3> QED
      BY <3>1, RowsOfTables
  <2>4. \A d \in Devices :
            /\ db'[<<"device", d>>].status = "none" => db'[<<"family", d>>].status = "none"
            /\ db'[<<"device", d>>].status = "revoked"
                   => db'[<<"family", d>>].status = "revoked"
    BY <1>1, <1>4 DEF DbSound
  <2>5. \A t \in Tokens : db'[<<"refresh", t>>].status # "none" =>
            db'[<<"device", db'[<<"refresh", t>>].device>>].status # "none"
    <3> TAKE t \in Tokens
    <3>1. db[<<"refresh", t>>].status # "none" =>
              db[<<"device", db[<<"refresh", t>>].device>>].status # "none"
      BY <1>1 DEF DbSound
    <3> QED
      BY <1>4, <2>2, <3>1
  <2>6. \A k \in Tickets : db'[<<"ticket", k>>].status # "none" =>
            db'[<<"device", db'[<<"ticket", k>>].device>>].status # "none"
    <3> TAKE k \in Tickets
    <3>1. db[<<"ticket", k>>].status # "none" =>
              db[<<"device", db[<<"ticket", k>>].device>>].status # "none"
      BY <1>1 DEF DbSound
    <3> QED
      BY <1>4, <2>3, <3>1
  <2> QED
    BY <1>2, <2>1, <2>4, <2>5, <2>6 DEF DbSound
<1>6. Later(db, db')
  <2>1. ASSUME NEW r \in Sessions, db[<<"pairing", r>>].status = "redeemed"
        PROVE  db'[<<"pairing", r>>].status = "redeemed"
    <3>1. <<"pairing", r>> # new
      BY <1>1, <2>1
    <3> QED
      BY <1>2, <2>1, <3>1, KeysOfTables
  <2> QED
    BY <1>4, <2>1 DEF Later
<1> QED
  BY <1>1, <1>3, <1>4, <1>5, <1>6, RowsAreAdded

LEMMA ThrowKeepsInv == ASSUME IndInv, NEW x \in Txs, Throw(x) PROVE IndInv'
<1>1. /\ tx' = RolledBack(x) /\ db' = db /\ ConnectionsSound'
  BY DEF Throw, IndInv, ConnectionsSound, Admitted
<1> QED
  BY <1>1, RollBackKeepsInv

LEMMA FailKeepsInv == ASSUME IndInv, NEW x \in Txs, Fail(x) PROVE IndInv'
<1>1. /\ tx' = RolledBack(x) /\ db' = db /\ ConnectionsSound'
  BY DEF Fail, IndInv, ConnectionsSound, Admitted
<1> QED
  BY <1>1, RollBackKeepsInv

LEMMA ReturnKeepsInv == ASSUME IndInv, NEW x \in Txs, Return(x) PROVE IndInv'
<1> DEFINE k == tx[x]
<1>1. /\ tx' = RolledBack(x) /\ db' = db /\ TxSound(k, db) /\ k.answer
  BY DEF Return, RolledBack, IndInv
<1>2. ConnectionsSound'
  <2>1. ConnectionsSound
    BY DEF IndInv
  <2>2. CASE k.kind = "consume"
    <3>1. connection' = [connection EXCEPT ![k.arg["device"]] = k.arg["ticket"]]
      BY <2>2 DEF Return, Bound
    <3>2. /\ k.arg["device"] \in Devices /\ k.arg["ticket"] \in Tickets
          /\ Admitted(k.arg["device"], k.arg["ticket"], db)
      BY <1>1, <2>2 DEF TxSound, ArgsSound, AnswerSound
    <3> QED
      BY <1>1, <2>1, <3>1, <3>2 DEF ConnectionsSound
  <2>3. CASE k.kind = "revoke"
    <3>1. connection' = [connection EXCEPT ![k.arg["device"]] = None]
      BY <2>3 DEF Return, Dropped
    <3> QED
      BY <1>1, <2>1, <3>1 DEF ConnectionsSound
  <2>4. CASE k.kind \notin {"consume", "revoke"}
    <3>1. connection' = connection
      BY <2>4 DEF Return
    <3> QED
      BY <1>1, <2>1, <3>1 DEF ConnectionsSound
  <2> QED
    BY <2>2, <2>3, <2>4
<1> QED
  BY <1>1, <1>2, RollBackKeepsInv

LEMMA ClosedKeepsInv == ASSUME IndInv, NEW d \in Devices, ConnectionClosed(d) PROVE IndInv'
<1>1. ConnectionsSound'
  BY DEF IndInv, ConnectionClosed, ConnectionsSound, Admitted
<1>2. tx' = tx /\ db' = db
  BY DEF ConnectionClosed
<1> QED
  BY <1>1, <1>2 DEF IndInv, DrawsSound, LocksDisjoint

LEMMA RestartKeepsInv == ASSUME IndInv, BridgeRestart PROVE IndInv'
<1>1. /\ db' = db /\ \A x \in Txs : tx'[x] = Idle
      /\ tx' = [x \in Txs |-> tx'[x]]
      /\ connection' = [d \in Devices |-> None]
  BY DEF BridgeRestart
<1>2. \A x \in Txs : TxSound(tx'[x], db')
  BY <1>1, IdleSound
<1>3. DrawsSound' /\ LocksDisjoint'
  BY <1>1, Fields DEF DrawsSound, LocksDisjoint, Draws
<1>4. ConnectionsSound'
  BY <1>1 DEF ConnectionsSound
<1> QED
  BY <1>1, <1>2, <1>3, <1>4 DEF IndInv

-----------------------------------------------------------------------------
(* Requests. *)

LEMMA NoArgs == \A r \in Roles : NoArg[r] = None
  BY DEF NoArg

\* What a request of each kind names and draws.
Names(kind, arg) ==
    /\ \A r \in Roles : arg[r] # None =>
           \/ r = "session" /\ kind \in {"redeem", "guess", "register"}
           \/ r = "bootstrap" /\ kind \in {"redeem", "register"}
           \/ /\ r = "device"
              /\ kind \in {"register", "refresh", "revoke", "touch", "issue", "consume"}
           \/ r = "token" /\ kind = "refresh"
           \/ r = "new" /\ kind \in {"register", "refresh"}
           \/ r = "ticket" /\ kind \in {"issue", "consume"}
    /\ kind \in {"redeem", "guess", "register"} => arg["session"] \in Sessions
    /\ kind \in {"redeem", "register"} => arg["bootstrap"] \in Bootstraps
    /\ kind = "register" => arg["device"] \in Fresh("device", "device", Devices)
    /\ kind \in {"register", "refresh"} => arg["new"] \in Fresh("refresh", "new", Tokens)
    /\ kind = "refresh" =>
           /\ arg["token"] \in Stored("refresh", Tokens)
           /\ arg["device"] = db[<<"refresh", arg["token"]>>].device
    /\ kind \in {"revoke", "touch", "issue"} => arg["device"] \in Stored("device", Devices)
    /\ kind = "issue" => arg["ticket"] \in Fresh("ticket", "ticket", Tickets)
    /\ kind = "consume" =>
           /\ arg["ticket"] \in Stored("ticket", Tickets)
           /\ arg["device"] = db[<<"ticket", arg["ticket"]>>].device

LEMMA ArgumentsName ==
    ASSUME DbSound(db), NEW kind \in Kinds, NEW arg \in Arguments(kind)
    PROVE  Names(kind, arg)
<1> USE NoArgs DEF Roles
<1>1. CASE kind = "redeem"
  <2>1. PICK s \in Stored("pairing", Sessions), b \in Fresh("bootstrap", "bootstrap", Bootstraps) :
            arg = [NoArg EXCEPT !["session"] = s, !["bootstrap"] = b]
    BY <1>1 DEF Arguments
  <2>2. s \in Sessions /\ b \in Bootstraps
    BY DEF Stored, Fresh
  <2>3. /\ arg["session"] = s /\ arg["bootstrap"] = b
        /\ \A r \in Roles : r \notin {"session", "bootstrap"} => arg[r] = None
    BY <2>1 DEF NoArg
  <2> QED
    BY <1>1, <2>2, <2>3 DEF Names
<1>2. CASE kind = "guess"
  <2>1. PICK s \in {r \in Stored("pairing", Sessions) : guesses[r] < MaxGuesses} :
            arg = [NoArg EXCEPT !["session"] = s]
    <3>1. Arguments(kind) =
              {[NoArg EXCEPT !["session"] = s] :
                  s \in {r \in Stored("pairing", Sessions) : guesses[r] < MaxGuesses}}
      BY <1>2 DEF Arguments
    <3> QED
      BY <3>1, Zenon
  <2>2. /\ arg["session"] = s /\ s \in Sessions
        /\ \A r \in Roles : r # "session" => arg[r] = None
    BY <2>1 DEF NoArg, Stored
  <2> QED
    BY <1>2, <2>2 DEF Names
<1>3. CASE kind = "register"
  <2> DEFINE Registers(b, d, t) ==
               [NoArg EXCEPT !["bootstrap"] = b, !["device"] = d, !["new"] = t,
                             !["session"] = db[<<"bootstrap", b>>].session]
  <2>0. Arguments(kind) = {Registers(b, d, t) : b \in Stored("bootstrap", Bootstraps),
                                                d \in Fresh("device", "device", Devices),
                                                t \in Fresh("refresh", "new", Tokens)}
    BY <1>3 DEF Arguments
  <2>1. PICK b \in Stored("bootstrap", Bootstraps), d \in Fresh("device", "device", Devices),
             t \in Fresh("refresh", "new", Tokens) : arg = Registers(b, d, t)
    <3> HIDE DEF Registers
    <3> QED
      BY <2>0
  <2>2. b \in Bootstraps /\ db[<<"bootstrap", b>>].session \in Sessions
    <3>1. b \in Bootstraps /\ db[<<"bootstrap", b>>].status # "none"
      BY DEF Stored
    <3>2. IsRow("bootstrap", db[<<"bootstrap", b>>])
      BY <3>1, KeysOfTables DEF DbSound
    <3> QED
      BY <3>1, <3>2, RowsOfTables
  <2>3. /\ arg["session"] = db[<<"bootstrap", b>>].session /\ arg["bootstrap"] = b
        /\ arg["device"] = d /\ arg["new"] = t
        /\ arg["token"] = None /\ arg["ticket"] = None
    BY <2>1 DEF NoArg
  <2> QED
    BY <1>3, <2>2, <2>3 DEF Names
<1>4. CASE kind = "refresh"
  <2>1. PICK t \in Stored("refresh", Tokens), u \in Fresh("refresh", "new", Tokens) :
            arg = [NoArg EXCEPT !["token"] = t, !["new"] = u,
                                !["device"] = db[<<"refresh", t>>].device]
    BY <1>4 DEF Arguments
  <2>2. /\ arg["token"] = t /\ arg["new"] = u /\ arg["device"] = db[<<"refresh", t>>].device
        /\ arg["session"] = None /\ arg["bootstrap"] = None /\ arg["ticket"] = None
    BY <2>1 DEF NoArg
  <2> QED
    BY <1>4, <2>2 DEF Names
<1>5. CASE kind \in {"revoke", "touch"}
  <2>1. PICK d \in Stored("device", Devices) : arg = [NoArg EXCEPT !["device"] = d]
    BY <1>5 DEF Arguments
  <2>2. /\ arg["device"] = d
        /\ \A r \in Roles : r # "device" => arg[r] = None
    BY <2>1 DEF NoArg
  <2> QED
    BY <1>5, <2>2 DEF Names
<1>6. CASE kind = "issue"
  <2>1. PICK d \in Stored("device", Devices), k \in Fresh("ticket", "ticket", Tickets) :
            arg = [NoArg EXCEPT !["device"] = d, !["ticket"] = k]
    BY <1>6 DEF Arguments
  <2>2. /\ arg["device"] = d /\ arg["ticket"] = k
        /\ \A r \in Roles : r \notin {"device", "ticket"} => arg[r] = None
    BY <2>1 DEF NoArg
  <2> QED
    BY <1>6, <2>2 DEF Names
<1>7. CASE kind = "consume"
  <2>1. PICK k \in Stored("ticket", Tickets) :
            arg = [NoArg EXCEPT !["ticket"] = k, !["device"] = db[<<"ticket", k>>].device]
    <3>1. Arguments(kind) =
              {[NoArg EXCEPT !["ticket"] = k, !["device"] = db[<<"ticket", k>>].device] :
                  k \in Stored("ticket", Tickets)}
      BY <1>7 DEF Arguments
    <3> QED
      BY <3>1, Zenon
  <2>2. /\ arg["ticket"] = k /\ arg["device"] = db[<<"ticket", k>>].device
        /\ \A r \in Roles : r \notin {"device", "ticket"} => arg[r] = None
    BY <2>1 DEF NoArg
  <2> QED
    BY <1>7, <2>2 DEF Names
<1> QED
  BY <1>1, <1>2, <1>3, <1>4, <1>5, <1>6, <1>7, KindsArrive

\* They exist, all but those that are drawn.
LEMMA NamesExist ==
    ASSUME DbSound(db), NEW kind \in Kinds, NEW arg, Names(kind, arg),
           NEW k, k.kind = kind, k.arg = arg
    PROVE  /\ ArgsSound(k)
           /\ NamedExists(k, db)
           /\ kind # "register" /\ arg["device"] # None =>
                  db[<<"device", arg["device"]>>].status # "none"
<1>1. ASSUME kind = "refresh"
      PROVE  /\ arg["token"] \in Tokens /\ arg["device"] \in Devices
             /\ db[<<"device", arg["device"]>>].status # "none"
  <2>1. arg["token"] \in Tokens /\ db[<<"refresh", arg["token"]>>].status # "none"
    BY <1>1 DEF Names, Stored
  <2>2. IsRow("refresh", db[<<"refresh", arg["token"]>>])
    BY <2>1, KeysOfTables DEF DbSound
  <2>3. db[<<"refresh", arg["token"]>>].device \in Devices
    BY <2>1, <2>2, RowsOfTables
  <2> QED
    BY <1>1, <2>1, <2>3 DEF DbSound, Names
<1>2. ASSUME kind = "consume"
      PROVE  /\ arg["ticket"] \in Tickets /\ arg["device"] \in Devices
             /\ db[<<"device", arg["device"]>>].status # "none"
  <2>1. arg["ticket"] \in Tickets /\ db[<<"ticket", arg["ticket"]>>].status # "none"
    BY <1>2 DEF Names, Stored
  <2>2. IsRow("ticket", db[<<"ticket", arg["ticket"]>>])
    BY <2>1, KeysOfTables DEF DbSound
  <2>3. db[<<"ticket", arg["ticket"]>>].device \in Devices
    BY <2>1, <2>2, RowsOfTables
  <2> QED
    BY <1>2, <2>1, <2>3 DEF DbSound, Names
<1>3. ASSUME kind \in {"revoke", "touch", "issue"}
      PROVE  arg["device"] \in Devices /\ db[<<"device", arg["device"]>>].status # "none"
  BY <1>3 DEF Names, Stored
<1>4. /\ kind = "register" => arg["device"] \in Devices
      /\ kind \in {"register", "refresh"} => arg["new"] \in Tokens
      /\ kind = "issue" => arg["ticket"] \in Tickets
  BY DEF Names, Fresh
<1>5. ArgsSound(k)
  BY <1>1, <1>2, <1>3, <1>4, KindsArrive DEF ArgsSound, Names
<1>6. NamedExists(k, db)
  BY <1>1, <1>2, <1>3, KindsArrive DEF NamedExists, Names
<1>7. kind # "register" /\ arg["device"] # None
          => db[<<"device", arg["device"]>>].status # "none"
  BY <1>1, <1>2, <1>3 DEF Names, Roles
<1> QED
  BY <1>5, <1>6, <1>7

\* What is drawn is new.
LEMMA DrawnFresh ==
    ASSUME DbSound(db), NEW kind \in Kinds, NEW arg, Names(kind, arg),
           NEW draw \in Draws(kind)
    PROVE  /\ db[<<draw[1], arg[draw[2]]>>].status = "none"
           /\ \A y \in Txs : tx[y].arg[draw[2]] # arg[draw[2]]
<1>1. CASE kind = "register"
  <2>1. draw \in {<<"device", "device">>, <<"family", "device">>, <<"refresh", "new">>}
    BY <1>1 DEF Draws
  <2>2. /\ arg["device"] \in Devices /\ db[<<"device", arg["device"]>>].status = "none"
        /\ \A y \in Txs : tx[y].arg["device"] # arg["device"]
        /\ db[<<"refresh", arg["new"]>>].status = "none"
        /\ \A y \in Txs : tx[y].arg["new"] # arg["new"]
    BY <1>1 DEF Names, Fresh
  <2>3. db[<<"family", arg["device"]>>].status = "none"
    BY <2>2 DEF DbSound
  <2> QED
    BY <2>1, <2>2, <2>3
<1>2. CASE kind = "refresh"
  <2>1. draw = <<"refresh", "new">>
    BY <1>2 DEF Draws
  <2> QED
    BY <1>2, <2>1 DEF Names, Fresh
<1>3. CASE kind = "issue"
  <2>1. draw = <<"ticket", "ticket">>
    BY <1>3 DEF Draws
  <2> QED
    BY <1>3, <2>1 DEF Names, Fresh
<1>4. kind \in {"register", "refresh", "issue"}
  BY KindsArrive DEF Draws
<1> QED
  BY <1>1, <1>2, <1>3, <1>4

\* What others have drawn it does not name.
LEMMA NamesNoneDrawn ==
    ASSUME IndInv, NEW kind \in Kinds, NEW arg, Names(kind, arg),
           kind # "register" /\ arg["device"] # None =>
               db[<<"device", arg["device"]>>].status # "none",
           NEW y \in Txs, ~tx[y].answer, NEW draw \in Draws(tx[y].kind)
    PROVE  arg[draw[2]] # tx[y].arg[draw[2]]
<1>1. /\ draw \in {<<"device", "device">>, <<"family", "device">>, <<"refresh", "new">>,
                   <<"ticket", "ticket">>}
      /\ tx[y].arg[draw[2]] # None
      /\ Drawn(tx[y], db)
  BY DrawnKeys, DrawsAreSomething DEF IndInv, TxSound, DrawsSound, Drawn
<1>2. CASE draw[2] = "device"
  <2>1. db[<<"device", tx[y].arg["device"]>>].status = "none"
    <3>1. tx[y].kind = "register"
      BY <1>2 DEF Draws
    <3> QED
      BY <1>1, <3>1, DrawnRows
  <2>2. kind = "register" => tx[y].arg["device"] # arg["device"]
    BY DEF Names, Fresh
  <2> QED
    BY <1>1, <1>2, <2>1, <2>2
<1>3. CASE draw = <<"refresh", "new">>
  <2>1. arg["new"] # None => kind \in {"register", "refresh"}
    BY DEF Names, Roles
  <2>2. kind \in {"register", "refresh"} => tx[y].arg["new"] # arg["new"]
    BY DEF Names, Fresh
  <2> QED
    BY <1>1, <1>3, <2>1, <2>2
<1>4. CASE draw = <<"ticket", "ticket">>
  <2>1. arg["ticket"] # None => kind \in {"issue", "consume"}
    BY DEF Names, Roles
  <2>2. kind = "issue" => tx[y].arg["ticket"] # arg["ticket"]
    BY DEF Names, Fresh
  <2>3. kind = "consume" => db[<<"ticket", arg["ticket"]>>].status # "none"
    BY DEF Names, Stored
  <2>4. db[<<"ticket", tx[y].arg["ticket"]>>].status = "none"
    BY <1>1, <1>4 DEF Drawn
  <2> QED
    BY <1>1, <1>4, <2>1, <2>2, <2>3, <2>4
<1> QED
  BY <1>1, <1>2, <1>3, <1>4

Begun(kind, arg, late) == [Idle EXCEPT !.kind = kind, !.arg = arg, !.late = late]

LEMMA BegunTx ==
    ASSUME NEW kind, NEW arg, NEW late \in BOOLEAN, NEW r, r = Begun(kind, arg, late)
    PROVE  /\ IsTx(r) /\ Clean(r)
           /\ r.kind = kind /\ r.arg = arg /\ ~r.answer /\ r.late = late /\ r.wrote = Empty
<1>1. r = [kind |-> kind, arg |-> arg, pc |-> 1, copy |-> Empty, wrote |-> Empty,
           todo |-> {}, answer |-> FALSE, late |-> late]
  BY DEF Idle, Begun
<1>2. IsTx(r)
  BY <1>1 DEF IsTx
<1>3. /\ r.kind = kind /\ r.arg = arg /\ ~r.answer /\ r.late = late /\ r.wrote = Empty
      /\ r.copy = Empty /\ r.todo = {} /\ r.pc = 1
  BY <1>1
<1> QED
  BY <1>2, <1>3 DEF Clean

LEMMA BeginKeepsInv ==
    ASSUME IndInv, NEW x \in Txs, NEW kind \in Kinds, NEW arg \in Arguments(kind),
           Begin(x, kind, arg)
    PROVE  IndInv'
<1> DEFINE late == arg["device"] # None /\ db[<<"family", arg["device"]>>].status = "revoked"
           r == Begun(kind, arg, late)
<1>1. /\ tx' = [tx EXCEPT ![x] = r] /\ db' = db /\ connection' = connection
      /\ DbSound(db) /\ tx = [y \in Txs |-> tx[y]]
  BY DEF IndInv, Begin, Begun
<1>2. /\ IsTx(r) /\ Clean(r) /\ r.kind = kind /\ r.arg = arg /\ ~r.answer
      /\ r.late = late /\ r.wrote = Empty
  <2>1. r = Begun(kind, arg, late) /\ late \in BOOLEAN
    OBVIOUS
  <2> HIDE DEF r, late
  <2> QED
    BY <2>1, BegunTx
<1> HIDE DEF r
<1>3. Names(kind, arg)
  BY <1>1, ArgumentsName
<1>4. /\ ArgsSound(r) /\ NamedExists(r, db)
      /\ kind # "register" /\ arg["device"] # None =>
             db[<<"device", arg["device"]>>].status # "none"
  BY <1>1, <1>2, <1>3, NamesExist
<1>5. TxSound(r, db)
  <2>1. LateSound(r, db)
    <3>1. r.late => late
      BY <1>2, Zenon
    <3>2. late => db[<<"family", arg["device"]>>].status = "revoked"
      OBVIOUS
    <3> HIDE DEF late
    <3>3. r.late => db[<<"family", r.arg["device"]>>].status = "revoked"
      BY <1>2, <3>1, <3>2
    <3>4. r.wrote = Empty /\ r.pc <= 3
      BY <1>2 DEF Clean
    <3> QED
      BY <3>3, <3>4, Zenon DEF LateSound
  <2>2. AnswerSound(r, db)
    BY <1>2 DEF AnswerSound
  <2>3. r.kind \in AllKinds /\ r.kind # "idle"
    BY <1>2, KindsArrive DEF AllKinds
  <2> QED
    BY <1>2, <1>4, <2>1, <2>2, <2>3, CleanTx
<1>6. /\ tx'[x] = r
      /\ \A y \in Txs \ {x} : tx'[y] = tx[y]
      /\ tx' = [y \in Txs |-> tx'[y]]
  BY <1>1
<1>7. \A y \in Txs : TxSound(tx'[y], db)
  BY <1>5, <1>6 DEF IndInv
<1>8. DrawsSound'
  <2> SUFFICES ASSUME NEW y \in Txs, ~tx'[y].answer, NEW draw \in Draws(tx'[y].kind)
               PROVE  /\ db[<<draw[1], tx'[y].arg[draw[2]]>>].status = "none"
                      /\ \A z \in Txs \ {y} : tx'[z].arg[draw[2]] # tx'[y].arg[draw[2]]
    BY <1>1 DEF DrawsSound
  <2>1. CASE y = x
    <3>1. draw \in Draws(kind)
      BY <1>2, <1>6, <2>1
    <3>2. /\ db[<<draw[1], arg[draw[2]]>>].status = "none"
          /\ \A z \in Txs : tx[z].arg[draw[2]] # arg[draw[2]]
      BY <1>1, <1>3, <3>1, DrawnFresh
    <3> QED
      BY <1>2, <1>6, <2>1, <3>2
  <2>2. CASE y # x
    <3>1. ~tx[y].answer /\ draw \in Draws(tx[y].kind) /\ tx'[y] = tx[y]
      BY <1>6, <2>2
    <3>2. /\ db[<<draw[1], tx[y].arg[draw[2]]>>].status = "none"
          /\ \A z \in Txs \ {y} : tx[z].arg[draw[2]] # tx[y].arg[draw[2]]
      BY <3>1 DEF IndInv, DrawsSound
    <3>3. arg[draw[2]] # tx[y].arg[draw[2]]
      BY <1>3, <1>4, <3>1, NamesNoneDrawn
    <3> QED
      BY <1>2, <1>6, <3>1, <3>2, <3>3
  <2> QED
    BY <2>1, <2>2
<1>9. LocksDisjoint'
  BY <1>2, <1>6, Fields DEF IndInv, LocksDisjoint
<1>10. ConnectionsSound'
  BY <1>1 DEF IndInv, ConnectionsSound, Admitted
<1> QED
  BY <1>1, <1>6, <1>7, <1>8, <1>9, <1>10 DEF IndInv

-----------------------------------------------------------------------------
(* The theorems. *)

LEMMA InitInd == ASSUME Init PROVE IndInv
<1>1. DbSound(db)
  <2>1. /\ db = [key \in Keys |-> db[key]]
        /\ \A key \in Keys : db[key] = NoRow(key[1])
    BY DEF Init
  <2>2. \A key \in Keys : IsRow(key[1], db[key])
    BY <2>1, TablesOfKeys DEF IsRow, NoRow, Tables
  <2>3. /\ \A d \in Devices : /\ db[<<"device", d>>].status = "none"
                              /\ db[<<"family", d>>].status = "none"
        /\ \A t \in Tokens : db[<<"refresh", t>>].status = "none"
        /\ \A k \in Tickets : db[<<"ticket", k>>].status = "none"
    BY <2>1, KeysOfTables DEF NoRow
  <2> QED
    BY <2>1, <2>2, <2>3 DEF DbSound
<1>2. /\ tx = [x \in Txs |-> tx[x]]
      /\ \A x \in Txs : tx[x] = Idle
  BY DEF Init
<1>3. \A x \in Txs : TxSound(tx[x], db)
  BY <1>2, IdleSound
<1>4. DrawsSound /\ LocksDisjoint
  BY <1>2, Fields DEF DrawsSound, LocksDisjoint, Draws
<1>5. ConnectionsSound
  BY DEF Init, ConnectionsSound
<1> QED
  BY <1>1, <1>2, <1>3, <1>4, <1>5 DEF IndInv

LEMMA NothingWritten == ASSUME db' = db PROVE Later(db, db')
  BY DEF Later

LEMMA NextKeepsInv ==
    ASSUME IndInv, [Next]_vars
    PROVE  IndInv' /\ Later(db, db')
<1>1. CASE UNCHANGED vars
  <2>1. IndInv'
    BY <1>1 DEF vars, IndInv, DrawsSound, LocksDisjoint, ConnectionsSound
  <2> QED
    BY <1>1, <2>1, NothingWritten DEF vars
<1>2. CASE \E s \in Sessions : CreatePairingSession(s)
  BY <1>2, CreateKeepsInv
<1>3. ASSUME NEW x \in Txs, NEW kind \in Kinds, NEW arg \in Arguments(kind),
             Begin(x, kind, arg)
      PROVE  IndInv' /\ Later(db, db')
  BY <1>3, BeginKeepsInv, NothingWritten DEF Begin
<1>4. ASSUME NEW x \in Txs, Select(x) PROVE IndInv' /\ Later(db, db')
  BY <1>4, SelectKeepsInv, NothingWritten DEF Select
<1>5. ASSUME NEW x \in Txs, Update(x) PROVE IndInv' /\ Later(db, db')
  BY <1>5, UpdateKeepsInv, NothingWritten DEF Update
<1>6. ASSUME NEW x \in Txs, ListTokens(x) PROVE IndInv' /\ Later(db, db')
  BY <1>6, ListTokensKeepsInv, NothingWritten DEF ListTokens
<1>7. ASSUME NEW x \in Txs, NEW t \in Tokens, RevokeToken(x, t)
      PROVE  IndInv' /\ Later(db, db')
  BY <1>7, RevokeTokenKeepsInv, NothingWritten DEF RevokeToken
<1>8. ASSUME NEW x \in Txs, Commit(x) PROVE IndInv' /\ Later(db, db')
  BY <1>8, CommitKeepsInv
<1>9. ASSUME NEW x \in Txs, Throw(x) PROVE IndInv' /\ Later(db, db')
  BY <1>9, ThrowKeepsInv, NothingWritten DEF Throw
<1>10. ASSUME NEW x \in Txs, Fail(x) PROVE IndInv' /\ Later(db, db')
  BY <1>10, FailKeepsInv, NothingWritten DEF Fail
<1>11. ASSUME NEW x \in Txs, Return(x) PROVE IndInv' /\ Later(db, db')
  BY <1>11, ReturnKeepsInv, NothingWritten DEF Return
<1>12. ASSUME NEW d \in Devices, ConnectionClosed(d) PROVE IndInv' /\ Later(db, db')
  BY <1>12, ClosedKeepsInv, NothingWritten DEF ConnectionClosed
<1>13. CASE BridgeRestart
  BY <1>13, RestartKeepsInv, NothingWritten DEF BridgeRestart
<1> QED
  BY <1>1, <1>2, <1>3, <1>4, <1>5, <1>6, <1>7, <1>8, <1>9, <1>10, <1>11, <1>12, <1>13
     DEF Next

\* The inductive invariant: what each transaction has read and will write fits
\* the database, whatever the others have committed since.
THEOREM PgInductive == Spec => []IndInv
<1>1. Init => IndInv
  BY InitInd
<1>2. IndInv /\ [Next]_vars => IndInv'
  BY NextKeepsInv
<1> QED
  BY <1>1, <1>2, PTL DEF Spec

LEMMA RowTypes == ASSUME NEW key \in Keys, NEW row, IsRow(key[1], row) PROVE row \in Rows
<1>0. MaxAttempts \in Nat /\ 0 \in 0..MaxAttempts
  BY PgBounds
<1>1. CASE key[1] = "pairing"
  <2>1. row \in [status : {"none", "pending", "redeemed"}, failedAttempts : {0}]
    BY <1>1 DEF IsRow
  <2>2. row \in [status : {"none", "pending", "redeemed", "locked"},
                 failedAttempts : 0..MaxAttempts]
    BY <1>0, <2>1
  <2> QED
    BY <2>2 DEF Rows
<1>2. CASE key[1] = "bootstrap"
  <2>1. row \in [status : {"none", "unused", "used"}, session : Sessions \cup {None}]
    BY <1>2 DEF IsRow, NoRow
  <2> QED
    BY <2>1 DEF Rows
<1>3. CASE key[1] = "device"
  <2>1. row \in [status : {"none", "active", "revoked"}, bootstrap : Bootstraps \cup {None}]
    BY <1>3 DEF IsRow, NoRow
  <2> QED
    BY <2>1 DEF Rows
<1>4. CASE key[1] = "family"
  BY <1>4 DEF IsRow, Rows
<1>5. CASE key[1] = "refresh"
  <2>1. row \in [status : {"none", "stored"}, device : Devices \cup {None},
                 used : BOOLEAN, revoked : BOOLEAN]
    <3>1. CASE row = NoRow("refresh")
      BY <3>1 DEF NoRow
    <3>2. CASE row \in [status : {"stored"}, device : Devices, used : BOOLEAN,
                        revoked : BOOLEAN]
      BY <3>2
    <3> QED
      BY <1>5, <3>1, <3>2 DEF IsRow
  <2> QED
    BY <2>1 DEF Rows
<1>6. CASE key[1] = "ticket"
  <2>1. row \in [status : {"none", "unused", "used"}, device : Devices \cup {None}]
    BY <1>6 DEF IsRow, NoRow
  <2> QED
    BY <2>1 DEF Rows
<1> QED
  BY <1>1, <1>2, <1>3, <1>4, <1>5, <1>6, TablesOfKeys DEF Tables

\* Committed rows have their types, and no two transactions hold one row.
THEOREM PgTypeCorrect == Spec => []TypeOK
<1>1. IndInv => TypeOK
  <2> SUFFICES ASSUME IndInv PROVE TypeOK
    OBVIOUS
  <2>1. /\ db = [key \in Keys |-> db[key]]
        /\ \A key \in Keys : db[key] \in Rows
    BY RowTypes DEF IndInv, DbSound
  <2>2. db \in [Keys -> Rows]
    BY <2>1
  <2>3. \A x \in Txs : tx[x].kind = "idle" => tx[x] = Idle
    BY DEF IndInv, TxSound, Shape
  <2> QED
    BY <2>2, <2>3 DEF IndInv, LocksDisjoint, ConnectionsSound, TypeOK
<1> QED
  BY <1>1, PgInductive, PTL

\* A connection of the relay was admitted by a ticket whose use is committed,
\* through every crash between COMMIT and its answer.
THEOREM PgBoundAfterCommit == Spec => []BoundAfterCommit
<1>1. IndInv => BoundAfterCommit
  BY DEF IndInv, ConnectionsSound, Admitted, BoundAfterCommit
<1> QED
  BY <1>1, PgInductive, PTL

\* A refresh that begins after its family was revoked never writes a row,
\* whatever an older request has put back into the device's row.
THEOREM PgLateRefreshMintsNothing == Spec => []LateRefreshMintsNothing
<1>1. IndInv => LateRefreshMintsNothing
  BY DEF IndInv, TxSound, LateSound, LateRefreshMintsNothing
<1> QED
  BY <1>1, PgInductive, PTL

\* No handler takes back a committed redemption: of the two that write back a
\* session they read while it was pending, one redeems it and one rolls back.
THEOREM PgRedeemedIsFinal == Spec => RedeemedIsFinal
<1>1. IndInv /\ [Next]_vars =>
          [\A s \in Sessions : db[<<"pairing", s>>].status = "redeemed"
               => db'[<<"pairing", s>>].status = "redeemed"]_vars
  BY NextKeepsInv DEF Later
<1> QED
  BY <1>1, PgInductive, PTL DEF Spec, RedeemedIsFinal

\* No handler takes back the use of a refresh token, those that revoke the
\* whole family and write back rows they listed before included.
THEOREM PgUsedIsFinal == Spec => UsedIsFinal
<1>1. IndInv /\ [Next]_vars =>
          [\A t \in Tokens : db[<<"refresh", t>>].used => db'[<<"refresh", t>>].used]_vars
  BY NextKeepsInv DEF Later
<1> QED
  BY <1>1, PgInductive, PTL DEF Spec, UsedIsFinal

\* A device is never committed as revoked without its family, and a family
\* that was revoked stays so.
THEOREM PgRevokedTogether == Spec => RevokedTogether
<1>1. IndInv /\ [Next]_vars =>
          [\A d \in Devices :
              /\ db'[<<"device", d>>].status = "revoked"
                     => db'[<<"family", d>>].status = "revoked"
              /\ db[<<"family", d>>].status = "revoked"
                     => db'[<<"family", d>>].status = "revoked"]_vars
  <2> SUFFICES ASSUME IndInv, [Next]_vars, NEW d \in Devices
               PROVE  /\ db'[<<"device", d>>].status = "revoked"
                             => db'[<<"family", d>>].status = "revoked"
                      /\ db[<<"family", d>>].status = "revoked"
                             => db'[<<"family", d>>].status = "revoked"
    OBVIOUS
  <2>1. DbSound(db') /\ Later(db, db')
    BY NextKeepsInv DEF IndInv
  <2> QED
    BY <2>1 DEF DbSound, Later
<1> QED
  BY <1>1, PgInductive, PTL DEF Spec, RevokedTogether

=============================================================================
