------------------------- MODULE RelayPrompts_proofs -------------------------
(***************************************************************************)
(* Theorems about the prompts of Relay and their remembered results, for   *)
(* any number of requests that overlap over any sockets and routes.        *)
(*                                                                         *)
(* PromptInv says of each request by itself what its step tells about it   *)
(* (SoundAt), and how requests and the table of results fit together.  The *)
(* sockets do not matter to it: Relay_proofs' invariant gives the types.   *)
(***************************************************************************)
EXTENDS Relay_proofs

\* What a request's step tells about the rest of its record.
SoundAt(h, r) ==
    /\ r.text = h => r.step \in {"storing", "stored", "done"} /\ ~r.known
    /\ r.step \in {"storing", "stored"} => r.text = h
    /\ r.outcome # "none" => r.step = "done"
    /\ r.step = "found" /\ r.known => r.text # None
    /\ r.step = "completing" => ~r.known

RequestsSound == \A h \in Requests : SoundAt(h, request[h])

\* A request that came after the result finds it, unless it expires first.
KnownIsStored ==
    \A h \in Requests :
        request[h].step = "lookup" /\ request[h].known => results[Key(h)].text # None

\* A stored result is that of a request which has stored it.
ResultsSound ==
    \A k \in Devices \X Prompts : results[k].text # None =>
        LET g == results[k].text
        IN  /\ g \in Requests
            /\ request[g].step \in {"stored", "done"}
            /\ request[g].text = g
            /\ Key(g) = k
            /\ request[g].createdAt = results[k].createdAt

\* t asked OpenClaw, and what became of its text is accounted for.
Keeps(k, t) ==
    /\ t \in Requests
    /\ request[t].text = t
    /\ Remembered(k, t)

\* The handler has read or written the result that its reply carries.
Answers(r) ==
    \/ r.outcome = "final"
    \/ r.step = "stored"
    \/ r.step = "found" /\ r.text # None

AnswersRemembered ==
    DurableStore => \A h \in Requests :
        Answers(request[h]) => Keeps(Key(h), request[h].text)

PromptInv == RequestsSound /\ KnownIsStored /\ ResultsSound /\ AnswersRemembered

-----------------------------------------------------------------------------
(* Steps. *)

LEMMA InitPrompts == Init => PromptInv
<1> SUFFICES ASSUME Init PROVE PromptInv
  OBVIOUS
<1>1. /\ \A h \in Requests : /\ request[h] = NoRequest
                             /\ request[h].step = "none"
                             /\ request[h].text = None
                             /\ request[h].outcome = "none"
      /\ \A k \in Devices \X Prompts : results[k].text = None
  BY DEF Init, NoRequest, NoResult
<1>2. None \notin Requests
  BY RelayAssumption
<1>3. RequestsSound
  BY <1>1, <1>2 DEF RequestsSound, SoundAt
<1>4. KnownIsStored /\ ResultsSound /\ AnswersRemembered
  BY <1>1 DEF KnownIsStored, ResultsSound, AnswersRemembered, Answers
<1> QED
  BY <1>3, <1>4 DEF PromptInv

\* What a step may not do to what is remembered: keys stay, an answer stays
\* dated, and a result goes only when it has expired.
Later ==
    /\ now' \in Nat /\ now <= now'
    /\ \A g \in Requests : request[g].text = g =>
           /\ Key(g)' = Key(g)
           /\ request'[g].text = g
           /\ request'[g].createdAt = request[g].createdAt
    /\ \A k \in Devices \X Prompts :
           results[k].text # None => results'[k].text # None \/ ResultExpired(k)

LEMMA RememberedStays ==
    ASSUME Types, ResultsSound, Later, RequestsSound', ResultsSound',
           NEW k \in Devices \X Prompts, NEW t, Keeps(k, t)
    PROVE  Keeps(k, t)'
<1>1. /\ now \in Nat /\ Retention \in Nat
      /\ \A g \in Requests : request[g].createdAt \in Nat
  BY RelayAssumption DEF Types, Request
<1>2. t \in Requests /\ request[t].text = t /\ request'[t].text = t
  BY DEF Keeps, Later
\* What has expired stays expired.
<1>3. ASSUME NEW g \in Requests, request[g].text = g, TextExpired(g)
      PROVE  TextExpired(g)'
  <2>1. request'[g].createdAt = request[g].createdAt /\ now' \in Nat /\ now <= now'
    BY <1>3 DEF Later
  <2>2. request'[g].createdAt + Retention <= now'
    BY <1>1, <1>3, <2>1 DEF TextExpired
  <2> QED
    BY <2>2 DEF TextExpired
\* What is stored is stored, expires, or is replaced.
<1>4. ASSUME NEW g \in Requests, request[g].text = g, results[k].text = g, g # None
      PROVE  TextExpired(g)' \/ results'[k].text # None
  <2>1. CASE ResultExpired(k)
    <3>1. request[g].createdAt = results[k].createdAt
      BY <1>4 DEF ResultsSound
    <3>2. TextExpired(g)
      BY <2>1, <3>1 DEF ResultExpired, TextExpired
    <3> QED
      BY <1>3, <1>4, <3>2
  <2> QED
    BY <1>4, <2>1 DEF Later
<1>5. ASSUME results'[k].text # None
      PROVE  Remembered(k, t)'
  <2> SUFFICES ASSUME NEW g, g = results'[k].text
               PROVE  Remembered(k, t)'
    OBVIOUS
  <2>1. g \in Requests /\ request'[g].text = g /\ Key(g)' = k
    BY <1>5 DEF ResultsSound
  <2>2. ~request'[g].known
    BY <2>1 DEF RequestsSound, SoundAt
  <2> QED
    BY <2>1, <2>2 DEF Remembered
<1>6. ASSUME NEW g \in Requests \ {t}, Key(g) = k, request[g].text = g, TextExpired(g)'
      PROVE  Remembered(k, t)'
  <2>1. Key(g)' = k /\ request'[g].text = g
    BY <1>6 DEF Later
  <2>2. ~request'[g].known
    BY <2>1 DEF RequestsSound, SoundAt
  <2> QED
    BY <1>6, <2>1, <2>2 DEF Remembered
<1>7. None \notin Requests
  BY RelayAssumption
<1>8. Remembered(k, t)'
  <2>1. CASE results[k].text = t
    BY <1>2, <1>4, <1>5, <1>7, <2>1 DEF Remembered
  <2>2. CASE TextExpired(t)
    BY <1>2, <1>3, <2>2 DEF Remembered
  <2>3. ASSUME NEW g \in Requests \ {t}, Key(g) = k, request[g].text = g,
               results[k].text = g \/ TextExpired(g)
        PROVE  Remembered(k, t)'
    BY <1>3, <1>4, <1>5, <1>6, <1>7, <2>3
  <2> QED
    BY <2>1, <2>2, <2>3 DEF Keeps, Remembered
<1> QED
  BY <1>2, <1>8 DEF Keeps

LEMMA KeysOfRequests ==
    ASSUME Owned, NEW h \in Requests, request[h].step # "none"
    PROVE  Key(h) \in Devices \X Prompts
  BY DEF Owned, Key

\* A request that answers goes on to answer what is kept.
LEMMA AnswerStays ==
    ASSUME Types, Owned, PromptInv, Later, RequestsSound', ResultsSound', DurableStore,
           NEW g \in Requests, Answers(request[g]), request'[g].text = request[g].text,
           request[g].step # "none" => Key(g)' = Key(g)
    PROVE  Keeps(Key(g), request[g].text)'
<1> DEFINE k == Key(g)
           t == request[g].text
<1>1. Keeps(k, t) /\ ResultsSound
  BY DEF PromptInv, AnswersRemembered
<1>2. request[g].step # "none"
  BY DEF PromptInv, RequestsSound, SoundAt, Answers
<1>3. k \in Devices \X Prompts /\ Key(g)' = k /\ request'[g].text = t
  BY <1>2, KeysOfRequests
<1> HIDE DEF k, t
<1>4. \A j \in Devices \X Prompts : \A u \in Requests : Keeps(j, u) => Keeps(j, u)'
  BY <1>1, RememberedStays
<1>5. t \in Requests /\ request'[t].text = t
  BY <1>1 DEF Keeps, Later
<1> QED
  BY <1>1, <1>3, <1>4, <1>5 DEF Keeps, Remembered

\* Steps that are none of the requests'.
LEMMA QuietKeepsPrompts ==
    ASSUME Types, Owned, PromptInv, UNCHANGED <<request, results>>,
           now' \in Nat, now <= now'
    PROVE  PromptInv'
<1>1. RequestsSound' /\ KnownIsStored' /\ ResultsSound'
  BY DEF PromptInv, RequestsSound, SoundAt, KnownIsStored, ResultsSound, Key
<1>2. Later
  BY DEF Later, Key
<1>3. AnswersRemembered'
  <2> SUFFICES ASSUME DurableStore, NEW h \in Requests, Answers(request[h])
               PROVE  Keeps(Key(h), request[h].text)'
    BY DEF AnswersRemembered
  <2>1. Keeps(Key(h), request[h].text)
    BY DEF PromptInv, AnswersRemembered
  <2>2. request[h].step # "none"
    BY DEF PromptInv, RequestsSound, SoundAt, Answers
  <2>3. Key(h)' = Key(h) /\ Key(h) \in Devices \X Prompts
    BY <2>2, KeysOfRequests DEF Key
  <2> QED
    BY <1>1, <1>2, <2>1, <2>3, RememberedStays DEF PromptInv
<1> QED
  BY <1>1, <1>3 DEF PromptInv

\* Request h becomes r, and the results stay.
LEMMA RequestChanges ==
    ASSUME Types, Owned, PromptInv, NEW h \in Requests, NEW r \in Request,
           request' = [request EXCEPT ![h] = r], UNCHANGED <<now, results>>,
           SoundAt(h, r),
           <<r.device, r.prompt>> \in Devices \X Prompts,
           r.step # "none",
           request[h].step # "none" =>
               r.device = request[h].device /\ r.prompt = request[h].prompt,
           request[h].step \in {"storing", "stored", "done"} =>
               /\ request[h].step # "storing" => r.step \in {"stored", "done"}
               /\ r.text = request[h].text
               /\ r.createdAt = request[h].createdAt,
           r.step = "lookup" /\ r.known => results[<<r.device, r.prompt>>].text # None,
           Answers(r) => \/ Answers(request[h]) /\ r.text = request[h].text
                         \/ /\ r.text # None
                            /\ results[<<r.device, r.prompt>>].text = r.text
    PROVE  PromptInv'
<1>1. /\ request'[h] = r
      /\ \A g \in Requests \ {h} : request'[g] = request[g]
  BY DEF Types
<1>2. /\ Key(h)' = <<r.device, r.prompt>>
      /\ request[h].step # "none" => Key(h)' = Key(h)
      /\ \A g \in Requests \ {h} : Key(g)' = Key(g)
  BY <1>1 DEF Key
<1>3. RequestsSound'
  BY <1>1 DEF PromptInv, RequestsSound
<1>4. KnownIsStored'
  <2> SUFFICES ASSUME NEW g \in Requests, request'[g].step = "lookup", request'[g].known
               PROVE  results'[Key(g)'].text # None
    BY DEF KnownIsStored
  <2>1. CASE g = h
    BY <2>1, <1>1, <1>2
  <2>2. CASE g # h
    BY <2>2, <1>1, <1>2 DEF PromptInv, KnownIsStored
  <2> QED
    BY <2>1, <2>2
<1>5. \A g \in Requests : request[g].text = g =>
          request[g].step \in {"storing", "stored", "done"}
  BY DEF PromptInv, RequestsSound, SoundAt
<1>6. Later
  <2>1. ASSUME NEW g \in Requests, request[g].text = g
        PROVE  /\ Key(g)' = Key(g)
               /\ request'[g].text = g
               /\ request'[g].createdAt = request[g].createdAt
    <3>1. CASE g = h
      BY <2>1, <3>1, <1>1, <1>2, <1>5
    <3>2. CASE g # h
      BY <2>1, <3>2, <1>1, <1>2
    <3> QED
      BY <3>1, <3>2
  <2> QED
    BY <2>1 DEF Later, Types
<1>7. ResultsSound'
  <2> SUFFICES ASSUME NEW k \in Devices \X Prompts, results[k].text # None,
                      NEW g, g = results[k].text
               PROVE  /\ g \in Requests
                      /\ request'[g].step \in {"stored", "done"}
                      /\ request'[g].text = g
                      /\ Key(g)' = k
                      /\ request'[g].createdAt = results[k].createdAt
    BY DEF ResultsSound
  <2>1. /\ g \in Requests /\ request[g].step \in {"stored", "done"}
        /\ request[g].text = g /\ Key(g) = k
        /\ request[g].createdAt = results[k].createdAt
    BY DEF PromptInv, ResultsSound
  <2>2. request'[g].step \in {"stored", "done"}
    <3>1. CASE g = h
      BY <2>1, <3>1, <1>1
    <3>2. CASE g # h
      BY <2>1, <3>2, <1>1
    <3> QED
      BY <3>1, <3>2
  <2> QED
    BY <1>6, <2>1, <2>2 DEF Later
<1>8. AnswersRemembered'
  <2> SUFFICES ASSUME DurableStore, NEW g \in Requests, Answers(request'[g])
               PROVE  Keeps(Key(g), request[g].text)'
    BY DEF AnswersRemembered
  <2>1. ASSUME Answers(request[g]), request'[g].text = request[g].text
        PROVE  Keeps(Key(g), request[g].text)'
    BY <1>2, <1>3, <1>6, <1>7, <2>1, AnswerStays
  <2>2. ASSUME g = h, r.text # None, results[<<r.device, r.prompt>>].text = r.text
        PROVE  Keeps(Key(g), request[g].text)'
    <3>1. results'[Key(g)'].text = r.text /\ request'[g].text = r.text
      BY <2>2, <1>1, <1>2
    <3>2. r.text \in Requests /\ request'[r.text].text = r.text
      BY <1>2, <1>7, <2>2, <3>1 DEF ResultsSound
    <3> QED
      BY <3>1, <3>2 DEF Keeps, Remembered
  <2> QED
    BY <2>1, <2>2, <1>1
<1> QED
  BY <1>3, <1>4, <1>7, <1>8 DEF PromptInv

\* The fields of a record that a handler changes.
LEMMA FieldsChange ==
    ASSUME NEW r \in Request, NEW s, NEW t, NEW n
    PROVE  /\ LET q == [r EXCEPT !.step = s]
              IN  /\ q.step = s /\ q.text = r.text /\ q.createdAt = r.createdAt
                  /\ q.device = r.device /\ q.prompt = r.prompt
                  /\ q.known = r.known /\ q.outcome = r.outcome
           /\ LET q == [r EXCEPT !.step = s, !.outcome = t]
              IN  /\ q.step = s /\ q.text = r.text /\ q.createdAt = r.createdAt
                  /\ q.device = r.device /\ q.prompt = r.prompt
                  /\ q.known = r.known /\ q.outcome = t
           /\ LET q == [r EXCEPT !.step = s, !.text = t]
              IN  /\ q.step = s /\ q.text = t /\ q.createdAt = r.createdAt
                  /\ q.device = r.device /\ q.prompt = r.prompt
                  /\ q.known = r.known /\ q.outcome = r.outcome
           /\ LET q == [r EXCEPT !.step = s, !.text = t, !.createdAt = n]
              IN  /\ q.step = s /\ q.text = t /\ q.createdAt = n
                  /\ q.device = r.device /\ q.prompt = r.prompt
                  /\ q.known = r.known /\ q.outcome = r.outcome
           /\ LET q == [r EXCEPT !.known = FALSE]
              IN  /\ q.step = r.step /\ q.text = r.text /\ q.createdAt = r.createdAt
                  /\ q.device = r.device /\ q.prompt = r.prompt
                  /\ q.known = FALSE /\ q.outcome = r.outcome
  BY DEF Request

LEMMA ArriveKeepsPrompts ==
    ASSUME Types, Owned, PromptInv, NEW h \in Requests,
           NEW kind \in {"prompt", "resume", "turn"}, NEW d \in Devices,
           NEW c \in Connections \cup {None}, NEW p \in Prompts,
           Arrive(h, kind, d, c, p), UNCHANGED <<now, results>>
    PROVE  PromptInv'
<1> DEFINE b == results[<<d, p>>].text # None
           r == [NoRequest EXCEPT !.kind = kind, !.device = d, !.connection = c,
                                  !.prompt = p, !.step = "lookup", !.known = b]
<1>1. request[h].step = "none" /\ request' = [request EXCEPT ![h] = r]
  BY DEF Arrive
<1>2. b \in BOOLEAN
  OBVIOUS
<1> HIDE DEF b
<1>3. /\ r.step = "lookup" /\ r.text = None /\ r.outcome = "none"
      /\ r.device = d /\ r.prompt = p /\ r.known = b
  BY DEF NoRequest
<1>4. r \in Request
  BY <1>2 DEF NoRequest, Request, Steps, Outcomes
<1> HIDE DEF r
<1>5. SoundAt(h, r)
  BY <1>3, RelayAssumption DEF SoundAt
<1>6. r.step = "lookup" /\ r.known => results[<<r.device, r.prompt>>].text # None
  BY <1>3 DEF b
<1>7. ~Answers(r)
  BY <1>3 DEF Answers
<1>8. <<r.device, r.prompt>> \in Devices \X Prompts
  BY <1>3
<1> QED
  BY <1>1, <1>3, <1>4, <1>5, <1>6, <1>7, <1>8, RequestChanges

\* A reply, or an error that is caught.
LEMMA FinishKeepsPrompts ==
    ASSUME Types, Owned, PromptInv, NEW h \in Requests, NEW outcome \in Outcomes,
           Finish(h, outcome), request[h].step \notin {"none", "done"},
           outcome = "final" => Answers(request[h])
    PROVE  PromptInv'
<1> DEFINE o == Told(h, outcome)
           r == [request[h] EXCEPT !.step = "done", !.outcome = o]
<1>1. o \in {outcome, "unsent"} /\ o \in Outcomes
  BY DEF Told, Outcomes
<1>2. request' = [request EXCEPT ![h] = r] /\ UNCHANGED <<now, results>>
  BY DEF Finish
<1>3. request[h] \in Request /\ "done" \in Steps
  BY DEF Types, Steps
<1> HIDE DEF o
<1>4. r \in Request
  BY <1>1, <1>3, RequestUpdates
<1>5. /\ r.step = "done" /\ r.text = request[h].text /\ r.outcome = o
      /\ r.createdAt = request[h].createdAt /\ r.known = request[h].known
      /\ r.device = request[h].device /\ r.prompt = request[h].prompt
  BY <1>3, FieldsChange
<1> HIDE DEF r
<1>6. <<r.device, r.prompt>> \in Devices \X Prompts
  BY <1>5 DEF Owned
<1>7. SoundAt(h, r)
  BY <1>5 DEF PromptInv, RequestsSound, SoundAt
<1>8. Answers(r) => Answers(request[h]) /\ r.text = request[h].text
  BY <1>1, <1>5 DEF Answers
<1> QED
  BY <1>2, <1>4, <1>5, <1>6, <1>7, <1>8, RequestChanges

LEMMA StoreKeepsPrompts ==
    ASSUME Types, Owned, PromptInv, NEW h \in Requests, StoreResult(h)
    PROVE  PromptInv'
<1> DEFINE r == [request[h] EXCEPT !.step = "stored"]
           key == Key(h)
<1>1. /\ request[h].step = "storing" /\ request[h] \in Request
      /\ request' = [request EXCEPT ![h] = r] /\ now' = now
      /\ results' = [results EXCEPT ![key] =
                        [text |-> h, createdAt |-> request[h].createdAt]]
  BY DEF StoreResult, Types
<1>2. /\ r.step = "stored" /\ r.text = request[h].text /\ r.known = request[h].known
      /\ r.createdAt = request[h].createdAt /\ r.outcome = request[h].outcome
      /\ r.device = request[h].device /\ r.prompt = request[h].prompt
  BY <1>1, FieldsChange
<1> HIDE DEF r
<1>3. /\ request[h].text = h /\ request[h].outcome = "none"
  BY <1>1 DEF PromptInv, RequestsSound, SoundAt
<1>4. /\ request'[h] = r /\ \A g \in Requests \ {h} : request'[g] = request[g]
      /\ \A g \in Requests : Key(g)' = Key(g)
  BY <1>1, <1>2 DEF Types, Key
<1>5. key \in Devices \X Prompts
  BY <1>1, KeysOfRequests
<1>6. /\ results'[key].text = h /\ results'[key].createdAt = request[h].createdAt
      /\ \A k \in Devices \X Prompts : k # key => results'[k] = results[k]
      /\ h # None
  BY <1>1, <1>5, RelayAssumption DEF Types
<1> HIDE DEF key
<1>7. RequestsSound'
  BY <1>2, <1>3, <1>4 DEF PromptInv, RequestsSound, SoundAt
<1>8. Later
  <2>1. now' \in Nat /\ now <= now'
    BY <1>1 DEF Types
  <2>2. \A g \in Requests : request[g].text = g =>
           /\ Key(g)' = Key(g)
           /\ request'[g].text = g
           /\ request'[g].createdAt = request[g].createdAt
    BY <1>2, <1>4
  <2>3. \A k \in Devices \X Prompts :
           results[k].text # None => results'[k].text # None
    BY <1>6
  <2> QED
    BY <2>1, <2>2, <2>3 DEF Later
<1>9. KnownIsStored'
  <2> SUFFICES ASSUME NEW g \in Requests, request'[g].step = "lookup", request'[g].known
               PROVE  results'[Key(g)'].text # None
    BY DEF KnownIsStored
  <2>1. g # h /\ request[g].step = "lookup" /\ request[g].known
    BY <1>2, <1>4
  <2>2. results[Key(g)].text # None /\ Key(g) \in Devices \X Prompts
    BY <2>1, KeysOfRequests DEF PromptInv, KnownIsStored
  <2> QED
    BY <1>4, <1>6, <2>2
<1>10. ResultsSound'
  <2> SUFFICES ASSUME NEW k \in Devices \X Prompts, results'[k].text # None,
                      NEW g, g = results'[k].text
               PROVE  /\ g \in Requests
                      /\ request'[g].step \in {"stored", "done"}
                      /\ request'[g].text = g
                      /\ Key(g)' = k
                      /\ request'[g].createdAt = results'[k].createdAt
    BY DEF ResultsSound
  <2>1. CASE k = key
    BY <2>1, <1>2, <1>3, <1>4, <1>6 DEF key
  <2>2. CASE k # key
    <3>1. results'[k] = results[k]
      BY <2>2, <1>6
    <3>2. /\ g \in Requests /\ request[g].step \in {"stored", "done"}
          /\ request[g].text = g /\ Key(g) = k
          /\ request[g].createdAt = results[k].createdAt
      BY <3>1 DEF PromptInv, ResultsSound
    <3>3. g # h
      BY <1>1, <3>2
    <3> QED
      BY <1>4, <3>1, <3>2, <3>3
  <2> QED
    BY <2>1, <2>2
<1>11. AnswersRemembered'
  <2> SUFFICES ASSUME DurableStore, NEW g \in Requests, Answers(request'[g])
               PROVE  Keeps(Key(g), request[g].text)'
    BY DEF AnswersRemembered
  <2>1. CASE g = h
    <3>1. results'[Key(g)'].text = h /\ request'[g].text = h
      BY <2>1, <1>2, <1>3, <1>4, <1>6 DEF key
    <3> QED
      BY <2>1, <3>1 DEF Keeps, Remembered
  <2>2. CASE g # h
    <3>1. Answers(request[g]) /\ request'[g].text = request[g].text /\ Key(g)' = Key(g)
      BY <2>2, <1>4
    <3> QED
      BY <1>7, <1>8, <1>10, <3>1, AnswerStays
  <2> QED
    BY <2>1, <2>2
<1> QED
  BY <1>7, <1>9, <1>10, <1>11 DEF PromptInv

LEMMA LookupKeepsPrompts ==
    ASSUME Types, Owned, PromptInv, NEW h \in Requests, Lookup(h)
    PROVE  PromptInv'
<1> DEFINE t == results[Key(h)].text
           r == [request[h] EXCEPT !.step = "found", !.text = t]
<1>1. /\ request[h].step = "lookup" /\ request[h] \in Request
      /\ request' = [request EXCEPT ![h] = r] /\ UNCHANGED <<now, results>>
  BY DEF Lookup, Types
<1>2. Key(h) \in Devices \X Prompts /\ Key(h) = <<request[h].device, request[h].prompt>>
  BY <1>1, KeysOfRequests DEF Key
<1>3. t \in Requests \cup {None}
  BY <1>2 DEF Types, PromptResult
<1>4. t # h
  <2> SUFFICES ASSUME t = h PROVE FALSE
    OBVIOUS
  <2>1. request[h].step \in {"stored", "done"}
    BY <1>2, RelayAssumption DEF PromptInv, ResultsSound
  <2> QED
    BY <1>1, <2>1
<1>5. request[h].known => t # None
  BY <1>1 DEF PromptInv, KnownIsStored
<1>6. "found" \in Steps
  BY DEF Steps
<1>7. request[h].outcome = "none"
  BY <1>1 DEF PromptInv, RequestsSound, SoundAt
<1>8. results[<<request[h].device, request[h].prompt>>].text = t
  BY <1>2
<1> HIDE DEF t
<1>9. r \in Request
  BY <1>1, <1>3, <1>6, RequestUpdates
<1>10. /\ r.step = "found" /\ r.text = t /\ r.outcome = "none"
       /\ r.known = request[h].known
       /\ r.device = request[h].device /\ r.prompt = request[h].prompt
  BY <1>1, <1>7, FieldsChange
<1> HIDE DEF r
<1>11. SoundAt(h, r)
  BY <1>4, <1>5, <1>10 DEF SoundAt
<1>12. Answers(r) => r.text # None /\ results[<<r.device, r.prompt>>].text = r.text
  BY <1>8, <1>10 DEF Answers
<1> QED
  BY <1>1, <1>2, <1>9, <1>10, <1>11, <1>12, RequestChanges

LEMMA AskKeepsPrompts ==
    ASSUME Types, Owned, PromptInv, NEW h \in Requests, AskOpenClaw(h)
    PROVE  PromptInv'
<1> DEFINE r == [request[h] EXCEPT !.step = "completing"]
<1>1. /\ request[h].step = "found" /\ request[h].text = None
      /\ request[h] \in Request /\ "completing" \in Steps
      /\ request' = [request EXCEPT ![h] = r] /\ UNCHANGED <<now, results>>
  BY DEF AskOpenClaw, Types, Steps
<1>2. /\ ~request[h].known /\ request[h].outcome = "none"
  BY <1>1 DEF PromptInv, RequestsSound, SoundAt
<1>3. r \in Request
  BY <1>1, RequestUpdates
<1>4. /\ r.step = "completing" /\ r.text = None /\ r.outcome = "none" /\ ~r.known
      /\ r.device = request[h].device /\ r.prompt = request[h].prompt
  BY <1>1, <1>2, FieldsChange
<1> HIDE DEF r
<1>5. SoundAt(h, r) /\ ~Answers(r)
  BY <1>4, RelayAssumption DEF SoundAt, Answers
<1>6. <<r.device, r.prompt>> \in Devices \X Prompts
  BY <1>1, <1>4 DEF Owned
<1> QED
  BY <1>1, <1>3, <1>4, <1>5, <1>6, RequestChanges

LEMMA CompletionKeepsPrompts ==
    ASSUME Types, Owned, PromptInv, NEW h \in Requests, CompletionArrives(h)
    PROVE  PromptInv'
<1> DEFINE r == [request[h] EXCEPT !.step = "storing", !.text = h, !.createdAt = now]
<1>1. /\ request[h].step = "completing" /\ now \in Nat
      /\ request[h] \in Request /\ "storing" \in Steps
      /\ request' = [request EXCEPT ![h] = r] /\ UNCHANGED <<now, results>>
  BY DEF CompletionArrives, Types, Steps
<1>2. request[h].outcome = "none" /\ ~request[h].known
  BY <1>1 DEF PromptInv, RequestsSound, SoundAt
<1>3. r \in Request
  BY <1>1, RequestUpdates
<1>4. /\ r.step = "storing" /\ r.text = h /\ r.outcome = "none" /\ ~r.known
      /\ r.device = request[h].device /\ r.prompt = request[h].prompt
  BY <1>1, <1>2, FieldsChange
<1> HIDE DEF r
<1>5. SoundAt(h, r) /\ ~Answers(r)
  BY <1>4 DEF SoundAt, Answers
<1>6. <<r.device, r.prompt>> \in Devices \X Prompts
  BY <1>1, <1>4 DEF Owned
<1> QED
  BY <1>1, <1>3, <1>4, <1>5, <1>6, RequestChanges

\* A step after which nobody answers who did not before.
LEMMA AnswersStay ==
    ASSUME Types, Owned, PromptInv, Later, RequestsSound', ResultsSound',
           \A g \in Requests : /\ Key(g)' = Key(g)
                               /\ request'[g].text = request[g].text
                               /\ Answers(request'[g]) => Answers(request[g])
    PROVE  AnswersRemembered'
<1> SUFFICES ASSUME DurableStore, NEW g \in Requests, Answers(request'[g])
             PROVE  Keeps(Key(g), request[g].text)'
  BY DEF AnswersRemembered
<1>1. /\ Answers(request[g]) /\ Key(g)' = Key(g)
      /\ request'[g].text = request[g].text
  OBVIOUS
<1> QED
  BY <1>1, AnswerStays

\* Results expire, and those who came after them will not find them.
LEMMA CleanupKeepsPrompts ==
    ASSUME Types, Owned, PromptInv, CleanupPromptResults
    PROVE  PromptInv'
<1>1. ASSUME NEW g \in Requests
      PROVE  /\ request'[g].step = request[g].step
             /\ request'[g].text = request[g].text
             /\ request'[g].createdAt = request[g].createdAt
             /\ request'[g].outcome = request[g].outcome
             /\ Key(g)' = Key(g)
             /\ request'[g].known =>
                    request[g].known /\ (request[g].step # "none" => ~ResultExpired(Key(g)))
  <2> DEFINE r == [request[g] EXCEPT !.known = FALSE]
  <2>1. request[g] \in Request
    BY DEF Types
  <2>2. /\ r.step = request[g].step /\ r.text = request[g].text
        /\ r.createdAt = request[g].createdAt /\ r.outcome = request[g].outcome
        /\ r.device = request[g].device /\ r.prompt = request[g].prompt
        /\ r.known = FALSE
    BY <2>1, FieldsChange
  <2>3. request'[g] = IF request[g].step # "none" /\ ResultExpired(Key(g))
                      THEN r ELSE request[g]
    BY DEF CleanupPromptResults
  <2> HIDE DEF r
  <2>4. CASE request[g].step # "none" /\ ResultExpired(Key(g))
    BY <2>2, <2>3, <2>4 DEF Key
  <2>5. CASE ~(request[g].step # "none" /\ ResultExpired(Key(g)))
    BY <2>3, <2>5 DEF Key
  <2> QED
    BY <2>4, <2>5
<1>2. \A k \in Devices \X Prompts :
          /\ ~ResultExpired(k) => results'[k] = results[k]
          /\ ResultExpired(k) => results'[k].text = None
  BY DEF CleanupPromptResults, Types, NoResult
<1>3. RequestsSound'
  BY <1>1 DEF PromptInv, RequestsSound, SoundAt
<1>4. KnownIsStored'
  <2> SUFFICES ASSUME NEW g \in Requests, request'[g].step = "lookup", request'[g].known
               PROVE  results'[Key(g)'].text # None
    BY DEF KnownIsStored
  <2>1. request[g].step = "lookup" /\ request[g].known /\ ~ResultExpired(Key(g))
    BY <1>1
  <2>2. results[Key(g)].text # None /\ Key(g) \in Devices \X Prompts
    BY <2>1, KeysOfRequests DEF PromptInv, KnownIsStored
  <2>3. results'[Key(g)] = results[Key(g)]
    BY <1>2, <2>1, <2>2
  <2> QED
    BY <1>1, <2>2, <2>3
<1>5. ResultsSound'
  <2> SUFFICES ASSUME NEW k \in Devices \X Prompts, results'[k].text # None,
                      NEW g, g = results'[k].text
               PROVE  /\ g \in Requests
                      /\ request'[g].step \in {"stored", "done"}
                      /\ request'[g].text = g
                      /\ Key(g)' = k
                      /\ request'[g].createdAt = results'[k].createdAt
    BY DEF ResultsSound
  <2>1. results'[k] = results[k]
    BY <1>2
  <2>2. /\ g \in Requests /\ request[g].step \in {"stored", "done"}
        /\ request[g].text = g /\ Key(g) = k
        /\ request[g].createdAt = results[k].createdAt
    BY <2>1 DEF PromptInv, ResultsSound
  <2> QED
    BY <1>1, <2>1, <2>2
<1>6. Later
  <2>1. now' \in Nat /\ now <= now'
    BY DEF CleanupPromptResults, Types
  <2>2. \A k \in Devices \X Prompts :
           results[k].text # None => results'[k].text # None \/ ResultExpired(k)
    BY <1>2
  <2> QED
    BY <1>1, <2>1, <2>2 DEF Later
<1>7. \A g \in Requests : /\ Key(g)' = Key(g)
                          /\ request'[g].text = request[g].text
                          /\ Answers(request'[g]) => Answers(request[g])
  BY <1>1 DEF Answers
<1> QED
  BY <1>3, <1>4, <1>5, <1>6, <1>7, AnswersStay DEF PromptInv

\* The handlers are gone; the results are, unless the store is durable.
LEMMA ProcessEndKeepsPrompts ==
    ASSUME Types, Owned, PromptInv, NEW h, ProcessEnds(h)
    PROVE  PromptInv'
<1>1. ASSUME NEW g \in Requests
      PROVE  /\ request'[g].step \in {"none", "done"}
             /\ request[g].step = "none" <=> request'[g].step = "none"
             /\ request'[g].text = request[g].text
             /\ request'[g].known = request[g].known
             /\ request'[g].createdAt = request[g].createdAt
             /\ request'[g].outcome \in {request[g].outcome, "rejected", "lost"}
             /\ request'[g].outcome # "none" =>
                    Pending(g) \/ request[g].outcome # "none"
             /\ Key(g)' = Key(g)
  <2> DEFINE o == IF g = h THEN "rejected" ELSE "lost"
             r == [request[g] EXCEPT !.step = "done", !.outcome = o]
  <2>1. request[g] \in Request /\ o \in {"rejected", "lost"}
    BY DEF Types
  <2>2. request'[g] = IF Pending(g) THEN r ELSE request[g]
    BY DEF ProcessEnds
  <2> HIDE DEF o
  <2>3. /\ r.step = "done" /\ r.text = request[g].text
        /\ r.createdAt = request[g].createdAt /\ r.outcome = o
        /\ r.known = request[g].known
        /\ r.device = request[g].device /\ r.prompt = request[g].prompt
    BY <2>1, FieldsChange
  <2> HIDE DEF r
  <2>4. CASE Pending(g)
    BY <2>1, <2>2, <2>3, <2>4 DEF Key, Pending
  <2>5. CASE ~Pending(g)
    BY <2>2, <2>5 DEF Key, Pending
  <2> QED
    BY <2>4, <2>5
<1>2. RequestsSound'
  BY <1>1 DEF PromptInv, RequestsSound, SoundAt, Pending
<1>3. KnownIsStored'
  BY <1>1 DEF KnownIsStored
<1>4. now' = now /\ now \in Nat
  BY DEF ProcessEnds, Types
<1>5. CASE DurableStore
  <2>1. results' = results
    BY <1>5 DEF ProcessEnds
  <2>2. ResultsSound'
    <3> SUFFICES ASSUME NEW k \in Devices \X Prompts, results[k].text # None,
                        NEW g, g = results[k].text
                 PROVE  /\ g \in Requests
                        /\ request'[g].step \in {"stored", "done"}
                        /\ request'[g].text = g
                        /\ Key(g)' = k
                        /\ request'[g].createdAt = results[k].createdAt
      BY <2>1 DEF ResultsSound
    <3>1. /\ g \in Requests /\ request[g].step \in {"stored", "done"}
          /\ request[g].text = g /\ Key(g) = k
          /\ request[g].createdAt = results[k].createdAt
      BY DEF PromptInv, ResultsSound
    <3> QED
      BY <1>1, <3>1
  <2>3. Later
    BY <1>1, <1>4, <2>1 DEF Later
  <2>4. \A g \in Requests : /\ Key(g)' = Key(g)
                            /\ request'[g].text = request[g].text
                            /\ Answers(request'[g]) => Answers(request[g])
    BY <1>1 DEF Answers
  <2> QED
    BY <1>2, <1>3, <2>2, <2>3, <2>4, AnswersStay DEF PromptInv
<1>6. CASE ~DurableStore
  <2>1. \A k \in Devices \X Prompts : results'[k].text = None
    BY <1>6 DEF ProcessEnds, Types, NoResult
  <2> QED
    BY <1>2, <1>3, <1>6, <2>1 DEF PromptInv, ResultsSound, AnswersRemembered
<1> QED
  BY <1>5, <1>6

LEMMA RequestStepKeepsPrompts ==
    ASSUME Types, Owned, TableSound, PromptInv, NEW h \in Requests, RequestStep(h)
    PROVE  PromptInv'
<1>0. {"final", "interrupted", "failed"} \subseteq Outcomes
  BY DEF Outcomes
<1>1. ASSUME NEW c \in Connections, NEW p \in Prompts,
             ReceiveResume(h, c, p) \/ ReceivePrompt(h, c, p)
      PROVE  PromptInv'
  <2>1. connection[c].device \in Devices
    BY <1>1 DEF ReceiveResume, ReceivePrompt, Hears, Owned
  <2>2. PICK kind \in {"prompt", "resume"} :
            /\ Arrive(h, kind, connection[c].device, c, p)
            /\ UNCHANGED <<now, results>>
    BY <1>1 DEF ReceiveResume, ReceivePrompt
  <2> QED
    BY <2>1, <2>2, ArriveKeepsPrompts
<1>2. ASSUME NEW d \in Devices, NEW p \in Prompts, PostTurn(h, d, p)
      PROVE  PromptInv'
  <2>1. Arrive(h, "turn", d, None, p) /\ UNCHANGED <<now, results>>
    BY <1>2 DEF PostTurn
  <2> QED
    BY <2>1, ArriveKeepsPrompts
<1>3. CASE ReplyKnown(h)
  BY <1>0, <1>3, FinishKeepsPrompts DEF ReplyKnown, Answers
<1>4. CASE ReplyInterrupted(h)
  BY <1>0, <1>4, FinishKeepsPrompts DEF ReplyInterrupted
<1>5. CASE SendReply(h)
  BY <1>0, <1>5, FinishKeepsPrompts DEF SendReply, Answers
<1>6. ASSUME HandlerFails(h),
             request[h].step \in {"lookup", "completing", "storing", "stored"}
      PROVE  PromptInv'
  <2>1. CASE Finish(h, "failed")
    BY <1>0, <1>6, <2>1, FinishKeepsPrompts
  <2>2. CASE ProcessEnds(h)
    BY <2>2, ProcessEndKeepsPrompts
  <2> QED
    BY <1>6, <2>1, <2>2 DEF HandlerFails
<1>7. CASE CompletionFails(h) \/ StoreFails(h)
  BY <1>6, <1>7 DEF CompletionFails, StoreFails
<1>8. CASE Lookup(h) \/ AskOpenClaw(h) \/ CompletionArrives(h) \/ StoreResult(h)
  BY <1>8, LookupKeepsPrompts, AskKeepsPrompts, CompletionKeepsPrompts, StoreKeepsPrompts
<1> QED
  BY <1>1, <1>2, <1>3, <1>4, <1>5, <1>7, <1>8 DEF RequestStep

LEMMA PromptsStep ==
    ASSUME IndInv, PromptInv, [Next]_vars
    PROVE  PromptInv'
<1>1. Types /\ Owned /\ TableSound /\ now \in Nat
  BY DEF IndInv, Types
<1>2. ASSUME UNCHANGED <<now, request, results>>
      PROVE  PromptInv'
  BY <1>1, <1>2, QuietKeepsPrompts
<1>3. CASE \E c \in Connections : ConnectionStep(c)
  BY <1>2, <1>3 DEF ConnectionStep, UpgradeBegin, UpgradeAborted, BindConnection,
         PeerCloses, SocketError, CloseEvent, SendPing, DropStale, ReceivePong,
         ReceiveHello
<1>4. CASE \E h \in Requests : RequestStep(h)
  BY <1>1, <1>4, RequestStepKeepsPrompts
<1>5. CASE (\E d \in Devices : RevokeDevice(d)) \/ CloseAll \/ UNCHANGED vars
  BY <1>2, <1>5 DEF RevokeDevice, CloseAll, vars
<1>6. CASE Tick
  BY <1>1, <1>6, QuietKeepsPrompts DEF Tick
<1>7. CASE CleanupPromptResults
  BY <1>1, <1>7, CleanupKeepsPrompts
<1>8. CASE BridgeRestart
  BY <1>1, <1>8, ProcessEndKeepsPrompts DEF BridgeRestart
<1> QED
  BY <1>3, <1>4, <1>5, <1>6, <1>7, <1>8 DEF Next

LEMMA PromptsInductive == Spec => []PromptInv
<1>1. IndInv /\ PromptInv /\ [Next]_vars => PromptInv'
  BY PromptsStep
<1> QED
  BY Inductive, InitPrompts, <1>1, PTL DEF Spec

-----------------------------------------------------------------------------
(* Theorems. *)

(* No request asks OpenClaw for a prompt whose result was stored when the   *)
(* request arrived and has not expired, whatever else is going on.          *)
THEOREM StoredPromptsAreNotAskedAgain == Spec => []RetryIsFree
<1>1. PromptInv => RetryIsFree
  BY DEF PromptInv, RequestsSound, SoundAt, RetryIsFree
<1> QED
  BY PromptsInductive, <1>1, PTL

(* With a durable store a reply that a client has seen stays its prompt's   *)
(* answer, word for word, through reconnects and restarts, until it expires *)
(* or a request that overlapped, and asked OpenClaw too, stores its own.    *)
THEOREM AnswersOutliveTheProcess == Spec => []AnsweredIsRemembered
<1>1. PromptInv => AnsweredIsRemembered
  BY DEF PromptInv, AnswersRemembered, Answers, Keeps, AnsweredIsRemembered
<1> QED
  BY PromptsInductive, <1>1, PTL

=============================================================================
