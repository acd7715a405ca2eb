-------------------------- MODULE IdempotencyProofs --------------------------
(***************************************************************************)
(* Proofs about the two users of idempotency_records, for any number of    *)
(* requests and any timeouts.  Idempotency: the executor of a key runs in  *)
(* one request at a time until an owner is slow, and a replayed answer is  *)
(* the result of a request that asked for the same.  The first rests on    *)
(* what an owner knows of the row while no one was slow, the second on what*)
(* an id says of a row's fingerprint.  SystemLock: up to the first lapse of*)
(* a lease one operation runs, because a holder's lease is in the row and  *)
(* nobody claims over a valid lease; and no lease lapses without a cause,  *)
(* because the next renewal always comes before the lease ends.            *)
(***************************************************************************)
EXTENDS MCRecords, TLAPS

-----------------------------------------------------------------------------
(* The inductive invariant. *)

IdsGrow ==
    /\ row.id <= lastId
    /\ \A r \in Requests : req[r].id <= lastId /\ req[r].existing.id <= lastId

\* What a request's own state says of it: one that ran its executor does not come
\* back to it.
Coherent(q) ==
    /\ q.start <= now
    /\ q.pc \in Running => q.id # 0
    /\ q.pc \in {"reclaimExpired", "reclaimFailed"} => q.existing.id # 0
    /\ q.pc = "markSucceeded" => q.effect = "succeeded"
    /\ q.pc = "markFailed" => q.effect = "failed"
    /\ q.effect # "none" => q.id # 0 /\ q.pc \notin Calling \cup {"new", "execute"}
    /\ q.effect = "succeeded" => q.pc # "executing"

RequestsCoherent == \A r \in Requests : Coherent(req[r])

\* Whoever owned or read the present row asked for what its fingerprint says.
Asked(id, fp) == id # 0 /\ id = row.id => row.fingerprint = fp

SameFingerprint ==
    \A r \in Requests : Asked(req[r].id, req[r].fp) /\ Asked(req[r].existing.id, req[r].fp)

\* body is the result of a request that asked for fp.
ResultOf(body, fp) ==
    body \in Bodies /\ req[body.by].effect = "succeeded" /\ req[body.by].fp = fp

StoredResult == row.status = "succeeded" => ResultOf(row.response, row.fingerprint)

Replayed ==
    \A r \in Requests : req[r].pc = "replayed" => ResultOf(req[r].replay, req[r].fp)

\* While no owner was slow, the row is the owner's, and nobody who found an expired
\* record can take it.
Owns(r) ==
    /\ row.id = req[r].id /\ row.status = "processing"
    /\ row.locked = LockedUntil(r) /\ row.expires = ExpiresAt(r) /\ now < ExpiresAt(r)
    /\ \A s \in Requests : req[s].pc = "reclaimExpired" => req[s].start < row.locked

OwnerHoldsRow ==
    ~slow => \A r \in Requests : req[r].pc \in Running => Owns(r)

Inv ==
    /\ TypeOK /\ IdsGrow /\ RequestsCoherent /\ SameFingerprint
    /\ StoredResult /\ Replayed
    /\ OwnerHoldsRow /\ OneExecutionAtATime

-----------------------------------------------------------------------------
(* Types, and the beginning. *)

LEMMA RowTypes ==
    ASSUME NEW id \in Nat, NEW fp \in Fingerprints, NEW locked \in Nat, NEW expires \in Nat
    PROVE  /\ NoRow \in Rows
           /\ [id |-> id, fingerprint |-> fp, status |-> "processing", response |-> None,
               locked |-> locked, expires |-> expires] \in Rows
    BY DEF NoRow, Rows, Statuses

LEMMA InitInv == Init => Inv
<1> SUFFICES ASSUME Init PROVE Inv
    OBVIOUS
<1>0. NoRow \in Rows
    BY DEF NoRow, Rows, Statuses
<1>1. \A f \in Fingerprints :
          [pc |-> "new", fp |-> f, start |-> 0, existing |-> NoRow, id |-> 0, replay |-> None,
           effect |-> "none", cut |-> FALSE] \in Request
    BY <1>0 DEF Request, Stopped
<1>2. TypeOK
    BY <1>0, <1>1 DEF Init, TypeOK
<1>3. \A r \in Requests : req[r].pc = "new" /\ req[r].start = 0 /\ req[r].existing = NoRow
                          /\ req[r].id = 0 /\ req[r].effect = "none"
    BY DEF Init
<1>4. IdsGrow /\ RequestsCoherent /\ SameFingerprint /\ StoredResult /\ Replayed
    BY <1>3 DEF Init, IdsGrow, RequestsCoherent, Coherent, SameFingerprint, Asked, StoredResult,
                Replayed, NoRow, Running, Calling
<1>5. OwnerHoldsRow /\ OneExecutionAtATime
    BY <1>3 DEF OwnerHoldsRow, OneExecutionAtATime, Running
<1>6. QED  BY <1>2, <1>4, <1>5 DEF Inv

\* What a step says of slowness.
SlowStep ==
    slow' = (slow \/ \E r \in Requests : Overdue(r)' \/ (Late(r)' /\ req[r].pc \in Calling))

LEMMA NotSlow ==
    ASSUME SlowStep, slow \in BOOLEAN
    PROVE  /\ slow' \in BOOLEAN
           /\ ~slow' => /\ ~slow
                        /\ \A r \in Requests : ~Overdue(r)'
                        /\ \A r \in Requests : req[r].pc \in Calling => ~Late(r)'
    BY DEF SlowStep

\* Only request r changes, and not in what it asks for.
Alone(r) ==
    /\ req' \in [Requests -> Request]
    /\ req'[r].fp = req[r].fp
    /\ req[r].effect = "succeeded" => req'[r].effect = "succeeded"
    /\ \A q \in Requests \ {r} : req'[q] = req[q]

LEMMA ResultsStay ==
    ASSUME TypeOK, NEW r \in Requests, Alone(r), NEW body, NEW fp, ResultOf(body, fp)
    PROVE  ResultOf(body, fp)'
<1>1. body.by \in Requests
    BY DEF ResultOf, Bodies
<1>2. QED  BY <1>1 DEF ResultOf, Alone

-----------------------------------------------------------------------------
(* A step of a request that leaves the row alone. *)

LEMMA Moves ==
    ASSUME Inv, SlowStep, UNCHANGED <<now, row, lastId>>, NEW r \in Requests, Alone(r),
           req'[r].id = req[r].id, Coherent(req'[r]),
           \/ req'[r].existing = req[r].existing
           \/ req'[r].existing = row /\ row.fingerprint = req[r].fp,
           req'[r].pc \in Running => req[r].pc \in Running /\ req'[r].start = req[r].start,
           req'[r].pc = "replayed" => ResultOf(req'[r].replay, req[r].fp),
           req'[r].pc = "reclaimExpired" => row.expires <= req'[r].start
    PROVE  Inv'
<1>0. /\ TypeOK /\ IdsGrow /\ RequestsCoherent /\ SameFingerprint /\ StoredResult /\ Replayed
      /\ OwnerHoldsRow /\ OneExecutionAtATime /\ slow \in BOOLEAN /\ now \in Nat
      /\ req' \in [Requests -> Request] /\ req'[r].fp = req[r].fp
      /\ \A q \in Requests \ {r} : req'[q] = req[q]
    BY DEF Inv, TypeOK, Alone
<1>1. TypeOK'
    BY <1>0, NotSlow DEF TypeOK
<1>2. IdsGrow'
    BY <1>0 DEF IdsGrow
<1>3. RequestsCoherent'
    BY <1>0 DEF RequestsCoherent, Coherent
<1>4. SameFingerprint'
    BY <1>0 DEF SameFingerprint, Asked
<1>5. StoredResult'
    BY <1>0, ResultsStay DEF StoredResult
<1>6. Replayed'
  <2>1. ASSUME NEW q \in Requests, req'[q].pc = "replayed"
        PROVE  ResultOf(req[q].replay, req[q].fp)'
    <3>1. CASE q = r
        BY <1>0, <2>1, <3>1, ResultsStay
    <3>2. CASE q # r
        BY <1>0, <2>1, <3>2, ResultsStay DEF Replayed
    <3>3. QED  BY <3>1, <3>2
  <2>2. QED  BY <2>1 DEF Replayed
<1>7. \A q \in Requests : req'[q].pc \in Running =>
          req[q].pc \in Running /\ req'[q].start = req[q].start /\ req'[q].id = req[q].id
    BY <1>0
<1>8. OneExecutionAtATime'
    BY <1>0, <1>7, NotSlow DEF OneExecutionAtATime
<1>9. OwnerHoldsRow'
  <2>1. ASSUME ~slow', NEW q \in Requests, req'[q].pc \in Running
        PROVE  Owns(q)'
    <3>1. Owns(q) /\ req'[q].start = req[q].start /\ req'[q].id = req[q].id
        BY <1>0, <1>7, <2>1, NotSlow DEF OwnerHoldsRow
    <3>2. ASSUME NEW s \in Requests, req'[s].pc = "reclaimExpired"
          PROVE  req'[s].start < row.locked
      <4>1. CASE s # r
          BY <1>0, <3>1, <3>2, <4>1 DEF Owns
      <4>2. CASE s = r
        <5>1. row.expires <= req'[r].start /\ req'[r].start <= now /\ now < row.expires
            BY <3>1, <3>2, <4>2 DEF Owns, Coherent
        <5>2. req'[r].start \in Nat /\ row.expires \in Nat
            BY <1>0 DEF TypeOK, Request, Rows
        <5>3. QED  BY <1>0, <5>1, <5>2
      <4>3. QED  BY <4>1, <4>2
    <3>3. QED  BY <3>1, <3>2 DEF Owns, LockedUntil, ExpiresAt
  <2>2. QED  BY <2>1 DEF OwnerHoldsRow
<1>10. QED  BY <1>1, <1>2, <1>3, <1>4, <1>5, <1>6, <1>8, <1>9 DEF Inv

\* The record of request r becomes q.
LEMMA BecomesAlone ==
    ASSUME TypeOK, NEW r \in Requests, NEW q \in Request, req' = [req EXCEPT ![r] = q],
           q.fp = req[r].fp,
           req[r].effect = "succeeded" => q.effect = "succeeded"
    PROVE  Alone(r) /\ req'[r] = q
    BY DEF TypeOK, Alone

Pcs == Running \cup Calling \cup Stopped

LEMMA GotoBecomes ==
    ASSUME TypeOK, NEW r \in Requests, NEW pc \in Pcs, Goto(r, pc)
    PROVE  /\ [req[r] EXCEPT !.pc = pc] \in Request
           /\ req' = [req EXCEPT ![r] = [req[r] EXCEPT !.pc = pc]]
    BY DEF TypeOK, Goto, Request, Pcs

\* The request goes to a place that asks nothing of it.
LEMMA GoesTo ==
    ASSUME Inv, SlowStep, UNCHANGED <<now, row, lastId>>, NEW r \in Requests,
           NEW pc \in {"getLatest", "inProgress", "retryBackoff", "unavailable", "keyConflict",
                       "failed", "crashed", "executed", "get"},
           pc \in {"get", "getLatest"} => req[r].effect = "none",
           Goto(r, pc)
    PROVE  Inv'
<1> DEFINE q == [req[r] EXCEPT !.pc = pc]
<1>0. TypeOK /\ req[r] \in Request /\ Coherent(req[r])
    BY DEF Inv, TypeOK, RequestsCoherent
<1>1. q \in Request /\ req' = [req EXCEPT ![r] = q]
    BY <1>0, GotoBecomes DEF Pcs, Calling, Stopped, Answers
<1>2. /\ q.pc = pc /\ q.fp = req[r].fp /\ q.effect = req[r].effect /\ q.id = req[r].id
      /\ q.start = req[r].start /\ q.existing = req[r].existing /\ q.replay = req[r].replay
    BY <1>0 DEF Request
<1> HIDE DEF q
<1>3. Alone(r) /\ req'[r] = q
    BY <1>0, <1>1, <1>2 DEF Alone, TypeOK
<1>4. Coherent(q) /\ pc \notin Running
    BY <1>0, <1>2 DEF Coherent, Running, Calling
<1>5. QED  BY <1>2, <1>3, <1>4, Moves

LEMMA DecideKeeps ==
    ASSUME Inv, SlowStep, UNCHANGED <<now, row, lastId>>, NEW r \in Requests,
           req[r].pc \in {"get", "getLatest"}, row.id # 0, row.fingerprint = req[r].fp,
           Decide(r, row)
    PROVE  Inv'
<1>0. /\ TypeOK /\ req[r] \in Request /\ row \in Rows /\ Coherent(req[r]) /\ StoredResult
      /\ row.status \in Statuses
    BY DEF Inv, TypeOK, RequestsCoherent, Rows
<1>1. CASE \E pc \in {"unavailable", "inProgress", "retryBackoff"} : Goto(r, pc)
    BY <1>1, GoesTo
<1>2. CASE row.status = "succeeded"
           /\ req' = [req EXCEPT ![r].pc = "replayed", ![r].replay = row.response]
  <2> DEFINE q == [req[r] EXCEPT !.pc = "replayed", !.replay = row.response]
  <2>1. row.response \in Bodies /\ ResultOf(row.response, req[r].fp)
      BY <1>0, <1>2 DEF StoredResult, ResultOf
  <2>2. q \in Request
      BY <1>0, <2>1 DEF Request, Stopped, Answers
  <2>3. req' = [req EXCEPT ![r] = q]
      BY <1>0, <1>2 DEF TypeOK
  <2>4. /\ q.pc = "replayed" /\ q.fp = req[r].fp /\ q.effect = req[r].effect
        /\ q.id = req[r].id /\ q.start = req[r].start /\ q.existing = req[r].existing
        /\ q.replay = row.response
      BY <1>0 DEF Request
  <2> HIDE DEF q
  <2>5. Alone(r) /\ req'[r] = q
      BY ZenonT(40), <1>0, <2>2, <2>3, <2>4, BecomesAlone
  <2>6. Coherent(q) /\ "replayed" \notin Running
      BY <1>0, <2>4 DEF Coherent, Running, Calling
  <2>7. QED  BY <2>1, <2>4, <2>5, <2>6, Moves
<1>3. CASE req' = [req EXCEPT ![r].pc = "reclaimFailed", ![r].existing = row]
  <2> DEFINE q == [req[r] EXCEPT !.pc = "reclaimFailed", !.existing = row]
  <2>1. q \in Request
      BY <1>0 DEF Request, Calling
  <2>2. req' = [req EXCEPT ![r] = q]
      BY <1>0, <1>3 DEF TypeOK
  <2>3. /\ q.pc = "reclaimFailed" /\ q.fp = req[r].fp /\ q.effect = req[r].effect
        /\ q.id = req[r].id /\ q.start = req[r].start /\ q.existing = row
      BY <1>0 DEF Request
  <2> HIDE DEF q
  <2>4. Alone(r) /\ req'[r] = q
      BY ZenonT(40), <1>0, <2>1, <2>2, <2>3, BecomesAlone
  <2>5. Coherent(q) /\ "reclaimFailed" \notin Running
      BY <1>0, <2>3 DEF Coherent, Running, Calling
  <2>6. QED  BY <2>3, <2>4, <2>5, Moves
<1>4. QED  BY <1>1, <1>2, <1>3 DEF Decide, StoreFails

LEMMA BeginKeeps == ASSUME Inv, SlowStep, NEW r \in Requests, Begin(r) PROVE Inv'
<1> DEFINE q == [req[r] EXCEPT !.pc = "create", !.start = now]
<1>0. /\ TypeOK /\ req[r] \in Request /\ now \in Nat /\ Coherent(req[r]) /\ req[r].pc = "new"
      /\ UNCHANGED <<now, row, lastId>>
    BY DEF Inv, TypeOK, RequestsCoherent, Begin
<1>1. q \in Request
    BY <1>0 DEF Request, Calling
<1>2. req' = [req EXCEPT ![r] = q]
    BY <1>0 DEF TypeOK, Begin
<1>3. /\ q.pc = "create" /\ q.fp = req[r].fp /\ q.effect = req[r].effect
      /\ q.id = req[r].id /\ q.start = now /\ q.existing = req[r].existing
    BY <1>0 DEF Request
<1> HIDE DEF q
<1>4. Alone(r) /\ req'[r] = q
    BY ZenonT(40), <1>0, <1>1, <1>2, <1>3, BecomesAlone
<1>5. Coherent(q) /\ "create" \notin Running
    BY <1>0, <1>3 DEF Coherent, Running, Calling
<1>6. QED  BY <1>0, <1>3, <1>4, <1>5, Moves

LEMMA GetExistingKeeps == ASSUME Inv, SlowStep, NEW r \in Requests, GetExisting(r) PROVE Inv'
<1>0. /\ TypeOK /\ req[r] \in Request /\ row \in Rows /\ Coherent(req[r]) /\ req[r].pc = "get"
      /\ UNCHANGED <<now, row, lastId>>
    BY DEF Inv, TypeOK, RequestsCoherent, GetExisting
<1>1. CASE \E pc \in {"unavailable", "keyConflict"} : Goto(r, pc)
    BY <1>0, <1>1, GoesTo
<1>2. CASE /\ row.id # 0 /\ row.fingerprint = req[r].fp /\ row.expires <= req[r].start
           /\ req' = [req EXCEPT ![r].pc = "reclaimExpired", ![r].existing = row]
  <2> DEFINE q == [req[r] EXCEPT !.pc = "reclaimExpired", !.existing = row]
  <2>1. q \in Request
      BY <1>0 DEF Request, Calling
  <2>2. req' = [req EXCEPT ![r] = q]
      BY <1>0, <1>2 DEF TypeOK
  <2>3. /\ q.pc = "reclaimExpired" /\ q.fp = req[r].fp /\ q.effect = req[r].effect
        /\ q.id = req[r].id /\ q.start = req[r].start /\ q.existing = row
      BY <1>0 DEF Request
  <2> HIDE DEF q
  <2>4. Alone(r) /\ req'[r] = q
      BY ZenonT(40), <1>0, <2>1, <2>2, <2>3, BecomesAlone
  <2>5. Coherent(q) /\ "reclaimExpired" \notin Running
      BY <1>0, <1>2, <2>3 DEF Coherent, Running, Calling
  <2>6. QED  BY <1>0, <1>2, <2>3, <2>4, <2>5, Moves
<1>3. CASE row.id # 0 /\ row.fingerprint = req[r].fp /\ Decide(r, row)
    BY <1>0, <1>3, DecideKeeps
<1>4. QED  BY <1>1, <1>2, <1>3 DEF GetExisting, StoreFails

LEMMA GetLatestKeeps == ASSUME Inv, SlowStep, NEW r \in Requests, GetLatest(r) PROVE Inv'
<1>0. req[r].pc = "getLatest" /\ UNCHANGED <<now, row, lastId>>
    BY DEF GetLatest
<1>1. CASE \E pc \in {"unavailable", "keyConflict"} : Goto(r, pc)
    BY <1>0, <1>1, GoesTo
<1>2. CASE row.id # 0 /\ row.fingerprint = req[r].fp /\ Decide(r, row)
    BY <1>0, <1>2, DecideKeeps
<1>3. QED  BY <1>1, <1>2 DEF GetLatest, StoreFails

LEMMA ExecuteKeeps == ASSUME Inv, SlowStep, NEW r \in Requests, Execute(r) PROVE Inv'
<1> DEFINE q == [req[r] EXCEPT !.pc = "executing", !.effect = "started"]
<1>0. /\ TypeOK /\ req[r] \in Request /\ Coherent(req[r]) /\ req[r].pc = "execute"
      /\ UNCHANGED <<now, row, lastId>>
    BY DEF Inv, TypeOK, RequestsCoherent, Execute
<1>1. q \in Request
    BY <1>0 DEF Request, Running
<1>2. req' = [req EXCEPT ![r] = q]
    BY <1>0 DEF TypeOK, Execute
<1>3. /\ q.pc = "executing" /\ q.fp = req[r].fp /\ q.effect = "started"
      /\ q.id = req[r].id /\ q.start = req[r].start /\ q.existing = req[r].existing
    BY <1>0 DEF Request
<1>4. Coherent(q) /\ req[r].pc \in Running /\ req[r].effect # "succeeded"
    BY <1>0, <1>3 DEF Coherent, Running, Calling
<1> HIDE DEF q
<1>5. Alone(r) /\ req'[r] = q
    BY <1>0, <1>1, <1>2, <1>3, <1>4, BecomesAlone
<1>6. QED  BY <1>0, <1>3, <1>4, <1>5, Moves

LEMMA ExecuteReturnsKeeps ==
    ASSUME Inv, SlowStep, NEW r \in Requests, ExecuteReturns(r)
    PROVE  Inv'
<1>0. /\ TypeOK /\ req[r] \in Request /\ Coherent(req[r]) /\ req[r].pc = "executing"
      /\ UNCHANGED <<now, row, lastId>>
    BY DEF Inv, TypeOK, RequestsCoherent, ExecuteReturns
<1>1. req[r].effect # "succeeded" /\ req[r].pc \in Running /\ req[r].id # 0
    BY <1>0 DEF Coherent, Running
<1>2. ASSUME NEW q \in Request, req' = [req EXCEPT ![r] = q],
             \/ q.pc = "markFailed" /\ q.effect = "failed"
             \/ q.pc = "markSucceeded" /\ q.effect = "succeeded",
             q.fp = req[r].fp, q.id = req[r].id, q.start = req[r].start,
             q.existing = req[r].existing
      PROVE  Inv'
  <2>1. Alone(r) /\ req'[r] = q
      BY <1>0, <1>1, <1>2, BecomesAlone
  <2>2. Coherent(q)
      BY <1>0, <1>1, <1>2 DEF Coherent, Running, Calling
  <2>3. QED  BY <1>0, <1>1, <1>2, <2>1, <2>2, Moves
<1>3. CASE req' = [req EXCEPT ![r].pc = "markFailed", ![r].effect = "failed"]
  <2> DEFINE q == [req[r] EXCEPT !.pc = "markFailed", !.effect = "failed"]
  <2>1. q \in Request
      BY <1>0 DEF Request, Running
  <2>2. req' = [req EXCEPT ![r] = q]
      BY <1>0, <1>3 DEF TypeOK
  <2>3. q.pc = "markFailed" /\ q.fp = req[r].fp /\ q.id = req[r].id /\ q.start = req[r].start
        /\ q.existing = req[r].existing /\ q.effect = "failed"
      BY <1>0 DEF Request
  <2>4. QED  BY <1>2, <2>1, <2>2, <2>3
<1>4. ASSUME NEW cut \in BOOLEAN,
             req' = [req EXCEPT ![r].pc = "markSucceeded", ![r].effect = "succeeded",
                                ![r].cut = cut]
      PROVE  Inv'
  <2> DEFINE q == [req[r] EXCEPT !.pc = "markSucceeded", !.effect = "succeeded", !.cut = cut]
  <2>1. q \in Request
      BY <1>0 DEF Request, Running
  <2>2. req' = [req EXCEPT ![r] = q]
      BY <1>0, <1>4 DEF TypeOK
  <2>3. q.pc = "markSucceeded" /\ q.fp = req[r].fp /\ q.id = req[r].id
        /\ q.start = req[r].start /\ q.existing = req[r].existing /\ q.effect = "succeeded"
      BY <1>0 DEF Request
  <2>4. QED  BY <1>2, <2>1, <2>2, <2>3
<1>5. QED  BY <1>3, <1>4 DEF ExecuteReturns

LEMMA CrashKeeps == ASSUME Inv, SlowStep, NEW r \in Requests, Crash(r) PROVE Inv'
    BY GoesTo DEF Crash

-----------------------------------------------------------------------------
(* The claims of the row. *)

NobodyRuns == ~slow => \A q \in Requests : req[q].pc \notin Running

\* r takes the row; its answer may be lost.
LEMMA Claims ==
    ASSUME Inv, SlowStep, NobodyRuns, UNCHANGED now, NEW r \in Requests,
           req[r].pc \in Calling, lastId' \in Nat, lastId <= lastId',
           row' \in Rows, row'.id # 0, row'.id <= lastId', row'.status = "processing",
           row'.fingerprint = req[r].fp,
           row'.locked = LockedUntil(r), row'.expires = ExpiresAt(r),
           (row'.id = row.id /\ row'.fingerprint = row.fingerprint) \/ row'.id = lastId + 1,
           NEW q \in Request, req' = [req EXCEPT ![r] = q],
           \/ q.pc = "execute" /\ q.id = row'.id
           \/ q.pc = "unavailable" /\ q.id = req[r].id,
           q.fp = req[r].fp, q.start = req[r].start, q.existing = req[r].existing,
           q.effect = req[r].effect
    PROVE  Inv'
<1>0. /\ TypeOK /\ IdsGrow /\ RequestsCoherent /\ SameFingerprint /\ Replayed
      /\ slow \in BOOLEAN /\ now \in Nat /\ lastId \in Nat /\ row.id \in Nat /\ row'.id \in Nat
      /\ \A s \in Requests : /\ req[s].id \in Nat /\ req[s].existing.id \in Nat
                             /\ req[s].start \in Nat
    BY DEF Inv, TypeOK, Request, Rows
<1>1. Alone(r) /\ req'[r] = q /\ \A s \in Requests \ {r} : req'[s] = req[s]
    BY <1>0, BecomesAlone DEF Alone
<1>2. TypeOK'
    BY <1>0, <1>1, NotSlow DEF TypeOK, Alone
<1>3. IdsGrow'
    BY <1>0, <1>1 DEF IdsGrow
<1>4. RequestsCoherent'
  <2>1. Coherent(req[r])'
      BY <1>0, <1>1 DEF RequestsCoherent, Coherent, Running, Calling
  <2>2. QED  BY <1>0, <1>1, <2>1 DEF RequestsCoherent, Coherent
<1>5. SameFingerprint'
  <2>1. ASSUME NEW id \in Nat, NEW fp, Asked(id, fp), id <= lastId
        PROVE  id # 0 /\ id = row'.id => row'.fingerprint = fp
      BY <1>0, <2>1 DEF Asked
  <2>2. ASSUME NEW s \in Requests
        PROVE  /\ req'[s].id # 0 /\ req'[s].id = row'.id => row'.fingerprint = req'[s].fp
               /\ req'[s].existing.id # 0 /\ req'[s].existing.id = row'.id
                      => row'.fingerprint = req'[s].fp
    <3>1. Asked(req[s].id, req[s].fp) /\ Asked(req[s].existing.id, req[s].fp)
          /\ req[s].id <= lastId /\ req[s].existing.id <= lastId
        BY <1>0 DEF SameFingerprint, IdsGrow
    <3>2. QED  BY <1>0, <1>1, <2>1, <3>1
  <2>3. QED  BY <2>2 DEF SameFingerprint, Asked
<1>6. StoredResult'
    BY DEF StoredResult
<1>7. Replayed'
  <2>1. ASSUME NEW s \in Requests, req'[s].pc = "replayed"
        PROVE  ResultOf(req[s].replay, req[s].fp)'
    <3>1. s # r /\ req'[s] = req[s]
        BY <1>1, <2>1
    <3>2. QED  BY <1>0, <1>1, <2>1, <3>1, ResultsStay DEF Replayed
  <2>2. QED  BY <2>1 DEF Replayed
<1>8. ASSUME ~slow'
      PROVE  /\ \A s \in Requests : req'[s].pc \in Running => s = r
             /\ req'[r].pc \in Running => Owns(r)'
  <2>1. \A s \in Requests : req'[s].pc \in Running => s = r
      BY <1>0, <1>1, <1>8, NotSlow DEF NobodyRuns
  <2>2. ASSUME req'[r].pc \in Running PROVE Owns(r)'
    <3>1. req'[r].pc = "execute" /\ req'[r].id = row'.id
        BY <1>1, <2>2 DEF Running
    <3>2. ~Late(r)' /\ ~Overdue(r)'
        BY <1>0, <1>8, NotSlow
    <3>3. LockedUntil(r) \in Nat /\ ExpiresAt(r) \in Nat
        BY <1>0, TimesAssumption DEF LockedUntil, ExpiresAt
    <3>4. now < LockedUntil(r) /\ now < ExpiresAt(r)
        BY <1>0, <1>1, <2>2, <3>1, <3>2, <3>3 DEF Late, Overdue, LockedUntil, ExpiresAt
    <3>5. \A s \in Requests : req'[s].start <= now
        BY <1>0, <1>1 DEF RequestsCoherent, Coherent
    <3>6. \A s \in Requests : req'[s].start < LockedUntil(r)
        BY <1>0, <1>1, <3>3, <3>4, <3>5
    <3>7. QED  BY <1>1, <3>1, <3>4, <3>6 DEF Owns, LockedUntil, ExpiresAt
  <2>3. QED  BY <2>1, <2>2
<1>9. OwnerHoldsRow' /\ OneExecutionAtATime'
    BY <1>8 DEF OwnerHoldsRow, OneExecutionAtATime
<1>10. QED  BY <1>2, <1>3, <1>4, <1>5, <1>6, <1>7, <1>9 DEF Inv

LEMMA TimeTypes ==
    ASSUME TypeOK, NEW r \in Requests
    PROVE  LockedUntil(r) \in Nat /\ ExpiresAt(r) \in Nat
<1>1. req[r].start \in Nat
    BY DEF TypeOK, Request
<1>2. QED  BY <1>1, TimesAssumption DEF LockedUntil, ExpiresAt

\* The request after its claim.
LEMMA ClaimRecords ==
    ASSUME TypeOK, NEW r \in Requests, NEW id \in Nat,
           \/ req' = [req EXCEPT ![r].pc = "execute", ![r].id = id]
           \/ StoreFails(r)
    PROVE  \E q \in Request :
               /\ req' = [req EXCEPT ![r] = q]
               /\ \/ q.pc = "execute" /\ q.id = id
                  \/ q.pc = "unavailable" /\ q.id = req[r].id
               /\ q.fp = req[r].fp /\ q.start = req[r].start /\ q.existing = req[r].existing
               /\ q.effect = req[r].effect
<1>0. req[r] \in Request /\ req \in [Requests -> Request]
    BY DEF TypeOK
<1>1. CASE req' = [req EXCEPT ![r].pc = "execute", ![r].id = id]
  <2> DEFINE q == [req[r] EXCEPT !.pc = "execute", !.id = id]
  <2>1. q \in Request
      BY <1>0 DEF Request, Running
  <2>2. req' = [req EXCEPT ![r] = q]
      BY <1>0, <1>1
  <2>3. q.pc = "execute" /\ q.id = id /\ q.fp = req[r].fp /\ q.start = req[r].start
        /\ q.existing = req[r].existing /\ q.effect = req[r].effect
      BY <1>0 DEF Request
  <2> HIDE DEF q
  <2>4. QED  BY <2>1, <2>2, <2>3
<1>2. CASE StoreFails(r)
  <2> DEFINE q == [req[r] EXCEPT !.pc = "unavailable"]
  <2>1. q \in Request
      BY <1>0 DEF Request, Stopped, Answers
  <2>2. req' = [req EXCEPT ![r] = q]
      BY <1>0, <1>2 DEF StoreFails, Goto
  <2>3. q.pc = "unavailable" /\ q.id = req[r].id /\ q.fp = req[r].fp /\ q.start = req[r].start
        /\ q.existing = req[r].existing /\ q.effect = req[r].effect
      BY <1>0 DEF Request
  <2> HIDE DEF q
  <2>4. QED  BY <2>1, <2>2, <2>3
<1>3. QED  BY <1>1, <1>2

LEMMA CreateKeeps == ASSUME Inv, SlowStep, NEW r \in Requests, Create(r) PROVE Inv'
<1>0. /\ TypeOK /\ req[r] \in Request /\ row \in Rows /\ Coherent(req[r])
      /\ req[r].pc = "create" /\ now' = now /\ lastId \in Nat
      /\ LockedUntil(r) \in Nat /\ ExpiresAt(r) \in Nat /\ req[r].fp \in Fingerprints
    BY TimeTypes DEF Inv, TypeOK, RequestsCoherent, Create, Request
<1>1. CASE /\ row.id = 0 /\ lastId' = lastId + 1
           /\ row' = CreateProcessing(row, lastId + 1, req[r].fp, LockedUntil(r), ExpiresAt(r))
           /\ \/ req' = [req EXCEPT ![r].pc = "execute", ![r].id = lastId + 1]
              \/ StoreFails(r)
  <2>1. row' = [id |-> lastId + 1, fingerprint |-> req[r].fp, status |-> "processing",
                response |-> None, locked |-> LockedUntil(r), expires |-> ExpiresAt(r)]
      BY <1>1 DEF CreateProcessing
  <2>2. row' \in Rows
      BY <1>0, <2>1 DEF Rows, Statuses
  <2>3. NobodyRuns
      BY <1>1 DEF NobodyRuns, Inv, OwnerHoldsRow, Owns, RequestsCoherent, Coherent
  <2>4. PICK q \in Request :
            /\ req' = [req EXCEPT ![r] = q]
            /\ \/ q.pc = "execute" /\ q.id = lastId + 1
               \/ q.pc = "unavailable" /\ q.id = req[r].id
            /\ q.fp = req[r].fp /\ q.start = req[r].start /\ q.existing = req[r].existing
            /\ q.effect = req[r].effect
      BY <1>0, <1>1, ClaimRecords
  <2>5. /\ row'.id = lastId + 1 /\ row'.fingerprint = req[r].fp /\ row'.status = "processing"
        /\ row'.locked = LockedUntil(r) /\ row'.expires = ExpiresAt(r)
      BY <2>1
  <2>6. req[r].pc \in Calling
      BY <1>0 DEF Calling
  <2>7. lastId' \in Nat /\ lastId <= lastId' /\ row'.id # 0 /\ row'.id <= lastId'
      BY <1>0, <1>1, <2>5
  <2>8. QED  BY <1>0, <2>2, <2>3, <2>4, <2>5, <2>6, <2>7, Claims
<1>2. CASE UNCHANGED <<row, lastId>> /\ \E pc \in {"get", "unavailable"} : Goto(r, pc)
  <2>1. req[r].effect = "none"
      BY <1>0 DEF Coherent, Calling
  <2>2. QED  BY <1>0, <1>2, <2>1, GoesTo
<1>3. QED  BY <1>1, <1>2 DEF Create, StoreFails, CreateProcessing

LEMMA ReclaimKeeps ==
    ASSUME Inv, SlowStep, NEW r \in Requests, NEW from \in Statuses,
           NEW lost \in {"getLatest", "inProgress"},
           \/ req[r].pc = "reclaimExpired"
           \/ req[r].pc = "reclaimFailed" /\ from = "failed_retryable",
           Reclaim(r, from, lost)
    PROVE  Inv'
<1>0. /\ TypeOK /\ req[r] \in Request /\ row \in Rows /\ Coherent(req[r])
      /\ UNCHANGED <<now, lastId>> /\ lastId \in Nat /\ row.id \in Nat /\ row.locked \in Nat
      /\ LockedUntil(r) \in Nat /\ ExpiresAt(r) \in Nat /\ req[r].start \in Nat
      /\ IdsGrow /\ SameFingerprint /\ OwnerHoldsRow
    BY TimeTypes DEF Inv, TypeOK, RequestsCoherent, Reclaim, Request, Rows
<1>1. req[r].pc \in Calling /\ req[r].effect = "none" /\ req[r].existing.id # 0
    BY <1>0 DEF Coherent, Calling
<1> DEFINE id == req[r].existing.id
<1>2. CASE /\ Reclaimable(row, id, from, req[r].start)
           /\ row' = TryReclaim(row, id, from, req[r].start, LockedUntil(r), ExpiresAt(r))
           /\ \/ req' = [req EXCEPT ![r].pc = "execute", ![r].id = id]
              \/ StoreFails(r)
  <2>1. row.id = id /\ row.status = from /\ row.locked <= req[r].start
      BY <1>2 DEF Reclaimable
  <2>2. row' = [row EXCEPT !.status = "processing", !.locked = LockedUntil(r),
                           !.expires = ExpiresAt(r)]
      BY <1>2 DEF TryReclaim
  <2>3. /\ row' \in Rows /\ row'.id = row.id /\ row'.fingerprint = row.fingerprint
        /\ row'.status = "processing" /\ row'.locked = LockedUntil(r)
        /\ row'.expires = ExpiresAt(r)
      BY <1>0, <2>2 DEF Rows, Statuses
  <2>4. row.fingerprint = req[r].fp
      BY <1>0, <1>1, <2>1 DEF SameFingerprint, Asked
  <2>5. NobodyRuns
    <3>1. ASSUME ~slow, NEW s \in Requests, req[s].pc \in Running PROVE FALSE
      <4>1. Owns(s)
          BY <1>0, <3>1 DEF OwnerHoldsRow
      <4>2. QED  BY <1>0, <2>1, <4>1 DEF Owns
    <3>2. QED  BY <3>1 DEF NobodyRuns
  <2>6. PICK q \in Request :
            /\ req' = [req EXCEPT ![r] = q]
            /\ \/ q.pc = "execute" /\ q.id = row.id
               \/ q.pc = "unavailable" /\ q.id = req[r].id
            /\ q.fp = req[r].fp /\ q.start = req[r].start /\ q.existing = req[r].existing
            /\ q.effect = req[r].effect
      BY <1>0, <1>2, <2>1, ClaimRecords
  <2>7. lastId' \in Nat /\ lastId <= lastId' /\ row'.id # 0 /\ row'.id <= lastId'
      BY <1>0, <1>1, <2>1, <2>3 DEF IdsGrow
  <2>8. QED  BY <1>0, <1>1, <2>3, <2>4, <2>5, <2>6, <2>7, Claims
<1>3. CASE UNCHANGED row /\ \E pc \in {"getLatest", "inProgress", "unavailable"} : Goto(r, pc)
    BY <1>0, <1>1, <1>3, GoesTo
<1>4. CASE /\ ~Reclaimable(row, id, from, req[r].start)
           /\ row' = TryReclaim(row, id, from, req[r].start, LockedUntil(r), ExpiresAt(r))
           /\ Goto(r, lost)
  <2>1. UNCHANGED row
      BY <1>4 DEF TryReclaim
  <2>2. QED  BY <1>3, <1>4, <2>1
<1>5. QED  BY <1>2, <1>3, <1>4 DEF Reclaim, StoreFails

-----------------------------------------------------------------------------
(* The marks, the cleanup and the clock. *)

\* The owner writes its result and is done.
LEMMA Marks ==
    ASSUME Inv, SlowStep, UNCHANGED <<now, lastId>>, NEW r \in Requests,
           req[r].pc \in {"markSucceeded", "markFailed"},
           row' \in Rows, row'.id = row.id, row'.fingerprint = row.fingerprint,
           row'.status = "succeeded" => ResultOf(row'.response, row.fingerprint),
           NEW pc \in {"executed", "unavailable", "failed"}, Goto(r, pc)
    PROVE  Inv'
<1> DEFINE q == [req[r] EXCEPT !.pc = pc]
<1>0. /\ TypeOK /\ IdsGrow /\ RequestsCoherent /\ SameFingerprint /\ Replayed
      /\ OneExecutionAtATime /\ slow \in BOOLEAN /\ req[r] \in Request /\ Coherent(req[r])
    BY DEF Inv, TypeOK, RequestsCoherent
<1>1. q \in Request /\ req' = [req EXCEPT ![r] = q]
    BY <1>0, GotoBecomes DEF Pcs, Stopped, Answers
<1>2. /\ q.pc = pc /\ q.fp = req[r].fp /\ q.effect = req[r].effect /\ q.id = req[r].id
      /\ q.start = req[r].start /\ q.existing = req[r].existing /\ q.replay = req[r].replay
    BY <1>0 DEF Request
<1> HIDE DEF q
<1>3. Alone(r) /\ req'[r] = q /\ \A s \in Requests \ {r} : req'[s] = req[s]
    BY <1>0, <1>1, <1>2, BecomesAlone DEF Alone
<1>4. TypeOK'
    BY <1>0, <1>3, NotSlow DEF TypeOK, Alone
<1>5. IdsGrow' /\ SameFingerprint'
    BY <1>0, <1>2, <1>3 DEF IdsGrow, SameFingerprint, Asked
<1>6. RequestsCoherent'
    BY <1>0, <1>2, <1>3 DEF RequestsCoherent, Coherent, Running, Calling
<1>7. StoredResult'
    BY <1>0, <1>3, ResultsStay DEF StoredResult
<1>8. Replayed'
  <2>1. ASSUME NEW s \in Requests, req'[s].pc = "replayed"
        PROVE  ResultOf(req[s].replay, req[s].fp)'
    <3>1. s # r /\ req'[s] = req[s]
        BY <1>2, <1>3, <2>1
    <3>2. QED  BY <1>0, <1>3, <2>1, <3>1, ResultsStay DEF Replayed
  <2>2. QED  BY <2>1 DEF Replayed
<1>9. ~slow' => \A s \in Requests : req'[s].pc \notin Running
    BY <1>0, <1>2, <1>3, NotSlow DEF OneExecutionAtATime, Running
<1>10. OwnerHoldsRow' /\ OneExecutionAtATime'
    BY <1>9 DEF OwnerHoldsRow, OneExecutionAtATime
<1>11. QED  BY <1>4, <1>5, <1>6, <1>7, <1>8, <1>10 DEF Inv

LEMMA MarkFailedKeeps == ASSUME Inv, SlowStep, NEW r \in Requests, MarkFailed(r) PROVE Inv'
<1>0. /\ TypeOK /\ req[r] \in Request /\ row \in Rows /\ now \in Nat /\ ExpiresAt(r) \in Nat
      /\ req[r].pc = "markFailed" /\ Goto(r, "failed") /\ UNCHANGED <<now, lastId>>
    BY TimeTypes DEF Inv, TypeOK, MarkFailed
<1>1. CASE UNCHANGED row
    BY <1>0, <1>1, GoesTo
<1>2. CASE row' = [row EXCEPT !.status = "failed_retryable",
                              !.locked = now + FailedRetryBackoff, !.expires = ExpiresAt(r)]
  <2>1. now + FailedRetryBackoff \in Nat
      BY <1>0, TimesAssumption
  <2>2. /\ row' \in Rows /\ row'.id = row.id /\ row'.fingerprint = row.fingerprint
        /\ row'.status = "failed_retryable"
      BY <1>0, <1>2, <2>1 DEF Rows, Statuses
  <2>3. QED  BY <1>0, <2>2, Marks
<1>3. QED  BY <1>1, <1>2 DEF MarkFailed, MarkFailedRetryable

LEMMA MarkDoneKeeps == ASSUME Inv, SlowStep, NEW r \in Requests, MarkDone(r) PROVE Inv'
<1>0. /\ TypeOK /\ req[r] \in Request /\ row \in Rows /\ ExpiresAt(r) \in Nat
      /\ req[r].pc = "markSucceeded" /\ Coherent(req[r]) /\ UNCHANGED <<now, lastId>>
      /\ SameFingerprint
    BY TimeTypes DEF Inv, TypeOK, RequestsCoherent, MarkDone
<1>1. PICK pc \in {"executed", "unavailable"} : Goto(r, pc)
    BY DEF MarkDone, StoreFails
<1>2. CASE UNCHANGED row
    BY <1>0, <1>1, <1>2, GoesTo
<1> DEFINE body == [by |-> r, cut |-> req[r].cut]
<1>3. CASE /\ row.id = req[r].id
           /\ row' = [row EXCEPT !.status = "succeeded", !.response = body, !.locked = 0,
                                 !.expires = ExpiresAt(r)]
  <2>1. body \in Bodies
      BY <1>0 DEF Bodies, Request
  <2>2. /\ row' \in Rows /\ row'.id = row.id /\ row'.fingerprint = row.fingerprint
        /\ row'.response = body
      BY <1>0, <1>3, <2>1 DEF Rows, Statuses
  <2>3. row.fingerprint = req[r].fp /\ req[r].effect = "succeeded"
      BY <1>0, <1>3 DEF Coherent, Running, SameFingerprint, Asked
  <2>4. ResultOf(body, row.fingerprint)
      BY <2>1, <2>3 DEF ResultOf
  <2>5. QED  BY <1>0, <1>1, <2>2, <2>4, Marks
<1>4. QED  BY <1>2, <1>3 DEF MarkDone, MarkSucceeded

LEMMA CleanupKeeps == ASSUME Inv, SlowStep, Cleanup PROVE Inv'
<1>0. /\ TypeOK /\ IdsGrow /\ RequestsCoherent /\ SameFingerprint /\ StoredResult /\ Replayed
      /\ OwnerHoldsRow /\ OneExecutionAtATime /\ slow \in BOOLEAN
      /\ UNCHANGED <<now, lastId, req>> /\ row \in Rows /\ NoRow \in Rows /\ lastId \in Nat
      /\ row' = IF row.expires <= now THEN NoRow ELSE row
    BY DEF Inv, TypeOK, Cleanup, DeleteExpired, NoRow, Rows, Statuses
<1>1. TypeOK'
    BY <1>0, NotSlow DEF TypeOK
<1>2. IdsGrow' /\ RequestsCoherent' /\ SameFingerprint'
    BY <1>0 DEF IdsGrow, RequestsCoherent, Coherent, SameFingerprint, Asked, NoRow
<1>3. StoredResult' /\ Replayed'
    BY <1>0 DEF StoredResult, Replayed, ResultOf, NoRow
<1>4. OwnerHoldsRow'
  <2>1. ASSUME ~slow', NEW r \in Requests, req[r].pc \in Running
        PROVE  Owns(r)'
    <3>1. Owns(r)
        BY <1>0, <2>1, NotSlow DEF OwnerHoldsRow
    <3>2. row' = row
      <4>1. row.expires \in Nat /\ now \in Nat
          BY <1>0 DEF TypeOK, Rows
      <4>2. QED  BY <1>0, <3>1, <4>1 DEF Owns
    <3>3. QED  BY <1>0, <3>1, <3>2 DEF Owns, LockedUntil, ExpiresAt
  <2>2. QED  BY <1>0, <2>1 DEF OwnerHoldsRow
<1>5. OneExecutionAtATime'
    BY <1>0, NotSlow DEF OneExecutionAtATime
<1>6. QED  BY <1>1, <1>2, <1>3, <1>4, <1>5 DEF Inv

LEMMA TickKeeps == ASSUME Inv, SlowStep, Tick PROVE Inv'
<1>0. /\ TypeOK /\ IdsGrow /\ RequestsCoherent /\ SameFingerprint /\ StoredResult /\ Replayed
      /\ OwnerHoldsRow /\ OneExecutionAtATime /\ slow \in BOOLEAN
      /\ UNCHANGED <<row, lastId, req>> /\ now \in Nat /\ now' = now + 1
      /\ \A r \in Requests : req[r].start \in Nat
    BY DEF Inv, TypeOK, Tick, Request
<1>1. TypeOK'
    BY <1>0, NotSlow DEF TypeOK
<1>2. RequestsCoherent'
  <2>1. \A r \in Requests : Coherent(req[r]) => Coherent(req[r])'
      BY <1>0 DEF Coherent
  <2>2. QED  BY <1>0, <2>1 DEF RequestsCoherent
<1>3. IdsGrow' /\ SameFingerprint' /\ StoredResult' /\ Replayed'
    BY <1>0 DEF IdsGrow, SameFingerprint, Asked, StoredResult, Replayed, ResultOf
<1>4. OwnerHoldsRow'
  <2>1. ASSUME ~slow', NEW r \in Requests, req[r].pc \in Running
        PROVE  Owns(r)'
    <3>1. Owns(r) /\ ~Overdue(r)'
        BY <1>0, <2>1, NotSlow DEF OwnerHoldsRow
    <3>2. now' < ExpiresAt(r)'
      <4>1. ExpiresAt(r)' \in Nat /\ now' \in Nat
          BY <1>0, TimesAssumption DEF ExpiresAt
      <4>2. QED  BY <1>0, <2>1, <3>1, <4>1 DEF Overdue
    <3>3. QED  BY <1>0, <3>1, <3>2 DEF Owns, LockedUntil, ExpiresAt
  <2>2. QED  BY <1>0, <2>1 DEF OwnerHoldsRow
<1>5. OneExecutionAtATime'
    BY <1>0, NotSlow DEF OneExecutionAtATime
<1>6. QED  BY <1>1, <1>2, <1>3, <1>4, <1>5 DEF Inv

-----------------------------------------------------------------------------
(* The results. *)

LEMMA StepKeeps ==
    ASSUME Inv, SlowStep, Cleanup \/ Tick \/ \E r \in Requests : RequestStep(r)
    PROVE  Inv'
<1>1. ASSUME NEW r \in Requests, ReclaimExpired(r) PROVE Inv'
  <2>1. req[r].existing.status \in Statuses
      BY DEF Inv, TypeOK, Request, Rows
  <2>2. QED  BY <1>1, <2>1, ReclaimKeeps DEF ReclaimExpired
<1>2. ASSUME NEW r \in Requests, ReclaimFailed(r) PROVE Inv'
    BY <1>2, ReclaimKeeps DEF ReclaimFailed, Statuses
<1>3. QED
    BY <1>1, <1>2, BeginKeeps, CreateKeeps, GetExistingKeeps, GetLatestKeeps, ExecuteKeeps,
       ExecuteReturnsKeeps, MarkFailedKeeps, MarkDoneKeeps, CrashKeeps, CleanupKeeps, TickKeeps
       DEF RequestStep

LEMMA InvIsInductive == Spec => []Inv
<1>1. Init => Inv
    BY InitInv
<1>2. ASSUME Inv, [Next]_vars PROVE Inv'
  <2>1. CASE Next
      BY <1>2, <2>1, StepKeeps DEF Next, SlowStep
  <2>2. CASE UNCHANGED vars
    <3>1. UNCHANGED <<now, row, lastId, req, slow>>
        BY <2>2 DEF vars
    <3>2. QED
        BY <1>2, <3>1 DEF Inv, TypeOK, IdsGrow, RequestsCoherent, Coherent, SameFingerprint,
           Asked, StoredResult, Replayed, ResultOf, OwnerHoldsRow, Owns, LockedUntil, ExpiresAt,
           OneExecutionAtATime
  <2>3. QED  BY <1>2, <2>1, <2>2
<1>3. QED  BY <1>1, <1>2, PTL DEF Spec

(* The executor of a key runs in one request at a time for as long as every*)
(* owner claims within ProcessingTimeout and ends before its record        *)
(* expires: whoever read the expired record began before the owner's lock  *)
(* ends, so that TryReclaim refuses it.                                    *)
THEOREM ExecutesAlone == Spec => []OneExecutionAtATime
<1>1. Inv => OneExecutionAtATime
    BY DEF Inv
<1>2. QED  BY <1>1, InvIsInductive, PTL

(* Slow or not, a replayed answer is the stored result of a request that   *)
(* asked for the same and whose executor succeeded: an id of a row has one *)
(* fingerprint, and only those who asked for it learn the id.              *)
THEOREM ReplaysOwnResult == Spec => []ReplayedFromSameRequest
<1>1. Inv => ReplayedFromSameRequest
    BY DEF Inv, Replayed, ResultOf, ReplayedFromSameRequest
<1>2. QED  BY <1>1, InvIsInductive, PTL

-----------------------------------------------------------------------------
(* The record of a run guards its effect until it expires or is taken over.*)

Ran(r) == req[r].effect \in {"started", "succeeded"} /\ now < ExpiresAt(r)

Guarded(r) ==
    /\ row.id = req[r].id /\ row.expires = ExpiresAt(r)
    /\ \/ row.status = "processing" /\ row.locked = LockedUntil(r)
       \/ row.status = "succeeded"
    /\ \A s \in Requests \ {r} : req[s].pc \notin Running
    /\ \A s \in Requests : req[s].pc = "reclaimExpired" => req[s].start < LockedUntil(r)

EffectIsGuarded ==
    ~slow => \A r \in Requests : Ran(r) => Guarded(r) \/ TakenOver(r)

\* What r knows does not change when another request moves.
SameRecord(r) ==
    /\ req'[r].id = req[r].id /\ req'[r].start = req[r].start

\* A request that took a record over has done so for good.
LEMMA TakenOverStays ==
    ASSUME Inv, NEW r \in Requests, SameRecord(r), TakenOver(r),
           NEW s \in Requests, \A q \in Requests \ {s} : req'[q] = req[q],
           \/ req'[s] = req[s]
           \/ /\ req[s].pc \in Running => /\ req'[s].existing = req[s].existing
                                          /\ req'[s].pc \in Running \cup {"executed", "failed",
                                                                    "crashed", "unavailable"}
              /\ req[s].pc \notin {"executed", "failed", "crashed", "unavailable"}
    PROVE  TakenOver(r)'
    BY DEF TakenOver, SameRecord

\* The steps of a request that leave the row alone.
MovesOn(s) ==
    /\ UNCHANGED <<now, row, lastId>>
    /\ \A q \in Requests \ {s} : req'[q] = req[q]
    /\ req'[s].id = req[s].id
    /\ req'[s].start = req[s].start \/ req[s].pc = "new"
    /\ req[s].pc \in Running => /\ req'[s].existing = req[s].existing
                                /\ req'[s].pc \in Running \cup {"executed", "failed",
                                                          "crashed", "unavailable"}
    /\ req[s].pc \notin {"executed", "failed", "crashed", "unavailable"}
    /\ req'[s].pc \in Running => req[s].pc \in Running
    /\ req'[s].effect = "none" => req[s].effect = "none"
    /\ req'[s].effect = "started" => req[s].pc \in Running
    /\ req'[s].effect = "succeeded" => req[s].effect = "succeeded" \/ req[s].pc \in Running
    /\ req'[s].pc = "reclaimExpired" => row.expires <= req'[s].start

LEMMA MovesOnGuarded ==
    ASSUME Inv, Inv', SlowStep, EffectIsGuarded, NEW s \in Requests, MovesOn(s)
    PROVE  EffectIsGuarded'
<1> SUFFICES ASSUME ~slow', NEW r \in Requests, Ran(r)'
             PROVE  Guarded(r)' \/ TakenOver(r)'
    BY DEF EffectIsGuarded
<1>0. /\ ~slow /\ TypeOK /\ RequestsCoherent /\ OneExecutionAtATime /\ OwnerHoldsRow
      /\ RequestsCoherent' /\ now \in Nat /\ row.expires \in Nat
      /\ \A q \in Requests : req'[q].start \in Nat /\ req'[q].start <= now
    BY NotSlow DEF Inv, TypeOK, Request, Rows, MovesOn, RequestsCoherent, Coherent
<1>1. SameRecord(r)
    BY <1>0 DEF MovesOn, SameRecord, RequestsCoherent, Coherent, Ran, Running
<1>2. now < ExpiresAt(r) /\ ExpiresAt(r)' = ExpiresAt(r) /\ LockedUntil(r)' = LockedUntil(r)
    BY <1>1 DEF Ran, MovesOn, SameRecord, ExpiresAt, LockedUntil
<1>3. Guarded(r) \/ TakenOver(r)
  <2>1. CASE Ran(r)
      BY <1>0, <2>1 DEF EffectIsGuarded
  <2>2. CASE ~Ran(r)
    <3>1. r = s /\ req[r].pc \in Running
        BY <1>2, <2>2 DEF Ran, MovesOn
    <3>2. Owns(r) /\ \A q \in Requests \ {r} : req[q].pc \notin Running
        BY <1>0, <3>1 DEF OwnerHoldsRow, OneExecutionAtATime
    <3>3. QED  BY <3>2 DEF Guarded, Owns
  <2>3. QED  BY <2>1, <2>2
<1>4. CASE Guarded(r)
  <2>1. \A q \in Requests \ {r} : req'[q].pc \notin Running
      BY <1>4 DEF Guarded, MovesOn
  <2>2. ASSUME NEW q \in Requests, req'[q].pc = "reclaimExpired"
        PROVE  req'[q].start < LockedUntil(r)
    <3>1. CASE q # s
        BY <1>4, <2>2, <3>1 DEF Guarded, MovesOn
    <3>2. CASE q = s
        BY <1>0, <1>2, <1>4, <2>2, <3>2 DEF Guarded, MovesOn
    <3>3. QED  BY <3>1, <3>2
  <2>3. QED  BY <1>1, <1>2, <1>4, <2>1, <2>2 DEF Guarded, MovesOn, SameRecord
<1>5. CASE TakenOver(r)
    BY <1>1, <1>5, TakenOverStays DEF MovesOn
<1>6. QED  BY <1>3, <1>4, <1>5

\* The row is marked by s, or left alone.
LEMMA MarkGuarded ==
    ASSUME Inv, Inv', SlowStep, EffectIsGuarded, NEW s \in Requests,
           MarkFailed(s) \/ MarkDone(s)
    PROVE  EffectIsGuarded'
<1> SUFFICES ASSUME ~slow', NEW r \in Requests, Ran(r)'
             PROVE  Guarded(r)' \/ TakenOver(r)'
    BY DEF EffectIsGuarded
<1>0. /\ ~slow /\ TypeOK /\ Coherent(req[s]) /\ OneExecutionAtATime /\ OwnerHoldsRow
      /\ UNCHANGED <<now, lastId>> /\ req \in [Requests -> Request] /\ row \in Rows
      /\ req[s].pc \in {"markSucceeded", "markFailed"} /\ req[s].pc \in Running
    BY NotSlow DEF Inv, TypeOK, RequestsCoherent, MarkFailed, MarkDone, Running
<1>1. /\ \A q \in Requests \ {s} : req'[q] = req[q]
      /\ req'[s].pc \in {"failed", "executed", "unavailable"}
      /\ req'[s].existing = req[s].existing /\ req'[s].id = req[s].id
      /\ req'[s].start = req[s].start /\ req'[s].effect = req[s].effect
    BY <1>0 DEF MarkFailed, MarkDone, StoreFails, Goto, Request
<1>2. SameRecord(r) /\ ExpiresAt(r)' = ExpiresAt(r) /\ LockedUntil(r)' = LockedUntil(r) /\ Ran(r)
    BY <1>0, <1>1 DEF SameRecord, ExpiresAt, LockedUntil, Ran
<1>3. CASE TakenOver(r)
  <2>1. req[s].pc \notin {"executed", "failed", "crashed", "unavailable"}
      BY <1>0
  <2>2. TakenOver(r)'
      BY <1>0, <1>1, <1>2, <1>3, <2>1, TakenOverStays
  <2>3. QED  BY <2>2
<1>4. CASE Guarded(r)
  <2>1. r = s
      BY <1>0, <1>4 DEF Guarded
  <2>2. req[s].pc = "markSucceeded" /\ MarkDone(s)
      BY <1>0, <1>2, <2>1 DEF Ran, Coherent, MarkDone, MarkFailed
  <2>3. /\ row'.id = row.id /\ row'.expires = ExpiresAt(s)
        /\ \/ row'.status = "succeeded"
           \/ row'.status = row.status /\ row'.locked = row.locked
      BY <1>0, <1>4, <2>1, <2>2 DEF MarkDone, MarkSucceeded, Guarded, Rows
  <2>4. \A q \in Requests : req'[q].pc = "reclaimExpired" =>
            req[q].pc = "reclaimExpired" /\ req'[q].start = req[q].start
      BY <1>1
  <2>5. QED  BY <1>1, <1>2, <1>4, <2>1, <2>3, <2>4 DEF Guarded, SameRecord, Running
<1>5. QED  BY <1>0, <1>2, <1>3, <1>4 DEF EffectIsGuarded

LEMMA CleanupGuarded ==
    ASSUME Inv, SlowStep, EffectIsGuarded, Cleanup
    PROVE  EffectIsGuarded'
<1> SUFFICES ASSUME ~slow', NEW r \in Requests, Ran(r)'
             PROVE  Guarded(r)' \/ TakenOver(r)'
    BY DEF EffectIsGuarded
<1>0. /\ ~slow /\ UNCHANGED <<now, lastId, req>> /\ row.expires \in Nat /\ now \in Nat
      /\ row' = IF row.expires <= now THEN NoRow ELSE row
    BY NotSlow DEF Inv, TypeOK, Rows, Cleanup, DeleteExpired
<1>1. Ran(r) /\ (Guarded(r) \/ TakenOver(r))
    BY <1>0 DEF EffectIsGuarded, Ran, ExpiresAt
<1>2. CASE Guarded(r)
  <2>1. row' = row
      BY <1>0, <1>1, <1>2 DEF Guarded, Ran
  <2>2. QED  BY <1>0, <1>2, <2>1 DEF Guarded, ExpiresAt, LockedUntil
<1>3. CASE TakenOver(r)
    BY <1>0, <1>3 DEF TakenOver
<1>4. QED  BY <1>1, <1>2, <1>3

LEMMA TickGuarded ==
    ASSUME Inv, SlowStep, EffectIsGuarded, Tick
    PROVE  EffectIsGuarded'
<1> SUFFICES ASSUME ~slow', NEW r \in Requests, Ran(r)'
             PROVE  Guarded(r)' \/ TakenOver(r)'
    BY DEF EffectIsGuarded
<1>0. /\ ~slow /\ UNCHANGED <<row, lastId, req>> /\ now \in Nat /\ now' = now + 1
      /\ req[r].start \in Nat
    BY NotSlow DEF Inv, TypeOK, Request, Tick
<1>1. Ran(r)
  <2>1. ExpiresAt(r) \in Nat /\ ExpiresAt(r)' = ExpiresAt(r)
      BY <1>0, TimesAssumption DEF ExpiresAt
  <2>2. QED  BY <1>0, <2>1 DEF Ran
<1>2. QED
    BY <1>0, <1>1 DEF EffectIsGuarded, Guarded, TakenOver, ExpiresAt, LockedUntil

\* s claims the row, or finds it claimed.
LEMMA ReclaimGuarded ==
    ASSUME Inv, Inv', SlowStep, EffectIsGuarded, NEW s \in Requests,
           NEW from, NEW lost \in {"getLatest", "inProgress"},
           \/ req[s].pc = "reclaimExpired" /\ from = req[s].existing.status
           \/ req[s].pc = "reclaimFailed" /\ from = "failed_retryable",
           Reclaim(s, from, lost)
    PROVE  EffectIsGuarded'
<1> SUFFICES ASSUME ~slow', NEW r \in Requests, Ran(r)'
             PROVE  Guarded(r)' \/ TakenOver(r)'
    BY DEF EffectIsGuarded
<1>0. /\ ~slow /\ TypeOK /\ Coherent(req[s]) /\ Coherent(req[r])
      /\ UNCHANGED <<now, lastId>> /\ req \in [Requests -> Request] /\ row \in Rows
      /\ req[s].effect = "none" /\ req[s].pc \notin Running /\ req[s].pc \in Calling
      /\ req[s].start \in Nat /\ row.locked \in Nat
    BY NotSlow DEF Inv, TypeOK, RequestsCoherent, Coherent, Reclaim, Calling, Running, Request, Rows
<1>1. /\ \A q \in Requests \ {s} : req'[q] = req[q]
      /\ req'[s].existing = req[s].existing
      /\ req'[s].start = req[s].start /\ req'[s].effect = req[s].effect
      /\ req'[s].pc # "reclaimExpired"
    BY <1>0 DEF Reclaim, StoreFails, Goto, Request
<1>2. r # s
    BY <1>0, <1>1 DEF Ran
<1>3. SameRecord(r) /\ ExpiresAt(r)' = ExpiresAt(r) /\ LockedUntil(r)' = LockedUntil(r) /\ Ran(r)
    BY <1>0, <1>1, <1>2 DEF SameRecord, ExpiresAt, LockedUntil, Ran
<1>4. CASE TakenOver(r)
  <2>1. req[s].pc \notin {"executed", "failed", "crashed", "unavailable"}
      BY <1>0 DEF Calling
  <2>2. TakenOver(r)'
      BY <1>0, <1>1, <1>3, <1>4, <2>1, TakenOverStays
  <2>3. QED  BY <2>2
<1>5. CASE Guarded(r) /\ ~Reclaimable(row, req[s].existing.id, from, req[s].start)
  <2>1. row' = row /\ req'[s].pc \in {"getLatest", "inProgress", "unavailable"}
        /\ req'[s].id = req[s].id
      BY <1>0, <1>5 DEF Reclaim, TryReclaim, StoreFails, Goto, Request
  <2>2. QED  BY <1>0, <1>1, <1>3, <1>5, <2>1 DEF Guarded, SameRecord, Running
<1>6. CASE Guarded(r) /\ Reclaimable(row, req[s].existing.id, from, req[s].start)
  <2>1. row.id = req[s].existing.id /\ row.status = from /\ row.locked <= req[s].start
      BY <1>6 DEF Reclaimable
  <2>2. req[s].pc = "reclaimExpired" /\ from = "succeeded"
    <3>1. CASE row.status = "processing"
        BY <1>0, <1>6, <2>1, <3>1 DEF Guarded
    <3>2. CASE row.status = "succeeded"
        BY <2>1, <3>2
    <3>3. QED  BY <1>6, <3>1, <3>2 DEF Guarded
  <2>3. CASE row' = row /\ req'[s].pc = "unavailable" /\ req'[s].id = req[s].id
      BY <1>0, <1>1, <1>3, <1>6, <2>3 DEF Guarded, SameRecord, Running
  <2>4. CASE req'[s].pc \in {"execute", "unavailable"}
    <3>1. req'[s].existing.id = req'[r].id /\ req'[s].existing.status = "succeeded"
        BY <1>1, <1>3, <1>6, <2>1, <2>2 DEF Guarded, SameRecord
    <3>2. req'[s].pc \in Running \cup {"executed", "failed", "crashed", "unavailable"}
        BY <2>4 DEF Running
    <3>3. TakenOver(r)'
        BY <1>2, <3>1, <3>2 DEF TakenOver
    <3>4. QED  BY <3>3
  <2>5. QED  BY <1>0, <1>6, <2>3, <2>4 DEF Reclaim, StoreFails, Goto, Request
<1>7. QED  BY <1>0, <1>3, <1>4, <1>5, <1>6 DEF EffectIsGuarded

LEMMA CreateGuarded ==
    ASSUME Inv, Inv', SlowStep, EffectIsGuarded, NEW s \in Requests, Create(s)
    PROVE  EffectIsGuarded'
<1>0. /\ TypeOK /\ Coherent(req[s]) /\ req \in [Requests -> Request] /\ row \in Rows
      /\ req[s].effect = "none" /\ req[s].pc = "create" /\ now' = now
    BY DEF Inv, TypeOK, RequestsCoherent, Coherent, Create, Calling
<1>1. /\ \A q \in Requests \ {s} : req'[q] = req[q]
      /\ req'[s].existing = req[s].existing
      /\ req'[s].start = req[s].start /\ req'[s].effect = "none"
    BY <1>0 DEF Create, StoreFails, Goto, Request
<1>2. CASE row.id = 0
  <2> SUFFICES ASSUME ~slow', NEW r \in Requests, Ran(r)'
               PROVE  Guarded(r)' \/ TakenOver(r)'
      BY DEF EffectIsGuarded
  <2>1. r # s /\ ~slow
      BY <1>0, <1>1, NotSlow DEF Ran, Inv, TypeOK
  <2>2. Ran(r) /\ req[r].id # 0 /\ SameRecord(r)
      BY <1>0, <1>1, <2>1 DEF Ran, ExpiresAt, SameRecord, Inv, RequestsCoherent, Coherent
  <2>3. TakenOver(r)
      BY <1>2, <2>1, <2>2 DEF EffectIsGuarded, Guarded
  <2>4. req[s].pc \notin Running \cup {"executed", "failed", "crashed", "unavailable"}
      BY <1>0 DEF Running
  <2>5. TakenOver(r)'
      BY <1>1, <2>2, <2>3, <2>4, TakenOverStays
  <2>6. QED  BY <2>5
<1>3. CASE row.id # 0
  <2>1. /\ row' = row /\ lastId' = lastId /\ req'[s].pc \in {"get", "unavailable"}
        /\ req'[s].id = req[s].id
      BY <1>0, <1>3 DEF Create, CreateProcessing, StoreFails, Goto, Request
  <2>2. MovesOn(s)
      BY <1>0, <1>1, <2>1 DEF MovesOn, Running
  <2>3. QED  BY <2>2, MovesOnGuarded
<1>4. QED  BY <1>2, <1>3

LEMMA OthersMoveOn ==
    ASSUME Inv, NEW s \in Requests,
           \/ Begin(s) \/ GetExisting(s) \/ GetLatest(s) \/ Execute(s) \/ ExecuteReturns(s)
           \/ Crash(s)
    PROVE  MovesOn(s)
<1>0. /\ TypeOK /\ Coherent(req[s]) /\ req \in [Requests -> Request] /\ req[s] \in Request
    BY DEF Inv, TypeOK, RequestsCoherent
<1>1. CASE Begin(s)
  <2>1. /\ req[s].pc = "new" /\ UNCHANGED <<now, row, lastId>>
        /\ \A q \in Requests \ {s} : req'[q] = req[q]
        /\ req'[s].id = req[s].id /\ req'[s].pc = "create" /\ req'[s].effect = req[s].effect
      BY <1>0, <1>1 DEF Begin, Request
  <2>2. req[s].effect = "none"
      BY <1>0, <2>1 DEF Coherent, Request
  <2>3. QED  BY <2>1, <2>2 DEF MovesOn, Running
<1>2. ASSUME NEW pc \in {"unavailable", "keyConflict", "replayed", "inProgress", "retryBackoff",
                         "reclaimFailed"},
             req[s].pc \in {"get", "getLatest"}, UNCHANGED <<now, row, lastId>>,
             \/ Goto(s, pc)
             \/ req' = [req EXCEPT ![s].pc = pc, ![s].replay = row.response]
             \/ req' = [req EXCEPT ![s].pc = pc, ![s].existing = row]
      PROVE  MovesOn(s)
  <2>1. /\ \A q \in Requests \ {s} : req'[q] = req[q]
        /\ req'[s].id = req[s].id /\ req'[s].pc = pc /\ req'[s].effect = req[s].effect
        /\ req'[s].start = req[s].start
      BY <1>0, <1>2 DEF Goto, Request
  <2>2. req[s].effect = "none"
      BY <1>0, <1>2 DEF Coherent, Request, Calling
  <2>3. QED  BY <1>2, <2>1, <2>2 DEF MovesOn, Running
<1>3. ASSUME req[s].pc \in {"get", "getLatest"}, UNCHANGED <<now, row, lastId>>, Decide(s, row)
      PROVE  MovesOn(s)
    BY <1>2, <1>3 DEF Decide, StoreFails
<1>4. CASE GetExisting(s)
  <2>1. CASE /\ row.expires <= req[s].start
             /\ req' = [req EXCEPT ![s].pc = "reclaimExpired", ![s].existing = row]
    <3>1. /\ \A q \in Requests \ {s} : req'[q] = req[q]
          /\ req'[s].id = req[s].id /\ req'[s].pc = "reclaimExpired"
          /\ req'[s].effect = req[s].effect /\ req'[s].start = req[s].start
        BY <1>0, <2>1 DEF Request
    <3>2. req[s].pc = "get" /\ UNCHANGED <<now, row, lastId>>
        BY <1>4 DEF GetExisting
    <3>3. req[s].effect = "none"
        BY <1>0, <3>2 DEF Coherent, Request, Calling
    <3>4. QED  BY <2>1, <3>1, <3>2, <3>3 DEF MovesOn, Running
  <2>2. QED  BY <1>2, <1>3, <1>4, <2>1 DEF GetExisting, StoreFails
<1>5. CASE GetLatest(s)
    BY <1>2, <1>3, <1>5 DEF GetLatest, StoreFails
<1>6. CASE Execute(s)
    BY <1>0, <1>6 DEF Execute, MovesOn, Request, Running
<1>7. CASE ExecuteReturns(s)
  <2>1. /\ req[s].pc = "executing" /\ UNCHANGED <<now, row, lastId>>
        /\ \A q \in Requests \ {s} : req'[q] = req[q]
        /\ req'[s].id = req[s].id /\ req'[s].start = req[s].start
        /\ req'[s].existing = req[s].existing
        /\ req'[s].pc \in {"markFailed", "markSucceeded"}
        /\ req'[s].effect \in {"failed", "succeeded"}
      BY <1>0, <1>7 DEF ExecuteReturns, Request
  <2>2. QED  BY <2>1 DEF MovesOn, Running
<1>8. CASE Crash(s)
    BY <1>0, <1>8 DEF Crash, Goto, MovesOn, Request, Running
<1>9. QED  BY <1>1, <1>4, <1>5, <1>6, <1>7, <1>8

LEMMA StepGuarded ==
    ASSUME Inv, Inv', SlowStep, EffectIsGuarded,
           Cleanup \/ Tick \/ \E r \in Requests : RequestStep(r)
    PROVE  EffectIsGuarded'
<1>1. ASSUME NEW s \in Requests,
             \/ Begin(s) \/ GetExisting(s) \/ GetLatest(s) \/ Execute(s) \/ ExecuteReturns(s)
             \/ Crash(s)
      PROVE  EffectIsGuarded'
    BY <1>1, OthersMoveOn, MovesOnGuarded
<1>2. ASSUME NEW s \in Requests, ReclaimExpired(s) \/ ReclaimFailed(s)
      PROVE  EffectIsGuarded'
    BY <1>2, ReclaimGuarded DEF ReclaimExpired, ReclaimFailed
<1>3. QED  BY <1>1, <1>2, CreateGuarded, MarkGuarded, CleanupGuarded, TickGuarded DEF RequestStep

\* At the start of an executor the row is its owner's, so that no other record
\* guards it.
LEMMA StartsGuarded ==
    ASSUME Inv, EffectIsGuarded, Next, NEW s \in Requests, NEW r \in Requests \ {s},
           StartsTooEarly(s, r)
    PROVE  TakenOver(r)
<1>0. /\ TypeOK /\ RequestsCoherent /\ ~slow /\ req \in [Requests -> Request]
      /\ now < ExpiresAt(r)
  <2>1. ExpiresAt(r) \in Nat /\ now \in Nat
      BY TimeTypes DEF Inv, TypeOK
  <2>2. QED  BY <2>1, NotSlow DEF Inv, TypeOK, StartsTooEarly, Next, SlowStep
<1>1. req[s].pc = "execute"
  <2>1. PICK q \in Requests : RequestStep(q)
      BY DEF Next, StartsTooEarly, Cleanup, Tick
  <2>2. CASE Execute(q)
      BY <1>0, <2>2 DEF Execute, StartsTooEarly
  <2>3. CASE ~Execute(q)
    <3>1. \A p \in Requests : req'[p].effect = "started" => req[p].effect = "started"
        BY <1>0, <2>1, <2>3 DEF RequestStep, Begin, Create, GetExisting, GetLatest, Decide,
           ReclaimExpired, ReclaimFailed, Reclaim, ExecuteReturns, MarkFailed, MarkDone, Crash,
           StoreFails, Goto, Request
    <3>2. QED  BY <3>1 DEF StartsTooEarly
  <2>4. QED  BY <2>2, <2>3
<1>2. Ran(r)
    BY <1>0 DEF Ran, StartsTooEarly
<1>3. ~Guarded(r)
    BY <1>1 DEF Guarded, Running
<1>4. QED  BY <1>0, <1>2, <1>3 DEF EffectIsGuarded

LEMMA GuardIsInductive == Spec => [](Inv /\ EffectIsGuarded)
<1>1. Init => EffectIsGuarded
    BY DEF Init, EffectIsGuarded, Ran
<1>2. ASSUME Inv, Inv', EffectIsGuarded, [Next]_vars PROVE EffectIsGuarded'
  <2>1. CASE Next
      BY <1>2, <2>1, StepGuarded DEF Next, SlowStep
  <2>2. CASE UNCHANGED vars
    <3>1. UNCHANGED <<now, row, lastId, req, slow>>
        BY <2>2 DEF vars
    <3>2. QED
        BY <1>2, <3>1 DEF EffectIsGuarded, Ran, Guarded, TakenOver, LockedUntil, ExpiresAt
  <2>3. QED  BY <1>2, <2>1, <2>2
<1>3. QED  BY <1>1, <1>2, InvIsInductive, PTL DEF Spec

(* A run that did not fail is not repeated before its record expires, for  *)
(* any number of requests, except by way of a request that found the record*)
(* before it expired, succeeded, and took the new one over.                *)
THEOREM NoRepeatBeforeExpiry == Spec => NoSecondEffectBeforeExpiry
<1> DEFINE NoRepeat ==
        \A s \in Requests : \A r \in Requests \ {s} : StartsTooEarly(s, r) => TakenOver(r)
<1>1. ASSUME Inv, EffectIsGuarded, [Next]_vars PROVE [NoRepeat]_vars
  <2>1. CASE Next
      BY <1>1, <2>1, StartsGuarded
  <2>2. CASE UNCHANGED vars
      BY <2>2
  <2>3. QED  BY <1>1, <2>1, <2>2
<1>2. Inv /\ EffectIsGuarded /\ [Next]_vars => [NoRepeat]_vars
    BY <1>1
<1> HIDE DEF NoRepeat
<1>3. Spec => [][NoRepeat]_vars
    BY <1>2, GuardIsInductive, PTL DEF Spec
<1>4. QED  BY <1>3 DEF NoRepeat, NoSecondEffectBeforeExpiry

-----------------------------------------------------------------------------
(* The system operation lock (SystemLock), on its own row of the same table. *)

\* What holds of the row and of every operation, however late anybody is.
LockCoherent ==
    /\ lockRow.status = "processing" => lockRow.locked < lockRow.expires
    /\ \A o \in Requests :
          /\ op[o].start <= lockNow
          /\ op[o].pc \in L!Held => op[o].record # 0
          /\ op[o].pc = "reclaim" => op[o].existing.id # 0

\* Up to the first lapse a holder has a lease, so that nobody else can claim.
HoldersLeased == ~lapsed => \A o \in Requests : op[o].pc \in L!Held => L!Leased(o)

\* While every claim was in time and every claimed row carries the claimer's id,
\* the next renewal comes before the lease ends, and so does the one after it if
\* no renewal failed yet.
RenewsInTime(o) ==
    /\ lockNow <= op[o].renew /\ op[o].renew # 0
    /\ op[o].renew < lockRow.locked
    /\ failures = 0 => op[o].renew + RenewInterval < lockRow.locked

Safe(o) ==
    /\ op[o].pc \in L!Held => L!Leased(o) /\ lockRow.fingerprint = op[o].id
    /\ op[o].pc = "running" => RenewsInTime(o)

NoLapseYet == ~late /\ ~foreign => ~lapsed /\ \A o \in Requests : Safe(o)

LockInv == L!TypeOK /\ LockCoherent /\ HoldersLeased /\ L!ExclusionUntilLapse

\* The step of a call changes that call alone.
LEMMA LockTypes ==
    ASSUME L!TypeOK
    PROVE  /\ lockNow \in Nat /\ lockLastId \in Nat /\ failures \in Nat
           /\ lockRow \in L!Rows /\ lockRow.id \in Nat /\ lockRow.locked \in Nat
           /\ lockRow.expires \in Nat
           /\ \A o \in Requests :
                /\ op[o] \in L!Operation /\ op[o].existing \in L!Rows /\ op[o].start \in Nat
                /\ op[o].record \in Nat /\ op[o].renew \in Nat /\ op[o].id \in Fingerprints
                /\ op[o].existing.id \in Nat
           /\ Lease \in Nat /\ LockTTL \in Nat /\ Lease < LockTTL
           /\ RenewInterval \in Nat /\ RenewInterval # 0 /\ RenewInterval < Lease
<1>1. /\ lockNow \in Nat /\ lockLastId \in Nat /\ failures \in Nat
      /\ lockRow \in L!Rows /\ op \in [Requests -> L!Operation]
    BY DEF L!TypeOK
<1>2. /\ Lease \in Nat /\ LockTTL \in Nat /\ Lease < LockTTL
      /\ RenewInterval \in Nat /\ RenewInterval # 0 /\ RenewInterval < Lease
    BY LockAssumption DEF L!LeaseAssumption
<1>3. \A o \in Requests : op[o] \in L!Operation
    BY <1>1
<1>4. lockRow.id \in Nat /\ lockRow.locked \in Nat /\ lockRow.expires \in Nat
    BY <1>1 DEF L!Rows
<1>5. \A x \in L!Operation :
        /\ x.existing \in L!Rows /\ x.start \in Nat /\ x.record \in Nat /\ x.renew \in Nat
        /\ x.id \in Fingerprints
    BY DEF L!Operation
<1>6. \A x \in L!Rows : x.id \in Nat
    BY DEF L!Rows
<1>7. QED  BY <1>1, <1>2, <1>3, <1>4, <1>5, <1>6

\* The calls but o stay where they are.
LockAlone(o) == op' \in [Requests -> L!Operation] /\ \A s \in Requests \ {o} : op'[s] = op[s]

LEMMA LockGoto ==
    ASSUME L!TypeOK, NEW o \in Requests, NEW pc, pc \in {"create", "get", "running", "releasing"},
           L!Goto(o, pc)
    PROVE  LockAlone(o) /\ op'[o] = [op[o] EXCEPT !.pc = pc] /\ op'[o].pc = pc
           /\ op'[o].id = op[o].id /\ op'[o].start = op[o].start
           /\ op'[o].existing = op[o].existing /\ op'[o].record = op[o].record
           /\ op'[o].renew = op[o].renew
<1> DEFINE c == [op[o] EXCEPT !.pc = pc]
<1>1. op[o] \in L!Operation /\ op \in [Requests -> L!Operation]
    BY LockTypes DEF L!TypeOK
<1>2. /\ c.pc = pc /\ c.id = op[o].id /\ c.start = op[o].start /\ c.existing = op[o].existing
      /\ c.record = op[o].record /\ c.renew = op[o].renew
    BY <1>1 DEF L!Operation
<1>3. c \in L!Operation
    BY <1>1 DEF L!Operation, L!Held
<1>4. op' = [op EXCEPT ![o] = c]
    BY DEF L!Goto
<1>5. op'[o] = c
    BY <1>1, <1>4
<1> HIDE DEF c
<1>6. LockAlone(o)
    BY <1>1, <1>3, <1>4 DEF LockAlone
<1>7. QED  BY <1>2, <1>5, <1>6 DEF c

LEMMA LockEnd ==
    ASSUME L!TypeOK, NEW o \in Requests,
           NEW pc, pc \in {"busy", "unavailable", "done", "crashed"}, L!End(o, pc)
    PROVE  LockAlone(o) /\ op'[o].pc = pc /\ op'[o].start = 0
<1> DEFINE c == [L!New(op[o].id) EXCEPT !.pc = pc]
<1>1. op[o] \in L!Operation /\ op \in [Requests -> L!Operation] /\ op[o].id \in Fingerprints
    BY LockTypes DEF L!TypeOK
<1>2. L!NoRow \in L!Rows
    BY DEF L!NoRow, L!Rows, L!Statuses
<1>3. c \in L!Operation /\ c.pc = pc /\ c.start = 0
    BY <1>1, <1>2 DEF L!Operation, L!New
<1>4. op' = [op EXCEPT ![o] = c]
    BY DEF L!End
<1> HIDE DEF c
<1>5. QED  BY <1>1, <1>3, <1>4 DEF LockAlone

\* A claim: the call becomes a holder of the row's record.
LEMMA LockHold ==
    ASSUME L!TypeOK, NEW o \in Requests, NEW record, record \in Nat, L!Hold(o, record)
    PROVE  /\ LockAlone(o) /\ op'[o].pc = "running" /\ op'[o].record = record
           /\ op'[o].start = op[o].start /\ op'[o].id = op[o].id
           /\ op'[o].renew = lockNow + RenewInterval
<1> DEFINE c == [op[o] EXCEPT !.pc = "running", !.record = record, !.existing = L!NoRow,
                              !.renew = lockNow + RenewInterval]
<1>1. /\ op[o] \in L!Operation /\ op \in [Requests -> L!Operation]
      /\ lockNow + RenewInterval \in Nat
    BY LockTypes DEF L!TypeOK
<1>2. L!NoRow \in L!Rows
    BY DEF L!NoRow, L!Rows, L!Statuses
<1>3. /\ c.pc = "running" /\ c.record = record /\ c.start = op[o].start /\ c.id = op[o].id
      /\ c.renew = lockNow + RenewInterval
    BY <1>1 DEF L!Operation
<1>4. c \in L!Operation
    BY <1>1, <1>2 DEF L!Operation, L!Held
<1>5. op' = [op EXCEPT ![o] = c]
    BY DEF L!Hold
<1> HIDE DEF c
<1>6. QED  BY <1>1, <1>3, <1>4, <1>5 DEF LockAlone

-----------------------------------------------------------------------------
(* What the statements leave of the row. *)

LEMMA CreatedRow ==
    ASSUME L!TypeOK, NEW o \in Requests, lockRow.id = 0,
           lockRow' = L!CreateProcessing(lockRow, lockLastId + 1, op[o].id,
                                         L!LockedUntil(o), L!ExpiresAt(o))
    PROVE  /\ lockRow' \in L!Rows /\ lockRow'.id = lockLastId + 1
           /\ lockRow'.status = "processing" /\ lockRow'.fingerprint = op[o].id
           /\ lockRow'.locked = op[o].start + Lease /\ lockRow'.expires = op[o].start + LockTTL
<1>1. /\ lockLastId + 1 \in Nat /\ op[o].id \in Fingerprints /\ op[o].start \in Nat
      /\ op[o].start + Lease \in Nat /\ op[o].start + LockTTL \in Nat
    BY LockTypes
<1>2. QED  BY <1>1 DEF L!CreateProcessing, L!LockedUntil, L!ExpiresAt, L!Rows, L!Statuses

\* An update of some columns of a row.
LEMMA UpdatedRow ==
    ASSUME NEW row0, row0 \in L!Rows, NEW locked, locked \in Nat, NEW expires, expires \in Nat,
           NEW status, status \in L!Statuses
    PROVE  /\ [row0 EXCEPT !.locked = locked, !.expires = expires] \in L!Rows
           /\ [row0 EXCEPT !.status = status, !.locked = locked, !.expires = expires] \in L!Rows
           /\ \A x \in Fingerprints :
                [row0 EXCEPT !.status = status, !.response = x, !.locked = locked,
                             !.expires = expires] \in L!Rows
BY DEF L!Rows

LEMMA ReclaimedRow ==
    ASSUME L!TypeOK, NEW o \in Requests, NEW id, NEW from,
           L!Reclaimable(lockRow, id, from, op[o].start),
           lockRow' = L!TryReclaim(lockRow, id, from, op[o].start,
                                   L!LockedUntil(o), L!ExpiresAt(o))
    PROVE  /\ lockRow' \in L!Rows /\ lockRow'.id = lockRow.id
           /\ lockRow'.status = "processing" /\ lockRow'.fingerprint = lockRow.fingerprint
           /\ lockRow'.locked = op[o].start + Lease /\ lockRow'.expires = op[o].start + LockTTL
<1>1. /\ lockRow \in L!Rows /\ op[o].start + Lease \in Nat /\ op[o].start + LockTTL \in Nat
      /\ "processing" \in L!Statuses
    BY LockTypes DEF L!Statuses
<1>2. lockRow' = [lockRow EXCEPT !.status = "processing", !.locked = op[o].start + Lease,
                                 !.expires = op[o].start + LockTTL]
    BY DEF L!TryReclaim, L!LockedUntil, L!ExpiresAt
<1>3. lockRow' \in L!Rows
  <2>1. PICK locked \in Nat : locked = op[o].start + Lease
      BY <1>1
  <2>2. PICK expires \in Nat : expires = op[o].start + LockTTL
      BY <1>1
  <2>3. lockRow' = [lockRow EXCEPT !.status = "processing", !.locked = locked,
                                   !.expires = expires]
      BY <1>2, <2>1, <2>2
  <2>4. QED  BY <1>1, <2>3 DEF L!Rows
<1>4. QED  BY <1>1, <1>2, <1>3 DEF L!Rows

LEMMA ExtendedRow ==
    ASSUME L!TypeOK, NEW id, NEW fp, L!Extendable(lockRow, id, fp),
           lockRow' = L!ExtendProcessingLock(lockRow, id, fp, lockNow + Lease,
                                             lockNow + LockTTL)
    PROVE  /\ lockRow' \in L!Rows /\ lockRow'.id = lockRow.id
           /\ lockRow'.status = lockRow.status /\ lockRow'.fingerprint = lockRow.fingerprint
           /\ lockRow'.locked = lockNow + Lease /\ lockRow'.expires = lockNow + LockTTL
<1>1. lockRow \in L!Rows /\ lockNow + Lease \in Nat /\ lockNow + LockTTL \in Nat
    BY LockTypes
<1>2. lockRow' = [lockRow EXCEPT !.locked = lockNow + Lease, !.expires = lockNow + LockTTL]
    BY DEF L!ExtendProcessingLock
<1>3. lockRow.status \in L!Statuses
    BY <1>1 DEF L!Rows
<1>4. lockRow' \in L!Rows
  <2>1. PICK locked \in Nat : locked = lockNow + Lease
      BY <1>1
  <2>2. PICK expires \in Nat : expires = lockNow + LockTTL
      BY <1>1
  <2>3. lockRow' = [lockRow EXCEPT !.locked = locked, !.expires = expires]
      BY <1>2, <2>1, <2>2
  <2>4. QED  BY <1>1, <1>3, <2>3 DEF L!Rows
<1>5. QED  BY <1>1, <1>2, <1>4 DEF L!Rows

LEMMA MarkedRow ==
    ASSUME L!TypeOK, NEW o \in Requests,
           \/ lockRow' = L!MarkSucceeded(lockRow, op[o].record, op[o].id, lockNow + LockTTL)
           \/ lockRow' = L!MarkFailedRetryable(lockRow, op[o].record, lockNow, lockNow + LockTTL)
           \/ lockRow' = lockRow
    PROVE  lockRow' \in L!Rows /\ (lockRow' = lockRow \/ lockRow'.status # "processing")
<1>1. /\ lockRow \in L!Rows /\ lockNow \in Nat /\ lockNow + LockTTL \in Nat
      /\ op[o].id \in Fingerprints /\ 0 \in Nat
      /\ "succeeded" \in L!Statuses /\ "failed_retryable" \in L!Statuses
    BY LockTypes DEF L!Statuses
<1>2. CASE lockRow' = lockRow
    BY <1>1, <1>2
<1>3. CASE lockRow' = [lockRow EXCEPT !.status = "succeeded", !.response = op[o].id,
                                      !.locked = 0, !.expires = lockNow + LockTTL]
  <2>1. lockRow' \in L!Rows
      BY <1>1, <1>3, UpdatedRow
  <2>2. QED  BY <1>1, <1>3, <2>1 DEF L!Rows
<1>4. CASE lockRow' = [lockRow EXCEPT !.status = "failed_retryable", !.locked = lockNow,
                                      !.expires = lockNow + LockTTL]
  <2>1. lockRow' \in L!Rows
      BY <1>1, <1>4, UpdatedRow
  <2>2. QED  BY <1>1, <1>4, <2>1 DEF L!Rows
<1>5. QED  BY <1>2, <1>3, <1>4 DEF L!MarkSucceeded, L!MarkFailedRetryable

-----------------------------------------------------------------------------
(* One step.  A call becomes a holder only over a row that no valid lease protects. *)

LockSound == L!TypeOK /\ LockCoherent

LockClaimed ==
    \/ \A s \in Requests : op'[s].pc \in L!Held => op[s].pc \in L!Held
    \/ /\ lockRow.id = 0 \/ lockRow.locked <= lockNow
       /\ \E o \in Requests : \A s \in Requests \ {o} : op'[s] = op[s]

LEMMA QuietLock ==
    ASSUME LockSound, NEW o \in Requests, LockAlone(o),
           UNCHANGED <<lockNow, lockLastId>>, failures' \in Nat,
           {lapsed', late', foreign'} \subseteq BOOLEAN,
           lockRow' \in L!Rows, lockRow'.status = "processing" => lockRow'.locked < lockRow'.expires,
           op'[o].start <= lockNow, op'[o].pc \in L!Held => op'[o].record # 0,
           op'[o].pc = "reclaim" => op'[o].existing.id # 0
    PROVE  LockSound'
<1>1. L!TypeOK'
    BY DEF LockSound, L!TypeOK, LockAlone
<1>2. LockCoherent'
    BY DEF LockSound, LockCoherent, LockAlone
<1>3. QED  BY <1>1, <1>2 DEF LockSound

LEMMA LockOperationStep ==
    ASSUME LockSound, NEW o \in Requests, L!OperationStep(o), lapsed' \in BOOLEAN
    PROVE  LockSound' /\ LockClaimed
<1>1. /\ L!TypeOK /\ LockCoherent /\ lockRow \in L!Rows /\ op[o] \in L!Operation
      /\ lockNow \in Nat /\ lockLastId \in Nat /\ failures \in Nat /\ op[o].start \in Nat
      /\ op \in [Requests -> L!Operation] /\ op[o].existing.id \in Nat
      /\ Lease \in Nat /\ LockTTL \in Nat /\ Lease < LockTTL
      /\ late \in BOOLEAN /\ foreign \in BOOLEAN
    BY LockTypes DEF LockSound, L!TypeOK
<1>2. lockRow.status = "processing" => lockRow.locked < lockRow.expires
    BY <1>1 DEF LockCoherent
<1>3. op[o].start <= lockNow /\ (op[o].pc \in L!Held => op[o].record # 0)
      /\ (op[o].pc = "reclaim" => op[o].existing.id # 0)
    BY <1>1 DEF LockCoherent
<1>4. CASE L!Begin(o)
  <2> DEFINE c == [op[o] EXCEPT !.pc = "create", !.start = lockNow]
  <2>1. c.pc = "create" /\ c.start = lockNow
      BY <1>1 DEF L!Operation
  <2>2. c \in L!Operation
      BY <1>1 DEF L!Operation
  <2>3. op' = [op EXCEPT ![o] = c]
      BY <1>4 DEF L!Begin
  <2> HIDE DEF c
  <2>4. LockAlone(o) /\ op'[o].pc = "create" /\ op'[o].start = lockNow
      BY <1>1, <2>1, <2>2, <2>3 DEF LockAlone
  <2>5. UNCHANGED <<lockNow, lockRow, lockLastId, failures, late, foreign>>
      BY <1>4 DEF L!Begin, L!causes
  <2>6. LockSound'
      BY <1>1, <1>2, <2>4, <2>5, QuietLock DEF L!Held
  <2>7. QED  BY <2>4, <2>6 DEF LockClaimed, LockAlone, L!Held
<1>5. CASE L!Create(o) /\ lockRow.id = 0
  <2>1. /\ lockRow' \in L!Rows /\ lockRow'.id = lockLastId + 1
        /\ lockRow'.locked = op[o].start + Lease /\ lockRow'.expires = op[o].start + LockTTL
      BY <1>1, <1>5, CreatedRow DEF L!Create
  <2>2. L!Hold(o, lockLastId + 1) /\ lockLastId' = lockLastId + 1 /\ lockNow' = lockNow
        /\ failures' = failures
      BY <1>5 DEF L!Create
  <2>3. PICK n \in Nat : n = lockLastId + 1
      BY <1>1
  <2>4. /\ LockAlone(o) /\ op'[o].pc = "running" /\ op'[o].record = n
        /\ op'[o].start = op[o].start
      BY <1>1, <2>2, <2>3, LockHold
  <2>5. late' \in BOOLEAN /\ foreign' \in BOOLEAN
      BY <2>2 DEF L!Hold
  <2>6. L!TypeOK'
      BY <1>1, <2>1, <2>2, <2>4, <2>5 DEF L!TypeOK, LockAlone
  <2>7. LockCoherent'
      BY <1>1, <1>3, <2>1, <2>2, <2>3, <2>4 DEF LockCoherent, LockAlone
  <2>8. LockClaimed
      BY <1>5, <2>4 DEF LockClaimed, LockAlone
  <2>9. QED  BY <2>6, <2>7, <2>8 DEF LockSound
<1>6. CASE L!Create(o) /\ lockRow.id # 0
  <2>1. /\ lockRow' = lockRow /\ L!Goto(o, "get")
        /\ UNCHANGED <<lockNow, lockLastId, failures, late, foreign>>
      BY <1>6 DEF L!Create, L!CreateProcessing, L!causes
  <2>2. LockAlone(o) /\ op'[o].pc = "get" /\ op'[o].start = op[o].start
      BY <1>1, <2>1, LockGoto
  <2>3. LockSound'
      BY <1>1, <1>2, <1>3, <2>1, <2>2, QuietLock DEF L!Held
  <2>4. QED  BY <2>2, <2>3 DEF LockClaimed, LockAlone, L!Held
<1>7. CASE L!GetExisting(o)
  <2>1. UNCHANGED <<lockNow, lockRow, lockLastId, failures, late, foreign>>
      BY <1>7 DEF L!GetExisting, L!causes
  <2>2. CASE L!End(o, "unavailable") \/ L!End(o, "busy")
    <3>1. LockAlone(o) /\ op'[o].pc \in {"unavailable", "busy"} /\ op'[o].start = 0
        BY <1>1, <2>2, LockEnd
    <3>2. LockSound'
        BY <1>1, <1>2, <2>1, <3>1, QuietLock DEF L!Held
    <3>3. QED  BY <3>1, <3>2 DEF LockClaimed, LockAlone, L!Held
  <2>3. CASE lockRow.id # 0 /\ op' = [op EXCEPT ![o].pc = "reclaim", ![o].existing = lockRow]
    <3> DEFINE c == [op[o] EXCEPT !.pc = "reclaim", !.existing = lockRow]
    <3>1. c.pc = "reclaim" /\ c.start = op[o].start /\ c.existing = lockRow
        BY <1>1 DEF L!Operation
    <3>2. c \in L!Operation
        BY <1>1 DEF L!Operation
    <3>3. op' = [op EXCEPT ![o] = c]
        BY <2>3
    <3> HIDE DEF c
    <3>4. /\ LockAlone(o) /\ op'[o].pc = "reclaim" /\ op'[o].start = op[o].start
          /\ op'[o].existing = lockRow
        BY <1>1, <3>1, <3>2, <3>3 DEF LockAlone
    <3>5. LockSound'
        BY <1>1, <1>2, <1>3, <2>1, <2>3, <3>4, QuietLock DEF L!Held
    <3>6. QED  BY <3>4, <3>5 DEF LockClaimed, LockAlone, L!Held
  <2>4. QED  BY <1>7, <2>2, <2>3 DEF L!GetExisting
<1>8. CASE L!Reclaim(o)
  <2> DEFINE id == op[o].existing.id
             from == op[o].existing.status
  <2>1. lockRow' = L!TryReclaim(lockRow, id, from, op[o].start, L!LockedUntil(o), L!ExpiresAt(o))
        /\ UNCHANGED <<lockNow, lockLastId, failures>> /\ op[o].pc = "reclaim"
      BY <1>8 DEF L!Reclaim
  <2>2. CASE L!Reclaimable(lockRow, id, from, op[o].start)
    <3>1. L!Hold(o, id)
        BY <1>8, <2>2 DEF L!Reclaim
    <3>2. PICK n \in Nat : n = id
        BY <1>1
    <3>3. /\ LockAlone(o) /\ op'[o].pc = "running" /\ op'[o].record = n
          /\ op'[o].start = op[o].start
        BY <1>1, <3>1, <3>2, LockHold
    <3>4. PICK x : x = id
        OBVIOUS
    <3>5. PICK y : y = from
        OBVIOUS
    <3>6. /\ lockRow' \in L!Rows
          /\ lockRow'.locked = op[o].start + Lease /\ lockRow'.expires = op[o].start + LockTTL
        BY <1>1, <2>1, <2>2, <3>4, <3>5, ReclaimedRow
    <3>7. late' \in BOOLEAN /\ foreign' \in BOOLEAN
        BY <3>1 DEF L!Hold
    <3>8. n # 0 /\ lockRow.locked <= op[o].start
        BY <1>3, <2>1, <2>2, <3>2 DEF L!Reclaimable
    <3>9. LockSound'
        BY <1>1, <1>3, <2>1, <3>3, <3>6, <3>7, <3>8, QuietLock
    <3>10. lockRow.locked <= lockNow
        BY <1>1, <1>3, <3>8, LockTypes
    <3>11. QED  BY <3>3, <3>9, <3>10 DEF LockClaimed, LockAlone
  <2>3. CASE ~L!Reclaimable(lockRow, id, from, op[o].start)
    <3>1. L!End(o, "busy") /\ lockRow' = lockRow /\ UNCHANGED <<late, foreign>>
        BY <1>8, <2>1, <2>3 DEF L!Reclaim, L!TryReclaim, L!causes
    <3>2. LockAlone(o) /\ op'[o].pc = "busy" /\ op'[o].start = 0
        BY <1>1, <3>1, LockEnd
    <3>3. LockSound'
        BY <1>1, <1>2, <2>1, <3>1, <3>2, QuietLock DEF L!Held
    <3>4. QED  BY <3>2, <3>3 DEF LockClaimed, LockAlone, L!Held
  <2>4. QED  BY <2>2, <2>3
<1>9. CASE L!Renew(o)
  <2>1. /\ op[o].pc = "running" /\ UNCHANGED <<lockNow, lockLastId, late, foreign>>
        /\ failures' \in Nat
      BY <1>1, <1>9 DEF L!Renew, L!RenewDue, L!causes
  <2>2. PICK n \in Nat : op' = [op EXCEPT ![o].renew = n]
    <3>1. lockNow + RenewInterval \in Nat /\ 0 \in Nat
        BY <1>1, LockTypes
    <3>2. QED  BY <1>9, <3>1 DEF L!Renew
  <2>3. /\ LockAlone(o) /\ op'[o].pc = "running" /\ op'[o].start = op[o].start
        /\ op'[o].record = op[o].record
    <3> DEFINE c == [op[o] EXCEPT !.renew = n]
    <3>1. c.pc = op[o].pc /\ c.start = op[o].start /\ c.record = op[o].record
        BY <1>1 DEF L!Operation
    <3>2. c \in L!Operation
        BY <1>1 DEF L!Operation
    <3>3. op' = [op EXCEPT ![o] = c]
        BY <2>2
    <3> HIDE DEF c
    <3>4. QED  BY <1>1, <2>1, <3>1, <3>2, <3>3 DEF LockAlone
  <2>4. lockRow' \in L!Rows /\ (lockRow'.status = "processing" => lockRow'.locked < lockRow'.expires)
    <3>1. PICK x : x = op[o].record
        OBVIOUS
    <3>2. PICK y : y = op[o].id
        OBVIOUS
    <3>3. CASE L!Extendable(lockRow, x, y)
                /\ lockRow' = L!ExtendProcessingLock(lockRow, x, y, lockNow + Lease,
                                                     lockNow + LockTTL)
        BY <1>1, <3>3, ExtendedRow
    <3>4. CASE lockRow' = lockRow
        BY <1>1, <1>2, <3>4
    <3>5. QED  BY <1>9, <3>1, <3>2, <3>3, <3>4 DEF L!Renew, L!ExtendProcessingLock
  <2>5. op[o].record # 0 /\ "running" \in L!Held
      BY <1>3, <2>1 DEF L!Held
  <2>6. LockSound'
      BY <1>1, <1>3, <2>1, <2>3, <2>4, <2>5, QuietLock
  <2>7. QED  BY <2>1, <2>3, <2>6 DEF LockClaimed, LockAlone
<1>10. CASE L!Finish(o)
  <2> DEFINE c == [op[o] EXCEPT !.pc = "releasing", !.renew = 0]
  <2>1. c.pc = "releasing" /\ c.start = op[o].start /\ c.record = op[o].record
      BY <1>1 DEF L!Operation
  <2>2. c \in L!Operation
      BY <1>1 DEF L!Operation, L!Held
  <2>3. op' = [op EXCEPT ![o] = c]
      BY <1>10 DEF L!Finish
  <2> HIDE DEF c
  <2>4. /\ LockAlone(o) /\ op'[o].pc = "releasing" /\ op'[o].start = op[o].start
        /\ op'[o].record = op[o].record
      BY <1>1, <2>1, <2>2, <2>3 DEF LockAlone
  <2>5. /\ UNCHANGED <<lockNow, lockRow, lockLastId, failures, late, foreign>>
        /\ op[o].pc = "running" /\ "running" \in L!Held
      BY <1>10 DEF L!Finish, L!causes, L!Held
  <2>6. LockSound'
      BY <1>1, <1>2, <1>3, <2>4, <2>5, QuietLock
  <2>7. QED  BY <2>4, <2>5, <2>6 DEF LockClaimed, LockAlone
<1>11. CASE L!Release(o) \/ L!Crash(o)
  <2>1. UNCHANGED <<lockNow, lockLastId, failures, late, foreign>>
        /\ (L!End(o, "done") \/ L!End(o, "crashed"))
      BY <1>11 DEF L!Release, L!Crash, L!causes
  <2>2. LockAlone(o) /\ op'[o].pc \in {"done", "crashed"} /\ op'[o].start = 0
      BY <1>1, <2>1, LockEnd
  <2>3. lockRow' \in L!Rows /\ (lockRow' = lockRow \/ lockRow'.status # "processing")
      BY <1>1, <1>11, MarkedRow DEF L!Release, L!Crash
  <2>4. LockSound'
      BY <1>1, <1>2, <2>1, <2>2, <2>3, QuietLock DEF L!Held
  <2>5. QED  BY <2>2, <2>4 DEF LockClaimed, LockAlone, L!Held
<1>12. QED  BY <1>4, <1>5, <1>6, <1>7, <1>8, <1>9, <1>10, <1>11 DEF L!OperationStep

LEMMA LockStep == LockInv /\ [L!Next]_(L!vars) => LockInv'
<1> SUFFICES ASSUME LockInv, [L!Next]_(L!vars) PROVE LockInv'
    OBVIOUS
<1>1. CASE L!Next
  <2>1. lapsed' = (lapsed \/ \E o \in Requests : op'[o].pc \in L!Held /\ ~L!Leased(o)')
      BY <1>1 DEF L!Next
  <2>2. lapsed' \in BOOLEAN
      BY <2>1
  <2>3. LockSound' /\ LockClaimed
    <3>1. /\ L!TypeOK /\ LockCoherent /\ lockRow \in L!Rows /\ lockNow \in Nat
          /\ \A o \in Requests : op[o].start \in Nat
        BY LockTypes DEF LockInv, L!TypeOK
    <3>2. CASE L!Cleanup
      <4>1. UNCHANGED <<lockNow, lockLastId, op, failures, late, foreign>>
          BY <3>2 DEF L!Cleanup, L!causes
      <4>2. L!NoRow \in L!Rows /\ L!NoRow.status # "processing"
          BY DEF L!NoRow, L!Rows, L!Statuses
      <4>3. lockRow' = lockRow \/ lockRow' = L!NoRow
          BY <3>2 DEF L!Cleanup, L!DeleteExpired
      <4>4. L!TypeOK'
          BY <2>2, <3>1, <4>1, <4>2, <4>3 DEF L!TypeOK
      <4>5. LockCoherent'
          BY <3>1, <4>1, <4>2, <4>3 DEF LockCoherent
      <4>6. QED  BY <4>1, <4>4, <4>5 DEF LockSound, LockClaimed
    <3>3. CASE L!Tick
      <4>1. /\ UNCHANGED <<lockRow, lockLastId, op, failures, late, foreign>>
            /\ lockNow' = lockNow + 1
          BY <3>3 DEF L!Tick, L!causes
      <4>2. L!TypeOK'
          BY <2>2, <3>1, <4>1 DEF L!TypeOK
      <4>3. LockCoherent'
          BY <3>1, <4>1 DEF LockCoherent
      <4>4. QED  BY <4>1, <4>2, <4>3 DEF LockSound, LockClaimed
    <3>4. ASSUME NEW o \in Requests, L!OperationStep(o) PROVE LockSound' /\ LockClaimed
        BY <2>2, <3>1, <3>4, LockOperationStep DEF LockSound
    <3>5. QED  BY <1>1, <3>2, <3>3, <3>4 DEF L!Next
  <2>4. HoldersLeased'
      BY <2>1 DEF HoldersLeased
  <2>5. L!ExclusionUntilLapse'
    <3>1. SUFFICES ASSUME ~lapsed', NEW o \in Requests, NEW s \in Requests,
                          op'[o].pc \in L!Held, op'[s].pc \in L!Held
                   PROVE  o = s
        BY DEF L!ExclusionUntilLapse
    <3>2. ~lapsed
        BY <2>1, <3>1
    <3>3. CASE \A x \in Requests : op'[x].pc \in L!Held => op[x].pc \in L!Held
        BY <3>1, <3>2, <3>3 DEF LockInv, L!ExclusionUntilLapse
    <3>4. ASSUME lockRow.id = 0 \/ lockRow.locked <= lockNow,
                 NEW c \in Requests, \A x \in Requests \ {c} : op'[x] = op[x]
          PROVE  o = s
      <4>1. ASSUME NEW x \in Requests, op[x].pc \in L!Held PROVE FALSE
        <5>1. L!Leased(x) /\ op[x].record # 0
            BY <3>2, <4>1 DEF LockInv, HoldersLeased, LockCoherent
        <5>2. lockRow.id # 0 /\ lockRow.locked > lockNow
            BY <5>1 DEF L!Leased
        <5>3. QED  BY <3>4, <5>2, LockTypes DEF LockInv
      <4>2. o = c /\ s = c
          BY <3>1, <3>4, <4>1
      <4>3. QED  BY <4>2
    <3>5. QED  BY <2>3, <3>3, <3>4 DEF LockClaimed
  <2>6. QED  BY <2>3, <2>4, <2>5 DEF LockInv, LockSound
<1>2. CASE UNCHANGED L!vars
  <2>1. UNCHANGED <<lockNow, lockRow, lockLastId, op, failures, lapsed, late, foreign>>
      BY <1>2 DEF L!vars
  <2>2. QED  BY <2>1 DEF LockInv, L!TypeOK, LockCoherent, HoldersLeased, L!Leased,
                L!ExclusionUntilLapse
<1>3. QED  BY <1>1, <1>2

LEMMA LockInit == L!Init => LockInv /\ NoLapseYet
<1> SUFFICES ASSUME L!Init PROVE LockInv /\ NoLapseYet
    OBVIOUS
<1>1. L!NoRow \in L!Rows /\ L!NoRow.status # "processing"
    BY DEF L!NoRow, L!Rows, L!Statuses
<1>2. \A i \in Fingerprints : /\ L!New(i) \in L!Operation /\ L!New(i).pc = "new"
                              /\ L!New(i).start = 0
    BY <1>1 DEF L!New, L!Operation
<1>3. op \in [Requests -> L!Operation] /\ \A o \in Requests : op[o].pc = "new" /\ op[o].start = 0
    BY <1>2 DEF L!Init
<1>4. L!TypeOK
    BY <1>1, <1>3 DEF L!Init, L!TypeOK
<1>5. LockCoherent
    BY <1>1, <1>3 DEF L!Init, LockCoherent, L!Held
<1>6. HoldersLeased /\ L!ExclusionUntilLapse /\ NoLapseYet
    BY <1>3 DEF HoldersLeased, L!ExclusionUntilLapse, NoLapseYet, Safe, L!Held, L!Init
<1>7. QED  BY <1>4, <1>5, <1>6 DEF LockInv

LEMMA LockInvariance == L!Spec => []LockInv
<1>1. L!Init => LockInv
    BY LockInit
<1>2. QED  BY <1>1, LockStep, PTL DEF L!Spec

-----------------------------------------------------------------------------
(* No lease lapses without a cause.                                        *)

\* The code renews every lease / 3, or every second if that is longer: with a lease over
\* two seconds there is room for one renewal that fails.
Patient == MaxFailures <= 1 /\ 2 * RenewInterval < Lease

LEMMA SafeStays ==
    ASSUME L!TypeOK, NEW o \in Requests, Safe(o), op'[o] = op[o], failures' \in Nat,
           failures' = 0 => failures = 0, lockRow' = lockRow, lockNow' = lockNow
    PROVE  Safe(o)'
BY DEF Safe, RenewsInTime, L!Leased

\* Nobody else holds the lock of a holder, nor a row that is free to be claimed.
LEMMA NobodyElse ==
    ASSUME LockInv, ~lapsed, NEW o \in Requests, NEW s \in Requests \ {o},
           op[o].pc \in L!Held \/ lockRow.id = 0 \/ lockRow.locked <= lockNow
    PROVE  op[s].pc \notin L!Held
<1>1. SUFFICES ASSUME op[s].pc \in L!Held PROVE FALSE
    OBVIOUS
<1>2. L!Leased(s) /\ op[s].record # 0
    BY <1>1 DEF LockInv, HoldersLeased, LockCoherent
<1>3. lockRow.id # 0 /\ lockRow.locked > lockNow
    BY <1>2 DEF L!Leased
<1>4. CASE op[o].pc \in L!Held
    BY <1>1, <1>4 DEF LockInv, L!ExclusionUntilLapse
<1>5. CASE lockRow.id = 0 \/ lockRow.locked <= lockNow
    BY <1>3, <1>5, LockTypes DEF LockInv
<1>6. QED  BY <1>4, <1>5

\* The causes of a lapse are remembered.
LEMMA CausesStay ==
    ASSUME L!TypeOK, L!Next, ~late', ~foreign'
    PROVE  ~late /\ ~foreign
<1>1. UNCHANGED <<late, foreign>> \/ \E o \in Requests : \E id : L!Hold(o, id)
    BY DEF L!Next, L!OperationStep, L!Begin, L!Create, L!GetExisting, L!Reclaim, L!Renew,
           L!Finish, L!Release, L!Crash, L!Cleanup, L!Tick, L!causes
<1>2. CASE UNCHANGED <<late, foreign>>
    BY <1>2
<1>3. ASSUME NEW o \in Requests, NEW id, L!Hold(o, id) PROVE ~late /\ ~foreign
  <2>1. /\ late' = (late \/ lockNow + 2 * RenewInterval >= L!LockedUntil(o))
        /\ foreign' = (foreign \/ lockRow'.fingerprint # op[o].id)
      BY <1>3 DEF L!Hold
  <2>2. QED  BY <2>1, Zenon
<1>4. QED  BY <1>1, <1>2, <1>3

\* A claim in time.
LEMMA ClaimSafe ==
    ASSUME LockInv, ~lapsed, Patient, NEW o \in Requests, NEW id, id \in Nat, L!Hold(o, id),
           lockRow.id = 0 \/ lockRow.locked <= lockNow,
           ~late', ~foreign', lockNow' = lockNow, failures' \in Nat,
           lockRow'.id = id, lockRow'.status = "processing",
           lockRow'.locked = op[o].start + Lease
    PROVE  \A s \in Requests : Safe(s)'
<1>1. /\ L!TypeOK /\ lockNow \in Nat /\ Lease \in Nat /\ RenewInterval \in Nat
      /\ RenewInterval # 0 /\ op[o].start \in Nat
    BY LockTypes DEF LockInv
<1>2. /\ LockAlone(o) /\ op'[o].pc = "running" /\ op'[o].record = id
      /\ op'[o].id = op[o].id /\ op'[o].renew = lockNow + RenewInterval
    BY <1>1, LockHold
<1>3. lockNow + 2 * RenewInterval < op[o].start + Lease /\ lockRow'.fingerprint = op[o].id
  <2>1. /\ late' = (late \/ lockNow + 2 * RenewInterval >= L!LockedUntil(o))
        /\ foreign' = (foreign \/ lockRow'.fingerprint # op[o].id)
      BY DEF L!Hold
  <2>2. ~(lockNow + 2 * RenewInterval >= L!LockedUntil(o)) /\ lockRow'.fingerprint = op[o].id
      BY <2>1, Zenon
  <2>3. QED  BY <1>1, <2>2 DEF L!LockedUntil
<1>4. Safe(o)'
  <2>1. L!Leased(o)'
      BY <1>1, <1>2, <1>3 DEF L!Leased
  <2>2. RenewsInTime(o)'
      BY <1>1, <1>2, <1>3 DEF RenewsInTime
  <2>3. QED  BY <1>2, <1>3, <2>1, <2>2 DEF Safe
<1>5. ASSUME NEW s \in Requests \ {o} PROVE Safe(s)'
  <2>1. op'[s] = op[s] /\ op[s].pc \notin L!Held
      BY <1>2, <1>5, NobodyElse DEF LockAlone
  <2>2. QED  BY <2>1 DEF Safe, L!Held
<1>6. QED  BY <1>4, <1>5

LEMMA RenewSafe ==
    ASSUME LockInv, ~lapsed, Patient, NEW o \in Requests, Safe(o), L!Renew(o)
    PROVE  \A s \in Requests : Safe(s)'
<1>1. /\ L!TypeOK /\ lockNow \in Nat /\ Lease \in Nat /\ RenewInterval \in Nat
      /\ RenewInterval # 0 /\ op[o] \in L!Operation /\ op \in [Requests -> L!Operation]
      /\ lockRow.locked \in Nat /\ failures \in Nat /\ op[o].renew \in Nat /\ MaxFailures \in Nat
    BY LockTypes, LockAssumption DEF LockInv, L!TypeOK, L!LeaseAssumption
<1>2. op[o].pc = "running" /\ op[o].renew <= lockNow /\ lockNow' = lockNow /\ "running" \in L!Held
    BY DEF L!Renew, L!RenewDue, L!Held
<1>3. L!Leased(o) /\ lockRow.fingerprint = op[o].id /\ RenewsInTime(o)
    BY <1>2 DEF Safe
<1>4. op[o].renew = lockNow
    BY <1>1, <1>2, <1>3 DEF RenewsInTime
<1>5. L!Extendable(lockRow, op[o].record, op[o].id)
    BY <1>3 DEF L!Extendable, L!Leased
<1>6. op' = [op EXCEPT ![o].renew = lockNow + RenewInterval]
    BY <1>5 DEF L!Renew
<1>7. /\ op'[o].pc = "running" /\ op'[o].id = op[o].id /\ op'[o].record = op[o].record
      /\ op'[o].renew = lockNow + RenewInterval /\ \A s \in Requests \ {o} : op'[s] = op[s]
  <2> DEFINE c == [op[o] EXCEPT !.renew = lockNow + RenewInterval]
  <2>1. /\ c.pc = op[o].pc /\ c.id = op[o].id /\ c.record = op[o].record
        /\ c.renew = lockNow + RenewInterval
      BY <1>1 DEF L!Operation
  <2>2. op' = [op EXCEPT ![o] = c]
      BY <1>6
  <2> HIDE DEF c
  <2>3. QED  BY <1>1, <1>2, <2>1, <2>2
<1>8. Safe(o)'
  <2>1. CASE lockRow' = L!ExtendProcessingLock(lockRow, op[o].record, op[o].id,
                                               lockNow + Lease, lockNow + LockTTL)
             /\ failures' = failures
    <3>1. PICK x : x = op[o].record
        OBVIOUS
    <3>2. PICK y : y = op[o].id
        OBVIOUS
    <3>3. /\ lockRow'.id = lockRow.id /\ lockRow'.status = lockRow.status
          /\ lockRow'.fingerprint = lockRow.fingerprint /\ lockRow'.locked = lockNow + Lease
        BY <1>1, <1>5, <2>1, <3>1, <3>2, ExtendedRow
    <3>4. L!Leased(o)'
        BY <1>1, <1>2, <1>3, <1>7, <3>3 DEF L!Leased, Patient
    <3>5. RenewsInTime(o)'
        BY <1>1, <1>2, <1>7, <3>3 DEF RenewsInTime, Patient
    <3>6. QED  BY <1>3, <1>7, <3>3, <3>4, <3>5 DEF Safe
  <2>2. CASE failures < MaxFailures /\ failures' = failures + 1 /\ lockRow' = lockRow
    <3>1. failures = 0 /\ failures' = 1
        BY <1>1, <2>2 DEF Patient
    <3>2. op[o].renew + RenewInterval < lockRow.locked
        BY <1>3, <3>1 DEF RenewsInTime
    <3>3. RenewsInTime(o)'
        BY <1>1, <1>2, <1>4, <1>7, <2>2, <3>1, <3>2 DEF RenewsInTime
    <3>4. L!Leased(o)'
        BY <1>2, <1>3, <1>7, <2>2 DEF L!Leased
    <3>5. QED  BY <1>3, <1>7, <2>2, <3>3, <3>4 DEF Safe
  <2>3. QED  BY <2>1, <2>2 DEF L!Renew
<1>9. ASSUME NEW s \in Requests \ {o} PROVE Safe(s)'
  <2>1. op'[s] = op[s] /\ op[s].pc \notin L!Held
      BY <1>2, <1>7, <1>9, NobodyElse
  <2>2. QED  BY <2>1 DEF Safe, L!Held
<1>10. QED  BY <1>8, <1>9

LEMMA NoLapseStep ==
    ASSUME LockInv, LockInv', NoLapseYet, Patient, L!Next
    PROVE  NoLapseYet'
<1>1. SUFFICES ASSUME ~late', ~foreign' PROVE ~lapsed' /\ \A o \in Requests : Safe(o)'
    BY DEF NoLapseYet
<1>2. ~lapsed /\ \A o \in Requests : Safe(o)
    BY <1>1, CausesStay DEF NoLapseYet, LockInv
<1>3. /\ L!TypeOK /\ LockCoherent /\ lockNow \in Nat /\ lockRow \in L!Rows
      /\ lockRow.locked \in Nat /\ lockRow.expires \in Nat /\ lockRow.id \in Nat
      /\ op \in [Requests -> L!Operation] /\ lockLastId \in Nat
      /\ Lease \in Nat /\ RenewInterval \in Nat /\ failures' \in Nat
      /\ \A o \in Requests : op[o].renew \in Nat /\ op[o].existing.id \in Nat
    BY LockTypes DEF LockInv, L!TypeOK
<1>4. \A o \in Requests : Safe(o)'
  <2>1. CASE L!Cleanup
    <3>1. UNCHANGED <<lockNow, op, failures>>
        BY <2>1 DEF L!Cleanup, L!causes
    <3>2. lockRow' = lockRow \/ lockRow.expires <= lockNow
        BY <2>1 DEF L!Cleanup, L!DeleteExpired
    <3>3. CASE lockRow' = lockRow
        BY <1>2, <1>3, <3>1, <3>3, SafeStays
    <3>4. CASE lockRow.expires <= lockNow
      <4>1. \A o \in Requests : op[o].pc \notin L!Held
          BY <1>2, <1>3, <3>4 DEF Safe, L!Leased, LockCoherent
      <4>2. QED  BY <3>1, <4>1 DEF Safe, L!Held
    <3>5. QED  BY <3>2, <3>3, <3>4
  <2>2. CASE L!Tick
    <3>1. /\ UNCHANGED <<lockRow, op, failures>> /\ lockNow' = lockNow + 1
          /\ \A o \in Requests : ~L!RenewDue(o) /\ op[o].pc # "releasing"
        BY <2>2 DEF L!Tick, L!causes
    <3>2. ASSUME NEW o \in Requests, op[o].pc \in L!Held PROVE Safe(o)'
      <4>1. op[o].pc = "running" /\ ~(op[o].renew <= lockNow)
          BY <1>2, <3>1, <3>2 DEF L!RenewDue, L!Held, Safe, RenewsInTime
      <4>2. L!Leased(o) /\ lockRow.fingerprint = op[o].id /\ RenewsInTime(o)
          BY <1>2, <3>2, <4>1 DEF Safe
      <4>3. L!Leased(o)' /\ RenewsInTime(o)'
          BY <1>3, <3>1, <4>1, <4>2 DEF L!Leased, RenewsInTime
      <4>4. QED  BY <3>1, <4>2, <4>3 DEF Safe
    <3>3. ASSUME NEW o \in Requests, op[o].pc \notin L!Held PROVE Safe(o)'
        BY <3>1, <3>3 DEF Safe, L!Held
    <3>4. QED  BY <3>2, <3>3
  <2>3. ASSUME NEW o \in Requests, L!OperationStep(o) PROVE \A s \in Requests : Safe(s)'
    <3>1. CASE L!Create(o) /\ lockRow.id = 0
      <4>1. PICK n \in Nat : n = lockLastId + 1
          BY <1>3
      <4>2. L!Hold(o, n) /\ lockNow' = lockNow
          BY <3>1, <4>1 DEF L!Create
      <4>3. /\ lockRow'.id = n /\ lockRow'.status = "processing"
            /\ lockRow'.locked = op[o].start + Lease
          BY <1>3, <3>1, <4>1, CreatedRow DEF L!Create
      <4>4. QED  BY <1>1, <1>2, <1>3, <3>1, <4>2, <4>3, ClaimSafe
    <3>2. CASE L!Reclaim(o) /\ L!Reclaimable(lockRow, op[o].existing.id,
                                             op[o].existing.status, op[o].start)
      <4>1. PICK n \in Nat : n = op[o].existing.id
          BY <1>3
      <4>2. PICK x : x = op[o].existing.status
          OBVIOUS
      <4>3. L!Hold(o, n) /\ lockNow' = lockNow
          BY <3>2, <4>1 DEF L!Reclaim
      <4>4. lockRow' = L!TryReclaim(lockRow, n, x, op[o].start, L!LockedUntil(o), L!ExpiresAt(o))
            /\ L!Reclaimable(lockRow, n, x, op[o].start)
          BY <3>2, <4>1, <4>2 DEF L!Reclaim
      <4>5. /\ lockRow'.id = lockRow.id /\ lockRow'.status = "processing"
            /\ lockRow'.locked = op[o].start + Lease
          BY <1>3, <4>4, ReclaimedRow
      <4>6. lockRow.id = n /\ lockRow.locked <= op[o].start
          BY <4>4 DEF L!Reclaimable
      <4>7. lockRow.locked <= lockNow
          BY <1>3, <4>6, LockTypes DEF LockCoherent
      <4>8. QED  BY <1>1, <1>2, <1>3, <4>3, <4>5, <4>6, <4>7, ClaimSafe
    <3>3. CASE L!Renew(o)
        BY <1>2, <3>3, RenewSafe
    <3>4. CASE L!Release(o) \/ L!Crash(o)
      <4>1. op[o].pc \in L!Held /\ lockNow' = lockNow
          BY <3>4 DEF L!Release, L!Crash, L!Held
      <4>2. LockAlone(o) /\ op'[o].pc \in {"done", "crashed"}
        <5>1. L!End(o, "done") \/ L!End(o, "crashed")
            BY <3>4 DEF L!Release, L!Crash
        <5>2. QED  BY <1>3, <5>1, LockEnd
      <4>3. ASSUME NEW s \in Requests PROVE op'[s].pc \notin L!Held
        <5>1. CASE s = o
            BY <4>2, <5>1 DEF L!Held
        <5>2. CASE s # o
            BY <1>2, <4>1, <4>2, <5>2, NobodyElse DEF LockAlone
        <5>3. QED  BY <5>1, <5>2
      <4>4. QED  BY <4>3 DEF Safe, L!Held
    <3>5. CASE \/ L!Begin(o) \/ L!GetExisting(o) \/ L!Finish(o)
               \/ L!Create(o) /\ lockRow.id # 0
               \/ L!Reclaim(o) /\ ~L!Reclaimable(lockRow, op[o].existing.id,
                                                 op[o].existing.status, op[o].start)
      <4>1. UNCHANGED <<lockNow, lockRow, failures>>
          BY <3>5 DEF L!Begin, L!GetExisting, L!Finish, L!Create, L!Reclaim,
                      L!CreateProcessing, L!TryReclaim
      <4>2. /\ \A s \in Requests \ {o} : op'[s] = op[s]
            /\ op'[o].pc # "running"
            /\ op'[o].pc = "releasing" => /\ op[o].pc \in L!Held /\ op'[o].id = op[o].id
                                          /\ op'[o].record = op[o].record
        <5>1. CASE L!Begin(o)
            BY <1>3, <5>1 DEF L!Begin, L!Operation
        <5>2. CASE L!Goto(o, "get")
            BY <1>3, <5>2, LockGoto DEF LockAlone
        <5>3. CASE L!End(o, "unavailable") \/ L!End(o, "busy")
            BY <1>3, <5>3, LockEnd DEF LockAlone
        <5>4. CASE op' = [op EXCEPT ![o].pc = "reclaim", ![o].existing = lockRow]
            BY <1>3, <5>4 DEF L!Operation
        <5>5. CASE L!Finish(o)
          <6> DEFINE c == [op[o] EXCEPT !.pc = "releasing", !.renew = 0]
          <6>1. c.pc = "releasing" /\ c.id = op[o].id /\ c.record = op[o].record
              BY <1>3 DEF L!Operation
          <6>2. op' = [op EXCEPT ![o] = c] /\ op[o].pc \in L!Held
              BY <5>5 DEF L!Finish, L!Held
          <6> HIDE DEF c
          <6>3. QED  BY <1>3, <6>1, <6>2
        <5>6. QED  BY <3>5, <5>1, <5>2, <5>3, <5>4, <5>5 DEF L!GetExisting, L!Create, L!Reclaim
      <4>3. Safe(o)'
          BY <1>2, <4>1, <4>2 DEF Safe, L!Leased, L!Held
      <4>4. ASSUME NEW s \in Requests \ {o} PROVE Safe(s)'
          BY <1>2, <1>3, <4>1, <4>2, <4>4, SafeStays
      <4>5. QED  BY <4>3, <4>4
    <3>6. QED  BY <2>3, <3>1, <3>2, <3>3, <3>4, <3>5 DEF L!OperationStep
  <2>4. QED  BY <2>1, <2>2, <2>3 DEF L!Next
<1>5. \A o \in Requests : op'[o].pc \in L!Held => L!Leased(o)'
    BY <1>4 DEF Safe
<1>6. lapsed' = (lapsed \/ \E o \in Requests : op'[o].pc \in L!Held /\ ~L!Leased(o)')
    BY DEF L!Next
<1>7. QED  BY <1>2, <1>4, <1>5, <1>6

LEMMA NoLapseInvariance == ASSUME Patient PROVE L!Spec => []NoLapseYet
<1>1. LockInv /\ LockInv' /\ NoLapseYet /\ [L!Next]_(L!vars) => NoLapseYet'
  <2>1. SUFFICES ASSUME LockInv, LockInv', NoLapseYet, [L!Next]_(L!vars) PROVE NoLapseYet'
      OBVIOUS
  <2>2. CASE L!Next
      BY <2>1, <2>2, NoLapseStep
  <2>3. CASE UNCHANGED L!vars
    <3>1. UNCHANGED <<lockNow, lockRow, lockLastId, op, failures, lapsed, late, foreign>>
        BY <2>3 DEF L!vars
    <3>2. QED  BY <2>1, <3>1 DEF NoLapseYet, Safe, RenewsInTime, L!Leased
  <2>4. QED  BY <2>1, <2>2, <2>3
<1>2. L!Init => NoLapseYet
    BY LockInit
<1>3. QED  BY <1>1, <1>2, LockInvariance, PTL DEF L!Spec

\* A behaviour of the two users of the table is one of each.
LEMMA SideBySide == MCSpec => Spec /\ L!Spec
<1>1. MCInit => Init /\ L!Init
    BY DEF MCInit
<1>2. [MCNext]_<<part, vars, lockVars>> => [Next]_vars /\ [L!Next]_(L!vars)
  <2>1. MCNext => [Next]_vars /\ [L!Next]_(L!vars)
      BY DEF MCNext, vars, lockVars, L!vars
  <2>2. UNCHANGED <<part, vars, lockVars>> => [Next]_vars /\ [L!Next]_(L!vars)
      BY DEF vars, lockVars, L!vars
  <2>3. QED  BY <2>1, <2>2
<1>3. QED  BY <1>1, <1>2, PTL DEF MCSpec, Spec, L!Spec

(* The system operation lock of system_operation_lock_service.go admits one *)
(* operation at a time up to the first lapse of a lease, for any number of  *)
(* operations, any lease and renewal interval, over crashes, takeovers,     *)
(* cleanup rounds and operations that share an id.                          *)
THEOREM LockAdmitsOne == MCSpec => []ExclusionUntilLapse
<1>1. LockInv => ExclusionUntilLapse
    BY DEF LockInv, ExclusionUntilLapse
<1>2. QED  BY <1>1, SideBySide, LockInvariance, PTL

(* The first lapse has a cause that the new holder could have seen - a claim *)
(* too late to miss one renewal, or a row that kept another operation's id - *)
(* if the interval leaves room for a failed renewal, as the code's does for  *)
(* a lease over two seconds, and no more than one renewal fails.  With it:   *)
(* the types of both users, and whose answer a request is given again.       *)
THEOREM RecordsAreSound == ASSUME Patient PROVE MCSpec => []RecordsSound
<1>1. LockInv /\ NoLapseYet => L!TypeOK /\ L!LapseHasCause
    BY DEF LockInv, NoLapseYet, L!LapseHasCause
<1>2. Inv => TypeOK
    BY DEF Inv
<1>3. (TypeOK /\ ReplayedFromSameRequest) /\ (L!TypeOK /\ L!LapseHasCause) => RecordsSound
    BY DEF RecordsSound
<1>4. L!Spec => [](LockInv /\ NoLapseYet)
    BY LockInvariance, NoLapseInvariance, PTL
<1>5. QED
    BY <1>1, <1>2, <1>3, <1>4, SideBySide, InvIsInductive, ReplaysOwnResult, PTL
=============================================================================
