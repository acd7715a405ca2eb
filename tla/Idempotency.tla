---------------------------- MODULE Idempotency ----------------------------
(***************************************************************************)
(* IdempotencyCoordinator.Execute (service/idempotency.go): requests that  *)
(* carry the same idempotency key in the same scope, the row they share,   *)
(* the cleanup service and the clock.  A request captures `now` once, at   *)
(* the start of Execute, and computes locked_until and expires_at from it; *)
(* every repository call is a step of its own and may fail, before or      *)
(* after the statement took effect.                                        *)
(***************************************************************************)
EXTENDS IdempotencyRecords, FiniteSets

CONSTANTS Requests,           \* calls of Execute with this key
          Fingerprints,       \* what the calls ask for (method, route, actor, payload)
          TTL,                \* opts.TTL or DefaultTTL
          ProcessingTimeout,
          FailedRetryBackoff,
          MaxTime             \* bound of the model's clock

ASSUME TimesAssumption ==
    /\ TTL \in Nat \ {0}
    /\ ProcessingTimeout \in Nat \ {0}
    /\ FailedRetryBackoff \in Nat
    /\ MaxTime \in Nat

VARIABLES now,       \* the clock
          row,       \* the row of the key in idempotency_records
          lastId,    \* the sequence that numbers rows
          req,       \* the requests, see Request
          slow       \* history: some owner was too slow, see Late and Overdue

vars == <<now, row, lastId, req, slow>>

Running == {"execute", "executing", "markSucceeded", "markFailed"}
Calling == {"create", "get", "reclaimExpired", "getLatest", "reclaimFailed"}
Answers == {"executed", "replayed", "keyConflict", "inProgress", "retryBackoff",
            "unavailable", "failed"}
Stopped == Answers \cup {"new", "crashed"}

(* A stored body longer than MaxStoredResponseLen is cut, and a cut body   *)
(* no longer decodes.                                                      *)
Bodies == [by : Requests, cut : BOOLEAN]

Rows == [id : Nat, fingerprint : Fingerprints \cup {None}, status : Statuses,
         response : Bodies \cup {None}, locked : Nat, expires : Nat]

(* effect is history: what became of the caller's executor.                *)
Request == [pc : Running \cup Calling \cup Stopped, fp : Fingerprints,
            start : Nat, existing : Rows, id : Nat, replay : Bodies \cup {None},
            effect : {"none", "started", "succeeded", "failed"}, cut : BOOLEAN]

Init ==
    /\ now = 0
    /\ row = NoRow
    /\ lastId = 0
    /\ req \in [Requests -> {[pc |-> "new", fp |-> f, start |-> 0, existing |-> NoRow,
                              id |-> 0, replay |-> None, effect |-> "none",
                              cut |-> FALSE] : f \in Fingerprints}]
    /\ slow = FALSE

ExpiresAt(r)   == req[r].start + TTL
LockedUntil(r) == req[r].start + ProcessingTimeout

(* A step of request r to pc, the row changed as given.                    *)
Goto(r, pc) == req' = [req EXCEPT ![r].pc = pc]
StoreFails(r) == Goto(r, "unavailable")

Begin(r) ==
    /\ req[r].pc = "new"
    /\ req' = [req EXCEPT ![r].pc = "create", ![r].start = now]
    /\ UNCHANGED <<now, row, lastId>>

(* CreateProcessing: the first caller of a key inserts the row.            *)
Create(r) ==
    /\ req[r].pc = "create"
    /\ UNCHANGED now
    /\ \/ /\ row' = CreateProcessing(row, lastId + 1, req[r].fp, LockedUntil(r), ExpiresAt(r))
          /\ IF row.id = 0
             THEN /\ lastId' = lastId + 1
                  /\ \/ req' = [req EXCEPT ![r].pc = "execute", ![r].id = lastId + 1]
                     \/ StoreFails(r)
             ELSE /\ UNCHANGED lastId
                  /\ Goto(r, "get")
       \/ StoreFails(r) /\ UNCHANGED <<row, lastId>>

(* The switch on existing.Status, for a row that was not reclaimed.        *)
Decide(r, existing) ==
    CASE existing.status = "succeeded" /\ ~existing.response.cut ->
           req' = [req EXCEPT ![r].pc = "replayed", ![r].replay = existing.response]
      [] existing.status = "succeeded" /\ existing.response.cut ->
           StoreFails(r)
      [] existing.status = "processing" ->
           Goto(r, "inProgress")
      [] existing.status = "failed_retryable" /\ existing.locked > req[r].start ->
           Goto(r, "retryBackoff")
      [] OTHER ->
           req' = [req EXCEPT ![r].pc = "reclaimFailed", ![r].existing = existing]

(* Mutant: the fingerprint is not compared.                                *)
GetExistingAnyFingerprint(r) ==
    /\ req[r].pc = "get"
    /\ UNCHANGED <<now, row, lastId>>
    /\ \/ row.id = 0 /\ StoreFails(r)
       \/ /\ row.id # 0 /\ row.expires <= req[r].start
          /\ req' = [req EXCEPT ![r].pc = "reclaimExpired", ![r].existing = row]
       \/ row.id # 0 /\ row.expires > req[r].start /\ Decide(r, row)

GetExisting(r) ==
    /\ req[r].pc = "get"
    /\ UNCHANGED <<now, row, lastId>>
    /\ \/ row.id = 0 /\ StoreFails(r)
       \/ row.id # 0 /\ row.fingerprint # req[r].fp /\ Goto(r, "keyConflict")
       \/ /\ row.id # 0 /\ row.fingerprint = req[r].fp /\ row.expires <= req[r].start
          /\ req' = [req EXCEPT ![r].pc = "reclaimExpired", ![r].existing = row]
       \/ /\ row.id # 0 /\ row.fingerprint = req[r].fp /\ row.expires > req[r].start
          /\ Decide(r, row)
       \/ StoreFails(r)

(* TryReclaim from the status that was read; its answer decides the next   *)
(* pc.                                                                     *)
Reclaim(r, from, lost) ==
    /\ UNCHANGED <<now, lastId>>
    /\ \/ /\ row' = TryReclaim(row, req[r].existing.id, from, req[r].start,
                               LockedUntil(r), ExpiresAt(r))
          /\ IF Reclaimable(row, req[r].existing.id, from, req[r].start)
             THEN \/ req' = [req EXCEPT ![r].pc = "execute", ![r].id = req[r].existing.id]
                  \/ StoreFails(r)
             ELSE Goto(r, lost)
       \/ StoreFails(r) /\ UNCHANGED row

ReclaimExpired(r) ==
    /\ req[r].pc = "reclaimExpired"
    /\ Reclaim(r, req[r].existing.status, "getLatest")

GetLatest(r) ==
    /\ req[r].pc = "getLatest"
    /\ UNCHANGED <<now, row, lastId>>
    /\ \/ row.id = 0 /\ StoreFails(r)
       \/ row.id # 0 /\ row.fingerprint # req[r].fp /\ Goto(r, "keyConflict")
       \/ row.id # 0 /\ row.fingerprint = req[r].fp /\ Decide(r, row)
       \/ StoreFails(r)

ReclaimFailed(r) ==
    /\ req[r].pc = "reclaimFailed"
    /\ Reclaim(r, "failed_retryable", "inProgress")

(* The caller's executor: from here its side effect may have happened.     *)
Execute(r) ==
    /\ req[r].pc = "execute"
    /\ req' = [req EXCEPT ![r].pc = "executing", ![r].effect = "started"]
    /\ UNCHANGED <<now, row, lastId>>

ExecuteReturns(r) ==
    /\ req[r].pc = "executing"
    /\ \/ req' = [req EXCEPT ![r].pc = "markFailed", ![r].effect = "failed"]
       \/ \E cut \in BOOLEAN :
             req' = [req EXCEPT ![r].pc = "markSucceeded", ![r].effect = "succeeded",
                                ![r].cut = cut]
    /\ UNCHANGED <<now, row, lastId>>

(* MarkFailedRetryable; its error is only counted, the caller gets the     *)
(* executor's error either way.                                            *)
MarkFailed(r) ==
    /\ req[r].pc = "markFailed"
    /\ Goto(r, "failed")
    /\ \/ row' = MarkFailedRetryable(row, req[r].id, now + FailedRetryBackoff, ExpiresAt(r))
       \/ UNCHANGED row
    /\ UNCHANGED <<now, lastId>>

(* Mutant: when the success cannot be stored, the key is opened for a      *)
(* retry.                                                                  *)
MarkDoneOrRetry(r) ==
    /\ req[r].pc = "markSucceeded"
    /\ \/ /\ row' = MarkSucceeded(row, req[r].id, [by |-> r, cut |-> req[r].cut], ExpiresAt(r))
          /\ Goto(r, "executed")
       \/ Goto(r, "markFailed") /\ UNCHANGED row
    /\ UNCHANGED <<now, lastId>>

MarkDone(r) ==
    /\ req[r].pc = "markSucceeded"
    /\ \/ /\ row' = MarkSucceeded(row, req[r].id, [by |-> r, cut |-> req[r].cut], ExpiresAt(r))
          /\ Goto(r, "executed") \/ StoreFails(r)
       \/ StoreFails(r) /\ UNCHANGED row
    /\ UNCHANGED <<now, lastId>>

(* A crash while a repository call is under way leaves what a store error  *)
(* leaves, so only the owner's crash is an action.                         *)
Crash(r) ==
    /\ req[r].pc \in Running
    /\ Goto(r, "crashed")
    /\ UNCHANGED <<now, row, lastId>>

(* IdempotencyCleanupService.cleanupOnce.                                  *)
Cleanup ==
    /\ row' = DeleteExpired(row, now)
    /\ UNCHANGED <<now, lastId, req>>

Tick ==
    /\ now < MaxTime
    /\ now' = now + 1
    /\ UNCHANGED <<row, lastId, req>>

(* A request is overdue when it still owns the key at its expires_at, and  *)
(* late when it became the owner only after the locked_until it computed   *)
(* at its start: TryReclaim does not look at expires_at, so a row claimed  *)
(* that late can be taken again by whoever read it before.                 *)
Overdue(r) == req[r].pc \in Running /\ ExpiresAt(r) <= now
Late(r)    == req[r].pc = "execute" /\ LockedUntil(r) <= now

RequestStep(r) ==
    \/ Begin(r) \/ Create(r) \/ GetExisting(r) \/ ReclaimExpired(r) \/ GetLatest(r)
    \/ ReclaimFailed(r) \/ Execute(r) \/ ExecuteReturns(r) \/ MarkFailed(r)
    \/ MarkDone(r) \/ Crash(r)

Next ==
    /\ Cleanup \/ Tick \/ \E r \in Requests : RequestStep(r)
    /\ slow' = (slow \/ \E r \in Requests : Overdue(r)' \/ (Late(r)' /\ req[r].pc \in Calling))

Spec == Init /\ [][Next]_vars

-----------------------------------------------------------------------------
(* Types of the variables.                                                 *)
TypeOK ==
    /\ now \in Nat /\ lastId \in Nat
    /\ row \in Rows
    /\ req \in [Requests -> Request]
    /\ slow \in BOOLEAN

(* As long as every owner claims within ProcessingTimeout and ends before  *)
(* its record expires, no two requests run the executor of one key at the  *)
(* same time, whatever crashes, store errors, cleanup rounds and reclaims  *)
(* came before.                                                            *)
OneExecutionAtATime ==
    ~slow => \A r, s \in Requests :
                   req[r].pc \in Running /\ req[s].pc \in Running => r = s

(* s starts its executor although r ran it without a failure (or died      *)
(* inside it, so that nobody knows) and the record of that run has not     *)
(* expired.                                                                *)
StartsTooEarly(s, r) ==
    /\ req[s].effect = "none" /\ req'[s].effect = "started" /\ ~slow'
    /\ req[r].effect \in {"started", "succeeded"} /\ ExpiresAt(r) > now

(* TryReclaim asks for the status it read and a free lock: a record        *)
(* reclaimed and finished by r in between has both again, and another      *)
(* request q that found it expired and succeeded takes it over.            *)
TakenOver(r) ==
    \E q \in Requests \ {r} :
       /\ req[q].existing.id = req[r].id /\ req[q].existing.status = "succeeded"
       /\ req[q].pc \in Running \cup {"executed", "failed", "crashed", "unavailable"}

(* A lost answer and a failed mark are no reason to do the work of a key   *)
(* twice before its record expires.  The code excepts one case: the record *)
(* was taken over by a request that read its predecessor just expired.     *)
(* Same proviso.                                                           *)
NoSecondEffectBeforeExpiry ==
    [][\A s \in Requests : \A r \in Requests \ {s} : StartsTooEarly(s, r) => TakenOver(r)]_vars

(* A replayed answer is the stored result of a request that asked for the  *)
(* same thing and whose executor did succeed, over-running owners and      *)
(* deleted rows included.                                                  *)
ReplayedFromSameRequest ==
    \A r \in Requests :
       req[r].pc = "replayed" =>
          LET by == req[r].replay.by
          IN  req[by].effect = "succeeded" /\ req[by].fp = req[r].fp
=============================================================================
