---------------------------- MODULE TokenRefresh ----------------------------
(***************************************************************************)
(* The OAuth credentials of one account whose supplier rotates the refresh *)
(* token.  OAuthRefreshAPI.RefreshIfNeeded refreshes under a mutex of the  *)
(* process and a Redis lock with a TTL and no owner; its callers are the   *)
(* periodic TokenRefreshService and the token providers of the request     *)
(* path.  Beside it, a 401 of a request rewrites the stored credentials    *)
(* (RateLimitService.HandleUpstreamError) and an administrator refreshes   *)
(* without either lock (AccountHandler.Refresh).                           *)
(* A generation stands for one pair of access and refresh token.           *)
(***************************************************************************)
EXTENDS Naturals, FiniteSets

CONSTANTS Instances,         \* gateway processes
          Refreshers,        \* TokenRefreshService, one per process at most
          Requests,          \* requests to the account
          Administrators,    \* calls of AccountHandler.Refresh
          InstanceOf,        \* the process each of them runs in
          Lenient,           \* requests with the refresh policy of Claude and OpenAI, not that
                             \* of Gemini and Antigravity
          MaxGen,            \* bound on the generations the supplier issues
          MaxFaults,         \* bound on failed calls and crashes
          NoOne              \* a mutex that is free

Procs == Refreshers \cup Requests \cup Administrators

ASSUME RefreshAssumption ==
    /\ InstanceOf \in [Procs -> Instances] /\ NoOne \notin Procs
    /\ Refreshers \cap Requests = {} /\ Procs \cap Instances = {}
    /\ Administrators \cap (Refreshers \cup Requests) = {}
    /\ Lenient \subseteq Requests /\ MaxGen \in Nat \ {0} /\ MaxFaults \in Nat

VARIABLES live,      \* the generation whose refresh token the supplier accepts
          aged,      \* generations up to here are inside the refresh window
          row,       \* the account's row
          cache,     \* the cached access token, 0 when there is none
          redis,     \* the refresh lock key exists
          mutex,     \* the local lock of each process
          p,         \* the callers
          faults,    \* faults so far
          causes     \* history: what happened that may cost the account its token

vars == <<live, aged, row, cache, redis, mutex, p, faults, causes>>

Generations == 1..MaxGen

(* ver is _token_version; due, expires_at was set to now by a 401; paused, *)
(* temp_unschedulable_until lies ahead.                                    *)
Accounts == [gen : Generations, ver : 0..MaxGen, due : BOOLEAN, paused : BOOLEAN,
             status : {"active", "error"}]

(* lost, the live refresh token was never stored; overwritten, an older one*)
(* was stored over it; blind, the recovery could not read the row; slow,   *)
(* the lock expired under its holder; degraded, no lock was taken;         *)
(* unlocked, an administrator refreshed.                                   *)
Causes == {"lost", "overwritten", "blind", "slow", "degraded", "unlocked"}

InApi == {"lock", "reread", "refresh", "recover", "persist", "release"}

(* acct is the account object the caller was given, fresh the one the API  *)
(* reads again; shared, the second read failed and both are one object.    *)
(* next is where the caller goes on once the API returned.                 *)
Caller == [pc : InApi \cup {"idle", "listed", "lookup", "enter", "wait", "post", "failed",
                            "rejected", "check", "fill", "send", "denied", "rewrite", "pause",
                            "save", "drop"},
           acct : Accounts, fresh : Accounts, shared : BOOLEAN, got : 0..MaxGen,
           used : 0..MaxGen, locked : BOOLEAN,
           next : {"idle", "wait", "post", "failed", "rejected", "check"}]

NewAccount == [gen |-> 1, ver |-> 0, due |-> FALSE, paused |-> FALSE, status |-> "active"]
IdleCaller == [pc |-> "idle", acct |-> NewAccount, fresh |-> NewAccount, shared |-> FALSE,
               got |-> 0, used |-> 0, locked |-> FALSE, next |-> "idle"]

Init ==
    /\ live = 1 /\ aged = 0 /\ cache = 0 /\ faults = 0
    /\ row = NewAccount
    /\ redis = FALSE
    /\ mutex = [i \in Instances |-> NoOne]
    /\ p = [q \in Procs |-> IdleCaller]
    /\ causes = {}

NeedsRefresh(a) == a.due \/ a.gen <= aged

Goto(q, pc) == p' = [p EXCEPT ![q].pc = pc]

(* What a caller leaves behind when it is done.                            *)
Finish(q)   == p' = [p EXCEPT ![q] = IdleCaller]

Fault == faults < MaxFaults /\ faults' = faults + 1

Keep == UNCHANGED <<live, aged>>

----------------------------------------------------------------------------
(* The callers before the API.                                             *)

(* processRefresh: ListActive; the account is looked at later.             *)
List(q) ==
    /\ q \in Refreshers /\ p[q].pc = "idle" /\ row.status = "active"
    /\ p' = [p EXCEPT ![q].pc = "listed", ![q].acct = row]
    /\ Keep /\ UNCHANGED <<row, cache, redis, mutex, faults, causes>>

Consider(q) ==
    /\ p[q].pc = "listed"
    /\ IF NeedsRefresh(p[q].acct) THEN Goto(q, "enter") ELSE Finish(q)
    /\ Keep /\ UNCHANGED <<row, cache, redis, mutex, faults, causes>>

(* The scheduler gives a request an account that is active and not paused. *)
Select(q) ==
    /\ q \in Requests /\ p[q].pc = "idle" /\ row.status = "active" /\ ~row.paused
    /\ p' = [p EXCEPT ![q].pc = "lookup", ![q].acct = row, ![q].fresh = row]
    /\ Keep /\ UNCHANGED <<row, cache, redis, mutex, faults, causes>>

Send(q, gen) == p' = [p EXCEPT ![q].pc = "send", ![q].used = gen]

(* GetAccessToken: the cache first, also on a read error a miss.           *)
Lookup(q) ==
    /\ p[q].pc = "lookup"
    /\ IF cache # 0 THEN Send(q, cache)
       ELSE Goto(q, IF NeedsRefresh(p[q].acct) THEN "enter" ELSE "check")
    /\ Keep /\ UNCHANGED <<row, cache, redis, mutex, faults, causes>>

----------------------------------------------------------------------------
(* RefreshIfNeeded.                                                        *)

Enter(q) ==
    LET i == InstanceOf[q] IN
    /\ p[q].pc = "enter" /\ mutex[i] = NoOne
    /\ mutex' = [mutex EXCEPT ![i] = q]
    /\ Goto(q, "lock")
    /\ Keep /\ UNCHANGED <<row, cache, redis, faults, causes>>

(* Return from the API: the deferred release of the Redis lock, if it was  *)
(* taken, comes first, then the mutex.                                     *)
Return(q, next) == p' = [p EXCEPT ![q].pc = "release", ![q].next = next]

LockHeldNext(q) == IF q \in Refreshers THEN "idle" ELSE "wait"

(* Mutant: the Redis lock is set and its answer not looked at.             *)
AcquireBlindly(q) ==
    /\ p[q].pc = "lock"
    /\ redis' = TRUE
    /\ p' = [p EXCEPT ![q].pc = "reread", ![q].locked = TRUE]
    /\ Keep /\ UNCHANGED <<row, cache, mutex, faults, causes>>

Acquire(q) ==
    /\ p[q].pc = "lock"
    /\ IF redis
       THEN Return(q, LockHeldNext(q)) /\ UNCHANGED redis
       ELSE redis' = TRUE /\ p' = [p EXCEPT ![q].pc = "reread", ![q].locked = TRUE]
    /\ Keep /\ UNCHANGED <<row, cache, mutex, faults, causes>>

(* A Redis error degrades to a refresh under the local mutex alone.        *)
AcquireFails(q) ==
    /\ p[q].pc = "lock" /\ Fault
    /\ Goto(q, "reread")
    /\ causes' = causes \cup {"degraded"}
    /\ Keep /\ UNCHANGED <<row, cache, redis, mutex>>

UnchangedNext(q) == IF q \in Refreshers THEN "idle" ELSE "check"

(* With the account a, read again or passed in, go on or return.           *)
Judge(q, a, shared) ==
    p' = [p EXCEPT ![q].pc = IF NeedsRefresh(a) THEN "refresh" ELSE "release",
                   ![q].next = UnchangedNext(q), ![q].fresh = a, ![q].shared = shared]

Reread(q) ==
    /\ p[q].pc = "reread"
    /\ Judge(q, row, FALSE)
    /\ Keep /\ UNCHANGED <<row, cache, redis, mutex, faults, causes>>

RereadFails(q) ==
    /\ p[q].pc = "reread" /\ Fault
    /\ Judge(q, p[q].acct, TRUE)
    /\ Keep /\ UNCHANGED <<row, cache, redis, mutex, causes>>

ErrorNext(q, kind) ==
    IF q \in Refreshers THEN kind ELSE IF q \in Lenient THEN "check" ELSE "idle"

(* The supplier accepts the live refresh token and issues the next pair,   *)
(* or answers invalid_grant.                                               *)
Refresh(q) ==
    /\ p[q].pc = "refresh"
    /\ IF p[q].fresh.gen = live
       THEN /\ live < MaxGen
            /\ live' = live + 1
            /\ p' = [p EXCEPT ![q].pc = "persist", ![q].got = live + 1]
       ELSE UNCHANGED live /\ Goto(q, "recover")
    /\ UNCHANGED <<aged, row, cache, redis, mutex, faults, causes>>

(* The call fails in a way that may be retried, before or after the        *)
(* supplier rotated the token.                                             *)
RefreshFails(q) ==
    /\ p[q].pc = "refresh" /\ Fault
    /\ Return(q, ErrorNext(q, "failed"))
    /\ \/ UNCHANGED <<live, causes>>
       \/ /\ p[q].fresh.gen = live /\ live < MaxGen
          /\ live' = live + 1
          /\ causes' = causes \cup {"lost"}
    /\ UNCHANGED <<aged, row, cache, redis, mutex>>

(* Mutant: invalid_grant is never taken for a race.                        *)
RecoverNever(q) ==
    /\ p[q].pc = "recover"
    /\ Return(q, ErrorNext(q, "rejected"))
    /\ Keep /\ UNCHANGED <<row, cache, redis, mutex, faults, causes>>

(* tryRecoverFromRefreshRace: another refresh token in the row means that  *)
(* another worker refreshed.                                               *)
Recover(q) ==
    /\ p[q].pc = "recover"
    /\ IF row.gen # p[q].fresh.gen
       THEN p' = [p EXCEPT ![q].pc = "release", ![q].next = UnchangedNext(q),
                           ![q].fresh = row]
       ELSE Return(q, ErrorNext(q, "rejected"))
    /\ Keep /\ UNCHANGED <<row, cache, redis, mutex, faults, causes>>

RecoverFails(q) ==
    /\ p[q].pc = "recover" /\ Fault
    /\ Return(q, ErrorNext(q, "rejected"))
    /\ causes' = causes \cup {"blind"}
    /\ Keep /\ UNCHANGED <<row, cache, redis, mutex>>

(* Mutant: the version number is taken from a counter one ahead.           *)
RefreshedAhead(a, gen) == [a EXCEPT !.gen = gen, !.ver = gen + 1, !.due = FALSE]

Refreshed(a, gen) == [a EXCEPT !.gen = gen, !.ver = gen, !.due = FALSE]

(* persistAccountCredentials sets the object's credentials, then the row's.*)
Held(q) ==
    LET new == Refreshed(p[q].fresh, p[q].got) IN
    [p[q] EXCEPT !.pc = "release", !.fresh = new, !.got = 0,
                 !.acct = IF p[q].shared THEN new ELSE @]

SuccessNext(q) == IF q \in Refreshers THEN "post" ELSE "check"

(* Mutant: MergeCredentials lets the old refresh token win.                *)
PersistMerged(q) ==
    /\ p[q].pc = "persist"
    /\ row' = [row EXCEPT !.ver = p[q].got, !.due = FALSE]
    /\ p' = [p EXCEPT ![q] = [Held(q) EXCEPT !.next = SuccessNext(q)]]
    /\ Keep /\ UNCHANGED <<cache, redis, mutex, faults, causes>>

Persist(q) ==
    /\ p[q].pc = "persist"
    /\ row' = Refreshed(row, p[q].got)
    /\ p' = [p EXCEPT ![q] = [Held(q) EXCEPT !.next = SuccessNext(q)]]
    /\ Keep /\ UNCHANGED <<cache, redis, mutex, faults, causes>>

PersistFails(q) ==
    /\ p[q].pc = "persist" /\ Fault
    /\ p' = [p EXCEPT ![q] = [Held(q) EXCEPT !.next = ErrorNext(q, "failed")]]
    /\ causes' = causes \cup {"lost"}
    /\ Keep /\ UNCHANGED <<row, cache, redis, mutex>>

(* Mutant: a failed refresh keeps the local mutex.                         *)
ReleaseRedisOnly(q) ==
    LET after == IF p[q].next = "idle" THEN IdleCaller
                 ELSE [p[q] EXCEPT !.pc = p[q].next, !.locked = FALSE, !.shared = FALSE,
                                   !.next = "idle"] IN
    /\ p[q].pc = "release"
    /\ p' = [p EXCEPT ![q] = after]
    /\ redis' = (redis /\ ~p[q].locked)
    /\ UNCHANGED mutex
    /\ Keep /\ UNCHANGED <<row, cache, faults, causes>>

(* ReleaseRefreshLock deletes the key, whoever set it; its error is        *)
(* dropped and the key then lives until its TTL.                           *)
Release(q) ==
    LET after == IF p[q].next = "idle" THEN IdleCaller
                 ELSE [p[q] EXCEPT !.pc = p[q].next, !.locked = FALSE, !.shared = FALSE,
                                   !.next = "idle"] IN
    /\ p[q].pc = "release"
    /\ p' = [p EXCEPT ![q] = after]
    /\ mutex' = [mutex EXCEPT ![InstanceOf[q]] = NoOne]
    /\ \/ redis' = (redis /\ ~p[q].locked) /\ UNCHANGED faults
       \/ p[q].locked /\ Fault /\ UNCHANGED redis
    /\ Keep /\ UNCHANGED <<row, cache, causes>>

----------------------------------------------------------------------------
(* TokenRefreshService after the API.                                      *)

(* postRefreshActions: the pause ends, the cached token goes; the error of *)
(* the delete is dropped.                                                  *)
PostRefresh(q) ==
    /\ p[q].pc = "post"
    /\ row' = [row EXCEPT !.paused = @ /\ ~p[q].fresh.paused]
    /\ \/ cache' = 0 /\ UNCHANGED faults
       \/ Fault /\ UNCHANGED cache
    /\ Finish(q)
    /\ Keep /\ UNCHANGED <<redis, mutex, causes>>

(* A retryable error: again, or after MaxRetries a pause.                  *)
Retry(q) ==
    /\ p[q].pc = "failed"
    /\ Goto(q, "enter")
    /\ Keep /\ UNCHANGED <<row, cache, redis, mutex, faults, causes>>

GiveUp(q) ==
    /\ p[q].pc = "failed"
    /\ row' = [row EXCEPT !.paused = TRUE]
    /\ Finish(q)
    /\ Keep /\ UNCHANGED <<cache, redis, mutex, faults, causes>>

(* Mutant: the whole account object is written with the status.            *)
SetErrorWhole(q) ==
    /\ p[q].pc = "rejected"
    /\ row' = [p[q].acct EXCEPT !.status = "error"]
    /\ Finish(q)
    /\ Keep /\ UNCHANGED <<cache, redis, mutex, faults, causes>>

(* A non-retryable error disables the account.                             *)
SetError(q) ==
    /\ p[q].pc = "rejected"
    /\ \/ row' = [row EXCEPT !.status = "error"] /\ UNCHANGED faults
       \/ Fault /\ UNCHANGED row
    /\ Finish(q)
    /\ Keep /\ UNCHANGED <<cache, redis, mutex, causes>>

----------------------------------------------------------------------------
(* The token provider after the API.                                       *)

(* The lock was held: the lenient policy looks into the cache once more.   *)
Wait(q) ==
    /\ p[q].pc = "wait"
    /\ IF q \in Lenient /\ cache # 0 THEN Send(q, cache) ELSE Goto(q, "check")
    /\ Keep /\ UNCHANGED <<row, cache, redis, mutex, faults, causes>>

(* CheckTokenVersion: a newer version in the row is used and not cached; a *)
(* failed read counts as current.                                          *)
CheckTokenVersion(q) ==
    /\ p[q].pc = "check"
    /\ \/ /\ IF row.ver > p[q].fresh.ver THEN Send(q, row.gen) ELSE Goto(q, "fill")
          /\ UNCHANGED faults
       \/ Fault /\ Goto(q, "fill")
    /\ Keep /\ UNCHANGED <<row, cache, redis, mutex, causes>>

SetAccessToken(q) ==
    /\ p[q].pc = "fill"
    /\ \/ cache' = p[q].fresh.gen /\ UNCHANGED faults
       \/ Fault /\ UNCHANGED cache
    /\ Send(q, p[q].fresh.gen)
    /\ Keep /\ UNCHANGED <<row, redis, mutex, causes>>

(* The supplier answers, or rejects a token it replaced or that aged.      *)
Answer(q) ==
    /\ p[q].pc = "send"
    /\ \/ Finish(q)
       \/ (p[q].used < live \/ p[q].used <= aged) /\ Goto(q, "denied")
    /\ Keep /\ UNCHANGED <<row, cache, redis, mutex, faults, causes>>

(* HandleUpstreamError, 401 of an OAuth account: drop the cached token,    *)
(* write the credentials the request was given with expires_at = now,      *)
(* pause.                                                                  *)
InvalidateToken(q) ==
    /\ p[q].pc = "denied"
    /\ \/ cache' = 0 /\ UNCHANGED faults
       \/ Fault /\ UNCHANGED cache
    /\ Goto(q, "rewrite")
    /\ Keep /\ UNCHANGED <<row, redis, mutex, causes>>

ForceRefresh(q) ==
    LET mine == p[q].acct IN
    /\ p[q].pc = "rewrite"
    /\ \/ /\ row' = [row EXCEPT !.gen = mine.gen, !.ver = mine.ver, !.due = TRUE]
          /\ causes' = IF mine.gen < row.gen THEN causes \cup {"overwritten"} ELSE causes
          /\ UNCHANGED faults
       \/ Fault /\ UNCHANGED <<row, causes>>
    /\ Goto(q, "pause")
    /\ Keep /\ UNCHANGED <<cache, redis, mutex>>

SetTempUnschedulable(q) ==
    /\ p[q].pc = "pause"
    /\ row' = [row EXCEPT !.paused = TRUE]
    /\ Finish(q)
    /\ Keep /\ UNCHANGED <<cache, redis, mutex, faults, causes>>

----------------------------------------------------------------------------
(* AccountHandler.Refresh: no lock, no second read, the old version number.*)

AdminRefresh(q) ==
    /\ q \in Administrators /\ p[q].pc = "idle"
    /\ p' = [p EXCEPT ![q].pc = "refresh", ![q].acct = row, ![q].fresh = row]
    /\ causes' = causes \cup {"unlocked"}
    /\ Keep /\ UNCHANGED <<row, cache, redis, mutex, faults>>

AdminCalls(q) ==
    /\ q \in Administrators /\ p[q].pc = "refresh"
    /\ IF p[q].fresh.gen = live
       THEN /\ live < MaxGen
            /\ live' = live + 1
            /\ p' = [p EXCEPT ![q].pc = "save", ![q].got = live + 1]
       ELSE UNCHANGED live /\ Finish(q)
    /\ UNCHANGED <<aged, row, cache, redis, mutex, faults, causes>>

AdminAnswerLost(q) ==
    /\ q \in Administrators /\ p[q].pc = "refresh" /\ Fault
    /\ p[q].fresh.gen = live /\ live < MaxGen
    /\ live' = live + 1
    /\ causes' = causes \cup {"lost"}
    /\ Finish(q)
    /\ UNCHANGED <<aged, row, cache, redis, mutex>>

AdminSave(q) ==
    /\ p[q].pc = "save"
    /\ \/ /\ row' = [row EXCEPT !.gen = p[q].got, !.ver = p[q].fresh.ver, !.due = FALSE]
          /\ p' = [p EXCEPT ![q].pc = "drop", ![q].got = 0]
          /\ UNCHANGED <<faults, causes>>
       \/ /\ Fault /\ Finish(q)
          /\ causes' = causes \cup {"lost"}
          /\ UNCHANGED row
    /\ Keep /\ UNCHANGED <<cache, redis, mutex>>

AdminInvalidates(q) ==
    /\ p[q].pc = "drop"
    /\ \/ cache' = 0 /\ UNCHANGED faults
       \/ Fault /\ UNCHANGED cache
    /\ Finish(q)
    /\ Keep /\ UNCHANGED <<row, redis, mutex, causes>>

----------------------------------------------------------------------------
(* Time, and the end of a process.                                         *)

Age ==
    /\ aged < live /\ aged < MaxGen - 1
    /\ aged' = aged + 1
    /\ UNCHANGED <<live, row, cache, redis, mutex, p, faults, causes>>

CacheExpires ==
    /\ cache # 0
    /\ cache' = 0
    /\ Keep /\ UNCHANGED <<row, redis, mutex, p, faults, causes>>

(* The TTL of the lock passes; its holder, if it is still at work, is slow.*)
LockExpires ==
    /\ redis
    /\ redis' = FALSE
    /\ causes' = IF \E q \in Procs : p[q].locked THEN causes \cup {"slow"} ELSE causes
    /\ Keep /\ UNCHANGED <<row, cache, mutex, p, faults>>

PauseEnds ==
    /\ row.paused
    /\ row' = [row EXCEPT !.paused = FALSE]
    /\ Keep /\ UNCHANGED <<cache, redis, mutex, p, faults, causes>>

Crash(i) ==
    LET dead == {q \in Procs : InstanceOf[q] = i} IN
    /\ \E q \in dead : p[q].pc # "idle"
    /\ Fault
    /\ p' = [q \in Procs |-> IF q \in dead THEN IdleCaller ELSE p[q]]
    /\ mutex' = [mutex EXCEPT ![i] = NoOne]
    /\ causes' = IF \E q \in dead : p[q].got # 0 THEN causes \cup {"lost"} ELSE causes
    /\ Keep /\ UNCHANGED <<row, cache, redis>>

----------------------------------------------------------------------------
Api(q) ==
    \/ Enter(q) \/ Acquire(q) \/ AcquireFails(q)
    \/ Reread(q) \/ RereadFails(q)
    \/ q \notin Administrators /\ (Refresh(q) \/ RefreshFails(q))
    \/ Recover(q) \/ RecoverFails(q)
    \/ Persist(q) \/ PersistFails(q) \/ Release(q)

Service(q) ==
    \/ List(q) \/ Consider(q) \/ PostRefresh(q) \/ Retry(q) \/ GiveUp(q) \/ SetError(q)

Request(q) ==
    \/ Select(q) \/ Lookup(q) \/ Wait(q) \/ CheckTokenVersion(q) \/ SetAccessToken(q)
    \/ Answer(q) \/ InvalidateToken(q) \/ ForceRefresh(q) \/ SetTempUnschedulable(q)

Administrator(q) ==
    \/ AdminRefresh(q) \/ AdminCalls(q) \/ AdminAnswerLost(q) \/ AdminSave(q) \/ AdminInvalidates(q)

Step(q) == Api(q) \/ Service(q) \/ Request(q) \/ Administrator(q)

Next ==
    \/ \E q \in Procs : Step(q)
    \/ Age \/ CacheExpires \/ LockExpires \/ PauseEnds
    \/ \E i \in Instances : Crash(i)

Spec == Init /\ [][Next]_vars

(* The background loop comes round, a call returns, a mutex is handed on   *)
(* and the key of the lock expires.  Requests, administrators and faults   *)
(* need not happen.                                                        *)
Fairness ==
    /\ \A q \in Refreshers : WF_vars(Api(q) \/ Service(q)) /\ SF_vars(Enter(q))
    /\ \A q \in Requests : WF_vars(Api(q))
    /\ WF_vars(LockExpires)

FairSpec == Spec /\ Fairness

----------------------------------------------------------------------------
TypeOK ==
    /\ live \in Generations /\ aged \in 0..MaxGen
    /\ row \in Accounts
    /\ cache \in 0..MaxGen
    /\ redis \in BOOLEAN
    /\ mutex \in [Instances -> Procs \cup {NoOne}]
    /\ p \in [Procs -> Caller]
    /\ faults \in 0..MaxFaults
    /\ causes \subseteq Causes

----------------------------------------------------------------------------
Working(q) == q \notin Administrators /\ p[q].pc \in {"refresh", "recover", "persist"}

(* Two refreshes of one account never overlap, within a process or across  *)
(* them, unless Redis failed or the lock expired under its holder          *)
(* (RefreshIfNeeded; the lock has no owner to be checked).                 *)
OneRefreshAtATime ==
    \A q, r \in Procs : q # r /\ Working(q) /\ Working(r) =>
        /\ InstanceOf[q] # InstanceOf[r]
        /\ causes \cap {"slow", "degraded"} # {}

(* The refresh token the supplier accepts is the stored one, or is in the  *)
(* hands of a caller about to store it, unless an answer or a write was    *)
(* lost or a 401 wrote old credentials back.  It holds across slow holders,*)
(* missing locks and administrators (Refresh, persistAccountCredentials).  *)
LiveTokenKept ==
    \/ causes \cap {"lost", "overwritten"} # {}
    \/ row.gen = live
    \/ \E q \in Procs : p[q].got = live

(* An account is taken out of service for good only after one of the       *)
(* causes: stale lists and snapshots, failed second reads and crashes that *)
(* lose no token are made good by the second read and by                   *)
(* tryRecoverFromRefreshRace (refreshWithRetry, SetError).                 *)
DisabledWithCause == row.status = "error" => causes # {}

(* A refresh that does not go through leaves the account as it is: its     *)
(* credentials and status move only with a pair the supplier issued, a     *)
(* rejection or a 401, and each stored pair is newer than the one before   *)
(* unless a 401 wrote it.                                                  *)
StoredForward ==
    [][row'.gen # row.gen =>
         \/ row'.gen > row.gen /\ row'.ver >= row.ver
         \/ row'.due /\ "overwritten" \in causes']_vars

(* An active account whose token is due is refreshed or disabled           *)
(* (refreshLoop), as long as the supplier issues tokens.                   *)
DueIsSettled ==
    (row.status = "active" /\ NeedsRefresh(row) /\ live < MaxGen) ~>
        (row.status = "error" \/ ~NeedsRefresh(row) \/ live = MaxGen)

(* The stored credentials are the live ones and only move forward, and an  *)
(* account is disabled with a cause, each but for the causes named above.  *)
CredentialsSound == [](TypeOK /\ LiveTokenKept /\ DisabledWithCause) /\ StoredForward
=============================================================================
