--------------------------- MODULE SchedulerSnapshot ---------------------------
(***************************************************************************)
(* The scheduler's view of one account in one bucket                       *)
(* (SchedulerSnapshotService, schedulerCache, accountRepository).  The row *)
(* lives in PostgreSQL; Redis holds the account's payload and the list of  *)
(* the bucket's schedulable accounts.  Writers change the row, enqueue an  *)
(* outbox event and may write the payload themselves; pollers replay the   *)
(* events behind a shared watermark; rebuilds, under a lock that is never  *)
(* given back, and the fall-back of a request write the list anew.         *)
(***************************************************************************)
EXTENDS Naturals, Sequences, SequencesExt

CONSTANTS Writers, Pollers, Rebuilders, Readers,
          Kinds,          \* what the writers of a run do
          BatchSize,      \* the limit of ListAfter
          MaxFaults       \* bound on failed calls and crashed pollers

(* changed: Update, SetError, SetRateLimited and whatever else enqueues and*)
(* synchronises; limited: what only enqueues, like SetOverloaded;          *)
(* groups: AddToGroup, RemoveFromGroup; unbound: BindGroups to no group;   *)
(* credentials: UpdateCredentials; used: UpdateLastUsed; group: a group's  *)
(* own change; paused: AutoPauseExpiredAccounts; model: a model's rate     *)
(* limit, written from the copy a request holds.                           *)
AllKinds == {"changed", "limited", "groups", "unbound", "credentials", "used", "group", "paused", "model"}

ASSUME SchedulerAssumption ==
    /\ Kinds \subseteq AllKinds
    /\ BatchSize \in Nat \ {0} /\ MaxFaults \in Nat
    /\ Pollers \cap Rebuilders = {} /\ (Pollers \cup Rebuilders) \cap Readers = {}

VARIABLES db,         \* the account's row: how often it changed, and whether the bucket's query returns it
          outbox,     \* the committed events
          nextId,     \* the outbox's sequence
          recent,     \* event types written within their dedup window
          watermark,
          list,       \* the active list: of which row, and whether the account is on it
          payload,    \* the account as sched:acc and sched:meta hold it
          lock,       \* the bucket's lock key exists
          proc,       \* pollers, rebuild workers and requests that list accounts
          writer, faults,
          handled,    \* history: the events a poller went through to the end
          stray       \* history: rebuilds that outlived their lock, and those begun beside one

vars == <<db, outbox, nextId, recent, watermark, list, payload, lock, proc, writer, faults, handled, stray>>

EventType(k) ==
    CASE k \in {"changed", "limited", "model"} -> "account_changed"
      [] k = "groups" -> "account_groups_changed"
      [] k = "used" -> "account_last_used"
      [] k = "group" -> "group_changed"
      [] k = "paused" -> "full_rebuild"
      [] OTHER -> "none"

SupportsDedup(type) == type \in {"account_changed", "group_changed", "full_rebuild"}
Syncs(k) == k \in {"changed", "credentials"}

Rows == [v : Nat, ok : BOOLEAN]
Event == [id : Nat, type : {EventType(k) : k \in AllKinds}, v : Nat, late : BOOLEAN]

Workers == Pollers \cup Rebuilders \cup Readers
Proc == [pc : {"idle", "event", "account", "bucket", "load", "fill", "switch"},
         batch : Seq(Event), seen : BOOLEAN, last : Nat, got : Rows]
Writer == [pc : {"select", "change", "enqueue", "insert", "read", "write", "done"},
           kind : Kinds, got : Rows, id : Nat, v : Nat]

NoRow == [v |-> 0, ok |-> FALSE]
Idle == [pc |-> "idle", batch |-> <<>>, seen |-> FALSE, last |-> 0, got |-> NoRow]

Init ==
    /\ db \in [v : {0}, ok : BOOLEAN]
    /\ outbox = {} /\ nextId = 1 /\ recent = {} /\ watermark = 0
    /\ list = db /\ payload = db /\ lock = FALSE
    /\ proc = [p \in Workers |-> Idle]
    /\ writer \in [Writers -> [pc : {"select", "change"}, kind : Kinds, got : {NoRow}, id : {0}, v : {0}]]
    /\ \A w \in Writers : writer[w].pc = "select" <=> writer[w].kind = "model"
    /\ faults = 0 /\ handled = {} /\ stray = {}

Fault == faults < MaxFaults /\ faults' = faults + 1

-----------------------------------------------------------------------------
(* Writers.                                                                *)

AfterChange(k) == IF EventType(k) = "none" THEN "read" ELSE "enqueue"
AfterEnqueue(k) == IF Syncs(k) THEN "read" ELSE IF k = "model" THEN "write" ELSE "done"

Moves(w, pc) ==
    writer' = [writer EXCEPT ![w].pc = pc, ![w].id = 0, ![w].v = 0,
                             ![w].got = IF pc = "done" THEN NoRow ELSE @]

(* The copy of the account a request goes on with.                         *)
Select(w) ==
    /\ writer[w].pc = "select"
    /\ writer' = [writer EXCEPT ![w].pc = "change", ![w].got = payload]
    /\ UNCHANGED <<db, outbox, nextId, recent, watermark, list, payload, lock, proc, faults, handled, stray>>

(* A last use leaves alone what the scheduler's query reads.               *)
Change(w) ==
    /\ writer[w].pc = "change"
    /\ \/ writer[w].kind = "used" /\ UNCHANGED db
       \/ writer[w].kind # "used" /\ \E ok \in BOOLEAN : db' = [v |-> db.v + 1, ok |-> ok]
    /\ writer' = [writer EXCEPT ![w].v = IF EventType(writer[w].kind) = "none" \/ writer[w].kind = "used" THEN 0 ELSE db'.v,
                                ![w].pc = AfterChange(writer[w].kind)]
    /\ UNCHANGED <<outbox, nextId, recent, watermark, list, payload, lock, proc, faults, handled, stray>>

(* Unbinding from every group commits and returns, no event written.       *)
Unbind(w) ==
    /\ writer[w].pc = "read" /\ writer[w].kind = "unbound"
    /\ Moves(w, "done")
    /\ UNCHANGED <<db, outbox, nextId, recent, watermark, list, payload, lock, proc, faults, handled, stray>>

(* The insert reads the dedup window and takes its id; a failure is logged.*)
Enqueue(w) ==
    LET type == EventType(writer[w].kind)
    IN  /\ writer[w].pc = "enqueue"
        /\ \/ /\ ~(SupportsDedup(type) /\ type \in recent)
              /\ nextId' = nextId + 1
              /\ writer' = [writer EXCEPT ![w].pc = "insert", ![w].id = nextId]
              /\ UNCHANGED faults
           \/ /\ \/ SupportsDedup(type) /\ type \in recent /\ UNCHANGED faults
                 \/ Fault
              /\ Moves(w, AfterEnqueue(writer[w].kind))
              /\ UNCHANGED nextId
        /\ UNCHANGED <<db, outbox, recent, watermark, list, payload, lock, proc, handled, stray>>

Insert(w) ==
    LET type == EventType(writer[w].kind)
        passed == watermark > writer[w].id \/ \E p \in Pollers : proc[p].last > writer[w].id
    IN  /\ writer[w].pc = "insert"
        /\ outbox' = outbox \cup {[id |-> writer[w].id, type |-> type, v |-> writer[w].v, late |-> passed]}
        /\ recent' = recent \cup (IF SupportsDedup(type) THEN {type} ELSE {})
        /\ Moves(w, AfterEnqueue(writer[w].kind))
        /\ UNCHANGED <<db, nextId, watermark, list, payload, lock, proc, faults, handled, stray>>

SyncRead(w) ==
    /\ writer[w].pc = "read" /\ Syncs(writer[w].kind)
    /\ writer' = [writer EXCEPT ![w].pc = "write", ![w].got = db]
    /\ UNCHANGED <<db, outbox, nextId, recent, watermark, list, payload, lock, proc, faults, handled, stray>>

SetAccount(w) ==
    /\ writer[w].pc = "write"
    /\ Moves(w, "done")
    /\ \/ payload' = writer[w].got /\ UNCHANGED faults
       \/ Fault /\ UNCHANGED payload
    /\ UNCHANGED <<db, outbox, nextId, recent, watermark, list, lock, proc, handled, stray>>

WindowPasses ==
    /\ recent # {} /\ recent' = {}
    /\ UNCHANGED <<db, outbox, nextId, watermark, list, payload, lock, proc, writer, faults, handled, stray>>

-----------------------------------------------------------------------------
(* Pollers.                                                                *)

Behind == {e \in outbox : e.id > watermark}
Current(p) == Head(proc[p].batch)

(* The events behind the watermark in the order of their ids, cut off at   *)
(* the limit.                                                              *)
Page(batch) ==
    /\ \A i, j \in DOMAIN batch : i < j => batch[i].id < batch[j].id
    /\ \A e \in Behind \ Range(batch) : Len(batch) = BatchSize /\ Last(batch).id < e.id

(* Mutant: the watermark moves when the batch is read.                     *)
ListAfterAcking(p) ==
    \E n \in 1..BatchSize : \E batch \in [1..n -> Behind] :
        /\ proc[p].pc = "idle" /\ Page(batch)
        /\ proc' = [proc EXCEPT ![p].pc = "event", ![p].batch = batch, ![p].seen = FALSE,
                                ![p].last = Last(batch).id]
        /\ watermark' = Last(batch).id
        /\ UNCHANGED <<db, outbox, nextId, recent, list, payload, lock, writer, faults, handled, stray>>

ListAfter(p) ==
    \E n \in 1..BatchSize : \E batch \in [1..n -> Behind] :
        /\ proc[p].pc = "idle" /\ Page(batch)
        /\ proc' = [proc EXCEPT ![p].pc = "event", ![p].batch = batch, ![p].seen = FALSE,
                                ![p].last = Last(batch).id]
        /\ UNCHANGED <<db, outbox, nextId, recent, watermark, list, payload, lock, writer, faults, handled, stray>>

(* The event at the head is done with.                                     *)
Handled(p) ==
    IF proc[p].batch = <<>>
    THEN proc' = [proc EXCEPT ![p] = Idle] /\ UNCHANGED handled
    ELSE /\ proc' = [proc EXCEPT ![p].pc = "event", ![p].batch = Tail(@), ![p].got = NoRow]
         /\ handled' = handled \cup {Current(p).id}

(* The account an event is about, or the cached one a last use goes into.  *)
GetAccount(p) ==
    /\ proc[p].pc = "event" /\ proc[p].batch # <<>>
    /\ Current(p).type \in {"account_changed", "account_groups_changed", "account_last_used"}
    /\ proc' = [proc EXCEPT ![p].pc = "account",
                            ![p].got = IF Current(p).type = "account_last_used" THEN payload ELSE db]
    /\ UNCHANGED <<db, outbox, nextId, recent, watermark, list, payload, lock, writer, faults, handled, stray>>

WriteAccount(p) ==
    /\ proc[p].pc = "account"
    /\ payload' = proc[p].got
    /\ \/ /\ Current(p).type = "account_last_used" \/ proc[p].seen
          /\ Handled(p)
       \/ /\ Current(p).type # "account_last_used" /\ ~proc[p].seen
          /\ proc' = [proc EXCEPT ![p].pc = "bucket", ![p].seen = TRUE, ![p].got = NoRow]
          /\ UNCHANGED handled
    /\ UNCHANGED <<db, outbox, nextId, recent, watermark, list, lock, writer, faults, stray>>

(* A group's event rebuilds unless this batch did; a full one always tries.*)
HandleGroup(p) ==
    /\ proc[p].pc = "event" /\ proc[p].batch # <<>>
    /\ \/ /\ Current(p).type = "group_changed" /\ proc[p].seen
          /\ Handled(p)
       \/ /\ Current(p).type = "group_changed" /\ ~proc[p].seen
          /\ proc' = [proc EXCEPT ![p].pc = "bucket", ![p].seen = TRUE]
          /\ UNCHANGED handled
       \/ /\ Current(p).type = "full_rebuild"
          /\ proc' = [proc EXCEPT ![p].pc = "bucket"]
          /\ UNCHANGED handled
    /\ UNCHANGED <<db, outbox, nextId, recent, watermark, list, payload, lock, writer, faults, stray>>

(* Mutants: the watermark moves one past the batch, or to the newest event.*)
SetOutboxWatermarkPast(p) ==
    /\ proc[p].pc = "event" /\ proc[p].batch = <<>>
    /\ watermark' = proc[p].last + 1
    /\ proc' = [proc EXCEPT ![p] = Idle]
    /\ UNCHANGED <<db, outbox, nextId, recent, list, payload, lock, writer, faults, handled, stray>>
SetOutboxWatermarkToMaxID(p) ==
    /\ proc[p].pc = "event" /\ proc[p].batch = <<>>
    /\ watermark' = Max({e.id : e \in outbox})
    /\ proc' = [proc EXCEPT ![p] = Idle]
    /\ UNCHANGED <<db, outbox, nextId, recent, list, payload, lock, writer, faults, handled, stray>>

(* The watermark is written as it is, whoever wrote it since; a lag or a   *)
(* backlog over its threshold makes the poller rebuild every bucket.       *)
SetOutboxWatermark(p) ==
    /\ proc[p].pc = "event" /\ proc[p].batch = <<>>
    /\ watermark' = proc[p].last
    /\ \E pc \in {"idle", "bucket"} : proc' = [proc EXCEPT ![p] = [Idle EXCEPT !.pc = pc]]
    /\ UNCHANGED <<db, outbox, nextId, recent, list, payload, lock, writer, faults, handled, stray>>

-----------------------------------------------------------------------------
(* Rebuilding the list.                                                    *)

(* Mutant: the lock's answer is not looked at.                             *)
TryLockBucketIgnored(p) ==
    /\ proc[p].pc = IF p \in Rebuilders THEN "idle" ELSE "bucket"
    /\ lock' = TRUE /\ proc' = [proc EXCEPT ![p].pc = "load"]
    /\ UNCHANGED <<db, outbox, nextId, recent, watermark, list, payload, writer, faults, handled, stray>>

(* A rebuild worker starts at its tick.  A lock that is taken ends the     *)
(* rebuild without an error.                                               *)
TryLockBucket(p) ==
    /\ proc[p].pc = IF p \in Rebuilders THEN "idle" ELSE "bucket"
    /\ \/ lock /\ Handled(p) /\ UNCHANGED <<lock, stray>>
       \/ /\ ~lock /\ lock' = TRUE
          /\ proc' = [proc EXCEPT ![p].pc = "load"]
          /\ stray' = IF stray = {} THEN {} ELSE stray \cup {p}
          /\ UNCHANGED handled
    /\ UNCHANGED <<db, outbox, nextId, recent, watermark, list, payload, writer, faults>>

LoadAccounts(p) ==
    /\ proc[p].pc = "load"
    /\ proc' = [proc EXCEPT ![p].pc = "fill", ![p].got = db]
    /\ UNCHANGED <<db, outbox, nextId, recent, watermark, list, payload, lock, writer, faults, handled, stray>>

(* A request falls back on an empty list, a missing payload, a snapshot    *)
(* that was replaced while it was read, or a failed read: on any state.    *)
Fallback(p) ==
    /\ proc[p].pc = "idle"
    /\ proc' = [proc EXCEPT ![p].pc = "fill", ![p].got = db]
    /\ UNCHANGED <<db, outbox, nextId, recent, watermark, list, payload, lock, writer, faults, handled, stray>>

(* Mutant: only the list is written.                                       *)
WriteAccountsSkipped(p) ==
    /\ proc[p].pc = "fill"
    /\ proc' = [proc EXCEPT ![p].pc = "switch"]
    /\ UNCHANGED <<db, outbox, nextId, recent, watermark, list, payload, lock, writer, faults, handled, stray>>

(* SetSnapshot writes the accounts it lists, then makes its list active,   *)
(* whoever holds the lock by then.                                         *)
WriteAccounts(p) ==
    /\ proc[p].pc = "fill"
    /\ payload' = IF proc[p].got.ok THEN proc[p].got ELSE payload
    /\ proc' = [proc EXCEPT ![p].pc = "switch"]
    /\ UNCHANGED <<db, outbox, nextId, recent, watermark, list, lock, writer, faults, handled, stray>>

SetActive(p) ==
    /\ proc[p].pc = "switch"
    /\ list' = proc[p].got
    /\ Handled(p)
    /\ stray' = stray \ {p}
    /\ UNCHANGED <<db, outbox, nextId, recent, watermark, payload, lock, writer, faults>>

(* A failed call, a crashed process: the batch is left, the lock too.  The *)
(* rebuild that outlived its lock may also meet the end of its context.    *)
Abandon(p) == proc' = [proc EXCEPT ![p] = Idle]

Fail(p) ==
    /\ proc[p].pc # "idle"
    /\ Fault \/ (p \in stray /\ UNCHANGED faults)
    /\ Abandon(p)
    /\ stray' = stray \ {p}
    /\ UNCHANGED <<db, outbox, nextId, recent, watermark, list, payload, lock, writer, handled>>

Rebuilding(p) == p \notin Readers /\ proc[p].pc \in {"load", "fill", "switch"}

(* The 30 seconds of the lock begin at SETNX, those of the rebuild's       *)
(* context with its answer, and a call to Redis that is under way outlasts *)
(* both: a slow call, and the rebuild goes on without its lock.            *)
LockExpires ==
    /\ lock /\ lock' = FALSE
    /\ stray' = {p \in Workers : Rebuilding(p)}
    /\ IF stray' = {} THEN UNCHANGED faults ELSE Fault
    /\ UNCHANGED <<db, outbox, nextId, recent, watermark, list, payload, proc, writer, handled>>

-----------------------------------------------------------------------------
Write(w) == Change(w) \/ Unbind(w) \/ Enqueue(w) \/ Insert(w) \/ SyncRead(w) \/ SetAccount(w)
Poll(p) == ListAfter(p) \/ GetAccount(p) \/ WriteAccount(p) \/ HandleGroup(p) \/ SetOutboxWatermark(p)
RebuildBucket(p) == TryLockBucket(p) \/ LoadAccounts(p) \/ WriteAccounts(p) \/ SetActive(p)

Next ==
    \/ \E w \in Writers : Select(w) \/ Write(w)
    \/ \E p \in Pollers : Poll(p) \/ RebuildBucket(p) \/ Fail(p)
    \/ \E p \in Rebuilders : RebuildBucket(p) \/ Fail(p)
    \/ \E p \in Readers : Fallback(p) \/ WriteAccounts(p) \/ SetActive(p) \/ Fail(p)
    \/ WindowPasses \/ LockExpires

Spec == Init /\ [][Next]_vars

(* The workers' timers and Redis' clock go on, and a call returns.  A full *)
(* rebuild that keeps finding the lock taken still comes in time: each of  *)
(* its attempts is a step of its own.                                      *)
FairSpec ==
    /\ Spec
    /\ \A w \in Writers : WF_vars(Write(w))
    /\ \A p \in Pollers : WF_vars(Poll(p) \/ RebuildBucket(p))
    /\ \A p \in Rebuilders : SF_vars(TryLockBucket(p)) /\ WF_vars(RebuildBucket(p))
    /\ \A p \in Readers : WF_vars(WriteAccounts(p) \/ SetActive(p))
    /\ WF_vars(LockExpires)

-----------------------------------------------------------------------------
TypeOK ==
    /\ db \in Rows /\ list \in Rows /\ payload \in Rows
    /\ outbox \subseteq Event /\ nextId \in Nat
    /\ recent \subseteq {EventType(k) : k \in AllKinds} /\ \A t \in recent : SupportsDedup(t)
    /\ watermark \in Nat /\ handled \subseteq Nat
    /\ lock \in BOOLEAN /\ faults \in 0..MaxFaults /\ stray \subseteq Workers
    /\ proc \in [Workers -> Proc] /\ writer \in [Writers -> Writer]

(* At least once: the watermark passes no event that was committed before  *)
(* its batch was listed and that no poller went through to the end, with   *)
(* several pollers, failed calls and crashes.                              *)
WatermarkCovers == \A e \in outbox : e.id <= watermark /\ ~e.late => e.id \in handled

(* A rebuild under the bucket's lock never replaces the list of a newer    *)
(* row with that of an older one, unless it, or the one before it, outlived*)
(* its lock: SetSnapshot has no fence, so that one may.                    *)
NotOlder == list'.v >= list.v
ListNeverOlder == [][stray = {} => NotOlder]_vars

(* Whatever happened before, full rebuilds bring the list, and the payload *)
(* of a listed account, to the row.                                        *)
ListConverges == <>[](list.ok = db.ok /\ (list.ok => payload = db))

(* One process that replays the events, while nobody else writes the       *)
(* payload: it comes to show the change of every event that was not        *)
(* committed late, whatever calls fail.                                    *)
PayloadFollows == <>[](\A e \in outbox : ~e.late => payload.v >= e.v)
=============================================================================
