------------------------ MODULE SchedulerSnapshotProofs ------------------------
(***************************************************************************)
(* The replay of the scheduler's outbox loses no event, and rebuilds under *)
(* the bucket's lock bring no older list back unless one outlived its lock,*)
(* for every number of writers, pollers and rebuild workers, every batch   *)
(* size and every number of faults.                                        *)
(*                                                                         *)
(* Ids come from a sequence, and a poller's mark, like the watermark, is   *)
(* always the id of an event already committed: an insert that commits     *)
(* below it is the late one, and no other can.  So what is on or below a   *)
(* poller's mark went into its batch, or was handled before.               *)
(***************************************************************************)
EXTENDS MCSchedulerSnapshot, SequenceTheorems, TLAPS

-----------------------------------------------------------------------------
(* The inductive invariant of the replay.                                  *)

Inserting(w) == writer[w].pc = "insert"

(* An id belongs to one event, committed or about to be.                   *)
IdsApart ==
    /\ nextId >= 1
    /\ \A e \in outbox : 1 <= e.id /\ e.id < nextId
    /\ \A w \in Writers : Inserting(w) =>
         /\ 1 <= writer[w].id /\ writer[w].id < nextId
         /\ \A e \in outbox : e.id # writer[w].id
         /\ \A u \in Writers : u # w /\ Inserting(u) => writer[u].id # writer[w].id

Mark(n) == n = 0 \/ \E e \in outbox : e.id = n

Marks == Mark(watermark) /\ \A p \in Pollers : Mark(proc[p].last)

(* Events up to a poller's mark are handled, or in its batch.              *)
Replayed(p) ==
    \A e \in outbox : e.id <= proc[p].last /\ ~e.late =>
        e.id \in handled \/ e \in Range(proc[p].batch)

AllReplayed == \A p \in Pollers : Replayed(p)

ReplayInv == TypeOK /\ IdsApart /\ Marks /\ AllReplayed /\ WatermarkCovers

-----------------------------------------------------------------------------
(* The invariant of the rebuilds, while no request falls back.             *)

NoFallback == \A r \in Readers : proc[r].pc = "idle"

Loaded(p) == proc[p].pc \in {"fill", "switch"}

(* No worker holds more than the row, and once a rebuild outlived its lock *)
(* all that rebuild are strays.  Otherwise the lock's holder, the only     *)
(* worker between the lock and the switch, has read the row after the list *)
(* was made.                                                               *)
NothingAhead ==
    list.v <= db.v /\ \A p \in Workers : Rebuilding(p) /\ Loaded(p) => proc[p].got.v <= db.v

AllStray == \A p \in Workers : Rebuilding(p) => p \in stray

LockHeld ==
    \A p \in Workers : Rebuilding(p) =>
        /\ lock
        /\ Loaded(p) => list.v <= proc[p].got.v
        /\ \A q \in Workers : Rebuilding(q) => q = p

OneRebuild == NothingAhead /\ (IF stray = {} THEN LockHeld ELSE AllStray)

-----------------------------------------------------------------------------
(* Of the casts.                                                           *)

OutOfCast == \A r \in Readers \ Cast : proc[r].pc = "idle"

MCInv == ReplayInv /\ OutOfCast /\ (Readers \cap Cast = {} => OneRebuild)

-----------------------------------------------------------------------------
(* Types.                                                                  *)

LEMMA RowTypes ==
    ASSUME TypeOK
    PROVE  /\ db.v \in Nat /\ db.ok \in BOOLEAN /\ list.v \in Nat
           /\ \A p \in Workers :
                /\ proc[p] \in Proc /\ proc[p].last \in Nat /\ proc[p].got \in Rows
                /\ proc[p].got.v \in Nat /\ proc[p].batch \in Seq(Event)
           /\ \A w \in Writers :
                /\ writer[w] \in Writer /\ writer[w].id \in Nat /\ writer[w].v \in Nat
                /\ writer[w].got \in Rows /\ writer[w].kind \in Kinds
           /\ \A e \in outbox : e \in Event /\ e.id \in Nat
BY DEF TypeOK, Rows, Proc, Writer, Event

LEMMA IdleType == Idle \in Proc
BY DEF Idle, Proc, NoRow, Rows

LEMMA EventTypes ==
    \A k \in AllKinds : EventType(k) \in {EventType(i) : i \in AllKinds}
OBVIOUS

LEMMA MovesType ==
    ASSUME writer \in [Writers -> Writer], NEW w \in Writers,
           NEW pc \in {"select", "change", "enqueue", "insert", "read", "write", "done"},
           Moves(w, pc)
    PROVE  writer' \in [Writers -> Writer]
<1>1. writer[w].got \in Rows /\ NoRow \in Rows
    BY DEF Writer, NoRow, Rows
<1>2. PICK r : r = [writer[w] EXCEPT !.pc = pc, !.id = 0, !.v = 0,
                                     !.got = IF pc = "done" THEN NoRow ELSE @]
    OBVIOUS
<1>3. r \in Writer  BY <1>1, <1>2 DEF Writer
<1>4. writer' = [writer EXCEPT ![w] = r]
    BY <1>2 DEF Moves
<1>5. QED  BY <1>3, <1>4

(* A worker's new record is one of its type where its fields are.          *)
LEMMA ProcType ==
    ASSUME proc \in [Workers -> Proc], NEW p \in Workers,
           NEW pc \in {"idle", "event", "account", "bucket", "load", "fill", "switch"},
           NEW batch \in Seq(Event), NEW seen \in BOOLEAN, NEW last \in Nat, NEW got \in Rows,
           proc' = [proc EXCEPT ![p] = [pc |-> pc, batch |-> batch, seen |-> seen,
                                        last |-> last, got |-> got]]
    PROVE  proc' \in [Workers -> Proc]
<1>1. [pc |-> pc, batch |-> batch, seen |-> seen, last |-> last, got |-> got] \in Proc
    BY DEF Proc
<1>2. QED  BY <1>1

(* The rest of a batch holds all of it but the head.                       *)
LEMMA TailRange ==
    ASSUME NEW S, NEW s \in Seq(S), s # <<>>
    PROVE  /\ Tail(s) \in Seq(S) /\ Head(s) \in S
           /\ \A x \in Range(s) : x = Head(s) \/ x \in Range(Tail(s))
<1>1. Tail(s) \in Seq(S) /\ Head(s) \in S  OBVIOUS
<1>2. ASSUME NEW x \in Range(s), x # Head(s) PROVE x \in Range(Tail(s))
  <2>1. PICK i \in 1..Len(s) : x = s[i]
      BY <1>2 DEF Range
  <2>2. i # 1  BY <1>2, <2>1
  <2>3. i - 1 \in 1..Len(Tail(s)) /\ Tail(s)[i - 1] = s[i]
      BY <2>1, <2>2
  <2>4. PICK t : t = Tail(s)  OBVIOUS
  <2>5. t \in Seq(S) /\ DOMAIN t = 1..Len(t)  BY <1>1, <2>4
  <2>6. QED  BY <2>1, <2>3, <2>4, <2>5 DEF Range
<1>3. QED  BY <1>1, <1>2

-----------------------------------------------------------------------------
(* Steps of one worker, other than those that list a batch or move the     *)
(* watermark: what leaves the batch is handled, or the batch is dropped.   *)

feed == <<outbox, nextId, recent, watermark, writer>>

Moved(p) ==
    /\ UNCHANGED feed
    /\ proc' \in [Workers -> Proc] /\ \A q \in Workers \ {p} : proc'[q] = proc[q]
    /\ handled \subseteq handled' /\ handled' \subseteq Nat
    /\ \/ proc'[p].last = 0
       \/ /\ proc'[p].last = proc[p].last
          /\ \A e \in Range(proc[p].batch) : e.id \in handled' \/ e \in Range(proc'[p].batch)

LEMMA KeepsBatch ==
    ASSUME TypeOK, NEW p \in Workers, NEW r \in Proc, UNCHANGED <<feed, handled>>,
           r.last = proc[p].last, r.batch = proc[p].batch,
           proc' = [proc EXCEPT ![p] = r]
    PROVE  Moved(p)
<1>1. proc \in [Workers -> Proc] /\ handled \subseteq Nat  BY DEF TypeOK
<1>2. proc' \in [Workers -> Proc] /\ proc'[p] = r
      /\ \A q \in Workers \ {p} : proc'[q] = proc[q]
    BY <1>1
<1>3. QED  BY <1>1, <1>2 DEF Moved

LEMMA AbandonMoves ==
    ASSUME TypeOK, NEW p \in Workers, UNCHANGED <<feed, handled>>, Abandon(p)
    PROVE  Moved(p) /\ proc'[p] = Idle /\ Idle.pc = "idle"
<1>1. proc \in [Workers -> Proc] /\ handled \subseteq Nat  BY DEF TypeOK
<1>2. Idle.pc = "idle" /\ Idle.last = 0  BY DEF Idle
<1>3. proc' \in [Workers -> Proc] /\ proc'[p] = Idle
      /\ \A q \in Workers \ {p} : proc'[q] = proc[q]
    BY <1>1, IdleType DEF Abandon
<1>4. QED  BY <1>1, <1>2, <1>3 DEF Moved

LEMMA HandledMoves ==
    ASSUME TypeOK, NEW p \in Workers, UNCHANGED feed, Handled(p)
    PROVE  Moved(p) /\ proc'[p].pc \in {"idle", "event"}
<1>0. /\ proc \in [Workers -> Proc] /\ handled \subseteq Nat
      /\ proc[p] \in Proc /\ proc[p].batch \in Seq(Event)
    BY RowTypes DEF TypeOK
<1>1. CASE proc[p].batch = <<>>
  <2>1. Abandon(p) /\ UNCHANGED handled  BY <1>1 DEF Handled, Abandon
  <2>2. QED  BY <2>1, AbandonMoves
<1>2. CASE proc[p].batch # <<>>
  <2>1. PICK r : r = [proc[p] EXCEPT !.pc = "event", !.batch = Tail(@), !.got = NoRow]
      OBVIOUS
  <2>2. PICK s \in Seq(Event) : s = proc[p].batch  BY <1>0
  <2>3. /\ Tail(s) \in Seq(Event) /\ Head(s) \in Event
        /\ \A x \in Range(s) : x = Head(s) \/ x \in Range(Tail(s))
      BY <1>2, <2>2, TailRange
  <2>4. /\ r.pc = "event" /\ r.batch = Tail(s) /\ r.last = proc[p].last
      BY <1>0, <2>1, <2>2 DEF Proc
  <2>5. NoRow \in Rows  BY DEF NoRow, Rows
  <2>6. r \in Proc
      BY <1>0, <2>1, <2>2, <2>3, <2>5 DEF Proc
  <2>7. proc' = [proc EXCEPT ![p] = r] /\ handled' = handled \cup {Head(s).id}
      BY <1>2, <2>1, <2>2 DEF Handled, Current
  <2>8. Head(s).id \in Nat  BY <2>3 DEF Event
  <2>9. /\ proc' \in [Workers -> Proc] /\ proc'[p] = r
        /\ \A q \in Workers \ {p} : proc'[q] = proc[q]
      BY <1>0, <2>6, <2>7
  <2>10. \A e \in Range(proc[p].batch) : e.id \in handled' \/ e \in Range(proc'[p].batch)
      BY <2>2, <2>3, <2>4, <2>7, <2>9
  <2>11. QED  BY <1>0, <2>4, <2>7, <2>8, <2>9, <2>10 DEF Moved
<1>3. QED  BY <1>1, <1>2

LEMMA MovedReplays ==
    ASSUME ReplayInv, TypeOK', NEW p \in Workers, Moved(p)
    PROVE  ReplayInv'
<1>1. IdsApart'
    BY DEF ReplayInv, Moved, feed, IdsApart, Inserting
<1>2. WatermarkCovers'
    BY DEF ReplayInv, Moved, feed, WatermarkCovers
<1>3. ASSUME NEW q \in Pollers PROVE Mark(proc[q].last)' /\ Replayed(q)'
  <2>0. q \in Workers  BY DEF Workers
  <2>1. /\ Mark(proc[q].last) /\ Replayed(q) /\ outbox' = outbox /\ handled \subseteq handled'
        /\ \A e \in outbox : e.id \in Nat /\ e.id >= 1
      BY RowTypes DEF ReplayInv, Marks, AllReplayed, Moved, feed, IdsApart
  <2>2. CASE q # p
    <3>1. proc'[q] = proc[q]  BY <2>0, <2>2 DEF Moved
    <3>2. QED  BY <2>1, <3>1 DEF Mark, Replayed
  <2>3. CASE q = p /\ proc'[p].last = 0
      BY <2>1, <2>3 DEF Mark, Replayed
  <2>4. CASE q = p /\ proc'[p].last # 0
    <3>1. /\ proc'[p].last = proc[p].last
          /\ \A e \in Range(proc[p].batch) : e.id \in handled' \/ e \in Range(proc'[p].batch)
        BY <2>4 DEF Moved
    <3>2. QED  BY <2>1, <2>4, <3>1 DEF Mark, Replayed
  <2>5. QED  BY <2>2, <2>3, <2>4
<1>4. Mark(watermark)'
    BY DEF ReplayInv, Marks, Mark, Moved, feed
<1>5. QED  BY <1>1, <1>2, <1>3, <1>4 DEF ReplayInv, Marks, AllReplayed

-----------------------------------------------------------------------------
(* Those steps, one by one.                                                *)

LEMMA MovedType ==
    ASSUME TypeOK, NEW p \in Workers, Moved(p), db' \in Rows, list' \in Rows,
           payload' \in Rows, lock' \in BOOLEAN, faults' \in 0..MaxFaults,
           stray' \subseteq Workers
    PROVE  TypeOK'
BY DEF TypeOK, Moved, feed

LEMMA FaultType ==
    ASSUME TypeOK, Fault PROVE faults' \in 0..MaxFaults
BY SchedulerAssumption DEF TypeOK, Fault

LEMMA GetAccountMoves ==
    ASSUME TypeOK, NEW p \in Workers, GetAccount(p)
    PROVE  TypeOK' /\ Moved(p) /\ proc'[p].pc = "account"
<1>1. /\ proc[p] \in Proc /\ db \in Rows /\ payload \in Rows
      /\ proc \in [Workers -> Proc]
    BY RowTypes DEF TypeOK
<1>2. PICK got \in Rows : got = IF Current(p).type = "account_last_used" THEN payload ELSE db
    BY <1>1
<1>3. PICK r : r = [proc[p] EXCEPT !.pc = "account", !.got = got]
    OBVIOUS
<1>4. r \in Proc /\ r.last = proc[p].last /\ r.batch = proc[p].batch /\ r.pc = "account"
    BY <1>1, <1>3 DEF Proc
<1>5. proc' = [proc EXCEPT ![p] = r]
    BY <1>2, <1>3 DEF GetAccount
<1>6. UNCHANGED <<feed, handled, db, list, payload, lock, faults, stray>>
    BY DEF GetAccount, feed
<1>7. Moved(p)  BY <1>4, <1>5, <1>6, KeepsBatch
<1>8. TypeOK'  BY <1>6, <1>7, MovedType DEF TypeOK
<1>9. QED  BY <1>1, <1>4, <1>5, <1>7, <1>8

LEMMA WriteAccountMoves ==
    ASSUME TypeOK, NEW p \in Workers, WriteAccount(p)
    PROVE  TypeOK' /\ Moved(p) /\ ~proc'[p].pc \in {"load", "fill", "switch"}
<1>1. /\ proc[p] \in Proc /\ proc[p].got \in Rows /\ proc \in [Workers -> Proc]
    BY RowTypes DEF TypeOK
<1>2. UNCHANGED <<feed, db, list, lock, faults, stray>> /\ payload' \in Rows
    BY <1>1 DEF WriteAccount, feed
<1>3. Moved(p) /\ proc'[p].pc \in {"idle", "event", "bucket"}
  <2>1. CASE Handled(p)
      BY <1>2, <2>1, HandledMoves
  <2>2. CASE /\ proc' = [proc EXCEPT ![p].pc = "bucket", ![p].seen = TRUE, ![p].got = NoRow]
             /\ UNCHANGED handled
    <3>1. PICK r : r = [proc[p] EXCEPT !.pc = "bucket", !.seen = TRUE, !.got = NoRow]
        OBVIOUS
    <3>2. NoRow \in Rows  BY DEF NoRow, Rows
    <3>3. r \in Proc /\ r.last = proc[p].last /\ r.batch = proc[p].batch /\ r.pc = "bucket"
        BY <1>1, <3>1, <3>2 DEF Proc
    <3>4. proc' = [proc EXCEPT ![p] = r]
        BY <2>2, <3>1
    <3>5. QED  BY <1>1, <1>2, <2>2, <3>3, <3>4, KeepsBatch
  <2>3. QED  BY <2>1, <2>2 DEF WriteAccount
<1>4. TypeOK'  BY <1>2, <1>3, MovedType DEF TypeOK
<1>5. QED  BY <1>3, <1>4

LEMMA HandleGroupMoves ==
    ASSUME TypeOK, NEW p \in Workers, HandleGroup(p)
    PROVE  TypeOK' /\ Moved(p) /\ ~proc'[p].pc \in {"load", "fill", "switch"}
<1>1. /\ proc[p] \in Proc /\ proc \in [Workers -> Proc]
    BY RowTypes DEF TypeOK
<1>2. UNCHANGED <<feed, db, list, payload, lock, faults, stray>>
    BY DEF HandleGroup, feed
<1>3. Moved(p) /\ proc'[p].pc \in {"idle", "event", "bucket"}
  <2>1. CASE Handled(p)
      BY <1>2, <2>1, HandledMoves
  <2>2. ASSUME NEW seen \in BOOLEAN, UNCHANGED handled,
               proc' = [proc EXCEPT ![p].pc = "bucket", ![p].seen = seen]
        PROVE  Moved(p) /\ proc'[p].pc = "bucket"
    <3>1. PICK r : r = [proc[p] EXCEPT !.pc = "bucket", !.seen = seen]
        OBVIOUS
    <3>2. r \in Proc /\ r.last = proc[p].last /\ r.batch = proc[p].batch /\ r.pc = "bucket"
        BY <1>1, <2>2, <3>1 DEF Proc
    <3>3. proc' = [proc EXCEPT ![p] = r]
        BY <2>2, <3>1
    <3>4. QED  BY <1>1, <1>2, <2>2, <3>2, <3>3, KeepsBatch
  <2>3. CASE proc' = [proc EXCEPT ![p].pc = "bucket"] /\ UNCHANGED handled
    <3>1. PICK r : r = [proc[p] EXCEPT !.pc = "bucket"]
        OBVIOUS
    <3>2. r \in Proc /\ r.last = proc[p].last /\ r.batch = proc[p].batch /\ r.pc = "bucket"
        BY <1>1, <3>1 DEF Proc
    <3>3. proc' = [proc EXCEPT ![p] = r]
        BY <2>3, <3>1
    <3>4. QED  BY <1>1, <1>2, <2>3, <3>2, <3>3, KeepsBatch
  <2>4. QED  BY <2>1, <2>2, <2>3 DEF HandleGroup
<1>4. TypeOK'  BY <1>2, <1>3, MovedType DEF TypeOK
<1>5. QED  BY <1>3, <1>4

LEMMA TryLockMoves ==
    ASSUME TypeOK, NEW p \in Workers, TryLockBucket(p)
    PROVE  /\ TypeOK' /\ Moved(p)
           /\ \/ lock' = lock /\ stray' = stray /\ ~proc'[p].pc \in {"load", "fill", "switch"}
              \/ /\ ~lock /\ lock' /\ proc'[p].pc = "load"
                 /\ stray' = IF stray = {} THEN {} ELSE stray \cup {p}
<1>1. /\ proc[p] \in Proc /\ proc \in [Workers -> Proc]
    BY RowTypes DEF TypeOK
<1>2. UNCHANGED <<feed, db, list, payload, faults>> /\ stray' \subseteq Workers
    BY DEF TryLockBucket, feed, TypeOK
<1>3. /\ Moved(p) /\ lock' \in BOOLEAN
      /\ \/ lock' = lock /\ stray' = stray /\ proc'[p].pc \in {"idle", "event"}
         \/ /\ ~lock /\ lock' /\ proc'[p].pc = "load"
            /\ stray' = IF stray = {} THEN {} ELSE stray \cup {p}
  <2>1. CASE lock /\ Handled(p) /\ UNCHANGED <<lock, stray>>
      BY <1>2, <2>1, HandledMoves DEF TypeOK
  <2>2. CASE /\ ~lock /\ lock' = TRUE /\ UNCHANGED handled
             /\ proc' = [proc EXCEPT ![p].pc = "load"]
             /\ stray' = IF stray = {} THEN {} ELSE stray \cup {p}
    <3>1. PICK r : r = [proc[p] EXCEPT !.pc = "load"]
        OBVIOUS
    <3>2. r \in Proc /\ r.last = proc[p].last /\ r.batch = proc[p].batch /\ r.pc = "load"
        BY <1>1, <3>1 DEF Proc
    <3>3. proc' = [proc EXCEPT ![p] = r]
        BY <2>2, <3>1
    <3>4. Moved(p) /\ proc'[p].pc = "load"  BY <1>1, <1>2, <2>2, <3>2, <3>3, KeepsBatch
    <3>5. QED  BY <2>2, <3>4
  <2>3. QED  BY <2>1, <2>2 DEF TryLockBucket
<1>4. TypeOK'  BY <1>2, <1>3, MovedType DEF TypeOK
<1>5. QED  BY <1>3, <1>4

LEMMA LoadMoves ==
    ASSUME TypeOK, NEW p \in Workers,
           UNCHANGED <<feed, handled, db, list, payload, lock, faults, stray>>,
           proc' = [proc EXCEPT ![p].pc = "fill", ![p].got = db]
    PROVE  TypeOK' /\ Moved(p) /\ proc'[p].pc = "fill" /\ proc'[p].got = db
<1>1. /\ proc[p] \in Proc /\ db \in Rows /\ proc \in [Workers -> Proc]
    BY RowTypes DEF TypeOK
<1>2. PICK got \in Rows : got = db
    BY <1>1
<1>3. PICK r : r = [proc[p] EXCEPT !.pc = "fill", !.got = got]
    OBVIOUS
<1>4. /\ r \in Proc /\ r.last = proc[p].last /\ r.batch = proc[p].batch
      /\ r.pc = "fill" /\ r.got = got
    BY <1>1, <1>3 DEF Proc
<1>5. proc' = [proc EXCEPT ![p] = r]
    BY <1>2, <1>3
<1>6. Moved(p)  BY <1>4, <1>5, KeepsBatch
<1>7. TypeOK'  BY <1>6, MovedType DEF TypeOK
<1>8. QED  BY <1>1, <1>2, <1>4, <1>5, <1>6, <1>7

LEMMA WriteAccountsMoves ==
    ASSUME TypeOK, NEW p \in Workers, WriteAccounts(p)
    PROVE  TypeOK' /\ Moved(p) /\ proc'[p].pc = "switch" /\ proc'[p].got = proc[p].got
<1>1. /\ proc[p] \in Proc /\ proc[p].got \in Rows /\ proc \in [Workers -> Proc]
    BY RowTypes DEF TypeOK
<1>2. PICK r : r = [proc[p] EXCEPT !.pc = "switch"]
    OBVIOUS
<1>3. /\ r \in Proc /\ r.last = proc[p].last /\ r.batch = proc[p].batch
      /\ r.pc = "switch" /\ r.got = proc[p].got
    BY <1>1, <1>2 DEF Proc
<1>4. proc' = [proc EXCEPT ![p] = r]
    BY <1>2 DEF WriteAccounts
<1>5. UNCHANGED <<feed, handled, db, list, lock, faults, stray>>
    BY DEF WriteAccounts, feed
<1>6. payload' \in Rows
    BY <1>1 DEF WriteAccounts, TypeOK
<1>7. Moved(p)  BY <1>3, <1>4, <1>5, KeepsBatch
<1>8. TypeOK'  BY <1>5, <1>6, <1>7, MovedType DEF TypeOK
<1>9. QED  BY <1>1, <1>3, <1>4, <1>7, <1>8

LEMMA SetActiveMoves ==
    ASSUME TypeOK, NEW p \in Workers, SetActive(p)
    PROVE  TypeOK' /\ Moved(p) /\ proc'[p].pc \in {"idle", "event"}
<1>1. /\ UNCHANGED <<feed, db, payload, lock, faults>> /\ Handled(p)
      /\ list' \in Rows /\ stray' \subseteq Workers
    BY RowTypes DEF SetActive, feed, TypeOK
<1>2. Moved(p) /\ proc'[p].pc \in {"idle", "event"}
    BY <1>1, HandledMoves
<1>3. TypeOK'  BY <1>1, <1>2, MovedType DEF TypeOK
<1>4. QED  BY <1>2, <1>3

LEMMA FailMoves ==
    ASSUME TypeOK, NEW p \in Workers, Fail(p)
    PROVE  TypeOK' /\ Moved(p) /\ proc'[p].pc = "idle"
<1>1. UNCHANGED <<feed, handled, db, list, payload, lock>> /\ Abandon(p) /\ stray' \subseteq Workers
    BY DEF Fail, feed, TypeOK
<1>2. Moved(p) /\ proc'[p].pc = "idle"
    BY <1>1, AbandonMoves
<1>3. faults' \in 0..MaxFaults  BY FaultType DEF Fail, TypeOK
<1>4. TypeOK'  BY <1>1, <1>2, <1>3, MovedType DEF TypeOK
<1>5. QED  BY <1>2, <1>4

LEMMA LockExpiresMoves ==
    ASSUME TypeOK, LockExpires
    PROVE  TypeOK' /\ UNCHANGED <<feed, handled, db, list, payload, proc>>
<1>1. UNCHANGED <<feed, handled, db, list, payload, proc>> /\ lock' \in BOOLEAN
    BY DEF LockExpires, feed
<1>2. stray' \subseteq Workers  BY DEF LockExpires
<1>3. faults' \in 0..MaxFaults  BY FaultType DEF LockExpires, TypeOK
<1>4. QED  BY <1>1, <1>2, <1>3 DEF TypeOK, feed

-----------------------------------------------------------------------------
(* Listing a batch and moving the watermark.                               *)

LEMMA ListAfterStep ==
    ASSUME ReplayInv, NEW p \in Pollers, ListAfter(p)
    PROVE  ReplayInv' /\ proc'[p].pc = "event"
<1>0. /\ p \in Workers /\ proc[p] \in Proc /\ proc \in [Workers -> Proc] /\ TypeOK
      /\ Behind \subseteq Event /\ watermark \in Nat /\ \A e \in outbox : e.id \in Nat
    BY RowTypes DEF ReplayInv, TypeOK, Workers, Behind
<1>1. UNCHANGED <<feed, handled, db, list, payload, lock, faults, stray>>
    BY DEF ListAfter, feed
<1>size. PICK n \in 1..BatchSize :
        \E batch \in [1..n -> Behind] :
          /\ Page(batch)
          /\ proc' = [proc EXCEPT ![p].pc = "event", ![p].batch = batch, ![p].seen = FALSE,
                                  ![p].last = Last(batch).id]
    BY DEF ListAfter
<1>2. PICK batch \in [1..n -> Behind] :
          /\ Page(batch)
          /\ proc' = [proc EXCEPT ![p].pc = "event", ![p].batch = batch, ![p].seen = FALSE,
                                  ![p].last = Last(batch).id]
    BY <1>size
<1>3. /\ n \in Nat \ {0} /\ batch \in Seq(Event) /\ Len(batch) = n /\ Last(batch) = batch[n]
      /\ batch[n] \in Behind
    BY <1>0, <1>2, SchedulerAssumption DEF Last
<1>4. PICK last : last = Last(batch).id  OBVIOUS
<1>5. last \in Nat /\ Mark(last)
    BY <1>0, <1>3, <1>4 DEF Mark, Behind
<1>6. PICK r : r = [proc[p] EXCEPT !.pc = "event", !.batch = batch, !.seen = FALSE, !.last = last]
    OBVIOUS
<1>7. r \in Proc /\ r.last = last /\ r.batch = batch /\ r.pc = "event"
    BY <1>0, <1>3, <1>5, <1>6 DEF Proc
<1>8. proc' = [proc EXCEPT ![p] = r]
    BY <1>2, <1>4, <1>6
<1>9. /\ proc' \in [Workers -> Proc] /\ proc'[p] = r
      /\ \A q \in Workers \ {p} : proc'[q] = proc[q]
    BY <1>0, <1>7, <1>8
<1>10. TypeOK'  BY <1>0, <1>1, <1>9 DEF TypeOK, feed
<1>11. IdsApart' /\ WatermarkCovers' /\ Mark(watermark)'
    BY <1>1 DEF ReplayInv, Marks, Mark, IdsApart, Inserting, WatermarkCovers, feed
<1>12. ASSUME NEW q \in Pollers PROVE Mark(proc[q].last)' /\ Replayed(q)'
  <2>0. q \in Workers  BY DEF Workers
  <2>1. outbox' = outbox /\ handled' = handled  BY <1>1 DEF feed
  <2>2. CASE q # p
    <3>1. proc'[q] = proc[q]  BY <1>9, <2>0, <2>2
    <3>2. QED  BY <2>1, <3>1 DEF ReplayInv, Marks, AllReplayed, Mark, Replayed
  <2>3. CASE q = p
    <3>1. ASSUME NEW e \in outbox, e.id <= last, ~e.late, e.id \notin handled
          PROVE  e \in Range(batch)
      <4>1. e \in Behind
          BY <1>0, <3>1 DEF ReplayInv, WatermarkCovers, Behind
      <4>2. e \notin Range(batch) => last < e.id
          BY <1>2, <1>4, <4>1 DEF Page
      <4>3. QED  BY <1>0, <1>5, <3>1, <4>2
    <3>2. QED  BY <1>5, <1>7, <1>9, <2>1, <2>3, <3>1 DEF Mark, Replayed
  <2>4. QED  BY <2>2, <2>3
<1>13. QED
    BY <1>7, <1>9, <1>10, <1>11, <1>12 DEF ReplayInv, Marks, AllReplayed

LEMMA SetOutboxWatermarkStep ==
    ASSUME ReplayInv, NEW p \in Pollers, SetOutboxWatermark(p)
    PROVE  ReplayInv' /\ proc'[p].pc \in {"idle", "bucket"}
<1>0. /\ p \in Workers /\ proc[p] \in Proc /\ proc \in [Workers -> Proc] /\ TypeOK
      /\ proc[p].last \in Nat /\ proc[p].batch = <<>> /\ watermark' = proc[p].last
      /\ \A e \in outbox : e.id \in Nat /\ e.id >= 1
    BY RowTypes DEF ReplayInv, TypeOK, Workers, SetOutboxWatermark, IdsApart
<1>1. UNCHANGED <<outbox, nextId, recent, writer, handled, db, list, payload, lock, faults, stray>>
    BY DEF SetOutboxWatermark
<1>2. PICK pc \in {"idle", "bucket"} : proc' = [proc EXCEPT ![p] = [Idle EXCEPT !.pc = pc]]
    BY DEF SetOutboxWatermark
<1>3. PICK r : r = [Idle EXCEPT !.pc = pc]  OBVIOUS
<1>4. r \in Proc /\ r.last = 0 /\ r.pc = pc
    BY <1>3, IdleType DEF Idle, Proc
<1>5. /\ proc' \in [Workers -> Proc] /\ proc'[p] = r
      /\ \A q \in Workers \ {p} : proc'[q] = proc[q]
    BY <1>0, <1>2, <1>3, <1>4
<1>6. TypeOK'  BY <1>0, <1>1, <1>5 DEF TypeOK
<1>7. IdsApart'
    BY <1>1 DEF ReplayInv, IdsApart, Inserting
<1>8. Mark(watermark)'
    BY <1>0, <1>1 DEF ReplayInv, Marks, Mark
<1>9. WatermarkCovers'
  <2>1. Range(proc[p].batch) = {}  BY <1>0 DEF Range
  <2>2. QED  BY <1>0, <1>1, <2>1 DEF ReplayInv, AllReplayed, Replayed, WatermarkCovers
<1>10. ASSUME NEW q \in Pollers PROVE Mark(proc[q].last)' /\ Replayed(q)'
  <2>1. CASE q # p
    <3>1. proc'[q] = proc[q]  BY <1>5, <2>1 DEF Workers
    <3>2. QED  BY <1>1, <3>1 DEF ReplayInv, Marks, AllReplayed, Mark, Replayed
  <2>2. CASE q = p
      BY <1>0, <1>1, <1>4, <1>5, <2>2 DEF Mark, Replayed
  <2>3. QED  BY <2>1, <2>2
<1>11. QED
    BY <1>2, <1>4, <1>5, <1>6, <1>7, <1>8, <1>9, <1>10 DEF ReplayInv, Marks, AllReplayed

-----------------------------------------------------------------------------
(* The writers' steps.                                                     *)

(* One writer's record changes, and it is not about to commit an event.    *)
LEMMA QuietWriter ==
    ASSUME ReplayInv, TypeOK', NEW w \in Writers, writer'[w].pc # "insert",
           \A u \in Writers \ {w} : writer'[u] = writer[u],
           UNCHANGED <<outbox, nextId, watermark, proc, handled>>
    PROVE  ReplayInv'
<1>1. IdsApart'
    BY DEF ReplayInv, IdsApart, Inserting
<1>2. Marks' /\ AllReplayed' /\ WatermarkCovers'
    BY DEF ReplayInv, Marks, Mark, AllReplayed, Replayed, WatermarkCovers
<1>3. QED  BY <1>1, <1>2 DEF ReplayInv

LEMMA MovesStep ==
    ASSUME TypeOK, NEW w \in Writers, NEW pc \in {"read", "write", "done"}, Moves(w, pc)
    PROVE  /\ writer' \in [Writers -> Writer] /\ writer'[w].pc # "insert"
           /\ \A u \in Writers \ {w} : writer'[u] = writer[u]
<1>1. writer \in [Writers -> Writer]  BY DEF TypeOK
<1>2. writer' \in [Writers -> Writer]  BY <1>1, MovesType
<1>3. writer'[w].pc = pc /\ \A u \in Writers \ {w} : writer'[u] = writer[u]
    BY <1>1 DEF Moves, Writer
<1>4. QED  BY <1>2, <1>3

(* One field of a writer's record, and its place in the program.           *)
LEMMA WriterType ==
    ASSUME TypeOK, NEW w \in Writers, NEW r \in Writer, r.pc # "insert",
           writer' = [writer EXCEPT ![w] = r]
    PROVE  /\ writer' \in [Writers -> Writer] /\ writer'[w].pc # "insert"
           /\ \A u \in Writers \ {w} : writer'[u] = writer[u]
BY DEF TypeOK

LEMMA SelectStep ==
    ASSUME ReplayInv, NEW w \in Writers, Select(w) PROVE ReplayInv'
<1>0. TypeOK /\ writer[w] \in Writer /\ payload \in Rows
    BY RowTypes DEF ReplayInv, TypeOK
<1>1. PICK r : r = [writer[w] EXCEPT !.pc = "change", !.got = payload]
    OBVIOUS
<1>2. r \in Writer /\ r.pc # "insert"
    BY <1>0, <1>1 DEF Writer
<1>3. writer' = [writer EXCEPT ![w] = r]
    BY <1>1 DEF Select
<1>4. /\ writer' \in [Writers -> Writer] /\ writer'[w].pc # "insert"
      /\ \A u \in Writers \ {w} : writer'[u] = writer[u]
    BY <1>0, <1>2, <1>3, WriterType
<1>5. UNCHANGED <<db, outbox, nextId, recent, watermark, list, payload, lock, proc, faults, handled, stray>>
    BY DEF Select
<1>6. TypeOK'  BY <1>0, <1>4, <1>5 DEF TypeOK
<1>7. QED  BY <1>4, <1>5, <1>6, QuietWriter

LEMMA ChangeStep ==
    ASSUME ReplayInv, NEW w \in Writers, Change(w) PROVE ReplayInv' /\ db'.v >= db.v
<1>0. TypeOK /\ writer[w] \in Writer /\ db \in Rows /\ db.v \in Nat
    BY RowTypes DEF ReplayInv, TypeOK
<1>1. db' \in Rows /\ db'.v \in Nat /\ db'.v >= db.v
  <2>1. CASE UNCHANGED db  BY <1>0, <2>1
  <2>2. ASSUME NEW ok \in BOOLEAN, db' = [v |-> db.v + 1, ok |-> ok]
        PROVE  db' \in Rows /\ db'.v \in Nat /\ db'.v >= db.v
      BY <1>0, <2>2 DEF Rows
  <2>3. QED  BY <2>1, <2>2 DEF Change
<1>2. PICK v \in Nat : v = IF EventType(writer[w].kind) = "none" \/ writer[w].kind = "used" THEN 0 ELSE db'.v
    BY <1>1
<1>3. PICK pc \in {"read", "enqueue"} : pc = AfterChange(writer[w].kind)
    BY DEF AfterChange
<1>4. PICK r : r = [writer[w] EXCEPT !.v = v, !.pc = pc]
    OBVIOUS
<1>5. r \in Writer /\ r.pc # "insert"
    BY <1>0, <1>4 DEF Writer
<1>6. writer' = [writer EXCEPT ![w] = r]
    BY <1>2, <1>3, <1>4 DEF Change
<1>7. /\ writer' \in [Writers -> Writer] /\ writer'[w].pc # "insert"
      /\ \A u \in Writers \ {w} : writer'[u] = writer[u]
    BY <1>0, <1>5, <1>6, WriterType
<1>8. UNCHANGED <<outbox, nextId, recent, watermark, list, payload, lock, proc, faults, handled, stray>>
    BY DEF Change
<1>9. TypeOK'  BY <1>0, <1>1, <1>7, <1>8 DEF TypeOK
<1>10. QED  BY <1>1, <1>7, <1>8, <1>9, QuietWriter

LEMMA UnbindStep ==
    ASSUME ReplayInv, NEW w \in Writers, Unbind(w) PROVE ReplayInv'
<1>1. /\ writer' \in [Writers -> Writer] /\ writer'[w].pc # "insert"
      /\ \A u \in Writers \ {w} : writer'[u] = writer[u]
    BY MovesStep DEF ReplayInv, Unbind
<1>2. UNCHANGED <<db, outbox, nextId, recent, watermark, list, payload, lock, proc, faults, handled, stray>>
    BY DEF Unbind
<1>3. TypeOK'  BY <1>1, <1>2 DEF ReplayInv, TypeOK
<1>4. QED  BY <1>1, <1>2, <1>3, QuietWriter

LEMMA SyncReadStep ==
    ASSUME ReplayInv, NEW w \in Writers, SyncRead(w) PROVE ReplayInv'
<1>0. TypeOK /\ writer[w] \in Writer /\ db \in Rows
    BY RowTypes DEF ReplayInv, TypeOK
<1>1. PICK r : r = [writer[w] EXCEPT !.pc = "write", !.got = db]
    OBVIOUS
<1>2. r \in Writer /\ r.pc # "insert"
    BY <1>0, <1>1 DEF Writer
<1>3. writer' = [writer EXCEPT ![w] = r]
    BY <1>1 DEF SyncRead
<1>4. /\ writer' \in [Writers -> Writer] /\ writer'[w].pc # "insert"
      /\ \A u \in Writers \ {w} : writer'[u] = writer[u]
    BY <1>0, <1>2, <1>3, WriterType
<1>5. UNCHANGED <<db, outbox, nextId, recent, watermark, list, payload, lock, proc, faults, handled, stray>>
    BY DEF SyncRead
<1>6. TypeOK'  BY <1>0, <1>4, <1>5 DEF TypeOK
<1>7. QED  BY <1>4, <1>5, <1>6, QuietWriter

LEMMA SetAccountStep ==
    ASSUME ReplayInv, NEW w \in Writers, SetAccount(w) PROVE ReplayInv'
<1>1. /\ writer' \in [Writers -> Writer] /\ writer'[w].pc # "insert"
      /\ \A u \in Writers \ {w} : writer'[u] = writer[u]
    BY MovesStep DEF ReplayInv, SetAccount
<1>2. UNCHANGED <<db, outbox, nextId, recent, watermark, list, lock, proc, handled, stray>>
    BY DEF SetAccount
<1>3. payload' \in Rows /\ faults' \in 0..MaxFaults
    BY RowTypes, FaultType DEF ReplayInv, TypeOK, SetAccount
<1>4. TypeOK'  BY <1>1, <1>2, <1>3 DEF ReplayInv, TypeOK
<1>5. QED  BY <1>1, <1>2, <1>4, QuietWriter

LEMMA EnqueueStep ==
    ASSUME ReplayInv, NEW w \in Writers, Enqueue(w) PROVE ReplayInv'
<1>0. /\ TypeOK /\ IdsApart /\ writer[w] \in Writer /\ nextId \in Nat /\ nextId >= 1
      /\ writer \in [Writers -> Writer]
    BY RowTypes DEF ReplayInv, TypeOK, IdsApart
<1>1. UNCHANGED <<db, outbox, recent, watermark, list, payload, lock, proc, handled, stray>>
    BY DEF Enqueue
<1>2. CASE /\ nextId' = nextId + 1 /\ UNCHANGED faults
           /\ writer' = [writer EXCEPT ![w].pc = "insert", ![w].id = nextId]
  <2>1. PICK n \in Nat : n = nextId  BY <1>0
  <2>2. PICK r : r = [writer[w] EXCEPT !.pc = "insert", !.id = n]
      OBVIOUS
  <2>3. r \in Writer /\ r.pc = "insert" /\ r.id = n
      BY <1>0, <2>2 DEF Writer
  <2>4. writer' = [writer EXCEPT ![w] = r]
      BY <1>2, <2>1, <2>2
  <2>5. /\ writer' \in [Writers -> Writer] /\ writer'[w] = r
        /\ \A u \in Writers \ {w} : writer'[u] = writer[u]
      BY <1>0, <2>3, <2>4
  <2>6. TypeOK'  BY <1>0, <1>1, <1>2, <2>5 DEF TypeOK
  <2>7. /\ n >= 1 /\ \A e \in outbox : e.id \in Nat /\ 1 <= e.id /\ e.id < n
        /\ \A u \in Writers : Inserting(u) =>
             writer[u].id \in Nat /\ 1 <= writer[u].id /\ writer[u].id < n
      BY <1>0, <2>1, RowTypes DEF IdsApart
  <2>8. outbox' = outbox /\ nextId' = n + 1  BY <1>1, <1>2, <2>1
  <2>9. \A u \in Writers : Inserting(u)' =>
          \/ u = w /\ writer'[u].id = n
          \/ u # w /\ Inserting(u) /\ writer'[u].id = writer[u].id
      BY <2>3, <2>5 DEF Inserting
  <2>10. IdsApart'
    <3>1. nextId' >= 1 /\ \A e \in outbox' : 1 <= e.id /\ e.id < nextId'
        BY <2>7, <2>8
    <3>2. ASSUME NEW u \in Writers, Inserting(u)'
          PROVE  /\ 1 <= writer'[u].id /\ writer'[u].id < nextId'
                 /\ \A e \in outbox' : e.id # writer'[u].id
                 /\ \A t \in Writers : t # u /\ Inserting(t)' => writer'[t].id # writer'[u].id
      <4>1. CASE u = w /\ writer'[u].id = n
          BY <2>7, <2>8, <2>9, <4>1
      <4>2. CASE u # w /\ Inserting(u) /\ writer'[u].id = writer[u].id
          BY <1>0, <2>7, <2>8, <2>9, <4>2 DEF IdsApart
      <4>3. QED  BY <2>9, <3>2, <4>1, <4>2
    <3>3. QED  BY <3>1, <3>2 DEF IdsApart, Inserting
  <2>11. Marks' /\ AllReplayed' /\ WatermarkCovers'
      BY <1>1 DEF ReplayInv, Marks, Mark, AllReplayed, Replayed, WatermarkCovers
  <2>12. QED  BY <2>6, <2>10, <2>11 DEF ReplayInv
<1>3. CASE /\ UNCHANGED faults \/ Fault
           /\ Moves(w, AfterEnqueue(writer[w].kind)) /\ UNCHANGED nextId
  <2>1. PICK pc \in {"read", "write", "done"} : pc = AfterEnqueue(writer[w].kind)
      BY DEF AfterEnqueue
  <2>2. /\ writer' \in [Writers -> Writer] /\ writer'[w].pc # "insert"
        /\ \A u \in Writers \ {w} : writer'[u] = writer[u]
      BY <1>0, <1>3, <2>1, MovesStep
  <2>3. faults' \in 0..MaxFaults
      BY <1>0, <1>3, FaultType DEF TypeOK
  <2>4. TypeOK'  BY <1>0, <1>1, <1>3, <2>2, <2>3 DEF TypeOK
  <2>5. QED  BY <1>1, <1>3, <2>2, <2>4, QuietWriter
<1>4. QED  BY <1>2, <1>3 DEF Enqueue

LEMMA InsertStep ==
    ASSUME ReplayInv, NEW w \in Writers, Insert(w) PROVE ReplayInv'
<1> DEFINE type == EventType(writer[w].kind)
           passed == watermark > writer[w].id \/ \E p \in Pollers : proc[p].last > writer[w].id
           new == [id |-> writer[w].id, type |-> type, v |-> writer[w].v, late |-> passed]
<1>0. /\ TypeOK /\ IdsApart /\ Inserting(w) /\ writer[w].id \in Nat /\ writer[w].v \in Nat
      /\ writer[w].kind \in AllKinds /\ watermark \in Nat
      /\ \A p \in Pollers : proc[p].last \in Nat
      /\ \A e \in outbox : e.id \in Nat /\ e.id >= 1 /\ e.id # writer[w].id
    BY RowTypes, SchedulerAssumption DEF ReplayInv, TypeOK, IdsApart, Inserting, Insert, Workers
<1>1. /\ UNCHANGED <<db, nextId, watermark, list, payload, lock, proc, faults, handled, stray>>
      /\ outbox' = outbox \cup {new}
      /\ recent' = recent \cup (IF SupportsDedup(type) THEN {type} ELSE {})
      /\ Moves(w, AfterEnqueue(writer[w].kind))
    BY DEF Insert
<1>2. PICK pc \in {"read", "write", "done"} : pc = AfterEnqueue(writer[w].kind)
    BY DEF AfterEnqueue
<1>3. /\ writer' \in [Writers -> Writer] /\ writer'[w].pc # "insert"
      /\ \A u \in Writers \ {w} : writer'[u] = writer[u]
    BY <1>0, <1>1, <1>2, MovesStep
<1>4. PICK late \in BOOLEAN : late <=> passed  OBVIOUS
<1>5. type \in {EventType(k) : k \in AllKinds}  BY <1>0
<1> HIDE DEF type
<1>6. PICK e \in Event : e = new /\ e.id = writer[w].id /\ (e.late <=> passed)
  <2>1. new \in Event  BY <1>0, <1>5 DEF Event
  <2>2. QED  BY <2>1
<1> HIDE DEF new
<1>7. TypeOK'
  <2>1. outbox' \subseteq Event  BY <1>0, <1>1, <1>6 DEF TypeOK
  <2>2. /\ recent' \subseteq {EventType(k) : k \in AllKinds}
        /\ \A t \in recent' : SupportsDedup(t)
      BY <1>0, <1>1, <1>5 DEF TypeOK
  <2>3. QED  BY <1>0, <1>1, <1>3, <2>1, <2>2 DEF TypeOK
<1>8. IdsApart'
  <2>1. \A u \in Writers : Inserting(u)' => u # w /\ Inserting(u) /\ writer'[u].id = writer[u].id
      BY <1>3 DEF Inserting
  <2>2. QED  BY <1>0, <1>1, <1>6, <2>1 DEF IdsApart
<1>9. Marks'
    BY <1>1 DEF ReplayInv, Marks, Mark
<1>10. watermark # e.id /\ \A p \in Pollers : proc[p].last # e.id
  <2>1. e.id >= 1 /\ \A f \in outbox : f.id # e.id
      BY <1>0, <1>6 DEF IdsApart
  <2>2. QED  BY <2>1 DEF ReplayInv, Marks, Mark
<1>11. ~e.late => watermark < e.id /\ \A p \in Pollers : proc[p].last < e.id
    BY <1>0, <1>6, <1>10
<1>12. WatermarkCovers'
    BY <1>0, <1>1, <1>6, <1>11 DEF ReplayInv, WatermarkCovers
<1>13. AllReplayed'
    BY <1>0, <1>1, <1>6, <1>11 DEF ReplayInv, AllReplayed, Replayed
<1>14. QED  BY <1>7, <1>8, <1>9, <1>12, <1>13 DEF ReplayInv

LEMMA WindowStep ==
    ASSUME ReplayInv, WindowPasses PROVE ReplayInv'
<1>1. UNCHANGED <<db, outbox, nextId, watermark, list, payload, lock, proc, writer, faults, handled, stray>>
      /\ recent' = {}
    BY DEF WindowPasses
<1>2. TypeOK'  BY <1>1 DEF ReplayInv, TypeOK
<1>3. QED
    BY <1>1, <1>2 DEF ReplayInv, IdsApart, Inserting, Marks, Mark, AllReplayed, Replayed, WatermarkCovers

-----------------------------------------------------------------------------
(* Every step keeps the invariant of the replay.                           *)

LEMMA WorkerTypes ==
    ASSUME NEW p, p \in Pollers \cup Rebuilders \cup Readers PROVE p \in Workers
BY DEF Workers

LEMMA ReplayNext ==
    ASSUME ReplayInv, [Next]_vars PROVE ReplayInv'
<1>0. TypeOK  BY DEF ReplayInv
<1>1. ASSUME NEW w \in Writers, Select(w) \/ Write(w) PROVE ReplayInv'
    BY <1>1, SelectStep, ChangeStep, UnbindStep, EnqueueStep, InsertStep, SyncReadStep,
       SetAccountStep DEF Write
<1>2. ASSUME NEW p \in Pollers, Poll(p) PROVE ReplayInv'
  <2>1. p \in Workers  BY WorkerTypes
  <2>2. CASE ListAfter(p) \/ SetOutboxWatermark(p)
      BY <2>2, ListAfterStep, SetOutboxWatermarkStep
  <2>3. CASE GetAccount(p) \/ WriteAccount(p) \/ HandleGroup(p)
      BY <1>0, <2>1, <2>3, GetAccountMoves, WriteAccountMoves, HandleGroupMoves, MovedReplays
  <2>4. QED  BY <1>2, <2>2, <2>3 DEF Poll
<1>3. ASSUME NEW p \in Workers, RebuildBucket(p) \/ Fallback(p) \/ Fail(p) PROVE ReplayInv'
  <2>1. CASE LoadAccounts(p) \/ Fallback(p)
    <3>1. /\ UNCHANGED <<feed, handled, db, list, payload, lock, faults, stray>>
          /\ proc' = [proc EXCEPT ![p].pc = "fill", ![p].got = db]
        BY <2>1 DEF LoadAccounts, Fallback, feed
    <3>2. QED  BY <1>0, <3>1, LoadMoves, MovedReplays
  <2>2. CASE TryLockBucket(p) \/ WriteAccounts(p) \/ SetActive(p) \/ Fail(p)
      BY <1>0, <2>2, TryLockMoves, WriteAccountsMoves, SetActiveMoves, FailMoves, MovedReplays
  <2>3. QED  BY <1>3, <2>1, <2>2 DEF RebuildBucket
<1>4. CASE LockExpires
  <2>1. TypeOK' /\ UNCHANGED <<feed, handled, proc>>
      BY <1>0, <1>4, LockExpiresMoves
  <2>2. QED
      BY <2>1
      DEF ReplayInv, feed, IdsApart, Inserting, Marks, Mark, AllReplayed, Replayed, WatermarkCovers
<1>5. CASE WindowPasses  BY <1>5, WindowStep
<1>6. CASE UNCHANGED vars
    BY <1>6
    DEF vars, ReplayInv, TypeOK, IdsApart, Inserting, Marks, Mark, AllReplayed, Replayed, WatermarkCovers
<1>7. QED
    BY <1>1, <1>2, <1>3, <1>4, <1>5, <1>6, WorkerTypes DEF Next, RebuildBucket

LEMMA ReplayInit == ASSUME Init PROVE ReplayInv
<1>1. /\ NoRow \in Rows /\ Idle \in Proc /\ Idle.last = 0 /\ db \in Rows
    BY IdleType DEF Init, NoRow, Rows, Idle
<1>2. proc \in [Workers -> Proc] /\ \A p \in Workers : proc[p] = Idle
    BY <1>1 DEF Init
<1>3. writer \in [Writers -> Writer] /\ \A w \in Writers : writer[w].pc # "insert"
    BY <1>1 DEF Init, Writer
<1>4. TypeOK
  <2>1. db \in Rows /\ list \in Rows /\ payload \in Rows /\ lock \in BOOLEAN
      BY <1>1 DEF Init
  <2>2. outbox \subseteq Event /\ nextId \in Nat /\ watermark \in Nat /\ handled \subseteq Nat
      BY DEF Init
  <2>3. faults \in 0..MaxFaults
      BY SchedulerAssumption DEF Init
  <2>4. recent \subseteq {EventType(k) : k \in AllKinds} /\ \A t \in recent : SupportsDedup(t)
      BY DEF Init
  <2>5. stray \subseteq Workers  BY DEF Init
  <2>6. QED  BY <1>2, <1>3, <2>1, <2>2, <2>3, <2>4, <2>5 DEF TypeOK
<1>5. IdsApart /\ Marks /\ AllReplayed /\ WatermarkCovers
    BY <1>1, <1>2, <1>3
    DEF Init, IdsApart, Inserting, Marks, Mark, AllReplayed, Replayed, WatermarkCovers, Workers
<1>6. QED  BY <1>4, <1>5 DEF ReplayInv

-----------------------------------------------------------------------------
(* Every step keeps the invariant of the rebuilds, while no request falls  *)
(* back, and no step makes the list older unless a rebuild is stray.       *)

Newer == stray = {} => NotOlder

(* A worker that is not rebuilding afterwards frees nothing but itself; one*)
(* that still is holds what it had, or the row as it is now.               *)
LEMMA KeepsRebuild ==
    ASSUME TypeOK, OneRebuild, NEW p \in Workers, UNCHANGED <<list, lock, db>>,
           stray' = stray \/ (stray' = stray \ {p} /\ ~Rebuilding(p)'),
           \A q \in Workers \ {p} : proc'[q] = proc[q],
           Rebuilding(p)' => /\ Rebuilding(p)
                             /\ Loaded(p)' => \/ proc'[p].got = db
                                              \/ Loaded(p) /\ proc'[p].got = proc[p].got
    PROVE  OneRebuild' /\ Newer
<1>1. list.v \in Nat /\ db.v \in Nat /\ list.v <= db.v
    BY RowTypes DEF OneRebuild, NothingAhead
<1>2. ASSUME NEW q \in Workers, Rebuilding(q)'
      PROVE  /\ Rebuilding(q)
             /\ stray' = stray \/ q # p
             /\ Loaded(q)' => /\ proc'[q].got.v <= db.v
                              /\ stray = {} => list.v <= proc'[q].got.v
  <2>1. CASE q = p  BY <1>1, <1>2, <2>1 DEF OneRebuild, NothingAhead, LockHeld
  <2>2. CASE q # p
    <3>1. proc'[q] = proc[q]  BY <2>2
    <3>2. QED  BY <1>2, <2>2, <3>1 DEF OneRebuild, NothingAhead, LockHeld, Rebuilding, Loaded
  <2>3. QED  BY <2>1, <2>2
<1>3. NothingAhead'
    BY <1>1, <1>2 DEF NothingAhead
<1>4. CASE stray = {}
  <2>1. stray' = {} /\ LockHeld  BY <1>4 DEF OneRebuild
  <2>2. LockHeld'
      BY <1>2, <1>4, <2>1 DEF LockHeld
  <2>3. QED  BY <1>1, <1>3, <2>1, <2>2 DEF OneRebuild, Newer, NotOlder
<1>5. CASE stray # {}
  <2>1. AllStray'
      BY <1>2, <1>5 DEF OneRebuild, AllStray
  <2>2. CASE stray' = {}
    <3>1. \A q \in Workers : ~Rebuilding(q)'  BY <2>1, <2>2 DEF AllStray
    <3>2. QED  BY <1>3, <1>5, <2>2, <3>1 DEF OneRebuild, LockHeld, Newer
  <2>3. QED  BY <1>3, <1>5, <2>1, <2>2 DEF OneRebuild, Newer
<1>6. QED  BY <1>4, <1>5

LEMMA WriterRebuild ==
    ASSUME TypeOK, TypeOK', OneRebuild, UNCHANGED <<list, lock, proc, stray>>, db'.v >= db.v
    PROVE  OneRebuild' /\ Newer
<1>1. /\ list.v \in Nat /\ db.v \in Nat /\ db'.v \in Nat
      /\ \A p \in Workers : proc[p].got.v \in Nat
    BY RowTypes DEF TypeOK, Rows
<1>2. NothingAhead'
    BY <1>1 DEF OneRebuild, NothingAhead, Rebuilding, Loaded
<1>3. (LockHeld => LockHeld') /\ (AllStray => AllStray')
    BY DEF LockHeld, AllStray, Rebuilding, Loaded
<1>4. OneRebuild'  BY <1>2, <1>3 DEF OneRebuild
<1>5. QED  BY <1>1, <1>4 DEF Newer, NotOlder

LEMMA SetActiveRebuild ==
    ASSUME TypeOK, OneRebuild, NoFallback, NEW p \in Workers, SetActive(p)
    PROVE  OneRebuild' /\ Newer
<1>1. Moved(p) /\ proc'[p].pc \in {"idle", "event"}
    BY SetActiveMoves
<1>2. Rebuilding(p) /\ Loaded(p)
    BY DEF NoFallback, SetActive, Rebuilding, Loaded
<1>3. proc[p].got.v <= db.v /\ (stray = {} => list.v <= proc[p].got.v)
    BY <1>2 DEF OneRebuild, NothingAhead, LockHeld
<1>4. list' = proc[p].got /\ db' = db /\ stray' = stray \ {p}  BY DEF SetActive
<1>5. \A q \in Workers : Rebuilding(q)' => q # p /\ Rebuilding(q) /\ proc'[q] = proc[q]
    BY <1>1 DEF Moved, Rebuilding
<1>6. NothingAhead'
    BY <1>3, <1>4, <1>5 DEF OneRebuild, NothingAhead, Loaded
<1>7. stray = {} => \A q \in Workers : ~Rebuilding(q)'
    BY <1>2, <1>5 DEF OneRebuild, LockHeld
<1>8. stray # {} => AllStray'
    BY <1>4, <1>5 DEF OneRebuild, AllStray
<1>9. OneRebuild'
    BY <1>4, <1>6, <1>7, <1>8 DEF OneRebuild, LockHeld, AllStray
<1>10. QED  BY <1>3, <1>4, <1>9, RowTypes DEF Newer, NotOlder

LEMMA TryLockRebuild ==
    ASSUME TypeOK, OneRebuild, NEW p \in Workers, TryLockBucket(p)
    PROVE  OneRebuild' /\ Newer
<1>1. /\ Moved(p)
      /\ \/ lock' = lock /\ stray' = stray /\ ~proc'[p].pc \in {"load", "fill", "switch"}
         \/ /\ ~lock /\ lock' /\ proc'[p].pc = "load"
            /\ stray' = IF stray = {} THEN {} ELSE stray \cup {p}
    BY TryLockMoves
<1>2. list' = list /\ db' = db  BY DEF TryLockBucket
<1>3. \A q \in Workers \ {p} : proc'[q] = proc[q]
    BY <1>1 DEF Moved
<1>4. CASE lock' = lock /\ stray' = stray /\ ~proc'[p].pc \in {"load", "fill", "switch"}
    BY <1>2, <1>3, <1>4, KeepsRebuild DEF Rebuilding
<1>5. CASE /\ ~lock /\ lock' /\ proc'[p].pc = "load"
           /\ stray' = IF stray = {} THEN {} ELSE stray \cup {p}
  <2>1. /\ ~Loaded(p)'
        /\ \A q \in Workers \ {p} : proc'[q] = proc[q] /\ (Rebuilding(q)' <=> Rebuilding(q))
                                   /\ (Loaded(q)' <=> Loaded(q))
      BY <1>3, <1>5 DEF Loaded, Rebuilding
  <2>2. NothingAhead'
      BY <1>2, <2>1 DEF OneRebuild, NothingAhead
  <2>3. CASE stray = {}
    <3>1. \A q \in Workers : Rebuilding(q)' => q = p
        BY <1>5, <2>1, <2>3 DEF OneRebuild, LockHeld
    <3>2. LockHeld'  BY <1>5, <2>1, <3>1 DEF LockHeld
    <3>3. QED  BY <1>2, <1>5, <2>2, <2>3, <3>2, RowTypes DEF OneRebuild, Newer, NotOlder
  <2>4. CASE stray # {}
    <3>1. stray' # {} /\ AllStray'
        BY <1>5, <2>1, <2>4 DEF OneRebuild, AllStray
    <3>2. QED  BY <2>2, <2>4, <3>1 DEF OneRebuild, Newer
  <2>5. QED  BY <2>3, <2>4
<1>6. QED  BY <1>1, <1>4, <1>5

LEMMA LockExpiresRebuild ==
    ASSUME TypeOK, OneRebuild, LockExpires
    PROVE  OneRebuild' /\ Newer
<1>1. list' = list /\ db' = db /\ proc' = proc  BY LockExpiresMoves DEF LockExpires
<1>2. \A p \in Workers : Rebuilding(p)' <=> p \in stray'
    BY <1>1 DEF LockExpires, Rebuilding
<1>3. NothingAhead'
    BY <1>1 DEF OneRebuild, NothingAhead, Rebuilding, Loaded
<1>4. OneRebuild'
    BY <1>2, <1>3 DEF OneRebuild, LockHeld, AllStray
<1>5. QED  BY <1>1, <1>4, RowTypes DEF Newer, NotOlder

LEMMA RebuildNext ==
    ASSUME ReplayInv, OneRebuild, NoFallback, NoFallback', [Next]_vars
    PROVE  OneRebuild' /\ Newer
<1>0. TypeOK /\ TypeOK' /\ db.v \in Nat  BY ReplayNext, RowTypes DEF ReplayInv
<1>1. ASSUME NEW w \in Writers, Select(w) \/ Write(w) PROVE OneRebuild' /\ Newer
  <2>1. UNCHANGED <<list, lock, proc, stray>> /\ db'.v >= db.v
    <3>1. CASE Change(w)  BY <3>1, ChangeStep DEF Change
    <3>2. CASE Select(w) \/ Unbind(w) \/ Enqueue(w) \/ Insert(w) \/ SyncRead(w) \/ SetAccount(w)
        BY <1>0, <3>2 DEF Select, Unbind, Enqueue, Insert, SyncRead, SetAccount
    <3>3. QED  BY <1>1, <3>1, <3>2 DEF Write
  <2>2. QED  BY <1>0, <2>1, WriterRebuild
<1>2. ASSUME NEW p \in Pollers, Poll(p) PROVE OneRebuild' /\ Newer
  <2>0. p \in Workers  BY WorkerTypes
  <2>1. UNCHANGED <<list, lock, db, stray>>
      BY <1>2 DEF Poll, ListAfter, GetAccount, WriteAccount, HandleGroup, SetOutboxWatermark
  <2>2. ~proc'[p].pc \in {"load", "fill", "switch"}
      BY <1>0, <1>2, <2>0, ListAfterStep, GetAccountMoves, WriteAccountMoves, HandleGroupMoves,
         SetOutboxWatermarkStep DEF Poll
  <2>3. \A q \in Workers \ {p} : proc'[q] = proc[q]
    <3>1. CASE ListAfter(p) \/ SetOutboxWatermark(p)
        BY <1>0, <3>1 DEF TypeOK, ListAfter, SetOutboxWatermark
    <3>2. CASE GetAccount(p) \/ WriteAccount(p) \/ HandleGroup(p)
        BY <1>0, <2>0, <3>2, GetAccountMoves, WriteAccountMoves, HandleGroupMoves DEF Moved
    <3>3. QED  BY <1>2, <3>1, <3>2 DEF Poll
  <2>4. QED  BY <1>0, <2>0, <2>1, <2>2, <2>3, KeepsRebuild DEF Rebuilding
<1>3. ASSUME NEW p \in Workers, RebuildBucket(p) \/ Fail(p) PROVE OneRebuild' /\ Newer
  <2>1. CASE LoadAccounts(p)
    <3>1. /\ UNCHANGED <<feed, handled, db, list, payload, lock, faults, stray>>
          /\ proc' = [proc EXCEPT ![p].pc = "fill", ![p].got = db] /\ proc[p].pc = "load"
        BY <2>1 DEF LoadAccounts, feed
    <3>2. Moved(p) /\ proc'[p].got = db
        BY <1>0, <3>1, LoadMoves
    <3>3. QED  BY <1>0, <3>1, <3>2, KeepsRebuild DEF Moved, Rebuilding
  <2>2. CASE WriteAccounts(p)
    <3>1. Moved(p) /\ proc'[p].got = proc[p].got
        BY <1>0, <2>2, WriteAccountsMoves
    <3>2. UNCHANGED <<list, lock, db, stray>> /\ proc[p].pc = "fill"
        BY <2>2 DEF WriteAccounts
    <3>3. QED  BY <1>0, <3>1, <3>2, KeepsRebuild DEF Moved, Rebuilding, Loaded
  <2>3. CASE Fail(p)
    <3>1. /\ Moved(p) /\ proc'[p].pc = "idle" /\ UNCHANGED <<list, lock, db>>
          /\ stray' = stray \ {p}
        BY <1>0, <2>3, FailMoves DEF Fail
    <3>2. QED  BY <1>0, <3>1, KeepsRebuild DEF Moved, Rebuilding
  <2>4. QED  BY <1>0, <1>3, <2>1, <2>2, <2>3, TryLockRebuild, SetActiveRebuild DEF RebuildBucket
<1>4. ASSUME NEW p \in Readers, Fallback(p) \/ WriteAccounts(p) \/ SetActive(p) \/ Fail(p)
      PROVE  FALSE
  <2>1. p \in Workers /\ proc[p].pc = "idle" /\ proc'[p].pc = "idle"
      BY WorkerTypes DEF NoFallback
  <2>2. CASE Fallback(p)
    <3>1. /\ UNCHANGED <<feed, handled, db, list, payload, lock, faults, stray>>
          /\ proc' = [proc EXCEPT ![p].pc = "fill", ![p].got = db]
        BY <2>2 DEF Fallback, feed
    <3>2. QED  BY <1>0, <2>1, <3>1, LoadMoves
  <2>3. QED  BY <1>4, <2>1, <2>2 DEF WriteAccounts, SetActive, Fail
<1>5. CASE LockExpires  BY <1>0, <1>5, LockExpiresRebuild
<1>6. CASE WindowPasses \/ UNCHANGED vars
  <2>1. UNCHANGED <<list, lock, proc, db, stray>>  BY <1>6 DEF WindowPasses, vars
  <2>2. QED  BY <1>0, <2>1, WriterRebuild
<1>7. QED
    BY <1>1, <1>2, <1>3, <1>4, <1>5, <1>6, WorkerTypes DEF Next

LEMMA RebuildInit == ASSUME Init PROVE OneRebuild /\ NoFallback
<1>1. \A p \in Workers : proc[p].pc = "idle"
    BY DEF Init, Idle
<1>2. db.v = 0 /\ list.v = 0  BY DEF Init
<1>3. QED
    BY <1>1, <1>2 DEF Init, OneRebuild, NothingAhead, LockHeld, NoFallback, Rebuilding, Workers

-----------------------------------------------------------------------------
(* The theorems.                                                           *)

(* The watermark passes no event that was committed before its batch was   *)
(* listed and that no poller went through to the end.                      *)
THEOREM ReplayLosesNothing == Spec => [](TypeOK /\ WatermarkCovers)
<1>1. Init => ReplayInv  BY ReplayInit
<1>2. ReplayInv /\ [Next]_vars => ReplayInv'  BY ReplayNext
<1>3. ReplayInv => TypeOK /\ WatermarkCovers  BY DEF ReplayInv
<1>4. QED  BY <1>1, <1>2, <1>3, PTL DEF Spec

(* While no request falls back to the database, a step brings an older     *)
(* list back only beside a rebuild that outlived its lock, or one that     *)
(* began beside such a rebuild.                                            *)
THEOREM ListsGrowNewer == Spec /\ []NoFallback => ListNeverOlder
<1>1. Init => ReplayInv /\ OneRebuild  BY ReplayInit, RebuildInit
<1>2. ReplayInv /\ [Next]_vars => ReplayInv'  BY ReplayNext
<1>3. ReplayInv /\ OneRebuild /\ NoFallback /\ NoFallback' /\ [Next]_vars => OneRebuild' /\ Newer
    BY RebuildNext
<1>4. QED  BY <1>1, <1>2, <1>3, PTL DEF Spec, ListNeverOlder, Newer

(* Requests outside the cast stay idle.                                    *)
LEMMA OutOfCastStep ==
    ASSUME TypeOK, OutOfCast, MCNext PROVE OutOfCast'
<1>1. Cast' = Cast  BY DEF MCNext, Cast
<1>2. ASSUME NEW r \in Readers \ Cast PROVE proc'[r].pc = "idle"
  <2>1. r \in Workers /\ r \notin Pollers /\ r \notin Rebuilders /\ proc[r].pc = "idle"
      BY SchedulerAssumption DEF Workers, OutOfCast
  <2>2. ASSUME NEW p \in Workers \ {r}, Moved(p) PROVE proc'[r].pc = "idle"
      BY <2>1, <2>2 DEF Moved
  <2>3. CASE UNCHANGED proc  BY <2>1, <2>3
  <2>4. CASE \E w \in Writers : Select(w) \/ Write(w)
      BY <2>3, <2>4 DEF Write, Select, Change, Unbind, Enqueue, Insert, SyncRead, SetAccount
  <2>5. ASSUME NEW p \in Pollers, Poll(p) PROVE proc'[r].pc = "idle"
    <3>1. p # r /\ p \in Workers  BY <2>1, WorkerTypes
    <3>2. CASE ListAfter(p) \/ SetOutboxWatermark(p)
        BY <2>1, <3>1, <3>2 DEF TypeOK, ListAfter, SetOutboxWatermark
    <3>3. CASE GetAccount(p) \/ WriteAccount(p) \/ HandleGroup(p)
        BY <2>2, <3>1, <3>3, GetAccountMoves, WriteAccountMoves, HandleGroupMoves
    <3>4. QED  BY <2>5, <3>2, <3>3 DEF Poll
  <2>6. ASSUME NEW p \in Workers \ {r}, RebuildBucket(p) \/ Fallback(p) \/ Fail(p)
        PROVE  proc'[r].pc = "idle"
    <3>1. CASE LoadAccounts(p) \/ Fallback(p)
      <4>1. /\ UNCHANGED <<feed, handled, db, list, payload, lock, faults, stray>>
            /\ proc' = [proc EXCEPT ![p].pc = "fill", ![p].got = db]
          BY <3>1 DEF LoadAccounts, Fallback, feed
      <4>2. QED  BY <2>2, <4>1, LoadMoves
    <3>2. CASE TryLockBucket(p) \/ WriteAccounts(p) \/ SetActive(p) \/ Fail(p)
        BY <2>2, <3>2, TryLockMoves, WriteAccountsMoves, SetActiveMoves, FailMoves
    <3>3. QED  BY <2>6, <3>1, <3>2 DEF RebuildBucket
  <2>7. CASE WindowPasses  BY <2>3, <2>7 DEF WindowPasses
  <2>8. CASE LockExpires  BY <2>3, <2>8, LockExpiresMoves
  <2>9. QED
      BY <1>2, <2>1, <2>4, <2>5, <2>6, <2>7, <2>8, WorkerTypes DEF MCNext, RebuildBucket
<1>3. QED  BY <1>1, <1>2 DEF OutOfCast

(* In every cast, the replay loses no event, and where no request falls    *)
(* back to the database and no rebuild is stray no list gets older.        *)
THEOREM ReplayIsSafe == MCSpec => ReplaySafe
<1>1. MCInit => MCInv
    BY ReplayInit, RebuildInit DEF MCInit, MCInv, OutOfCast, NoFallback
<1>2. MCInv /\ [MCNext]_<<part, vars>> => MCInv' /\ (Readers \cap Cast = {} => Newer)
  <2> SUFFICES ASSUME MCInv, [MCNext]_<<part, vars>>
               PROVE  MCInv' /\ (Readers \cap Cast = {} => Newer)
      OBVIOUS
  <2>1. [Next]_vars /\ Cast' = Cast
      BY DEF MCNext, Next, Cast
  <2>2. ReplayInv'  BY <2>1, ReplayNext DEF MCInv
  <2>3. OutOfCast'
    <3>1. CASE MCNext  BY <3>1, OutOfCastStep DEF MCInv, ReplayInv
    <3>2. CASE UNCHANGED <<part, vars>>  BY <2>1, <3>2 DEF MCInv, OutOfCast, vars
    <3>3. QED  BY <3>1, <3>2
  <2>4. ASSUME Readers \cap Cast = {} PROVE OneRebuild' /\ Newer
    <3>1. OneRebuild /\ NoFallback /\ NoFallback'
        BY <2>1, <2>3, <2>4 DEF MCInv, OutOfCast, NoFallback
    <3>2. QED  BY <2>1, <3>1, RebuildNext DEF MCInv
  <2>5. QED  BY <2>1, <2>2, <2>3, <2>4 DEF MCInv
<1>3. MCInv => TypeOK /\ WatermarkCovers  BY DEF MCInv, ReplayInv
<1>4. MCInv /\ [MCNext]_<<part, vars>> => [Readers \cap Cast = {} /\ stray = {} => NotOlder]_vars
    BY <1>2 DEF Newer
<1>5. QED  BY <1>1, <1>2, <1>3, <1>4, PTL DEF MCSpec, ReplaySafe
=============================================================================
