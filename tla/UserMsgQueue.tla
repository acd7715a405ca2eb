----------------------------- MODULE UserMsgQueue -----------------------------
(***************************************************************************)
(* The serial queue of user messages of one account                        *)
(* (UserMessageQueueService).  A request takes the account's Redis lock    *)
(* under an id of its own, keeps a delay after the last completed one,     *)
(* sends its message, and gives the lock back when the supplier accepted   *)
(* it or the client went away; every failure lets the request go on        *)
(* without the lock.  The lock has a time to live; a worker deletes locks  *)
(* that lost theirs.                                                       *)
(***************************************************************************)
EXTENDS Naturals, FiniteSets

CONSTANTS Requests,
          TTL,               \* LockTTLMs, in ticks
          Delays,            \* what CalculateRPMAwareDelay may return, in ticks
          MaxFaults          \* bound on failed Redis calls, crashes and lost times to live

QueueAssumption ==
    /\ TTL \in Nat \ {0} /\ MaxFaults \in Nat
    /\ Delays # {} /\ Delays \subseteq Nat /\ IsFiniteSet(Delays)

VARIABLES lock,      \* the lock key: its owner and what is left of its time to live
          gap,       \* ticks since the completion in the last key, capped at LongAgo
          req,       \* the requests
          scanned,   \* the cleanup worker found the lock without a time to live
          faults,
          marks      \* history: why a message may be sent beside another

vars == <<lock, gap, req, scanned, faults, marks>>

LongAgo == CHOOSE d \in Delays : \A e \in Delays : e <= d
Shortest == CHOOSE d \in Delays : \A e \in Delays : d <= e

(* The owner is the id of a request that knows it holds the lock, or of    *)
(* one whose answer was lost or whose process ended.                       *)
Free == [held |-> FALSE]
Locks == {Free} \cup [held : {TRUE}, by : Requests, known : BOOLEAN, ttl : 0..TTL, endless : BOOLEAN]
Lock(r, known) == [held |-> TRUE, by |-> r, known |-> known, ttl |-> TTL, endless |-> FALSE]

Owns(r) == lock.held /\ lock.by = r /\ lock.known

Request == [pc : {"new", "acquire", "check", "delay", "send", "sending", "accepted", "done"},
            locked : BOOLEAN, live : BOOLEAN, due : 0..LongAgo]

Init ==
    /\ lock = Free /\ gap = LongAgo
    /\ req = [r \in Requests |-> [pc |-> "new", locked |-> FALSE, live |-> TRUE, due |-> 0]]
    /\ scanned = FALSE /\ faults = 0 /\ marks = {}

Fault == faults < MaxFaults /\ faults' = faults + 1
Moves(r, pc) == req' = [req EXCEPT ![r].pc = pc]

(* failed, a request went on without the lock; expired, the lock's time    *)
(* ended under its owner; cancelled, it was given back with the client;    *)
(* forced, the worker deleted an endless lock in use.                      *)
Causes == {"failed", "expired", "cancelled", "forced"}
Mark(c) == marks' = marks \cup {c}

Arrive(r) ==
    /\ req[r].pc = "new"
    /\ Moves(r, "acquire")
    /\ UNCHANGED <<lock, gap, scanned, faults, marks>>

Cancel(r) ==
    /\ req[r].live /\ req[r].pc \notin {"new", "done"}
    /\ req' = [req EXCEPT ![r].live = FALSE]
    /\ UNCHANGED <<lock, gap, scanned, faults, marks>>

(* Mutant: the lock is set whether it is held or not.                      *)
AcquireLockAnyway(r) ==
    /\ req[r].pc = "acquire" /\ req[r].live
    /\ lock' = Lock(r, TRUE)
    /\ req' = [req EXCEPT ![r].pc = "check", ![r].locked = TRUE]
    /\ UNCHANGED <<gap, scanned, faults, marks>>

(* acquireLockScript; a poll that finds the lock held changes nothing.     *)
AcquireLock(r) ==
    /\ req[r].pc = "acquire" /\ ~lock.held /\ req[r].live
    /\ lock' = Lock(r, TRUE)
    /\ req' = [req EXCEPT ![r].pc = "check", ![r].locked = TRUE]
    /\ UNCHANGED <<gap, scanned, faults, marks>>

(* TryAcquire fails open: the request believes it holds a lock, without an *)
(* id; the script may have taken the lock.  The wait's context, which ends *)
(* with its timeout or the client, fails the call too.                     *)
AcquireFails(r) ==
    /\ req[r].pc = "acquire"
    /\ lock' \in {lock} \cup (IF lock.held THEN {} ELSE {Lock(r, FALSE)})
    /\ Moves(r, "check")
    /\ Mark("failed")
    /\ UNCHANGED <<gap, scanned, faults>>

(* The wait ends, by its timeout or with the client: the handler goes on.  *)
GiveUp(r) ==
    /\ req[r].pc = "acquire"
    /\ Moves(r, "send")
    /\ Mark("failed")
    /\ UNCHANGED <<lock, gap, scanned, faults>>

(* Mutant: what has passed is added to the delay.                          *)
EnforceDelayTwice(r) ==
    /\ req[r].pc = "check"
    /\ \E d \in Delays : req' = [req EXCEPT ![r].pc = "delay", ![r].due = d + gap]
    /\ UNCHANGED <<lock, gap, scanned, faults, marks>>

(* EnforceDelay: what is left of the delay since the last completion.      *)
EnforceDelay(r) ==
    /\ req[r].pc = "check"
    /\ \E d \in Delays :
         req' = [req EXCEPT ![r].pc = "delay", ![r].due = IF gap < d THEN d - gap ELSE 0]
    /\ UNCHANGED <<lock, gap, scanned, faults, marks>>

(* The last key or the clock cannot be read.                               *)
DelayUnknown(r) ==
    /\ req[r].pc = "check"
    /\ Moves(r, "send")
    /\ Mark("failed")
    /\ UNCHANGED <<lock, gap, scanned, faults>>

DelayEnds(r) ==
    /\ req[r].pc = "delay" /\ req[r].due = 0
    /\ Moves(r, "send")
    /\ UNCHANGED <<lock, gap, scanned, faults, marks>>

(* Mutant: the completion is recorded by whoever releases.                 *)
ReleaseLockRecording(r) == gap' = 0 /\ lock' = IF Owns(r) THEN Free ELSE lock

(* releaseLockScript: only the lock's own id deletes it and records the    *)
(* completion.                                                             *)
ReleaseLock(r) ==
    IF Owns(r) THEN lock' = Free /\ gap' = 0 ELSE UNCHANGED <<lock, gap>>

(* The wait's context ends during the delay: the lock goes back, and the   *)
(* handler goes on without it.                                             *)
DelayCancelled(r) ==
    /\ req[r].pc = "delay"
    /\ ReleaseLock(r)
    /\ req' = [req EXCEPT ![r].pc = "send", ![r].locked = FALSE]
    /\ Mark("failed")
    /\ UNCHANGED <<scanned, faults>>

Send(r) ==
    /\ req[r].pc = "send"
    /\ Moves(r, "sending")
    /\ UNCHANGED <<lock, gap, scanned, faults, marks>>

(* The supplier answers 2xx, or Forward returns with an error.             *)
Accept(r) ==
    /\ req[r].pc = "sending"
    /\ Moves(r, IF req[r].locked THEN "accepted" ELSE "done")
    /\ UNCHANGED <<lock, gap, scanned, faults, marks>>

(* OnUpstreamAccepted, the release after Forward, or the cancelled context *)
(* call the release function; the first call does it.                      *)
MayRelease(r) ==
    /\ req[r].locked
    /\ req[r].pc = "accepted" \/ (req[r].pc \in {"send", "sending"} /\ ~req[r].live)

AfterRelease(r) ==
    /\ req' = [req EXCEPT ![r].locked = FALSE, ![r].pc = IF @ = "accepted" THEN "done" ELSE @]
    /\ IF req[r].pc = "accepted" THEN UNCHANGED marks ELSE Mark("cancelled")

Release(r) ==
    /\ MayRelease(r)
    /\ ReleaseLock(r)
    /\ AfterRelease(r)
    /\ UNCHANGED <<scanned, faults>>

ReleaseFails(r) ==
    /\ MayRelease(r) /\ Fault
    /\ lock' = IF Owns(r) THEN [lock EXCEPT !.known = FALSE] ELSE lock
    /\ AfterRelease(r)
    /\ UNCHANGED <<gap, scanned>>

(* The request's process ends.                                             *)
Crash(r) ==
    /\ req[r].pc \notin {"new", "done"} /\ Fault
    /\ lock' = IF Owns(r) THEN [lock EXCEPT !.known = FALSE] ELSE lock
    /\ req' = [req EXCEPT ![r].pc = "done", ![r].locked = FALSE]
    /\ UNCHANGED <<gap, scanned, marks>>

---------------------------------------------------------------------------
Lower(n) == IF n > 0 THEN n - 1 ELSE 0

InUse == lock.held /\ lock.known /\ req[lock.by].locked

Tick ==
    /\ gap' = IF gap < LongAgo THEN gap + 1 ELSE gap
    /\ req' = [r \in Requests |-> [req[r] EXCEPT !.due = Lower(@)]]
    /\ IF lock.held /\ ~lock.endless
       THEN IF lock.ttl > 0 THEN lock' = [lock EXCEPT !.ttl = @ - 1] /\ UNCHANGED marks
            ELSE lock' = Free /\ (IF InUse THEN Mark("expired") ELSE UNCHANGED marks)
       ELSE UNCHANGED <<lock, marks>>
    /\ UNCHANGED <<scanned, faults>>

(* Redis comes back from a failure without the key's time to live.         *)
LoseTTL ==
    /\ lock.held /\ ~lock.endless /\ Fault
    /\ lock' = [lock EXCEPT !.endless = TRUE]
    /\ UNCHANGED <<gap, req, scanned, marks>>

(* Mutant: the sentinels of PTTL are swapped.                              *)
ScanLockKeysMissing ==
    /\ ~scanned /\ ~lock.held
    /\ scanned' = TRUE
    /\ UNCHANGED <<lock, gap, req, faults, marks>>

(* The worker's two calls.                                                 *)
ScanLockKeys ==
    /\ ~scanned /\ lock.held /\ lock.endless
    /\ scanned' = TRUE
    /\ UNCHANGED <<lock, gap, req, faults, marks>>

ForceReleaseLock ==
    /\ scanned
    /\ scanned' = FALSE
    /\ IF lock.held /\ lock.endless
       THEN lock' = Free /\ (IF InUse THEN Mark("forced") ELSE UNCHANGED marks)
       ELSE UNCHANGED <<lock, marks>>
    /\ UNCHANGED <<gap, req, faults>>

---------------------------------------------------------------------------
Step(r) ==
    \/ AcquireLock(r) \/ AcquireFails(r) \/ EnforceDelay(r) \/ DelayUnknown(r) \/ DelayEnds(r)
    \/ Send(r) \/ Accept(r) \/ Release(r) \/ ReleaseFails(r)

Next ==
    \/ \E r \in Requests :
         Arrive(r) \/ Cancel(r) \/ Step(r) \/ GiveUp(r) \/ DelayCancelled(r) \/ Crash(r)
    \/ Tick \/ LoseTTL \/ ScanLockKeys \/ ForceReleaseLock

Spec == Init /\ [][Next]_vars

(* Handlers run, the supplier answers, a wait times out, time passes and   *)
(* the worker's ticker fires.                                              *)
FairSpec ==
    /\ Spec
    /\ \A r \in Requests : WF_vars(Step(r))
    /\ WF_vars(Tick) /\ WF_vars(ScanLockKeys \/ ForceReleaseLock)

---------------------------------------------------------------------------
TypeOK ==
    /\ lock \in Locks /\ gap \in 0..LongAgo
    /\ req \in [Requests -> Request]
    /\ scanned \in BOOLEAN /\ faults \in 0..MaxFaults /\ marks \subseteq Causes

Sending == {r \in Requests : req[r].pc = "sending"}

(* Two messages of an account are with the supplier at once only if a      *)
(* request went on without the lock, lost it to its time to live or to the *)
(* worker, or gave it back with its client.                                *)
Serialized == marks = {} => Cardinality(Sending) <= 1

(* A request that sends under a lock that is still its own does so no      *)
(* sooner than the shortest delay after the last completion, whatever      *)
(* happened to earlier locks.                                              *)
GapKept ==
    [][\A r \in Requests :
         Send(r) /\ Owns(r) /\ "failed" \notin marks => gap >= Shortest]_vars

(* No lock stays for ever, be its owner lost or its time to live.          *)
LockComesFree == []<>(~lock.held)

(* The messages of an account are serialised and kept apart.               *)
QueueSound == [](TypeOK /\ Serialized) /\ GapKept
=============================================================================
