--------------------------- MODULE ConcurrencySlots ---------------------------
(***************************************************************************)
(* The concurrency limits of users and accounts.  Each user and each       *)
(* account has a sorted set of slots in Redis and a counter of waiting     *)
(* requests (concurrencyCache).  A request of a gateway process passes two *)
(* stages, its user's and its account's: it takes a slot, or is counted as *)
(* waiting and polls for one (ConcurrencyHelper), calls the supplier, may  *)
(* switch to another account, and gives its slots back; wrapReleaseOnDone  *)
(* gives them back as soon as the client goes away.  A process that starts *)
(* removes the slots and counters it takes for leftovers                   *)
(* (CleanupStaleProcessSlots).                                             *)
(***************************************************************************)
EXTENDS Naturals, FiniteSets

CONSTANTS Instances,         \* gateway processes
          Requests,          \* requests
          NoInstance,        \* no process
          Users, Accounts,   \* the keys of the slots and counters
          UserOf,            \* the user of each request
          Limit,             \* maximum concurrency of each key
          MaxWait,           \* maximum of each key's counter
          MaxSwitches,       \* bound on failovers of one request
          MaxFaults,         \* bound on failed Redis calls
          MaxCrashes         \* bound on crashes

Keys == Users \cup Accounts
Stages == {"user", "account"}

ASSUME SlotsAssumption ==
    /\ Users \cap Accounts = {}
    /\ NoInstance \notin Instances /\ UserOf \in [Requests -> Users]
    /\ Limit \in [Keys -> Nat \ {0}] /\ MaxWait \in [Keys -> Nat]
    /\ MaxSwitches \in Nat /\ MaxFaults \in Nat /\ MaxCrashes \in Nat

VARIABLES slots,     \* the members of each sorted set
          wait,      \* the counters of waiting requests
          proc,      \* the processes
          req,       \* the requests
          faults, crashes,
          marks      \* history: what befell a key's slots or counter

vars == <<slots, wait, proc, req, faults, crashes, marks>>

(* An own member is known to the request that added it; a left one belongs *)
(* to a call whose answer was lost, a release that failed or a process     *)
(* that ended.  At most one left member per request and key is modelled.   *)
Members == Requests \X {"own", "left"}

(* What a starting process goes through, in the order of                   *)
(* CleanupStaleProcessSlots.                                               *)
Cleaning == {"accountSlots", "userSlots", "accountWaits", "userWaits"}
After == [accountSlots |-> "userSlots", userSlots |-> "accountWaits",
          accountWaits |-> "userWaits", userWaits |-> "up"]
Cleaned(phase) == IF phase \in {"accountSlots", "accountWaits"} THEN Accounts ELSE Users

(* holds, the stages whose release function was not called yet; counted,   *)
(* the request believes it is in the counter of its stage; home, the       *)
(* process that serves it.                                                 *)
Request == [pc : {"new", "done", "try", "count", "wait", "uncount", "select", "leave", "run", "switch",
                  "close"},
            stage : Stages, account : Accounts, holds : SUBSET Stages,
            counted : BOOLEAN, live : BOOLEAN, moves : 0..MaxSwitches,
            home : Instances \cup {NoInstance}]

KeyAt(r, s) == IF s = "user" THEN UserOf[r] ELSE req[r].account
Key(r) == KeyAt(r, req[r].stage)

(* expired, a slot in use passed its TTL; cleaned, a starting process      *)
(* removed what a request still uses; cancelled, a slot was given back     *)
(* while the supplier still worked; lost, a member was left; miscounted, a *)
(* counter was not changed as its request believes.                        *)
Causes == {"expired", "cleaned", "cancelled", "lost", "miscounted"}
Mark(k, c) == marks' = [marks EXCEPT ![k] = @ \cup {c}]

Init ==
    /\ slots = [k \in Keys |-> {}] /\ wait = [k \in Keys |-> 0]
    /\ proc \in [Instances -> {"up", "down"}]
    /\ \E a \in Accounts : req = [r \in Requests |->
           [pc |-> "new", stage |-> "user", account |-> a, holds |-> {}, counted |-> FALSE,
            live |-> FALSE, moves |-> 0, home |-> NoInstance]]
    /\ faults = 0 /\ crashes = 0
    /\ marks = [k \in Keys |-> {}]

Redis == <<slots, wait, marks>>
World == <<proc, faults, crashes>>
Fault == faults < MaxFaults /\ faults' = faults + 1
Set(r, change) == req' = [req EXCEPT ![r] = change]

(* The Anthropic handler counts a request before its first try for the     *)
(* user's slot; the OpenAI handler tries first.                            *)
FirstStep == {"count", "try"}

Open(r) == req[r].pc \notin {"new", "done"}
Ended(q) == [q EXCEPT !.pc = "done", !.stage = "user", !.holds = {}, !.counted = FALSE,
                      !.live = FALSE, !.moves = 0, !.home = NoInstance]

(* A client's request reaches the handler.                                 *)
Arrive(r) ==
    /\ req[r].pc = "new"
    /\ \E i \in Instances, first \in FirstStep :
         /\ proc[i] = "up"
         /\ Set(r, [req[r] EXCEPT !.pc = first, !.live = TRUE, !.home = i])
    /\ UNCHANGED <<Redis, World>>

(* The client goes away: the request's context is cancelled.               *)
Cancel(r) ==
    /\ Open(r) /\ req[r].live
    /\ Set(r, [req[r] EXCEPT !.live = FALSE])
    /\ UNCHANGED <<Redis, World>>

---------------------------------------------------------------------------
(* Taking a slot.                                                          *)

(* Mutant: one slot too many.                                              *)
HasRoomLoose(k) == Cardinality(slots[k]) <= Limit[k]
HasRoom(k) == Cardinality(slots[k]) < Limit[k]

(* acquireScript with a fresh request id.                                  *)
TakeSlot(r) == slots' = [slots EXCEPT ![Key(r)] = @ \cup {<<r, "own">>}]

(* With the slot, a counted request leaves the counter first.              *)
Proceed(q, s) ==
    [q EXCEPT !.holds = @ \cup {s},
              !.pc = IF q.counted THEN "uncount" ELSE IF s = "user" THEN "select" ELSE "run"]

Acquire(r) ==
    /\ req[r].pc \in {"try", "wait"} /\ req[r].live
    /\ HasRoom(Key(r))
    /\ TakeSlot(r)
    /\ Set(r, Proceed(req[r], req[r].stage))
    /\ UNCHANGED <<wait, marks, World>>

(* A first try that finds no room; a poll that finds none changes nothing. *)
TryIsFull(r) ==
    /\ req[r].pc = "try" /\ req[r].live
    /\ ~HasRoom(Key(r))
    /\ Set(r, [req[r] EXCEPT !.pc = "count"])
    /\ UNCHANGED <<Redis, World>>

(* The selection of an account turns a failed try into a wait plan; every  *)
(* other failed try ends the request.                                      *)
AfterFailure(q) ==
    {[q EXCEPT !.pc = "leave"]} \cup
    (IF q.pc = "try" /\ q.stage = "account" THEN {[q EXCEPT !.pc = "count"]} ELSE {})

(* The call fails: with the context, or with Redis.                        *)
AcquireFails(r) ==
    /\ req[r].pc \in {"try", "wait"}
    /\ IF req[r].live THEN Fault ELSE UNCHANGED faults
    /\ \E q \in AfterFailure(req[r]) : Set(r, q)
    /\ UNCHANGED <<Redis, proc, crashes>>

(* The script ran and its answer is lost: Redis fails, or the client goes  *)
(* away while the call is under way.                                       *)
AcquireAnswerLost(r) ==
    /\ req[r].pc \in {"try", "wait"} /\ req[r].live
    /\ HasRoom(Key(r)) /\ <<r, "left">> \notin slots[Key(r)]
    /\ slots' = [slots EXCEPT ![Key(r)] = @ \cup {<<r, "left">>}]
    /\ Mark(Key(r), "lost")
    /\ \E q \in AfterFailure(req[r]) :
         \/ Fault /\ Set(r, q)
         \/ Set(r, [q EXCEPT !.live = FALSE]) /\ UNCHANGED faults
    /\ UNCHANGED <<wait, proc, crashes>>

(* The wait's own timeout, or the client.                                  *)
GiveUp(r) ==
    /\ req[r].pc = "wait"
    /\ Set(r, [req[r] EXCEPT !.pc = "leave"])
    /\ UNCHANGED <<Redis, World>>

---------------------------------------------------------------------------
(* The counter of waiting requests.                                        *)

(* Mutant: the count is compared after it was raised.                      *)
CountLoose(r) ==
    /\ req[r].pc = "count" /\ req[r].live
    /\ wait[Key(r)] <= MaxWait[Key(r)]
    /\ wait' = [wait EXCEPT ![Key(r)] = @ + 1]
    /\ Set(r, [req[r] EXCEPT !.pc = "wait", !.counted = TRUE])
    /\ UNCHANGED <<slots, marks, World>>

(* incrementWaitScript and incrementAccountWaitScript.                     *)
Count(r) ==
    /\ req[r].pc = "count" /\ req[r].live
    /\ wait[Key(r)] < MaxWait[Key(r)]
    /\ wait' = [wait EXCEPT ![Key(r)] = @ + 1]
    /\ Set(r, [req[r] EXCEPT !.pc = "wait", !.counted = TRUE])
    /\ UNCHANGED <<slots, marks, World>>

QueueIsFull(r) ==
    /\ req[r].pc = "count" /\ req[r].live
    /\ wait[Key(r)] >= MaxWait[Key(r)]
    /\ Set(r, [req[r] EXCEPT !.pc = "leave"])
    /\ UNCHANGED <<Redis, World>>

(* ConcurrencyService.IncrementWaitCount answers a failed call with true   *)
(* and no error, and the handler takes the request as counted.             *)
CountFails(r) ==
    /\ req[r].pc = "count"
    /\ \/ ~req[r].live /\ UNCHANGED faults /\ Set(r, [req[r] EXCEPT !.pc = "wait", !.counted = TRUE])
       \/ req[r].live /\ Fault /\ Set(r, [req[r] EXCEPT !.pc = "wait", !.counted = TRUE])
    /\ Mark(Key(r), "miscounted")
    /\ UNCHANGED <<slots, wait, proc, crashes>>

(* Mutant: without the floor.                                              *)
DecrementedBelow(k) == [wait EXCEPT ![k] = @ - 1]
Decremented(k) == [wait EXCEPT ![k] = IF @ > 0 THEN @ - 1 ELSE 0]

(* decrementWaitScript, with a context of its own: after the slot.         *)
Uncount(r) ==
    /\ req[r].pc = "uncount"
    /\ wait' = Decremented(Key(r))
    /\ Set(r, Proceed([req[r] EXCEPT !.counted = FALSE], req[r].stage))
    /\ UNCHANGED <<slots, marks, World>>

(* Mutant: a request that gives up stays counted.                          *)
LeaveCounted(r) ==
    /\ req[r].pc = "leave"
    /\ Set(r, [req[r] EXCEPT !.pc = "close", !.counted = FALSE])
    /\ UNCHANGED <<slots, wait, marks, World>>

(* The same call when the request ends without the slot.                   *)
Leave(r) ==
    /\ req[r].pc = "leave"
    /\ wait' = IF req[r].counted THEN Decremented(Key(r)) ELSE wait
    /\ Set(r, [req[r] EXCEPT !.pc = "close", !.counted = FALSE])
    /\ UNCHANGED <<slots, marks, World>>

UncountFails(r) ==
    /\ req[r].pc \in {"uncount", "leave"} /\ req[r].counted
    /\ Fault
    /\ Mark(Key(r), "miscounted")
    /\ Set(r, IF req[r].pc = "uncount" THEN Proceed([req[r] EXCEPT !.counted = FALSE], req[r].stage)
              ELSE [req[r] EXCEPT !.pc = "close", !.counted = FALSE])
    /\ UNCHANGED <<slots, wait, proc, crashes>>

---------------------------------------------------------------------------
(* The supplier, and giving the slots back.                                *)

(* The load-aware selection picks an account and tries its slot.           *)
Select(r) ==
    /\ req[r].pc = "select"
    /\ \E a \in Accounts :
         Set(r, [req[r] EXCEPT !.pc = "try", !.stage = "account", !.account = a])
    /\ UNCHANGED <<Redis, World>>

(* The balance check after the wait, or the selection, refuses.            *)
Refuse(r) ==
    /\ req[r].pc = "select"
    /\ Set(r, [req[r] EXCEPT !.pc = "close"])
    /\ UNCHANGED <<Redis, World>>

(* Forward returns: the answer is complete, or the request fails over.  A  *)
(* stream is read to its end although the client is gone.                  *)
Finish(r) ==
    /\ req[r].pc = "run"
    /\ \/ Set(r, [req[r] EXCEPT !.pc = "close"])
       \/ /\ req[r].live /\ req[r].moves < MaxSwitches
          /\ Set(r, [req[r] EXCEPT !.pc = "switch", !.moves = @ + 1])
    /\ UNCHANGED <<Redis, World>>

(* The handler releases the account's slot before it switches, and both as *)
(* it returns; the cancelled context releases what is wrapped at any time. *)
MayRelease(r, s) ==
    /\ s \in req[r].holds
    /\ \/ ~req[r].live /\ ~(req[r].pc = "uncount" /\ req[r].stage = s)
       \/ req[r].pc = "switch" /\ s = "account"
       \/ req[r].pc = "close" /\ (s = "account" \/ "account" \notin req[r].holds)

(* The supplier works for the request, or may yet.                         *)
TooEarly(r) == req[r].pc \in {"run", "uncount"}

Released(r, s) == Set(r, [req[r] EXCEPT !.holds = @ \ {s}])

Release(r, s) ==
    /\ MayRelease(r, s)
    /\ slots' = [slots EXCEPT ![KeyAt(r, s)] = @ \ {<<r, "own">>}]
    /\ IF TooEarly(r) THEN Mark(KeyAt(r, s), "cancelled") ELSE UNCHANGED marks
    /\ Released(r, s)
    /\ UNCHANGED <<wait, World>>

(* What becomes of a member nobody will release.                           *)
Orphaned(members, r) ==
    IF <<r, "own">> \in members THEN (members \ {<<r, "own">>}) \cup {<<r, "left">>} ELSE members

ReleaseFails(r, s) ==
    /\ MayRelease(r, s) /\ Fault
    /\ slots' = [slots EXCEPT ![KeyAt(r, s)] = Orphaned(@, r)]
    /\ marks' = [marks EXCEPT ![KeyAt(r, s)] = @ \cup {"lost"} \cup
                     (IF TooEarly(r) THEN {"cancelled"} ELSE {})]
    /\ Released(r, s)
    /\ UNCHANGED <<wait, proc, crashes>>

(* Mutant: an early return without the deferred release.                   *)
GoesAtOnce(r) ==
    /\ \/ /\ req[r].pc = "switch" /\ "account" \notin req[r].holds
          /\ Set(r, [req[r] EXCEPT !.pc = "select"])
       \/ /\ req[r].pc = "close" /\ "account" \notin req[r].holds
          /\ Set(r, Ended(req[r]))
    /\ UNCHANGED <<Redis, World>>

(* The handler goes on once its release functions have returned.           *)
Goes(r) ==
    /\ \/ /\ req[r].pc = "switch" /\ "account" \notin req[r].holds
          /\ Set(r, [req[r] EXCEPT !.pc = "select"])
       \/ /\ req[r].pc = "close" /\ req[r].holds = {}
          /\ Set(r, Ended(req[r]))
    /\ UNCHANGED <<Redis, World>>

---------------------------------------------------------------------------
(* Time, and processes that end and start.                                 *)

(* The slot's time to live is over: every script that counts removes it    *)
(* first, and the cleanup worker removes it anyway.                        *)
InUse(r, k) ==
    /\ Open(r)
    /\ \E s \in Stages : KeyAt(r, s) = k /\ (s \in req[r].holds \/ req[r].pc = "run")

SlotExpires(k, m) ==
    /\ m \in slots[k]
    /\ slots' = [slots EXCEPT ![k] = @ \ {m}]
    /\ IF m[2] = "own" THEN Mark(k, "expired") ELSE UNCHANGED marks
    /\ UNCHANGED <<wait, req, World>>

Counted(k) == {r \in Requests : req[r].counted /\ Key(r) = k}

(* The counter's time to live starts anew with every count, and no wait is *)
(* longer (ProvideConcurrencyCache).                                       *)
CounterExpires(k) ==
    /\ wait[k] > 0 /\ Counted(k) = {}
    /\ wait' = [wait EXCEPT ![k] = 0]
    /\ UNCHANGED <<slots, marks, req, World>>

Crash(i) ==
    /\ crashes < MaxCrashes /\ proc[i] # "down"
    /\ proc' = [proc EXCEPT ![i] = "down"] /\ crashes' = crashes + 1
    /\ slots' = [k \in Keys |->
           {<<m[1], IF req[m[1]].home = i THEN "left" ELSE m[2]>> : m \in slots[k]}]
    /\ marks' = [k \in Keys |-> marks[k]
           \cup (IF \E r \in Requests : req[r].home = i /\ <<r, "own">> \in slots[k] THEN {"lost"} ELSE {})
           \cup (IF \E r \in Counted(k) : req[r].home = i THEN {"miscounted"} ELSE {})]
    /\ req' = [r \in Requests |->
           IF req[r].home = i THEN Ended(req[r]) ELSE req[r]]
    /\ UNCHANGED <<wait, faults>>

Start(i) ==
    /\ proc[i] = "down"
    /\ proc' = [proc EXCEPT ![i] = "accountSlots"]
    /\ UNCHANGED <<Redis, req, faults, crashes>>

(* startupCleanupScript keeps the members of the process that runs it,     *)
(* which has none yet; then the counters are deleted.                      *)
Clean(i) ==
    LET keys == Cleaned(proc[i]) IN
    /\ proc[i] \in Cleaning
    /\ proc' = [proc EXCEPT ![i] = After[@]]
    /\ IF proc[i] \in {"accountSlots", "userSlots"}
       THEN slots' = [k \in Keys |-> IF k \in keys THEN {} ELSE slots[k]] /\ UNCHANGED wait
       ELSE wait' = [k \in Keys |-> IF k \in keys THEN 0 ELSE wait[k]] /\ UNCHANGED slots
    /\ marks' = [k \in Keys |-> IF slots'[k] # slots[k] \/ wait'[k] # wait[k]
                                 THEN marks[k] \cup {"cleaned"} ELSE marks[k]]
    /\ UNCHANGED <<req, faults, crashes>>

(* A failed scan ends the cleaning, and the process starts all the same.   *)
CleanFails(i) ==
    /\ proc[i] \in Cleaning /\ Fault
    /\ proc' = [proc EXCEPT ![i] = "up"]
    /\ UNCHANGED <<Redis, req, crashes>>

---------------------------------------------------------------------------
Call(r) ==
    \/ Acquire(r) \/ TryIsFull(r) \/ AcquireFails(r) \/ AcquireAnswerLost(r)
    \/ Count(r) \/ QueueIsFull(r) \/ CountFails(r)
    \/ Uncount(r) \/ Leave(r) \/ UncountFails(r)
    \/ Select(r) \/ Refuse(r) \/ Finish(r) \/ Goes(r)
    \/ \E s \in Stages : Release(r, s) \/ ReleaseFails(r, s)

Next ==
    \/ \E r \in Requests : Arrive(r) \/ Cancel(r) \/ Call(r) \/ GiveUp(r)
    \/ \E k \in Keys : CounterExpires(k) \/ \E m \in Members : SlotExpires(k, m)
    \/ \E i \in Instances : Crash(i) \/ Start(i) \/ Clean(i) \/ CleanFails(i)

Spec == Init /\ [][Next]_vars

---------------------------------------------------------------------------
TypeOK ==
    /\ slots \in [Keys -> SUBSET Members] /\ wait \in [Keys -> Nat]
    /\ proc \in [Instances -> Cleaning \cup {"up", "down"}]
    /\ req \in [Requests -> Request]
    /\ faults \in 0..MaxFaults /\ crashes \in 0..MaxCrashes
    /\ marks \in [Keys -> SUBSET Causes]

Served(k) == {r \in Requests : req[r].pc = "run" /\ k \in {KeyAt(r, s) : s \in Stages}}

(* The supplier works on no more requests of a user or an account than its *)
(* concurrency, unless a slot in use expired, was removed by a starting    *)
(* process, or was given back by a client that went away.                  *)
LimitKept ==
    \A k \in Keys :
        marks[k] \cap {"expired", "cleaned", "cancelled"} = {} => Cardinality(Served(k)) <= Limit[k]

(* No exit of the handler leaves a slot behind: failover, refusal, timeout *)
(* and cancellation release what the request took, unless a call failed,   *)
(* its answer was lost or the process ended.                               *)
NoSlotLeaks ==
    \A k \in Keys : "lost" \notin marks[k] =>
        \A m \in slots[k] : m[2] = "own" /\ InUse(m[1], k)

(* The counter is the number of requests that wait, however they leave the *)
(* queue, unless a counting call failed, the process of a waiting request  *)
(* ended or a starting process deleted the counter.                        *)
WaitMatches ==
    \A k \in Keys :
        marks[k] \cap {"miscounted", "cleaned"} = {} => wait[k] = Cardinality(Counted(k))

(* No more requests wait for a key than its maximum, under the same        *)
(* condition.                                                              *)
WaitBounded ==
    \A k \in Keys :
        marks[k] \cap {"miscounted", "cleaned"} = {} => Cardinality(Counted(k)) <= MaxWait[k]

(* The limits hold, of the slots and of the queue before them.             *)
SlotLimits == TypeOK /\ LimitKept /\ WaitBounded

(* The sets and counters in Redis are what the requests hold and wait for. *)
NothingLeaks == NoSlotLeaks /\ WaitMatches
=============================================================================
