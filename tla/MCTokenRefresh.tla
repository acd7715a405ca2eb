---------------------------- MODULE MCTokenRefresh ----------------------------
(* Small casts of callers of one account's refresh, and the message queue  *)
(* of one account: they share no variable, so a behaviour belongs to one   *)
(* of them and leaves the others where they start.                         *)
EXTENDS TokenRefresh, TLC

CONSTANTS A, B,               \* two gateway processes
          jobA, jobB,         \* their refresh services
          reqA, reqB,         \* requests, one of each refresh policy
          admin,              \* an administrator's refresh
          m1, m2,             \* messages
          Messages, TTL, Delays

VARIABLES part, lock, gap, msg, scanned, msgFaults, marks

queueVars == <<lock, gap, msg, scanned, msgFaults, marks>>

Q == INSTANCE UserMsgQueue WITH Requests <- Messages, req <- msg, faults <- msgFaults

ASSUME MessagesAssumption == Q!QueueAssumption

At == [q \in Procs |-> IF q \in {jobB, reqB} THEN B ELSE A]

Parts == {"services", "lenient", "strict", "administrator", "queue"}
Cast == CASE part = "services"      -> {jobA, jobB}
          [] part = "lenient"       -> {jobA, reqA}
          [] part = "strict"        -> {jobB, reqB}
          [] part = "administrator" -> {jobB, admin}
          [] part = "queue"         -> {}

MCInit == part \in Parts /\ Init /\ Q!Init

RefreshNext ==
    /\ part # "queue"
    /\ \/ \E q \in Cast : Step(q)
       \/ Age \/ CacheExpires \/ LockExpires \/ PauseEnds
       \/ \E i \in Instances : Crash(i)
    /\ part = "strict" => faults' = 0

MCNext ==
    /\ UNCHANGED part
    /\ \/ RefreshNext /\ UNCHANGED queueVars
       \/ part = "queue" /\ Q!Next /\ UNCHANGED vars

(* The fairness of both modules, of the part that runs; a cast has one     *)
(* request at most, and the worker's two calls are never both enabled.     *)
MCFairness ==
    /\ \A q \in Refreshers :
         /\ WF_vars(q \in Cast /\ (Api(q) \/ Service(q)))
         /\ SF_vars(q \in Cast /\ Enter(q))
    /\ WF_vars(\E q \in Requests : Api(q))
    /\ WF_vars(LockExpires)
    /\ \A m \in Messages : WF_queueVars(part = "queue" /\ Q!Step(m))
    /\ WF_queueVars(part = "queue" /\ Q!Tick)
    /\ WF_queueVars(part = "queue" /\ (Q!ScanLockKeys \/ Q!ForceReleaseLock))

MCSpec == MCInit /\ [][MCNext]_<<part, vars, queueVars>> /\ MCFairness

(* UserMsgQueue: messages one at a time, with the delay between them.      *)
QueueSound == Q!QueueSound

(* A due token is refreshed or its account disabled; the queue's lock never*)
(* stays taken.                                                            *)
Progress == DueIsSettled /\ Q!LockComesFree
=============================================================================
