------------------------- MODULE MCConcurrencySlots -------------------------
(* Two instances in one: three requests of one process whose clients may   *)
(* go away, or two requests of any process, which may switch accounts,     *)
(* with slots that expire, lost answers, a failed call or a crash.         *)
EXTENDS ConcurrencySlots, TLC

CONSTANTS A, B,               \* two gateway processes
          r1, r2, r3,         \* requests
          user, acct          \* their user and an account

OfUser == [r \in Requests |-> user]
One == [k \in Keys |-> 1]
Two == [k \in Keys |-> IF k = user THEN 2 ELSE 1]
Symmetric == Permutations(Requests) \cup Permutations(Instances)

Crowd ==
    /\ faults = 0 /\ crashes = 0
    /\ \A i \in Instances : proc[i] = "up"
    /\ \A r, q \in Requests : Open(r) /\ Open(q) => req[r].home = req[q].home
    /\ \A r \in Requests : req[r].moves = 0
    /\ \A k \in Keys : marks[k] \subseteq {"cancelled"}
Trouble ==
    /\ \E r \in Requests : req[r].pc = "new"
    /\ faults = 0 \/ crashes = 0
    /\ (faults + crashes > 0 \/ \E i \in Instances : proc[i] # "up")
         => /\ \A r \in Requests : req[r].moves = 0
            /\ \A k \in Keys : "expired" \notin marks[k]

MCNext == Next /\ (Crowd \/ Trouble)'
MCSpec == Init /\ [][MCNext]_vars
=============================================================================
