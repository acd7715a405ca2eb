-------------------------- MODULE MCSchedulerSnapshot --------------------------
(* Small casts: in each, some of the workers run and the writers write some*)
(* of the kinds.                                                           *)
EXTENDS SchedulerSnapshot, TLC

CONSTANTS w1, w2, p1, p2, full, r1

VARIABLE part

Parts == {"pollers", "rebuild", "copies", "syncs", "events"}
Cast == CASE part = "pollers" -> {p1, p2}
          [] part = "rebuild" -> {p1, full, r1}
          [] part \in {"copies", "syncs"} -> {p1, full}
          [] part = "events"  -> {p1}
Written == CASE part = "pollers" -> {"group", "paused"}
             [] part = "rebuild" -> {"groups", "unbound"}
             [] part = "copies"  -> {"model", "credentials"}
             [] part = "syncs"   -> {"changed"}
             [] part = "events"  -> {"groups", "used", "limited"}
Faulty == part \in {"pollers", "events"}

(* The writers are alike: one order of their kinds, and of the changes of  *)
(* one kind, stands for both.  The pollers' account stays available: they  *)
(* look at versions only.                                                  *)
Order == <<"changed", "limited", "groups", "unbound", "credentials", "used", "group", "paused", "model">>
Rank(w) == CHOOSE i \in DOMAIN Order : Order[i] = writer[w].kind

MCInit ==
    /\ part \in Parts /\ Init
    /\ \A w \in Writers : writer[w].kind \in Written
    /\ Rank(w1) <= Rank(w2)
    /\ part \in {"pollers", "rebuild", "copies"} => Rank(w1) # Rank(w2)
    /\ part # "events" => db.ok

MCNext ==
    /\ UNCHANGED part
    /\ \/ \E w \in Writers : Select(w) \/ Write(w)
       \/ \E p \in Pollers \cap Cast : Poll(p) \/ RebuildBucket(p) \/ Fail(p)
       \/ \E p \in Rebuilders \cap Cast : RebuildBucket(p) \/ Fail(p)
       \/ \E p \in Readers \cap Cast : Fallback(p) \/ WriteAccounts(p) \/ SetActive(p) \/ Fail(p)
       \/ WindowPasses \/ LockExpires
    /\ Faulty \/ faults' = 0
    /\ part = "pollers" => db'.ok
    /\ Rank(w1) = Rank(w2) /\ writer'[w2] # writer[w2] => writer[w1].pc # "change"

(* The fairness of FairSpec, of the workers that run.                      *)
MCFairness ==
    /\ \A w \in Writers : WF_vars(Write(w))
    /\ \A p \in Pollers : WF_vars(p \in Cast /\ (Poll(p) \/ RebuildBucket(p)))
    /\ \A p \in Rebuilders :
         /\ SF_vars(p \in Cast /\ TryLockBucket(p))
         /\ WF_vars(p \in Cast /\ RebuildBucket(p))
    /\ \A p \in Readers : WF_vars(WriteAccounts(p) \/ SetActive(p))
    /\ WF_vars(LockExpires)

MCSpec == MCInit /\ [][MCNext]_<<part, vars>> /\ MCFairness

(* The replay loses no event, and a rebuild no newer list, where no request*)
(* falls back to the database and no rebuild outlives its lock.            *)
ReplaySafe ==
    [](TypeOK /\ WatermarkCovers) /\ [][Readers \cap Cast = {} /\ stray = {} => NotOlder]_vars

(* Full rebuilds, where they run, bring the list to the row; events, where *)
(* the only poller is the only writer of payloads, bring the payload to it.*)
CacheConverges ==
    /\ full \in Cast => ListConverges
    /\ part = "events" => PayloadFollows
=============================================================================
