------------------------ MODULE ConcurrencySlotsProofs ------------------------
(***************************************************************************)
(* The limits of ConcurrencySlots and the agreement of Redis with the      *)
(* requests, for any sets of processes, requests, users and accounts.      *)
(*                                                                         *)
(* Neither is inductive: both are about Redis and the requests, and what a *)
(* request holds follows from where it is.  SlotInv says which places own  *)
(* which slots (ShapeOK), that a request that still needs a slot has it or *)
(* was cancelled (HeldOK), which member of a set belongs to whom (SlotsOK) *)
(* and how the counters count (WaitOK).                                    *)
(***************************************************************************)
EXTENDS ConcurrencySlots, FunctionTheorems, FiniteSetTheorems, TLAPS

(* What the place of a request says of what it holds.                      *)
ShapeOK(q) ==
    /\ q.pc = "new" => q.stage = "user"
    /\ q.pc \in {"new", "done"} => q.holds = {}
    /\ q.counted => q.pc \in {"wait", "uncount", "leave"}
    /\ q.pc \in {"wait", "uncount"} => q.counted
    /\ q.stage = "user" => "account" \notin q.holds
    /\ q.pc \in {"try", "count", "wait"} => q.stage \notin q.holds
    /\ q.pc = "select" => "account" \notin q.holds
    /\ q.pc = "uncount" => q.stage \in q.holds
    /\ q.pc \in {"run", "switch"} => q.stage = "account"

(* Past its user's stage, with a client or the supplier waiting for it.    *)
NeedsUser(q) ==
    /\ q.live \/ q.pc \in {"run", "uncount"}
    /\ \/ q.pc = "select"
       \/ q.stage = "account" /\ q.pc \in {"try", "count", "wait", "uncount", "run", "switch"}

HeldOK(r) ==
    /\ NeedsUser(req[r]) => "user" \in req[r].holds \/ "cancelled" \in marks[UserOf[r]]
    /\ req[r].pc = "run" =>
          "account" \in req[r].holds \/ "cancelled" \in marks[req[r].account]

(* A member is held by its request or was lost, and what a request holds   *)
(* is a member but for a cause.                                            *)
SlotsFit(k) == IsFiniteSet(slots[k]) /\ Cardinality(slots[k]) <= Limit[k]
OwnHeld(k, r) == <<r, "own">> \in slots[k] => \E s \in req[r].holds : KeyAt(r, s) = k
LeftLost(k, r) == <<r, "left">> \in slots[k] => "lost" \in marks[k]
HeldOwn(k, r) ==
    \A s \in req[r].holds :
        KeyAt(r, s) = k => <<r, "own">> \in slots[k] \/ marks[k] \cap {"expired", "cleaned"} # {}
SlotsOK(k) == SlotsFit(k) /\ \A r \in Requests : OwnHeld(k, r) /\ LeftLost(k, r) /\ HeldOwn(k, r)

WaitOK(k) ==
    marks[k] \cap {"miscounted", "cleaned"} = {} =>
        /\ IsFiniteSet(Counted(k)) /\ wait[k] = Cardinality(Counted(k))
        /\ wait[k] <= MaxWait[k]

PlacesOK == \A r \in Requests : ShapeOK(req[r]) /\ HeldOK(r)
SlotInv == TypeOK /\ PlacesOK /\ \A k \in Keys : SlotsOK(k) /\ WaitOK(k)

---------------------------------------------------------------------------
(* Lemmas about one request that moves.                                    *)

(* Only r moves.                                                           *)
Moves(r) ==
    /\ req' \in [Requests -> Request]
    /\ \A q \in Requests : q # r => req'[q] = req[q]

(* Causes are only added.                                                  *)
MarksGrow ==
    /\ marks' \in [Keys -> SUBSET Causes]
    /\ \A k \in Keys : marks[k] \subseteq marks'[k]

\* A stage's key is one of the keys, and the two stages never share one.
LEMMA KeysApart ==
    ASSUME SlotsAssumption, req \in [Requests -> Request], NEW r \in Requests
    PROVE  /\ \A s \in Stages : KeyAt(r, s) \in Keys
           /\ KeyAt(r, "user") # KeyAt(r, "account")
           /\ req[r].stage \in Stages /\ Key(r) \in Keys
BY DEF SlotsAssumption, Request, KeyAt, Key, Keys, Stages

\* Marking a key adds a cause to it and to no other.
LEMMA MarkGrows ==
    ASSUME marks \in [Keys -> SUBSET Causes], NEW k \in Keys, NEW c \in Causes, Mark(k, c)
    PROVE  MarksGrow /\ c \in marks'[k]
BY DEF Mark, MarksGrow

\* Requests that do not move keep their places.
LEMMA PlacesStay ==
    ASSUME PlacesOK, NEW r \in Requests, Moves(r), MarksGrow, SlotsAssumption, TypeOK,
           ShapeOK(req'[r]), HeldOK(r)'
    PROVE  PlacesOK'
<1> SUFFICES ASSUME NEW q \in Requests PROVE ShapeOK(req'[q]) /\ HeldOK(q)'
    BY DEF PlacesOK
<1>1. CASE q = r
    BY <1>1
<1>2. CASE q # r
    <2>1. req'[q] = req[q]
        BY <1>2 DEF Moves
    <2>2. ShapeOK(req[q]) /\ HeldOK(q)
        BY DEF PlacesOK
    <2>3. UserOf[q] \in Keys /\ req[q].account \in Keys
        BY DEF SlotsAssumption, TypeOK, Request, Keys
    <2> QED BY <2>1, <2>2, <2>3 DEF HeldOK, MarksGrow
<1> QED BY <1>1, <1>2

\* A step that changes neither the sets nor what r holds nor the keys it holds them under.
LEMMA SlotsStay ==
    ASSUME TypeOK, \A k \in Keys : SlotsOK(k), NEW r \in Requests, Moves(r), MarksGrow,
           slots' = slots, req'[r].holds = req[r].holds,
           "account" \in req[r].holds => req'[r].account = req[r].account
    PROVE  \A k \in Keys : SlotsOK(k)'
<1> SUFFICES ASSUME NEW k \in Keys PROVE SlotsOK(k)'
    OBVIOUS
<1>1. SlotsOK(k) /\ marks[k] \subseteq marks'[k]
    BY DEF MarksGrow
<1>2. SlotsFit(k)'
    BY <1>1 DEF SlotsOK, SlotsFit
<1>3. ASSUME NEW q \in Requests PROVE OwnHeld(k, q)' /\ LeftLost(k, q)' /\ HeldOwn(k, q)'
    <2>1. req'[q].holds = req[q].holds
        BY DEF Moves
    <2>2. \A s \in req[q].holds : KeyAt(q, s)' = KeyAt(q, s)
        <3>1. "account" \in req[q].holds => req'[q].account = req[q].account
            BY DEF Moves
        <3>2. req[q].holds \subseteq Stages
            BY DEF TypeOK, Request
        <3> QED BY <3>1, <3>2 DEF KeyAt, Stages
    <2>3. OwnHeld(k, q) /\ LeftLost(k, q) /\ HeldOwn(k, q)
        BY <1>1 DEF SlotsOK
    <2>4. OwnHeld(k, q)'
        BY <2>1, <2>2, <2>3 DEF OwnHeld
    <2>5. LeftLost(k, q)'
        BY <1>1, <2>3 DEF LeftLost
    <2>6. HeldOwn(k, q)'
        BY <1>1, <2>1, <2>2, <2>3 DEF HeldOwn
    <2> QED BY <2>4, <2>5, <2>6
<1> QED BY <1>2, <1>3 DEF SlotsOK

\* Who is counted at k does not change while r neither enters nor leaves the queue.
LEMMA CountedStays ==
    ASSUME NEW k, NEW r \in Requests, Moves(r),
           (req'[r].counted /\ Key(r)' = k) <=> (req[r].counted /\ Key(r) = k)
    PROVE  Counted(k)' = Counted(k)
<1>1. \A q \in Requests : (req'[q].counted /\ Key(q)' = k) <=> (req[q].counted /\ Key(q) = k)
    BY DEF Moves, Key, KeyAt
<1> QED BY <1>1 DEF Counted

\* A step that changes neither the counters nor whether r is counted, and where.
LEMMA WaitsStay ==
    ASSUME \A k \in Keys : WaitOK(k), NEW r \in Requests, Moves(r), MarksGrow,
           wait' = wait, req'[r].counted = req[r].counted,
           req[r].counted => Key(r)' = Key(r)
    PROVE  \A k \in Keys : WaitOK(k)'
<1> SUFFICES ASSUME NEW k \in Keys PROVE WaitOK(k)'
    OBVIOUS
<1>1. Counted(k)' = Counted(k)
    BY CountedStays
<1>2. WaitOK(k) /\ marks[k] \subseteq marks'[k]
    BY DEF MarksGrow
<1> QED BY <1>1, <1>2 DEF WaitOK

(* The world but for its failed calls.                                     *)
WorldFits ==
    /\ proc' \in [Instances -> Cleaning \cup {"up", "down"}]
    /\ faults' \in 0..MaxFaults /\ crashes' \in 0..MaxCrashes

\* A failed call, like none, stays within the bounds.
LEMMA FaultsFit ==
    ASSUME SlotsAssumption, TypeOK, Fault \/ faults' = faults, proc' = proc, crashes' = crashes
    PROVE  WorldFits
<1>1. faults' \in 0..MaxFaults
    BY DEF Fault, TypeOK, SlotsAssumption
<1>2. proc' \in [Instances -> Cleaning \cup {"up", "down"}] /\ crashes' \in 0..MaxCrashes
    BY DEF TypeOK
<1> QED BY <1>1, <1>2 DEF WorldFits

\* Nothing happens to the marks.
LEMMA SameMarks ==
    ASSUME TypeOK, marks' = marks
    PROVE  MarksGrow
BY DEF TypeOK, MarksGrow

\* A request moves and takes, gives back and counts nothing.
LEMMA QuietMove ==
    ASSUME SlotsAssumption, SlotInv, NEW r \in Requests, Moves(r),
           slots' = slots, wait' = wait, MarksGrow, WorldFits,
           req'[r].holds = req[r].holds, req'[r].counted = req[r].counted,
           "account" \in req[r].holds => req'[r].account = req[r].account,
           req[r].counted => Key(r)' = Key(r),
           ShapeOK(req'[r]), HeldOK(r)'
    PROVE  SlotInv'
<1>1. TypeOK'
    BY DEF SlotInv, TypeOK, Moves, MarksGrow, WorldFits
<1>2. PlacesOK'
    BY PlacesStay DEF SlotInv
<1>3. \A k \in Keys : SlotsOK(k)'
    BY SlotsStay DEF SlotInv
<1>4. \A k \in Keys : WaitOK(k)'
    BY WaitsStay DEF SlotInv
<1> QED BY <1>1, <1>2, <1>3, <1>4 DEF SlotInv

\* Arrive keeps the invariant.
LEMMA ArriveKeeps ==
    ASSUME SlotsAssumption, SlotInv, NEW r \in Requests, Arrive(r)
    PROVE  SlotInv'
<1>1. PICK i \in Instances, first \in FirstStep :
          Set(r, [req[r] EXCEPT !.pc = first, !.live = TRUE, !.home = i])
    BY DEF Arrive
<1>2. /\ Moves(r) /\ req'[r].pc = first
      /\ req'[r].stage = req[r].stage /\ req'[r].account = req[r].account
      /\ req'[r].holds = req[r].holds /\ req'[r].counted = req[r].counted
    <2> DEFINE b == [req[r] EXCEPT !.pc = first]
               c == [b EXCEPT !.live = TRUE]
               d == [c EXCEPT !.home = i]
    <2>1. req[r] \in Request
        BY DEF SlotInv, TypeOK
    <2>2. b \in Request /\ b.pc = first /\ b.stage = req[r].stage /\ b.account = req[r].account
              /\ b.holds = req[r].holds /\ b.counted = req[r].counted
        BY <2>1 DEF Request, FirstStep
    <2>3. c \in Request /\ c.pc = b.pc /\ c.stage = b.stage /\ c.account = b.account
              /\ c.holds = b.holds /\ c.counted = b.counted
        BY <2>2 DEF Request
    <2>4. d \in Request /\ d.pc = c.pc /\ d.stage = c.stage /\ d.account = c.account
              /\ d.holds = c.holds /\ d.counted = c.counted
        BY <2>3 DEF Request
    <2>5. req' = [req EXCEPT ![r] = d]
        BY <1>1 DEF Set
    <2> HIDE DEF b, c, d
    <2>6. Moves(r) /\ req'[r] = d
        BY <2>4, <2>5 DEF Moves, SlotInv, TypeOK
    <2> QED BY <2>2, <2>3, <2>4, <2>6
<1>3. req[r].pc = "new" /\ slots' = slots /\ wait' = wait /\ marks' = marks
      /\ proc' = proc /\ faults' = faults /\ crashes' = crashes
    BY DEF Arrive, Redis, World
<1>4. ShapeOK(req[r])
    BY DEF SlotInv, PlacesOK
<1>5. ShapeOK(req'[r]) /\ HeldOK(r)'
    BY <1>2, <1>3, <1>4 DEF ShapeOK, HeldOK, NeedsUser, FirstStep
<1>6. ~req[r].counted
    BY <1>3, <1>4 DEF ShapeOK
<1>7. MarksGrow /\ WorldFits
    BY <1>3, SameMarks, FaultsFit DEF SlotInv
<1> QED BY <1>2, <1>3, <1>5, <1>6, <1>7, QuietMove

\* Cancel keeps the invariant.
LEMMA CancelKeeps ==
    ASSUME SlotsAssumption, SlotInv, NEW r \in Requests, Cancel(r)
    PROVE  SlotInv'
<1>1. /\ Moves(r) /\ req'[r].pc = req[r].pc /\ req'[r].live = FALSE
      /\ req'[r].stage = req[r].stage /\ req'[r].account = req[r].account
      /\ req'[r].holds = req[r].holds /\ req'[r].counted = req[r].counted
    <2> DEFINE c == [req[r] EXCEPT !.live = FALSE]
    <2>1. req[r] \in Request
        BY DEF SlotInv, TypeOK
    <2>2. /\ c \in Request
          /\ c.pc = req[r].pc /\ c.live = FALSE /\ c.stage = req[r].stage
          /\ c.account = req[r].account /\ c.holds = req[r].holds /\ c.counted = req[r].counted
        BY <2>1 DEF Request
    <2>3. req' = [req EXCEPT ![r] = c]
        BY DEF Cancel, Set
    <2> HIDE DEF c
    <2>4. Moves(r) /\ req'[r] = c
        BY <2>2, <2>3 DEF Moves, SlotInv, TypeOK
    <2> QED BY <2>2, <2>4
<1>2. slots' = slots /\ wait' = wait /\ marks' = marks
      /\ proc' = proc /\ faults' = faults /\ crashes' = crashes
    BY DEF Cancel, Redis, World
<1>3. ShapeOK(req[r]) /\ HeldOK(r)
    BY DEF SlotInv, PlacesOK
<1>4. ShapeOK(req'[r])
    BY <1>1, <1>3 DEF ShapeOK
<1>5. HeldOK(r)'
    BY <1>1, <1>2, <1>3 DEF HeldOK, NeedsUser
<1>6. MarksGrow /\ WorldFits
    BY <1>2, SameMarks, FaultsFit DEF SlotInv
<1>7. Key(r)' = Key(r)
    BY <1>1 DEF Key, KeyAt
<1> QED BY <1>1, <1>2, <1>4, <1>5, <1>6, <1>7, QuietMove

(* The places of a request.                                               *)
Places == {"new", "done", "try", "count", "wait", "uncount", "select", "leave", "run", "switch",
           "close"}

(* r goes to p, and nothing else of it changes that the invariant reads.   *)
GoesTo(r, p) ==
    /\ Moves(r) /\ req'[r].pc = p /\ req'[r].live = req[r].live
    /\ req'[r].stage = req[r].stage /\ req'[r].account = req[r].account
    /\ req'[r].holds = req[r].holds /\ req'[r].counted = req[r].counted

\* A request set to another place goes there.
LEMMA SetPlace ==
    ASSUME req \in [Requests -> Request], NEW r \in Requests, NEW p \in Places,
           Set(r, [req[r] EXCEPT !.pc = p])
    PROVE  GoesTo(r, p)
<1> DEFINE c == [req[r] EXCEPT !.pc = p]
<1>1. /\ c \in Request
      /\ c.pc = p /\ c.live = req[r].live /\ c.stage = req[r].stage
      /\ c.account = req[r].account /\ c.holds = req[r].holds /\ c.counted = req[r].counted
    BY DEF Request, Places
<1>2. req' = [req EXCEPT ![r] = c]
    BY DEF Set
<1> HIDE DEF c
<1>3. Moves(r) /\ req'[r] = c
    BY <1>1, <1>2 DEF Moves
<1> QED BY <1>1, <1>3 DEF GoesTo

\* A request that goes on with what it has, in Redis as before or marked.
LEMMA GoesToKeeps ==
    ASSUME SlotsAssumption, SlotInv, NEW r \in Requests, NEW p, GoesTo(r, p),
           slots' = slots, wait' = wait, MarksGrow, WorldFits,
           ShapeOK(req'[r]), HeldOK(r)'
    PROVE  SlotInv'
<1>1. Key(r)' = Key(r)
    BY DEF GoesTo, Key, KeyAt
<1> QED BY <1>1, QuietMove DEF GoesTo

\* TryIsFull, AcquireFails, GiveUp, QueueIsFull and Refuse keep the invariant.
LEMMA TurnedAwayKeeps ==
    ASSUME SlotsAssumption, SlotInv, NEW r \in Requests, NEW p \in {"count", "leave", "close"},
           GoesTo(r, p), req[r].pc \in {"try", "wait", "count", "select"},
           p = "count" => req[r].pc = "try",
           p = "close" => req[r].pc = "select",
           slots' = slots, wait' = wait, marks' = marks, WorldFits
    PROVE  SlotInv'
<1>1. ShapeOK(req[r]) /\ HeldOK(r) /\ req[r] \in Request
    BY DEF SlotInv, PlacesOK, TypeOK
<1>2. ShapeOK(req'[r])
    BY <1>1 DEF ShapeOK, GoesTo
<1>3. HeldOK(r)'
    BY <1>1 DEF HeldOK, NeedsUser, GoesTo
<1>4. MarksGrow
    BY SameMarks DEF SlotInv
<1> QED BY <1>2, <1>3, <1>4, GoesToKeeps

\* TryIsFull keeps the invariant.
LEMMA TryIsFullKeeps ==
    ASSUME SlotsAssumption, SlotInv, NEW r \in Requests, TryIsFull(r)
    PROVE  SlotInv'
<1>1. GoesTo(r, "count")
    BY SetPlace DEF TryIsFull, SlotInv, TypeOK, Places
<1>2. WorldFits
    BY FaultsFit DEF TryIsFull, World, SlotInv
<1> QED BY <1>1, <1>2, TurnedAwayKeeps DEF TryIsFull, Redis

\* AcquireFails keeps the invariant.
LEMMA AcquireFailsKeeps ==
    ASSUME SlotsAssumption, SlotInv, NEW r \in Requests, AcquireFails(r)
    PROVE  SlotInv'
<1>1. GoesTo(r, "leave") \/ (req[r].pc = "try" /\ GoesTo(r, "count"))
    <2>1. \/ Set(r, [req[r] EXCEPT !.pc = "leave"])
          \/ req[r].pc = "try" /\ Set(r, [req[r] EXCEPT !.pc = "count"])
        BY DEF AcquireFails, AfterFailure
    <2> QED BY <2>1, SetPlace DEF SlotInv, TypeOK, Places
<1>2. WorldFits
    BY FaultsFit DEF AcquireFails, SlotInv
<1> QED BY <1>1, <1>2, TurnedAwayKeeps DEF AcquireFails, Redis

\* GiveUp keeps the invariant.
LEMMA GiveUpKeeps ==
    ASSUME SlotsAssumption, SlotInv, NEW r \in Requests, GiveUp(r)
    PROVE  SlotInv'
<1>1. GoesTo(r, "leave")
    BY SetPlace DEF GiveUp, SlotInv, TypeOK, Places
<1>2. WorldFits
    BY FaultsFit DEF GiveUp, World, SlotInv
<1> QED BY <1>1, <1>2, TurnedAwayKeeps DEF GiveUp, Redis

\* QueueIsFull keeps the invariant.
LEMMA QueueIsFullKeeps ==
    ASSUME SlotsAssumption, SlotInv, NEW r \in Requests, QueueIsFull(r)
    PROVE  SlotInv'
<1>1. GoesTo(r, "leave")
    BY SetPlace DEF QueueIsFull, SlotInv, TypeOK, Places
<1>2. WorldFits
    BY FaultsFit DEF QueueIsFull, World, SlotInv
<1> QED BY <1>1, <1>2, TurnedAwayKeeps DEF QueueIsFull, Redis

\* Refuse keeps the invariant.
LEMMA RefuseKeeps ==
    ASSUME SlotsAssumption, SlotInv, NEW r \in Requests, Refuse(r)
    PROVE  SlotInv'
<1>1. GoesTo(r, "close")
    BY SetPlace DEF Refuse, SlotInv, TypeOK, Places
<1>2. WorldFits
    BY FaultsFit DEF Refuse, World, SlotInv
<1> QED BY <1>1, <1>2, TurnedAwayKeeps DEF Refuse, Redis

\* Select keeps the invariant: the account changes while none of its slots is held.
LEMMA SelectKeeps ==
    ASSUME SlotsAssumption, SlotInv, NEW r \in Requests, Select(r)
    PROVE  SlotInv'
<1>1. PICK a \in Accounts :
          Set(r, [req[r] EXCEPT !.pc = "try", !.stage = "account", !.account = a])
    BY DEF Select
<1>2. /\ Moves(r) /\ req'[r].pc = "try" /\ req'[r].stage = "account"
      /\ req'[r].live = req[r].live
      /\ req'[r].holds = req[r].holds /\ req'[r].counted = req[r].counted
    <2> DEFINE b == [req[r] EXCEPT !.pc = "try"]
               c == [b EXCEPT !.stage = "account"]
               d == [c EXCEPT !.account = a]
    <2>1. req[r] \in Request
        BY DEF SlotInv, TypeOK
    <2>2. b \in Request /\ b.pc = "try" /\ b.live = req[r].live
              /\ b.holds = req[r].holds /\ b.counted = req[r].counted
        BY <2>1 DEF Request
    <2>3. c \in Request /\ c.pc = b.pc /\ c.stage = "account" /\ c.live = b.live
              /\ c.holds = b.holds /\ c.counted = b.counted
        BY <2>2 DEF Request, Stages
    <2>4. d \in Request /\ d.pc = c.pc /\ d.stage = c.stage /\ d.live = c.live
              /\ d.holds = c.holds /\ d.counted = c.counted
        BY <2>3 DEF Request
    <2>5. req' = [req EXCEPT ![r] = d]
        BY <1>1 DEF Set
    <2> HIDE DEF b, c, d
    <2>6. Moves(r) /\ req'[r] = d
        BY <2>4, <2>5 DEF Moves, SlotInv, TypeOK
    <2> QED BY <2>2, <2>3, <2>4, <2>6
<1>3. req[r].pc = "select" /\ slots' = slots /\ wait' = wait /\ marks' = marks
      /\ proc' = proc /\ faults' = faults /\ crashes' = crashes
    BY DEF Select, Redis, World
<1>4. ShapeOK(req[r]) /\ HeldOK(r)
    BY DEF SlotInv, PlacesOK
<1>5. ~req[r].counted /\ "account" \notin req[r].holds
    BY <1>3, <1>4 DEF ShapeOK
<1>6. ShapeOK(req'[r])
    BY <1>2, <1>5 DEF ShapeOK
<1>7. HeldOK(r)'
    BY <1>2, <1>3, <1>4 DEF HeldOK, NeedsUser
<1>8. MarksGrow /\ WorldFits
    BY <1>3, SameMarks, FaultsFit DEF SlotInv
<1> QED BY <1>2, <1>3, <1>5, <1>6, <1>7, <1>8, QuietMove

\* Finish keeps the invariant.
LEMMA FinishKeeps ==
    ASSUME SlotsAssumption, SlotInv, NEW r \in Requests, Finish(r)
    PROVE  SlotInv'
<1>1. req[r].pc = "run" /\ slots' = slots /\ wait' = wait /\ marks' = marks
      /\ proc' = proc /\ faults' = faults /\ crashes' = crashes
    BY DEF Finish, Redis, World
<1>2. ShapeOK(req[r]) /\ HeldOK(r) /\ req[r] \in Request
    BY DEF SlotInv, PlacesOK, TypeOK
<1>3. GoesTo(r, "close") \/ (req[r].live /\ GoesTo(r, "switch"))
    <2>1. CASE Set(r, [req[r] EXCEPT !.pc = "close"])
        BY <2>1, SetPlace DEF SlotInv, TypeOK, Places
    <2>2. CASE /\ req[r].live /\ req[r].moves < MaxSwitches
               /\ Set(r, [req[r] EXCEPT !.pc = "switch", !.moves = @ + 1])
        <3> DEFINE b == [req[r] EXCEPT !.pc = "switch"]
                   c == [b EXCEPT !.moves = @ + 1]
        <3>1. /\ b \in Request /\ b.moves = req[r].moves
              /\ b.pc = "switch" /\ b.live = req[r].live /\ b.stage = req[r].stage
              /\ b.account = req[r].account /\ b.holds = req[r].holds /\ b.counted = req[r].counted
            BY <1>2 DEF Request
        <3>2. b.moves + 1 \in 0..MaxSwitches
            BY <1>2, <2>2, <3>1 DEF Request, SlotsAssumption
        <3>3. /\ c \in Request
              /\ c.pc = b.pc /\ c.live = b.live /\ c.stage = b.stage
              /\ c.account = b.account /\ c.holds = b.holds /\ c.counted = b.counted
            BY <3>1, <3>2 DEF Request
        <3>4. req' = [req EXCEPT ![r] = c]
            BY <2>2 DEF Set
        <3> HIDE DEF b, c
        <3>5. Moves(r) /\ req'[r] = c
            BY <3>3, <3>4 DEF Moves, SlotInv, TypeOK
        <3> QED BY <2>2, <3>1, <3>3, <3>5 DEF GoesTo
    <2> QED BY <2>1, <2>2 DEF Finish
<1>4. ShapeOK(req'[r])
    BY <1>1, <1>2, <1>3 DEF ShapeOK, GoesTo
<1>5. HeldOK(r)'
    BY <1>1, <1>2, <1>3 DEF HeldOK, NeedsUser, GoesTo
<1>6. MarksGrow /\ WorldFits
    BY <1>1, SameMarks, FaultsFit DEF SlotInv
<1> QED BY <1>1, <1>3, <1>4, <1>5, <1>6, GoesToKeeps

\* What a request is when it ends.
LEMMA EndedFits ==
    ASSUME SlotsAssumption, NEW q \in Request
    PROVE  \E d \in Request : /\ d = Ended(q) /\ d.pc = "done" /\ d.stage = "user"
                              /\ d.holds = {} /\ ~d.counted /\ ~d.live /\ d.account = q.account
<1> DEFINE b == [q EXCEPT !.pc = "done"]
           c == [b EXCEPT !.stage = "user"]
           d == [c EXCEPT !.holds = {}]
           e == [d EXCEPT !.counted = FALSE]
           f == [e EXCEPT !.live = FALSE]
           g == [f EXCEPT !.moves = 0]
           h == [g EXCEPT !.home = NoInstance]
<1>1. b \in Request /\ b.pc = "done" /\ b.account = q.account
    BY DEF Request
<1>2. c \in Request /\ c.pc = "done" /\ c.account = q.account /\ c.stage = "user"
    BY <1>1 DEF Request, Stages
<1>3. d \in Request /\ d.pc = "done" /\ d.account = q.account /\ d.stage = "user" /\ d.holds = {}
    BY <1>2 DEF Request
<1>4. e \in Request /\ e.pc = "done" /\ e.account = q.account /\ e.stage = "user" /\ e.holds = {}
        /\ e.counted = FALSE
    BY <1>3 DEF Request
<1>5. f \in Request /\ f.pc = "done" /\ f.account = q.account /\ f.stage = "user" /\ f.holds = {}
        /\ f.counted = FALSE /\ f.live = FALSE
    BY <1>4 DEF Request
<1>0. 0 \in 0..MaxSwitches
    BY DEF SlotsAssumption
<1>6. g \in Request /\ g.pc = "done" /\ g.account = q.account /\ g.stage = "user" /\ g.holds = {}
        /\ g.counted = FALSE /\ g.live = FALSE
    BY <1>0, <1>5 DEF Request
<1>7. h \in Request /\ h.pc = "done" /\ h.account = q.account /\ h.stage = "user" /\ h.holds = {}
        /\ h.counted = FALSE /\ h.live = FALSE
    BY <1>6 DEF Request
<1>8. h = Ended(q)
    BY DEF Ended
<1> QED BY <1>7, <1>8

\* Goes keeps the invariant.
LEMMA GoesKeeps ==
    ASSUME SlotsAssumption, SlotInv, NEW r \in Requests, Goes(r)
    PROVE  SlotInv'
<1>1. slots' = slots /\ wait' = wait /\ marks' = marks
      /\ proc' = proc /\ faults' = faults /\ crashes' = crashes
    BY DEF Goes, Redis, World
<1>2. ShapeOK(req[r]) /\ HeldOK(r) /\ req[r] \in Request
    BY DEF SlotInv, PlacesOK, TypeOK
<1>3. MarksGrow /\ WorldFits
    BY <1>1, SameMarks, FaultsFit DEF SlotInv
<1>4. CASE /\ req[r].pc = "switch" /\ "account" \notin req[r].holds
           /\ Set(r, [req[r] EXCEPT !.pc = "select"])
    <2>1. GoesTo(r, "select")
        BY <1>4, SetPlace DEF SlotInv, TypeOK, Places
    <2>2. ShapeOK(req'[r])
        BY <1>2, <1>4, <2>1 DEF ShapeOK, GoesTo
    <2>3. HeldOK(r)'
        <3>1. req[r].stage = "account"
            BY <1>2, <1>4 DEF ShapeOK
        <3> QED BY <1>1, <1>2, <1>4, <2>1, <3>1 DEF HeldOK, NeedsUser, GoesTo
    <2> QED BY <1>1, <1>3, <2>1, <2>2, <2>3, GoesToKeeps
<1>5. CASE /\ req[r].pc = "close" /\ req[r].holds = {}
           /\ Set(r, Ended(req[r]))
    <2>1. PICK d \in Request : /\ d = Ended(req[r]) /\ d.pc = "done" /\ d.stage = "user"
                               /\ d.holds = {} /\ ~d.counted /\ ~d.live /\ d.account = req[r].account
        BY <1>2, EndedFits
    <2>2. Moves(r) /\ req'[r] = d
        BY <1>5, <2>1 DEF Set, Moves, SlotInv, TypeOK
    <2>3. ShapeOK(req'[r])
        BY <2>1, <2>2 DEF ShapeOK
    <2>4. HeldOK(r)'
        BY <2>1, <2>2 DEF HeldOK, NeedsUser
    <2>5. ~req[r].counted
        BY <1>2, <1>5 DEF ShapeOK
    <2>6. req'[r].holds = req[r].holds /\ req'[r].counted = req[r].counted
        BY <1>2, <1>5, <2>1, <2>2, <2>5 DEF Request
    <2> QED BY <1>1, <1>3, <2>1, <2>2, <2>3, <2>4, <2>5, <2>6, QuietMove
<1> QED BY <1>4, <1>5 DEF Goes

---------------------------------------------------------------------------
(* The slots.                                                              *)

\* A key where r neither takes nor gives back a slot.
LEMMA SlotsElsewhere ==
    ASSUME TypeOK, NEW r \in Requests, Moves(r), MarksGrow, NEW k \in Keys, SlotsOK(k),
           slots'[k] = slots[k],
           \A s \in Stages : (s \in req'[r].holds /\ KeyAt(r, s)' = k)
                                 <=> (s \in req[r].holds /\ KeyAt(r, s) = k)
    PROVE  SlotsOK(k)'
<1>1. marks[k] \subseteq marks'[k]
    BY DEF MarksGrow
<1>2. SlotsFit(k)'
    BY DEF SlotsOK, SlotsFit
<1>3. ASSUME NEW q \in Requests PROVE OwnHeld(k, q)' /\ LeftLost(k, q)' /\ HeldOwn(k, q)'
    <2>1. req[q].holds \subseteq Stages /\ req'[q].holds \subseteq Stages
        BY DEF TypeOK, Moves, Request
    <2>2. \A s \in Stages : (s \in req'[q].holds /\ KeyAt(q, s)' = k)
                                <=> (s \in req[q].holds /\ KeyAt(q, s) = k)
        BY DEF Moves, KeyAt
    <2>3. OwnHeld(k, q) /\ LeftLost(k, q) /\ HeldOwn(k, q)
        BY DEF SlotsOK
    <2>4. OwnHeld(k, q)'
        BY <2>1, <2>2, <2>3 DEF OwnHeld
    <2>5. LeftLost(k, q)'
        BY <1>1, <2>3 DEF LeftLost
    <2>6. HeldOwn(k, q)'
        BY <1>1, <2>1, <2>2, <2>3 DEF HeldOwn
    <2> QED BY <2>4, <2>5, <2>6
<1> QED BY <1>2, <1>3 DEF SlotsOK

\* A key where only members of r come and go.
LEMMA SlotsHere ==
    ASSUME TypeOK, NEW r \in Requests, Moves(r), MarksGrow, NEW k \in Keys, SlotsOK(k),
           \A q \in Requests : \A t \in {"own", "left"} :
               q # r => (<<q, t>> \in slots'[k] <=> <<q, t>> \in slots[k]),
           SlotsFit(k)', OwnHeld(k, r)', LeftLost(k, r)', HeldOwn(k, r)'
    PROVE  SlotsOK(k)'
<1>1. marks[k] \subseteq marks'[k]
    BY DEF MarksGrow
<1>2. ASSUME NEW q \in Requests, q # r PROVE OwnHeld(k, q)' /\ LeftLost(k, q)' /\ HeldOwn(k, q)'
    <2>1. req'[q] = req[q] /\ \A s \in req[q].holds : KeyAt(q, s)' = KeyAt(q, s)
        BY <1>2 DEF Moves, KeyAt
    <2>2. OwnHeld(k, q) /\ LeftLost(k, q) /\ HeldOwn(k, q)
        BY DEF SlotsOK
    <2>3. (<<q, "own">> \in slots'[k] <=> <<q, "own">> \in slots[k])
              /\ (<<q, "left">> \in slots'[k] <=> <<q, "left">> \in slots[k])
        BY <1>2
    <2>4. OwnHeld(k, q)'
        BY <2>1, <2>2, <2>3 DEF OwnHeld
    <2>5. LeftLost(k, q)'
        BY <1>1, <2>2, <2>3 DEF LeftLost
    <2>6. HeldOwn(k, q)'
        BY <1>1, <2>1, <2>2, <2>3 DEF HeldOwn
    <2> QED BY <2>4, <2>5, <2>6
<1> QED BY <1>2 DEF SlotsOK

\* A request moves and takes or gives back a slot of one key.
LEMMA SlotMove ==
    ASSUME SlotsAssumption, SlotInv, NEW r \in Requests, Moves(r), NEW k \in Keys,
           slots' \in [Keys -> SUBSET Members], \A j \in Keys : j # k => slots'[j] = slots[j],
           \A q \in Requests : \A t \in {"own", "left"} :
               q # r => (<<q, t>> \in slots'[k] <=> <<q, t>> \in slots[k]),
           wait' = wait, MarksGrow, WorldFits,
           req'[r].counted = req[r].counted, req'[r].stage = req[r].stage,
           req'[r].account = req[r].account,
           \A s \in Stages : KeyAt(r, s) # k => (s \in req'[r].holds <=> s \in req[r].holds),
           SlotsFit(k)', OwnHeld(k, r)', LeftLost(k, r)', HeldOwn(k, r)',
           ShapeOK(req'[r]), HeldOK(r)'
    PROVE  SlotInv'
<1>1. TypeOK'
    BY DEF SlotInv, TypeOK, Moves, MarksGrow, WorldFits
<1>2. PlacesOK'
    BY PlacesStay DEF SlotInv
<1>3. \A s \in Stages : KeyAt(r, s)' = KeyAt(r, s)
    BY DEF KeyAt
<1>4. ASSUME NEW j \in Keys PROVE SlotsOK(j)'
    <2>1. SlotsOK(j) /\ TypeOK
        BY DEF SlotInv
    <2>2. CASE j = k
        BY <2>1, <2>2, SlotsHere
    <2>3. CASE j # k
        BY <1>3, <2>1, <2>3, SlotsElsewhere
    <2> QED BY <2>2, <2>3
<1>5. Key(r)' = Key(r)
    BY DEF Key, KeyAt
<1>6. \A j \in Keys : WaitOK(j)'
    BY <1>5, WaitsStay DEF SlotInv
<1> QED BY <1>1, <1>2, <1>4, <1>6 DEF SlotInv

\* A set with room for one more.
LEMMA RoomForOne ==
    ASSUME NEW S, NEW x, NEW n \in Nat, IsFiniteSet(S), Cardinality(S) < n
    PROVE  IsFiniteSet(S \cup {x}) /\ Cardinality(S \cup {x}) <= n
<1>1. Cardinality(S) \in Nat
    BY FS_CardinalityType
<1>2. /\ IsFiniteSet(S \cup {x})
      /\ Cardinality(S \cup {x}) = IF x \in S THEN Cardinality(S) ELSE Cardinality(S)+1
    BY FS_AddElement
<1> QED BY <1>1, <1>2

\* A set without one of its members.
LEMMA OneLess ==
    ASSUME NEW S, NEW x, NEW n \in Nat, IsFiniteSet(S), Cardinality(S) <= n
    PROVE  IsFiniteSet(S \ {x}) /\ Cardinality(S \ {x}) <= n
           /\ (x \in S => Cardinality(S \ {x}) < n)
<1>1. Cardinality(S) \in Nat
    BY FS_CardinalityType
<1>2. /\ IsFiniteSet(S \ {x})
      /\ Cardinality(S \ {x}) = IF x \in S THEN Cardinality(S)-1 ELSE Cardinality(S)
    BY FS_RemoveElement
<1> QED BY <1>1, <1>2

\* What a request is when it goes on with its slot.
LEMMA ProceedFits ==
    ASSUME NEW q \in Request, NEW s \in Stages
    PROVE  \E d \in Request :
               /\ d = Proceed(q, s) /\ d.holds = q.holds \cup {s}
               /\ d.pc = IF q.counted THEN "uncount" ELSE IF s = "user" THEN "select" ELSE "run"
               /\ d.stage = q.stage /\ d.account = q.account
               /\ d.counted = q.counted /\ d.live = q.live
<1> DEFINE p == IF q.counted THEN "uncount" ELSE IF s = "user" THEN "select" ELSE "run"
           b == [q EXCEPT !.holds = @ \cup {s}]
           c == [b EXCEPT !.pc = p]
<1>1. p \in Places
    BY DEF Places
<1>2. /\ b \in Request /\ b.holds = q.holds \cup {s} /\ b.stage = q.stage
      /\ b.account = q.account /\ b.counted = q.counted /\ b.live = q.live
    BY DEF Request
<1>3. c = Proceed(q, s)
    BY DEF Proceed
<1> HIDE DEF b, p
<1>4. /\ c \in Request /\ c.holds = b.holds /\ c.pc = p /\ c.stage = b.stage
      /\ c.account = b.account /\ c.counted = b.counted /\ c.live = b.live
    BY <1>1, <1>2 DEF Request, Places
<1> HIDE DEF c
<1> QED BY <1>2, <1>3, <1>4 DEF p

\* Acquire keeps the invariant.
LEMMA AcquireKeeps ==
    ASSUME SlotsAssumption, SlotInv, NEW r \in Requests, Acquire(r)
    PROVE  SlotInv'
<1>1. /\ req[r].pc \in {"try", "wait"} /\ req[r].live /\ HasRoom(Key(r)) /\ TakeSlot(r)
      /\ Set(r, Proceed(req[r], req[r].stage)) /\ wait' = wait /\ marks' = marks
      /\ proc' = proc /\ faults' = faults /\ crashes' = crashes
    BY DEF Acquire, World
<1>2. ShapeOK(req[r]) /\ HeldOK(r) /\ req[r] \in Request /\ req \in [Requests -> Request]
          /\ slots \in [Keys -> SUBSET Members]
    BY DEF SlotInv, PlacesOK, TypeOK
<1>0. PICK k \in Keys, st \in Stages : k = Key(r) /\ st = req[r].stage
    BY <1>2, KeysApart
<1>3. k = KeyAt(r, st) /\ KeyAt(r, "user") # KeyAt(r, "account")
    BY <1>0, <1>2, KeysApart DEF Key
<1>4. PICK d \in Request :
          /\ d = Proceed(req[r], st) /\ d.holds = req[r].holds \cup {st}
          /\ d.pc = IF req[r].counted THEN "uncount" ELSE IF st = "user" THEN "select" ELSE "run"
          /\ d.stage = req[r].stage /\ d.account = req[r].account
          /\ d.counted = req[r].counted /\ d.live = req[r].live
    BY <1>2, <1>3, ProceedFits
<1>5. Moves(r) /\ req'[r] = d
    BY <1>0, <1>1, <1>2, <1>4 DEF Set, Moves
<1>6. slots' = [slots EXCEPT ![k] = slots[k] \cup {<<r, "own">>}]
    BY <1>0, <1>1 DEF TakeSlot
<1>7. /\ slots' \in [Keys -> SUBSET Members] /\ \A j \in Keys : j # k => slots'[j] = slots[j]
      /\ slots'[k] = slots[k] \cup {<<r, "own">>}
    BY <1>2, <1>3, <1>6 DEF Members
<1>8. SlotsOK(k)
    BY <1>3 DEF SlotInv
<1>9. Limit[k] \in Nat /\ Cardinality(slots[k]) < Limit[k]
    BY <1>0, <1>1 DEF SlotsAssumption, HasRoom
<1>10. SlotsFit(k)'
    <2>1. /\ IsFiniteSet(slots[k] \cup {<<r, "own">>})
          /\ Cardinality(slots[k] \cup {<<r, "own">>}) <= Limit[k]
        BY <1>8, <1>9, RoomForOne DEF SlotsOK, SlotsFit
    <2> QED BY <1>7, <2>1 DEF SlotsFit
<1>11. KeyAt(r, st)' = k /\ st \in req'[r].holds
    BY <1>3, <1>4, <1>5 DEF KeyAt
<1>12. OwnHeld(k, r)'
    BY <1>11 DEF OwnHeld
<1>13. LeftLost(k, r)'
    BY <1>1, <1>7, <1>8 DEF LeftLost, SlotsOK
<1>14. HeldOwn(k, r)'
    BY <1>7 DEF HeldOwn
<1>15. ShapeOK(req'[r])
    BY <1>0, <1>1, <1>2, <1>4, <1>5 DEF ShapeOK, Stages
<1>16. HeldOK(r)'
    BY <1>0, <1>1, <1>2, <1>4, <1>5 DEF HeldOK, NeedsUser, Stages
<1>17. MarksGrow /\ WorldFits
    BY <1>1, SameMarks, FaultsFit DEF SlotInv
<1>18. \A s \in Stages : KeyAt(r, s) # k => (s \in req'[r].holds <=> s \in req[r].holds)
    BY <1>3, <1>4, <1>5
<1>19. \A q \in Requests : \A t \in {"own", "left"} :
          q # r => (<<q, t>> \in slots'[k] <=> <<q, t>> \in slots[k])
    BY <1>7
<1> QED BY <1>1, <1>3, <1>4, <1>5, <1>7, <1>10, <1>12, <1>13, <1>14, <1>15, <1>16, <1>17, <1>18,
           <1>19, SlotMove

\* A request that got no answer goes to a place where it holds what it held.
LEMMA AfterFailureFits ==
    ASSUME NEW q \in Request, q.pc \in {"try", "wait"}, NEW c \in AfterFailure(q)
    PROVE  /\ c \in Request /\ c.pc \in {"leave", "count"} /\ (c.pc = "count" => q.pc = "try")
           /\ c.holds = q.holds /\ c.stage = q.stage /\ c.account = q.account
           /\ c.counted = q.counted /\ c.live = q.live
<1>1. PICK p \in {"leave", "count"} : c = [q EXCEPT !.pc = p] /\ (p = "count" => q.pc = "try")
    BY DEF AfterFailure
<1> DEFINE b == [q EXCEPT !.pc = p]
<1>2. /\ b \in Request /\ b.pc = p /\ b.holds = q.holds /\ b.stage = q.stage
      /\ b.account = q.account /\ b.counted = q.counted /\ b.live = q.live
    BY DEF Request
<1>3. c = b
    BY <1>1
<1> HIDE DEF b
<1> QED BY <1>1, <1>2, <1>3

\* AcquireAnswerLost keeps the invariant.
LEMMA AcquireAnswerLostKeeps ==
    ASSUME SlotsAssumption, SlotInv, NEW r \in Requests, AcquireAnswerLost(r)
    PROVE  SlotInv'
<1>0. req \in [Requests -> Request]
    BY DEF SlotInv, TypeOK
<1>3. PICK k \in Keys : k = Key(r)
    BY <1>0, KeysApart
<1>1. /\ req[r].pc \in {"try", "wait"} /\ req[r].live /\ HasRoom(k)
      /\ slots' = [slots EXCEPT ![k] = slots[k] \cup {<<r, "left">>}]
      /\ Mark(k, "lost") /\ wait' = wait /\ proc' = proc /\ crashes' = crashes
    BY <1>3 DEF AcquireAnswerLost
<1>2. ShapeOK(req[r]) /\ HeldOK(r) /\ req[r] \in Request /\ req \in [Requests -> Request]
          /\ slots \in [Keys -> SUBSET Members] /\ marks \in [Keys -> SUBSET Causes]
    BY DEF SlotInv, PlacesOK, TypeOK
<1>4. PICK q \in AfterFailure(req[r]) :
          \/ Fault /\ Set(r, q)
          \/ Set(r, [q EXCEPT !.live = FALSE]) /\ UNCHANGED faults
    BY DEF AcquireAnswerLost
<1>5. /\ q \in Request /\ q.pc \in {"leave", "count"} /\ (q.pc = "count" => req[r].pc = "try")
      /\ q.holds = req[r].holds /\ q.stage = req[r].stage /\ q.account = req[r].account
      /\ q.counted = req[r].counted /\ q.live = req[r].live
    BY <1>1, <1>2, AfterFailureFits
<1>6. /\ Moves(r) /\ req'[r].pc \in {"leave", "count"}
      /\ (req'[r].pc = "count" => req[r].pc = "try")
      /\ req'[r].holds = req[r].holds /\ req'[r].stage = req[r].stage
      /\ req'[r].account = req[r].account /\ req'[r].counted = req[r].counted
    <2>1. CASE Set(r, q)
        <3>1. Moves(r) /\ req'[r] = q
            BY <1>2, <1>5, <2>1 DEF Set, Moves
        <3> QED BY <1>5, <3>1
    <2>2. CASE Set(r, [q EXCEPT !.live = FALSE])
        <3> DEFINE c == [q EXCEPT !.live = FALSE]
        <3>1. /\ c \in Request /\ c.pc = q.pc /\ c.holds = q.holds /\ c.stage = q.stage
              /\ c.account = q.account /\ c.counted = q.counted
            BY <1>5 DEF Request
        <3>2. req' = [req EXCEPT ![r] = c]
            BY <2>2 DEF Set
        <3> HIDE DEF c
        <3>3. Moves(r) /\ req'[r] = c
            BY <1>2, <3>1, <3>2 DEF Moves
        <3> QED BY <1>5, <3>1, <3>3
    <2> QED BY <1>4, <2>1, <2>2
<1>7. MarksGrow /\ "lost" \in marks'[k]
    BY <1>1, <1>2, <1>3, MarkGrows DEF Causes
<1>8. WorldFits
    BY <1>1, <1>4, FaultsFit DEF SlotInv
<1>9. SlotsOK(k)
    BY <1>3 DEF SlotInv
<1>10. Limit[k] \in Nat /\ Cardinality(slots[k]) < Limit[k]
    BY <1>1, <1>3 DEF SlotsAssumption, HasRoom
<1>11. /\ slots' \in [Keys -> SUBSET Members] /\ \A j \in Keys : j # k => slots'[j] = slots[j]
       /\ slots'[k] = slots[k] \cup {<<r, "left">>}
    BY <1>1, <1>2, <1>3 DEF Members
<1>12. SlotsFit(k)'
    <2>1. /\ IsFiniteSet(slots[k] \cup {<<r, "left">>})
          /\ Cardinality(slots[k] \cup {<<r, "left">>}) <= Limit[k]
        BY <1>9, <1>10, RoomForOne DEF SlotsOK, SlotsFit
    <2> QED BY <1>11, <2>1 DEF SlotsFit
<1>13. \A s \in Stages : KeyAt(r, s)' = KeyAt(r, s)
    BY <1>6 DEF KeyAt
<1>14. OwnHeld(k, r) /\ HeldOwn(k, r) /\ req[r].holds \subseteq Stages
    BY <1>2, <1>9 DEF SlotsOK, Request
<1>15. OwnHeld(k, r)'
    BY <1>6, <1>11, <1>13, <1>14 DEF OwnHeld
<1>16. LeftLost(k, r)'
    BY <1>7 DEF LeftLost
<1>17. HeldOwn(k, r)'
    BY <1>3, <1>6, <1>7, <1>11, <1>13, <1>14 DEF HeldOwn, MarksGrow
<1>18. ShapeOK(req'[r])
    BY <1>1, <1>2, <1>6 DEF ShapeOK
<1>19. HeldOK(r)'
    <2>1. NeedsUser(req'[r]) => NeedsUser(req[r])
        BY <1>1, <1>6 DEF NeedsUser
    <2>2. UserOf[r] \in Keys
        BY DEF SlotsAssumption, Keys
    <2> QED BY <1>2, <1>6, <1>7, <2>1, <2>2 DEF HeldOK, MarksGrow
<1>20. \A q2 \in Requests : \A t \in {"own", "left"} :
          q2 # r => (<<q2, t>> \in slots'[k] <=> <<q2, t>> \in slots[k])
    BY <1>11
<1> QED BY <1>1, <1>3, <1>6, <1>7, <1>8, <1>11, <1>12, <1>15, <1>16, <1>17, <1>18, <1>19, <1>20,
           SlotMove

\* What a request is when it has given back a slot.
LEMMA ReleasedFits ==
    ASSUME req \in [Requests -> Request], NEW r \in Requests, NEW s \in Stages, Released(r, s)
    PROVE  /\ Moves(r) /\ req'[r].holds = req[r].holds \ {s}
           /\ req'[r].pc = req[r].pc /\ req'[r].stage = req[r].stage
           /\ req'[r].account = req[r].account /\ req'[r].counted = req[r].counted
           /\ req'[r].live = req[r].live
<1> DEFINE c == [req[r] EXCEPT !.holds = @ \ {s}]
<1>1. req[r] \in Request
    OBVIOUS
<1>2. /\ c \in Request /\ c.holds = req[r].holds \ {s} /\ c.pc = req[r].pc
      /\ c.stage = req[r].stage /\ c.account = req[r].account /\ c.counted = req[r].counted
      /\ c.live = req[r].live
    BY <1>1 DEF Request
<1>3. req' = [req EXCEPT ![r] = c]
    BY DEF Released, Set
<1> HIDE DEF c
<1>4. Moves(r) /\ req'[r] = c
    BY <1>2, <1>3 DEF Moves
<1> QED BY <1>2, <1>4

\* A slot given back, whether its member goes or stays behind: where the request is allows it,
\* and what still needed the slot is marked.
LEMMA GivingBack ==
    ASSUME SlotsAssumption, SlotInv, NEW r \in Requests, NEW s \in Stages, MayRelease(r, s),
           Released(r, s), MarksGrow, TooEarly(r) => "cancelled" \in marks'[KeyAt(r, s)]
    PROVE  ShapeOK(req'[r]) /\ HeldOK(r)'
<1>1. ShapeOK(req[r]) /\ HeldOK(r) /\ req[r] \in Request /\ req \in [Requests -> Request]
    BY DEF SlotInv, PlacesOK, TypeOK
<1>2. /\ Moves(r) /\ req'[r].holds = req[r].holds \ {s}
      /\ req'[r].pc = req[r].pc /\ req'[r].stage = req[r].stage
      /\ req'[r].account = req[r].account /\ req'[r].counted = req[r].counted
      /\ req'[r].live = req[r].live
    BY <1>1, ReleasedFits
<1>3. ~(req[r].pc = "uncount" /\ req[r].stage = s)
    BY DEF MayRelease
<1>4. ShapeOK(req'[r])
    BY <1>1, <1>2, <1>3 DEF ShapeOK
<1>5. UserOf[r] \in Keys /\ req[r].account \in Keys
    BY <1>1 DEF SlotsAssumption, Request, Keys
<1>6. ASSUME NeedsUser(req[r]), "user" \notin req'[r].holds
      PROVE  "cancelled" \in marks'[UserOf[r]]
    <2>1. CASE "user" \notin req[r].holds
        BY <1>1, <1>5, <1>6, <2>1 DEF HeldOK, MarksGrow
    <2>2. CASE "user" \in req[r].holds
        <3>1. s = "user"
            BY <1>2, <1>6, <2>2
        <3>2. ~req[r].live
            BY <1>6, <3>1 DEF MayRelease, NeedsUser
        <3>3. TooEarly(r)
            BY <1>6, <3>2 DEF NeedsUser, TooEarly
        <3> QED BY <3>1, <3>3 DEF KeyAt
    <2> QED BY <2>1, <2>2
<1>7. ASSUME req[r].pc = "run", "account" \notin req'[r].holds
      PROVE  "cancelled" \in marks'[req[r].account]
    <2>1. CASE "account" \notin req[r].holds
        BY <1>1, <1>5, <1>7, <2>1 DEF HeldOK, MarksGrow
    <2>2. CASE "account" \in req[r].holds
        <3>1. s = "account"
            BY <1>2, <1>7, <2>2
        <3> QED BY <1>7, <3>1 DEF KeyAt, TooEarly
    <2> QED BY <2>1, <2>2
<1>8. NeedsUser(req'[r]) <=> NeedsUser(req[r])
    BY <1>2 DEF NeedsUser
<1>9. HeldOK(r)'
    BY <1>2, <1>6, <1>7, <1>8 DEF HeldOK
<1> QED BY <1>4, <1>9

\* Release keeps the invariant.
LEMMA ReleaseKeeps ==
    ASSUME SlotsAssumption, SlotInv, NEW r \in Requests, NEW s \in Stages, Release(r, s)
    PROVE  SlotInv'
<1>1. /\ req \in [Requests -> Request] /\ slots \in [Keys -> SUBSET Members]
      /\ marks \in [Keys -> SUBSET Causes] /\ TypeOK
    BY DEF SlotInv, TypeOK
<1>2. PICK k \in Keys : k = KeyAt(r, s)
    BY <1>1, KeysApart
<1>3. /\ MayRelease(r, s) /\ Released(r, s) /\ wait' = wait
      /\ slots' = [slots EXCEPT ![k] = slots[k] \ {<<r, "own">>}]
      /\ IF TooEarly(r) THEN Mark(k, "cancelled") ELSE marks' = marks
      /\ proc' = proc /\ faults' = faults /\ crashes' = crashes
    BY <1>2 DEF Release, World
<1>4. MarksGrow /\ (TooEarly(r) => "cancelled" \in marks'[k])
    BY <1>1, <1>3, MarkGrows, SameMarks DEF Causes
<1>5. ShapeOK(req'[r]) /\ HeldOK(r)'
    BY <1>2, <1>3, <1>4, GivingBack
<1>6. /\ Moves(r) /\ req'[r].holds = req[r].holds \ {s}
      /\ req'[r].stage = req[r].stage
      /\ req'[r].account = req[r].account /\ req'[r].counted = req[r].counted
    BY <1>1, <1>3, ReleasedFits
<1>7. /\ slots' \in [Keys -> SUBSET Members] /\ \A j \in Keys : j # k => slots'[j] = slots[j]
      /\ slots'[k] = slots[k] \ {<<r, "own">>}
    BY <1>1, <1>3
<1>8. SlotsOK(k) /\ Limit[k] \in Nat
    BY DEF SlotInv, SlotsAssumption
<1>9. SlotsFit(k)'
    <2>1. /\ IsFiniteSet(slots[k] \ {<<r, "own">>})
          /\ Cardinality(slots[k] \ {<<r, "own">>}) <= Limit[k]
        BY <1>8, OneLess DEF SlotsOK, SlotsFit
    <2> QED BY <1>7, <2>1 DEF SlotsFit
<1>10. OwnHeld(k, r)'
    BY <1>7 DEF OwnHeld
<1>11. LeftLost(k, r)'
    BY <1>4, <1>7, <1>8 DEF LeftLost, SlotsOK, MarksGrow
<1>12. \A t \in Stages : KeyAt(r, t)' = KeyAt(r, t) /\ (t # s => KeyAt(r, t) # k)
    <2>1. KeyAt(r, "user") # KeyAt(r, "account")
        BY <1>1, KeysApart
    <2> QED BY <1>2, <1>6, <2>1 DEF KeyAt, Stages
<1>13. HeldOwn(k, r)'
    <2>1. req'[r].holds \subseteq Stages
        BY <1>6 DEF Moves, Request
    <2> QED BY <1>6, <1>12, <2>1 DEF HeldOwn
<1>14. WorldFits
    BY <1>1, <1>3, FaultsFit
<1>15. \A q \in Requests : \A t \in {"own", "left"} :
          q # r => (<<q, t>> \in slots'[k] <=> <<q, t>> \in slots[k])
    BY <1>7
<1>16. \A t \in Stages : KeyAt(r, t) # k => (t \in req'[r].holds <=> t \in req[r].holds)
    BY <1>2, <1>6
<1> QED BY <1>3, <1>4, <1>5, <1>6, <1>7, <1>9, <1>10, <1>11, <1>13, <1>14, <1>15, <1>16, SlotMove

\* ReleaseFails keeps the invariant.
LEMMA ReleaseFailsKeeps ==
    ASSUME SlotsAssumption, SlotInv, NEW r \in Requests, NEW s \in Stages, ReleaseFails(r, s)
    PROVE  SlotInv'
<1>1. /\ req \in [Requests -> Request] /\ slots \in [Keys -> SUBSET Members]
      /\ marks \in [Keys -> SUBSET Causes] /\ TypeOK
    BY DEF SlotInv, TypeOK
<1>2. PICK k \in Keys : k = KeyAt(r, s)
    BY <1>1, KeysApart
<1>3. /\ MayRelease(r, s) /\ Released(r, s) /\ wait' = wait /\ Fault
      /\ slots' = [slots EXCEPT ![k] = Orphaned(slots[k], r)]
      /\ marks' = [marks EXCEPT ![k] = marks[k] \cup {"lost"} \cup
                       (IF TooEarly(r) THEN {"cancelled"} ELSE {})]
      /\ proc' = proc /\ crashes' = crashes
    BY <1>2 DEF ReleaseFails
<1>4. MarksGrow /\ "lost" \in marks'[k] /\ (TooEarly(r) => "cancelled" \in marks'[k])
    BY <1>1, <1>3 DEF Causes, MarksGrow
<1>5. ShapeOK(req'[r]) /\ HeldOK(r)'
    BY <1>2, <1>3, <1>4, GivingBack
<1>6. /\ Moves(r) /\ req'[r].holds = req[r].holds \ {s}
      /\ req'[r].stage = req[r].stage
      /\ req'[r].account = req[r].account /\ req'[r].counted = req[r].counted
    BY <1>1, <1>3, ReleasedFits
<1>7. /\ slots' \in [Keys -> SUBSET Members] /\ \A j \in Keys : j # k => slots'[j] = slots[j]
      /\ slots'[k] = IF <<r, "own">> \in slots[k]
                     THEN (slots[k] \ {<<r, "own">>}) \cup {<<r, "left">>} ELSE slots[k]
    BY <1>1, <1>3 DEF Orphaned, Members
<1>8. SlotsOK(k) /\ Limit[k] \in Nat
    BY DEF SlotInv, SlotsAssumption
<1>9. SlotsFit(k)'
    <2>1. CASE <<r, "own">> \in slots[k]
        <3>1. /\ IsFiniteSet(slots[k] \ {<<r, "own">>})
              /\ Cardinality(slots[k] \ {<<r, "own">>}) < Limit[k]
            BY <1>8, <2>1, OneLess DEF SlotsOK, SlotsFit
        <3>2. /\ IsFiniteSet((slots[k] \ {<<r, "own">>}) \cup {<<r, "left">>})
              /\ Cardinality((slots[k] \ {<<r, "own">>}) \cup {<<r, "left">>}) <= Limit[k]
            BY <1>8, <3>1, RoomForOne
        <3> QED BY <1>7, <2>1, <3>2 DEF SlotsFit
    <2>2. CASE <<r, "own">> \notin slots[k]
        BY <1>7, <1>8, <2>2 DEF SlotsOK, SlotsFit
    <2> QED BY <2>1, <2>2
<1>10. OwnHeld(k, r)'
    BY <1>7 DEF OwnHeld
<1>11. LeftLost(k, r)'
    BY <1>4 DEF LeftLost
<1>12. \A t \in Stages : KeyAt(r, t)' = KeyAt(r, t) /\ (t # s => KeyAt(r, t) # k)
    <2>1. KeyAt(r, "user") # KeyAt(r, "account")
        BY <1>1, KeysApart
    <2> QED BY <1>2, <1>6, <2>1 DEF KeyAt, Stages
<1>13. HeldOwn(k, r)'
    <2>1. req'[r].holds \subseteq Stages
        BY <1>6 DEF Moves, Request
    <2> QED BY <1>6, <1>12, <2>1 DEF HeldOwn
<1>14. WorldFits
    BY <1>1, <1>3, FaultsFit
<1>15. \A q \in Requests : \A t \in {"own", "left"} :
          q # r => (<<q, t>> \in slots'[k] <=> <<q, t>> \in slots[k])
    BY <1>7
<1>16. \A t \in Stages : KeyAt(r, t) # k => (t \in req'[r].holds <=> t \in req[r].holds)
    BY <1>2, <1>6
<1> QED BY <1>3, <1>4, <1>5, <1>6, <1>7, <1>9, <1>10, <1>11, <1>13, <1>14, <1>15, <1>16, SlotMove

---------------------------------------------------------------------------
(* The counters.                                                           *)

\* A request moves and enters or leaves the queue of one key.
LEMMA WaitMove ==
    ASSUME SlotsAssumption, SlotInv, NEW r \in Requests, Moves(r), NEW k \in Keys,
           slots' = slots, wait' \in [Keys -> Nat], MarksGrow, WorldFits,
           req'[r].holds = req[r].holds, req'[r].stage = req[r].stage,
           req'[r].account = req[r].account,
           Key(r) = k, \A j \in Keys : j # k => wait'[j] = wait[j],
           WaitOK(k)', ShapeOK(req'[r]), HeldOK(r)'
    PROVE  SlotInv'
<1>1. TypeOK'
    BY DEF SlotInv, TypeOK, Moves, MarksGrow, WorldFits
<1>2. PlacesOK'
    BY PlacesStay DEF SlotInv
<1>3. \A j \in Keys : SlotsOK(j)'
    BY SlotsStay DEF SlotInv
<1>4. Key(r)' = Key(r)
    BY DEF Key, KeyAt
<1>5. ASSUME NEW j \in Keys PROVE WaitOK(j)'
    <2>1. CASE j = k
        BY <2>1
    <2>2. CASE j # k
        <3>1. Counted(j)' = Counted(j)
            BY <1>4, <2>2, CountedStays
        <3>2. WaitOK(j) /\ marks[j] \subseteq marks'[j] /\ wait'[j] = wait[j]
            BY <2>2 DEF SlotInv, MarksGrow
        <3> QED BY <3>1, <3>2 DEF WaitOK
    <2> QED BY <2>1, <2>2
<1> QED BY <1>1, <1>2, <1>3, <1>5 DEF SlotInv

\* Who is counted once r is, or is no more.
LEMMA CountedMoves ==
    ASSUME NEW r \in Requests, Moves(r), NEW k, Key(r) = k, Key(r)' = k
    PROVE  /\ req'[r].counted => Counted(k)' = Counted(k) \cup {r}
           /\ ~req'[r].counted => Counted(k)' = Counted(k) \ {r}
<1>1. \A q \in Requests : q # r => (q \in Counted(k)' <=> q \in Counted(k))
    BY DEF Moves, Counted, Key, KeyAt
<1>2. r \in Counted(k)' <=> req'[r].counted
    BY DEF Counted
<1>3. Counted(k)' \subseteq Requests /\ Counted(k) \subseteq Requests
    BY DEF Counted
<1> QED BY <1>1, <1>2, <1>3

\* A counter that is a number of requests, one more.
LEMMA OneMoreWaits ==
    ASSUME NEW S, NEW x, x \notin S, IsFiniteSet(S)
    PROVE  IsFiniteSet(S \cup {x}) /\ Cardinality(S \cup {x}) = Cardinality(S) + 1
BY FS_AddElement

\* The other way.
LEMMA OneLessWaits ==
    ASSUME NEW S, NEW x, x \in S, IsFiniteSet(S)
    PROVE  /\ IsFiniteSet(S \ {x}) /\ Cardinality(S \ {x}) = Cardinality(S) - 1
           /\ Cardinality(S) > 0 /\ Cardinality(S) \in Nat
<1>1. IsFiniteSet(S \ {x}) /\ Cardinality(S \ {x}) = Cardinality(S) - 1
    BY FS_RemoveElement
<1>2. Cardinality(S) \in Nat /\ Cardinality(S \ {x}) \in Nat
    BY <1>1, FS_CardinalityType
<1> QED BY <1>1, <1>2

(* r waits, counted.                                                       *)
StartsWaiting(r) ==
    /\ Moves(r) /\ req'[r].pc = "wait" /\ req'[r].counted = TRUE /\ req'[r].live = req[r].live
    /\ req'[r].stage = req[r].stage /\ req'[r].account = req[r].account
    /\ req'[r].holds = req[r].holds

\* A request set to wait does so, and keeps what it has.
LEMMA WaitingFits ==
    ASSUME SlotInv, NEW r \in Requests, req[r].pc = "count", MarksGrow, SlotsAssumption,
           Set(r, [req[r] EXCEPT !.pc = "wait", !.counted = TRUE])
    PROVE  StartsWaiting(r) /\ ShapeOK(req'[r]) /\ HeldOK(r)'
<1>1. ShapeOK(req[r]) /\ HeldOK(r) /\ req[r] \in Request /\ req \in [Requests -> Request]
    BY DEF SlotInv, PlacesOK, TypeOK
<1>2. StartsWaiting(r)
    <2> DEFINE b == [req[r] EXCEPT !.pc = "wait"]
               c == [b EXCEPT !.counted = TRUE]
    <2>1. /\ b \in Request /\ b.pc = "wait" /\ b.live = req[r].live /\ b.stage = req[r].stage
          /\ b.account = req[r].account /\ b.holds = req[r].holds
        BY <1>1 DEF Request
    <2>2. /\ c \in Request /\ c.pc = "wait" /\ c.live = b.live /\ c.stage = b.stage
          /\ c.account = b.account /\ c.holds = b.holds /\ c.counted = TRUE
        BY <2>1 DEF Request
    <2>3. req' = [req EXCEPT ![r] = c]
        BY DEF Set
    <2> HIDE DEF b, c
    <2>4. Moves(r) /\ req'[r] = c
        BY <1>1, <2>2, <2>3 DEF Moves
    <2> QED BY <2>1, <2>2, <2>4 DEF StartsWaiting
<1>3. ShapeOK(req'[r])
    BY <1>1, <1>2 DEF ShapeOK, StartsWaiting
<1>4. HeldOK(r)'
    <2>1. NeedsUser(req'[r]) <=> NeedsUser(req[r])
        BY <1>2 DEF NeedsUser, StartsWaiting
    <2>2. UserOf[r] \in Keys
        BY DEF SlotsAssumption, Keys
    <2> QED BY <1>1, <1>2, <2>1, <2>2 DEF HeldOK, StartsWaiting, MarksGrow
<1> QED BY <1>2, <1>3, <1>4

\* Count keeps the invariant.
LEMMA CountKeeps ==
    ASSUME SlotsAssumption, SlotInv, NEW r \in Requests, Count(r)
    PROVE  SlotInv'
<1>1. TypeOK /\ req \in [Requests -> Request] /\ ShapeOK(req[r])
    BY DEF SlotInv, TypeOK, PlacesOK
<1>2. PICK k \in Keys : k = Key(r)
    BY <1>1, KeysApart
<1>3. /\ req[r].pc = "count" /\ wait[k] < MaxWait[k]
      /\ Set(r, [req[r] EXCEPT !.pc = "wait", !.counted = TRUE])
      /\ wait' = [wait EXCEPT ![k] = wait[k] + 1] /\ slots' = slots /\ marks' = marks
      /\ proc' = proc /\ faults' = faults /\ crashes' = crashes
    BY <1>2 DEF Count, World
<1>4. MarksGrow /\ WorldFits
    BY <1>1, <1>3, SameMarks, FaultsFit
<1>5. StartsWaiting(r) /\ ShapeOK(req'[r]) /\ HeldOK(r)'
    BY <1>3, <1>4, WaitingFits
<1>6. wait[k] \in Nat /\ MaxWait[k] \in Nat /\ wait \in [Keys -> Nat]
    BY <1>1 DEF TypeOK, SlotsAssumption
<1>7. /\ wait' \in [Keys -> Nat] /\ wait'[k] = wait[k] + 1
      /\ \A j \in Keys : j # k => wait'[j] = wait[j]
    BY <1>3, <1>6
<1>8. r \notin Counted(k) /\ Counted(k)' = Counted(k) \cup {r}
    <2>1. Key(r)' = k
        BY <1>2, <1>5 DEF StartsWaiting, Key, KeyAt
    <2>2. ~req[r].counted
        BY <1>1, <1>3 DEF ShapeOK
    <2> QED BY <1>2, <1>5, <2>1, <2>2, CountedMoves DEF StartsWaiting, Counted
<1>9. WaitOK(k)'
    <2> SUFFICES ASSUME marks[k] \cap {"miscounted", "cleaned"} = {}
                 PROVE  /\ IsFiniteSet(Counted(k)') /\ wait'[k] = Cardinality(Counted(k)')
                        /\ wait'[k] <= MaxWait[k]
        BY <1>3 DEF WaitOK
    <2>1. IsFiniteSet(Counted(k)) /\ wait[k] = Cardinality(Counted(k))
        BY DEF WaitOK, SlotInv
    <2>2. IsFiniteSet(Counted(k) \cup {r})
              /\ Cardinality(Counted(k) \cup {r}) = Cardinality(Counted(k)) + 1
        BY <1>8, <2>1, OneMoreWaits
    <2> QED BY <1>3, <1>6, <1>7, <1>8, <2>1, <2>2
<1> QED BY <1>2, <1>3, <1>4, <1>5, <1>7, <1>9, WaitMove DEF StartsWaiting

\* CountFails keeps the invariant.
LEMMA CountFailsKeeps ==
    ASSUME SlotsAssumption, SlotInv, NEW r \in Requests, CountFails(r)
    PROVE  SlotInv'
<1>1. TypeOK /\ req \in [Requests -> Request]
    BY DEF SlotInv, TypeOK
<1>2. PICK k \in Keys : k = Key(r)
    BY <1>1, KeysApart
<1>3. /\ req[r].pc = "count" /\ Mark(k, "miscounted")
      /\ Set(r, [req[r] EXCEPT !.pc = "wait", !.counted = TRUE])
      /\ wait' = wait /\ slots' = slots
      /\ proc' = proc /\ crashes' = crashes /\ (Fault \/ faults' = faults)
    BY <1>2 DEF CountFails
<1>4. MarksGrow /\ "miscounted" \in marks'[k] /\ WorldFits
    BY <1>1, <1>3, MarkGrows, FaultsFit DEF Causes, TypeOK
<1>5. StartsWaiting(r) /\ ShapeOK(req'[r]) /\ HeldOK(r)'
    BY <1>3, <1>4, WaitingFits
<1>6. WaitOK(k)'
    BY <1>4 DEF WaitOK
<1>7. wait' \in [Keys -> Nat]
    BY <1>1, <1>3 DEF TypeOK
<1> QED BY <1>2, <1>3, <1>4, <1>5, <1>6, <1>7, WaitMove DEF StartsWaiting

(* r is counted no more.                                                   *)
StopsWaiting(r) ==
    /\ Moves(r) /\ ~req'[r].counted
    /\ req'[r].stage = req[r].stage /\ req'[r].account = req[r].account
    /\ req'[r].holds = req[r].holds

(* With its slot the request goes on; without, it ends.                    *)
LeavesQueue(r) ==
    \/ /\ req[r].pc = "uncount"
       /\ Set(r, Proceed([req[r] EXCEPT !.counted = FALSE], req[r].stage))
    \/ /\ req[r].pc = "leave"
       /\ Set(r, [req[r] EXCEPT !.pc = "close", !.counted = FALSE])

\* A request that leaves the queue keeps what it has.
LEMMA LeavingFits ==
    ASSUME SlotInv, NEW r \in Requests, MarksGrow, SlotsAssumption, LeavesQueue(r)
    PROVE  StopsWaiting(r) /\ ShapeOK(req'[r]) /\ HeldOK(r)'
<1>1. ShapeOK(req[r]) /\ HeldOK(r) /\ req[r] \in Request /\ req \in [Requests -> Request]
    BY DEF SlotInv, PlacesOK, TypeOK
<1>2. UserOf[r] \in Keys /\ req[r].account \in Keys
    BY <1>1 DEF SlotsAssumption, Keys, Request
<1>3. CASE /\ req[r].pc = "uncount"
           /\ Set(r, Proceed([req[r] EXCEPT !.counted = FALSE], req[r].stage))
    <2>1. PICK st \in Stages : st = req[r].stage
        BY <1>1 DEF Request
    <2> DEFINE c == [req[r] EXCEPT !.counted = FALSE]
    <2>2. /\ c \in Request /\ c.counted = FALSE /\ c.live = req[r].live /\ c.stage = req[r].stage
          /\ c.account = req[r].account /\ c.holds = req[r].holds
        BY <1>1 DEF Request
    <2>3. Set(r, Proceed(c, st))
        BY <1>3, <2>1
    <2> HIDE DEF c
    <2>4. PICK q \in Request : q = c
        BY <2>2
    <2>5. PICK d \in Request :
              /\ d = Proceed(q, st) /\ d.holds = q.holds \cup {st}
              /\ d.pc = IF q.counted THEN "uncount" ELSE IF st = "user" THEN "select" ELSE "run"
              /\ d.stage = q.stage /\ d.account = q.account
              /\ d.counted = q.counted /\ d.live = q.live
        BY ProceedFits
    <2>6. Moves(r) /\ req'[r] = d
        BY <1>1, <2>3, <2>4, <2>5 DEF Set, Moves
    <2>7. st \in req[r].holds
        BY <1>1, <1>3, <2>1 DEF ShapeOK
    <2>8. /\ StopsWaiting(r) /\ req'[r].pc = IF st = "user" THEN "select" ELSE "run"
          /\ req'[r].live = req[r].live
        BY <2>2, <2>4, <2>5, <2>6, <2>7 DEF StopsWaiting
    <2>9. ShapeOK(req'[r])
        BY <1>1, <1>3, <2>1, <2>8 DEF ShapeOK, StopsWaiting, Stages
    <2>10. HeldOK(r)'
        BY <1>1, <1>2, <1>3, <2>1, <2>7, <2>8
           DEF HeldOK, NeedsUser, StopsWaiting, MarksGrow, Stages
    <2> QED BY <2>8, <2>9, <2>10
<1>4. CASE /\ req[r].pc = "leave"
           /\ Set(r, [req[r] EXCEPT !.pc = "close", !.counted = FALSE])
    <2> DEFINE b == [req[r] EXCEPT !.pc = "close"]
               c == [b EXCEPT !.counted = FALSE]
    <2>1. /\ b \in Request /\ b.pc = "close" /\ b.stage = req[r].stage
          /\ b.account = req[r].account /\ b.holds = req[r].holds
        BY <1>1 DEF Request
    <2>2. /\ c \in Request /\ c.pc = "close" /\ c.stage = b.stage
          /\ c.account = b.account /\ c.holds = b.holds /\ c.counted = FALSE
        BY <2>1 DEF Request
    <2>3. req' = [req EXCEPT ![r] = c]
        BY <1>4 DEF Set
    <2> HIDE DEF b, c
    <2>4. Moves(r) /\ req'[r] = c
        BY <1>1, <2>2, <2>3 DEF Moves
    <2>5. StopsWaiting(r) /\ req'[r].pc = "close"
        BY <2>1, <2>2, <2>4 DEF StopsWaiting
    <2>6. ShapeOK(req'[r])
        BY <1>1, <1>4, <2>5 DEF ShapeOK, StopsWaiting
    <2>7. HeldOK(r)'
        BY <2>5 DEF HeldOK, NeedsUser
    <2> QED BY <2>5, <2>6, <2>7
<1> QED BY <1>3, <1>4 DEF LeavesQueue

\* A request that leaves the queue and lowers the counter keeps the invariant.
LEMMA LeavingKeeps ==
    ASSUME SlotsAssumption, SlotInv, NEW r \in Requests, LeavesQueue(r),
           wait' = IF req[r].counted THEN Decremented(Key(r)) ELSE wait,
           slots' = slots, marks' = marks, WorldFits
    PROVE  SlotInv'
<1>1. TypeOK /\ req \in [Requests -> Request]
    BY DEF SlotInv, TypeOK
<1>2. PICK k \in Keys : k = Key(r)
    BY <1>1, KeysApart
<1>3. MarksGrow
    BY <1>1, SameMarks
<1>4. StopsWaiting(r) /\ ShapeOK(req'[r]) /\ HeldOK(r)'
    BY <1>3, LeavingFits
<1>5. Key(r)' = k
    BY <1>2, <1>4 DEF StopsWaiting, Key, KeyAt
<1>6. Counted(k)' = Counted(k) \ {r}
    BY <1>2, <1>4, <1>5, CountedMoves DEF StopsWaiting
<1>7. wait[k] \in Nat /\ MaxWait[k] \in Nat /\ wait \in [Keys -> Nat]
    BY <1>1 DEF TypeOK, SlotsAssumption
<1>8. /\ wait' \in [Keys -> Nat]
      /\ wait'[k] = IF req[r].counted THEN (IF wait[k] > 0 THEN wait[k] - 1 ELSE 0) ELSE wait[k]
      /\ \A j \in Keys : j # k => wait'[j] = wait[j]
    <2>1. CASE req[r].counted
        <3>1. wait' = [wait EXCEPT ![k] = IF wait[k] > 0 THEN wait[k] - 1 ELSE 0]
            BY <1>2, <2>1 DEF Decremented
        <3>2. (IF wait[k] > 0 THEN wait[k] - 1 ELSE 0) \in Nat
            BY <1>7
        <3> QED BY <1>7, <2>1, <3>1, <3>2
    <2>2. CASE ~req[r].counted
        BY <1>7, <2>2
    <2> QED BY <2>1, <2>2
<1>9. WaitOK(k)'
    <2> SUFFICES ASSUME marks[k] \cap {"miscounted", "cleaned"} = {}
                 PROVE  /\ IsFiniteSet(Counted(k)') /\ wait'[k] = Cardinality(Counted(k)')
                        /\ wait'[k] <= MaxWait[k]
        BY DEF WaitOK
    <2>1. IsFiniteSet(Counted(k)) /\ wait[k] = Cardinality(Counted(k)) /\ wait[k] <= MaxWait[k]
        BY DEF WaitOK, SlotInv
    <2>2. CASE req[r].counted
        <3>1. r \in Counted(k)
            BY <1>2, <2>2 DEF Counted
        <3>2. /\ IsFiniteSet(Counted(k) \ {r})
              /\ Cardinality(Counted(k) \ {r}) = Cardinality(Counted(k)) - 1
              /\ Cardinality(Counted(k)) > 0 /\ Cardinality(Counted(k)) \in Nat
            BY <2>1, <3>1, OneLessWaits
        <3>3. wait'[k] = wait[k] - 1
            BY <1>8, <2>1, <2>2, <3>2
        <3> QED BY <1>6, <1>7, <2>1, <3>2, <3>3
    <2>3. CASE ~req[r].counted
        <3>1. Counted(k)' = Counted(k)
            BY <1>6, <2>3 DEF Counted
        <3> QED BY <1>8, <2>1, <2>3, <3>1
    <2> QED BY <2>2, <2>3
<1> QED BY <1>2, <1>3, <1>4, <1>8, <1>9, WaitMove DEF StopsWaiting

\* Uncount keeps the invariant.
LEMMA UncountKeeps ==
    ASSUME SlotsAssumption, SlotInv, NEW r \in Requests, Uncount(r)
    PROVE  SlotInv'
<1>1. LeavesQueue(r) /\ slots' = slots /\ marks' = marks /\ wait' = Decremented(Key(r))
    BY DEF Uncount, LeavesQueue
<1>2. req[r].counted
    BY DEF Uncount, SlotInv, PlacesOK, ShapeOK
<1>3. WorldFits
    BY FaultsFit DEF Uncount, World, SlotInv
<1> QED BY <1>1, <1>2, <1>3, LeavingKeeps

\* Leave keeps the invariant.
LEMMA LeaveKeeps ==
    ASSUME SlotsAssumption, SlotInv, NEW r \in Requests, Leave(r)
    PROVE  SlotInv'
<1>1. LeavesQueue(r) /\ slots' = slots /\ marks' = marks
          /\ wait' = IF req[r].counted THEN Decremented(Key(r)) ELSE wait
    BY DEF Leave, LeavesQueue
<1>2. WorldFits
    BY FaultsFit DEF Leave, World, SlotInv
<1> QED BY <1>1, <1>2, LeavingKeeps

\* UncountFails keeps the invariant.
LEMMA UncountFailsKeeps ==
    ASSUME SlotsAssumption, SlotInv, NEW r \in Requests, UncountFails(r)
    PROVE  SlotInv'
<1>1. TypeOK /\ req \in [Requests -> Request]
    BY DEF SlotInv, TypeOK
<1>2. PICK k \in Keys : k = Key(r)
    BY <1>1, KeysApart
<1>3. /\ Fault /\ Mark(k, "miscounted") /\ slots' = slots /\ wait' = wait
      /\ proc' = proc /\ crashes' = crashes
    BY <1>2 DEF UncountFails
<1>4. LeavesQueue(r)
    <2>1. req[r].pc \in {"uncount", "leave"}
        BY DEF UncountFails
    <2> QED BY <2>1 DEF UncountFails, LeavesQueue
<1>5. MarksGrow /\ "miscounted" \in marks'[k] /\ WorldFits
    BY <1>1, <1>3, MarkGrows, FaultsFit DEF Causes, TypeOK
<1>6. StopsWaiting(r) /\ ShapeOK(req'[r]) /\ HeldOK(r)'
    BY <1>4, <1>5, LeavingFits
<1>7. WaitOK(k)'
    BY <1>5 DEF WaitOK
<1>8. wait' \in [Keys -> Nat]
    BY <1>1, <1>3 DEF TypeOK
<1> QED BY <1>2, <1>3, <1>5, <1>6, <1>7, <1>8, WaitMove DEF StopsWaiting

---------------------------------------------------------------------------
(* Time and processes: no request moves, or those of a process end.        *)

\* Places depend on the marks only as far as these say more.
LEMMA PlacesLast ==
    ASSUME SlotsAssumption, TypeOK, PlacesOK, req' = req, MarksGrow
    PROVE  PlacesOK'
<1> SUFFICES ASSUME NEW q \in Requests PROVE ShapeOK(req[q])' /\ HeldOK(q)'
    BY DEF PlacesOK
<1>1. ShapeOK(req[q]) /\ HeldOK(q)
    BY DEF PlacesOK
<1>2. UserOf[q] \in Keys /\ req[q].account \in Keys
    BY DEF SlotsAssumption, TypeOK, Request, Keys
<1> QED BY <1>1, <1>2 DEF HeldOK, MarksGrow

\* A key whose set nobody touches.
LEMMA SlotsLast ==
    ASSUME NEW k \in Keys, SlotsOK(k), req' = req, MarksGrow, slots'[k] = slots[k]
    PROVE  SlotsOK(k)'
<1>1. marks[k] \subseteq marks'[k]
    BY DEF MarksGrow
<1>2. SlotsFit(k)'
    BY DEF SlotsOK, SlotsFit
<1>3. ASSUME NEW q \in Requests PROVE OwnHeld(k, q)' /\ LeftLost(k, q)' /\ HeldOwn(k, q)'
    BY <1>1 DEF SlotsOK, OwnHeld, LeftLost, HeldOwn, KeyAt
<1> QED BY <1>2, <1>3 DEF SlotsOK

\* A key whose counter nobody touches.
LEMMA WaitsLast ==
    ASSUME NEW k \in Keys, WaitOK(k), req' = req, MarksGrow, wait'[k] = wait[k]
    PROVE  WaitOK(k)'
<1>1. Counted(k)' = Counted(k)
    BY DEF Counted, Key, KeyAt
<1> QED BY <1>1 DEF WaitOK, MarksGrow

\* SlotExpires keeps the invariant: an own member that goes is marked.
LEMMA SlotExpiresKeeps ==
    ASSUME SlotsAssumption, SlotInv, NEW k \in Keys, NEW m \in Members, SlotExpires(k, m)
    PROVE  SlotInv'
<1>1. TypeOK /\ slots \in [Keys -> SUBSET Members] /\ marks \in [Keys -> SUBSET Causes]
    BY DEF SlotInv, TypeOK
<1>2. /\ slots' = [slots EXCEPT ![k] = slots[k] \ {m}] /\ wait' = wait /\ req' = req
      /\ IF m[2] = "own" THEN Mark(k, "expired") ELSE marks' = marks
      /\ proc' = proc /\ faults' = faults /\ crashes' = crashes
    BY DEF SlotExpires, World
<1>3. MarksGrow /\ (m[2] = "own" => "expired" \in marks'[k])
    BY <1>1, <1>2, MarkGrows, SameMarks DEF Causes
<1>4. WorldFits
    BY <1>1, <1>2, FaultsFit
<1>5. /\ slots' \in [Keys -> SUBSET Members] /\ slots'[k] = slots[k] \ {m}
      /\ \A j \in Keys : j # k => slots'[j] = slots[j]
    BY <1>1, <1>2
<1>6. TypeOK'
    BY <1>1, <1>2, <1>3, <1>4, <1>5 DEF TypeOK, MarksGrow, WorldFits
<1>7. PlacesOK'
    BY <1>1, <1>2, <1>3, PlacesLast DEF SlotInv
<1>8. SlotsOK(k)'
    <2>1. SlotsOK(k) /\ Limit[k] \in Nat /\ marks[k] \subseteq marks'[k]
        BY <1>3 DEF SlotInv, SlotsAssumption, MarksGrow
    <2>2. SlotsFit(k)'
        <3>1. IsFiniteSet(slots[k] \ {m}) /\ Cardinality(slots[k] \ {m}) <= Limit[k]
            BY <2>1, OneLess DEF SlotsOK, SlotsFit
        <3> QED BY <1>5, <3>1 DEF SlotsFit
    <2>3. ASSUME NEW q \in Requests PROVE OwnHeld(k, q)' /\ LeftLost(k, q)' /\ HeldOwn(k, q)'
        <3>1. OwnHeld(k, q) /\ LeftLost(k, q) /\ HeldOwn(k, q)
            BY <2>1 DEF SlotsOK
        <3>2. \A s \in req[q].holds : KeyAt(q, s)' = KeyAt(q, s)
            BY <1>2 DEF KeyAt
        <3>3. OwnHeld(k, q)'
            BY <1>2, <1>5, <3>1, <3>2 DEF OwnHeld
        <3>4. LeftLost(k, q)'
            BY <1>5, <2>1, <3>1 DEF LeftLost
        <3>5. m = <<q, "own">> => "expired" \in marks'[k]
            BY <1>3
        <3>6. HeldOwn(k, q)'
            BY <1>2, <1>5, <2>1, <3>1, <3>2, <3>5 DEF HeldOwn
        <3> QED BY <3>3, <3>4, <3>6
    <2> QED BY <2>2, <2>3 DEF SlotsOK
<1>9. ASSUME NEW j \in Keys PROVE SlotsOK(j)'
    <2>1. CASE j = k
        BY <1>8, <2>1
    <2>2. CASE j # k
        BY <1>2, <1>3, <1>5, <2>2, SlotsLast DEF SlotInv
    <2> QED BY <2>1, <2>2
<1>10. \A j \in Keys : WaitOK(j)'
    BY <1>2, <1>3, WaitsLast DEF SlotInv
<1> QED BY <1>6, <1>7, <1>9, <1>10 DEF SlotInv

\* CounterExpires keeps the invariant: nobody is counted, so the counter is right at zero.
LEMMA CounterExpiresKeeps ==
    ASSUME SlotsAssumption, SlotInv, NEW k \in Keys, CounterExpires(k)
    PROVE  SlotInv'
<1>1. TypeOK /\ wait \in [Keys -> Nat]
    BY DEF SlotInv, TypeOK
<1>2. /\ Counted(k) = {} /\ wait' = [wait EXCEPT ![k] = 0] /\ slots' = slots /\ req' = req
      /\ marks' = marks /\ proc' = proc /\ faults' = faults /\ crashes' = crashes
    BY DEF CounterExpires, World
<1>3. MarksGrow /\ WorldFits
    BY <1>1, <1>2, SameMarks, FaultsFit
<1>4. wait' \in [Keys -> Nat] /\ wait'[k] = 0 /\ \A j \in Keys : j # k => wait'[j] = wait[j]
    BY <1>1, <1>2
<1>5. TypeOK'
    BY <1>1, <1>2, <1>3, <1>4 DEF TypeOK, MarksGrow, WorldFits
<1>6. PlacesOK'
    BY <1>1, <1>2, <1>3, PlacesLast DEF SlotInv
<1>7. \A j \in Keys : SlotsOK(j)'
    BY <1>2, <1>3, SlotsLast DEF SlotInv
<1>8. WaitOK(k)'
    <2>1. Counted(k)' = {}
        BY <1>2 DEF Counted, Key, KeyAt
    <2>2. IsFiniteSet({}) /\ Cardinality({}) = 0
        BY FS_EmptySet
    <2>3. 0 <= MaxWait[k]
        BY DEF SlotsAssumption
    <2> QED BY <1>4, <2>1, <2>2, <2>3 DEF WaitOK
<1>9. \A j \in Keys : WaitOK(j)'
    BY <1>2, <1>3, <1>4, <1>8, WaitsLast DEF SlotInv
<1> QED BY <1>5, <1>6, <1>7, <1>9 DEF SlotInv

\* A step that leaves Redis and the requests alone, as Start and CleanFails do.
LEMMA OutsideKeeps ==
    ASSUME SlotsAssumption, SlotInv, slots' = slots, wait' = wait, marks' = marks, req' = req,
           WorldFits
    PROVE  SlotInv'
<1>1. TypeOK
    BY DEF SlotInv
<1>2. MarksGrow
    BY <1>1, SameMarks
<1>3. TypeOK'
    BY <1>1 DEF TypeOK, WorldFits
<1>4. PlacesOK'
    BY <1>1, <1>2, PlacesLast DEF SlotInv
<1>5. \A j \in Keys : SlotsOK(j)' /\ WaitOK(j)'
    BY <1>2, SlotsLast, WaitsLast DEF SlotInv
<1> QED BY <1>3, <1>4, <1>5 DEF SlotInv

\* Start keeps the invariant.
LEMMA StartKeeps ==
    ASSUME SlotsAssumption, SlotInv, NEW i \in Instances, Start(i)
    PROVE  SlotInv'
<1>1. WorldFits
    BY DEF Start, SlotInv, TypeOK, WorldFits, Cleaning
<1> QED BY <1>1, OutsideKeeps DEF Start, Redis

\* CleanFails keeps the invariant.
LEMMA CleanFailsKeeps ==
    ASSUME SlotsAssumption, SlotInv, NEW i \in Instances, CleanFails(i)
    PROVE  SlotInv'
<1>1. proc' \in [Instances -> Cleaning \cup {"up", "down"}]
    BY DEF CleanFails, SlotInv, TypeOK
<1>2. faults' \in 0..MaxFaults
    BY DEF CleanFails, Fault, SlotInv, TypeOK, SlotsAssumption
<1>3. crashes' \in 0..MaxCrashes
    BY DEF CleanFails, SlotInv, TypeOK
<1> QED BY <1>1, <1>2, <1>3, OutsideKeeps DEF CleanFails, Redis, WorldFits

\* Clean keeps the invariant: a set or counter that it empties is marked if it was not empty.
LEMMA CleanKeeps ==
    ASSUME SlotsAssumption, SlotInv, NEW i \in Instances, Clean(i)
    PROVE  SlotInv'
<1>1. /\ TypeOK /\ slots \in [Keys -> SUBSET Members] /\ marks \in [Keys -> SUBSET Causes]
      /\ wait \in [Keys -> Nat]
    BY DEF SlotInv, TypeOK
<1>2. PICK keys \in SUBSET Keys : keys = Cleaned(proc[i])
    BY DEF Cleaned, Keys
<1>3. /\ \/ slots' = [k \in Keys |-> IF k \in keys THEN {} ELSE slots[k]] /\ wait' = wait
         \/ wait' = [k \in Keys |-> IF k \in keys THEN 0 ELSE wait[k]] /\ slots' = slots
      /\ marks' = [k \in Keys |-> IF slots'[k] # slots[k] \/ wait'[k] # wait[k]
                                  THEN marks[k] \cup {"cleaned"} ELSE marks[k]]
      /\ req' = req /\ faults' = faults /\ crashes' = crashes
    BY <1>2 DEF Clean
<1>4. /\ slots' \in [Keys -> SUBSET Members] /\ wait' \in [Keys -> Nat]
      /\ \A k \in Keys : /\ slots'[k] = slots[k] \/ slots'[k] = {}
                         /\ wait'[k] = wait[k] \/ wait'[k] = 0
    <2>1. CASE slots' = [k \in Keys |-> IF k \in keys THEN {} ELSE slots[k]] /\ wait' = wait
        BY <1>1, <2>1
    <2>2. CASE wait' = [k \in Keys |-> IF k \in keys THEN 0 ELSE wait[k]] /\ slots' = slots
        BY <1>1, <2>2
    <2> QED BY <1>3, <2>1, <2>2
<1>5. /\ MarksGrow
      /\ \A k \in Keys : slots'[k] # slots[k] \/ wait'[k] # wait[k] => "cleaned" \in marks'[k]
    BY <1>1, <1>3 DEF MarksGrow, Causes
<1>6. TypeOK'
    <2>1. proc' \in [Instances -> Cleaning \cup {"up", "down"}]
        <3>1. proc[i] \in Cleaning /\ proc' = [proc EXCEPT ![i] = After[proc[i]]]
            BY DEF Clean
        <3>2. After[proc[i]] \in Cleaning \cup {"up", "down"}
            BY <3>1 DEF After, Cleaning
        <3> QED BY <1>1, <3>1, <3>2 DEF TypeOK
    <2> QED BY <1>1, <1>3, <1>4, <1>5, <2>1 DEF TypeOK, MarksGrow
<1>7. PlacesOK'
    BY <1>1, <1>3, <1>5, PlacesLast DEF SlotInv
<1>8. ASSUME NEW k \in Keys PROVE SlotsOK(k)'
    <2>1. CASE slots'[k] = slots[k]
        BY <1>3, <1>5, <2>1, SlotsLast DEF SlotInv
    <2>2. CASE slots'[k] # slots[k]
        <3>1. slots'[k] = {} /\ "cleaned" \in marks'[k] /\ Limit[k] \in Nat
            BY <1>4, <1>5, <2>2 DEF SlotsAssumption
        <3>2. SlotsFit(k)'
            BY <3>1, FS_EmptySet DEF SlotsFit
        <3>3. \A q \in Requests : OwnHeld(k, q)' /\ LeftLost(k, q)' /\ HeldOwn(k, q)'
            BY <3>1 DEF OwnHeld, LeftLost, HeldOwn
        <3> QED BY <3>2, <3>3 DEF SlotsOK
    <2> QED BY <2>1, <2>2
<1>9. ASSUME NEW k \in Keys PROVE WaitOK(k)'
    <2>1. CASE wait'[k] = wait[k]
        BY <1>3, <1>5, <2>1, WaitsLast DEF SlotInv
    <2>2. CASE wait'[k] # wait[k]
        BY <1>5, <2>2 DEF WaitOK
    <2> QED BY <2>1, <2>2
<1> QED BY <1>6, <1>7, <1>8, <1>9 DEF SlotInv

\* A set keeps its size at most when its members are relabelled, as a crash does.
LEMMA Relabelled ==
    ASSUME NEW S, NEW T, NEW f \in [S -> T], \A t \in T : \E x \in S : f[x] = t,
           IsFiniteSet(S), NEW n \in Nat, Cardinality(S) <= n
    PROVE  IsFiniteSet(T) /\ Cardinality(T) <= n
<1>1. f \in Surjection(S, T)
    BY Fun_IsSurj
<1>2. IsFiniteSet(T) /\ Cardinality(T) <= Cardinality(S)
    BY <1>1, FS_Surjection
<1>3. Cardinality(S) \in Nat /\ Cardinality(T) \in Nat
    BY <1>2, FS_CardinalityType
<1> QED BY <1>2, <1>3

\* Crash keeps the invariant: the members of its requests stay behind, marked.
LEMMA CrashKeeps ==
    ASSUME SlotsAssumption, SlotInv, NEW i \in Instances, Crash(i)
    PROVE  SlotInv'
<1>1. /\ TypeOK /\ slots \in [Keys -> SUBSET Members] /\ marks \in [Keys -> SUBSET Causes]
      /\ req \in [Requests -> Request]
    BY DEF SlotInv, TypeOK
<1> DEFINE Gone(r) == req[r].home = i
           New(m) == <<m[1], IF Gone(m[1]) THEN "left" ELSE m[2]>>
<1>2. /\ \A k \in Keys : slots'[k] = {New(m) : m \in slots[k]}
      /\ \A k \in Keys : marks'[k] = marks[k]
             \cup (IF \E r \in Requests : Gone(r) /\ <<r, "own">> \in slots[k] THEN {"lost"} ELSE {})
             \cup (IF \E r \in Counted(k) : Gone(r) THEN {"miscounted"} ELSE {})
      /\ slots' \in [Keys -> SUBSET Members] /\ marks' \in [Keys -> SUBSET Causes]
    <2>1. slots' = [k \in Keys |-> {New(m) : m \in slots[k]}]
        BY DEF Crash
    <2>2. \A k \in Keys : \A m \in slots[k] : New(m) \in Members
        BY <1>1 DEF Members
    <2>3. slots' \in [Keys -> SUBSET Members]
        BY <2>1, <2>2
    <2>4. marks' = [k \in Keys |-> marks[k]
             \cup (IF \E r \in Requests : Gone(r) /\ <<r, "own">> \in slots[k] THEN {"lost"} ELSE {})
             \cup (IF \E r \in Counted(k) : Gone(r) THEN {"miscounted"} ELSE {})]
        BY DEF Crash
    <2>5. marks' \in [Keys -> SUBSET Causes]
        BY <1>1, <2>4 DEF Causes
    <2> HIDE DEF New, Gone
    <2> QED BY <2>1, <2>3, <2>4, <2>5
<1>3. MarksGrow
    BY <1>2 DEF MarksGrow
<1>4. /\ req' \in [Requests -> Request]
      /\ \A r \in Requests : ~Gone(r) => req'[r] = req[r]
      /\ \A r \in Requests : Gone(r) =>
             /\ req'[r].pc = "done" /\ req'[r].stage = "user" /\ req'[r].holds = {}
             /\ ~req'[r].counted /\ ~req'[r].live
    <2>1. req' = [r \in Requests |-> IF Gone(r) THEN Ended(req[r]) ELSE req[r]]
        BY DEF Crash
    <2>2. ASSUME NEW r \in Requests
          PROVE  \E d \in Request : /\ d = Ended(req[r]) /\ d.pc = "done" /\ d.stage = "user"
                     /\ d.holds = {} /\ ~d.counted /\ ~d.live /\ d.account = req[r].account
        <3>1. req[r] \in Request
            BY <1>1
        <3> QED BY <3>1, EndedFits
    <2> HIDE DEF Gone
    <2>3. req' \in [Requests -> Request]
        BY <1>1, <2>1, <2>2
    <2>4. \A r \in Requests : ~Gone(r) => req'[r] = req[r]
        BY <2>1
    <2>5. \A r \in Requests : Gone(r) =>
             /\ req'[r].pc = "done" /\ req'[r].stage = "user" /\ req'[r].holds = {}
             /\ ~req'[r].counted /\ ~req'[r].live
        BY <2>1, <2>2
    <2> QED BY <2>3, <2>4, <2>5
<1>5. WorldFits /\ wait' = wait
    <2>1. proc' \in [Instances -> Cleaning \cup {"up", "down"}]
        BY DEF Crash, SlotInv, TypeOK
    <2>2. crashes' \in 0..MaxCrashes
        BY DEF Crash, SlotInv, TypeOK, SlotsAssumption
    <2>3. faults' \in 0..MaxFaults
        BY DEF Crash, SlotInv, TypeOK
    <2> QED BY <2>1, <2>2, <2>3 DEF WorldFits, Crash
<1>6. TypeOK'
    BY <1>1, <1>2, <1>4, <1>5 DEF TypeOK, WorldFits
<1>7. PlacesOK'
    <2> SUFFICES ASSUME NEW q \in Requests PROVE ShapeOK(req[q])' /\ HeldOK(q)'
        BY DEF PlacesOK
    <2>1. CASE Gone(q)
        <3>1. req'[q].pc = "done" /\ req'[q].stage = "user" /\ req'[q].holds = {}
                  /\ ~req'[q].counted /\ ~req'[q].live
            BY <1>4, <2>1
        <3> QED BY <3>1 DEF ShapeOK, HeldOK, NeedsUser
    <2>2. CASE ~Gone(q)
        <3>1. req'[q] = req[q]
            BY <1>4, <2>2
        <3>2. ShapeOK(req[q]) /\ HeldOK(q)
            BY DEF PlacesOK, SlotInv
        <3>3. UserOf[q] \in Keys /\ req[q].account \in Keys
            BY <1>1 DEF SlotsAssumption, Request, Keys
        <3> QED BY <1>3, <3>1, <3>2, <3>3 DEF HeldOK, MarksGrow
    <2> QED BY <2>1, <2>2
<1>8. ASSUME NEW k \in Keys PROVE SlotsOK(k)'
    <2>1. SlotsOK(k) /\ Limit[k] \in Nat /\ marks[k] \subseteq marks'[k]
          /\ slots[k] \subseteq Members
        BY <1>1, <1>3 DEF SlotInv, SlotsAssumption, MarksGrow
    <2>2. SlotsFit(k)'
        <3>1. PICK S, T : S = slots[k] /\ T = {New(m) : m \in slots[k]}
            OBVIOUS
        <3>2. PICK f : f = [m \in slots[k] |-> New(m)]
            OBVIOUS
        <3> HIDE DEF New
        <3>3. f \in [S -> T] /\ \A t \in T : \E x \in S : f[x] = t
            BY <3>1, <3>2
        <3>4. IsFiniteSet(S) /\ Cardinality(S) <= Limit[k]
            BY <2>1, <3>1 DEF SlotsOK, SlotsFit
        <3>5. IsFiniteSet(T) /\ Cardinality(T) <= Limit[k]
            BY <2>1, <3>3, <3>4, Relabelled
        <3>6. slots'[k] = T
            BY <1>2, <3>1
        <3> QED BY <3>5, <3>6 DEF SlotsFit
    <2>3. ASSUME NEW q \in Requests PROVE OwnHeld(k, q)' /\ LeftLost(k, q)' /\ HeldOwn(k, q)'
        <3>1. OwnHeld(k, q) /\ LeftLost(k, q) /\ HeldOwn(k, q)
            BY <2>1 DEF SlotsOK
        <3>2. \A x \in slots[k] : x[2] \in {"own", "left"} /\ x = <<x[1], x[2]>>
            BY <2>1 DEF Members
        <3>3. <<q, "own">> \in slots'[k] <=> (~Gone(q) /\ <<q, "own">> \in slots[k])
            BY <1>2, <3>2
        <3>4. <<q, "left">> \in slots'[k] =>
                  <<q, "left">> \in slots[k] \/ (Gone(q) /\ <<q, "own">> \in slots[k])
            BY <1>2, <3>2
        <3>5. OwnHeld(k, q)'
            BY <1>4, <3>1, <3>3 DEF OwnHeld, KeyAt
        <3>6. LeftLost(k, q)'
            BY <1>2, <2>1, <3>1, <3>4 DEF LeftLost
        <3>7. HeldOwn(k, q)'
            BY <1>4, <2>1, <3>1, <3>3 DEF HeldOwn, KeyAt
        <3> QED BY <3>5, <3>6, <3>7
    <2> QED BY <2>2, <2>3 DEF SlotsOK
<1>9. ASSUME NEW k \in Keys PROVE WaitOK(k)'
    <2> SUFFICES ASSUME marks'[k] \cap {"miscounted", "cleaned"} = {}
                 PROVE  /\ IsFiniteSet(Counted(k)') /\ wait'[k] = Cardinality(Counted(k)')
                        /\ wait'[k] <= MaxWait[k]
        BY DEF WaitOK
    <2>1. ~\E r \in Counted(k) : Gone(r)
        BY <1>2
    <2>2. \A q \in Requests : (req'[q].counted /\ Key(q)' = k) <=> (req[q].counted /\ Key(q) = k)
        <3> SUFFICES ASSUME NEW q \in Requests
                     PROVE  (req'[q].counted /\ Key(q)' = k) <=> (req[q].counted /\ Key(q) = k)
            OBVIOUS
        <3>1. CASE Gone(q)
            BY <1>4, <2>1, <3>1 DEF Counted
        <3>2. CASE ~Gone(q)
            BY <1>4, <3>2 DEF Key, KeyAt
        <3> QED BY <3>1, <3>2
    <2>3. Counted(k)' = Counted(k)
        BY <2>2 DEF Counted
    <2>4. WaitOK(k) /\ marks[k] \subseteq marks'[k]
        BY <1>3 DEF SlotInv, MarksGrow
    <2> QED BY <1>5, <2>3, <2>4 DEF WaitOK
<1> QED BY <1>6, <1>7, <1>8, <1>9 DEF SlotInv

---------------------------------------------------------------------------
\* The invariant holds at the start.
LEMMA SlotInit ==
    ASSUME SlotsAssumption, Init
    PROVE  SlotInv
<1>1. PICK a \in Accounts : req = [r \in Requests |->
          [pc |-> "new", stage |-> "user", account |-> a, holds |-> {}, counted |-> FALSE,
           live |-> FALSE, moves |-> 0, home |-> NoInstance]]
    BY DEF Init
<1>2. 0 \in 0..MaxSwitches /\ 0 \in 0..MaxFaults /\ 0 \in 0..MaxCrashes
    BY DEF SlotsAssumption
<1>3. req \in [Requests -> Request]
    BY <1>1, <1>2 DEF Request, Stages
<1>4. TypeOK
    BY <1>2, <1>3 DEF TypeOK, Init, Cleaning
<1>5. PlacesOK
    BY <1>1 DEF PlacesOK, ShapeOK, HeldOK, NeedsUser
<1>6. IsFiniteSet({}) /\ Cardinality({}) = 0
    BY FS_EmptySet
<1>7. ASSUME NEW k \in Keys PROVE SlotsOK(k) /\ WaitOK(k)
    <2>1. slots[k] = {} /\ wait[k] = 0 /\ Limit[k] \in Nat /\ MaxWait[k] \in Nat
        BY DEF Init, SlotsAssumption
    <2>2. SlotsFit(k)
        BY <1>6, <2>1 DEF SlotsFit
    <2>3. \A r \in Requests : OwnHeld(k, r) /\ LeftLost(k, r) /\ HeldOwn(k, r)
        BY <1>1, <2>1 DEF OwnHeld, LeftLost, HeldOwn
    <2>4. Counted(k) = {}
        BY <1>1 DEF Counted
    <2> QED BY <1>6, <2>1, <2>2, <2>3, <2>4 DEF SlotsOK, WaitOK
<1> QED BY <1>4, <1>5, <1>7 DEF SlotInv

\* Every step keeps it.
LEMMA SlotStep ==
    ASSUME SlotsAssumption, SlotInv, [Next]_vars
    PROVE  SlotInv'
<1>1. ASSUME NEW r \in Requests, Arrive(r) \/ Cancel(r) \/ GiveUp(r)
      PROVE  SlotInv'
    BY <1>1, ArriveKeeps, CancelKeeps, GiveUpKeeps
<1>2. ASSUME NEW r \in Requests, Call(r)
      PROVE  SlotInv'
    <2>1. CASE Acquire(r) \/ TryIsFull(r) \/ AcquireFails(r) \/ AcquireAnswerLost(r)
        BY <2>1, AcquireKeeps, TryIsFullKeeps, AcquireFailsKeeps, AcquireAnswerLostKeeps
    <2>2. CASE Count(r) \/ QueueIsFull(r) \/ CountFails(r)
        BY <2>2, CountKeeps, QueueIsFullKeeps, CountFailsKeeps
    <2>3. CASE Uncount(r) \/ Leave(r) \/ UncountFails(r)
        BY <2>3, UncountKeeps, LeaveKeeps, UncountFailsKeeps
    <2>4. CASE Select(r) \/ Refuse(r) \/ Finish(r) \/ Goes(r)
        BY <2>4, SelectKeeps, RefuseKeeps, FinishKeeps, GoesKeeps
    <2>5. CASE \E s \in Stages : Release(r, s) \/ ReleaseFails(r, s)
        BY <2>5, ReleaseKeeps, ReleaseFailsKeeps
    <2> QED BY <1>2, <2>1, <2>2, <2>3, <2>4, <2>5 DEF Call
<1>3. ASSUME NEW k \in Keys, CounterExpires(k) \/ \E m \in Members : SlotExpires(k, m)
      PROVE  SlotInv'
    BY <1>3, CounterExpiresKeeps, SlotExpiresKeeps
<1>4. ASSUME NEW i \in Instances, Crash(i) \/ Start(i) \/ Clean(i) \/ CleanFails(i)
      PROVE  SlotInv'
    BY <1>4, CrashKeeps, StartKeeps, CleanKeeps, CleanFailsKeeps
<1>5. CASE UNCHANGED vars
    <2>1. WorldFits
        BY <1>5, FaultsFit DEF vars, SlotInv
    <2> QED BY <1>5, <2>1, OutsideKeeps DEF vars
<1> QED BY <1>1, <1>2, <1>3, <1>4, <1>5 DEF Next

\* The inductive invariant.
LEMMA SlotInvariant == Spec => []SlotInv
<1>1. Init => SlotInv
    BY SlotInit, SlotsAssumption
<1>2. SlotInv /\ [Next]_vars => SlotInv'
    BY SlotStep, SlotsAssumption
<1> QED BY <1>1, <1>2, PTL DEF Spec

\* The requests the supplier works on have a member each.
LEMMA ServedHaveSlots ==
    ASSUME SlotsAssumption, SlotInv
    PROVE  LimitKept
<1> SUFFICES ASSUME NEW k \in Keys, marks[k] \cap {"expired", "cleaned", "cancelled"} = {}
             PROVE  Cardinality(Served(k)) <= Limit[k]
    BY DEF LimitKept
<1>1. SlotsOK(k) /\ Limit[k] \in Nat
    BY DEF SlotInv, SlotsAssumption
<1>2. ASSUME NEW r \in Served(k) PROVE <<r, "own">> \in slots[k]
    <2>1. r \in Requests /\ req[r].pc = "run" /\ \E s \in Stages : k = KeyAt(r, s)
        BY DEF Served
    <2>2. PICK s \in Stages : k = KeyAt(r, s)
        BY <2>1
    <2>3. ShapeOK(req[r]) /\ HeldOK(r)
        BY <2>1 DEF SlotInv, PlacesOK
    <2>4. s \in req[r].holds
        BY <2>1, <2>2, <2>3 DEF ShapeOK, HeldOK, NeedsUser, KeyAt, Stages
    <2> QED BY <1>1, <2>1, <2>2, <2>4 DEF SlotsOK, HeldOwn
<1>3. PICK S, T : S = Served(k) /\ T = slots[k]
    OBVIOUS
<1>4. PICK f : f = [r \in S |-> <<r, "own">>]
    OBVIOUS
<1>5. f \in [S -> T] /\ \A x, y \in S : f[x] = f[y] => x = y
    BY <1>2, <1>3, <1>4
<1>6. f \in Injection(S, T)
    BY <1>5, Fun_IsInj
<1>7. IsFiniteSet(T) /\ Cardinality(T) <= Limit[k]
    BY <1>1, <1>3 DEF SlotsOK, SlotsFit
<1>8. IsFiniteSet(S) /\ Cardinality(S) <= Cardinality(T)
    BY <1>6, <1>7, FS_Injection
<1>9. Cardinality(S) \in Nat /\ Cardinality(T) \in Nat
    BY <1>7, <1>8, FS_CardinalityType
<1> QED BY <1>1, <1>3, <1>7, <1>8, <1>9

\* The supplier works on no more requests of a user or an account than its concurrency, and no
\* more wait for a key than its maximum, but for the causes the statements name.
THEOREM LimitsHold == Spec => []SlotLimits
<1>1. SlotInv => SlotLimits
    <2> SUFFICES ASSUME SlotInv PROVE SlotLimits
        OBVIOUS
    <2>1. LimitKept
        BY ServedHaveSlots, SlotsAssumption
    <2>2. WaitBounded
        BY DEF WaitBounded, SlotInv, WaitOK
    <2> QED BY <2>1, <2>2 DEF SlotLimits, SlotInv
<1> QED BY <1>1, SlotInvariant, PTL

\* No way out of the handler leaves a slot behind or a counter wrong, but for a failed call, a lost
\* answer, a process that ended or one that starts.
THEOREM ExitsLeaveNothing == Spec => []NothingLeaks
<1>1. SlotInv => NothingLeaks
    <2> SUFFICES ASSUME SlotInv PROVE NothingLeaks
        OBVIOUS
    <2>1. WaitMatches
        BY DEF WaitMatches, SlotInv, WaitOK
    <2>2. ASSUME NEW k \in Keys, "lost" \notin marks[k], NEW m \in slots[k]
          PROVE  m[2] = "own" /\ InUse(m[1], k)
        <3>1. SlotsOK(k) /\ slots[k] \subseteq Members
            BY DEF SlotInv, TypeOK
        <3>2. PICK r \in Requests, t \in {"own", "left"} : m = <<r, t>>
            BY <3>1 DEF Members
        <3>3. t = "own"
            BY <2>2, <3>1, <3>2 DEF SlotsOK, LeftLost
        <3>4. PICK s \in req[r].holds : KeyAt(r, s) = k
            BY <2>2, <3>1, <3>2, <3>3 DEF SlotsOK, OwnHeld
        <3>5. ShapeOK(req[r]) /\ req[r] \in Request
            BY DEF SlotInv, PlacesOK, TypeOK
        <3>6. s \in Stages /\ Open(r)
            BY <3>4, <3>5 DEF ShapeOK, Open, Request
        <3> QED BY <3>2, <3>3, <3>4, <3>6 DEF InUse
    <2>3. NoSlotLeaks
        BY <2>2 DEF NoSlotLeaks
    <2> QED BY <2>1, <2>3 DEF NothingLeaks
<1> QED BY <1>1, SlotInvariant, PTL
=============================================================================
