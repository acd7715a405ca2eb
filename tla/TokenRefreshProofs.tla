-------------------------- MODULE TokenRefreshProofs --------------------------
(***************************************************************************)
(* Proofs about TokenRefresh, for any processes, callers, generations and  *)
(* faults: who refreshes at one time, where the live refresh token is, and *)
(* in what order pairs reach the row; and, at the end, about the queue of  *)
(* user messages (UserMsgQueue).                                           *)
(***************************************************************************)
EXTENDS MCTokenRefresh, FiniteSetTheorems, TLAPS

-----------------------------------------------------------------------------
(* The inductive invariant. *)

UnderLock == {"reread", "refresh", "recover", "persist"}

\* What the place of a caller says of it.
PlaceOK(q, c) ==
    /\ c.got # 0 <=> c.pc \in {"persist", "save"}
    /\ q \in Administrators => c.pc \in {"idle", "refresh", "save", "drop"}
    /\ q \in Administrators /\ c.pc # "idle" => "unlocked" \in causes
    /\ c.pc \in {"save", "drop"} => q \in Administrators
    /\ c.locked => q \notin Administrators /\ c.pc \in UnderLock \cup {"release"}
    /\ q \notin Administrators /\ c.pc \in UnderLock => c.locked \/ "degraded" \in causes
    /\ c.pc = "rejected" => causes # {}
    /\ c.pc = "release" /\ c.next = "rejected" => causes # {}
    /\ c.pc = "recover" => c.fresh.gen < live
    /\ c.pc = "save" => c.fresh.gen + 1 = c.got

PlacesOK == \A q \in Procs : PlaceOK(q, p[q])

\* The two locks.
MutexOK == \A q \in Procs \ Administrators : p[q].pc \in InApi => mutex[InstanceOf[q]] = q
LockOK ==
    /\ \A q \in Procs : p[q].locked => redis \/ "slow" \in causes
    /\ \A q, r \in Procs : p[q].locked /\ p[r].locked /\ q # r => "slow" \in causes

\* The account objects in the row and in the callers' hands.
Objects == {NewAccount, row} \cup {p[q].acct : q \in Procs} \cup {p[q].fresh : q \in Procs}

\* None is ahead of the supplier, and a later generation has no lower version.
Ordered ==
    /\ \A a \in Objects : a.ver <= a.gen /\ a.gen <= live
    /\ \A a, b \in Objects : a.gen <= b.gen => a.ver <= b.ver

\* A pair that is still to be stored is the live one, and nobody else has it.
Pending ==
    \A q \in Procs : p[q].got # 0 =>
        /\ p[q].got = live
        /\ \A a \in Objects : a.gen < live
        /\ \A r \in Procs : p[r].got # 0 => r = q

Inv ==
    /\ TypeOK /\ PlacesOK /\ MutexOK /\ LockOK /\ Ordered /\ Pending
    /\ LiveTokenKept /\ DisabledWithCause

-----------------------------------------------------------------------------

LEMMA InitInv == Init => Inv
<1> SUFFICES ASSUME Init PROVE Inv
    OBVIOUS
<1>1. /\ NewAccount \in Accounts /\ NewAccount.gen = 1 /\ NewAccount.ver = 0
      /\ NewAccount.status = "active"
    BY RefreshAssumption DEF NewAccount, Accounts, Generations
<1>2. /\ IdleCaller \in Caller /\ IdleCaller.pc = "idle" /\ IdleCaller.got = 0
      /\ IdleCaller.acct = NewAccount /\ IdleCaller.fresh = NewAccount
      /\ IdleCaller.locked = FALSE
    BY <1>1, RefreshAssumption DEF IdleCaller, Caller
<1>3. \A q \in Procs : p[q] = IdleCaller
    BY DEF Init
<1>4. TypeOK
  <2>1. mutex \in [Instances -> Procs \cup {NoOne}]
      BY DEF Init
  <2>2. p \in [Procs -> Caller]
      BY <1>2 DEF Init
  <2>3. live \in Generations /\ aged \in 0..MaxGen /\ cache \in 0..MaxGen
        /\ faults \in 0..MaxFaults
      BY RefreshAssumption DEF Init, Generations
  <2>4. QED  BY <1>1, <2>1, <2>2, <2>3 DEF TypeOK, Init, Causes
<1>5. PlacesOK /\ MutexOK /\ LockOK
    BY <1>2, <1>3 DEF PlacesOK, PlaceOK, UnderLock, MutexOK, LockOK, InApi
<1>6. Objects = {NewAccount}
    BY <1>2, <1>3 DEF Objects, Init
<1>7. Ordered /\ Pending
    BY <1>1, <1>2, <1>3, <1>6 DEF Ordered, Pending, Init
<1>8. LiveTokenKept /\ DisabledWithCause
    BY <1>1 DEF LiveTokenKept, DisabledWithCause, Init
<1>9. QED  BY <1>4, <1>5, <1>7, <1>8 DEF Inv

-----------------------------------------------------------------------------
(* Frames. *)

\* An object with the generation and the version of one that is there.
Known(a) == \E b \in Objects : b.gen = a.gen /\ b.ver = a.ver

LEMMA ObjectsTyped ==
    ASSUME TypeOK
    PROVE  /\ \A a \in Objects : a \in Accounts /\ a.gen \in Nat /\ a.ver \in Nat
           /\ live \in Nat /\ row \in Objects /\ NewAccount \in Objects
           /\ \A q \in Procs : p[q].acct \in Objects /\ p[q].fresh \in Objects
<1>1. NewAccount \in Accounts
    BY RefreshAssumption DEF NewAccount, Accounts, Generations
<1>2. \A q \in Procs : p[q] \in Caller
    BY DEF TypeOK
<1>3. \A q \in Procs : p[q].acct \in Accounts /\ p[q].fresh \in Accounts
    BY <1>2 DEF Caller
<1>4. \A a \in Objects : a \in Accounts
    BY <1>1, <1>3 DEF Objects, TypeOK
<1>5. \A a \in Accounts : a.gen \in Nat /\ a.ver \in Nat
    BY RefreshAssumption DEF Accounts, Generations
<1>6. live \in Nat
    BY RefreshAssumption DEF TypeOK, Generations
<1>7. QED  BY <1>4, <1>5, <1>6 DEF Objects

\* The callers but q stay where they are.
Alone(q) == p' \in [Procs -> Caller] /\ \A s \in Procs \ {q} : p'[s] = p[s]

\* The tokens when no pair is issued or stored.
LEMMA TokensStay ==
    ASSUME Inv, NEW q \in Procs, Alone(q), live' = live, Known(row'),
           Known(p'[q].acct), Known(p'[q].fresh), p'[q].got = p[q].got
    PROVE  Ordered' /\ Pending'
<1>1. \A a \in Objects' : Known(a)
  <2>1. Known(NewAccount) /\ Known(row) /\ \A s \in Procs : Known(p[s].acct) /\ Known(p[s].fresh)
      BY DEF Known, Objects
  <2>2. \A s \in Procs : Known(p'[s].acct) /\ Known(p'[s].fresh)
      BY <2>1 DEF Alone
  <2>3. ASSUME NEW a \in Objects' PROVE Known(a)
      BY <2>1, <2>2 DEF Objects
  <2>4. QED  BY <2>3
<1>2. \A s \in Procs : p'[s].got = p[s].got
    BY DEF Alone
<1>3. Ordered'
    BY <1>1 DEF Inv, Ordered, Known
<1>4. Pending'
  <2>1. Pending
      BY DEF Inv
  <2>2. ASSUME NEW s \in Procs, p[s].got # 0, NEW a \in Objects' PROVE a.gen < live
      BY <1>1, <2>1, <2>2 DEF Pending, Known
  <2>3. QED  BY <1>2, <2>1, <2>2 DEF Pending
<1>5. QED  BY <1>3, <1>4

LEMMA FaultsTyped ==
    ASSUME TypeOK, Fault \/ faults' = faults
    PROVE  faults' \in 0 .. MaxFaults
BY RefreshAssumption DEF TypeOK, Fault

\* A step of one caller that takes or leaves no lock and issues or stores no
\* pair.
Quiet(q) ==
    /\ Alone(q) /\ UNCHANGED <<live, aged, redis, mutex>>
    /\ cache' \in 0 .. MaxGen /\ (Fault \/ faults' = faults)
    /\ causes \subseteq causes' /\ causes' \subseteq Causes
    /\ row' \in Accounts /\ row'.gen = row.gen /\ row'.ver = row.ver
    /\ row'.status = row.status \/ causes' # {}

LEMMA OthersPlaceOK ==
    ASSUME Inv, NEW q \in Procs, Alone(q), causes \subseteq causes', live' \in Nat,
           live <= live', NEW s \in Procs \ {q}
    PROVE  PlaceOK(s, p[s])'
<1>1. PlaceOK(s, p[s]) /\ p'[s] = p[s] /\ live \in Nat /\ p[s].fresh.gen \in Nat
    BY ObjectsTyped DEF Inv, PlacesOK, Alone
<1>2. PlaceOK(s, p[s])'
    BY <1>1 DEF PlaceOK
<1>3. QED  BY <1>2

LEMMA QuietStep ==
    ASSUME Inv, NEW q \in Procs, Quiet(q),
           Known(p'[q].acct), Known(p'[q].fresh), p'[q].got = p[q].got,
           p'[q].locked = p[q].locked,
           q \notin Administrators /\ p'[q].pc \in InApi => p[q].pc \in InApi,
           PlaceOK(q, p[q])'
    PROVE  Inv'
<1>1. TypeOK'
    BY FaultsTyped DEF Inv, TypeOK, Quiet, Alone
<1>2. PlacesOK'
  <2>1. live' \in Nat /\ live <= live'
      BY ObjectsTyped DEF Inv, Quiet
  <2>2. \A s \in Procs \ {q} : PlaceOK(s, p[s])'
      BY <2>1, OthersPlaceOK DEF Quiet
  <2>3. QED  BY <2>2 DEF PlacesOK
<1>3. MutexOK' /\ LockOK'
    BY DEF Inv, MutexOK, LockOK, Quiet, Alone
<1>4. Ordered' /\ Pending'
  <2>1. Known(row')
      BY DEF Known, Objects, Quiet
  <2>2. QED  BY <2>1, TokensStay DEF Quiet
<1>5. LiveTokenKept'
    BY DEF Inv, LiveTokenKept, Quiet, Alone
<1>6. DisabledWithCause'
    BY DEF Inv, DisabledWithCause, Quiet
<1>7. QED  BY <1>1, <1>2, <1>3, <1>4, <1>5, <1>6 DEF Inv

-----------------------------------------------------------------------------
(* How a caller moves. *)

Places == InApi \cup {"idle", "listed", "lookup", "enter", "wait", "post", "failed", "rejected",
                      "check", "fill", "send", "denied", "rewrite", "pause", "save", "drop"}
Nexts == {"idle", "wait", "post", "failed", "rejected", "check"}

\* What a move that changes neither objects nor tokens leaves as it is.
SameTokens(q) ==
    /\ p'[q].acct = p[q].acct /\ p'[q].fresh = p[q].fresh
    /\ p'[q].got = p[q].got /\ p'[q].locked = p[q].locked

LEMMA GotoMoves ==
    ASSUME TypeOK, NEW q \in Procs, NEW pc, pc \in Places, Goto(q, pc)
    PROVE  Alone(q) /\ SameTokens(q) /\ p'[q].pc = pc /\ p'[q].next = p[q].next
<1> DEFINE c == [p[q] EXCEPT !.pc = pc]
<1>1. p[q] \in Caller /\ p \in [Procs -> Caller]
    BY DEF TypeOK
<1>2. /\ c \in Caller /\ c.pc = pc /\ c.acct = p[q].acct /\ c.fresh = p[q].fresh
      /\ c.got = p[q].got /\ c.locked = p[q].locked /\ c.next = p[q].next
    BY <1>1 DEF Caller, Places
<1>3. p' = [p EXCEPT ![q] = c]
    BY DEF Goto
<1> HIDE DEF c
<1>4. QED  BY <1>1, <1>2, <1>3 DEF Alone, SameTokens

LEMMA SendMoves ==
    ASSUME TypeOK, NEW q \in Procs, NEW gen, gen \in 0 .. MaxGen, Send(q, gen)
    PROVE  Alone(q) /\ SameTokens(q) /\ p'[q].pc = "send" /\ p'[q].next = p[q].next
<1> DEFINE c == [p[q] EXCEPT !.pc = "send", !.used = gen]
<1>1. p[q] \in Caller /\ p \in [Procs -> Caller]
    BY DEF TypeOK
<1>2. /\ c \in Caller /\ c.pc = "send" /\ c.acct = p[q].acct /\ c.fresh = p[q].fresh
      /\ c.got = p[q].got /\ c.locked = p[q].locked /\ c.next = p[q].next
    BY <1>1 DEF Caller
<1>3. p' = [p EXCEPT ![q] = c]
    BY DEF Send
<1> HIDE DEF c
<1>4. QED  BY <1>1, <1>2, <1>3 DEF Alone, SameTokens

LEMMA ReturnMoves ==
    ASSUME TypeOK, NEW q \in Procs, NEW next, next \in Nexts, Return(q, next)
    PROVE  Alone(q) /\ SameTokens(q) /\ p'[q].pc = "release" /\ p'[q].next = next
<1> DEFINE c == [p[q] EXCEPT !.pc = "release", !.next = next]
<1>1. p[q] \in Caller /\ p \in [Procs -> Caller]
    BY DEF TypeOK
<1>2. /\ c \in Caller /\ c.pc = "release" /\ c.acct = p[q].acct /\ c.fresh = p[q].fresh
      /\ c.got = p[q].got /\ c.locked = p[q].locked /\ c.next = next
    BY <1>1 DEF Caller, InApi, Nexts
<1>3. p' = [p EXCEPT ![q] = c]
    BY DEF Return
<1> HIDE DEF c
<1>4. QED  BY <1>1, <1>2, <1>3 DEF Alone, SameTokens

LEMMA FinishMoves ==
    ASSUME TypeOK, NEW q \in Procs, Finish(q)
    PROVE  /\ Alone(q) /\ p'[q].pc = "idle" /\ p'[q].got = 0 /\ p'[q].locked = FALSE
           /\ p'[q].acct = NewAccount /\ p'[q].fresh = NewAccount /\ p'[q].next = "idle"
<1>1. NewAccount \in Accounts
    BY ObjectsTyped
<1>2. /\ IdleCaller \in Caller /\ IdleCaller.pc = "idle" /\ IdleCaller.got = 0
      /\ IdleCaller.locked = FALSE /\ IdleCaller.acct = NewAccount
      /\ IdleCaller.fresh = NewAccount /\ IdleCaller.next = "idle"
    BY <1>1, RefreshAssumption DEF IdleCaller, Caller
<1>3. p \in [Procs -> Caller] /\ p' = [p EXCEPT ![q] = IdleCaller]
    BY DEF TypeOK, Finish
<1>4. QED  BY <1>2, <1>3 DEF Alone

LEMMA JudgeMoves ==
    ASSUME TypeOK, NEW q \in Procs, NEW a, a \in Accounts, NEW shared, shared \in BOOLEAN,
           Judge(q, a, shared)
    PROVE  /\ Alone(q) /\ p'[q].pc \in {"refresh", "release"}
           /\ p'[q].next \in {"idle", "check"} /\ p'[q].acct = p[q].acct /\ p'[q].fresh = a
           /\ p'[q].got = p[q].got /\ p'[q].locked = p[q].locked
<1> DEFINE c == [p[q] EXCEPT !.pc = IF NeedsRefresh(a) THEN "refresh" ELSE "release",
                             !.next = UnchangedNext(q), !.fresh = a, !.shared = shared]
<1>1. p[q] \in Caller /\ p \in [Procs -> Caller]
    BY DEF TypeOK
<1>2. /\ c \in Caller /\ c.pc \in {"refresh", "release"} /\ c.next \in {"idle", "check"}
      /\ c.acct = p[q].acct /\ c.fresh = a /\ c.got = p[q].got /\ c.locked = p[q].locked
    BY <1>1 DEF Caller, InApi, UnchangedNext
<1>3. p' = [p EXCEPT ![q] = c]
    BY DEF Judge
<1> HIDE DEF c
<1>4. QED  BY <1>1, <1>2, <1>3 DEF Alone

\* What is known of caller q.
LEMMA Before ==
    ASSUME Inv, NEW q \in Procs
    PROVE  /\ TypeOK /\ PlaceOK(q, p[q]) /\ p[q] \in Caller
           /\ \A a \in Objects : Known(a)
           /\ Known(p[q].acct) /\ Known(p[q].fresh) /\ Known(row) /\ Known(NewAccount)
<1>1. TypeOK /\ PlaceOK(q, p[q]) /\ p[q] \in Caller
    BY DEF Inv, PlacesOK, TypeOK
<1>2. QED  BY <1>1, ObjectsTyped DEF Known

-----------------------------------------------------------------------------
(* Quiet actions. *)

\* A caller outside the two locks ends.
LEMMA FinishStep ==
    ASSUME Inv, NEW q \in Procs, Finish(q), p[q].got = 0, p[q].locked = FALSE,
           UNCHANGED <<live, aged, redis, mutex>>,
           cache' \in 0 .. MaxGen, Fault \/ faults' = faults,
           causes \subseteq causes', causes' \subseteq Causes,
           row' \in Accounts, row'.gen = row.gen, row'.ver = row.ver,
           row'.status = row.status \/ causes' # {}
    PROVE  Inv'
<1>1. TypeOK /\ Known(NewAccount) /\ PlaceOK(q, p[q])
    BY Before
<1>2. /\ Alone(q) /\ p'[q].pc = "idle" /\ p'[q].got = 0 /\ p'[q].locked = FALSE
      /\ p'[q].acct = NewAccount /\ p'[q].fresh = NewAccount
    BY <1>1, FinishMoves
<1>3. PlaceOK(q, p[q])'
    BY <1>2 DEF PlaceOK, UnderLock
<1>4. Quiet(q) /\ "idle" \notin InApi
    BY <1>2 DEF Quiet, InApi
<1>5. QED  BY <1>1, <1>2, <1>3, <1>4, QuietStep

\* The places before and after the API.
Plain == {"idle", "listed", "lookup", "enter", "wait", "post", "failed", "check", "fill",
          "send", "denied", "rewrite", "pause"}

LEMMA PlainStep ==
    ASSUME Inv, NEW q \in Procs, q \notin Administrators, Quiet(q),
           p[q].pc \in Plain, p'[q].pc \in Plain,
           Known(p'[q].acct), Known(p'[q].fresh), p'[q].got = p[q].got,
           p'[q].locked = p[q].locked
    PROVE  Inv'
<1>1. PlaceOK(q, p[q])
    BY Before
<1>2. p[q].got = 0 /\ ~p[q].locked
    BY <1>1 DEF PlaceOK, Plain, UnderLock
<1>3. PlaceOK(q, p[q])'
    BY <1>2 DEF PlaceOK, Plain, UnderLock
<1>4. p'[q].pc \notin InApi
    BY DEF Plain, InApi
<1>5. QED  BY <1>3, <1>4, QuietStep

\* The frame of an action that changes nothing but its caller, the cache and
\* the pause of the row.
Untouched ==
    /\ UNCHANGED <<live, aged, redis, mutex, causes>>
    /\ cache' \in 0 .. MaxGen /\ (Fault \/ faults' = faults)
    /\ row' \in Accounts /\ row'.gen = row.gen /\ row'.ver = row.ver /\ row'.status = row.status

LEMMA Same ==
    ASSUME TypeOK, Keep, UNCHANGED <<row, redis, mutex, causes>>,
           cache' \in 0 .. MaxGen, Fault \/ faults' = faults
    PROVE  Untouched
BY DEF TypeOK, Keep, Untouched

LEMMA Paused ==
    ASSUME TypeOK, Keep, NEW b \in BOOLEAN, row' = [row EXCEPT !.paused = b],
           UNCHANGED <<redis, mutex, causes>>,
           cache' \in 0 .. MaxGen, Fault \/ faults' = faults
    PROVE  Untouched
<1>1. row \in Accounts
    BY DEF TypeOK
<1>2. row' \in Accounts /\ row'.gen = row.gen /\ row'.ver = row.ver /\ row'.status = row.status
    BY <1>1 DEF Accounts
<1>3. QED  BY <1>2 DEF TypeOK, Keep, Untouched

LEMMA MoveStep ==
    ASSUME Inv, NEW q \in Procs, Untouched, p[q].pc \in Plain, q \notin Administrators,
           \/ Finish(q)
           \/ \E pc \in Plain : Goto(q, pc)
           \/ \E gen \in 0 .. MaxGen : Send(q, gen)
    PROVE  Inv'
<1>1. TypeOK /\ PlaceOK(q, p[q]) /\ Known(p[q].acct) /\ Known(p[q].fresh)
    BY Before
<1>2. CASE Finish(q)
  <2>1. p[q].got = 0 /\ p[q].locked = FALSE
    <3>1. p[q].locked \in BOOLEAN
        BY Before DEF Caller
    <3>2. QED  BY <1>1, <3>1 DEF PlaceOK, Plain, UnderLock
  <2>2. causes' \subseteq Causes
      BY <1>1 DEF TypeOK, Untouched
  <2>3. QED  BY <1>2, <2>1, <2>2, FinishStep DEF Untouched
<1>3. ASSUME Alone(q), SameTokens(q), p'[q].pc \in Plain PROVE Inv'
  <2>1. Quiet(q)
      BY <1>1, <1>3 DEF Quiet, Untouched, TypeOK
  <2>2. QED  BY <1>1, <1>3, <2>1, PlainStep DEF SameTokens
<1>4. ASSUME NEW pc \in Plain, Goto(q, pc) PROVE Inv'
  <2>1. pc \in Places
      BY DEF Plain, Places
  <2>2. QED  BY <1>1, <1>3, <1>4, <2>1, GotoMoves
<1>5. ASSUME NEW gen \in 0 .. MaxGen, Send(q, gen) PROVE Inv'
    BY <1>1, <1>3, <1>5, SendMoves DEF Plain
<1>6. QED  BY <1>2, <1>4, <1>5

\* Where a caller of a kind can be.
LEMMA PlainCaller ==
    ASSUME Inv, NEW q \in Procs, p[q].pc \in Plain \ {"idle"}
    PROVE  q \notin Administrators
BY Before DEF PlaceOK, Plain

LEMMA ServiceStep ==
    ASSUME Inv, NEW q \in Procs,
           Consider(q) \/ PostRefresh(q) \/ Retry(q) \/ GiveUp(q)
    PROVE  Inv'
<1>1. TypeOK /\ p[q].pc \in Plain \ {"idle"}
    BY Before DEF Consider, PostRefresh, Retry, GiveUp, Plain
<1>2. q \notin Administrators
    BY <1>1, PlainCaller
<1>3. cache \in 0 .. MaxGen /\ 0 \in 0 .. MaxGen
    BY <1>1, RefreshAssumption DEF TypeOK
<1>4. CASE Consider(q)
  <2>1. Untouched
      BY <1>1, <1>3, <1>4, Same DEF Consider
  <2>2. Finish(q) \/ \E pc \in Plain : Goto(q, pc)
      BY <1>4 DEF Consider, Plain
  <2>3. QED  BY <1>1, <1>2, <2>1, <2>2, MoveStep
<1>5. CASE PostRefresh(q)
  <2>1. PICK b \in BOOLEAN : row' = [row EXCEPT !.paused = b]
    <3>1. row.paused \in BOOLEAN
        BY <1>1 DEF TypeOK, Accounts
    <3>2. QED  BY <1>5, <3>1 DEF PostRefresh
  <2>2. cache' \in 0 .. MaxGen /\ (Fault \/ faults' = faults)
      BY <1>3, <1>5 DEF PostRefresh
  <2>3. Untouched
      BY <1>1, <1>5, <2>1, <2>2, Paused DEF PostRefresh
  <2>4. QED  BY <1>1, <1>2, <1>5, <2>3, MoveStep DEF PostRefresh
<1>6. CASE Retry(q)
  <2>1. Untouched
      BY <1>1, <1>3, <1>6, Same DEF Retry
  <2>2. \E pc \in Plain : Goto(q, pc)
      BY <1>6 DEF Retry, Plain
  <2>3. QED  BY <1>1, <1>2, <2>1, <2>2, MoveStep
<1>7. CASE GiveUp(q)
  <2>1. Untouched
      BY <1>1, <1>3, <1>7, Paused DEF GiveUp
  <2>2. QED  BY <1>1, <1>2, <1>7, <2>1, MoveStep DEF GiveUp
<1>8. QED  BY <1>4, <1>5, <1>6, <1>7

LEMMA RequestStep ==
    ASSUME Inv, NEW q \in Procs,
           \/ Lookup(q) \/ Wait(q) \/ CheckTokenVersion(q) \/ SetAccessToken(q)
           \/ Answer(q) \/ InvalidateToken(q)
    PROVE  Inv'
<1>1. TypeOK /\ p[q].pc \in Plain \ {"idle"} /\ p[q] \in Caller
    BY Before DEF Lookup, Wait, CheckTokenVersion, SetAccessToken, Answer,
                  InvalidateToken, Plain
<1>2. q \notin Administrators
    BY <1>1, PlainCaller
<1>3. /\ cache \in 0 .. MaxGen /\ 0 \in 0 .. MaxGen
      /\ p[q].fresh.gen \in 0 .. MaxGen /\ row.gen \in 0 .. MaxGen
    BY <1>1, RefreshAssumption DEF TypeOK, Caller, Accounts, Generations
<1>4. Untouched
  <2>1. cache' \in 0 .. MaxGen /\ (Fault \/ faults' = faults)
      BY <1>3 DEF Lookup, Wait, CheckTokenVersion, SetAccessToken, Answer, InvalidateToken
  <2>2. Keep /\ UNCHANGED <<row, redis, mutex, causes>>
      BY DEF Lookup, Wait, CheckTokenVersion, SetAccessToken, Answer, InvalidateToken
  <2>3. QED  BY <1>1, <2>1, <2>2, Same
<1>5. \/ Finish(q)
      \/ \E pc \in Plain : Goto(q, pc)
      \/ \E gen \in 0 .. MaxGen : Send(q, gen)
    BY <1>3 DEF Lookup, Wait, CheckTokenVersion, SetAccessToken, Answer,
                  InvalidateToken, Plain
<1>6. QED  BY <1>1, <1>2, <1>4, <1>5, MoveStep

LEMMA PauseStep ==
    ASSUME Inv, NEW q \in Procs, SetTempUnschedulable(q) PROVE Inv'
<1>1. TypeOK /\ p[q].pc \in Plain \ {"idle"}
    BY Before DEF SetTempUnschedulable, Plain
<1>2. q \notin Administrators
    BY <1>1, PlainCaller
<1>3. Untouched
    BY <1>1, Paused DEF SetTempUnschedulable, TypeOK
<1>4. QED  BY <1>1, <1>2, <1>3, MoveStep DEF SetTempUnschedulable

LEMMA SetErrorStep ==
    ASSUME Inv, NEW q \in Procs, SetError(q) PROVE Inv'
<1>1. TypeOK /\ PlaceOK(q, p[q]) /\ p[q].pc = "rejected" /\ p[q].locked \in BOOLEAN
    BY Before DEF SetError, Caller
<1>2. p[q].got = 0 /\ p[q].locked = FALSE /\ causes # {}
    BY <1>1 DEF PlaceOK, UnderLock
<1>3. row' \in Accounts /\ row'.gen = row.gen /\ row'.ver = row.ver
  <2>1. row \in Accounts /\ (row' = row \/ row' = [row EXCEPT !.status = "error"])
      BY <1>1 DEF SetError, TypeOK
  <2>2. QED  BY <2>1 DEF Accounts
<1>4. Finish(q) /\ UNCHANGED <<live, aged, cache, redis, mutex, causes>>
      /\ (Fault \/ faults' = faults)
    BY DEF SetError, Keep
<1>5. causes' \subseteq Causes /\ cache' \in 0 .. MaxGen
    BY <1>1, <1>4 DEF TypeOK
<1>6. QED  BY <1>2, <1>3, <1>4, <1>5, FinishStep

\* A caller takes the account object of the row.
LEMMA TakeStep ==
    ASSUME Inv, NEW q \in Procs, List(q) \/ Select(q) PROVE Inv'
<1>1. TypeOK /\ PlaceOK(q, p[q]) /\ p[q] \in Caller /\ p \in [Procs -> Caller]
      /\ Known(p[q].fresh) /\ Known(row) /\ row \in Accounts
    BY Before DEF TypeOK
<1>2. q \notin Administrators /\ p[q].pc = "idle"
    BY RefreshAssumption DEF List, Select
<1>3. Alone(q) /\ p'[q].pc \in Plain /\ p'[q].acct = row /\ p'[q].fresh \in {row, p[q].fresh}
      /\ p'[q].got = p[q].got /\ p'[q].locked = p[q].locked
  <2>1. CASE List(q)
    <3> DEFINE c == [p[q] EXCEPT !.pc = "listed", !.acct = row]
    <3>1. /\ c \in Caller /\ c.pc = "listed" /\ c.acct = row /\ c.fresh = p[q].fresh
          /\ c.got = p[q].got /\ c.locked = p[q].locked
        BY <1>1 DEF Caller
    <3>2. p' = [p EXCEPT ![q] = c]
        BY <2>1 DEF List
    <3> HIDE DEF c
    <3>3. QED  BY <1>1, <3>1, <3>2 DEF Alone, Plain
  <2>2. CASE Select(q)
    <3> DEFINE c == [p[q] EXCEPT !.pc = "lookup", !.acct = row, !.fresh = row]
    <3>1. /\ c \in Caller /\ c.pc = "lookup" /\ c.acct = row /\ c.fresh = row
          /\ c.got = p[q].got /\ c.locked = p[q].locked
        BY <1>1 DEF Caller
    <3>2. p' = [p EXCEPT ![q] = c]
        BY <2>2 DEF Select
    <3> HIDE DEF c
    <3>3. QED  BY <1>1, <3>1, <3>2 DEF Alone, Plain
  <2>3. QED  BY <2>1, <2>2
<1>4. Quiet(q)
  <2>1. UNCHANGED <<live, aged, row, cache, redis, mutex, faults, causes>>
      BY DEF List, Select, Keep
  <2>2. QED  BY <1>1, <1>3, <2>1 DEF Quiet, TypeOK
<1>5. "idle" \in Plain /\ Known(p'[q].acct) /\ Known(p'[q].fresh)
    BY <1>1, <1>3 DEF Plain
<1>6. QED  BY <1>2, <1>3, <1>4, <1>5, PlainStep

-----------------------------------------------------------------------------
(* Inside the API. *)

LEMMA AcquireFailsStep ==
    ASSUME Inv, NEW q \in Procs, AcquireFails(q) PROVE Inv'
<1>1. TypeOK /\ PlaceOK(q, p[q]) /\ Known(p[q].acct) /\ Known(p[q].fresh)
      /\ p[q].pc = "lock" /\ "reread" \in Places /\ Goto(q, "reread")
    BY Before DEF AcquireFails, Places, InApi
<1>2. Alone(q) /\ SameTokens(q) /\ p'[q].pc = "reread"
    BY <1>1, GotoMoves
<1>3. Quiet(q) /\ "degraded" \in causes'
    BY <1>1, <1>2 DEF AcquireFails, Keep, Quiet, TypeOK, Causes
<1>4. PlaceOK(q, p[q])'
    BY <1>1, <1>2, <1>3 DEF PlaceOK, UnderLock, SameTokens
<1>5. QED  BY <1>1, <1>2, <1>3, <1>4, QuietStep DEF SameTokens, InApi

LEMMA RereadStep ==
    ASSUME Inv, NEW q \in Procs, Reread(q) \/ RereadFails(q) PROVE Inv'
<1>1. TypeOK /\ PlaceOK(q, p[q]) /\ Known(p[q].acct) /\ Known(row)
      /\ p[q].pc = "reread" /\ p[q].acct \in Accounts /\ row \in Accounts
    BY Before DEF Reread, RereadFails, Caller, TypeOK
<1>2. /\ Alone(q) /\ p'[q].pc \in {"refresh", "release"} /\ p'[q].next \in {"idle", "check"}
      /\ p'[q].acct = p[q].acct /\ p'[q].fresh \in {row, p[q].acct}
      /\ p'[q].got = p[q].got /\ p'[q].locked = p[q].locked
    BY <1>1, JudgeMoves DEF Reread, RereadFails
<1>3. /\ UNCHANGED <<live, aged, row, cache, redis, mutex, causes>>
      /\ Fault \/ faults' = faults
    BY DEF Reread, RereadFails, Keep
<1>4. Quiet(q)
    BY <1>1, <1>2, <1>3 DEF Quiet, TypeOK
<1>5. PlaceOK(q, p[q])'
    BY <1>1, <1>2, <1>3 DEF PlaceOK, UnderLock
<1>6. QED  BY <1>1, <1>2, <1>4, <1>5, QuietStep DEF InApi

LEMMA ErrorNexts ==
    ASSUME NEW q, NEW kind, kind \in {"failed", "rejected"}
    PROVE  ErrorNext(q, kind) \in {kind, "check", "idle"} /\ ErrorNext(q, kind) \in Nexts
BY DEF ErrorNext, Nexts

\* The two locks, and what is left when neither was lost.
LEMMA Exclusion == ASSUME Inv PROVE OneRefreshAtATime
<1>1. ASSUME NEW q \in Procs, NEW r \in Procs, q # r, Working(q), Working(r)
      PROVE  /\ InstanceOf[q] # InstanceOf[r]
             /\ causes \cap {"slow", "degraded"} # {}
  <2>1. /\ q \notin Administrators /\ r \notin Administrators
        /\ p[q].pc \in InApi \cap UnderLock /\ p[r].pc \in InApi \cap UnderLock
      BY <1>1 DEF Working, InApi, UnderLock
  <2>2. mutex[InstanceOf[q]] = q /\ mutex[InstanceOf[r]] = r
      BY <2>1 DEF Inv, MutexOK
  <2>3. p[q].locked \/ "degraded" \in causes
      BY <2>1, Before DEF PlaceOK
  <2>4. p[r].locked \/ "degraded" \in causes
      BY <2>1, Before DEF PlaceOK
  <2>5. p[q].locked /\ p[r].locked => "slow" \in causes
      BY <1>1 DEF Inv, LockOK
  <2>6. QED  BY <1>1, <2>2, <2>3, <2>4, <2>5
<1>2. QED  BY <1>1 DEF OneRefreshAtATime

\* A rejected token that is still in the row was lost to somebody, or is
\* being replaced by somebody, which takes a cause as well.
LEMMA RejectedForACause ==
    ASSUME Inv, NEW q \in Procs, p[q].pc = "recover", row.gen = p[q].fresh.gen
    PROVE  causes # {}
<1>1. SUFFICES ASSUME causes = {} PROVE FALSE
    OBVIOUS
<1>2. PlaceOK(q, p[q]) /\ q \notin Administrators
    BY Before DEF PlaceOK
<1>3. row.gen < live /\ live \in Nat /\ row.gen \in Nat
    BY <1>2, ObjectsTyped DEF PlaceOK, Inv
<1>4. PICK r \in Procs : p[r].got = live
    BY <1>1, <1>3 DEF Inv, LiveTokenKept
<1>5. PlaceOK(r, p[r]) /\ p[r].got # 0
    BY <1>3, <1>4, Before
<1>6. p[r].pc = "persist" /\ r \notin Administrators /\ r # q
    BY <1>1, <1>2, <1>5 DEF PlaceOK
<1>7. Working(q) /\ Working(r)
    BY <1>2, <1>6 DEF Working
<1>8. QED  BY <1>1, <1>6, <1>7, Exclusion DEF OneRefreshAtATime

LEMMA RecoverStep ==
    ASSUME Inv, NEW q \in Procs, Recover(q) \/ RecoverFails(q) PROVE Inv'
<1>1. TypeOK /\ PlaceOK(q, p[q]) /\ Known(p[q].acct) /\ Known(p[q].fresh) /\ Known(row)
      /\ p[q].pc = "recover" /\ p[q] \in Caller /\ p \in [Procs -> Caller] /\ row \in Accounts
    BY Before DEF Recover, RecoverFails, TypeOK
<1>2. /\ UNCHANGED <<live, aged, row, cache, redis, mutex>>
      /\ (Fault \/ faults' = faults)
      /\ causes' \in {causes, causes \cup {"blind"}}
    BY DEF Recover, RecoverFails, Keep
<1>3. ASSUME Alone(q), p'[q].pc = "release", p'[q].next = "rejected" => causes' # {},
             p'[q].acct = p[q].acct, p'[q].fresh \in {p[q].fresh, row},
             p'[q].got = p[q].got, p'[q].locked = p[q].locked
      PROVE  Inv'
  <2>1. Quiet(q)
      BY <1>1, <1>2, <1>3 DEF Quiet, TypeOK, Causes
  <2>2. PlaceOK(q, p[q])'
      BY <1>1, <1>2, <1>3 DEF PlaceOK, UnderLock
  <2>3. QED  BY <1>1, <1>3, <2>1, <2>2, QuietStep DEF InApi
<1>4. ASSUME Return(q, ErrorNext(q, "rejected")), causes' # {} PROVE Inv'
  <2>1. ErrorNext(q, "rejected") \in Nexts
      BY ErrorNexts
  <2>2. QED  BY <1>1, <1>3, <1>4, <2>1, ReturnMoves DEF SameTokens
<1>5. CASE RecoverFails(q)
    BY <1>4, <1>5 DEF RecoverFails
<1>6. CASE Recover(q) /\ row.gen = p[q].fresh.gen
  <2>1. causes # {}
      BY <1>1, <1>6, RejectedForACause
  <2>2. QED  BY <1>2, <1>4, <1>6, <2>1 DEF Recover
<1>7. CASE Recover(q) /\ row.gen # p[q].fresh.gen
  <2> DEFINE c == [p[q] EXCEPT !.pc = "release", !.next = UnchangedNext(q), !.fresh = row]
  <2>1. /\ c \in Caller /\ c.pc = "release" /\ c.next # "rejected" /\ c.fresh = row
        /\ c.acct = p[q].acct /\ c.got = p[q].got /\ c.locked = p[q].locked
      BY <1>1 DEF Caller, InApi, UnchangedNext
  <2>2. p' = [p EXCEPT ![q] = c]
      BY <1>7 DEF Recover
  <2> HIDE DEF c
  <2>3. QED  BY <1>1, <1>3, <2>1, <2>2 DEF Alone
<1>8. QED  BY <1>5, <1>6, <1>7

-----------------------------------------------------------------------------
(* The supplier issues a pair. *)

LEMMA IssueStep ==
    ASSUME Inv, NEW q \in Procs, Alone(q), p[q].fresh.gen = live, live < MaxGen, live' = live + 1,
           UNCHANGED <<aged, row, cache, redis, mutex>>, Fault \/ faults' = faults,
           causes \subseteq causes', causes' \subseteq Causes,
           Known(p'[q].acct), Known(p'[q].fresh), p[q].got = 0,
           p'[q].got = live + 1 \/ (p'[q].got = 0 /\ "lost" \in causes'),
           p'[q].locked = p[q].locked,
           q \notin Administrators /\ p'[q].pc \in InApi => p[q].pc \in InApi,
           PlaceOK(q, p[q])'
    PROVE  Inv'
<1>0. live \in Nat /\ live' \in Generations /\ live' \in Nat /\ live <= live'
    BY ObjectsTyped, RefreshAssumption DEF Inv, TypeOK, Generations
<1>1. TypeOK'
    BY <1>0, FaultsTyped DEF Inv, TypeOK, Alone
<1>2. PlacesOK'
  <2>1. \A s \in Procs \ {q} : PlaceOK(s, p[s])'
      BY <1>0, OthersPlaceOK
  <2>2. QED  BY <2>1 DEF PlacesOK
<1>3. MutexOK' /\ LockOK'
    BY DEF Inv, MutexOK, LockOK, Alone
<1>4. \A s \in Procs : p[s].got = 0
  <2>1. p[q].fresh \in Objects /\ ~(live < live)
      BY <1>0, ObjectsTyped DEF Inv
  <2>2. QED  BY <2>1 DEF Inv, Pending
<1>5. \A a \in Objects' : Known(a)
  <2>1. Known(NewAccount) /\ Known(row) /\ \A s \in Procs : Known(p[s].acct) /\ Known(p[s].fresh)
      BY DEF Known, Objects
  <2>2. \A s \in Procs : Known(p'[s].acct) /\ Known(p'[s].fresh)
      BY <2>1 DEF Alone
  <2>3. ASSUME NEW a \in Objects' PROVE Known(a)
      BY <2>1, <2>2 DEF Objects
  <2>4. QED  BY <2>3
<1>6. \A a \in Objects : a.gen \in Nat /\ a.ver \in Nat
    BY ObjectsTyped DEF Inv
<1>7. Ordered'
  <2>1. Ordered
      BY DEF Inv
  <2>2. ASSUME NEW a \in Objects' PROVE a.ver <= a.gen /\ a.gen <= live'
      BY <1>0, <1>5, <1>6, <2>1, <2>2 DEF Ordered, Known
  <2>3. ASSUME NEW a \in Objects', NEW b \in Objects', a.gen <= b.gen PROVE a.ver <= b.ver
      BY <1>5, <2>1, <2>3 DEF Ordered, Known
  <2>4. QED  BY <2>2, <2>3 DEF Ordered
<1>8. Pending'
  <2>1. ASSUME NEW a \in Objects' PROVE a.gen < live'
      BY <1>0, <1>5, <1>6, <2>1 DEF Ordered, Known, Inv
  <2>2. \A s \in Procs \ {q} : p'[s].got = 0
      BY <1>4 DEF Alone
  <2>3. QED  BY <2>1, <2>2 DEF Pending
<1>9. LiveTokenKept'
    BY DEF LiveTokenKept
<1>10. DisabledWithCause'
    BY DEF Inv, DisabledWithCause
<1>11. QED  BY <1>1, <1>2, <1>3, <1>7, <1>8, <1>9, <1>10 DEF Inv

LEMMA RefreshStep ==
    ASSUME Inv, NEW q \in Procs, q \notin Administrators, Refresh(q) PROVE Inv'
<1>1. TypeOK /\ PlaceOK(q, p[q]) /\ Known(p[q].acct) /\ Known(p[q].fresh)
      /\ p[q].pc = "refresh" /\ p[q] \in Caller /\ p \in [Procs -> Caller]
      /\ live \in Nat /\ p[q].fresh.gen \in Nat /\ p[q].fresh.gen <= live
    BY Before, ObjectsTyped DEF Refresh, TypeOK, Inv, Ordered
<1>2. p[q].got = 0 /\ "refresh" \in InApi /\ "refresh" \notin {"persist", "save"}
    BY <1>1 DEF PlaceOK, InApi
<1>3. CASE p[q].fresh.gen = live
  <2> DEFINE c == [p[q] EXCEPT !.pc = "persist", !.got = live + 1]
  <2>1. live < MaxGen /\ live' = live + 1 /\ p' = [p EXCEPT ![q] = c]
        /\ UNCHANGED <<aged, row, cache, redis, mutex, faults, causes>>
      BY <1>3 DEF Refresh
  <2>2. live + 1 \in 0 .. MaxGen
      BY <1>1, <2>1, RefreshAssumption
  <2>3. /\ c \in Caller /\ c.pc = "persist" /\ c.got = live + 1 /\ c.acct = p[q].acct
        /\ c.fresh = p[q].fresh /\ c.locked = p[q].locked
      BY <1>1, <2>2 DEF Caller, InApi
  <2> HIDE DEF c
  <2>4. /\ Alone(q) /\ p'[q].pc = "persist" /\ p'[q].got = live + 1 /\ p'[q].acct = p[q].acct
        /\ p'[q].fresh = p[q].fresh /\ p'[q].locked = p[q].locked
      BY <1>1, <2>1, <2>3 DEF Alone
  <2>5. PlaceOK(q, p[q])'
      BY <1>1, <2>1, <2>4 DEF PlaceOK, UnderLock
  <2>6. causes \subseteq causes' /\ causes' \subseteq Causes /\ Known(p'[q].acct)
        /\ Known(p'[q].fresh)
      BY <1>1, <2>1, <2>4 DEF TypeOK
  <2>7. QED  BY <1>1, <1>2, <1>3, <2>1, <2>4, <2>5, <2>6, IssueStep
<1>4. CASE p[q].fresh.gen # live
  <2>1. live' = live /\ Goto(q, "recover") /\ "recover" \in Places
        /\ UNCHANGED <<aged, row, cache, redis, mutex, faults, causes>>
      BY <1>4 DEF Refresh, Places, InApi
  <2>2. Alone(q) /\ SameTokens(q) /\ p'[q].pc = "recover"
      BY <1>1, <2>1, GotoMoves
  <2>3. Quiet(q)
      BY <1>1, <2>1, <2>2 DEF Quiet, TypeOK
  <2>4. p[q].fresh.gen < live
      BY <1>1, <1>4
  <2>5. PlaceOK(q, p[q])'
      BY <1>1, <2>1, <2>2, <2>4 DEF PlaceOK, UnderLock, SameTokens
  <2>6. QED  BY <1>1, <1>2, <2>2, <2>3, <2>5, QuietStep DEF SameTokens
<1>5. QED  BY <1>3, <1>4

LEMMA RefreshFailsStep ==
    ASSUME Inv, NEW q \in Procs, q \notin Administrators, RefreshFails(q) PROVE Inv'
<1>1. TypeOK /\ PlaceOK(q, p[q]) /\ Known(p[q].acct) /\ Known(p[q].fresh)
      /\ p[q].pc = "refresh" /\ live \in Nat
      /\ UNCHANGED <<aged, row, cache, redis, mutex>> /\ Fault
    BY Before, ObjectsTyped DEF RefreshFails, Inv
<1>2. p[q].got = 0 /\ "refresh" \in InApi
    BY <1>1 DEF PlaceOK, InApi
<1>3. ErrorNext(q, "failed") \in Nexts /\ ErrorNext(q, "failed") # "rejected"
    BY ErrorNexts
<1>4. Alone(q) /\ SameTokens(q) /\ p'[q].pc = "release" /\ p'[q].next # "rejected"
    BY <1>1, <1>3, ReturnMoves DEF RefreshFails
<1>5. causes \subseteq causes' /\ causes' \subseteq Causes
    BY <1>1 DEF RefreshFails, TypeOK, Causes
<1>6. PlaceOK(q, p[q])'
    BY <1>1, <1>4, <1>5 DEF PlaceOK, UnderLock, SameTokens
<1>7. CASE live' = live
  <2>1. Quiet(q)
      BY <1>1, <1>4, <1>5, <1>7 DEF Quiet, TypeOK
  <2>2. QED  BY <1>1, <1>2, <1>4, <1>6, <2>1, QuietStep DEF SameTokens
<1>8. CASE live' # live
  <2>1. p[q].fresh.gen = live /\ live < MaxGen /\ live' = live + 1 /\ "lost" \in causes'
      BY <1>8 DEF RefreshFails
  <2>2. QED  BY <1>1, <1>2, <1>4, <1>5, <1>6, <2>1, IssueStep DEF SameTokens
<1>9. QED  BY <1>7, <1>8

-----------------------------------------------------------------------------
(* A pair is stored. *)

\* An object that is there, or the pair of version v that was waiting.
Stored(a, v) == Known(a) \/ (a.gen = live /\ a.ver = v)

LEMMA StoreStep ==
    ASSUME Inv, NEW q \in Procs, Alone(q), p[q].got # 0, p'[q].got = 0,
           UNCHANGED <<live, aged, cache, redis, mutex>>, Fault \/ faults' = faults,
           causes \subseteq causes', causes' \subseteq Causes,
           NEW v \in Nat, v <= live, \A a \in Objects : a.ver <= v,
           row' \in Accounts, row'.status = row.status,
           Stored(row', v), Stored(p'[q].acct, v), Stored(p'[q].fresh, v),
           row'.gen = live \/ "lost" \in causes',
           p'[q].locked = p[q].locked,
           q \notin Administrators /\ p'[q].pc \in InApi => p[q].pc \in InApi,
           PlaceOK(q, p[q])'
    PROVE  Inv'
<1>1. live \in Nat /\ \A a \in Objects : a.gen \in Nat /\ a.ver \in Nat /\ a.gen < live
    BY ObjectsTyped DEF Inv, Pending
<1>2. TypeOK'
    BY FaultsTyped DEF Inv, TypeOK, Alone
<1>3. PlacesOK'
  <2>1. \A s \in Procs \ {q} : PlaceOK(s, p[s])'
      BY <1>1, OthersPlaceOK
  <2>2. QED  BY <2>1 DEF PlacesOK
<1>4. MutexOK' /\ LockOK'
    BY DEF Inv, MutexOK, LockOK, Alone
<1>5. \A a \in Objects' : Stored(a, v)
  <2>1. Known(NewAccount) /\ \A s \in Procs : Known(p[s].acct) /\ Known(p[s].fresh)
      BY DEF Known, Objects
  <2>2. \A s \in Procs : Stored(p'[s].acct, v) /\ Stored(p'[s].fresh, v)
      BY <2>1 DEF Alone, Stored
  <2>3. ASSUME NEW a \in Objects' PROVE Stored(a, v)
      BY <2>1, <2>2 DEF Objects, Stored
  <2>4. QED  BY <2>3
<1>6. Ordered'
  <2>1. Ordered
      BY DEF Inv
  <2>2. ASSUME NEW a \in Objects' PROVE a.ver <= a.gen /\ a.gen <= live'
      BY <1>1, <1>5, <2>1, <2>2 DEF Ordered, Known, Stored
  <2>3. ASSUME NEW a \in Objects', NEW b \in Objects', a.gen <= b.gen PROVE a.ver <= b.ver
    <3>1. Stored(a, v) /\ Stored(b, v)
        BY <1>5
    <3>2. CASE Known(b)
      <4>1. ~(a.gen = live)
          BY <1>1, <2>3, <3>2 DEF Known
      <4>2. Known(a)
          BY <3>1, <4>1 DEF Stored
      <4>3. QED  BY <2>1, <2>3, <3>2, <4>2 DEF Ordered, Known
    <3>3. CASE b.ver = v
        BY <3>1, <3>3 DEF Stored, Known
    <3>4. QED  BY <3>1, <3>2, <3>3 DEF Stored
  <2>4. QED  BY <2>2, <2>3 DEF Ordered
<1>7. Pending'
    BY DEF Inv, Pending, Alone
<1>8. LiveTokenKept' /\ DisabledWithCause'
    BY DEF Inv, LiveTokenKept, DisabledWithCause
<1>9. QED  BY <1>2, <1>3, <1>4, <1>6, <1>7, <1>8 DEF Inv

\* What a caller with a pair knows.
LEMMA Waiting ==
    ASSUME Inv, NEW q \in Procs, p[q].got # 0
    PROVE  /\ p[q].got = live /\ live \in Nat /\ live \in Generations
           /\ \A a \in Objects : a.gen < live /\ a.ver < live
           /\ row.gen < live /\ row.ver < live
<1>1. live \in Nat /\ live \in Generations /\ p[q].got = live
    BY ObjectsTyped DEF Inv, Pending, TypeOK
<1>2. \A a \in Objects : a.gen < live /\ a.ver < live
    BY ObjectsTyped DEF Inv, Pending, Ordered
<1>3. QED  BY <1>1, <1>2, ObjectsTyped DEF Inv

LEMMA HeldMoves ==
    ASSUME Inv, NEW q \in Procs, p[q].pc = "persist", NEW next, next \in Nexts,
           p' = [p EXCEPT ![q] = [Held(q) EXCEPT !.next = next]]
    PROVE  /\ Alone(q) /\ p'[q].pc = "release" /\ p'[q].got = 0 /\ p'[q].next = next
           /\ p'[q].locked = p[q].locked
           /\ Stored(p'[q].fresh, live) /\ Stored(p'[q].acct, live)
<1>1. /\ TypeOK /\ PlaceOK(q, p[q]) /\ p[q] \in Caller /\ p \in [Procs -> Caller]
      /\ Known(p[q].acct) /\ p[q].got # 0 /\ p[q].fresh \in Accounts
    BY Before DEF TypeOK, PlaceOK, Caller
<1>2. p[q].got = live /\ live \in Generations /\ live \in 0 .. MaxGen
    BY <1>1, Waiting DEF Generations
<1> DEFINE new == Refreshed(p[q].fresh, p[q].got)
           mine == IF p[q].shared THEN new ELSE p[q].acct
           c == [Held(q) EXCEPT !.next = next]
<1>3. new \in Accounts /\ new.gen = live /\ new.ver = live
    BY <1>1, <1>2 DEF Refreshed, Accounts
<1>4. /\ c = [p[q] EXCEPT !.pc = "release", !.fresh = new, !.got = 0, !.acct = mine,
                         !.next = next]
      /\ mine \in Accounts /\ mine \in {new, p[q].acct}
    BY <1>1, <1>3 DEF Held, Caller
<1> HIDE DEF new, mine, c
<1>5. /\ c \in Caller /\ c.pc = "release" /\ c.got = 0 /\ c.next = next
      /\ c.locked = p[q].locked /\ c.fresh = new /\ c.acct = mine
  <2>1. p[q] \in Caller /\ new \in Accounts /\ mine \in Accounts /\ next \in Nexts
        /\ 0 \in 0 .. MaxGen
      BY <1>1, <1>3, <1>4, RefreshAssumption
  <2>2. /\ c.pc = "release" /\ c.got = 0 /\ c.next = next
        /\ c.locked = p[q].locked /\ c.fresh = new /\ c.acct = mine
      BY <1>4, <2>1 DEF Caller
  <2>3. c \in Caller
      BY <1>4, <2>1 DEF Caller, InApi, Nexts
  <2>4. QED  BY <2>2, <2>3
<1>6. p' = [p EXCEPT ![q] = c]
    BY DEF c
<1>7. Alone(q) /\ p'[q] = c
    BY <1>1, <1>5, <1>6 DEF Alone
<1>8. QED  BY <1>1, <1>3, <1>4, <1>5, <1>7 DEF Stored

LEMMA PersistStep ==
    ASSUME Inv, NEW q \in Procs, Persist(q) \/ PersistFails(q) PROVE Inv'
<1>1. /\ TypeOK /\ PlaceOK(q, p[q]) /\ p[q].pc = "persist" /\ p[q].got # 0
      /\ p[q].got = live /\ live \in Generations /\ live \in Nat
      /\ Known(row) /\ row \in Accounts
      /\ \A a \in Objects : a.ver <= live /\ a.ver \in Nat
  <2>1. TypeOK /\ PlaceOK(q, p[q]) /\ p[q].pc = "persist" /\ Known(row) /\ row \in Accounts
      BY Before DEF Persist, PersistFails, TypeOK
  <2>2. p[q].got # 0
      BY <2>1 DEF PlaceOK
  <2>3. QED  BY <2>1, <2>2, Waiting, ObjectsTyped
<1>2. PICK next \in {"post", "check", "failed", "idle"} :
          p' = [p EXCEPT ![q] = [Held(q) EXCEPT !.next = next]]
    BY ErrorNexts DEF Persist, PersistFails, SuccessNext
<1>3. next \in Nexts /\ next # "rejected"
    BY DEF Nexts
<1>4. /\ Alone(q) /\ p'[q].pc = "release" /\ p'[q].got = 0 /\ p'[q].next = next
      /\ p'[q].locked = p[q].locked
      /\ Stored(p'[q].fresh, live) /\ Stored(p'[q].acct, live)
    BY <1>1, <1>2, <1>3, HeldMoves
<1>5. /\ UNCHANGED <<live, aged, cache, redis, mutex>> /\ (Fault \/ faults' = faults)
      /\ causes \subseteq causes' /\ causes' \subseteq Causes
    BY <1>1 DEF Persist, PersistFails, Keep, TypeOK, Causes
<1>6. /\ row' \in Accounts /\ row'.status = row.status /\ Stored(row', live)
      /\ row'.gen = live \/ "lost" \in causes'
  <2>1. CASE Persist(q)
    <3>1. row' = Refreshed(row, live)
        BY <1>1, <2>1 DEF Persist
    <3>2. live \in 0 .. MaxGen
        BY <1>1, RefreshAssumption DEF Generations
    <3>3. row' \in Accounts /\ row'.gen = live /\ row'.ver = live /\ row'.status = row.status
        BY <1>1, <3>1, <3>2 DEF Refreshed, Accounts
    <3>4. QED  BY <3>3 DEF Stored
  <2>2. CASE PersistFails(q)
      BY <1>1, <2>2 DEF PersistFails, Stored
  <2>3. QED  BY <2>1, <2>2
<1>7. PlaceOK(q, p[q])'
    BY <1>1, <1>3, <1>4, <1>5 DEF PlaceOK, UnderLock
<1>8. "persist" \in InApi /\ live <= live
    BY <1>1 DEF InApi
<1>9. PICK v \in Nat : v = live
    BY <1>1
<1>10. QED  BY <1>1, <1>4, <1>5, <1>6, <1>7, <1>8, <1>9, StoreStep

LEMMA AdminSaveStep ==
    ASSUME Inv, NEW q \in Procs, AdminSave(q) PROVE Inv'
<1>1. /\ TypeOK /\ PlaceOK(q, p[q]) /\ p[q] \in Caller /\ p \in [Procs -> Caller]
      /\ Known(p[q].acct) /\ Known(p[q].fresh) /\ Known(row) /\ Known(NewAccount)
      /\ row \in Accounts /\ p[q].pc = "save" /\ p[q].fresh \in Objects
    BY Before, ObjectsTyped DEF AdminSave, TypeOK
<1>2. /\ p[q].got # 0 /\ q \in Administrators /\ p[q].fresh.gen + 1 = p[q].got
      /\ p[q].locked = FALSE /\ "unlocked" \in causes
  <2>1. p[q].locked \in BOOLEAN
      BY <1>1 DEF Caller
  <2>2. QED  BY <1>1, <2>1 DEF PlaceOK
<1>3. /\ p[q].got = live /\ live \in Generations /\ live \in Nat
      /\ \A a \in Objects : a.gen < live /\ a.gen \in Nat /\ a.ver \in Nat
    BY <1>1, <1>2, Waiting, ObjectsTyped
<1>4. PICK v \in Nat : v = p[q].fresh.ver
    BY <1>1, <1>3
<1>5. \A a \in Objects : a.ver <= v
  <2>1. ASSUME NEW a \in Objects PROVE a.gen <= p[q].fresh.gen
      BY <1>1, <1>2, <1>3
  <2>2. QED  BY <1>1, <1>4, <2>1 DEF Inv, Ordered
<1>6. v <= live /\ v \in 0 .. MaxGen
  <2>1. v <= p[q].fresh.gen /\ p[q].fresh.gen <= live
      BY <1>1, <1>4 DEF Inv, Ordered
  <2>2. QED  BY <1>1, <1>2, <1>3, <1>4, <2>1, RefreshAssumption DEF Generations
<1>7. /\ UNCHANGED <<live, aged, cache, redis, mutex>> /\ (Fault \/ faults' = faults)
      /\ causes \subseteq causes' /\ causes' \subseteq Causes
    BY <1>1 DEF AdminSave, Keep, TypeOK, Causes
<1>8. CASE p' = [p EXCEPT ![q].pc = "drop", ![q].got = 0]
           /\ row' = [row EXCEPT !.gen = p[q].got, !.ver = p[q].fresh.ver, !.due = FALSE]
  <2> DEFINE c == [p[q] EXCEPT !.pc = "drop", !.got = 0]
  <2>1. /\ c \in Caller /\ c.pc = "drop" /\ c.got = 0 /\ c.acct = p[q].acct
        /\ c.fresh = p[q].fresh /\ c.locked = p[q].locked
    <3>1. 0 \in 0 .. MaxGen
        BY RefreshAssumption
    <3>2. /\ c.pc = "drop" /\ c.got = 0 /\ c.acct = p[q].acct
          /\ c.fresh = p[q].fresh /\ c.locked = p[q].locked
        BY <1>1 DEF Caller
    <3>3. c \in Caller
        BY <1>1, <3>1 DEF Caller
    <3>4. QED  BY <3>2, <3>3
  <2>2. p' = [p EXCEPT ![q] = c]
      BY <1>8
  <2> HIDE DEF c
  <2>3. /\ Alone(q) /\ p'[q].pc = "drop" /\ p'[q].got = 0 /\ p'[q].acct = p[q].acct
        /\ p'[q].fresh = p[q].fresh /\ p'[q].locked = p[q].locked
      BY <1>1, <2>1, <2>2 DEF Alone
  <2>4. /\ row' \in Accounts /\ row'.gen = live /\ row'.ver = v /\ row'.status = row.status
    <3>1. row' = [row EXCEPT !.gen = live, !.ver = v, !.due = FALSE]
        BY <1>3, <1>4, <1>8
    <3>2. QED  BY <1>1, <1>3, <1>6, <3>1 DEF Accounts
  <2>5. PlaceOK(q, p[q])'
      BY <1>2, <1>7, <2>3 DEF PlaceOK, UnderLock
  <2>6. Stored(row', v) /\ Stored(p'[q].acct, v) /\ Stored(p'[q].fresh, v)
      BY <1>1, <2>3, <2>4 DEF Stored
  <2>7. QED  BY <1>2, <1>5, <1>6, <1>7, <2>3, <2>4, <2>5, <2>6, StoreStep
<1>9. CASE Finish(q) /\ causes' = causes \cup {"lost"} /\ row' = row
  <2>1. /\ Alone(q) /\ p'[q].pc = "idle" /\ p'[q].got = 0 /\ p'[q].locked = FALSE
        /\ p'[q].acct = NewAccount /\ p'[q].fresh = NewAccount
      BY <1>1, <1>9, FinishMoves
  <2>2. PlaceOK(q, p[q])'
      BY <1>2, <2>1 DEF PlaceOK, UnderLock
  <2>3. Stored(row', v) /\ Stored(p'[q].acct, v) /\ Stored(p'[q].fresh, v)
      BY <1>1, <1>9, <2>1 DEF Stored
  <2>4. /\ row' \in Accounts /\ row'.status = row.status /\ "lost" \in causes'
        /\ p'[q].locked = p[q].locked
      BY <1>1, <1>2, <1>9, <2>1
  <2>5. QED  BY <1>2, <1>5, <1>6, <1>7, <2>1, <2>2, <2>3, <2>4, StoreStep
<1>10. QED  BY <1>8, <1>9 DEF AdminSave

-----------------------------------------------------------------------------
(* A 401 writes an older pair, and the administrator. *)

LEMMA ForceRefreshStep ==
    ASSUME Inv, NEW q \in Procs, ForceRefresh(q) PROVE Inv'
<1>1. /\ TypeOK /\ PlaceOK(q, p[q]) /\ p[q].acct \in Accounts /\ row \in Accounts
      /\ Known(p[q].acct) /\ Known(p[q].fresh) /\ Known(row)
      /\ p[q].acct \in Objects /\ row \in Objects
      /\ p[q].pc = "rewrite" /\ Goto(q, "pause") /\ "pause" \in Places
    BY Before, ObjectsTyped DEF ForceRefresh, TypeOK, Caller, Places
<1>2. Alone(q) /\ SameTokens(q) /\ p'[q].pc = "pause"
    BY <1>1, GotoMoves
<1>3. /\ UNCHANGED <<live, aged, cache, redis, mutex>> /\ (Fault \/ faults' = faults)
      /\ causes \subseteq causes' /\ causes' \subseteq Causes
    BY <1>1 DEF ForceRefresh, Keep, TypeOK, Causes
<1>4. /\ row' \in Accounts /\ row'.status = row.status
      /\ \/ row'.gen = row.gen /\ row'.ver = row.ver
         \/ /\ row'.gen = p[q].acct.gen /\ row'.ver = p[q].acct.ver
            /\ p[q].acct.gen < row.gen => "overwritten" \in causes'
  <2>1. CASE row' = row
      BY <1>1, <2>1
  <2>2. CASE row' # row
    <3>1. /\ row' = [row EXCEPT !.gen = p[q].acct.gen, !.ver = p[q].acct.ver, !.due = TRUE]
          /\ p[q].acct.gen < row.gen => "overwritten" \in causes'
        BY <2>2 DEF ForceRefresh
    <3>2. /\ row' \in Accounts /\ row'.status = row.status /\ row'.gen = p[q].acct.gen
          /\ row'.ver = p[q].acct.ver
        BY <1>1, <3>1 DEF Accounts
    <3>3. QED  BY <3>1, <3>2
  <2>3. QED  BY <2>1, <2>2
<1>5. TypeOK'
    BY <1>1, <1>2, <1>3, <1>4, FaultsTyped DEF TypeOK, Alone
<1>6. PlacesOK'
  <2>1. PlaceOK(q, p[q])'
      BY <1>1, <1>2, <1>3 DEF PlaceOK, UnderLock, SameTokens
  <2>2. live \in Nat
      BY <1>1, ObjectsTyped
  <2>3. \A s \in Procs \ {q} : PlaceOK(s, p[s])'
      BY <1>2, <1>3, <2>2, OthersPlaceOK
  <2>4. QED  BY <2>1, <2>3 DEF PlacesOK
<1>7. MutexOK' /\ LockOK'
    BY <1>2, <1>3 DEF Inv, MutexOK, LockOK, Alone, SameTokens, InApi
<1>8. Ordered' /\ Pending'
  <2>1. Known(row')
      BY <1>1, <1>4 DEF Known
  <2>2. QED  BY <1>1, <1>2, <1>3, <2>1, TokensStay DEF SameTokens
<1>9. LiveTokenKept'
  <2>1. \A s \in Procs : p'[s].got = p[s].got
      BY <1>2 DEF Alone, SameTokens
  <2>2. /\ p[q].acct.gen \in Nat /\ row.gen \in Nat /\ live \in Nat /\ p[q].acct.gen <= live
      BY <1>1, ObjectsTyped DEF Inv, Ordered
  <2>3. CASE row.gen = live
      BY <1>3, <1>4, <2>2, <2>3 DEF LiveTokenKept
  <2>4. CASE row.gen # live
      BY <1>3, <2>1, <2>4 DEF Inv, LiveTokenKept
  <2>5. QED  BY <2>3, <2>4
<1>10. DisabledWithCause'
    BY <1>3, <1>4 DEF Inv, DisabledWithCause
<1>11. QED  BY <1>5, <1>6, <1>7, <1>8, <1>9, <1>10 DEF Inv

LEMMA AdminRefreshStep ==
    ASSUME Inv, NEW q \in Procs, AdminRefresh(q) PROVE Inv'
<1>1. /\ TypeOK /\ PlaceOK(q, p[q]) /\ p[q] \in Caller /\ p \in [Procs -> Caller]
      /\ Known(row) /\ row \in Accounts /\ q \in Administrators /\ p[q].pc = "idle"
    BY Before DEF AdminRefresh, TypeOK
<1> DEFINE c == [p[q] EXCEPT !.pc = "refresh", !.acct = row, !.fresh = row]
<1>2. /\ c \in Caller /\ c.pc = "refresh" /\ c.acct = row /\ c.fresh = row
      /\ c.got = p[q].got /\ c.locked = p[q].locked
    BY <1>1 DEF Caller, InApi
<1>3. p' = [p EXCEPT ![q] = c]
    BY DEF AdminRefresh
<1> HIDE DEF c
<1>4. /\ Alone(q) /\ p'[q].pc = "refresh" /\ p'[q].acct = row /\ p'[q].fresh = row
      /\ p'[q].got = p[q].got /\ p'[q].locked = p[q].locked
    BY <1>1, <1>2, <1>3 DEF Alone
<1>5. Quiet(q) /\ "unlocked" \in causes'
    BY <1>1, <1>4 DEF AdminRefresh, Keep, Quiet, TypeOK, Causes
<1>6. PlaceOK(q, p[q])'
    BY <1>1, <1>4, <1>5 DEF PlaceOK, UnderLock
<1>7. QED  BY <1>1, <1>4, <1>5, <1>6, QuietStep

LEMMA AdminCallsStep ==
    ASSUME Inv, NEW q \in Procs, AdminCalls(q) \/ AdminAnswerLost(q) PROVE Inv'
<1>1. /\ TypeOK /\ PlaceOK(q, p[q]) /\ p[q] \in Caller /\ p \in [Procs -> Caller]
      /\ Known(p[q].acct) /\ Known(p[q].fresh) /\ Known(NewAccount) /\ live \in Nat
      /\ q \in Administrators /\ p[q].pc = "refresh"
    BY Before, ObjectsTyped DEF AdminCalls, AdminAnswerLost, TypeOK
<1>2. p[q].got = 0 /\ p[q].locked = FALSE /\ "unlocked" \in causes
  <2>1. p[q].locked \in BOOLEAN
      BY <1>1 DEF Caller
  <2>2. QED  BY <1>1, <2>1 DEF PlaceOK
<1>3. /\ UNCHANGED <<aged, row, cache, redis, mutex>> /\ (Fault \/ faults' = faults)
      /\ causes \subseteq causes' /\ causes' \subseteq Causes
    BY <1>1 DEF AdminCalls, AdminAnswerLost, TypeOK, Causes
<1>4. CASE Finish(q)
  <2>1. /\ Alone(q) /\ p'[q].pc = "idle" /\ p'[q].got = 0 /\ p'[q].locked = FALSE
        /\ p'[q].acct = NewAccount /\ p'[q].fresh = NewAccount
      BY <1>1, <1>4, FinishMoves
  <2>2. PlaceOK(q, p[q])'
      BY <1>2, <2>1 DEF PlaceOK, UnderLock
  <2>3. CASE live' = live
    <3>1. cache' \in 0 .. MaxGen /\ row' \in Accounts
        BY <1>1, <1>3 DEF TypeOK
    <3>2. QED  BY <1>2, <1>3, <1>4, <2>3, <3>1, FinishStep
  <2>4. CASE live' # live
    <3>1. AdminAnswerLost(q)
      <4>1. ASSUME AdminCalls(q), live' # live PROVE FALSE
        <5>1. p'[q].pc = "save"
            BY <1>1, <4>1 DEF AdminCalls, Caller
        <5>2. QED  BY <2>1, <5>1
      <4>2. QED  BY <2>4, <4>1
    <3>2. p[q].fresh.gen = live /\ live < MaxGen /\ live' = live + 1 /\ "lost" \in causes'
        BY <3>1 DEF AdminAnswerLost
    <3>3. QED  BY <1>1, <1>2, <1>3, <2>1, <2>2, <3>2, IssueStep
  <2>5. QED  BY <2>3, <2>4
<1>5. CASE ~Finish(q)
  <2> DEFINE c == [p[q] EXCEPT !.pc = "save", !.got = live + 1]
  <2>1. /\ p[q].fresh.gen = live /\ live < MaxGen /\ live' = live + 1 /\ p' = [p EXCEPT ![q] = c]
      BY <1>5 DEF AdminCalls, AdminAnswerLost
  <2>2. live + 1 \in 0 .. MaxGen
      BY <1>1, <2>1, RefreshAssumption
  <2>3. /\ c.pc = "save" /\ c.got = live + 1 /\ c.acct = p[q].acct
        /\ c.fresh = p[q].fresh /\ c.locked = p[q].locked
      BY <1>1 DEF Caller
  <2>4. c \in Caller
      BY <1>1, <2>2 DEF Caller
  <2> HIDE DEF c
  <2>5. /\ Alone(q) /\ p'[q].pc = "save" /\ p'[q].got = live + 1 /\ p'[q].acct = p[q].acct
        /\ p'[q].fresh = p[q].fresh /\ p'[q].locked = p[q].locked
      BY <1>1, <2>1, <2>3, <2>4 DEF Alone
  <2>6. PlaceOK(q, p[q])'
      BY <1>1, <1>2, <1>3, <2>1, <2>5 DEF PlaceOK, UnderLock
  <2>7. Known(p'[q].acct) /\ Known(p'[q].fresh)
      BY <1>1, <2>5
  <2>8. QED  BY <1>1, <1>2, <1>3, <2>1, <2>5, <2>6, <2>7, IssueStep
<1>6. QED  BY <1>4, <1>5

LEMMA AdminInvalidatesStep ==
    ASSUME Inv, NEW q \in Procs, AdminInvalidates(q) PROVE Inv'
<1>1. TypeOK /\ PlaceOK(q, p[q]) /\ p[q].pc = "drop" /\ p[q].locked \in BOOLEAN
    BY Before DEF AdminInvalidates, Caller
<1>2. p[q].got = 0 /\ p[q].locked = FALSE
    BY <1>1 DEF PlaceOK, UnderLock
<1>3. Finish(q) /\ UNCHANGED <<live, aged, row, redis, mutex, causes>>
      /\ (Fault \/ faults' = faults) /\ (cache' = 0 \/ cache' = cache)
    BY DEF AdminInvalidates, Keep
<1>4. causes' \subseteq Causes /\ cache' \in 0 .. MaxGen /\ row' \in Accounts
    BY <1>1, <1>3, RefreshAssumption DEF TypeOK
<1>5. QED  BY <1>2, <1>3, <1>4, FinishStep

-----------------------------------------------------------------------------
(* The two locks. *)

\* A caller that takes or leaves a lock and keeps its tokens.
LEMMA LockStep ==
    ASSUME Inv, NEW q \in Procs, Alone(q), UNCHANGED <<live, aged, row, cache, causes>>,
           Fault \/ faults' = faults,
           redis' \in BOOLEAN, mutex' \in [Instances -> Procs \cup {NoOne}],
           Known(p'[q].acct), Known(p'[q].fresh), p[q].got = 0, p'[q].got = 0,
           PlaceOK(q, p[q])', MutexOK', LockOK'
    PROVE  Inv'
<1>1. TypeOK'
    BY FaultsTyped DEF Inv, TypeOK, Alone
<1>2. PlacesOK'
  <2>1. live \in Nat
      BY ObjectsTyped DEF Inv
  <2>2. \A s \in Procs \ {q} : PlaceOK(s, p[s])'
      BY <2>1, OthersPlaceOK
  <2>3. QED  BY <2>2 DEF PlacesOK
<1>3. Ordered' /\ Pending'
  <2>1. Known(row')
      BY Before
  <2>2. QED  BY <2>1, TokensStay
<1>4. LiveTokenKept' /\ DisabledWithCause'
    BY DEF Inv, LiveTokenKept, DisabledWithCause, Alone
<1>5. QED  BY <1>1, <1>2, <1>3, <1>4 DEF Inv

LEMMA EnterStep ==
    ASSUME Inv, NEW q \in Procs, Enter(q) PROVE Inv'
<1>1. /\ TypeOK /\ PlaceOK(q, p[q]) /\ Known(p[q].acct) /\ Known(p[q].fresh)
      /\ p[q].pc = "enter" /\ Goto(q, "lock") /\ "lock" \in Places
    BY Before DEF Enter, Places, InApi
<1>2. q \notin Administrators /\ p[q].got = 0 /\ ~p[q].locked
    BY <1>1 DEF PlaceOK, UnderLock
<1>3. Alone(q) /\ SameTokens(q) /\ p'[q].pc = "lock"
    BY <1>1, GotoMoves
<1>4. /\ UNCHANGED <<live, aged, row, cache, redis, faults, causes>>
      /\ mutex' = [mutex EXCEPT ![InstanceOf[q]] = q] /\ mutex[InstanceOf[q]] = NoOne
    BY DEF Enter, Keep
<1>5. PlaceOK(q, p[q])'
    BY <1>1, <1>2, <1>3, <1>4 DEF PlaceOK, UnderLock, SameTokens
<1>6. /\ InstanceOf[q] \in Instances /\ mutex \in [Instances -> Procs \cup {NoOne}]
      /\ redis \in BOOLEAN
    BY <1>1, RefreshAssumption DEF TypeOK
<1>7. MutexOK'
  <2>1. mutex'[InstanceOf[q]] = q
      BY <1>4, <1>6
  <2>2. ASSUME NEW s \in (Procs \ Administrators) \ {q}, p'[s].pc \in InApi
        PROVE  mutex'[InstanceOf[s]] = s
    <3>1. mutex[InstanceOf[s]] = s
        BY <1>3, <2>2 DEF Inv, MutexOK, Alone
    <3>2. InstanceOf[s] # InstanceOf[q]
        BY <1>4, <3>1, RefreshAssumption
    <3>3. QED  BY <1>4, <1>6, <3>1, <3>2, RefreshAssumption
  <2>3. QED  BY <2>1, <2>2 DEF MutexOK
<1>8. LockOK'
    BY <1>3, <1>4 DEF Inv, LockOK, Alone, SameTokens
<1>9. mutex' \in [Instances -> Procs \cup {NoOne}]
    BY <1>4, <1>6
<1>10. QED  BY <1>1, <1>2, <1>3, <1>4, <1>5, <1>6, <1>7, <1>8, <1>9, LockStep DEF SameTokens

LEMMA AcquireStep ==
    ASSUME Inv, NEW q \in Procs, Acquire(q) PROVE Inv'
<1>1. /\ TypeOK /\ PlaceOK(q, p[q]) /\ p[q] \in Caller /\ p \in [Procs -> Caller]
      /\ Known(p[q].acct) /\ Known(p[q].fresh)
      /\ p[q].pc = "lock" /\ redis \in BOOLEAN /\ "lock" \in InApi
    BY Before DEF Acquire, TypeOK, InApi
<1>2. q \notin Administrators /\ p[q].got = 0 /\ ~p[q].locked
    BY <1>1 DEF PlaceOK, UnderLock
<1>3. UNCHANGED <<live, aged, row, cache, mutex, faults, causes>>
    BY DEF Acquire, Keep
<1>4. mutex \in [Instances -> Procs \cup {NoOne}] /\ causes' \subseteq Causes
      /\ cache' \in 0 .. MaxGen /\ row' \in Accounts
    BY <1>1, <1>3 DEF TypeOK
<1>5. CASE redis
  <2>1. Return(q, LockHeldNext(q)) /\ redis' = redis
      BY <1>5 DEF Acquire
  <2>2. LockHeldNext(q) \in Nexts /\ LockHeldNext(q) # "rejected"
      BY DEF LockHeldNext, Nexts
  <2>3. Alone(q) /\ SameTokens(q) /\ p'[q].pc = "release" /\ p'[q].next # "rejected"
      BY <1>1, <2>1, <2>2, ReturnMoves
  <2>4. Quiet(q)
      BY <1>3, <1>4, <2>1, <2>3 DEF Quiet
  <2>5. PlaceOK(q, p[q])'
      BY <1>2, <2>3 DEF PlaceOK, UnderLock, SameTokens
  <2>6. QED  BY <1>1, <1>2, <2>3, <2>4, <2>5, QuietStep DEF SameTokens
<1>6. CASE ~redis
  <2> DEFINE c == [p[q] EXCEPT !.pc = "reread", !.locked = TRUE]
  <2>1. redis' = TRUE /\ p' = [p EXCEPT ![q] = c]
      BY <1>6 DEF Acquire
  <2>2. /\ c \in Caller /\ c.pc = "reread" /\ c.locked = TRUE /\ c.acct = p[q].acct
        /\ c.fresh = p[q].fresh /\ c.got = p[q].got
      BY <1>1 DEF Caller, InApi
  <2> HIDE DEF c
  <2>3. /\ Alone(q) /\ p'[q].pc = "reread" /\ p'[q].locked = TRUE /\ p'[q].acct = p[q].acct
        /\ p'[q].fresh = p[q].fresh /\ p'[q].got = p[q].got
      BY <1>1, <2>1, <2>2 DEF Alone
  <2>4. PlaceOK(q, p[q])'
      BY <1>2, <2>3 DEF PlaceOK, UnderLock
  <2>5. MutexOK'
      BY <1>1, <1>2, <1>3, <2>3 DEF Inv, MutexOK, Alone
  <2>6. \A s \in Procs : p[s].locked => "slow" \in causes
      BY <1>6 DEF Inv, LockOK
  <2>7. LockOK'
      BY <1>3, <2>1, <2>3, <2>6 DEF LockOK, Alone
  <2>8. QED  BY <1>1, <1>2, <1>3, <1>4, <2>1, <2>3, <2>4, <2>5, <2>7, LockStep
<1>7. QED  BY <1>1, <1>5, <1>6

LEMMA ReleaseStep ==
    ASSUME Inv, NEW q \in Procs, Release(q) PROVE Inv'
<1>1. /\ TypeOK /\ PlaceOK(q, p[q]) /\ p[q] \in Caller /\ p \in [Procs -> Caller]
      /\ Known(p[q].acct) /\ Known(p[q].fresh) /\ Known(NewAccount)
      /\ p[q].pc = "release" /\ redis \in BOOLEAN /\ "release" \in InApi
    BY Before DEF Release, TypeOK, InApi
<1>2. q \notin Administrators /\ p[q].got = 0
    BY <1>1 DEF PlaceOK, UnderLock
<1>3. /\ UNCHANGED <<live, aged, row, cache, causes>>
      /\ mutex' = [mutex EXCEPT ![InstanceOf[q]] = NoOne]
      /\ (Fault \/ faults' = faults)
      /\ \/ redis' = (redis /\ ~p[q].locked)
         \/ redis' = redis /\ p[q].locked
    BY DEF Release, Keep
<1>4. /\ Alone(q) /\ p'[q].pc \in Nexts /\ p'[q].got = 0 /\ p'[q].locked = FALSE
      /\ p'[q].next = "idle" /\ Known(p'[q].acct) /\ Known(p'[q].fresh)
      /\ p'[q].pc = "rejected" => causes # {}
  <2>1. CASE p[q].next = "idle"
    <3>1. Finish(q)
        BY <2>1 DEF Release, Finish
    <3>2. QED  BY <1>1, <3>1, FinishMoves DEF Nexts
  <2>2. CASE p[q].next # "idle"
    <3> DEFINE c == [p[q] EXCEPT !.pc = p[q].next, !.locked = FALSE, !.shared = FALSE,
                                 !.next = "idle"]
    <3>1. p[q].next \in Nexts
        BY <1>1 DEF Caller, Nexts
    <3>2. /\ c.pc = p[q].next /\ c.locked = FALSE /\ c.next = "idle"
          /\ c.acct = p[q].acct /\ c.fresh = p[q].fresh /\ c.got = p[q].got
        BY <1>1 DEF Caller
    <3>3. c \in Caller
        BY <1>1, <3>1 DEF Caller, Nexts
    <3>4. p' = [p EXCEPT ![q] = c]
        BY <2>2 DEF Release
    <3> HIDE DEF c
    <3>5. p'[q] = c /\ Alone(q)
        BY <1>1, <3>3, <3>4 DEF Alone
    <3>6. p[q].next = "rejected" => causes # {}
        BY <1>1 DEF PlaceOK
    <3>7. QED  BY <1>1, <1>2, <3>1, <3>2, <3>5, <3>6
  <2>3. QED  BY <2>1, <2>2
<1>5. p'[q].pc \notin InApi \cup UnderLock \cup {"save", "drop"}
    BY <1>4 DEF Nexts, InApi, UnderLock
<1>6. PlaceOK(q, p[q])'
    BY <1>2, <1>3, <1>4, <1>5 DEF PlaceOK, UnderLock, InApi
<1>7. /\ InstanceOf[q] \in Instances /\ mutex \in [Instances -> Procs \cup {NoOne}]
      /\ mutex[InstanceOf[q]] = q
    BY <1>1, <1>2, RefreshAssumption DEF TypeOK, Inv, MutexOK
<1>8. mutex' \in [Instances -> Procs \cup {NoOne}] /\ redis' \in BOOLEAN
    BY <1>1, <1>3, <1>7
<1>9. MutexOK'
  <2>1. ASSUME NEW s \in Procs \ Administrators, p'[s].pc \in InApi
        PROVE  mutex'[InstanceOf[s]] = s
    <3>1. s # q
        BY <1>5, <2>1
    <3>2. mutex[InstanceOf[s]] = s
        BY <1>4, <2>1, <3>1 DEF Inv, MutexOK, Alone
    <3>3. InstanceOf[s] # InstanceOf[q]
        BY <1>7, <3>1, <3>2
    <3>4. QED  BY <1>3, <1>7, <3>2, <3>3, RefreshAssumption
  <2>2. QED  BY <2>1 DEF MutexOK
<1>10. LockOK'
  <2>1. ASSUME NEW s \in Procs, p'[s].locked
        PROVE  s # q /\ p[s].locked /\ (redis \/ "slow" \in causes)
      BY <1>4, <2>1 DEF Inv, LockOK, Alone
  <2>2. ASSUME NEW s \in Procs, p'[s].locked PROVE redis' \/ "slow" \in causes
    <3>1. CASE p[q].locked
        BY <2>1, <2>2, <3>1 DEF Inv, LockOK
    <3>2. CASE ~p[q].locked
        BY <1>3, <2>1, <2>2, <3>2
    <3>3. QED  BY <3>1, <3>2
  <2>3. \A s, r \in Procs : p'[s].locked /\ p'[r].locked /\ s # r => "slow" \in causes
      BY <2>1 DEF Inv, LockOK
  <2>4. QED  BY <1>3, <2>2, <2>3 DEF LockOK
<1>11. QED  BY <1>2, <1>3, <1>4, <1>6, <1>8, <1>9, <1>10, LockStep

-----------------------------------------------------------------------------
(* Time, and the end of a process. *)

LEMMA WorldStep ==
    ASSUME Inv, Age \/ CacheExpires \/ LockExpires \/ PauseEnds PROVE Inv'
<1>1. /\ UNCHANGED <<live, mutex, p, faults>> /\ causes \subseteq causes'
      /\ TypeOK /\ live \in Nat /\ row \in Accounts /\ p \in [Procs -> Caller]
    BY ObjectsTyped DEF Age, CacheExpires, LockExpires, PauseEnds, Keep, Inv, TypeOK
<1>2. row' \in Accounts /\ row'.gen = row.gen /\ row'.ver = row.ver /\ row'.status = row.status
  <2>1. row' = row \/ row' = [row EXCEPT !.paused = FALSE]
      BY DEF Age, CacheExpires, LockExpires, PauseEnds
  <2>2. QED  BY <1>1, <2>1 DEF Accounts
<1>3. TypeOK'
  <2>1. aged' \in 0 .. MaxGen
    <3>1. aged' = aged \/ (aged' = aged + 1 /\ aged < MaxGen - 1)
        BY DEF Age, CacheExpires, LockExpires, PauseEnds, Keep
    <3>2. QED  BY <1>1, <3>1, RefreshAssumption DEF TypeOK
  <2>2. cache' \in 0 .. MaxGen
      BY <1>1, RefreshAssumption DEF Age, CacheExpires, LockExpires, PauseEnds, TypeOK
  <2>3. redis' \in BOOLEAN /\ causes' \subseteq Causes
      BY <1>1 DEF Age, CacheExpires, LockExpires, PauseEnds, TypeOK, Causes
  <2>4. QED  BY <1>1, <1>2, <2>1, <2>2, <2>3 DEF TypeOK
<1>4. PlacesOK'
  <2>1. ASSUME NEW s \in Procs PROVE PlaceOK(s, p[s])'
    <3>1. PlaceOK(s, p[s]) /\ p'[s] = p[s]
        BY <1>1 DEF Inv, PlacesOK
    <3>2. QED  BY <1>1, <3>1 DEF PlaceOK
  <2>2. QED  BY <2>1 DEF PlacesOK
<1>5. MutexOK'
    BY <1>1 DEF Inv, MutexOK
<1>6. LockOK'
  <2>1. CASE redis' = redis
      BY <1>1, <2>1 DEF Inv, LockOK
  <2>2. CASE redis' # redis
    <3>1. LockExpires
        BY <2>2 DEF Age, CacheExpires, PauseEnds
    <3>2. \A s \in Procs : p[s].locked => "slow" \in causes'
        BY <3>1 DEF LockExpires
    <3>3. QED  BY <1>1, <3>2 DEF LockOK
  <2>3. QED  BY <2>1, <2>2
<1>7. \A a \in Objects' : Known(a)
  <2>1. Known(NewAccount) /\ Known(row') /\ \A s \in Procs : Known(p[s].acct) /\ Known(p[s].fresh)
      BY <1>2 DEF Known, Objects
  <2>2. ASSUME NEW a \in Objects' PROVE Known(a)
      BY <1>1, <2>1 DEF Objects
  <2>3. QED  BY <2>2
<1>8. Ordered'
    BY <1>1, <1>7 DEF Inv, Ordered, Known
<1>9. Pending'
  <2>1. Pending
      BY DEF Inv
  <2>2. ASSUME NEW s \in Procs, p[s].got # 0, NEW a \in Objects' PROVE a.gen < live
      BY <1>7, <2>1, <2>2 DEF Pending, Known
  <2>3. QED  BY <1>1, <2>1, <2>2 DEF Pending
<1>10. LiveTokenKept' /\ DisabledWithCause'
    BY <1>1, <1>2 DEF Inv, LiveTokenKept, DisabledWithCause
<1>11. QED  BY <1>3, <1>4, <1>5, <1>6, <1>8, <1>9, <1>10 DEF Inv

LEMMA CrashStep ==
    ASSUME Inv, NEW i \in Instances, Crash(i) PROVE Inv'
<1>1. /\ UNCHANGED <<live, aged, row, cache, redis>> /\ causes \subseteq causes' /\ Fault
      /\ causes' \subseteq Causes
      /\ TypeOK /\ live \in Nat /\ NewAccount \in Accounts /\ p \in [Procs -> Caller]
    BY ObjectsTyped DEF Crash, Keep, Inv, TypeOK, Causes
<1>2. /\ IdleCaller \in Caller /\ IdleCaller.pc = "idle" /\ IdleCaller.got = 0
      /\ IdleCaller.locked = FALSE /\ IdleCaller.acct = NewAccount
      /\ IdleCaller.fresh = NewAccount /\ IdleCaller.next = "idle"
    BY <1>1, RefreshAssumption DEF IdleCaller, Caller
<1>3. /\ \A s \in Procs : p'[s] = IF InstanceOf[s] = i THEN IdleCaller ELSE p[s]
      /\ p' \in [Procs -> Caller]
    BY <1>1, <1>2 DEF Crash
<1>4. /\ mutex' = [mutex EXCEPT ![i] = NoOne] /\ mutex \in [Instances -> Procs \cup {NoOne}]
      /\ mutex' \in [Instances -> Procs \cup {NoOne}]
    BY <1>1 DEF Crash, TypeOK
<1>5. TypeOK'
    BY <1>1, <1>3, <1>4, FaultsTyped DEF TypeOK
<1>6. PlacesOK'
  <2>1. ASSUME NEW s \in Procs PROVE PlaceOK(s, p[s])'
    <3>1. PlaceOK(s, p[s])
        BY DEF Inv, PlacesOK
    <3>2. CASE InstanceOf[s] = i
        BY <1>2, <1>3, <3>2 DEF PlaceOK, UnderLock
    <3>3. CASE InstanceOf[s] # i
      <4>1. p'[s] = p[s]
          BY <1>3, <3>3
      <4>2. QED  BY <1>1, <3>1, <4>1 DEF PlaceOK
    <3>4. QED  BY <3>2, <3>3
  <2>2. QED  BY <2>1 DEF PlacesOK
<1>7. MutexOK'
  <2>1. ASSUME NEW s \in Procs \ Administrators, p'[s].pc \in InApi
        PROVE  mutex'[InstanceOf[s]] = s
    <3>1. InstanceOf[s] # i /\ p'[s] = p[s]
        BY <1>2, <1>3, <2>1 DEF InApi
    <3>2. mutex[InstanceOf[s]] = s
        BY <2>1, <3>1 DEF Inv, MutexOK
    <3>3. QED  BY <1>4, <3>1, <3>2, RefreshAssumption
  <2>2. QED  BY <2>1 DEF MutexOK
<1>8. LockOK'
  <2>1. \A s \in Procs : p'[s].locked => p[s].locked
      BY <1>2, <1>3
  <2>2. QED  BY <1>1, <2>1 DEF Inv, LockOK
<1>9. \A a \in Objects' : Known(a)
  <2>1. Known(NewAccount) /\ Known(row) /\ \A s \in Procs : Known(p[s].acct) /\ Known(p[s].fresh)
      BY DEF Known, Objects
  <2>2. \A s \in Procs : Known(p'[s].acct) /\ Known(p'[s].fresh)
      BY <1>2, <1>3, <2>1
  <2>3. ASSUME NEW a \in Objects' PROVE Known(a)
      BY <1>1, <2>1, <2>2 DEF Objects
  <2>4. QED  BY <2>3
<1>10. Ordered'
    BY <1>1, <1>9 DEF Inv, Ordered, Known
<1>11. Pending'
  <2>1. Pending
      BY DEF Inv
  <2>2. ASSUME NEW s \in Procs, p[s].got # 0, NEW a \in Objects' PROVE a.gen < live
      BY <1>9, <2>1, <2>2 DEF Pending, Known
  <2>3. \A s \in Procs : p'[s].got # 0 => p'[s].got = p[s].got
      BY <1>2, <1>3
  <2>4. QED  BY <1>1, <2>1, <2>2, <2>3 DEF Pending
<1>12. LiveTokenKept'
  <2>1. CASE \E q \in Procs : p[q].got = live /\ InstanceOf[q] = i
    <3>1. PICK q \in Procs : p[q].got = live /\ InstanceOf[q] = i
        BY <2>1
    <3>2. live # 0
        BY <1>1, RefreshAssumption DEF TypeOK, Generations
    <3>3. "lost" \in causes'
        BY <3>1, <3>2 DEF Crash
    <3>4. QED  BY <3>3 DEF LiveTokenKept
  <2>2. CASE ~ \E q \in Procs : p[q].got = live /\ InstanceOf[q] = i
      BY <1>1, <1>3, <2>2 DEF Inv, LiveTokenKept
  <2>3. QED  BY <2>1, <2>2
<1>13. DisabledWithCause'
    BY <1>1 DEF Inv, DisabledWithCause
<1>14. QED  BY <1>5, <1>6, <1>7, <1>8, <1>10, <1>11, <1>12, <1>13 DEF Inv

-----------------------------------------------------------------------------
(* Every step, and the theorems. *)

LEMMA StepInv == ASSUME Inv, NEW q \in Procs, Step(q) PROVE Inv'
<1>1. CASE Api(q)
    BY <1>1, EnterStep, AcquireStep, AcquireFailsStep, RereadStep, RefreshStep,
       RefreshFailsStep, RecoverStep, PersistStep, ReleaseStep DEF Api
<1>2. CASE Service(q)
    BY <1>2, TakeStep, ServiceStep, SetErrorStep DEF Service
<1>3. CASE Request(q)
    BY <1>3, TakeStep, RequestStep, ForceRefreshStep, PauseStep DEF Request
<1>4. CASE Administrator(q)
    BY <1>4, AdminRefreshStep, AdminCallsStep, AdminSaveStep, AdminInvalidatesStep
       DEF Administrator
<1>5. QED  BY <1>1, <1>2, <1>3, <1>4 DEF Step

LEMMA NextInv == Inv /\ [Next]_vars => Inv'
<1> SUFFICES ASSUME Inv, [Next]_vars PROVE Inv'
    OBVIOUS
<1>1. CASE Next
    BY <1>1, StepInv, WorldStep, CrashStep DEF Next
<1>2. CASE UNCHANGED vars
  <2>1. UNCHANGED <<live, aged, row, cache, redis, mutex, p, faults, causes>>
      BY <1>2 DEF vars
  <2>2. TypeOK' /\ MutexOK' /\ LockOK' /\ LiveTokenKept' /\ DisabledWithCause'
      BY <2>1 DEF Inv, TypeOK, MutexOK, LockOK, LiveTokenKept, DisabledWithCause
  <2>3. PlacesOK'
      BY <2>1 DEF Inv, PlacesOK, PlaceOK
  <2>4. Objects' = Objects
      BY <2>1 DEF Objects
  <2>5. Ordered' /\ Pending'
      BY <2>1, <2>4 DEF Inv, Ordered, Pending
  <2>6. QED  BY <2>2, <2>3, <2>5 DEF Inv
<1>3. QED  BY <1>1, <1>2

LEMMA Invariance == Spec => []Inv
<1>1. QED  BY InitInv, NextInv, PTL DEF Spec

\* Two refreshes of one account overlap in different processes only, and only
\* after a failed or a late lock: RefreshIfNeeded's mutex and Redis lock are
\* enough as long as Redis answers and no holder outlives the lock's TTL.
THEOREM RefreshesAlone == Spec => []OneRefreshAtATime
<1>1. Inv => OneRefreshAtATime
    BY Exclusion
<1>2. QED  BY <1>1, Invariance, PTL

\* A stored pair replaces an older one, of no later version, but for a 401.
LEMMA StoresForward ==
    ASSUME Inv, [Next]_vars, row'.gen # row.gen
    PROVE  \/ row'.gen > row.gen /\ row'.ver >= row.ver
           \/ row'.due /\ "overwritten" \in causes'
<1>1. /\ row \in Accounts /\ row \in Objects /\ row.gen \in Nat /\ row.ver \in Nat
      /\ live \in Nat
    BY ObjectsTyped DEF Inv, TypeOK
<1>2. PICK q \in Procs : Persist(q) \/ AdminSave(q) \/ ForceRefresh(q)
  <2>1. row' # row
      OBVIOUS
  <2>2. ASSUME NEW b \in BOOLEAN, row' = [row EXCEPT !.paused = b] PROVE FALSE
      BY <1>1, <2>2 DEF Accounts
  <2>3. row' # [row EXCEPT !.paused = TRUE] /\ row' # [row EXCEPT !.paused = FALSE]
      BY <2>2
  <2>4. row' # [row EXCEPT !.status = "error"]
      BY <1>1 DEF Accounts
  <2>5. PICK q \in Procs : Step(q)
    <3>1. ~(Age \/ CacheExpires \/ LockExpires \/ \E i \in Instances : Crash(i))
        BY <2>1 DEF Age, CacheExpires, LockExpires, Crash
    <3>2. ~PauseEnds /\ ~(UNCHANGED vars)
        BY <2>1, <2>3 DEF PauseEnds, vars
    <3>3. QED  BY <3>1, <3>2 DEF Next
  <2>6. ASSUME Api(q) PROVE Persist(q)
      BY <2>1, <2>6 DEF Api, Enter, Acquire, AcquireFails, Reread, RereadFails, Refresh,
         RefreshFails, Recover, RecoverFails, PersistFails, Release
  <2>7. ~Service(q)
    <3>1. ~PostRefresh(q)
      <4>1. PostRefresh(q) => \E b \in BOOLEAN : row' = [row EXCEPT !.paused = b]
        <5>1. row.paused \in BOOLEAN
            BY <1>1 DEF Accounts
        <5>2. QED  BY <5>1 DEF PostRefresh
      <4>2. QED  BY <2>2, <4>1
    <3>2. ~(List(q) \/ Consider(q) \/ Retry(q))
        BY <2>1 DEF List, Consider, Retry
    <3>3. ~(GiveUp(q) \/ SetError(q))
        BY <2>1, <2>3, <2>4 DEF GiveUp, SetError
    <3>4. QED  BY <3>1, <3>2, <3>3 DEF Service
  <2>8. ASSUME Request(q) PROVE ForceRefresh(q)
      BY <2>1, <2>3, <2>8 DEF Request, Select, Lookup, Wait, CheckTokenVersion,
         SetAccessToken, Answer, InvalidateToken, SetTempUnschedulable
  <2>9. ASSUME Administrator(q) PROVE AdminSave(q)
      BY <2>1, <2>9 DEF Administrator, AdminRefresh, AdminCalls, AdminAnswerLost,
         AdminInvalidates
  <2>10. QED  BY <2>5, <2>6, <2>7, <2>8, <2>9 DEF Step
<1>3. PlaceOK(q, p[q]) /\ p[q].fresh \in Objects /\ p[q].acct \in Objects
    BY Before, ObjectsTyped
<1>4. CASE Persist(q)
  <2>1. p[q].got = live /\ row.gen < live /\ row.ver < live
    <3>1. p[q].got # 0
        BY <1>3, <1>4 DEF PlaceOK, Persist
    <3>2. QED  BY <3>1, Waiting
  <2>2. row'.gen = live /\ row'.ver = live
    <3>1. row' = [row EXCEPT !.gen = live, !.ver = live, !.due = FALSE]
        BY <1>4, <2>1 DEF Persist, Refreshed
    <3>2. QED  BY <1>1, <3>1 DEF Accounts
  <2>3. QED  BY <1>1, <2>1, <2>2
<1>5. CASE AdminSave(q)
  <2>1. p[q].got = live /\ row.gen < live /\ p[q].fresh.gen + 1 = live
    <3>1. p[q].got # 0 /\ p[q].fresh.gen + 1 = p[q].got
        BY <1>3, <1>5 DEF PlaceOK, AdminSave
    <3>2. QED  BY <3>1, Waiting
  <2>2. row.ver <= p[q].fresh.ver /\ p[q].fresh.ver \in Nat
    <3>1. p[q].fresh.gen \in Nat /\ p[q].fresh.ver \in Nat
        BY <1>3, ObjectsTyped DEF Inv
    <3>2. row.gen <= p[q].fresh.gen
        BY <1>1, <2>1, <3>1
    <3>3. QED  BY <1>1, <1>3, <3>1, <3>2 DEF Inv, Ordered
  <2>3. row'.gen = live /\ row'.ver = p[q].fresh.ver
    <3>1. row' = [row EXCEPT !.gen = live, !.ver = p[q].fresh.ver, !.due = FALSE]
        BY <1>5, <2>1 DEF AdminSave
    <3>2. QED  BY <1>1, <3>1 DEF Accounts
  <2>4. QED  BY <1>1, <2>1, <2>2, <2>3
<1>6. CASE ForceRefresh(q)
  <2>1. /\ row' = [row EXCEPT !.gen = p[q].acct.gen, !.ver = p[q].acct.ver, !.due = TRUE]
        /\ p[q].acct.gen < row.gen => "overwritten" \in causes'
      BY <1>6 DEF ForceRefresh
  <2>2. row'.gen = p[q].acct.gen /\ row'.ver = p[q].acct.ver /\ row'.due = TRUE
      BY <1>1, <2>1 DEF Accounts
  <2>3. p[q].acct.gen \in Nat /\ p[q].acct.ver \in Nat
      BY <1>3, ObjectsTyped DEF Inv
  <2>4. CASE p[q].acct.gen < row.gen
      BY <2>1, <2>2, <2>4
  <2>5. CASE row.gen < p[q].acct.gen
    <3>1. row.ver <= p[q].acct.ver
        BY <1>1, <1>3, <2>3, <2>5 DEF Inv, Ordered
    <3>2. QED  BY <1>1, <2>2, <2>3, <2>5, <3>1
  <2>6. QED  BY <1>1, <2>2, <2>3, <2>4, <2>5
<1>7. QED  BY <1>2, <1>4, <1>5, <1>6

\* The live refresh token is stored or on its way there, the pairs reach the
\* row in the order the supplier issued them, and the account is disabled,
\* each but for a named cause.
THEOREM CredentialsStaySound == Spec => CredentialsSound
<1>1. Inv => TypeOK /\ LiveTokenKept /\ DisabledWithCause
    BY DEF Inv
<1>2. Inv /\ [Next]_vars =>
        [row'.gen # row.gen =>
           \/ row'.gen > row.gen /\ row'.ver >= row.ver
           \/ row'.due /\ "overwritten" \in causes']_vars
    BY StoresForward
<1>3. QED  BY <1>1, <1>2, Invariance, PTL DEF Spec, CredentialsSound, StoredForward

-----------------------------------------------------------------------------
(***************************************************************************)
(* The queue of user messages, which the run checks beside the refresh:    *)
(* for any messages, times to live and finite set of delays. While nothing *)
(* befell the lock, every message that is past it owns it; and an owner    *)
(* has waited for what was left of a delay, since only an owner's release  *)
(* starts the gap anew.                                                    *)
(***************************************************************************)
\* A finite set of numbers that is not empty has a greatest and a least one.
LEMMA GreatestDelay ==
    ASSUME NEW D, D # {}, D \subseteq Nat, IsFiniteSet(D)
    PROVE  \E d \in D : \A e \in D : e <= d
<1> DEFINE Lacking == {S \in SUBSET D : S # {} /\ \A d \in S : \E e \in S : ~(e <= d)}
<1> SUFFICES ASSUME Lacking # {} PROVE FALSE
    <2>1. D \notin Lacking
        OBVIOUS
    <2> QED BY <2>1
<1>1. Lacking \subseteq FiniteSubsetsOf(D)
    BY FS_Subset DEF FiniteSubsetsOf
<1>2. PICK S \in Lacking : \A T \in Lacking : ~(<<T, S>> \in StrictSubsetOrdering(D))
    BY <1>1, WFMin, FS_StrictSubsetOrderingWellFounded, Zenon
<1>3. PICK x \in S : TRUE
    OBVIOUS
<1>4. S \ {x} # {}
    BY <1>3
<1>5. S \ {x} \notin Lacking
    BY <1>2, <1>3 DEF StrictSubsetOrdering
<1>6. PICK d \in S \ {x} : \A e \in S \ {x} : e <= d
    BY <1>4, <1>5
<1>7. x \in Nat /\ d \in Nat /\ S \subseteq Nat
    BY <1>3, <1>6
<1>8. CASE x <= d
    BY <1>6, <1>7, <1>8
<1>9. CASE ~(x <= d)
    <2>1. \A e \in S : e <= x
        BY <1>6, <1>7, <1>9
    <2> QED BY <2>1, <1>3
<1> QED BY <1>8, <1>9

LEMMA LeastDelay ==
    ASSUME NEW D, D # {}, D \subseteq Nat
    PROVE  \E d \in D : \A e \in D : d <= e
<1>1. PICK d \in D : \A e \in D : ~(<<e, d>> \in OpToRel(<, Nat))
    BY WFMin, NatLessThanWellFounded, Zenon
<1>2. \A e \in D : ~(e < d)
    BY <1>1 DEF OpToRel
<1> QED BY <1>2

\* The longest and the shortest delay are delays, and bound them.
LEMMA DelayBounds ==
    /\ Q!LongAgo \in Nat /\ Q!Shortest \in Nat
    /\ \A d \in Delays : d \in Nat /\ d <= Q!LongAgo /\ Q!Shortest <= d
    /\ Q!Shortest <= Q!LongAgo
<1>1. Delays # {} /\ Delays \subseteq Nat /\ IsFiniteSet(Delays)
    BY MessagesAssumption DEF Q!QueueAssumption, Q!IsFiniteSet, IsFiniteSet
<1>2. \E d \in Delays : \A e \in Delays : e <= d
    BY <1>1, GreatestDelay
<1>3. \E d \in Delays : \A e \in Delays : d <= e
    BY <1>1, LeastDelay
<1>4. Q!LongAgo \in Delays /\ \A e \in Delays : e <= Q!LongAgo
    BY <1>2 DEF Q!LongAgo
<1>5. Q!Shortest \in Delays /\ \A e \in Delays : Q!Shortest <= e
    BY <1>3 DEF Q!Shortest
<1> QED BY <1>1, <1>4, <1>5

InQueue == {"check", "delay", "send", "sending", "accepted"}

\* While nothing befell the lock, whoever is past it owns it.
Holding ==
    marks = {} => \A m \in Messages :
        msg[m].pc \in InQueue => msg[m].locked /\ Q!Owns(m)

\* An owner waits for what is left of a delay, and has waited for it.
Spaced ==
    "failed" \notin marks => \A m \in Messages : Q!Owns(m) =>
        /\ msg[m].pc = "delay" => gap + msg[m].due >= Q!Shortest
        /\ msg[m].pc = "send" => gap >= Q!Shortest

QueueInv == Q!TypeOK /\ Holding /\ Spaced

\* One message moves: the lock of the others and the gap they keep stay.
LEMMA MessageMoves ==
    ASSUME QueueInv, Q!TypeOK', NEW m \in Messages,
           \A s \in Messages : s # m => msg'[s] = msg[s] /\ (Q!Owns(s)' <=> Q!Owns(s)),
           gap' = gap \/ \A s \in Messages : s # m => ~Q!Owns(s),
           marks \subseteq marks',
           marks' = {} /\ msg'[m].pc \in InQueue => msg'[m].locked /\ Q!Owns(m)',
           "failed" \notin marks' /\ Q!Owns(m)' =>
               /\ msg'[m].pc = "delay" => gap' + msg'[m].due >= Q!Shortest
               /\ msg'[m].pc = "send" => gap' >= Q!Shortest
    PROVE  QueueInv'
<1>1. Holding'
    <2> SUFFICES ASSUME marks' = {}, NEW s \in Messages, msg'[s].pc \in InQueue
                 PROVE  msg'[s].locked /\ Q!Owns(s)'
        BY DEF Holding
    <2>1. marks = {}
        OBVIOUS
    <2>2. CASE s # m
        BY <2>1, <2>2 DEF QueueInv, Holding
    <2> QED BY <2>2
<1>2. Spaced'
    <2> SUFFICES ASSUME "failed" \notin marks', NEW s \in Messages, Q!Owns(s)'
                 PROVE  /\ msg'[s].pc = "delay" => gap' + msg'[s].due >= Q!Shortest
                        /\ msg'[s].pc = "send" => gap' >= Q!Shortest
        BY DEF Spaced
    <2>1. "failed" \notin marks
        OBVIOUS
    <2>2. CASE s # m
        <3>1. Q!Owns(s) /\ msg'[s] = msg[s] /\ gap' = gap
            BY <2>2
        <3>2. /\ msg[s].pc = "delay" => gap + msg[s].due >= Q!Shortest
              /\ msg[s].pc = "send" => gap >= Q!Shortest
            BY <2>1, <3>1 DEF QueueInv, Spaced
        <3> QED BY <3>1, <3>2
    <2> QED BY <2>2
<1> QED BY <1>1, <1>2 DEF QueueInv

\* The states of the lock.
LEMMA LockKinds ==
    ASSUME Q!TypeOK
    PROVE  /\ \A m \in Messages, known \in BOOLEAN :
                 /\ Q!Lock(m, known) \in Q!Locks
                 /\ Q!Lock(m, known).held /\ Q!Lock(m, known).by = m
                 /\ Q!Lock(m, known).known = known
           /\ Q!Free \in Q!Locks /\ ~Q!Free.held
           /\ lock.held => /\ lock.by \in Messages /\ lock.known \in BOOLEAN
                           /\ lock.ttl \in 0 .. TTL /\ lock.endless \in BOOLEAN
                           /\ [lock EXCEPT !.known = FALSE] \in Q!Locks
                           /\ ~[lock EXCEPT !.known = FALSE].known
                           /\ [lock EXCEPT !.endless = TRUE] \in Q!Locks
<1>1. TTL \in Nat
    BY MessagesAssumption DEF Q!QueueAssumption
<1>2. \A m \in Messages, known \in BOOLEAN : Q!Lock(m, known) \in Q!Locks
    BY <1>1 DEF Q!Lock, Q!Locks
<1>3. \A m \in Messages, known \in BOOLEAN :
          Q!Lock(m, known).held /\ Q!Lock(m, known).by = m /\ Q!Lock(m, known).known = known
    BY DEF Q!Lock
<1>4. Q!Free \in Q!Locks /\ ~Q!Free.held
    BY DEF Q!Locks, Q!Free
<1>5. ASSUME lock.held
      PROVE  lock \in [held : {TRUE}, by : Messages, known : BOOLEAN, ttl : 0..TTL,
                       endless : BOOLEAN]
    <2>1. lock # Q!Free
        BY <1>4, <1>5
    <2> QED BY <2>1 DEF Q!TypeOK, Q!Locks
<1>6. ASSUME lock.held
      PROVE  /\ [lock EXCEPT !.known = FALSE] \in Q!Locks
             /\ ~[lock EXCEPT !.known = FALSE].known
             /\ [lock EXCEPT !.endless = TRUE] \in Q!Locks
    BY <1>5, <1>6 DEF Q!Locks
<1> QED BY <1>2, <1>3, <1>4, <1>5, <1>6

\* A message moves on.
MessagePlaces ==
    {"new", "acquire", "check", "delay", "send", "sending", "accepted", "done"}

LEMMA MessageMovesTo ==
    ASSUME Q!TypeOK, NEW m \in Messages, NEW pc \in MessagePlaces, Q!Moves(m, pc)
    PROVE  /\ msg' \in [Messages -> Q!Request]
           /\ msg'[m].pc = pc /\ msg'[m].locked = msg[m].locked /\ msg'[m].due = msg[m].due
           /\ \A s \in Messages : s # m => msg'[s] = msg[s]
<1> DEFINE c == [msg[m] EXCEPT !.pc = pc]
<1>1. msg \in [Messages -> Q!Request] /\ msg[m] \in Q!Request
    BY DEF Q!TypeOK
<1>2. c \in Q!Request
    BY <1>1 DEF Q!Request, MessagePlaces
<1>3. c.pc = pc /\ c.locked = msg[m].locked /\ c.due = msg[m].due
    BY <1>1 DEF Q!Request
<1>4. msg' = [msg EXCEPT ![m] = c]
    BY DEF Q!Moves
<1> HIDE DEF c
<1> QED BY <1>1, <1>2, <1>3, <1>4

\* The lock and the gap stay.
LEMMA LockStays ==
    ASSUME QueueInv, NEW m \in Messages,
           msg' \in [Messages -> Q!Request],
           \A s \in Messages : s # m => msg'[s] = msg[s],
           UNCHANGED <<lock, gap, scanned, msgFaults>>,
           marks' = marks \/ marks' = marks \cup {"failed"},
           marks' = {} /\ msg'[m].pc \in InQueue => msg'[m].locked /\ Q!Owns(m),
           "failed" \notin marks' /\ Q!Owns(m) =>
               /\ msg'[m].pc = "delay" => gap + msg'[m].due >= Q!Shortest
               /\ msg'[m].pc = "send" => gap >= Q!Shortest
    PROVE  QueueInv'
<1>1. Q!TypeOK'
    BY DEF QueueInv, Q!TypeOK, Q!Causes
<1>2. \A s \in Messages : Q!Owns(s)' <=> Q!Owns(s)
    BY DEF Q!Owns
<1> QED BY <1>1, <1>2, MessageMoves

\* What a message may rely on.
LEMMA MessageFacts ==
    ASSUME QueueInv, NEW m \in Messages
    PROVE  /\ marks = {} /\ msg[m].pc \in InQueue => msg[m].locked /\ Q!Owns(m)
           /\ "failed" \notin marks /\ Q!Owns(m) =>
                 /\ msg[m].pc = "delay" => gap + msg[m].due >= Q!Shortest
                 /\ msg[m].pc = "send" => gap >= Q!Shortest
           /\ msg \in [Messages -> Q!Request] /\ msg[m] \in Q!Request
           /\ msg[m].due \in 0 .. Q!LongAgo /\ msg[m].locked \in BOOLEAN
           /\ gap \in 0 .. Q!LongAgo
    BY DEF QueueInv, Holding, Spaced, Q!TypeOK, Q!Request

\* The steps, one by one.
LEMMA ArriveKeepsQueue == ASSUME QueueInv, NEW m \in Messages, Q!Arrive(m) PROVE QueueInv'
<1>1. /\ msg' \in [Messages -> Q!Request] /\ msg'[m].pc = "acquire"
      /\ \A s \in Messages : s # m => msg'[s] = msg[s]
    BY MessageMovesTo DEF QueueInv, Q!Arrive, MessagePlaces
<1> QED BY <1>1, LockStays DEF Q!Arrive, InQueue

LEMMA CancelKeepsQueue == ASSUME QueueInv, NEW m \in Messages, Q!Cancel(m) PROVE QueueInv'
<1> DEFINE c == [msg[m] EXCEPT !.live = FALSE]
<1>1. c \in Q!Request
    BY MessageFacts DEF Q!Request
<1>2. c.pc = msg[m].pc /\ c.locked = msg[m].locked /\ c.due = msg[m].due
    BY MessageFacts DEF Q!Request
<1>3. msg' = [msg EXCEPT ![m] = c]
    BY DEF Q!Cancel
<1> HIDE DEF c
<1>4. /\ msg' \in [Messages -> Q!Request] /\ msg'[m] = c
      /\ \A s \in Messages : s # m => msg'[s] = msg[s]
    BY <1>1, <1>3, MessageFacts
<1> QED BY <1>2, <1>4, LockStays, MessageFacts DEF Q!Cancel

LEMMA GiveUpKeepsQueue == ASSUME QueueInv, NEW m \in Messages, Q!GiveUp(m) PROVE QueueInv'
<1>1. /\ msg' \in [Messages -> Q!Request]
      /\ \A s \in Messages : s # m => msg'[s] = msg[s]
    BY MessageMovesTo DEF QueueInv, Q!GiveUp, MessagePlaces
<1> QED BY <1>1, LockStays DEF Q!GiveUp, Q!Mark

LEMMA EnforceDelayKeepsQueue ==
    ASSUME QueueInv, NEW m \in Messages, Q!EnforceDelay(m) PROVE QueueInv'
<1>1. PICK d \in Delays :
          msg' = [msg EXCEPT ![m].pc = "delay", ![m].due = IF gap < d THEN d - gap ELSE 0]
    BY DEF Q!EnforceDelay
<1>2. gap \in Nat /\ gap <= Q!LongAgo /\ d \in Nat /\ d <= Q!LongAgo /\ Q!Shortest <= d
      /\ Q!LongAgo \in Nat /\ Q!Shortest \in Nat
    BY MessageFacts, DelayBounds
<1>3. PICK x \in 0 .. Q!LongAgo : x = (IF gap < d THEN d - gap ELSE 0)
    <2>1. CASE gap < d
        <3>1. d - gap \in 0 .. Q!LongAgo
            BY <1>2, <2>1
        <3> QED BY <2>1, <3>1
    <2>2. CASE ~(gap < d)
        <3>1. 0 \in 0 .. Q!LongAgo
            BY <1>2
        <3> QED BY <2>2, <3>1
    <2> QED BY <2>1, <2>2
<1>4. gap + x >= Q!Shortest
    BY <1>2, <1>3
<1> DEFINE b == [msg[m] EXCEPT !.pc = "delay"]
           c == [b EXCEPT !.due = x]
<1>5. b \in Q!Request /\ b.pc = "delay" /\ b.locked = msg[m].locked
    BY MessageFacts DEF Q!Request
<1>6. c \in Q!Request /\ c.pc = "delay" /\ c.locked = msg[m].locked /\ c.due = x
    BY <1>5 DEF Q!Request
<1>7. msg' = [msg EXCEPT ![m] = c]
    BY <1>1, <1>3, MessageFacts DEF Q!Request
<1> HIDE DEF b, c
<1>8. /\ msg' \in [Messages -> Q!Request] /\ msg'[m] = c
      /\ \A s \in Messages : s # m => msg'[s] = msg[s]
    BY <1>6, <1>7, MessageFacts
<1>9. marks' = {} => msg[m].locked /\ Q!Owns(m)
    BY MessageFacts DEF Q!EnforceDelay, InQueue
<1> QED BY <1>4, <1>6, <1>8, <1>9, LockStays DEF Q!EnforceDelay

LEMMA DelayUnknownKeepsQueue ==
    ASSUME QueueInv, NEW m \in Messages, Q!DelayUnknown(m) PROVE QueueInv'
<1>1. /\ msg' \in [Messages -> Q!Request]
      /\ \A s \in Messages : s # m => msg'[s] = msg[s]
    BY MessageMovesTo DEF QueueInv, Q!DelayUnknown, MessagePlaces
<1> QED BY <1>1, LockStays DEF Q!DelayUnknown, Q!Mark

LEMMA DelayEndsKeepsQueue ==
    ASSUME QueueInv, NEW m \in Messages, Q!DelayEnds(m) PROVE QueueInv'
<1>1. /\ msg' \in [Messages -> Q!Request] /\ msg'[m].pc = "send"
      /\ msg'[m].locked = msg[m].locked
      /\ \A s \in Messages : s # m => msg'[s] = msg[s]
    BY MessageMovesTo DEF QueueInv, Q!DelayEnds, MessagePlaces
<1>2. "failed" \notin marks /\ Q!Owns(m) => gap >= Q!Shortest
    <2>1. "failed" \notin marks /\ Q!Owns(m) => gap + 0 >= Q!Shortest
        BY MessageFacts DEF Q!DelayEnds
    <2>2. gap + 0 = gap
        BY MessageFacts, DelayBounds
    <2> QED BY <2>1, <2>2
<1>3. marks = {} => msg[m].locked /\ Q!Owns(m)
    BY MessageFacts DEF Q!DelayEnds, InQueue
<1> QED BY <1>1, <1>2, <1>3, LockStays DEF Q!DelayEnds

LEMMA SendKeepsQueue == ASSUME QueueInv, NEW m \in Messages, Q!Send(m) PROVE QueueInv'
<1>1. /\ msg' \in [Messages -> Q!Request] /\ msg'[m].pc = "sending"
      /\ msg'[m].locked = msg[m].locked
      /\ \A s \in Messages : s # m => msg'[s] = msg[s]
    BY MessageMovesTo DEF QueueInv, Q!Send, MessagePlaces
<1>2. marks = {} => msg[m].locked /\ Q!Owns(m)
    BY MessageFacts DEF Q!Send, InQueue
<1> QED BY <1>1, <1>2, LockStays DEF Q!Send

LEMMA AcceptKeepsQueue == ASSUME QueueInv, NEW m \in Messages, Q!Accept(m) PROVE QueueInv'
<1>0. PICK pc \in {"accepted", "done"} : pc = (IF msg[m].locked THEN "accepted" ELSE "done")
    OBVIOUS
<1>1. /\ msg' \in [Messages -> Q!Request] /\ msg'[m].pc = pc
      /\ msg'[m].locked = msg[m].locked
      /\ \A s \in Messages : s # m => msg'[s] = msg[s]
    <2>1. Q!Moves(m, pc)
        BY <1>0 DEF Q!Accept
    <2> QED BY <2>1, MessageMovesTo DEF QueueInv, MessagePlaces
<1>2. marks = {} => msg[m].locked /\ Q!Owns(m)
    BY MessageFacts DEF Q!Accept, InQueue
<1> QED BY <1>1, <1>2, LockStays DEF Q!Accept

\* The lock passes to a message, or is taken for one that does not know it.
LEMMA AcquireLockKeepsQueue ==
    ASSUME QueueInv, NEW m \in Messages, Q!AcquireLock(m) PROVE QueueInv'
<1> DEFINE c == [msg[m] EXCEPT !.pc = "check", !.locked = TRUE]
<1>1. c \in Q!Request
    BY MessageFacts DEF Q!Request
<1>2. c.pc = "check" /\ c.locked
    BY MessageFacts DEF Q!Request
<1>3. msg' = [msg EXCEPT ![m] = c]
    BY MessageFacts DEF Q!AcquireLock
<1> HIDE DEF c
<1>4. /\ msg' \in [Messages -> Q!Request] /\ msg'[m] = c
      /\ \A s \in Messages : s # m => msg'[s] = msg[s]
    BY <1>1, <1>3, MessageFacts
<1>5. lock' \in Q!Locks /\ lock'.held /\ lock'.by = m /\ lock'.known
    BY LockKinds DEF QueueInv, Q!AcquireLock
<1>6. Q!Owns(m)' /\ \A s \in Messages : s # m => ~Q!Owns(s)' /\ ~Q!Owns(s)
    BY <1>5 DEF Q!Owns, Q!AcquireLock
<1>7. Q!TypeOK' /\ UNCHANGED <<gap, marks>>
    BY <1>4, <1>5 DEF QueueInv, Q!TypeOK, Q!AcquireLock
<1> QED BY <1>2, <1>4, <1>6, <1>7, MessageMoves

LEMMA AcquireFailsKeepsQueue ==
    ASSUME QueueInv, NEW m \in Messages, Q!AcquireFails(m) PROVE QueueInv'
<1>1. /\ msg' \in [Messages -> Q!Request] /\ msg'[m].pc = "check"
      /\ \A s \in Messages : s # m => msg'[s] = msg[s]
    BY MessageMovesTo DEF QueueInv, Q!AcquireFails, MessagePlaces
<1>2. lock' = lock \/ (~lock.held /\ lock' = Q!Lock(m, FALSE))
    BY DEF Q!AcquireFails
<1>3. lock' \in Q!Locks /\ \A s \in Messages : Q!Owns(s)' <=> Q!Owns(s)
    <2>1. CASE lock' = lock
        BY <2>1 DEF QueueInv, Q!TypeOK, Q!Owns
    <2>2. CASE ~lock.held /\ lock' = Q!Lock(m, FALSE)
        <3>1. lock' \in Q!Locks /\ lock'.known = FALSE
            BY <2>2, LockKinds DEF QueueInv
        <3> QED BY <2>2, <3>1 DEF Q!Owns
    <2> QED BY <1>2, <2>1, <2>2
<1>4. marks' = marks \cup {"failed"} /\ UNCHANGED <<gap, scanned, msgFaults>>
    BY DEF Q!AcquireFails, Q!Mark
<1>5. Q!TypeOK'
    BY <1>1, <1>3, <1>4 DEF QueueInv, Q!TypeOK, Q!Causes
<1> QED BY <1>1, <1>3, <1>4, <1>5, MessageMoves

\* The lock is given back or lost; the others' stays.
LEMMA LockGoes ==
    ASSUME QueueInv, NEW m \in Messages,
           \/ Q!ReleaseLock(m)
           \/ UNCHANGED gap /\ lock' = IF Q!Owns(m) THEN [lock EXCEPT !.known = FALSE] ELSE lock
    PROVE  /\ lock' \in Q!Locks /\ gap' \in 0 .. Q!LongAgo
           /\ ~Q!Owns(m)'
           /\ \A s \in Messages : s # m => (Q!Owns(s)' <=> Q!Owns(s))
           /\ gap' = gap \/ \A s \in Messages : s # m => ~Q!Owns(s)
<1>0. lock \in Q!Locks /\ gap \in 0 .. Q!LongAgo /\ 0 \in 0 .. Q!LongAgo
    BY DelayBounds DEF QueueInv, Q!TypeOK
<1>1. CASE ~Q!Owns(m)
    <2>1. UNCHANGED <<lock, gap>>
        BY <1>1 DEF Q!ReleaseLock
    <2> QED BY <1>0, <1>1, <2>1 DEF Q!Owns
<1>2. CASE Q!Owns(m)
    <2>1. lock.held /\ \A s \in Messages : s # m => ~Q!Owns(s)
        BY <1>2 DEF Q!Owns
    <2>2. \/ lock' = Q!Free /\ gap' = 0
          \/ lock' = [lock EXCEPT !.known = FALSE] /\ gap' = gap
        BY <1>2 DEF Q!ReleaseLock
    <2>3. lock' \in Q!Locks /\ (~lock'.held \/ ~lock'.known)
        BY <2>1, <2>2, LockKinds DEF QueueInv
    <2>4. \A s \in Messages : ~Q!Owns(s)'
        BY <2>3 DEF Q!Owns
    <2> QED BY <1>0, <2>1, <2>2, <2>3, <2>4
<1> QED BY <1>1, <1>2

LEMMA DelayCancelledKeepsQueue ==
    ASSUME QueueInv, NEW m \in Messages, Q!DelayCancelled(m) PROVE QueueInv'
<1> DEFINE c == [msg[m] EXCEPT !.pc = "send", !.locked = FALSE]
<1>1. c \in Q!Request
    BY MessageFacts DEF Q!Request
<1>2. msg' = [msg EXCEPT ![m] = c]
    BY MessageFacts DEF Q!DelayCancelled
<1> HIDE DEF c
<1>3. /\ msg' \in [Messages -> Q!Request]
      /\ \A s \in Messages : s # m => msg'[s] = msg[s]
    BY <1>1, <1>2, MessageFacts
<1>4. /\ lock' \in Q!Locks /\ gap' \in 0 .. Q!LongAgo /\ ~Q!Owns(m)'
      /\ \A s \in Messages : s # m => (Q!Owns(s)' <=> Q!Owns(s))
      /\ gap' = gap \/ \A s \in Messages : s # m => ~Q!Owns(s)
    BY LockGoes DEF Q!DelayCancelled
<1>5. marks' = marks \cup {"failed"} /\ UNCHANGED <<scanned, msgFaults>>
    BY DEF Q!DelayCancelled, Q!Mark
<1>6. Q!TypeOK'
    BY <1>3, <1>4, <1>5 DEF QueueInv, Q!TypeOK, Q!Causes
<1> QED BY <1>3, <1>4, <1>5, <1>6, MessageMoves

LEMMA ReleasedKeepsQueue ==
    ASSUME QueueInv, NEW m \in Messages, Q!MayRelease(m), Q!AfterRelease(m),
           UNCHANGED scanned, msgFaults' \in 0 .. MaxFaults,
           \/ Q!ReleaseLock(m)
           \/ UNCHANGED gap /\ lock' = IF Q!Owns(m) THEN [lock EXCEPT !.known = FALSE] ELSE lock
    PROVE  QueueInv'
<1>0. PICK pc \in MessagePlaces : pc = (IF msg[m].pc = "accepted" THEN "done" ELSE msg[m].pc)
    BY MessageFacts DEF Q!Request, MessagePlaces
<1> DEFINE c == [msg[m] EXCEPT !.locked = FALSE, !.pc = pc]
<1>1. c \in Q!Request
    BY MessageFacts DEF Q!Request, MessagePlaces
<1>2. c.pc = pc
    BY MessageFacts DEF Q!Request
<1>3. msg' = [msg EXCEPT ![m] = c]
    BY <1>0, MessageFacts DEF Q!AfterRelease, Q!Request
<1> HIDE DEF c
<1>4. /\ msg' \in [Messages -> Q!Request] /\ msg'[m] = c
      /\ \A s \in Messages : s # m => msg'[s] = msg[s]
    BY <1>1, <1>3, MessageFacts
<1>5. /\ lock' \in Q!Locks /\ gap' \in 0 .. Q!LongAgo /\ ~Q!Owns(m)'
      /\ \A s \in Messages : s # m => (Q!Owns(s)' <=> Q!Owns(s))
      /\ gap' = gap \/ \A s \in Messages : s # m => ~Q!Owns(s)
    BY LockGoes
<1>6. /\ marks' = marks \/ marks' = marks \cup {"cancelled"}
      /\ marks' = {} => msg'[m].pc = "done"
    BY <1>0, <1>2, <1>4 DEF Q!AfterRelease, Q!Mark
<1>7. Q!TypeOK'
    BY <1>4, <1>5, <1>6 DEF QueueInv, Q!TypeOK, Q!Causes
<1> QED BY <1>4, <1>5, <1>6, <1>7, MessageMoves DEF InQueue

LEMMA ReleaseKeepsQueue == ASSUME QueueInv, NEW m \in Messages, Q!Release(m) PROVE QueueInv'
<1>1. msgFaults' \in 0 .. MaxFaults
    BY DEF QueueInv, Q!TypeOK, Q!Release
<1> QED BY <1>1, ReleasedKeepsQueue DEF Q!Release

LEMMA ReleaseFailsKeepsQueue ==
    ASSUME QueueInv, NEW m \in Messages, Q!ReleaseFails(m) PROVE QueueInv'
<1>1. msgFaults' \in 0 .. MaxFaults
    BY MessagesAssumption DEF QueueInv, Q!TypeOK, Q!ReleaseFails, Q!Fault, Q!QueueAssumption
<1> QED BY <1>1, ReleasedKeepsQueue DEF Q!ReleaseFails

LEMMA CrashKeepsQueue == ASSUME QueueInv, NEW m \in Messages, Q!Crash(m) PROVE QueueInv'
<1> DEFINE c == [msg[m] EXCEPT !.pc = "done", !.locked = FALSE]
<1>1. c \in Q!Request /\ c.pc = "done"
    BY MessageFacts DEF Q!Request
<1>2. msg' = [msg EXCEPT ![m] = c]
    BY MessageFacts DEF Q!Crash
<1> HIDE DEF c
<1>3. /\ msg' \in [Messages -> Q!Request] /\ msg'[m] = c
      /\ \A s \in Messages : s # m => msg'[s] = msg[s]
    BY <1>1, <1>2, MessageFacts
<1>4. /\ lock' \in Q!Locks /\ gap' \in 0 .. Q!LongAgo /\ ~Q!Owns(m)'
      /\ \A s \in Messages : s # m => (Q!Owns(s)' <=> Q!Owns(s))
      /\ gap' = gap \/ \A s \in Messages : s # m => ~Q!Owns(s)
    BY LockGoes DEF Q!Crash
<1>5. msgFaults' \in 0 .. MaxFaults
    BY MessagesAssumption DEF QueueInv, Q!TypeOK, Q!Crash, Q!Fault, Q!QueueAssumption
<1>6. Q!TypeOK' /\ marks' = marks
    BY <1>3, <1>4, <1>5 DEF QueueInv, Q!TypeOK, Q!Crash
<1> QED BY <1>1, <1>3, <1>4, <1>6, MessageMoves DEF InQueue

\* Time passes and the worker looks: a lock in use that goes leaves its mark.
LEMMA LockLapses ==
    ASSUME QueueInv, Q!TypeOK',
           \A s \in Messages : /\ msg'[s].pc = msg[s].pc /\ msg'[s].locked = msg[s].locked
                               /\ gap' + msg'[s].due >= gap + msg[s].due \/ gap' >= Q!Shortest
                               /\ Q!Owns(s)' => Q!Owns(s),
           gap' >= gap \/ gap' >= Q!Shortest,
           marks \subseteq marks',
           \/ \A s \in Messages : Q!Owns(s)' <=> Q!Owns(s)
           \/ ~Q!InUse \/ marks' # {}
    PROVE  QueueInv'
<1>1. Holding'
    <2> SUFFICES ASSUME marks' = {}, NEW s \in Messages, msg'[s].pc \in InQueue
                 PROVE  msg'[s].locked /\ Q!Owns(s)'
        BY DEF Holding
    <2>1. marks = {}
        OBVIOUS
    <2>2. msg[s].locked /\ Q!Owns(s)
        BY <2>1 DEF QueueInv, Holding
    <2>3. Q!InUse
        BY <2>2 DEF Q!InUse, Q!Owns
    <2> QED BY <2>2, <2>3
<1>2. Spaced'
    <2> SUFFICES ASSUME "failed" \notin marks', NEW s \in Messages, Q!Owns(s)'
                 PROVE  /\ msg'[s].pc = "delay" => gap' + msg'[s].due >= Q!Shortest
                        /\ msg'[s].pc = "send" => gap' >= Q!Shortest
        BY DEF Spaced
    <2>1. /\ msg[s].pc = "delay" => gap + msg[s].due >= Q!Shortest
          /\ msg[s].pc = "send" => gap >= Q!Shortest
        BY DEF QueueInv, Spaced
    <2>2. /\ gap \in Nat /\ gap' \in Nat /\ Q!Shortest \in Nat
          /\ msg[s].due \in Nat /\ msg'[s].due \in Nat
        BY DelayBounds DEF QueueInv, Q!TypeOK, Q!Request
    <2> QED BY <2>1, <2>2
<1> QED BY <1>1, <1>2 DEF QueueInv

LEMMA TickKeepsQueue == ASSUME QueueInv, Q!Tick PROVE QueueInv'
<1>1. /\ gap \in Nat /\ gap <= Q!LongAgo /\ Q!LongAgo \in Nat /\ Q!Shortest \in Nat
      /\ Q!Shortest <= Q!LongAgo
    BY DelayBounds DEF QueueInv, Q!TypeOK
<1>2. gap' \in 0 .. Q!LongAgo /\ (gap' = gap + 1 \/ (gap' = gap /\ gap' >= Q!Shortest))
    BY <1>1 DEF Q!Tick
<1>3. msg' \in [Messages -> Q!Request] /\ \A s \in Messages :
          /\ msg'[s].pc = msg[s].pc /\ msg'[s].locked = msg[s].locked
          /\ msg'[s].due = Q!Lower(msg[s].due)
    <2>1. ASSUME NEW s \in Messages
          PROVE  /\ [msg[s] EXCEPT !.due = Q!Lower(@)] \in Q!Request
                 /\ [msg[s] EXCEPT !.due = Q!Lower(@)].pc = msg[s].pc
                 /\ [msg[s] EXCEPT !.due = Q!Lower(@)].locked = msg[s].locked
                 /\ [msg[s] EXCEPT !.due = Q!Lower(@)].due = Q!Lower(msg[s].due)
        <3>1. PICK d \in 0 .. Q!LongAgo : d = Q!Lower(msg[s].due)
            <4>1. msg[s].due \in Nat /\ msg[s].due <= Q!LongAgo
                BY MessageFacts, <1>1
            <4>2. Q!Lower(msg[s].due) \in 0 .. Q!LongAgo
                BY <4>1, <1>1 DEF Q!Lower
            <4> QED BY <4>2
        <3>2. [msg[s] EXCEPT !.due = Q!Lower(@)] = [msg[s] EXCEPT !.due = d]
            BY <3>1
        <3> QED BY <3>1, <3>2, MessageFacts DEF Q!Request
    <2>2. msg' = [s \in Messages |-> [msg[s] EXCEPT !.due = Q!Lower(@)]]
        BY DEF Q!Tick
    <2> QED BY <2>1, <2>2, Zenon
<1>4. \A s \in Messages : gap' + msg'[s].due >= gap + msg[s].due \/ gap' >= Q!Shortest
    <2>1. ASSUME NEW s \in Messages
          PROVE  gap' + msg'[s].due >= gap + msg[s].due \/ gap' >= Q!Shortest
        <3>1. msg[s].due \in Nat /\ msg'[s].due = IF msg[s].due > 0 THEN msg[s].due - 1 ELSE 0
            BY <1>3, <1>1, MessageFacts DEF Q!Lower
        <3> QED BY <1>1, <1>2, <3>1
    <2> QED BY <2>1
<1>5. gap' >= gap \/ gap' >= Q!Shortest
    BY <1>1, <1>2
<1>6. /\ lock' \in Q!Locks
      /\ \A s \in Messages : Q!Owns(s)' => Q!Owns(s)
      /\ (\A s \in Messages : Q!Owns(s)' <=> Q!Owns(s)) \/ ~Q!InUse \/ marks' # {}
      /\ marks' = marks \/ marks' = marks \cup {"expired"}
    <2>1. CASE lock.held /\ ~lock.endless /\ lock.ttl > 0
        <3>1. lock' = [lock EXCEPT !.ttl = @ - 1] /\ marks' = marks
            BY <2>1 DEF Q!Tick
        <3>2. PICK t \in 0 .. TTL : t = lock.ttl - 1
            BY <2>1, LockKinds, MessagesAssumption DEF QueueInv, Q!QueueAssumption
        <3>3. lock' = [lock EXCEPT !.ttl = t]
            BY <3>1, <3>2
        <3>4. lock \in [held : {TRUE}, by : Messages, known : BOOLEAN, ttl : 0..TTL,
                        endless : BOOLEAN]
            BY <2>1, LockKinds DEF QueueInv, Q!TypeOK, Q!Locks
        <3>5. lock' \in Q!Locks
            BY <3>3, <3>4 DEF Q!Locks
        <3>6. lock'.held = lock.held /\ lock'.by = lock.by /\ lock'.known = lock.known
            BY <3>3, <3>4
        <3> QED BY <3>1, <3>5, <3>6 DEF Q!Owns
    <2>2. CASE lock.held /\ ~lock.endless /\ ~(lock.ttl > 0)
        <3>1. lock' = Q!Free /\ IF Q!InUse THEN marks' = marks \cup {"expired"} ELSE marks' = marks
            BY <2>2 DEF Q!Tick, Q!Mark
        <3>2. lock' \in Q!Locks /\ ~lock'.held
            BY <3>1, LockKinds DEF QueueInv
        <3>3. \A s \in Messages : ~Q!Owns(s)'
            BY <3>2 DEF Q!Owns
        <3> QED BY <3>1, <3>2, <3>3
    <2>3. CASE ~(lock.held /\ ~lock.endless)
        <3>1. UNCHANGED <<lock, marks>>
            BY <2>3 DEF Q!Tick
        <3> QED BY <3>1 DEF Q!Owns, QueueInv, Q!TypeOK
    <2> QED BY <2>1, <2>2, <2>3
<1>7. Q!TypeOK'
    BY <1>2, <1>3, <1>6 DEF QueueInv, Q!TypeOK, Q!Tick, Q!Causes
<1>8. marks \subseteq marks'
    BY <1>6
<1> QED BY <1>3, <1>4, <1>5, <1>6, <1>7, <1>8, LockLapses

LEMMA LoseTTLKeepsQueue == ASSUME QueueInv, Q!LoseTTL PROVE QueueInv'
<1>1. /\ lock.held /\ lock' = [lock EXCEPT !.endless = TRUE]
      /\ UNCHANGED <<gap, msg, scanned, marks>>
    BY DEF Q!LoseTTL
<1>2. lock' \in Q!Locks
    BY <1>1, LockKinds DEF QueueInv
<1>3. lock \in [held : {TRUE}, by : Messages, known : BOOLEAN, ttl : 0..TTL, endless : BOOLEAN]
    BY <1>1, LockKinds DEF QueueInv, Q!TypeOK, Q!Locks
<1>4. lock'.held = lock.held /\ lock'.by = lock.by /\ lock'.known = lock.known
    BY <1>1, <1>3
<1>5. \A s \in Messages : Q!Owns(s)' <=> Q!Owns(s)
    BY <1>4 DEF Q!Owns
<1>6. msgFaults' \in 0 .. MaxFaults
    BY MessagesAssumption DEF QueueInv, Q!TypeOK, Q!LoseTTL, Q!Fault, Q!QueueAssumption
<1>7. Q!TypeOK'
    BY <1>1, <1>2, <1>6 DEF QueueInv, Q!TypeOK
<1>8. Holding' /\ Spaced'
    BY <1>1, <1>5 DEF QueueInv, Holding, Spaced
<1> QED BY <1>7, <1>8 DEF QueueInv

LEMMA ScanKeepsQueue == ASSUME QueueInv, Q!ScanLockKeys PROVE QueueInv'
<1>1. scanned' = TRUE /\ UNCHANGED <<lock, gap, msg, msgFaults, marks>>
    BY DEF Q!ScanLockKeys
<1>2. \A s \in Messages : Q!Owns(s)' <=> Q!Owns(s)
    BY <1>1 DEF Q!Owns
<1>3. Q!TypeOK'
    BY <1>1 DEF QueueInv, Q!TypeOK
<1>4. Holding' /\ Spaced'
    BY <1>1, <1>2 DEF QueueInv, Holding, Spaced
<1> QED BY <1>3, <1>4 DEF QueueInv

LEMMA ForceReleaseKeepsQueue == ASSUME QueueInv, Q!ForceReleaseLock PROVE QueueInv'
<1>1. scanned' = FALSE /\ UNCHANGED <<gap, msg, msgFaults>>
    BY DEF Q!ForceReleaseLock
<1>2. /\ lock' \in Q!Locks
      /\ \A s \in Messages : Q!Owns(s)' => Q!Owns(s)
      /\ (\A s \in Messages : Q!Owns(s)' <=> Q!Owns(s)) \/ ~Q!InUse \/ marks' # {}
      /\ marks' = marks \/ marks' = marks \cup {"forced"}
    <2>1. CASE lock.held /\ lock.endless
        <3>1. lock' = Q!Free /\ IF Q!InUse THEN marks' = marks \cup {"forced"} ELSE marks' = marks
            BY <2>1 DEF Q!ForceReleaseLock, Q!Mark
        <3>2. lock' \in Q!Locks /\ ~lock'.held
            BY <3>1, LockKinds DEF QueueInv
        <3>3. \A s \in Messages : ~Q!Owns(s)'
            BY <3>2 DEF Q!Owns
        <3> QED BY <3>1, <3>2, <3>3
    <2>2. CASE ~(lock.held /\ lock.endless)
        <3>1. UNCHANGED <<lock, marks>>
            BY <2>2 DEF Q!ForceReleaseLock
        <3> QED BY <3>1 DEF Q!Owns, QueueInv, Q!TypeOK
    <2> QED BY <2>1, <2>2
<1>3. Q!TypeOK'
    BY <1>1, <1>2 DEF QueueInv, Q!TypeOK, Q!Causes
<1>4. /\ marks \subseteq marks' /\ gap' >= gap
      /\ \A s \in Messages : gap' + msg'[s].due >= gap + msg[s].due
    <2>1. gap \in Nat /\ \A s \in Messages : msg[s].due \in Nat
        BY DelayBounds DEF QueueInv, Q!TypeOK, Q!Request
    <2> QED BY <1>1, <1>2, <2>1
<1> QED BY <1>1, <1>2, <1>3, <1>4, LockLapses

LEMMA QueueInit == Q!Init => QueueInv
<1> SUFFICES ASSUME Q!Init PROVE QueueInv
    OBVIOUS
<1> DEFINE c == [pc |-> "new", locked |-> FALSE, live |-> TRUE, due |-> 0]
<1>1. c \in Q!Request /\ c.pc = "new"
    BY DelayBounds DEF Q!Request
<1>2. msg = [m \in Messages |-> c]
    BY DEF Q!Init
<1> HIDE DEF c
<1>3. msg \in [Messages -> Q!Request] /\ \A m \in Messages : msg[m].pc = "new"
    BY <1>1, <1>2
<1>4. lock \in Q!Locks
    BY DEF Q!Init, Q!Locks
<1>5. /\ gap \in 0 .. Q!LongAgo /\ msgFaults \in 0 .. MaxFaults
      /\ scanned \in BOOLEAN /\ marks \subseteq Q!Causes
    <2>1. gap = Q!LongAgo /\ msgFaults = 0 /\ scanned = FALSE /\ marks = {}
        BY DEF Q!Init
    <2>2. Q!LongAgo \in Nat /\ MaxFaults \in Nat
        BY DelayBounds, MessagesAssumption DEF Q!QueueAssumption
    <2>3. gap \in 0 .. Q!LongAgo /\ msgFaults \in 0 .. MaxFaults
        BY <2>1, <2>2
    <2>4. scanned \in BOOLEAN /\ marks \subseteq Q!Causes
        BY <2>1
    <2> QED BY <2>3, <2>4
<1>6. Q!TypeOK
    BY <1>3, <1>4, <1>5 DEF Q!TypeOK
<1>7. Holding /\ Spaced
    BY <1>3 DEF Holding, Spaced, InQueue
<1> QED BY <1>6, <1>7 DEF QueueInv

LEMMA QueueNext == QueueInv /\ [Q!Next]_(Q!vars) => QueueInv'
<1> SUFFICES ASSUME QueueInv, [Q!Next]_(Q!vars) PROVE QueueInv'
    OBVIOUS
<1>1. ASSUME NEW m \in Messages,
             \/ Q!Arrive(m) \/ Q!Cancel(m) \/ Q!Step(m) \/ Q!GiveUp(m)
             \/ Q!DelayCancelled(m) \/ Q!Crash(m)
      PROVE  QueueInv'
    BY <1>1, ArriveKeepsQueue, CancelKeepsQueue, GiveUpKeepsQueue, EnforceDelayKeepsQueue,
       DelayUnknownKeepsQueue, DelayEndsKeepsQueue, SendKeepsQueue, AcceptKeepsQueue,
       AcquireLockKeepsQueue, AcquireFailsKeepsQueue, DelayCancelledKeepsQueue,
       ReleaseKeepsQueue, ReleaseFailsKeepsQueue, CrashKeepsQueue
    DEF Q!Step
<1>2. CASE Q!Tick \/ Q!LoseTTL \/ Q!ScanLockKeys \/ Q!ForceReleaseLock
    BY <1>2, TickKeepsQueue, LoseTTLKeepsQueue, ScanKeepsQueue, ForceReleaseKeepsQueue
<1>3. CASE UNCHANGED Q!vars
    <2>1. UNCHANGED <<lock, gap, msg, scanned, msgFaults, marks>>
        BY <1>3 DEF Q!vars
    <2>2. \A s \in Messages : Q!Owns(s)' <=> Q!Owns(s)
        BY <2>1 DEF Q!Owns
    <2>3. Q!TypeOK'
        BY <2>1 DEF QueueInv, Q!TypeOK
    <2>4. Holding' /\ Spaced'
        BY <2>1, <2>2 DEF QueueInv, Holding, Spaced
    <2> QED BY <2>3, <2>4 DEF QueueInv
<1> QED BY <1>1, <1>2, <1>3 DEF Q!Next

LEMMA QueueSteps ==
    /\ MCInit => Q!Init
    /\ [MCNext]_<<part, vars, queueVars>> => [Q!Next]_(Q!vars)
    BY DEF MCInit, MCNext, queueVars, Q!vars

LEMMA QueueInvariant == MCSpec => []QueueInv
<1>1. MCInit => QueueInv
    BY QueueSteps, QueueInit
<1>2. QueueInv /\ [MCNext]_<<part, vars, queueVars>> => QueueInv'
    BY QueueSteps, QueueNext
<1> QED BY <1>1, <1>2, PTL DEF MCSpec

\* Two that send both own the lock.
LEMMA OneSends == QueueInv => Q!Serialized
<1> SUFFICES ASSUME QueueInv, marks = {} PROVE Q!Cardinality(Q!Sending) <= 1
    BY DEF Q!Serialized
<1>1. \A m, n \in Q!Sending : m = n
    BY DEF QueueInv, Holding, Q!Sending, InQueue, Q!Owns
<1>2. Q!Cardinality(Q!Sending) = Cardinality(Q!Sending)
    BY DEF Q!Cardinality, Cardinality, Q!IsFiniteSet, IsFiniteSet
<1>3. CASE Q!Sending = {}
    BY <1>2, <1>3, FS_EmptySet
<1>4. CASE Q!Sending # {}
    <2>1. PICK m \in Q!Sending : TRUE
        BY <1>4
    <2>2. Q!Sending = {m}
        BY <1>1, <2>1
    <2> QED BY <1>2, <2>2, FS_Singleton
<1> QED BY <1>3, <1>4

\* Messages of an account are with the supplier one at a time, unless one of them went on
\* without the lock, lost it or gave it back with its client; and one that sends under
\* its own lock does so no sooner than the shortest delay after the last completion.
THEOREM MessagesAreSound == MCSpec => QueueSound
<1>1. QueueInv => Q!TypeOK /\ Q!Serialized
    BY OneSends DEF QueueInv
<1>2. QueueInv => \A r \in Messages :
                      Q!Send(r) /\ Q!Owns(r) /\ "failed" \notin marks => gap >= Q!Shortest
    BY DEF QueueInv, Spaced, Q!Send
<1>3. MCSpec => [](Q!TypeOK /\ Q!Serialized)
    BY <1>1, QueueInvariant, PTL
<1>4. MCSpec => Q!GapKept
    BY <1>2, QueueInvariant, PTL DEF Q!GapKept
<1> QED BY <1>3, <1>4 DEF QueueSound, Q!QueueSound

=============================================================================
