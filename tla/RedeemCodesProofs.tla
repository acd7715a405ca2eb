-------------------------- MODULE RedeemCodesProofs --------------------------
(***************************************************************************)
(* Proofs about RedeemCodes, for any sets of calls, saves and users: a row *)
(* is paid out once, the answers are true and the balances add up.  The    *)
(* argument of the first two follows the rows of the code: what a call or  *)
(* the administrator once read of a row stays true of it, as a row that    *)
(* left "unused" never returns to it.  That of the last is arithmetic over *)
(* finite sums, which the sum lemmas provide.                              *)
(***************************************************************************)
EXTENDS RedeemCodes, FiniteSetTheorems, WellFoundedInduction, TLAPS

-----------------------------------------------------------------------------
(* The inductive invariant. *)

\* What holds of a row of the code that was read at some time, the present included.
Known(row) ==
    /\ row.id <= lastId
    /\ row.id = 0 <=> row.status = "absent"
    /\ row.status = "unused" => row.usedBy = NoUser
    /\ row.id = code.id /\ row.status # "unused" => code.status # "unused"

\* Some call paid user u.
WasPaid(u) == \E d \in Calls : Paid(d) /\ call[d].user = u

\* A row names a user only if he was paid.
Backed(row) == value > 0 /\ row.usedBy # NoUser => WasPaid(row.usedBy)

\* Where a call can be after its transaction committed.
Settles(r) ==
    \/ r.pc \in {"reread", "ok", "error"}
    \/ r.pc = "unlock" /\ r.then \in {"ok", "error"}

\* What a call's own state says of it.
Coherent(r) ==
    /\ r.pc # "new" => r.user \in Users
    /\ r.then # "conflict"
    /\ r.paid # 0 => Settles(r) /\ r.seen.status = "unused"
    /\ r.pc \in {"readUser", "tx", "reread"} => r.seen.status = "unused"
    /\ r.pc = "conflict" => r.seen.usedBy # r.user
    /\ value > 0 /\ (r.pc = "reread" \/ (r.pc = "unlock" /\ r.then = "ok")) => r.paid # 0

RowsKnown ==
    /\ Known(code) /\ Known(expire.seen)
    /\ \A c \in Calls : Known(call[c].seen)

RowsBacked ==
    /\ Backed(code) /\ Backed(expire.seen)
    /\ \A c \in Calls : Backed(call[c].seen)

CallsCoherent == \A c \in Calls : Coherent(call[c])

\* A row that was paid out shows it ...
PaidRowIsUsed ==
    \A d \in Calls : call[d].paid # 0 /\ code.id = call[d].seen.id =>
        code.status # "unused" /\ (code.usedBy = call[d].user \/ expire.erased)

\* ... and so does whoever read it after the payment.
ReadersSawThePayment ==
    \A c, d \in Calls :
        /\ call[d].paid # 0 /\ call[c].seen.id = call[d].seen.id
        /\ call[c].seen.status # "unused" /\ ~expire.erased
        => call[c].seen.usedBy = call[d].user

PaidOnce ==
    \A c, d \in Calls :
        call[c].paid # 0 /\ call[d].paid # 0 /\ call[c].seen.id = call[d].seen.id => c = d

MovedStaysUnused == moved => code.status = "unused"

ErasedAtTheEnd == expire.erased => expire.pc = "done"

ExpireSawRow == expire.pc = "write" => expire.seen.id # 0

PaidInv ==
    /\ RowsKnown /\ RowsBacked /\ CallsCoherent /\ PaidRowIsUsed
    /\ ReadersSawThePayment /\ PaidOnce /\ MovedStaysUnused /\ ErasedAtTheEnd
    /\ ExpireSawRow /\ OkMeansPaid

Inv == TypeOK /\ PaidInv

-----------------------------------------------------------------------------
(* Types. *)

LEMMA InitInv == RedeemAssumption /\ Init => Inv
<1> SUFFICES ASSUME RedeemAssumption, Init PROVE Inv
    OBVIOUS
<1>1. TypeOK
  <2>1. code \in Codes /\ NoCode \in Codes
      BY DEF Init, NoCode, Codes
  <2>2. call \in [Calls -> Call]
      BY <2>1 DEF Init, Call, Answers
  <2>3. expire \in [pc : {"idle", "write", "done"}, seen : Codes, erased : BOOLEAN]
      BY <2>1 DEF Init
  <2>4. save \in [Saves -> [pc : {"idle", "write", "saved", "refused"}, user : Users \cup {NoUser},
                           delta : {0, 1}, balance : Int, stale : BOOLEAN]]
      BY DEF Init
  <2>5. value \in Values /\ lastId \in Nat /\ lock \in BOOLEAN /\ moved \in BOOLEAN
      BY DEF Init
  <2>6. /\ balance \in [Users -> Int] /\ errors \in [Users -> 0..MaxErrors]
        /\ debited \in [Users -> Nat]
      BY DEF RedeemAssumption, Init
  <2>7. QED  BY <2>1, <2>2, <2>3, <2>4, <2>5, <2>6 DEF TypeOK
<1>2. RowsKnown
    BY DEF Init, RowsKnown, Known, NoCode
<1>3. PaidInv
    BY <1>2 DEF Init, PaidInv, RowsBacked, Backed, CallsCoherent, Coherent, PaidRowIsUsed,
                ReadersSawThePayment, PaidOnce, MovedStaysUnused, ErasedAtTheEnd,
                ExpireSawRow, OkMeansPaid, NoCode
<1>4. QED  BY <1>1, <1>3 DEF Inv

LEMMA RowTypes ==
    ASSUME Inv
    PROVE  /\ NoCode \in Codes
           /\ [code EXCEPT !.status = "used"] \in Codes
           /\ [expire.seen EXCEPT !.status = "expired"] \in Codes
           /\ \A c \in Calls : [code EXCEPT !.status = "used", !.usedBy = call[c].user] \in Codes
    BY DEF Inv, TypeOK, NoCode, Codes, Call

\* A call after one of its steps.
Pcs == {"new", "lookup", "create", "lookupAgain", "limit", "lock", "read", "readUser", "tx",
        "reread", "unlock", "latest"} \cup Answers

CallBecomes(c, pc, user, seen, then, paid) ==
    /\ call' \in [Calls -> Call]
    /\ call'[c].pc = pc /\ call'[c].user = user /\ call'[c].seen = seen
    /\ call'[c].then = then /\ call'[c].paid = paid
    /\ \A d \in Calls \ {c} : call'[d] = call[d]

LEMMA GotoIs ==
    ASSUME TypeOK, NEW c \in Calls, NEW pc \in Pcs, Goto(c, pc)
    PROVE  CallBecomes(c, pc, call[c].user, call[c].seen, call[c].then, call[c].paid)
    BY DEF TypeOK, Goto, Call, CallBecomes, Pcs

LEMMA SeeIs ==
    ASSUME TypeOK, NEW c \in Calls, NEW pc \in Pcs, See(c, pc)
    PROVE  CallBecomes(c, pc, call[c].user, code, call[c].then, call[c].paid)
<1> DEFINE r == [call[c] EXCEPT !.pc = pc, !.seen = code]
<1>0. call[c] \in Call /\ code \in Codes
    BY DEF TypeOK
<1>1. r \in Call
    BY <1>0 DEF Call, Pcs
<1>2. /\ r.pc = pc /\ r.user = call[c].user /\ r.seen = code
      /\ r.then = call[c].then /\ r.paid = call[c].paid
    BY <1>0 DEF Call
<1>3. call' = [call EXCEPT ![c] = r] /\ call \in [Calls -> Call]
    BY DEF See, TypeOK
<1>4. QED  BY <1>1, <1>2, <1>3 DEF CallBecomes

LEMMA UnlockIs ==
    ASSUME TypeOK, NEW c \in Calls, NEW then \in Answers, Unlock(c, then)
    PROVE  CallBecomes(c, "unlock", call[c].user, call[c].seen, then, call[c].paid)
<1> DEFINE r == [call[c] EXCEPT !.pc = "unlock", !.then = then]
<1>0. call[c] \in Call /\ code \in Codes
    BY DEF TypeOK
<1>1. r \in Call
    BY <1>0 DEF Call, Pcs
<1>2. /\ r.pc = "unlock" /\ r.user = call[c].user /\ r.seen = call[c].seen
      /\ r.then = then /\ r.paid = call[c].paid
    BY <1>0 DEF Call
<1>3. call' = [call EXCEPT ![c] = r] /\ call \in [Calls -> Call]
    BY DEF Unlock, TypeOK
<1>4. QED  BY <1>1, <1>2, <1>3 DEF CallBecomes

-----------------------------------------------------------------------------
(* A step of a call that pays nothing and leaves the row of the code alone. *)

LEMMA CallMoves ==
    ASSUME Inv, NEW c \in Calls, UNCHANGED <<value, moved, code, lastId, expire>>,
           NEW pc, NEW user, NEW seen, NEW then,
           CallBecomes(c, pc, user, seen, then, call[c].paid),
           user = call[c].user \/ (call[c].pc = "new" /\ user \in Users),
           seen = call[c].seen \/ (seen = code /\ call[c].paid = 0),
           Coherent(call'[c]),
           pc = "ok" /\ value > 0 => call[c].paid # 0 \/ WasPaid(user)
    PROVE  PaidInv'
<1>0. /\ PaidInv /\ TypeOK /\ call'[c].pc = pc /\ call'[c].user = user
      /\ call'[c].seen = seen /\ call'[c].paid = call[c].paid
      /\ \A d \in Calls \ {c} : call'[d] = call[d]
    BY DEF Inv, CallBecomes
<1>1. call[c].paid # 0 => /\ call[c].pc # "new" /\ pc # "new"
                           /\ user = call[c].user /\ seen = call[c].seen
    BY <1>0 DEF PaidInv, CallsCoherent, Coherent, Settles
<1>2. \A d \in Calls : /\ Paid(d) => Paid(d)'
                       /\ call'[d].paid = call[d].paid
                       /\ call[d].paid # 0 => /\ call'[d].user = call[d].user
                                              /\ call'[d].seen = call[d].seen
    BY <1>0, <1>1 DEF Paid
<1>3. \A u : WasPaid(u) => \E d \in Calls : Paid(d)' /\ call'[d].user = u
    BY <1>2 DEF WasPaid, Paid
<1>4. \A row : Known(row) => Known(row)'
    BY DEF Known
<1>5. \A row : Backed(row) => Backed(row)'
    BY <1>3 DEF Backed, WasPaid
<1>6. RowsKnown'
    BY <1>0, <1>4 DEF PaidInv, RowsKnown
<1>7. RowsBacked'
    BY <1>0, <1>5 DEF PaidInv, RowsBacked
<1>8. CallsCoherent'
    BY <1>0 DEF PaidInv, CallsCoherent, Coherent
<1>9. PaidRowIsUsed'
    BY <1>0, <1>2 DEF PaidInv, PaidRowIsUsed
<1>10. ReadersSawThePayment'
    BY <1>0, <1>1, <1>2 DEF PaidInv, ReadersSawThePayment, PaidRowIsUsed
<1>11. PaidOnce'
    BY <1>0, <1>2 DEF PaidInv, PaidOnce
<1>12. OkMeansPaid'
  <2>1. ASSUME NEW d \in Calls, call'[d].pc = "ok", value > 0
        PROVE  \E e \in Calls : Paid(e)' /\ call'[e].user = call'[d].user
    <3>1. CASE d # c
        BY <1>0, <1>3, <2>1, <3>1 DEF PaidInv, OkMeansPaid, WasPaid
    <3>2. CASE d = c /\ call[c].paid # 0
        BY <1>0, <1>1, <2>1, <3>2 DEF Paid
    <3>3. CASE d = c /\ call[c].paid = 0
        BY <1>0, <1>3, <2>1, <3>3
    <3>4. QED  BY <3>1, <3>2, <3>3
  <2>2. QED  BY <1>0, <2>1 DEF OkMeansPaid
<1>13. MovedStaysUnused' /\ ErasedAtTheEnd' /\ ExpireSawRow'
    BY <1>0 DEF PaidInv, MovedStaysUnused, ErasedAtTheEnd, ExpireSawRow
<1>14. QED  BY <1>6, <1>7, <1>8, <1>9, <1>10, <1>11, <1>12, <1>13 DEF PaidInv

LEMMA CallKeepsType ==
    ASSUME TypeOK, call' \in [Calls -> Call], code' \in Codes, lastId' \in Nat,
           lock' \in BOOLEAN, errors' \in [Users -> 0..MaxErrors],
           balance' \in [Users -> Int],
           UNCHANGED <<value, moved, expire, save, debited>>
    PROVE  TypeOK'
    BY DEF TypeOK

LEMMA ErrorsCounted ==
    ASSUME RedeemAssumption, TypeOK, NEW c \in Calls, CountError(c)
    PROVE  errors' \in [Users -> 0..MaxErrors]
<1>1. \A n \in 0..MaxErrors : (IF n < MaxErrors THEN n + 1 ELSE n) \in 0..MaxErrors
    BY DEF RedeemAssumption
<1>2. errors \in [Users -> 0..MaxErrors]
    BY DEF TypeOK
<1>3. QED  BY <1>1, <1>2 DEF CountError

LEMMA ReadsCode ==
    ASSUME Inv, RedeemAssumption, NEW c \in Calls, UNCHANGED Others,
           UNCHANGED <<code, lastId>>, lock' \in BOOLEAN,
           errors' = errors \/ CountError(c),
           NEW pc, NEW user, NEW seen, NEW then,
           CallBecomes(c, pc, user, seen, then, call[c].paid),
           user = call[c].user \/ (call[c].pc = "new" /\ user \in Users),
           seen = call[c].seen \/ (seen = code /\ call[c].paid = 0),
           Coherent(call'[c]),
           pc = "ok" /\ value > 0 => call[c].paid # 0 \/ WasPaid(user)
    PROVE  Inv'
<1>1. TypeOK /\ call' \in [Calls -> Call]
    BY DEF Inv, CallBecomes
<1>2. errors' \in [Users -> 0..MaxErrors]
    BY <1>1, ErrorsCounted DEF TypeOK
<1>3. TypeOK'
    BY <1>1, <1>2, CallKeepsType DEF TypeOK, Others
<1>4. PaidInv'
    BY CallMoves DEF Others
<1>5. QED  BY <1>3, <1>4 DEF Inv

\* A call that was not paid goes to a place where nothing is asked of it.
LEMMA GoesTo ==
    ASSUME Inv, RedeemAssumption, NEW c \in Calls, call[c].pc # "new", call[c].paid = 0,
           UNCHANGED Others, UNCHANGED <<code, lastId>>, lock' \in BOOLEAN,
           errors' = errors \/ CountError(c),
           \/ \E pc \in Pcs \ {"ok", "conflict", "readUser", "tx", "reread", "unlock"} :
                  Goto(c, pc)
           \/ \E then \in Answers \ {"ok", "conflict"} : Unlock(c, then)
    PROVE  Inv'
<1>0. TypeOK /\ Coherent(call[c])
    BY DEF Inv, PaidInv, CallsCoherent
<1>1. ASSUME NEW pc \in Pcs \ {"ok", "conflict", "readUser", "tx", "reread", "unlock"},
             Goto(c, pc)
      PROVE  Inv'
  <2>1. CallBecomes(c, pc, call[c].user, call[c].seen, call[c].then, call[c].paid)
      BY <1>0, <1>1, GotoIs
  <2>2. Coherent(call'[c])
      BY <1>0, <1>1, <2>1 DEF CallBecomes, Coherent
  <2>3. QED  BY <1>1, <2>1, <2>2, ReadsCode
<1>2. ASSUME NEW then \in Answers \ {"ok", "conflict"}, Unlock(c, then)
      PROVE  Inv'
  <2>1. CallBecomes(c, "unlock", call[c].user, call[c].seen, then, call[c].paid)
      BY <1>0, <1>2, UnlockIs
  <2>2. Coherent(call'[c])
      BY <1>0, <1>2, <2>1 DEF CallBecomes, Coherent
  <2>3. QED  BY <1>2, <2>1, <2>2, ReadsCode
<1>3. QED  BY <1>1, <1>2

LEMMA Unpaid ==
    ASSUME Inv, NEW c \in Calls,
           call[c].pc \notin {"reread", "ok", "error", "unlock"}
    PROVE  call[c].paid = 0
    BY DEF Inv, PaidInv, CallsCoherent, Coherent, Settles

\* The answer given from a row of the code is true of it.
LEMMA Concludes ==
    ASSUME Inv, RedeemAssumption, NEW c \in Calls, call[c].pc # "new", call[c].paid = 0,
           UNCHANGED <<Others, code, lastId, lock, errors>>,
           NEW row, row = code \/ row = call[c].seen, Conclude(c, row)
    PROVE  Inv'
<1> DEFINE pc == IF row.usedBy = call[c].user THEN "ok" ELSE "conflict"
<1>0. /\ TypeOK /\ Coherent(call[c]) /\ Backed(row) /\ row \in Codes /\ call[c] \in Call
      /\ pc \in Pcs /\ RedeemAssumption
    BY DEF Inv, PaidInv, CallsCoherent, RowsBacked, TypeOK, Call, Pcs, Answers
<1>1. CallBecomes(c, pc, call[c].user, row, call[c].then, call[c].paid)
  <2>1. [call[c] EXCEPT !.pc = pc, !.seen = row] \in Call
      BY ZenonT(40), <1>0 DEF Call, Pcs
  <2>2. call' = [call EXCEPT ![c] = [call[c] EXCEPT !.pc = pc, !.seen = row]]
      BY ZenonT(40), <1>0 DEF Conclude, TypeOK
  <2>3. /\ [call[c] EXCEPT !.pc = pc, !.seen = row].pc = pc
        /\ [call[c] EXCEPT !.pc = pc, !.seen = row].user = call[c].user
        /\ [call[c] EXCEPT !.pc = pc, !.seen = row].seen = row
        /\ [call[c] EXCEPT !.pc = pc, !.seen = row].then = call[c].then
        /\ [call[c] EXCEPT !.pc = pc, !.seen = row].paid = call[c].paid
      BY <1>0 DEF Call
  <2>4. QED  BY <1>0, <2>1, <2>2, <2>3 DEF CallBecomes, TypeOK
<1>2. pc \in {"ok", "conflict"} /\ call[c].user \in Users
    BY <1>0 DEF Coherent
<1>3. Coherent(call'[c])
    BY <1>0, <1>1, <1>2 DEF CallBecomes, Coherent
<1>4. pc = "ok" /\ value > 0 => WasPaid(call[c].user)
    BY <1>0, <1>2 DEF Backed, RedeemAssumption
<1>5. QED
  <2>1. UNCHANGED Others /\ UNCHANGED <<code, lastId>> /\ lock' \in BOOLEAN /\ errors' = errors
      BY <1>0 DEF TypeOK
  <2>2. row = call[c].seen \/ (row = code /\ call[c].paid = 0)
      OBVIOUS
  <2>3. QED  BY <1>1, <1>3, <1>4, <2>1, <2>2, ReadsCode

-----------------------------------------------------------------------------
(* The steps of a call. *)

LEMMA BeginKeeps == ASSUME Inv, RedeemAssumption, NEW c \in Calls, Begin(c) PROVE Inv'
<1>0. TypeOK /\ call[c].pc = "new" /\ call[c].paid = 0 /\ Coherent(call[c])
    BY Unpaid DEF Inv, PaidInv, CallsCoherent, Begin
<1>1. PICK u \in Users, pc \in {"limit", "lookup"} :
          call' = [call EXCEPT ![c].pc = pc, ![c].user = u]
    BY DEF Begin
<1>2. CallBecomes(c, pc, u, call[c].seen, call[c].then, call[c].paid)
  <2> DEFINE r == [call[c] EXCEPT !.pc = pc, !.user = u]
  <2>0. call[c] \in Call
      BY <1>0 DEF TypeOK
  <2>1. r \in Call
      BY <2>0 DEF Call, Pcs
  <2>2. call' = [call EXCEPT ![c] = r]
      BY <1>0, <1>1 DEF TypeOK
  <2>3. r.pc = pc /\ r.user = u /\ r.seen = call[c].seen /\ r.then = call[c].then
        /\ r.paid = call[c].paid
      BY <2>0 DEF Call
  <2>4. QED  BY <1>0, <2>1, <2>2, <2>3 DEF CallBecomes, TypeOK
<1>3. Coherent(call'[c])
    BY <1>0, <1>2 DEF CallBecomes, Coherent
<1>4. QED
  <2>1. UNCHANGED Others /\ UNCHANGED <<code, lastId>> /\ lock' \in BOOLEAN /\ errors' = errors
      BY <1>0 DEF TypeOK, Begin
  <2>2. QED  BY <1>0, <1>2, <1>3, <2>1, ReadsCode

LEMMA LookupKeeps == ASSUME Inv, RedeemAssumption, NEW c \in Calls, Lookup(c) PROVE Inv'
<1>0. /\ TypeOK /\ call[c].pc \in {"lookup", "lookupAgain"} /\ call[c].paid = 0
      /\ Coherent(call[c]) /\ UNCHANGED <<Others, code, lastId, lock, errors>>
      /\ UNCHANGED Others /\ UNCHANGED <<code, lastId>> /\ lock' \in BOOLEAN /\ errors' = errors
    BY Unpaid DEF Inv, PaidInv, CallsCoherent, Lookup, TypeOK
<1>1. CASE \E pc \in {"create", "error"} : Goto(c, pc)
  <2>1. \E pc \in Pcs \ {"ok", "conflict", "readUser", "tx", "reread", "unlock"} : Goto(c, pc)
      BY <1>1 DEF Pcs, Answers
  <2>2. QED  BY <1>0, <2>1, GoesTo
<1>2. CASE Resolve(c) /\ code.status # "unused"
    BY <1>0, <1>2, Concludes DEF Resolve
<1>3. CASE Resolve(c) /\ code.status = "unused"
  <2> DEFINE r == [call[c] EXCEPT !.pc = "limit", !.seen = code, !.resolve = TRUE]
  <2>0. call[c] \in Call /\ code \in Codes
      BY <1>0 DEF TypeOK
  <2>1. r \in Call
      BY <2>0 DEF Call
  <2>2. call' = [call EXCEPT ![c] = r]
      BY <1>0, <1>3 DEF TypeOK, Resolve
  <2>3. r.pc = "limit" /\ r.user = call[c].user /\ r.seen = code /\ r.then = call[c].then
        /\ r.paid = call[c].paid
      BY <2>0 DEF Call
  <2>4. CallBecomes(c, "limit", call[c].user, code, call[c].then, call[c].paid)
      BY <1>0, <2>1, <2>2, <2>3 DEF CallBecomes, TypeOK
  <2>5. Coherent(call'[c])
      BY <1>0, <2>4 DEF CallBecomes, Coherent
  <2>6. QED  BY <1>0, <2>4, <2>5, ReadsCode
<1>4. QED  BY <1>1, <1>2, <1>3 DEF Lookup

\* The code gets a new row, or loses the one it had.
LEMMA RowReplaced ==
    ASSUME Inv, UNCHANGED <<value, moved, expire>>, lastId' \in Nat, lastId <= lastId',
           ~moved, code' \in Codes, code'.usedBy = NoUser,
           \/ code'.id = 0 /\ code'.status = "absent"
           \/ code'.id = lastId + 1 /\ code'.id <= lastId' /\ code'.status = "unused",
           \A d \in Calls :
               /\ call'[d].user = call[d].user /\ call'[d].seen = call[d].seen
               /\ call'[d].then = call[d].then /\ call'[d].paid = call[d].paid
               /\ \/ call'[d].pc = call[d].pc
                  \/ /\ call[d].paid = 0 /\ call[d].pc # "new"
                     /\ call'[d].pc \in {"limit", "lookupAgain"}
    PROVE  PaidInv'
<1>0. PaidInv /\ TypeOK /\ lastId \in Nat /\ code.id \in Nat /\ code'.id \in Nat
    BY DEF Inv, TypeOK, Codes
<1>1. \A d \in Calls : Paid(d) <=> Paid(d)'
    BY <1>0 DEF Paid
<1>2. ASSUME NEW row \in Codes, Known(row)
      PROVE  /\ row.id <= lastId' /\ row.id # lastId + 1
             /\ row.id = 0 <=> row.status = "absent"
             /\ row.status = "unused" => row.usedBy = NoUser
             /\ row.id = code'.id /\ row.status # "unused" => code'.status # "unused"
    BY <1>0, <1>2 DEF Known, Codes
<1>3. Known(code)'
    BY <1>0 DEF Known
<1>4. RowsKnown'
  <2>1. \A row \in Codes : Known(row) => Known(row)'
      BY <1>2 DEF Known
  <2>2. expire.seen \in Codes /\ \A d \in Calls : call[d].seen \in Codes
      BY <1>0 DEF TypeOK, Call
  <2>3. Known(expire.seen)'
      BY <1>0, <2>1, <2>2 DEF PaidInv, RowsKnown
  <2>4. ASSUME NEW d \in Calls PROVE Known(call[d].seen)'
      BY <1>0, <2>1, <2>2 DEF PaidInv, RowsKnown
  <2>5. QED  BY <1>3, <2>3, <2>4 DEF RowsKnown
<1>5. \A u : WasPaid(u) => \E d \in Calls : Paid(d)' /\ call'[d].user = u
    BY <1>1 DEF WasPaid
<1>6. RowsBacked'
  <2>1. \A row : Backed(row) => Backed(row)'
      BY <1>5 DEF Backed, WasPaid
  <2>2. Backed(code)'
      BY DEF Backed
  <2>3. QED  BY <1>0, <2>1, <2>2 DEF PaidInv, RowsBacked
<1>7. CallsCoherent'
    BY <1>0 DEF PaidInv, CallsCoherent, Coherent, Settles
<1>8. PaidRowIsUsed'
  <2>1. ASSUME NEW d \in Calls, call[d].paid # 0
        PROVE  call[d].seen.id # code'.id
    <3>1. Known(call[d].seen) /\ call[d].seen.status = "unused" /\ call[d].seen \in Codes
        BY <1>0, <2>1 DEF PaidInv, RowsKnown, CallsCoherent, Coherent, TypeOK, Call
    <3>2. QED  BY <1>2, <3>1
  <2>2. QED  BY <2>1 DEF PaidRowIsUsed
<1>9. ReadersSawThePayment' /\ PaidOnce' /\ MovedStaysUnused' /\ ErasedAtTheEnd'
      /\ ExpireSawRow'
    BY <1>0 DEF PaidInv, ReadersSawThePayment, PaidOnce, MovedStaysUnused, ErasedAtTheEnd,
                ExpireSawRow
<1>10. OkMeansPaid'
  <2>1. ASSUME NEW d \in Calls, call'[d].pc = "ok", value > 0
        PROVE  \E e \in Calls : Paid(e)' /\ call'[e].user = call'[d].user
      BY <1>0, <1>1, <2>1 DEF PaidInv, OkMeansPaid
  <2>2. QED  BY <2>1 DEF OkMeansPaid
<1>11. QED  BY <1>4, <1>6, <1>7, <1>8, <1>9, <1>10 DEF PaidInv

LEMMA NoRowNotMoved ==
    ASSUME Inv, code.id = 0
    PROVE  ~moved
    BY DEF Inv, PaidInv, MovedStaysUnused, RowsKnown, Known

LEMMA CreateKeeps == ASSUME Inv, RedeemAssumption, NEW c \in Calls, Create(c) PROVE Inv'
<1>0. /\ TypeOK /\ call[c].pc = "create" /\ call[c].paid = 0
      /\ UNCHANGED <<Others, lock, errors>>
      /\ UNCHANGED Others /\ lock' \in BOOLEAN /\ errors' = errors
    BY Unpaid DEF Inv, Create, TypeOK
<1>1. CASE code.id = 0 /\ code' = [id |-> lastId + 1, status |-> "unused", usedBy |-> NoUser]
           /\ lastId' = lastId + 1 /\ \E pc \in {"limit", "lookupAgain"} : Goto(c, pc)
  <2>1. PICK pc \in {"limit", "lookupAgain"} : Goto(c, pc)
      BY <1>1
  <2>2. CallBecomes(c, pc, call[c].user, call[c].seen, call[c].then, call[c].paid)
      BY <1>0, <2>1, GotoIs DEF Pcs
  <2>3. code' \in Codes /\ lastId \in Nat
      BY <1>0, <1>1 DEF TypeOK, Codes
  <2>4. PaidInv'
      BY <1>0, <1>1, <2>2, <2>3, NoRowNotMoved, RowReplaced DEF Others, CallBecomes
  <2>5. TypeOK'
      BY <1>0, <1>1, <2>2, <2>3, CallKeepsType DEF TypeOK, Others, CallBecomes
  <2>6. QED  BY <2>4, <2>5 DEF Inv
<1>2. CASE UNCHANGED <<code, lastId>> /\ Goto(c, "lookupAgain")
  <2>1. \E pc \in Pcs \ {"ok", "conflict", "readUser", "tx", "reread", "unlock"} : Goto(c, pc)
      BY <1>2 DEF Pcs
  <2>2. QED  BY <1>0, <1>2, <2>1, GoesTo
<1>3. QED  BY <1>1, <1>2 DEF Create

LEMMA CheckLimitKeeps == ASSUME Inv, RedeemAssumption, NEW c \in Calls, CheckLimit(c) PROVE Inv'
<1>0. /\ TypeOK /\ call[c].pc = "limit" /\ call[c].paid = 0
      /\ UNCHANGED Others /\ UNCHANGED <<code, lastId>> /\ lock' \in BOOLEAN /\ errors' = errors
    BY Unpaid DEF Inv, CheckLimit, TypeOK
<1>1. \E pc \in Pcs \ {"ok", "conflict", "readUser", "tx", "reread", "unlock"} : Goto(c, pc)
    BY DEF CheckLimit, Pcs, Answers
<1>2. QED  BY <1>0, <1>1, GoesTo

LEMMA AcquireLockKeeps == ASSUME Inv, RedeemAssumption, NEW c \in Calls, AcquireLock(c) PROVE Inv'
<1>0. /\ TypeOK /\ call[c].pc = "lock" /\ call[c].paid = 0
      /\ UNCHANGED Others /\ UNCHANGED <<code, lastId>> /\ lock' \in BOOLEAN /\ errors' = errors
    BY Unpaid DEF Inv, AcquireLock, TypeOK
<1>1. \E pc \in Pcs \ {"ok", "conflict", "readUser", "tx", "reread", "unlock"} : Goto(c, pc)
    BY DEF AcquireLock, Pcs, Answers
<1>2. QED  BY <1>0, <1>1, GoesTo

LEMMA ReadCodeKeeps == ASSUME Inv, RedeemAssumption, NEW c \in Calls, ReadCode(c) PROVE Inv'
<1>0. /\ TypeOK /\ call[c].pc = "read" /\ call[c].paid = 0 /\ Coherent(call[c])
      /\ UNCHANGED Others /\ UNCHANGED <<code, lastId>> /\ lock' \in BOOLEAN
      /\ errors' = errors \/ CountError(c)
    BY Unpaid DEF Inv, PaidInv, CallsCoherent, ReadCode, TypeOK
<1>1. CASE \E then \in {"notFound", "used", "error"} : Unlock(c, then)
  <2>1. \E then \in Answers \ {"ok", "conflict"} : Unlock(c, then)
      BY <1>1 DEF Answers
  <2>2. QED  BY <1>0, <2>1, GoesTo
<1>2. CASE code.status = "unused" /\ See(c, "readUser")
  <2>1. CallBecomes(c, "readUser", call[c].user, code, call[c].then, call[c].paid)
      BY <1>0, <1>2, SeeIs DEF Pcs
  <2>2. Coherent(call'[c])
      BY <1>0, <1>2, <2>1 DEF CallBecomes, Coherent
  <2>3. QED  BY <1>0, <2>1, <2>2, ReadsCode
<1>3. QED  BY <1>1, <1>2 DEF ReadCode

LEMMA ReadUserKeeps == ASSUME Inv, RedeemAssumption, NEW c \in Calls, ReadUser(c) PROVE Inv'
<1>0. /\ TypeOK /\ call[c].pc = "readUser" /\ call[c].paid = 0 /\ Coherent(call[c])
      /\ UNCHANGED Others /\ UNCHANGED <<code, lastId>> /\ lock' \in BOOLEAN /\ errors' = errors
    BY Unpaid DEF Inv, PaidInv, CallsCoherent, ReadUser, TypeOK
<1>1. CASE Unlock(c, "error")
  <2>1. \E then \in Answers \ {"ok", "conflict"} : Unlock(c, then)
      BY <1>1 DEF Answers
  <2>2. QED  BY <1>0, <2>1, GoesTo
<1>2. CASE call' = [call EXCEPT ![c].pc = "tx", ![c].balance = balance[call[c].user]]
  <2> DEFINE r == [call[c] EXCEPT !.pc = "tx", !.balance = balance[call[c].user]]
  <2>0. call[c] \in Call /\ balance[call[c].user] \in Int
      BY <1>0 DEF TypeOK, Coherent
  <2>1. r \in Call
      BY <2>0 DEF Call
  <2>2. call' = [call EXCEPT ![c] = r]
      BY <1>0, <1>2 DEF TypeOK
  <2>3. r.pc = "tx" /\ r.user = call[c].user /\ r.seen = call[c].seen /\ r.then = call[c].then
        /\ r.paid = call[c].paid
      BY <2>0 DEF Call
  <2>4. CallBecomes(c, "tx", call[c].user, call[c].seen, call[c].then, call[c].paid)
      BY <1>0, <2>1, <2>2, <2>3 DEF CallBecomes, TypeOK
  <2>5. Coherent(call'[c])
      BY <1>0, <2>4 DEF CallBecomes, Coherent
  <2>6. QED  BY <1>0, <2>4, <2>5, ReadsCode
<1>3. QED  BY <1>1, <1>2 DEF ReadUser

\* The transaction pays the row out, and shows that it did.
LEMMA RowPaid ==
    ASSUME Inv, NEW c \in Calls, UNCHANGED <<value, moved, lastId, expire>>,
           call[c].pc = "tx", Usable(c), NotMoved,
           code' = [code EXCEPT !.status = "used", !.usedBy = call[c].user],
           NEW pc \in {"reread", "unlock"}, NEW amount, value > 0 => amount # 0,
           CallBecomes(c, pc, call[c].user, call[c].seen, "error", amount)
    PROVE  PaidInv'
<1>0. /\ PaidInv /\ TypeOK /\ call[c].paid = 0 /\ Coherent(call[c])
      /\ code.id = call[c].seen.id /\ code.status = "unused" /\ ~moved /\ code \in Codes
      /\ code.id # 0
    BY Unpaid DEF Inv, PaidInv, CallsCoherent, RowsKnown, Known, Usable, NotMoved, TypeOK
<1>1. /\ code'.id = code.id /\ code'.status = "used" /\ code'.usedBy = call[c].user
      /\ call'[c].pc = pc /\ call'[c].user = call[c].user /\ call'[c].seen = call[c].seen
      /\ call'[c].then = "error" /\ call'[c].paid = amount
      /\ \A d \in Calls \ {c} : call'[d] = call[d]
    BY <1>0 DEF Codes, CallBecomes
<1>2. \A d \in Calls : Paid(d) => Paid(d)' /\ call'[d].user = call[d].user
    BY <1>0, <1>1 DEF Paid
<1>3. value > 0 => Paid(c)'
    BY <1>1 DEF Paid
<1>4. RowsKnown'
  <2>1. \A row : Known(row) => Known(row)'
      BY <1>1 DEF Known
  <2>2. Known(code)'
      BY <1>0, <1>1 DEF PaidInv, RowsKnown, Known
  <2>3. \A d \in Calls : call'[d].seen = call[d].seen
      BY <1>1
  <2>4. QED  BY <1>0, <2>1, <2>2, <2>3 DEF PaidInv, RowsKnown
<1>5. RowsBacked'
  <2>1. \A row : Backed(row) => Backed(row)'
      BY <1>2 DEF Backed, WasPaid
  <2>2. Backed(code)'
      BY <1>1, <1>3 DEF Backed, WasPaid
  <2>3. \A d \in Calls : call'[d].seen = call[d].seen
      BY <1>1
  <2>4. QED  BY <1>0, <2>1, <2>2, <2>3 DEF PaidInv, RowsBacked
<1>6. CallsCoherent'
  <2>1. Coherent(call[c])'
      BY <1>0, <1>1 DEF Coherent, Settles
  <2>2. QED  BY <1>0, <1>1, <2>1 DEF PaidInv, CallsCoherent, Coherent, Settles
<1>7. \A d \in Calls : call[d].paid # 0 => call[d].seen.id # code.id
    BY <1>0 DEF PaidInv, PaidRowIsUsed
<1>8. PaidRowIsUsed'
    BY <1>0, <1>1, <1>7 DEF PaidRowIsUsed
<1>9. ReadersSawThePayment'
  <2>1. \A d \in Calls : call[d].seen.id = code.id => call[d].seen.status = "unused"
      BY <1>0 DEF PaidInv, RowsKnown, Known
  <2>2. QED  BY <1>0, <1>1, <2>1 DEF PaidInv, ReadersSawThePayment
<1>10. PaidOnce'
    BY <1>0, <1>1, <1>7 DEF PaidInv, PaidOnce
<1>11. OkMeansPaid'
  <2>1. ASSUME NEW d \in Calls, call'[d].pc = "ok", value > 0
        PROVE  \E e \in Calls : Paid(e)' /\ call'[e].user = call'[d].user
      BY <1>0, <1>1, <1>2, <2>1 DEF PaidInv, OkMeansPaid
  <2>2. QED  BY <2>1 DEF OkMeansPaid
<1>12. MovedStaysUnused' /\ ErasedAtTheEnd' /\ ExpireSawRow'
    BY <1>0 DEF PaidInv, MovedStaysUnused, ErasedAtTheEnd, ExpireSawRow
<1>13. QED  BY <1>4, <1>5, <1>6, <1>8, <1>9, <1>10, <1>11, <1>12 DEF PaidInv

LEMMA AmountType ==
    ASSUME RedeemAssumption, TypeOK, NEW c \in Calls
    PROVE  Amount(c) \in Int /\ (value > 0 => Amount(c) # 0)
<1>1. value \in Int /\ call[c].balance \in Int
    BY DEF RedeemAssumption, TypeOK, Call
<1>2. QED  BY <1>1 DEF Amount

LEMMA TransactionKeeps == ASSUME Inv, RedeemAssumption, NEW c \in Calls, Transaction(c) PROVE Inv'
<1>0. /\ TypeOK /\ call[c].pc = "tx" /\ call[c].paid = 0 /\ Coherent(call[c])
      /\ UNCHANGED <<value, moved, expire, save, debited, lastId, lock, errors>>
    BY Unpaid DEF Inv, PaidInv, CallsCoherent, Transaction
<1>1. CASE /\ Usable(c) /\ NotMoved
           /\ code' = [code EXCEPT !.status = "used", !.usedBy = call[c].user]
           /\ balance' = [balance EXCEPT ![call[c].user] = @ + Amount(c)]
           /\ \E answer \in {"reread", "unlock"} :
                 call' = [call EXCEPT ![c].pc = answer, ![c].paid = Amount(c),
                                      ![c].then = "error"]
  <2>1. PICK pc \in {"reread", "unlock"} :
            call' = [call EXCEPT ![c].pc = pc, ![c].paid = Amount(c), ![c].then = "error"]
      BY <1>1
  <2>2. Amount(c) \in Int /\ (value > 0 => Amount(c) # 0)
      BY <1>0, AmountType
  <2>3. CallBecomes(c, pc, call[c].user, call[c].seen, "error", Amount(c))
    <3> DEFINE r == [call[c] EXCEPT !.pc = pc, !.paid = Amount(c), !.then = "error"]
    <3>0. call[c] \in Call
        BY <1>0 DEF TypeOK
    <3>1. r \in Call
        BY <2>2, <3>0 DEF Call, Answers
    <3>2. call' = [call EXCEPT ![c] = r]
        BY <1>0, <2>1 DEF TypeOK
    <3>3. r.pc = pc /\ r.user = call[c].user /\ r.seen = call[c].seen /\ r.then = "error"
          /\ r.paid = Amount(c)
        BY <3>0 DEF Call
    <3>4. QED  BY <1>0, <3>1, <3>2, <3>3 DEF CallBecomes, TypeOK
  <2>4. PaidInv'
      BY <1>0, <1>1, <2>2, <2>3, RowPaid
  <2>5. code' \in Codes
      BY <1>1, RowTypes
  <2>6. balance' \in [Users -> Int]
      BY <1>0, <1>1, <2>2 DEF TypeOK, Coherent
  <2>7. TypeOK'
      BY <1>0, <2>3, <2>5, <2>6, CallKeepsType DEF TypeOK, CallBecomes
  <2>8. QED  BY <2>4, <2>7 DEF Inv
<1>2. CASE UNCHANGED <<code, balance>> /\ \E then \in {"used", "error"} : Unlock(c, then)
  <2>1. UNCHANGED Others /\ UNCHANGED <<code, lastId>> /\ lock' \in BOOLEAN /\ errors' = errors
      BY <1>0, <1>2 DEF Others, TypeOK
  <2>2. \E then \in Answers \ {"ok", "conflict"} : Unlock(c, then)
      BY <1>2 DEF Answers
  <2>3. QED  BY <1>0, <2>1, <2>2, GoesTo
<1>3. QED  BY <1>1, <1>2 DEF Transaction

LEMMA RereadKeeps == ASSUME Inv, RedeemAssumption, NEW c \in Calls, Reread(c) PROVE Inv'
<1>0. /\ TypeOK /\ call[c].pc = "reread" /\ Coherent(call[c])
      /\ UNCHANGED Others /\ UNCHANGED <<code, lastId>> /\ lock' \in BOOLEAN /\ errors' = errors
    BY DEF Inv, PaidInv, CallsCoherent, Reread, TypeOK
<1>1. PICK then \in {"ok", "error"} : Unlock(c, then)
    BY DEF Reread
<1>2. CallBecomes(c, "unlock", call[c].user, call[c].seen, then, call[c].paid)
    BY <1>0, <1>1, UnlockIs DEF Answers
<1>3. Coherent(call'[c])
    BY <1>0, <1>2 DEF CallBecomes, Coherent, Settles
<1>4. QED  BY <1>0, <1>2, <1>3, ReadsCode

LEMMA ReleaseLockKeeps == ASSUME Inv, RedeemAssumption, NEW c \in Calls, ReleaseLock(c) PROVE Inv'
<1>0. /\ TypeOK /\ call[c].pc = "unlock" /\ Coherent(call[c])
      /\ UNCHANGED Others /\ UNCHANGED <<code, lastId>> /\ lock' \in BOOLEAN /\ errors' = errors
    BY DEF Inv, PaidInv, CallsCoherent, ReleaseLock, TypeOK
<1> DEFINE pc == IF call[c].then = "used" /\ call[c].resolve THEN "latest" ELSE call[c].then
<1>1. Goto(c, pc)
    BY DEF ReleaseLock
<1>2. pc \in Pcs
    BY <1>0 DEF TypeOK, Call, Pcs
<1>3. CallBecomes(c, pc, call[c].user, call[c].seen, call[c].then, call[c].paid)
    BY <1>0, <1>1, <1>2, GotoIs
<1>4. /\ pc \in Answers \cup {"latest"} /\ pc # "conflict"
      /\ pc = "ok" => call[c].then = "ok"
      /\ call[c].paid # 0 => pc \in {"ok", "error"}
    BY <1>0 DEF TypeOK, Call, Coherent, Settles
<1>5. Coherent(call'[c])
    BY <1>0, <1>3, <1>4 DEF CallBecomes, Coherent, Settles, Answers
<1>6. pc = "ok" /\ value > 0 => call[c].paid # 0
    BY <1>0, <1>4 DEF Coherent
<1>7. QED  BY <1>0, <1>3, <1>5, <1>6, ReadsCode

LEMMA LatestKeeps == ASSUME Inv, RedeemAssumption, NEW c \in Calls, Latest(c) PROVE Inv'
<1>0. /\ call[c].pc = "latest" /\ call[c].paid = 0
      /\ UNCHANGED <<Others, code, lastId, lock, errors>>
    BY Unpaid DEF Latest
<1>1. PICK row \in {code, call[c].seen} : Conclude(c, row)
    BY DEF Latest
<1>2. QED  BY <1>0, <1>1, Concludes

LEMMA CallStepKeeps == ASSUME Inv, RedeemAssumption, NEW c \in Calls, CallStep(c) PROVE Inv'
    BY BeginKeeps, LookupKeeps, CreateKeeps, CheckLimitKeeps, AcquireLockKeeps, ReadCodeKeeps,
       ReadUserKeeps, TransactionKeeps, RereadKeeps, ReleaseLockKeeps, LatestKeeps DEF CallStep

-----------------------------------------------------------------------------
(* The administrator, the charges and the saves. *)

LEMMA DeleteKeeps == ASSUME Inv, Delete PROVE Inv'
<1>0. /\ TypeOK /\ code' = NoCode /\ ~moved
      /\ UNCHANGED <<Others, lastId, lock, errors, call>>
    BY DEF Inv, Delete, NotMoved
<1>1. NoCode \in Codes /\ lastId \in Nat
    BY <1>0, RowTypes DEF TypeOK
<1>2. PaidInv'
    BY <1>0, <1>1, RowReplaced DEF Others, NoCode
<1>3. TypeOK'
    BY <1>0, <1>1 DEF TypeOK, Others
<1>4. QED  BY <1>2, <1>3 DEF Inv

LEMMA ExpireReadKeeps == ASSUME Inv, ExpireRead PROVE Inv'
<1>0. /\ TypeOK /\ PaidInv /\ expire.pc = "idle" /\ code.id # 0
      /\ expire' = [expire EXCEPT !.pc = "write", !.seen = code]
      /\ UNCHANGED <<value, moved, balance, save, debited, code, lastId, lock, errors, call>>
    BY DEF Inv, ExpireRead
<1>1. /\ expire'.pc = "write" /\ expire'.seen = code /\ expire'.erased = expire.erased
      /\ expire' \in [pc : {"idle", "write", "done"}, seen : Codes, erased : BOOLEAN]
      /\ ~expire.erased
    BY <1>0 DEF TypeOK, PaidInv, ErasedAtTheEnd
<1>2. TypeOK'
    BY <1>0, <1>1 DEF TypeOK
<1>3. RowsKnown'
    BY <1>0, <1>1 DEF PaidInv, RowsKnown, Known
<1>4. RowsBacked'
    BY <1>0, <1>1 DEF PaidInv, RowsBacked, Backed, WasPaid, Paid
<1>5. PaidInv'
    BY <1>0, <1>1, <1>3, <1>4 DEF PaidInv, CallsCoherent, Coherent, Settles, PaidRowIsUsed,
       ReadersSawThePayment, PaidOnce, MovedStaysUnused, ErasedAtTheEnd, OkMeansPaid, Paid,
       ExpireSawRow
<1>6. QED  BY <1>2, <1>5 DEF Inv

LEMMA ExpireWriteKeeps == ASSUME Inv, ExpireWrite PROVE Inv'
<1>0. /\ TypeOK /\ PaidInv /\ expire.pc = "write" /\ ~expire.erased
      /\ UNCHANGED <<value, moved, balance, save, debited, lastId, lock, errors, call>>
    BY DEF Inv, ExpireWrite, PaidInv, ErasedAtTheEnd
<1>1. CASE /\ code.id = expire.seen.id /\ ~moved
           /\ code' = [expire.seen EXCEPT !.status = "expired"]
           /\ expire' = [expire EXCEPT !.pc = "done", !.erased = code.usedBy # expire.seen.usedBy]
  <2>1. /\ expire'.pc = "done" /\ expire'.seen = expire.seen
        /\ expire'.erased = (code.usedBy # expire.seen.usedBy)
        /\ expire' \in [pc : {"idle", "write", "done"}, seen : Codes, erased : BOOLEAN]
      BY <1>0, <1>1 DEF TypeOK
  <2>2. /\ code'.id = code.id /\ code'.usedBy = expire.seen.usedBy /\ code'.status = "expired"
        /\ code' \in Codes
      BY <1>0, <1>1, RowTypes DEF TypeOK, Codes, Inv
  <2>3. TypeOK'
      BY <1>0, <2>1, <2>2 DEF TypeOK
  <2>4. CASE code.id = 0
    <3>1. FALSE
        \* the row was there when it was read
        BY <1>0, <1>1, <2>4 DEF PaidInv, ExpireSawRow
    <3>2. QED  BY <3>1
  <2>5. CASE code.id # 0
    <3>1. RowsKnown'
        BY <1>0, <2>1, <2>2, <2>5 DEF PaidInv, RowsKnown, Known
    <3>2. RowsBacked'
        BY <1>0, <2>1, <2>2 DEF PaidInv, RowsBacked, Backed, WasPaid, Paid
    <3>3. PaidRowIsUsed'
        BY <1>0, <2>1, <2>2 DEF PaidInv, PaidRowIsUsed
    <3>4. ReadersSawThePayment' /\ PaidOnce' /\ ErasedAtTheEnd' /\ MovedStaysUnused'
        BY <1>0, <1>1, <2>1 DEF PaidInv, ReadersSawThePayment, PaidOnce, ErasedAtTheEnd,
                                MovedStaysUnused
    <3>5. PaidInv'
        BY <1>0, <2>1, <3>1, <3>2, <3>3, <3>4
           DEF PaidInv, CallsCoherent, Coherent, Settles, OkMeansPaid, Paid, ExpireSawRow
    <3>6. QED  BY <2>3, <3>5 DEF Inv
  <2>6. QED  BY <2>4, <2>5
<1>2. CASE UNCHANGED code /\ expire' = [expire EXCEPT !.pc = "done"]
  <2>1. /\ expire'.pc = "done" /\ expire'.seen = expire.seen /\ expire'.erased = expire.erased
        /\ expire' \in [pc : {"idle", "write", "done"}, seen : Codes, erased : BOOLEAN]
      BY <1>0, <1>2 DEF TypeOK
  <2>2. TypeOK'
      BY <1>0, <1>2, <2>1 DEF TypeOK
  <2>3. RowsKnown' /\ RowsBacked'
      BY <1>0, <1>2, <2>1 DEF PaidInv, RowsKnown, Known, RowsBacked, Backed, WasPaid, Paid
  <2>4. PaidInv'
      BY <1>0, <1>2, <2>1, <2>3 DEF PaidInv, CallsCoherent, Coherent, Settles, PaidRowIsUsed,
         ReadersSawThePayment, PaidOnce, MovedStaysUnused, ErasedAtTheEnd, OkMeansPaid, Paid,
         ExpireSawRow
  <2>5. QED  BY <2>2, <2>4 DEF Inv
<1>3. QED  BY <1>1, <1>2 DEF ExpireWrite, NotMoved

LEMMA ExportRedeemKeeps == ASSUME Inv, ExportRedeem PROVE Inv'
<1>0. /\ TypeOK /\ PaidInv /\ moved' = TRUE /\ code.status = "unused"
      /\ UNCHANGED <<value, balance, expire, save, debited, code, lastId, lock, errors, call>>
    BY DEF Inv, ExportRedeem
<1>1. TypeOK'
    BY <1>0 DEF TypeOK
<1>2. RowsKnown' /\ RowsBacked'
    BY <1>0 DEF PaidInv, RowsKnown, Known, RowsBacked, Backed, WasPaid, Paid
<1>3. PaidInv'
    BY <1>0, <1>2 DEF PaidInv, CallsCoherent, Coherent, Settles, PaidRowIsUsed,
       ReadersSawThePayment, PaidOnce, MovedStaysUnused, ErasedAtTheEnd, OkMeansPaid, Paid,
       ExpireSawRow
<1>4. QED  BY <1>1, <1>3 DEF Inv

\* What the payment of the code does not depend on.
LEMMA Elsewhere ==
    ASSUME PaidInv, UNCHANGED <<value, code, moved, lastId, call, expire>>
    PROVE  PaidInv'
<1>1. RowsKnown' /\ RowsBacked'
    BY DEF PaidInv, RowsKnown, Known, RowsBacked, Backed, WasPaid, Paid
<1>2. QED
    BY <1>1 DEF PaidInv, CallsCoherent, Coherent, Settles, PaidRowIsUsed, ExpireSawRow,
       ReadersSawThePayment, PaidOnce, MovedStaysUnused, ErasedAtTheEnd, OkMeansPaid, Paid

LEMMA OthersKeep ==
    ASSUME Inv,
           \/ \E u \in Users : Debit(u)
           \/ \E s \in Saves : SaveRead(s) \/ SaveWrite(s)
           \/ LockExpires \/ UNCHANGED vars
    PROVE  Inv'
<1>0. TypeOK /\ PaidInv
    BY DEF Inv
<1>1. ASSUME NEW u \in Users, Debit(u) PROVE Inv'
  <2>1. TypeOK'
      BY <1>0, <1>1 DEF TypeOK, Debit
  <2>2. QED  BY <1>0, <1>1, <2>1, Elsewhere DEF Inv, Debit
<1>2. ASSUME NEW s \in Saves, SaveRead(s) PROVE Inv'
  <2>1. PICK u \in Users, delta \in {0, 1} :
            save' = [save EXCEPT ![s].pc = "write", ![s].user = u, ![s].delta = delta,
                                 ![s].balance = balance[u]]
      BY <1>2 DEF SaveRead
  <2>2. balance[u] \in Int
      BY <1>0 DEF TypeOK
  <2>3. TypeOK'
    <3> DEFINE r == [save[s] EXCEPT !.pc = "write", !.user = u, !.delta = delta,
                                    !.balance = balance[u]]
    <3>0. save[s] \in [pc : {"idle", "write", "saved", "refused"}, user : Users \cup {NoUser},
                       delta : {0, 1}, balance : Int, stale : BOOLEAN]
        BY <1>0 DEF TypeOK
    <3>1. r \in [pc : {"idle", "write", "saved", "refused"}, user : Users \cup {NoUser},
                 delta : {0, 1}, balance : Int, stale : BOOLEAN]
        BY <2>2, <3>0
    <3>2. save' = [save EXCEPT ![s] = r]
        BY <1>0, <2>1 DEF TypeOK
    <3>3. QED  BY <1>0, <1>2, <3>1, <3>2 DEF TypeOK, SaveRead
  <2>4. QED  BY <1>0, <1>2, <2>3, Elsewhere DEF Inv, SaveRead
<1>3. ASSUME NEW s \in Saves, SaveWrite(s) PROVE Inv'
  <2>1. save[s].balance + save[s].delta \in Int
      BY <1>0 DEF TypeOK
  <2>2. balance' \in [Users -> Int]
      BY <1>0, <1>3, <2>1 DEF TypeOK, SaveWrite
  <2>3. save' \in [Saves -> [pc : {"idle", "write", "saved", "refused"},
                             user : Users \cup {NoUser}, delta : {0, 1}, balance : Int,
                             stale : BOOLEAN]]
      BY <1>0, <1>3 DEF TypeOK, SaveWrite
  <2>4. TypeOK'
      BY <1>0, <1>3, <2>2, <2>3 DEF TypeOK, SaveWrite
  <2>5. QED  BY <1>0, <1>3, <2>4, Elsewhere DEF Inv, SaveWrite
<1>4. CASE LockExpires
    BY <1>0, <1>4, Elsewhere DEF Inv, TypeOK, LockExpires, Others
<1>5. CASE UNCHANGED vars
    BY <1>0, <1>5, Elsewhere DEF Inv, TypeOK, vars
<1>6. QED  BY <1>1, <1>2, <1>3, <1>4, <1>5

-----------------------------------------------------------------------------
(* Sums over finite sets: that the library's operator has the laws of a    *)
(* sum, from the smallest set that would lack one.                         *)

(* What a fold takes of a set next, and that g is the sum of f at s given  *)
(* the sums at smaller sets.                                               *)
First(s) == CHOOSE x \in s : TRUE
SumsAt(f, g, s) == g[s] = IF s = {} THEN 0 ELSE f[First(s)] + g[s \ {First(s)}]
Sums(f, g, S) == g \in [SUBSET S -> Int] /\ \A s \in SUBSET S : SumsAt(f, g, s)

\* A property of the subsets of a finite set that some subset lacks is lacked by one whose
\* own subsets have it.
LEMMA LeastSubset ==
    ASSUME NEW S, IsFiniteSet(S), NEW Lacking, Lacking \subseteq SUBSET S, Lacking # {}
    PROVE  \E s \in Lacking : \A t \in Lacking : ~(t \subseteq s /\ t # s)
<1>1. Lacking \subseteq FiniteSubsetsOf(S)
    BY FS_Subset DEF FiniteSubsetsOf
<1>2. PICK s \in Lacking : \A t \in Lacking : ~(<<t, s>> \in StrictSubsetOrdering(S))
    BY <1>1, WFMin, FS_StrictSubsetOrderingWellFounded, Zenon
<1>3. ASSUME NEW t \in Lacking, t \subseteq s, t # s PROVE FALSE
    <2>1. <<t, s>> \in StrictSubsetOrdering(S)
        BY <1>3 DEF StrictSubsetOrdering
    <2> QED BY <1>2, <2>1
<1> QED BY <1>3

\* Sums over a finite set exist: from the sums of the sets of n elements those of one more.
LEMMA SumsExist ==
    ASSUME NEW S, IsFiniteSet(S), NEW f, \A x \in S : f[x] \in Int
    PROVE  \E g : Sums(f, g, S)
<1> DEFINE Upto(n) == {s \in SUBSET S : Cardinality(s) <= n}
           Lacking == {n \in Nat : ~\E g \in [Upto(n) -> Int] : \A s \in Upto(n) : SumsAt(f, g, s)}
<1>1. \A s \in SUBSET S : IsFiniteSet(s) /\ Cardinality(s) \in Nat /\ Cardinality(s) <= Cardinality(S)
    BY FS_Subset, FS_CardinalityType
<1>2. \A s \in SUBSET S : s # {} => First(s) \in s
    BY DEF First
<1>3. \A s \in SUBSET S : s # {} => Cardinality(s \ {First(s)}) = Cardinality(s) - 1
    BY <1>1, <1>2, FS_RemoveElement
<1>4. \A s \in SUBSET S : Cardinality(s) = 0 => s = {}
    BY <1>1, FS_EmptySet
<1>5. 0 \notin Lacking
    <2>1. \A s \in Upto(0) : s = {}
        BY <1>1, <1>4
    <2> DEFINE g == [s \in Upto(0) |-> 0]
    <2>2. g \in [Upto(0) -> Int] /\ \A s \in Upto(0) : SumsAt(f, g, s)
        BY <2>1 DEF SumsAt
    <2> QED BY <2>2
<1>6. ASSUME NEW n \in Nat, n \notin Lacking PROVE n + 1 \notin Lacking
    <2>1. PICK g \in [Upto(n) -> Int] : \A s \in Upto(n) : SumsAt(f, g, s)
        BY <1>6
    <2> DEFINE h == [s \in Upto(n + 1) |->
                        IF Cardinality(s) <= n THEN g[s] ELSE f[First(s)] + g[s \ {First(s)}]]
    <2>2. \A s \in Upto(n + 1) : s # {} => s \ {First(s)} \in Upto(n)
        BY <1>1, <1>3
    <2>3. \A s \in Upto(n + 1) : ~(Cardinality(s) <= n) => s # {}
        BY <1>1, FS_EmptySet
    <2>4. \A s \in Upto(n + 1) : s # {} => f[First(s)] \in Int
        BY <1>2
    <2>5. h \in [Upto(n + 1) -> Int]
        <3> SUFFICES ASSUME NEW s \in Upto(n + 1)
                     PROVE  (IF Cardinality(s) <= n THEN g[s] ELSE f[First(s)] + g[s \ {First(s)}]) \in Int
            OBVIOUS
        <3>1. CASE Cardinality(s) <= n
            BY <3>1
        <3>2. CASE ~(Cardinality(s) <= n)
            <4>1. g[s \ {First(s)}] \in Int /\ f[First(s)] \in Int
                BY <2>2, <2>3, <2>4, <3>2
            <4> QED BY <3>2, <4>1
        <3> QED BY <3>1, <3>2
    <2>6. \A s \in Upto(n) : s \in Upto(n + 1) /\ h[s] = g[s]
        BY <1>1
    <2>7. ASSUME NEW s \in Upto(n + 1) PROVE SumsAt(f, h, s)
        <3>1. CASE Cardinality(s) <= n
            <4>1. s \in Upto(n) /\ h[s] = g[s] /\ SumsAt(f, g, s)
                BY <2>1, <2>6, <3>1
            <4>2. s # {} => h[s \ {First(s)}] = g[s \ {First(s)}]
                BY <2>2, <2>6
            <4> HIDE DEF h
            <4> QED BY <4>1, <4>2 DEF SumsAt
        <3>2. CASE ~(Cardinality(s) <= n)
            <4>1. s # {} /\ h[s] = f[First(s)] + g[s \ {First(s)}]
                BY <2>3, <3>2
            <4>2. h[s \ {First(s)}] = g[s \ {First(s)}]
                BY <2>2, <2>6, <4>1
            <4> HIDE DEF h
            <4> QED BY <4>1, <4>2 DEF SumsAt
        <3> QED BY <3>1, <3>2
    <2> HIDE DEF h, Upto
    <2> QED BY <2>5, <2>7
<1>7. Lacking = {}
    <2> SUFFICES ASSUME Lacking # {} PROVE FALSE
        OBVIOUS
    <2>1. Lacking \subseteq Nat
        OBVIOUS
    <2> HIDE DEF Lacking
    <2>2. PICK n \in Lacking : \A m \in Lacking : ~(<<m, n>> \in OpToRel(<, Nat))
        BY <2>1, WFMin, NatLessThanWellFounded, Zenon
    <2>3. n \in Nat /\ n # 0
        BY <1>5, <2>1, <2>2
    <2>4. n - 1 \in Nat /\ n - 1 < n /\ (n - 1) + 1 = n
        BY <2>3
    <2>5. n - 1 \notin Lacking
        BY <2>2, <2>3, <2>4 DEF OpToRel
    <2> QED BY <1>6, <2>2, <2>4, <2>5
<1>8. Upto(Cardinality(S)) = SUBSET S
    BY <1>1
<1>9. Cardinality(S) \in Nat
    BY FS_CardinalityType
<1>10. \E g \in [Upto(Cardinality(S)) -> Int] : \A s \in Upto(Cardinality(S)) : SumsAt(f, g, s)
    BY <1>7, <1>9
<1> HIDE DEF Upto
<1> QED BY <1>8, <1>10 DEF Sums

\* There is one sum.
LEMMA SumsAgree ==
    ASSUME NEW S, IsFiniteSet(S), NEW f, NEW g, NEW h,
           \A s \in SUBSET S : SumsAt(f, g, s) /\ SumsAt(f, h, s)
    PROVE  \A s \in SUBSET S : g[s] = h[s]
<1> DEFINE Lacking == {s \in SUBSET S : g[s] # h[s]}
<1> SUFFICES ASSUME Lacking # {} PROVE FALSE
    OBVIOUS
<1>1. Lacking \subseteq SUBSET S
    OBVIOUS
<1>2. PICK s \in Lacking : \A t \in Lacking : ~(t \subseteq s /\ t # s)
    <2> HIDE DEF Lacking
    <2> QED BY <1>1, LeastSubset
<1>3. s # {}
    BY <1>2 DEF SumsAt
<1>4. First(s) \in s
    BY <1>3 DEF First
<1>5. s \ {First(s)} \notin Lacking
    BY <1>2, <1>4
<1>6. g[s \ {First(s)}] = h[s \ {First(s)}]
    BY <1>2, <1>5
<1> QED BY <1>2, <1>3, <1>6 DEF SumsAt

\* The operator of the library computes it.
LEMMA SumIs ==
    ASSUME NEW S, IsFiniteSet(S), NEW f, NEW g, Sums(f, g, S)
    PROVE  SumFunctionOnSet(f, S) = g[S]
<1> DEFINE Body(h) == [s \in SUBSET S |->
                          IF s = {} THEN 0 ELSE f[First(s)] + h[s \ {First(s)}]]
           iter == CHOOSE h : h = Body(h)
<1>1. g = Body(g)
    BY DEF Sums, SumsAt
<1>2. iter = Body(iter)
    <2> HIDE DEF Body
    <2> QED BY <1>1
<1>3. \A s \in SUBSET S : SumsAt(f, iter, s)
    <2> HIDE DEF iter
    <2>1. \A s \in SUBSET S : Body(iter)[s] = IF s = {} THEN 0 ELSE f[First(s)] + iter[s \ {First(s)}]
        OBVIOUS
    <2> HIDE DEF Body
    <2> QED BY <1>2, <2>1 DEF SumsAt
<1>4. \A s \in SUBSET S : g[s] = iter[s]
    <2>1. PICK h : h = iter
        OBVIOUS
    <2>2. \A s \in SUBSET S : SumsAt(f, g, s) /\ SumsAt(f, h, s)
        <3> HIDE DEF iter
        <3> QED BY <1>3, <2>1 DEF Sums
    <2>3. \A s \in SUBSET S : g[s] = h[s]
        BY <2>2, SumsAgree
    <2> QED BY <2>1, <2>3
<1>5. SumFunctionOnSet(f, S) = iter[S]
    BY DEF SumFunctionOnSet, FoldFunctionOnSet, MapThenFoldSet, First
<1> QED BY <1>4, <1>5

\* The sums over a set contain those over its subsets.
LEMMA SumWithin ==
    ASSUME NEW S, IsFiniteSet(S), NEW f, NEW g, Sums(f, g, S), NEW s \in SUBSET S
    PROVE  SumFunctionOnSet(f, s) = g[s]
<1> DEFINE h == [t \in SUBSET s |-> g[t]]
<1>1. IsFiniteSet(s)
    BY FS_Subset
<1>2. \A t \in SUBSET s : h[t] = g[t] /\ t \in SUBSET S /\ (t # {} => t \ {First(t)} \in SUBSET s)
    OBVIOUS
<1>3. h \in [SUBSET s -> Int]
    BY DEF Sums
<1>4. Sums(f, h, s)
    <2> HIDE DEF h
    <2> QED BY <1>2, <1>3 DEF Sums, SumsAt
<1>5. SumFunctionOnSet(f, s) = h[s]
    <2> HIDE DEF h
    <2>1. PICK k : k = h
        OBVIOUS
    <2>2. Sums(f, k, s)
        BY <1>4, <2>1
    <2> QED BY <1>1, <2>1, <2>2, SumIs
<1> QED BY <1>2, <1>5

\* A sum is an integer, and nothing without anything to add.
LEMMA SumType ==
    ASSUME NEW S, IsFiniteSet(S), NEW f, \A x \in S : f[x] \in Int
    PROVE  SumFunctionOnSet(f, S) \in Int /\ (S = {} => SumFunctionOnSet(f, S) = 0)
<1>1. PICK g : Sums(f, g, S)
    BY SumsExist
<1>2. SumFunctionOnSet(f, S) = g[S]
    BY <1>1, SumIs
<1>3. g[S] \in Int
    BY <1>1 DEF Sums
<1>4. S = {} => g[S] = 0
    BY <1>1 DEF Sums, SumsAt
<1> QED BY <1>2, <1>3, <1>4

\* Functions that agree on a set have one sum over it.
LEMMA SumSame ==
    ASSUME NEW S, IsFiniteSet(S), NEW f, NEW g, \A x \in S : f[x] \in Int /\ g[x] = f[x]
    PROVE  SumFunctionOnSet(g, S) = SumFunctionOnSet(f, S)
<1>1. PICK h : Sums(f, h, S)
    BY SumsExist
<1>2. \A s \in SUBSET S : s # {} => First(s) \in S
    BY DEF First
<1>3. Sums(g, h, S)
    BY <1>1, <1>2 DEF Sums, SumsAt
<1> QED BY <1>1, <1>3, SumIs

\* It does not matter which element is taken out.
LEMMA SumTake ==
    ASSUME NEW S, IsFiniteSet(S), NEW f, \A x \in S : f[x] \in Int, NEW x \in S
    PROVE  SumFunctionOnSet(f, S) = f[x] + SumFunctionOnSet(f, S \ {x})
<1>1. PICK g : Sums(f, g, S)
    BY SumsExist
<1> DEFINE Lacking == {s \in SUBSET S : \E y \in s : g[s] # f[y] + g[s \ {y}]}
<1>2. Lacking = {}
    <2> SUFFICES ASSUME Lacking # {} PROVE FALSE
        OBVIOUS
    <2>1. Lacking \subseteq SUBSET S
        OBVIOUS
    <2>2. PICK s \in Lacking : \A t \in Lacking : ~(t \subseteq s /\ t # s)
        <3> HIDE DEF Lacking
        <3> QED BY <2>1, LeastSubset
    <2>3. PICK y \in s : g[s] # f[y] + g[s \ {y}]
        BY <2>2
    <2>4. PICK z \in s : z = First(s)
        BY <2>3 DEF First
    <2>5. g[s] = f[z] + g[s \ {z}]
        BY <1>1, <2>1, <2>2, <2>4 DEF Sums, SumsAt
    <2>6. y # z
        BY <2>3, <2>5
    <2>7. s \ {z} \notin Lacking /\ s \ {y} \notin Lacking
        BY <2>2, <2>3, <2>4
    <2>8. /\ g[s \ {z}] = f[y] + g[(s \ {z}) \ {y}]
          /\ g[s \ {y}] = f[z] + g[(s \ {y}) \ {z}]
        BY <2>1, <2>2, <2>3, <2>4, <2>6, <2>7
    <2>9. (s \ {z}) \ {y} = (s \ {y}) \ {z}
        OBVIOUS
    <2>10. f[y] \in Int /\ f[z] \in Int /\ g[(s \ {y}) \ {z}] \in Int
        BY <1>1, <2>1, <2>2, <2>3, <2>4 DEF Sums
    <2>11. PICK w \in Int : w = g[(s \ {y}) \ {z}]
        BY <2>10
    <2>12. g[s \ {z}] = f[y] + w /\ g[s \ {y}] = f[z] + w
        BY <2>8, <2>9, <2>11
    <2>13. f[z] + (f[y] + w) = f[y] + (f[z] + w)
        BY <2>10
    <2> QED BY <2>3, <2>5, <2>12, <2>13
<1>3. g[S] = f[x] + g[S \ {x}]
    BY <1>2
<1>4. SumFunctionOnSet(f, S) = g[S] /\ SumFunctionOnSet(f, S \ {x}) = g[S \ {x}]
    BY <1>1, SumWithin
<1> QED BY <1>3, <1>4

\* One summand changes.
LEMMA SumChanges ==
    ASSUME NEW S, IsFiniteSet(S), NEW f, NEW g, NEW x \in S,
           \A y \in S : f[y] \in Int /\ g[y] \in Int /\ (y # x => g[y] = f[y])
    PROVE  SumFunctionOnSet(g, S) = SumFunctionOnSet(f, S) + (g[x] - f[x])
<1>1. IsFiniteSet(S \ {x})
    BY FS_RemoveElement
<1>2. SumFunctionOnSet(g, S \ {x}) = SumFunctionOnSet(f, S \ {x})
    BY <1>1, SumSame
<1>3. /\ SumFunctionOnSet(f, S) = f[x] + SumFunctionOnSet(f, S \ {x})
      /\ SumFunctionOnSet(g, S) = g[x] + SumFunctionOnSet(g, S \ {x})
    BY SumTake
<1>4. SumFunctionOnSet(f, S \ {x}) \in Int
    BY <1>1, SumType
<1> QED BY <1>2, <1>3, <1>4

\* One summand more.
LEMMA SumGrows ==
    ASSUME NEW S, IsFiniteSet(S), NEW f, NEW x, x \notin S, \A y \in S \cup {x} : f[y] \in Int
    PROVE  SumFunctionOnSet(f, S \cup {x}) = SumFunctionOnSet(f, S) + f[x]
<1>1. IsFiniteSet(S \cup {x}) /\ (S \cup {x}) \ {x} = S
    BY FS_AddElement
<1>2. PICK T : T = S \cup {x}
    OBVIOUS
<1>3. SumFunctionOnSet(f, T) = f[x] + SumFunctionOnSet(f, T \ {x})
    BY <1>1, <1>2, SumTake
<1>4. SumFunctionOnSet(f, S) \in Int /\ f[x] \in Int
    BY SumType
<1>5. T \ {x} = S
    BY <1>1, <1>2
<1>6. SumFunctionOnSet(f, T) = f[x] + SumFunctionOnSet(f, S)
    BY <1>3, <1>5
<1>7. SumFunctionOnSet(f, T) = SumFunctionOnSet(f, S) + f[x]
    BY <1>4, <1>6
<1> QED BY <1>2, <1>7

-----------------------------------------------------------------------------
(* The balances.  What a user was paid and given is a sum over the calls   *)
(* and saves that name him, which are finitely many at any time; each      *)
(* changes one summand, and only a save of a row read before a change      *)
(* breaks the sum, and says so.                                            *)
Payments    == [c \in Calls |-> call[c].paid]
CallsOf(u)  == {c \in Calls : call[c].user = u}
PaidTo(u)   == SumFunctionOnSet(Payments, CallsOf(u))
Additions   == [s \in Saves |-> save[s].delta]
SavesOf(u)  == {s \in Saves : save[s].user = u /\ save[s].pc = "saved"}
AddedTo(u)  == SumFunctionOnSet(Additions, SavesOf(u))
Overwritten(u) == \E s \in Saves : save[s].user = u /\ save[s].stale

Balanced(u) == balance[u] = StartBalance - debited[u] + PaidTo(u) + AddedTo(u) \/ Overwritten(u)

(* Calls and saves that did not begin name nobody, and only a save that    *)
(* was written can have written over something.                            *)
Begun ==
    /\ \A c \in Calls : call[c].pc = "new" => call[c].user = NoUser
    /\ \A s \in Saves : /\ save[s].pc = "idle" => save[s].user = NoUser
                        /\ save[s].pc = "write" => save[s].user \in Users
                        /\ save[s].pc \in {"idle", "write"} => ~save[s].stale

FewName == \A u \in Users : IsFiniteSet(CallsOf(u)) /\ IsFiniteSet(SavesOf(u))

BalanceInv == Begun /\ FewName /\ \A u \in Users : Balanced(u)

\* The sums are integers.
LEMMA SumsAreIntegers ==
    ASSUME TypeOK, FewName, NEW u \in Users
    PROVE  PaidTo(u) \in Int /\ AddedTo(u) \in Int
<1>1. \A c \in CallsOf(u) : Payments[c] \in Int
    BY DEF CallsOf, Payments, TypeOK, Call
<1>2. \A s \in SavesOf(u) : Additions[s] \in Int
    BY DEF SavesOf, Additions, TypeOK
<1>3. PICK f, g, S, T : f = Payments /\ g = Additions /\ S = CallsOf(u) /\ T = SavesOf(u)
    OBVIOUS
<1>4. IsFiniteSet(S) /\ IsFiniteSet(T) /\ (\A c \in S : f[c] \in Int) /\ (\A s \in T : g[s] \in Int)
    BY <1>1, <1>2, <1>3 DEF FewName
<1>5. SumFunctionOnSet(f, S) \in Int /\ SumFunctionOnSet(g, T) \in Int
    BY <1>4, SumType
<1> QED BY <1>3, <1>5 DEF PaidTo, AddedTo

(* No call is paid or begins.                                              *)
PaymentsStand ==
    \A d \in Calls : /\ call'[d].user = call[d].user /\ call'[d].paid = call[d].paid
                     /\ call'[d].pc = "new" => call[d].pc = "new"

\* Then what the users were paid stands.
LEMMA PaidToStands ==
    ASSUME PaymentsStand
    PROVE  \A u \in Users : CallsOf(u)' = CallsOf(u) /\ PaidTo(u)' = PaidTo(u)
<1>1. Payments' = Payments
    BY DEF Payments, PaymentsStand
<1>2. \A u \in Users : CallsOf(u)' = CallsOf(u)
    BY DEF CallsOf, PaymentsStand
<1> QED BY <1>1, <1>2 DEF PaidTo

\* No save, and no call, begins or ends.
LEMMA SavesStand ==
    ASSUME save' = save
    PROVE  \A u \in Users : /\ SavesOf(u)' = SavesOf(u) /\ AddedTo(u)' = AddedTo(u)
                            /\ Overwritten(u)' <=> Overwritten(u)
<1>1. Additions' = Additions
    BY DEF Additions
<1>2. \A u \in Users : SavesOf(u)' = SavesOf(u)
    BY DEF SavesOf
<1> QED BY <1>1, <1>2 DEF AddedTo, Overwritten

\* Nothing that a balance counts happens.
LEMMA BalancesStand ==
    ASSUME BalanceInv, PaymentsStand, save' = save, balance' = balance, debited' = debited
    PROVE  BalanceInv'
<1>1. \A u \in Users : /\ CallsOf(u)' = CallsOf(u) /\ PaidTo(u)' = PaidTo(u)
                       /\ SavesOf(u)' = SavesOf(u) /\ AddedTo(u)' = AddedTo(u)
                       /\ Overwritten(u)' <=> Overwritten(u)
    BY PaidToStands, SavesStand
<1>2. Begun'
    BY DEF BalanceInv, Begun, PaymentsStand
<1>3. FewName'
    BY <1>1 DEF BalanceInv, FewName
<1>4. \A u \in Users : Balanced(u)'
    BY <1>1 DEF BalanceInv, Balanced
<1> QED BY <1>2, <1>3, <1>4 DEF BalanceInv

\* The steps of a call that neither begin nor pay.
LEMMA StandsStill ==
    ASSUME TypeOK, NEW c \in Calls, call[c].pc # "new",
           \/ \E pc \in Pcs \ {"new"} : Goto(c, pc) \/ See(c, pc)
           \/ \E then \in Answers : Unlock(c, then)
           \/ \E row : Conclude(c, row)
           \/ Resolve(c)
           \/ \E b : call' = [call EXCEPT ![c].pc = "tx", ![c].balance = b]
    PROVE  PaymentsStand
<1>1. call \in [Calls -> Call] /\ call[c] \in Call
    BY DEF TypeOK
<1>2. ASSUME NEW r, call' = [call EXCEPT ![c] = r], r.user = call[c].user,
             r.paid = call[c].paid, r.pc # "new"
      PROVE  PaymentsStand
    BY <1>1, <1>2 DEF PaymentsStand
<1>3. ASSUME NEW pc, NEW user, NEW seen, NEW then, NEW paid,
             CallBecomes(c, pc, user, seen, then, paid), user = call[c].user, paid = call[c].paid,
             pc # "new"
      PROVE  PaymentsStand
    BY <1>3 DEF CallBecomes, PaymentsStand
<1>4. CASE \E pc \in Pcs \ {"new"} : Goto(c, pc) \/ See(c, pc)
    BY <1>3, <1>4, GotoIs, SeeIs
<1>5. CASE \E then \in Answers : Unlock(c, then)
    BY <1>3, <1>5, UnlockIs
<1>6. ASSUME NEW row, Conclude(c, row) PROVE PaymentsStand
    <2>1. PICK p \in {"ok", "conflict"} : p = IF row.usedBy = call[c].user THEN "ok" ELSE "conflict"
        OBVIOUS
    <2> DEFINE r == [call[c] EXCEPT !.seen = row, !.pc = p]
    <2>2. r.user = call[c].user /\ r.paid = call[c].paid /\ r.pc # "new"
        BY <1>1 DEF Call
    <2>3. call' = [call EXCEPT ![c] = r]
        BY <1>6, <2>1 DEF Conclude
    <2> HIDE DEF r
    <2> QED BY <1>2, <2>2, <2>3
<1>7. CASE call' = [call EXCEPT ![c].pc = "limit", ![c].seen = code, ![c].resolve = TRUE]
    <2> DEFINE r == [call[c] EXCEPT !.pc = "limit", !.seen = code, !.resolve = TRUE]
    <2>1. r.user = call[c].user /\ r.paid = call[c].paid /\ r.pc # "new"
        BY <1>1 DEF Call
    <2>2. call' = [call EXCEPT ![c] = r]
        BY <1>7
    <2> HIDE DEF r
    <2> QED BY <1>2, <2>1, <2>2
<1>8. ASSUME NEW b, call' = [call EXCEPT ![c].pc = "tx", ![c].balance = b] PROVE PaymentsStand
    <2> DEFINE r == [call[c] EXCEPT !.pc = "tx", !.balance = b]
    <2>1. r.user = call[c].user /\ r.paid = call[c].paid /\ r.pc # "new"
        BY <1>1 DEF Call
    <2>2. call' = [call EXCEPT ![c] = r]
        BY <1>8
    <2> HIDE DEF r
    <2> QED BY <1>2, <2>1, <2>2
<1> QED BY <1>4, <1>5, <1>6, <1>7, <1>8 DEF Resolve

\* Every step of a call but its beginning and its transaction.
LEMMA OtherStepsBalance ==
    ASSUME Inv, BalanceInv, NEW c \in Calls,
           \/ Lookup(c) \/ Create(c) \/ CheckLimit(c) \/ AcquireLock(c) \/ ReadCode(c)
           \/ ReadUser(c) \/ Reread(c) \/ ReleaseLock(c) \/ Latest(c)
    PROVE  BalanceInv'
<1>1. TypeOK /\ call[c] \in Call
    BY DEF Inv, TypeOK
<1>2. save' = save /\ balance' = balance /\ debited' = debited
    BY DEF Lookup, Create, CheckLimit, AcquireLock, ReadCode, ReadUser, Reread, ReleaseLock,
           Latest, Others
<1>3. PaymentsStand
    <2>1. CASE Lookup(c)
        <3>1. call[c].pc # "new" /\ (Resolve(c) \/ \E pc \in Pcs \ {"new"} : Goto(c, pc))
            BY <2>1 DEF Lookup, Pcs, Answers
        <3> QED BY <1>1, <3>1, StandsStill
    <2>2. CASE Create(c)
        <3>1. call[c].pc # "new" /\ \E pc \in Pcs \ {"new"} : Goto(c, pc)
            BY <2>2 DEF Create, Pcs, Answers
        <3> QED BY <1>1, <3>1, StandsStill
    <2>3. CASE CheckLimit(c) \/ AcquireLock(c)
        <3>1. call[c].pc # "new" /\ \E pc \in Pcs \ {"new"} : Goto(c, pc)
            BY <2>3 DEF CheckLimit, AcquireLock, Pcs, Answers
        <3> QED BY <1>1, <3>1, StandsStill
    <2>4. CASE ReadCode(c)
        <3>1. call[c].pc # "new" /\ ((\E then \in Answers : Unlock(c, then)) \/ See(c, "readUser"))
            BY <2>4 DEF ReadCode, Answers
        <3>2. "readUser" \in Pcs \ {"new"}
            BY DEF Pcs, Answers
        <3> QED BY <1>1, <3>1, <3>2, StandsStill
    <2>5. CASE ReadUser(c)
        <3>1. call[c].pc # "new" /\ ((\E then \in Answers : Unlock(c, then))
                  \/ \E b : call' = [call EXCEPT ![c].pc = "tx", ![c].balance = b])
            BY <2>5 DEF ReadUser, Answers
        <3> QED BY <1>1, <3>1, StandsStill
    <2>6. CASE Reread(c)
        <3>1. call[c].pc # "new" /\ \E then \in Answers : Unlock(c, then)
            BY <2>6 DEF Reread, Answers
        <3> QED BY <1>1, <3>1, StandsStill
    <2>7. CASE ReleaseLock(c)
        <3>1. PICK pc : pc = IF call[c].then = "used" /\ call[c].resolve THEN "latest" ELSE call[c].then
            OBVIOUS
        <3>2. call[c].pc # "new" /\ Goto(c, pc)
            BY <2>7, <3>1 DEF ReleaseLock
        <3>3. pc \in Pcs \ {"new"}
            BY <1>1, <3>1 DEF Call, Pcs, Answers
        <3> QED BY <1>1, <3>2, <3>3, StandsStill
    <2>8. CASE Latest(c)
        <3>1. call[c].pc # "new" /\ \E row : Conclude(c, row)
            BY <2>8 DEF Latest
        <3> QED BY <1>1, <3>1, StandsStill
    <2> QED BY <2>1, <2>2, <2>3, <2>4, <2>5, <2>6, <2>7, <2>8
<1> QED BY <1>2, <1>3, BalancesStand

\* A call begins: one more names the user, and is paid nothing yet.
LEMMA BeginBalances == ASSUME Inv, BalanceInv, NEW c \in Calls, Begin(c) PROVE BalanceInv'
<1>1. /\ TypeOK /\ call \in [Calls -> Call] /\ call[c] \in Call /\ call[c].pc = "new"
      /\ call[c].user = NoUser
      /\ save' = save /\ balance' = balance /\ debited' = debited
    BY DEF Inv, TypeOK, Begin, BalanceInv, Begun, Others
<1>2. call[c].paid = 0
    BY <1>1, Unpaid
<1>3. PICK u \in Users, pc \in {"limit", "lookup"} :
          call' = [call EXCEPT ![c].pc = pc, ![c].user = u]
    BY DEF Begin
<1>4. PICK r : r = [call[c] EXCEPT !.pc = pc, !.user = u]
    OBVIOUS
<1>5. r.pc # "new" /\ r.user = u /\ r.paid = 0
    BY <1>1, <1>2, <1>4 DEF Call
<1>6. call' = [call EXCEPT ![c] = r]
    BY <1>1, <1>3, <1>4
<1>7. call'[c] = r /\ \A d \in Calls \ {c} : call'[d] = call[d]
    BY <1>1, <1>6
<1>8. Payments' = Payments
    <2>1. \A d \in Calls : call'[d].paid = call[d].paid
        BY <1>2, <1>5, <1>7
    <2> QED BY <2>1 DEF Payments
<1>9. ASSUME NEW v \in Users, v # u
      PROVE  CallsOf(v)' = CallsOf(v)
    <2>1. call[c].user # v
        BY <1>1, RedeemAssumption DEF RedeemAssumption
    <2> QED BY <1>5, <1>7, <1>9, <2>1 DEF CallsOf
<1>10. c \notin CallsOf(u) /\ CallsOf(u)' = CallsOf(u) \cup {c}
    <2>1. call[c].user # u
        BY <1>1, RedeemAssumption DEF RedeemAssumption
    <2> QED BY <1>5, <1>7, <2>1 DEF CallsOf
<1>11. PaidTo(u)' = PaidTo(u)
    <2>1. PICK f, S : f = Payments /\ S = CallsOf(u)
        OBVIOUS
    <2>2. f[c] = 0 /\ \A d \in S : f[d] \in Int
        BY <1>1, <1>2, <2>1 DEF Payments, CallsOf, Call
    <2>3. IsFiniteSet(S) /\ c \notin S
        BY <1>10, <2>1 DEF BalanceInv, FewName
    <2>4. SumFunctionOnSet(f, S \cup {c}) = SumFunctionOnSet(f, S) + f[c]
        <3>1. \A d \in S \cup {c} : f[d] \in Int
            BY <2>2
        <3> QED BY <2>3, <3>1, SumGrows
    <2>5. SumFunctionOnSet(f, S) \in Int
        BY <2>2, <2>3, SumType
    <2>6. SumFunctionOnSet(f, S \cup {c}) = SumFunctionOnSet(f, S)
        BY <2>2, <2>4, <2>5
    <2>7. PaidTo(u) = SumFunctionOnSet(f, S)
        BY <2>1 DEF PaidTo
    <2>8. PaidTo(u)' = SumFunctionOnSet(f, S \cup {c})
        BY <1>8, <1>10, <2>1 DEF PaidTo
    <2> QED BY <2>6, <2>7, <2>8
<1>12. \A v \in Users : PaidTo(v)' = PaidTo(v)
    BY <1>8, <1>9, <1>11 DEF PaidTo
<1>13. \A v \in Users : /\ SavesOf(v)' = SavesOf(v) /\ AddedTo(v)' = AddedTo(v)
                        /\ Overwritten(v)' <=> Overwritten(v)
    BY <1>1, SavesStand
<1>14. Begun'
    BY <1>1, <1>5, <1>7 DEF BalanceInv, Begun
<1>15. FewName'
    <2>1. IsFiniteSet(CallsOf(u)')
        <3>1. PICK S : S = CallsOf(u)
            OBVIOUS
        <3>2. IsFiniteSet(S)
            BY <3>1 DEF BalanceInv, FewName
        <3>3. IsFiniteSet(S \cup {c})
            BY <3>2, FS_AddElement
        <3> QED BY <1>10, <3>1, <3>3
    <2> QED BY <1>9, <1>13, <2>1 DEF BalanceInv, FewName
<1>16. \A v \in Users : Balanced(v)'
    BY <1>1, <1>12, <1>13 DEF BalanceInv, Balanced
<1> QED BY <1>14, <1>15, <1>16 DEF BalanceInv

\* The transaction pays one call, and adds as much to the balance of its user.
LEMMA TransactionBalances == ASSUME Inv, BalanceInv, NEW c \in Calls, Transaction(c) PROVE BalanceInv'
<1>1. /\ TypeOK /\ call \in [Calls -> Call] /\ call[c] \in Call /\ call[c].pc = "tx"
      /\ call[c].user \in Users /\ save' = save /\ debited' = debited
    BY DEF Inv, TypeOK, Transaction, PaidInv, CallsCoherent, Coherent
<1>2. call[c].paid = 0
    BY <1>1, Unpaid
<1>3. CASE balance' = balance /\ \E then \in Answers : Unlock(c, then)
    <2>1. PaymentsStand
        BY <1>1, <1>3, StandsStill
    <2> QED BY <1>1, <1>3, <2>1, BalancesStand
<1>4. CASE /\ balance' = [balance EXCEPT ![call[c].user] = @ + Amount(c)]
           /\ \E answer \in {"reread", "unlock"} :
                 call' = [call EXCEPT ![c].pc = answer, ![c].paid = Amount(c), ![c].then = "error"]
    <2>1. PICK u \in Users, a \in Int : u = call[c].user /\ a = Amount(c)
        BY <1>1, AmountType, RedeemAssumption
    <2>2. PICK answer \in {"reread", "unlock"} :
              call' = [call EXCEPT ![c].pc = answer, ![c].paid = a, ![c].then = "error"]
        BY <1>4, <2>1
    <2>3. PICK r : r = [call[c] EXCEPT !.pc = answer, !.paid = a, !.then = "error"]
        OBVIOUS
    <2>4. r.pc # "new" /\ r.user = u /\ r.paid = a
        BY <1>1, <2>1, <2>3 DEF Call
    <2>5. call' = [call EXCEPT ![c] = r]
        BY <1>1, <2>2, <2>3
    <2>6. call'[c] = r /\ \A d \in Calls \ {c} : call'[d] = call[d]
        BY <1>1, <2>5
    <2>7. \A v \in Users : CallsOf(v)' = CallsOf(v)
        BY <2>1, <2>4, <2>6 DEF CallsOf
    <2>8. PICK f, g : f = Payments /\ g = Payments'
        OBVIOUS
    <2>9. /\ f[c] = 0 /\ g[c] = a
          /\ \A d \in Calls : f[d] \in Int /\ g[d] \in Int /\ (d # c => g[d] = f[d])
        <3>1. \A d \in Calls : call[d].paid \in Int
            BY <1>1 DEF Call
        <3> QED BY <1>2, <2>4, <2>6, <2>8, <3>1 DEF Payments
    <2>10. PaidTo(u)' = PaidTo(u) + a
        <3>1. PICK S : S = CallsOf(u)
            OBVIOUS
        <3>2. IsFiniteSet(S) /\ c \in S /\ S \subseteq Calls
            BY <2>1, <3>1 DEF CallsOf, BalanceInv, FewName
        <3>3. \A d \in S : f[d] \in Int /\ g[d] \in Int /\ (d # c => g[d] = f[d])
            BY <2>9, <3>2
        <3>4. SumFunctionOnSet(g, S) = SumFunctionOnSet(f, S) + (g[c] - f[c])
            BY <3>2, <3>3, SumChanges
        <3>5. PaidTo(u) = SumFunctionOnSet(f, S) /\ PaidTo(u)' = SumFunctionOnSet(g, S)
            BY <2>7, <2>8, <3>1 DEF PaidTo
        <3> QED BY <2>9, <3>4, <3>5
    <2>11. ASSUME NEW v \in Users, v # u PROVE PaidTo(v)' = PaidTo(v)
        <3>1. PICK S : S = CallsOf(v)
            OBVIOUS
        <3>2. IsFiniteSet(S) /\ c \notin S /\ S \subseteq Calls
            BY <2>1, <2>11, <3>1 DEF CallsOf, BalanceInv, FewName
        <3>3. \A d \in S : f[d] \in Int /\ g[d] = f[d]
            BY <2>9, <3>2
        <3>4. SumFunctionOnSet(g, S) = SumFunctionOnSet(f, S)
            BY <3>2, <3>3, SumSame
        <3> QED BY <2>7, <2>8, <3>1, <3>4 DEF PaidTo
    <2>12. \A v \in Users : /\ SavesOf(v)' = SavesOf(v) /\ AddedTo(v)' = AddedTo(v)
                            /\ Overwritten(v)' <=> Overwritten(v)
        BY <1>1, SavesStand
    <2>13. Begun'
        BY <1>1, <2>4, <2>6 DEF BalanceInv, Begun
    <2>14. FewName'
        BY <2>7, <2>12 DEF BalanceInv, FewName
    <2>15. balance'[u] = balance[u] + a /\ \A v \in Users : v # u => balance'[v] = balance[v]
        BY <1>1, <1>4, <2>1 DEF TypeOK
    <2>16. Balanced(u)'
        <3>1. CASE Overwritten(u)
            BY <2>12, <3>1 DEF Balanced
        <3>2. CASE balance[u] = StartBalance - debited[u] + PaidTo(u) + AddedTo(u)
            <4>1. PICK p \in Int, q \in Int : p = PaidTo(u) /\ q = AddedTo(u)
                BY <1>1, SumsAreIntegers DEF BalanceInv
            <4>2. StartBalance \in Int /\ debited[u] \in Int
                BY <1>1, RedeemAssumption DEF RedeemAssumption, TypeOK
            <4>3. balance'[u] = StartBalance - debited[u] + (p + a) + q
                BY <2>15, <3>2, <4>1, <4>2
            <4> QED BY <1>1, <2>10, <2>12, <4>1, <4>3 DEF Balanced
        <3> QED BY <3>1, <3>2 DEF BalanceInv, Balanced
    <2>17. ASSUME NEW v \in Users, v # u PROVE Balanced(v)'
        BY <1>1, <2>11, <2>12, <2>15, <2>17 DEF BalanceInv, Balanced
    <2> QED BY <2>13, <2>14, <2>16, <2>17 DEF BalanceInv
<1> QED BY <1>3, <1>4 DEF Transaction, Answers

\* A charge.
LEMMA DebitBalances == ASSUME Inv, BalanceInv, NEW u \in Users, Debit(u) PROVE BalanceInv'
<1>1. /\ TypeOK /\ save' = save /\ call' = call
      /\ balance \in [Users -> Int] /\ debited \in [Users -> Nat]
      /\ balance' = [balance EXCEPT ![u] = @ - 1] /\ debited' = [debited EXCEPT ![u] = @ + 1]
    BY DEF Inv, TypeOK, Debit
<1>2. PaymentsStand
    BY <1>1 DEF PaymentsStand
<1>3. \A v \in Users : /\ CallsOf(v)' = CallsOf(v) /\ PaidTo(v)' = PaidTo(v)
                       /\ SavesOf(v)' = SavesOf(v) /\ AddedTo(v)' = AddedTo(v)
                       /\ Overwritten(v)' <=> Overwritten(v)
    BY <1>1, <1>2, PaidToStands, SavesStand
<1>4. Begun' /\ FewName'
    BY <1>1, <1>3 DEF BalanceInv, Begun, FewName
<1>5. ASSUME NEW v \in Users PROVE Balanced(v)'
    <2>1. CASE Overwritten(v)
        BY <1>3, <2>1 DEF Balanced
    <2>2. CASE balance[v] = StartBalance - debited[v] + PaidTo(v) + AddedTo(v)
        <3>1. PICK p \in Int, q \in Int : p = PaidTo(v) /\ q = AddedTo(v)
            BY <1>1, SumsAreIntegers DEF BalanceInv
        <3>2. StartBalance \in Int
            BY RedeemAssumption DEF RedeemAssumption
        <3>3. balance'[v] = StartBalance - debited'[v] + p + q
            BY <1>1, <2>2, <3>1, <3>2
        <3> QED BY <1>3, <3>1, <3>3 DEF Balanced
    <2> QED BY <2>1, <2>2 DEF BalanceInv, Balanced
<1> QED BY <1>4, <1>5 DEF BalanceInv

\* A save reads a row.
LEMMA SaveReadBalances == ASSUME Inv, BalanceInv, NEW s \in Saves, SaveRead(s) PROVE BalanceInv'
<1>1. /\ TypeOK /\ save[s].pc = "idle" /\ save[s].user = NoUser /\ ~save[s].stale
      /\ call' = call /\ balance' = balance /\ debited' = debited
    BY DEF Inv, SaveRead, BalanceInv, Begun
<1>2. PICK u \in Users, delta \in {0, 1}, b \in Int :
          save' = [save EXCEPT ![s].pc = "write", ![s].user = u, ![s].delta = delta,
                               ![s].balance = b]
    <2>1. \A u \in Users : balance[u] \in Int
        BY <1>1 DEF TypeOK
    <2> QED BY <2>1 DEF SaveRead
<1>3. PICK r : r = [save[s] EXCEPT !.pc = "write", !.user = u, !.delta = delta, !.balance = b]
    OBVIOUS
<1>4. r.pc = "write" /\ r.user = u /\ r.delta = delta /\ r.stale = save[s].stale
    BY <1>1, <1>3 DEF TypeOK
<1>5. save'[s] = r /\ \A t \in Saves \ {s} : save'[t] = save[t]
    BY <1>1, <1>2, <1>3 DEF TypeOK
<1>6. \A v \in Users : SavesOf(v)' = SavesOf(v) /\ s \notin SavesOf(v)
    BY <1>1, <1>4, <1>5 DEF SavesOf
<1>7. ASSUME NEW v \in Users PROVE AddedTo(v)' = AddedTo(v)
    <2>1. PICK f, g, S : f = Additions /\ g = Additions' /\ S = SavesOf(v)
        OBVIOUS
    <2>2. IsFiniteSet(S)
        BY <2>1 DEF BalanceInv, FewName
    <2>5. \A t \in S : f[t] \in Int
        BY <1>1, <2>1 DEF SavesOf, Additions, TypeOK
    <2>3. \A t \in S : g[t] = f[t]
        BY <1>5, <1>6, <2>1 DEF Additions, SavesOf
    <2>4. SumFunctionOnSet(g, S) = SumFunctionOnSet(f, S)
        BY <2>2, <2>5, <2>3, SumSame
    <2> QED BY <1>6, <2>1, <2>4 DEF AddedTo
<1>8. \A v \in Users : Overwritten(v) => Overwritten(v)'
    <2>1. NoUser \notin Users
        BY RedeemAssumption DEF RedeemAssumption
    <2> QED BY <1>1, <1>5, <2>1 DEF Overwritten
<1>9. PaymentsStand
    BY <1>1 DEF PaymentsStand
<1>10. \A v \in Users : CallsOf(v)' = CallsOf(v) /\ PaidTo(v)' = PaidTo(v)
    BY <1>9, PaidToStands
<1>11. Begun'
    BY <1>1, <1>4, <1>5 DEF BalanceInv, Begun
<1>12. FewName'
    BY <1>6, <1>10 DEF BalanceInv, FewName
<1>13. \A v \in Users : Balanced(v)'
    BY <1>1, <1>7, <1>8, <1>10 DEF BalanceInv, Balanced
<1> QED BY <1>11, <1>12, <1>13 DEF BalanceInv

\* A save writes the row back, or is refused.
LEMMA SaveWriteBalances == ASSUME Inv, BalanceInv, NEW s \in Saves, SaveWrite(s) PROVE BalanceInv'
<1>1. /\ TypeOK /\ save[s].pc = "write" /\ save[s].user \in Users /\ ~save[s].stale
      /\ call' = call /\ debited' = debited
    BY DEF Inv, SaveWrite, BalanceInv, Begun
<1>2. PICK u \in Users, a \in Int, b \in Int :
          u = save[s].user /\ a = save[s].delta /\ b = save[s].balance
    BY <1>1 DEF TypeOK
<1>3. PaymentsStand
    BY <1>1 DEF PaymentsStand
<1>4. \A v \in Users : CallsOf(v)' = CallsOf(v) /\ PaidTo(v)' = PaidTo(v)
    BY <1>3, PaidToStands
<1>5. CASE balance' = balance /\ save' = [save EXCEPT ![s].pc = "refused"]
    <2>1. \A t \in Saves : /\ save'[t].user = save[t].user /\ save'[t].delta = save[t].delta
                           /\ save'[t].stale = save[t].stale
                           /\ save'[t].pc = IF t = s THEN "refused" ELSE save[t].pc
        BY <1>1, <1>5 DEF TypeOK
    <2>2. Additions' = Additions
        BY <2>1 DEF Additions
    <2>3. \A v \in Users : SavesOf(v)' = SavesOf(v) /\ (Overwritten(v)' <=> Overwritten(v))
        BY <1>1, <2>1 DEF SavesOf, Overwritten
    <2>4. \A v \in Users : AddedTo(v)' = AddedTo(v)
        BY <2>2, <2>3 DEF AddedTo
    <2>5. Begun'
        BY <1>1, <2>1 DEF BalanceInv, Begun
    <2>6. FewName'
        BY <1>4, <2>3 DEF BalanceInv, FewName
    <2>7. \A v \in Users : Balanced(v)'
        BY <1>1, <1>4, <1>5, <2>3, <2>4 DEF BalanceInv, Balanced
    <2> QED BY <2>5, <2>6, <2>7 DEF BalanceInv
<1>6. CASE /\ balance' = [balance EXCEPT ![u] = b + a]
           /\ save' = [save EXCEPT ![s].pc = "saved", ![s].stale = balance[u] # b]
    <2>1. PICK r : r = [save[s] EXCEPT !.pc = "saved", !.stale = balance[u] # b]
        OBVIOUS
    <2>2. /\ r.pc = "saved" /\ r.user = u /\ r.delta = a
          /\ r.stale <=> balance[u] # b
        BY <1>1, <1>2, <2>1 DEF TypeOK
    <2>3. save'[s] = r /\ \A t \in Saves \ {s} : save'[t] = save[t]
        BY <1>1, <1>6, <2>1 DEF TypeOK
    <2>4. Additions' = Additions
        <3>1. \A t \in Saves : save'[t].delta = save[t].delta
            BY <1>2, <2>2, <2>3
        <3> QED BY <3>1 DEF Additions
    <2>5. s \notin SavesOf(u) /\ SavesOf(u)' = SavesOf(u) \cup {s}
        BY <1>1, <2>2, <2>3 DEF SavesOf
    <2>6. \A v \in Users : v # u => SavesOf(v)' = SavesOf(v)
        BY <1>2, <2>2, <2>3 DEF SavesOf
    <2>7. AddedTo(u)' = AddedTo(u) + a
        <3>1. PICK f, S : f = Additions /\ S = SavesOf(u)
            OBVIOUS
        <3>2. f[s] = a /\ \A t \in S \cup {s} : f[t] \in Int
            BY <1>1, <1>2, <3>1 DEF Additions, SavesOf, TypeOK
        <3>3. IsFiniteSet(S) /\ s \notin S
            BY <2>5, <3>1 DEF BalanceInv, FewName
        <3>4. SumFunctionOnSet(f, S \cup {s}) = SumFunctionOnSet(f, S) + f[s]
            BY <3>2, <3>3, SumGrows
        <3> QED BY <2>4, <2>5, <3>1, <3>2, <3>4 DEF AddedTo
    <2>8. \A v \in Users : v # u => AddedTo(v)' = AddedTo(v)
        BY <2>4, <2>6 DEF AddedTo
    <2>9. \A v \in Users : Overwritten(v) => Overwritten(v)'
        BY <1>1, <2>3 DEF Overwritten
    <2>10. Begun'
        BY <1>1, <2>2, <2>3 DEF BalanceInv, Begun
    <2>11. FewName'
        <3>1. IsFiniteSet(SavesOf(u)')
            <4>1. PICK S : S = SavesOf(u)
                OBVIOUS
            <4>2. IsFiniteSet(S \cup {s})
                BY <4>1, FS_AddElement DEF BalanceInv, FewName
            <4> QED BY <2>5, <4>1, <4>2
        <3> QED BY <1>4, <2>6, <3>1 DEF BalanceInv, FewName
    <2>12. balance'[u] = b + a /\ \A v \in Users : v # u => balance'[v] = balance[v]
        BY <1>1, <1>6 DEF TypeOK
    <2>13. Balanced(u)'
        <3>1. CASE balance[u] # b
            BY <2>2, <2>3, <3>1 DEF Balanced, Overwritten
        <3>2. CASE Overwritten(u)
            BY <2>9, <3>2 DEF Balanced
        <3>3. CASE /\ balance[u] = b
                   /\ balance[u] = StartBalance - debited[u] + PaidTo(u) + AddedTo(u)
            <4>1. PICK p \in Int, q \in Int : p = PaidTo(u) /\ q = AddedTo(u)
                BY <1>1, SumsAreIntegers DEF BalanceInv
            <4>2. StartBalance \in Int /\ debited[u] \in Int
                BY <1>1, RedeemAssumption DEF RedeemAssumption, TypeOK
            <4>3. balance'[u] = StartBalance - debited[u] + p + (q + a)
                BY <2>12, <3>3, <4>1, <4>2
            <4> QED BY <1>1, <1>4, <2>7, <4>1, <4>3 DEF Balanced
        <3> QED BY <3>1, <3>2, <3>3 DEF BalanceInv, Balanced
    <2>14. ASSUME NEW v \in Users, v # u PROVE Balanced(v)'
        BY <1>1, <1>4, <2>8, <2>9, <2>12, <2>14 DEF BalanceInv, Balanced
    <2> QED BY <2>10, <2>11, <2>13, <2>14 DEF BalanceInv
<1> QED BY <1>2, <1>5, <1>6 DEF SaveWrite

\* At first nothing is added to the start balance.
LEMMA InitBalances == RedeemAssumption /\ Init => BalanceInv
<1> SUFFICES ASSUME RedeemAssumption, Init PROVE BalanceInv
    OBVIOUS
<1>1. /\ \A c \in Calls : call[c].pc = "new" /\ call[c].user = NoUser
      /\ \A s \in Saves : save[s].pc = "idle" /\ save[s].user = NoUser /\ ~save[s].stale
      /\ \A u \in Users : balance[u] = StartBalance /\ debited[u] = 0
    BY DEF Init
<1>2. Begun
    BY <1>1 DEF Begun
<1>3. \A u \in Users : CallsOf(u) = {} /\ SavesOf(u) = {}
    BY <1>1 DEF CallsOf, SavesOf, RedeemAssumption
<1>4. IsFiniteSet({})
    BY FS_EmptySet
<1>5. \A u \in Users : PaidTo(u) = 0 /\ AddedTo(u) = 0
    <2>1. PICK f, g : f = Payments /\ g = Additions
        OBVIOUS
    <2>2. SumFunctionOnSet(f, {}) = 0 /\ SumFunctionOnSet(g, {}) = 0
        BY <1>4, SumType
    <2> QED BY <1>3, <2>1, <2>2 DEF PaidTo, AddedTo
<1>6. FewName
    BY <1>3, <1>4 DEF FewName
<1>7. \A u \in Users : Balanced(u)
    BY <1>1, <1>5 DEF Balanced, RedeemAssumption
<1> QED BY <1>2, <1>6, <1>7 DEF BalanceInv

LEMMA StepBalances == Inv /\ BalanceInv /\ [Next]_vars => BalanceInv'
<1> SUFFICES ASSUME Inv, BalanceInv, [Next]_vars PROVE BalanceInv'
    OBVIOUS
<1>1. ASSUME NEW c \in Calls, CallStep(c) PROVE BalanceInv'
    BY <1>1, BeginBalances, TransactionBalances, OtherStepsBalance DEF CallStep
<1>2. CASE \E s \in Saves : SaveRead(s) \/ SaveWrite(s)
    BY <1>2, SaveReadBalances, SaveWriteBalances
<1>3. CASE \E u \in Users : Debit(u)
    BY <1>3, DebitBalances
<1>4. CASE LockExpires \/ Delete \/ ExpireRead \/ ExpireWrite \/ ExportRedeem \/ UNCHANGED vars
    <2>1. call' = call /\ save' = save /\ balance' = balance /\ debited' = debited
        BY <1>4 DEF LockExpires, Delete, ExpireRead, ExpireWrite, ExportRedeem, vars, Others
    <2>2. PaymentsStand
        BY <2>1 DEF PaymentsStand
    <2> QED BY <2>1, <2>2, BalancesStand
<1> QED BY <1>1, <1>2, <1>3, <1>4 DEF Next

-----------------------------------------------------------------------------
(* The results. *)

LEMMA InvIsInductive == Spec => []Inv
<1>1. Init => Inv
    BY InitInv, RedeemAssumption
<1>2. Inv /\ [Next]_vars => Inv'
    BY RedeemAssumption, CallStepKeeps, DeleteKeeps, ExpireReadKeeps, ExpireWriteKeeps, ExportRedeemKeeps,
       OthersKeep DEF Next
<1>3. QED  BY <1>1, <1>2, PTL DEF Spec

(* A row of the code is paid out at most once, and never after the code was*)
(* moved: the update of Use asks for an unused row, and nothing makes a row*)
(* unused again.                                                           *)
THEOREM RowIsPaidOnce == Spec => []PaidOncePerRow
<1>1. Inv => PaidOncePerRow
    BY DEF Inv, PaidInv, PaidOnce, PaidRowIsUsed, MovedStaysUnused, PaidOncePerRow, Paid
<1>2. QED  BY <1>1, InvIsInductive, PTL

(* The answers of Redeem and CreateAndRedeem are true: success means that  *)
(* the user was paid, and a user whom the row paid is told so unless the   *)
(* expire endpoint wrote over it.                                          *)
THEOREM AnswersAreSound == Spec => []AnswersSound
<1>1. Inv => PaidUserGetsOkUnlessErased
    BY DEF Inv, PaidInv, CallsCoherent, Coherent, ReadersSawThePayment, Paid,
           PaidUserGetsOkUnlessErased
<1>2. Inv => AnswersSound
    BY <1>1 DEF Inv, PaidInv, AnswersSound
<1>3. QED  BY <1>2, InvIsInductive, PTL

(* No charge, credit or adjustment is lost, until someone saves a user's   *)
(* row that is no longer the one he read: Redeem and the usage path add to *)
(* the balance that is there, a save writes the one it read, and a user's  *)
(* balance is the sum of what the calls, the charges and the saves that    *)
(* name him did to it.                                                     *)
THEOREM BalancesAddUp == Spec => []BalanceAddsUp
<1>1. Init => BalanceInv
    BY InitBalances, RedeemAssumption
<1>2. Inv /\ BalanceInv /\ [Next]_vars => BalanceInv'
    BY StepBalances
<1>3. BalanceInv => BalanceAddsUp
    BY DEF BalanceInv, BalanceAddsUp, Balanced, Overwritten, PaidTo, AddedTo, Payments, Additions,
           CallsOf, SavesOf
<1> QED BY <1>1, <1>2, <1>3, InvIsInductive, PTL DEF Spec
=============================================================================
