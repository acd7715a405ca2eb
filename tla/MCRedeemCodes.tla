--------------------------- MODULE MCRedeemCodes ---------------------------
(* Two instances in one: two calls that retry and race, or one call among  *)
(* charges and saves of its user's row. Only the first knows of the move.  *)
EXTENDS RedeemCodes, TLC

Idle(s) == save[s].pc = "idle"
OneUser == \E u \in Users :
              /\ \A c \in Calls : call[c].user \in {u, NoUser}
              /\ \A s \in Saves : save[s].user \in {u, NoUser}
              /\ \A v \in Users : debited[v] > 0 => v = u

Retries == (\A s \in Saves : Idle(s)) /\ \A u \in Users : debited[u] = 0
Balance == (\E c \in Calls : call[c].pc = "new") /\ OneUser /\ ~moved

MCNext == Next /\ (Retries \/ Balance)'
MCSpec == Init /\ [][MCNext]_vars

Symmetry == Permutations(Calls) \cup Permutations(Users) \cup Permutations(Saves)
Worths == {1, -2}
=============================================================================
