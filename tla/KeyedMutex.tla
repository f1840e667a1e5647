----------------------------- MODULE KeyedMutex -----------------------------
(***************************************************************************)
(* What a caller of lockContext relies on: between a successful return and *)
(* the call of the function it returned, nobody else holds the same key.   *)
(***************************************************************************)
CONSTANTS Callers, Keys, NoKey

VARIABLE holding    \* the key each caller holds, or NoKey

Init == holding = [p \in Callers |-> NoKey]

Lock(p, k) ==
  /\ holding[p] = NoKey
  /\ \A q \in Callers : holding[q] # k
  /\ holding' = [holding EXCEPT ![p] = k]

Unlock(p) ==
  /\ holding[p] # NoKey
  /\ holding' = [holding EXCEPT ![p] = NoKey]

Next == \E p \in Callers : Unlock(p) \/ \E k \in Keys : Lock(p, k)

Spec == Init /\ [][Next]_holding
=============================================================================
