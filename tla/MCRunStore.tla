----------------------------- MODULE MCRunStore -----------------------------
(***************************************************************************)
(* Small instances of RunStore.                                            *)
(***************************************************************************)
EXTENDS RunStore, TLC

\* Runs 1 and 2 are turns of one session, run 3 is a turn of another one.
MCSessionOf == [r \in Runs |-> IF r <= 2 THEN 1 ELSE 2]

\* Every call belongs to the first run.
MCRunOf == [t \in Calls |-> 1]

\* The calls of a run are interchangeable.
CallSymmetry == Permutations(Calls)

=============================================================================
