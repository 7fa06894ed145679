---------------------------- MODULE MCInsertLoop ----------------------------
(***************************************************************************)
(* Model-checking module of InsertLoop.                                    *)
(***************************************************************************)
EXTENDS InsertLoop

CONSTANTS simA, simB, http

MCOneSim == {simA}
MCTwoSims == {simA, simB}
MCHandler == {http}
MCNoHandler == {}

OneInsert(id, action) == [id |-> id, actions |-> <<[id |-> action, type |-> "insert"]>>]

(* A request that is admitted. *)
MCOneRequest == {OneInsert(1, 7)}

(* Also a second one that is admitted, one that makes the encoder fail and *)
(* one that makes the failure path crash.                                  *)
MCAllRequests ==
    { OneInsert(1, 7), OneInsert(2, 8),
      [id |-> 3, actions |-> <<[id |-> 7, type |-> "insert"], [id |-> 8, type |-> "report"]>>],
      [id |-> 4, actions |-> <<[id |-> 9, type |-> "policy"]>>] }
=============================================================================
