--------------------------- MODULE MCE2Connection ---------------------------
(* Model-checking module of E2Connection.                                  *)
EXTENDS E2Connection, TLC

CONSTANTS simA, simB, simC

MCOneSim == {simA}
MCTwoSims == {simA, simB}
MCThreeSims == {simA, simB, simC}

(* main's E2Sim is told from the others, which are alike. *)
MCHandovers == Permutations({simB, simC})

(* Bound: with all three E2Sims the behaviours are cut at the first        *)
(* SIGTERM; a shutdown is followed to its end with two.                    *)
MCThreeUntilSigterm ==
    (\E s \in Sim : runner[s] = "none")
    \/ (~sigterm /\ main \in {"connecting", "waiting"})
=============================================================================
