----------------------------- MODULE MCJobQueue -----------------------------
(* Values for model checking JobQueue. *)
EXTENDS JobQueue, TLC

\* A ladder of one rung, and the attempts it allows.
OneRung == <<1>>
AttemptsOfLadder == [j \in Jobs |-> Len(Ladder) + 1]

\* Workers are interchangeable; every job of the run behaves in its own way.
WorkerSymmetry == Permutations(Workers)
=============================================================================
