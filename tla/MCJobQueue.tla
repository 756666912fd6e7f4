----------------------------- MODULE MCJobQueue -----------------------------
(* Values and symmetry for the instances of JobQueue that TLC checks.      *)
EXTENDS JobQueue, TLC

\* Every job belongs to the same owner; any other owner is a stranger to all.
MCOwnerOf == [j \in Jobs |-> CHOOSE o \in Owners : TRUE]

\* Worker identities are interchangeable: no definition tells them apart.
WorkerSymmetry == Permutations(Workers)
============================================================================
