----------------------------- MODULE MCJobIntake -----------------------------
(* Model-checking instance of JobIntake. *)
EXTENDS JobIntake, TLC

\* One byte, one part.
MCOnePartTry == {<<0, 1>>}

IntakeSymmetry ==
    Permutations(Digests) \cup Permutations(BackendParts)
    \cup Permutations(JobIds) \cup Permutations(Creators)
============================================================================
