------------------------- MODULE MCAnonymousSession -------------------------
(***************************************************************************)
(* Instances of AnonymousSession for TLC.                                  *)
(***************************************************************************)
EXTENDS AnonymousSession, TLC

\* No operator depends on which id, secret or address it is given.
SessionSymmetry ==
    Permutations(Sessions) \cup Permutations(Secrets) \cup Permutations(IPs)
============================================================================
