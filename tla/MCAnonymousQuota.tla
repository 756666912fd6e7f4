-------------------------- MODULE MCAnonymousQuota --------------------------
(***************************************************************************)
(* Instances of AnonymousQuota for TLC.                                    *)
(***************************************************************************)
EXTENDS AnonymousQuota, TLC

MCLimits(window, session, address) ==
    [window |-> window, session |-> [m \in Metrics |-> session],
     address |-> [m \in AddressMetrics |-> IF m = "sessions" THEN 1 ELSE address]]

\* Two sessions of one address together exceed what the address may spend; one
\* session from two addresses exceeds its own limit first.
MCOnePolicy == {MCLimits(2, 2, 3)}

\* Processes deployed with other limits and another window.
MCTwoPolicies == {MCLimits(2, 1, 2), MCLimits(1, 2, 2)}

MCUploadCharge == {<<"uploads", 1>>}
MCMixedCharges == {<<"uploads", 1>>, <<"bytes", 2>>}

QuotaSymmetry ==
    Permutations(Sessions) \cup Permutations(IPs) \cup Permutations(Connections)
        \cup Permutations(Secrets)
============================================================================
