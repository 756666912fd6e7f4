------------------------------ MODULE MCUpload ------------------------------
(* Model-checking instance of Upload. *)
EXTENDS Upload, TLC

\* For 3 bytes in chunks of 2: both parts, a final part of a full chunk, and an
\* index past the end.
MCPartTries == {<<0, 2>>, <<1, 1>>, <<1, 2>>, <<2, 1>>}

UploadSymmetry ==
    Permutations(Owners) \cup Permutations(Uploads)
    \cup Permutations(Digests) \cup Permutations(BackendParts)
============================================================================
