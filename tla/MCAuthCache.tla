---------------------------- MODULE MCAuthCache -----------------------------
(* Values for model checking AuthCache. *)
EXTENDS AuthCache, TLC

\* Requests are interchangeable, and so are the issued keys.
RequestAndKeySymmetry == Permutations(Requests) \cup Permutations(Issued)
=============================================================================
