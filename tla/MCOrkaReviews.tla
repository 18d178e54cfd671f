--------------------------- MODULE MCOrkaReviews ---------------------------
(* Small instances of a candidate's reviews. *)
EXTENDS OrkaReviews, TLC

(* Processes differ in nothing. *)
Interchangeable == Permutations(Procs)
=============================================================================
