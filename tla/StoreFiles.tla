----------------------------- MODULE StoreFiles -----------------------------
(***************************************************************************)
(* The files of a store and what a mutation makes of them.  A file's       *)
(* content is the revision of its record it was written for, 0 when there  *)
(* is no such file.                                                        *)
(***************************************************************************)
EXTENDS Naturals

CONSTANTS
  Records,      \* the records of the store: definitions, results, candidates
  MaxRevision   \* bound on how often one record is written

ASSUME RevisionAssumption == MaxRevision \in Nat

(* A record is two files; a result without notes has no second one. *)
Parts == {"meta", "text"}
Files == Records \X Parts
Meta(r) == <<r, "meta">>
Text(r) == <<r, "text">>

Contents == [Files -> Nat]
Empty == [f \in Files |-> 0]

(* Each written record goes to its next revision, whole: both files do, or  *)
(* the text is removed.                                                     *)
Mutation(s, written, emptied) ==
  [f \in Files |->
     IF f[1] \notin written THEN s[f]
     ELSE IF f[2] = "text" /\ f[1] \in emptied THEN 0
     ELSE s[Meta(f[1])] + 1]

Writable(s, written) ==
  written # {} /\ \A r \in written : s[Meta(r)] < MaxRevision

IsMutation(s, t) ==
  \E written, emptied \in SUBSET Records :
    Writable(s, written) /\ t = Mutation(s, written, emptied)

=============================================================================
