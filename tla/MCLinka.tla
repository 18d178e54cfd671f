------------------------------- MODULE MCLinka -------------------------------
(* Small instances of the Linka graph. *)
EXTENDS LinkaProperties, TLC
CONSTANTS a, b, v, v2

(* One piece of work, and reviews of its candidates. *)
ReviewCalls == {<<n, {}, {}>> : n \in {a} \cup Reviews}
(* A piece of work that another depends on. *)
ChainCalls == {<<a, {}, {}>>, <<b, {a}, {}>>}
(* Reviews differ in nothing, nor do workers. *)
Interchangeable == Permutations(Reviews) \cup Permutations(Workers)
NoLinks == {}
(* Beside a chain: the dependency that closes it, and a lineage along it. *)
ChainLinks == {<<a, b, "dep">>, <<b, a, "der">>}
=============================================================================
