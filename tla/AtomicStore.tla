----------------------------- MODULE AtomicStore -----------------------------
(***************************************************************************)
(* What the store promises of its history: each commit is one whole        *)
(* mutation of the commit before it.                                       *)
(***************************************************************************)
EXTENDS StoreFiles

VARIABLE store  \* the files in the last commit

Init == store = Empty
Next == IsMutation(store, store')
Spec == Init /\ [][Next]_store

=============================================================================
