----------------------------- MODULE LinkaAtomic -----------------------------
(***************************************************************************)
(* What Linka promises of a submission and of a publication: each looks    *)
(* like one step, taken when it is recorded, on the store and the project  *)
(* as they are then.  Here there are no snapshots, no conflicts and no     *)
(* publishers; a result pins exactly what is current at its own step, and  *)
(* is recorded only for a node that is ready at that step.                 *)
(***************************************************************************)
EXTENDS LinkaOperations

(* The result a piece of work gets when it is done against current facts of *)
(* the store, on a revision of the project.                                  *)
CurrentResult(n, outcome, paths, revision, output) ==
  NewResult(outcome, defn[n], PinNodeList(defn[n].dep), PinNodeList(defn[n].der),
            ContextAt(revision, paths), revision, output)

(* What concludes without an output stands on the checkout's commit. *)
Conclude(n, outcome, paths) ==
  /\ Record(n, CurrentResult(n, outcome, paths, HeadCommit, None))
  /\ IsReady(n)
  /\ UNCHANGED <<defn, observed, projectVars>>

Finish(n, paths) ==
  /\ n \in Work
  /\ Conclude(n, "done", paths)
  /\ UNCHANGED cand

(* A failure is told of the revision it happened on, current or not, by     *)
(* someone to whom the node is ready.                                        *)
FinishFailed(n, paths, at) ==
  /\ n \in Work
  /\ Record(n, CurrentResult(n, "failed", paths, at.head, None))
  /\ IsReadyIn(at.tree, n)
  /\ UNCHANGED <<defn, observed, cand, projectVars>>

(* Work done in the checkout is recorded while its output is the commit     *)
(* checked out, on a revision that output descends from.                     *)
Adopt(n, paths, revision) ==
  /\ n \in Work
  /\ Record(n, CurrentResult(n, "done", paths, revision, HeadCommit))
  /\ IsReady(n)
  /\ IsAncestor(revision, HeadCommit)
  /\ \A f \in paths : commits[HeadCommit].tree[f] = commits[revision].tree[f]
  /\ UNCHANGED <<defn, observed, cand, projectVars>>

(* New project work starts from the current commit of the checkout. *)
Produce(n, paths, content) ==
  /\ n \in Work
  /\ Record(n, CurrentResult(n, "done", paths, HeadCommit, Len(commits) + 1))
  /\ IsReady(n)
  /\ Capture(HeadCommit, content)
  /\ UNCHANGED defn

(* ... and is proposed for a branch in the same step. *)
Propose(n, c, target) ==
  /\ cand[c] = None
  /\ cand' = [cand EXCEPT ![c] = NewCandidate(n, version + 1, Len(commits) + 1, target)]
  /\ \E paths \in SUBSET Files :
       observed' = [observed EXCEPT ![n] = @ \cup Observations(result'[n], paths)]

(* A verdict decides a pending candidate that is its node's current result, *)
(* and has that very result among its inputs.                               *)
Decide(v, verdict, paths) ==
  LET c == defn[v].verifies
  IN /\ v \in Reviews
     /\ Conclude(v, verdict, paths)
     /\ cand[c].status = "pending"
     /\ RequireCurrent(c, "pending")
     /\ ExactPin(c, result'[v])
     /\ cand' = [cand EXCEPT ![c] = DecidedState(c, v, verdict)]

Abandon(v, paths) ==
  /\ v \in Reviews
  /\ Conclude(v, "abandoned", paths)
  /\ UNCHANGED cand

(* Only an accepted candidate moves a branch, and only forward from where   *)
(* the branch was accepted.                                                 *)
Publish(c) ==
  /\ cand[c] # None
  /\ cand[c].status = "accepted"
  /\ CanFastForward(c)
  /\ FastForward(c)
  /\ UNCHANGED <<storeVars, commits, version>>

-----------------------------------------------------------------------------
SubmitStep(n, paths) ==
  \/ Finish(n, paths)
  \/ \E at \in Checkouts : FinishFailed(n, paths, at)
  \/ \E revision \in Commits : Adopt(n, paths, revision)
  \/ \E content \in [Files -> Blobs], c \in Cands, target \in Branches :
       Produce(n, paths, content) /\ Propose(n, c, target)
  \/ \E verdict \in {"accepted", "rejected"} : Decide(n, verdict, paths)
  \/ Abandon(n, paths)

(* A submission records one result. *)
Submit ==
  /\ version' = version + 1
  /\ \E n \in Existing, paths \in SUBSET Files : SubmitStep(n, paths)

Next ==
  \/ GraphStep
  \/ OwnerStep
  \/ Submit
  \/ \E c \in Cands : Publish(c)

Spec == InitFacts /\ [][Next]_factVars

=============================================================================
