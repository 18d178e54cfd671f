--------------------------- MODULE LinkaProperties ---------------------------
(***************************************************************************)
(* What the Linka graph promises, stated over the operations of Linka.     *)
(***************************************************************************)
EXTENDS Linka

(* linka check: what it reports of one node, read from the store alone. *)
DecisionDisagrees(n) ==
  LET c == defn[n].verifies
      o == result[n].outcome
      byThis == cand[c].verification = n
  IN /\ c # None
     /\ IF o = "abandoned" THEN byThis
        ELSE ~(byThis /\ cand[c].status = o)

-----------------------------------------------------------------------------
(* Safety. *)

(* Work that counts as complete was built on successes, and still is: every *)
(* dependency's current result is a success or an acceptance, whatever was  *)
(* failed, redone, edited or linked since the work was recorded             *)
(* (staleness_for_result and submit_result_locked together).                *)
CompleteRestsOnSuccess ==
  \A n \in Existing : IsComplete(n) =>
    \A d \in defn[n].dep : Satisfies(Outcome(d))

(* What a pin says was consumed cannot be made true of something else: once *)
(* a node's result is replaced, no later result of the node ever matches a  *)
(* pin taken before, so a pin that matches still tells the outcome it was   *)
(* taken with.  And a success pins a success for everything it depends on.  *)
Faithful(p) ==
  p.ver # None =>
    /\ p.ver <= version
    /\ Version(p.id) = p.ver => Outcome(p.id) = p.outcome

RestsOnPins(r) ==
  r.outcome # "failed" =>
    \A d \in r.defn.dep :
      \E p \in r.deps : p.id = d /\ p.ver # None /\ Satisfies(p.outcome)

PinsAreFaithful ==
  /\ \A n \in Recorded :
       /\ result[n].ver <= version
       /\ RestsOnPins(result[n])
       /\ \A p \in Consumed(result[n]) : Faithful(p)
  /\ \A w \in Workers : snap[w] # None => \A p \in Consumed(snap[w]) : Faithful(p)

(* Nothing refers to what is not there: edges and verifications lead to     *)
(* records, and every commit a record, a branch or a snapshot names exists. *)
GraphIsClosed ==
  /\ \A n \in Existing : defn[n].dep \cup defn[n].der \subseteq Existing
  /\ \A v \in Existing \cap Reviews : defn[v].verifies \in Registered
  /\ Recorded \subseteq Existing

ProjectIsClosed ==
  /\ \A b \in Branches : refs[b] \in Commits
  /\ \A k \in Commits : commits[k].anc \subseteq Commits
  /\ \A n \in Recorded :
       result[n].revision \in Commits /\ result[n].output \in Commits \cup {None}
  /\ \A c \in Registered : cand[c].artifact \in Commits

SnapshotsAreClosed ==
  /\ \A w \in Workers : snap[w] # None =>
       /\ snap[w].node \in Existing
       /\ snap[w].stage # "checked" => snap[w].defn # None
       /\ snap[w].stage = "frozen" => snap[w].revision \in Commits
  /\ completing # None =>
       /\ completing.node \in Existing
       /\ completing.revision \in Commits
       /\ completing.output \in captured \cup {None}
  /\ captured \subseteq Commits

PublishersHoldAccepted ==
  \A c \in publishing : cand[c] # None /\ cand[c].status = "accepted"

Closed ==
  GraphIsClosed /\ ProjectIsClosed /\ SnapshotsAreClosed /\ PublishersHoldAccepted

(* A recorded verdict is the decision its candidate carries, reached on the *)
(* very result and artifact the candidate proposes, however many reviews of *)
(* the candidate race each other (prepare_verification_decision).           *)
VerdictsAreBacked ==
  \A v \in Reviews : Outcome(v) \in {"accepted", "rejected"} =>
    LET c == defn[v].verifies
    IN /\ cand[c].status = Outcome(v)
       /\ cand[c].verification = v
       /\ ExactPin(c, result[v])

(* Although a snapshot is read piecemeal and without the lock, submitted    *)
(* long after, and raced by edits, failures and other workers, and although *)
(* a publisher checks and swaps apart, every result that is recorded and    *)
(* every publication is one that LinkaAtomic makes in one step.             *)
Atomic == INSTANCE LinkaAtomic
SubmissionsAreAtomic == Atomic!Spec

(* Work done aside reaches a branch only by being accepted: whatever branch *)
(* contains the commit a candidate proposes, the candidate was accepted, or  *)
(* a completion had committed it in the checkout before it was registered    *)
(* (publish, the compare-and-swap it ends in, and the single decision).      *)
UnacceptedStaysOut ==
  \A c \in Registered, b \in Branches :
    IsAncestor(cand[c].artifact, refs[b]) =>
      cand[c].status = "accepted" \/ cand[c].artifact \in completed

(* A completion that was interrupted between its commit and its record is    *)
(* never built on by the next: what the store holds as an output of the      *)
(* checkout does not follow a commit it has never recorded, although owner   *)
(* and publishers move the branch while a completion holds the lock          *)
(* (require_consistent_project_head).                                        *)
CompletionsRestOnRecorded ==
  \A k \in completed : commits[k].parent \notin Orphans

(* Accepted work counts: in a clean checkout, a submission that is recorded *)
(* leaves its node complete or awaiting integration, never ready to be      *)
(* dispatched again, although its snapshot was read piecemeal and long ago, *)
(* or its output was committed on a branch that had moved.                   *)
AcceptedWorkSettles ==
  [][\A n \in Nodes :
       /\ result'[n] # result[n]
       /\ result'[n].outcome # "failed"
       /\ tree = commits[HeadCommit].tree
       => IsComplete(n)' \/ IsAwaitingIntegration(n)']_vars

(* Publishing never drops a commit from a branch: whatever the branch's     *)
(* history held before a step, it holds after it, although the publisher    *)
(* checks and swaps at different times (publish_fast_forward).              *)
BranchesOnlyGrow ==
  [][\A b \in Branches : refs[b] \in commits'[refs'[b]].anc]_vars

-----------------------------------------------------------------------------
(* Liveness. *)

(* Workers look for work again and again, and one that keeps coming back    *)
(* with a success gets to submit it.  A worker may die any number of times; *)
(* whoever invokes it again starts from a new snapshot.  A completion ends   *)
(* one way or the other.                                                     *)
WorkersFair ==
  \A w \in Workers :
    /\ \A n \in Work : SF_vars(SnapshotCheck(w, n))
    /\ SF_vars(SnapshotPin(w))
    /\ SF_vars(\E paths \in SUBSET Files : SnapshotFreeze(w, paths))
    /\ SF_vars(SubmitDone(w))
    /\ WF_vars(Frozen(w) /\ Conflict(snap[w], "done", None, Project) /\ Drop(w))

CompletionsFair == WF_vars(CompleteRecord \/ CompleteFail)

FairSpec == Spec /\ WorkersFair /\ CompletionsFair

(* Edges never lead back, lineage included. *)
Layered ==
  \A S \in SUBSET Existing : S # {} =>
    \E n \in S : (defn[n].dep \cup defn[n].der) \cap S = {}

(* Work ends: when people have interfered for the last time, the checkout is *)
(* clean and no edges lead back, a time comes after which no work is ready,   *)
(* so none is dispatched for ever because its snapshots conflict or what it   *)
(* consumed keeps changing.  The bound on results is never what ends it.      *)
WorkConverges ==
  <>[](tree = commits[HeadCommit].tree /\ Layered) =>
    <>[](version < MaxVersion /\ \A n \in Work : ~IsReady(n))

-----------------------------------------------------------------------------
(* What the documentation says and the code does not keep. *)

(* DESIGN.md's workability table: a stale success with complete             *)
(* dependencies is ready, whatever its integration.                         *)
StaleSuccessIsReady ==
  \A n \in Work :
    /\ Outcome(n) = "done"
    /\ IsStale(n)
    /\ ~Unreadable(n)
    /\ Blockers(n) = {}
    => IsReady(n)

(* DESIGN.md: Linka enforces that candidate decisions agree with current    *)
(* review results.                                                          *)
DecisionsAgreeWithReviews ==
  \A v \in Reviews \cap Recorded : ~DecisionDisagrees(v)

=============================================================================
