--------------------------- MODULE LinkaAtomicProofs ---------------------------
(***************************************************************************)
(* Linka implements LinkaAtomic, for every instance: although snapshots    *)
(* are read piecemeal and submitted long after, every result recorded and  *)
(* every publication is one that LinkaAtomic makes in one step.            *)
(*                                                                         *)
(* The refinement mapping is the identity on the facts; the snapshots, the *)
(* completions and the publishers are hidden.  That a completion records    *)
(* the commit checked out rests on the history of commits (HistoryInv).     *)
(***************************************************************************)
EXTENDS LinkaProofs

-----------------------------------------------------------------------------
(* Both specifications are about the same facts: what LinkaAtomic takes    *)
(* from LinkaOperations means there what it means here.                    *)
LEMMA SameFacts ==
  /\ Atomic!Nodes = Nodes
  /\ Atomic!WorkOutcomes = WorkOutcomes
  /\ Atomic!HeadCommit = HeadCommit
BY DEF Atomic!Nodes, Atomic!WorkOutcomes, Atomic!HeadCommit, Nodes, WorkOutcomes,
   HeadCommit

(* ... so are the pins taken of them, *)
LEMMA SamePins == \A S : Atomic!PinNodeList(S) = PinNodeList(S)
BY DEF Atomic!PinNodeList, Atomic!PinOf, Atomic!Version, Atomic!Outcome, Atomic!Output,
   PinNodeList, PinOf, Version, Outcome, Output

(* ... the checkouts and what is read of them, *)
LEMMA SameCheckouts ==
  /\ Atomic!Commits = Commits
  /\ Atomic!Checkouts = Checkouts
  /\ Atomic!Existing = Existing
  /\ \A a, b : Atomic!IsAncestor(a, b) = IsAncestor(a, b)
  /\ \A k, paths : Atomic!ContextAt(k, paths) = ContextAt(k, paths)
BY DEF Atomic!Commits, Atomic!Checkouts, Atomic!Existing, Atomic!Nodes, Atomic!IsAncestor,
   Atomic!ContextAt, Commits, Checkouts, Existing, Nodes, IsAncestor, ContextAt

(* ... what is ready, *)
LEMMA SameReadiness ==
  /\ \A now, n : Atomic!IsReadyIn(now, n) = IsReadyIn(now, n)
  /\ \A n : Atomic!IsReady(n) = IsReady(n)
BY DEF Atomic!IsReady, Atomic!IsReadyIn, Atomic!Nodes, Atomic!Existing, Atomic!Registered,
   Atomic!Verdicts, Atomic!Version, Atomic!Output, Atomic!Outcome, Atomic!Consumed,
   Atomic!CandidatesForResult, Atomic!IsAncestor, Atomic!FilesIn, Atomic!Drifted,
   Atomic!Integration, Atomic!IntegrationOf, Atomic!IntegrationDone,
   Atomic!PinIsStale, Atomic!ContextPins, Atomic!OutputDriftedIn, Atomic!IsStaleIn,
   Atomic!IsCompleteIn, Atomic!BlockersIn, Atomic!Reach, Atomic!Unreadable, IsReady,
   IsReadyIn, Nodes, Existing, Registered, Verdicts, Version, Output, Outcome, Consumed,
   CandidatesForResult, IsAncestor, FilesIn, Drifted, Integration, IntegrationOf,
   IntegrationDone, PinIsStale, ContextPins, OutputDriftedIn, IsStaleIn, IsCompleteIn,
   BlockersIn, Reach, Unreadable

(* ... what a decision requires, *)
LEMMA SameRequirement ==
  \A c, status : Atomic!RequireCurrent(c, status) = RequireCurrent(c, status)
BY DEF Atomic!RequireCurrent, Atomic!Nodes, Atomic!Existing, Atomic!Registered,
   Atomic!Verdicts, Atomic!Version, Atomic!Output, Atomic!Consumed,
   Atomic!CandidatesForResult, Atomic!IsAncestor, Atomic!FilesIn, Atomic!Drifted,
   Atomic!Integration, Atomic!IntegrationOf, Atomic!IntegrationDone,
   Atomic!PinIsStale, Atomic!ContextPins, Atomic!OutputDriftedIn, Atomic!IsStaleIn,
   Atomic!IsStale, Atomic!IsCompleteIn, Atomic!Reach, Atomic!Unreadable, RequireCurrent,
   Nodes, Existing, Registered, Verdicts, Version, Output, Consumed, CandidatesForResult,
   IsAncestor, FilesIn, Drifted, Integration, IntegrationOf, IntegrationDone, PinIsStale,
   ContextPins, OutputDriftedIn, IsStaleIn, IsStale, IsCompleteIn, Reach, Unreadable

(* ... what the operations are made of, *)
LEMMA SameResults ==
  /\ \A outcome, d, deps, lineage, context, revision, output :
       Atomic!NewResult(outcome, d, deps, lineage, context, revision, output) =
         NewResult(outcome, d, deps, lineage, context, revision, output)
  /\ \A n, r : Atomic!Record(n, r) = Record(n, r)
  /\ \A revision, content : Atomic!Capture(revision, content) = Capture(revision, content)
  /\ \A r, paths : Atomic!Observations(r, paths) = Observations(r, paths)
BY DEF Atomic!NewResult, Atomic!Record, Atomic!Capture, Atomic!Observations,
   NewResult, Record, Capture, Observations

(* ... and what decisions and publications make. *)
LEMMA SameCandidates ==
  /\ \A n, ver, artifact, target :
       Atomic!NewCandidate(n, ver, artifact, target) = NewCandidate(n, ver, artifact, target)
  /\ \A c, s : Atomic!ExactPin(c, s) = ExactPin(c, s)
  /\ \A c, v, verdict : Atomic!DecidedState(c, v, verdict) = DecidedState(c, v, verdict)
  /\ \A c : Atomic!CanFastForward(c) = CanFastForward(c)
  /\ \A c : Atomic!FastForward(c) = FastForward(c)
BY DEF Atomic!NewCandidate, Atomic!ExactPin, Atomic!DecidedState, Atomic!CanFastForward,
   Atomic!FastForward, Atomic!IsAncestor, Atomic!HeadCommit, NewCandidate, ExactPin,
   DecidedState, CanFastForward, FastForward, IsAncestor, HeadCommit

(* The operations under the lock, and the owner's, are LinkaAtomic's own. *)
LEMMA SameOperations == Atomic!GraphStep = GraphStep /\ Atomic!OwnerStep = OwnerStep
BY DEF Atomic!GraphStep, Atomic!OwnerStep, Atomic!storeVars, Atomic!projectVars,
   Atomic!AddNode, Atomic!Add, Atomic!AddVerification, Atomic!Link, Atomic!Edit,
   Atomic!NewResult, Atomic!Record, Atomic!Fail, Atomic!NodeOutputs, Atomic!Observable,
   Atomic!Observations, Atomic!ObserveContext, Atomic!NewCandidate, Atomic!Register,
   Atomic!EditTree, Atomic!CommitBranch, Atomic!Nodes, Atomic!Existing,
   Atomic!Registered, Atomic!Recorded, Atomic!PinNodeList, Atomic!PinOf,
   Atomic!Version, Atomic!Outcome, Atomic!Output, Atomic!FilesIn, Atomic!HeadCommit,
   Atomic!CandidatesForResult, GraphStep, OwnerStep, storeVars, projectVars, AddNode,
   Add, AddVerification, Link, Edit, NewResult, Record, Fail, NodeOutputs, Observable,
   Observations, ObserveContext, NewCandidate, Register, EditTree, CommitBranch,
   Nodes, Existing, Registered, Recorded, PinNodeList, PinOf, Version, Outcome,
   Output, FilesIn, HeadCommit, CandidatesForResult

-----------------------------------------------------------------------------
(* A snapshot that passes the checks of submit_result is what LinkaAtomic  *)
(* would freeze at this step.                                              *)
Paths(s) == {p.path : p \in s.context}

(* Context that has not changed is the context of the current commit. *)
LEMMA ContextIsCurrent ==
  ASSUME NEW s, s.context \in SUBSET ContextPin, NEW outcome, NEW output, NEW at,
         ~Conflict(s, outcome, output, at)
  PROVE  Paths(s) \in SUBSET Files /\ s.context = ContextAt(at.head, Paths(s))
<1>1. \A p \in s.context :
        p.path \in Files /\ p = [path |-> p.path, blob |-> commits[at.head].tree[p.path]]
  BY DEF ContextPin, Conflict, ContextChanged
<1> QED BY <1>1 DEF Paths, ContextAt

(* The result submitted is the one of current work on a ready node. *)
LEMMA ResultIsCurrent ==
  ASSUME Inv, NEW w \in Workers, Frozen(w), NEW outcome, NEW output, NEW at,
         ~Conflict(snap[w], outcome, output, at), at.head # output
  PROVE  /\ snap[w].node \in Existing
         /\ snap[w].revision = at.head
         /\ IsReadyIn(at.tree, snap[w].node)
         /\ Paths(snap[w]) \in SUBSET Files
         /\ \A o : ResultOf(snap[w], outcome, o) =
              Atomic!CurrentResult(snap[w].node, outcome, Paths(snap[w]), at.head, o)
<1>1. /\ snap[w].defn = defn[snap[w].node]
      /\ snap[w].deps = PinNodeList(defn[snap[w].node].dep)
      /\ snap[w].lineage = PinNodeList(defn[snap[w].node].der)
      /\ snap[w].revision = at.head
  BY SnapshotIsCurrent
<1>2. snap[w].node \in Existing /\ snap[w].context \in SUBSET ContextPin
  BY FrozenIsThere
<1>3. Paths(snap[w]) \in SUBSET Files /\ snap[w].context = ContextAt(at.head, Paths(snap[w]))
  BY <1>2, ContextIsCurrent
<1>4. IsReadyIn(at.tree, snap[w].node)
  BY DEF Conflict, ReadinessChanged
<1>5. ASSUME NEW o
      PROVE  ResultOf(snap[w], outcome, o) =
               Atomic!CurrentResult(snap[w].node, outcome, Paths(snap[w]), at.head, o)
  <2>1. Atomic!CurrentResult(snap[w].node, outcome, Paths(snap[w]), at.head, o) =
          NewResult(outcome, defn[snap[w].node], PinNodeList(defn[snap[w].node].dep),
                    PinNodeList(defn[snap[w].node].der),
                    ContextAt(at.head, Paths(snap[w])), at.head, o)
    BY SamePins, SameResults, SameCheckouts DEF Atomic!CurrentResult
  <2> QED BY <1>1, <1>3, <2>1 DEF ResultOf
<1> QED BY <1>1, <1>2, <1>3, <1>4, <1>5

(* The checkout's commit is a commit, so it is not an absent output. *)
LEMMA ProjectHead ==
  ASSUME Inv
  PROVE  /\ Project.head = HeadCommit /\ Project.tree = tree
         /\ HeadCommit # None /\ HeadCommit # Len(commits) + 1
BY HeadExists, IdAssumption DEF Project, Commits, Inv, TypeOK, FactsOK

(* A submission without an output concludes its node. *)
LEMMA SubmissionConcludes ==
  ASSUME Inv, NEW w \in Workers, Submitting(w), NEW outcome,
         ~Conflict(snap[w], outcome, None, Project),
         Record(snap[w].node, ResultOf(snap[w], outcome, None)),
         UNCHANGED <<defn, observed, projectVars>>
  PROVE  /\ snap[w].node \in Existing /\ Paths(snap[w]) \in SUBSET Files
         /\ Atomic!Conclude(snap[w].node, outcome, Paths(snap[w]))
         /\ version' = version + 1
<1>1. /\ snap[w].node \in Existing
      /\ IsReady(snap[w].node)
      /\ Paths(snap[w]) \in SUBSET Files
      /\ ResultOf(snap[w], outcome, None) =
           Atomic!CurrentResult(snap[w].node, outcome, Paths(snap[w]), HeadCommit, None)
  BY ProjectHead, ResultIsCurrent DEF Submitting, IsReady
<1>2. Atomic!Conclude(snap[w].node, outcome, Paths(snap[w]))
  BY <1>1, SameReadiness, SameResults, SameFacts
     DEF Atomic!Conclude, Atomic!projectVars, projectVars
<1> QED BY <1>1, <1>2 DEF Record

(* What submits is one step of LinkaAtomic. *)
LEMMA SubmitIsNext ==
  ASSUME NEW n \in Existing, NEW paths \in SUBSET Files, Atomic!SubmitStep(n, paths),
         version' = version + 1
  PROVE  Atomic!Next
BY SameCheckouts DEF Atomic!Next, Atomic!Submit

(* Work that succeeds without an output is finished. *)
LEMMA WorkFinishes == ASSUME Inv, NEW w \in Workers, SubmitDone(w) PROVE Atomic!Next
<1>1. /\ snap[w].node \in Existing /\ Paths(snap[w]) \in SUBSET Files
      /\ Atomic!Conclude(snap[w].node, "done", Paths(snap[w]))
      /\ version' = version + 1
  BY SubmissionConcludes DEF SubmitDone
<1>2. Atomic!Finish(snap[w].node, Paths(snap[w]))
  BY <1>1, SameFacts DEF SubmitDone, Atomic!Finish
<1> QED BY <1>1, <1>2, SubmitIsNext DEF Atomic!SubmitStep

(* A failure is one in the worktree it was submitted from. *)
LEMMA WorkFails ==
  ASSUME Inv, NEW w \in Workers, NEW at \in Checkouts, SubmitFailed(w, at)
  PROVE  Atomic!Next
<1>1. at.head # None
  BY IdAssumption DEF Checkouts, Commits, Inv, TypeOK, FactsOK
<1>2. /\ snap[w].node \in Existing
      /\ IsReadyIn(at.tree, snap[w].node)
      /\ Paths(snap[w]) \in SUBSET Files
      /\ ResultOf(snap[w], "failed", None) =
           Atomic!CurrentResult(snap[w].node, "failed", Paths(snap[w]), at.head, None)
  BY <1>1, ResultIsCurrent DEF SubmitFailed, Submitting
<1>3. Atomic!FinishFailed(snap[w].node, Paths(snap[w]), at)
  BY <1>2, SameReadiness, SameResults
     DEF SubmitFailed, Atomic!FinishFailed, Atomic!projectVars, projectVars
<1>4. version' = version + 1
  BY DEF SubmitFailed, Record
<1> QED BY <1>2, <1>3, <1>4, SubmitIsNext, SameCheckouts DEF Atomic!SubmitStep

(* A review that is abandoned is abandoned. *)
LEMMA ReviewIsAbandoned == ASSUME Inv, NEW w \in Workers, SubmitAbandoned(w) PROVE Atomic!Next
<1>1. /\ snap[w].node \in Existing /\ Paths(snap[w]) \in SUBSET Files
      /\ Atomic!Conclude(snap[w].node, "abandoned", Paths(snap[w]))
      /\ version' = version + 1
  BY SubmissionConcludes DEF SubmitAbandoned
<1>2. Atomic!Abandon(snap[w].node, Paths(snap[w]))
  BY <1>1 DEF SubmitAbandoned, Atomic!Abandon
<1> QED BY <1>1, <1>2, SubmitIsNext DEF Atomic!SubmitStep

(* An output is produced on the current commit, and proposed. *)
LEMMA CandidateIsProposed ==
  ASSUME Inv, NEW w \in Workers, NEW content \in [Files -> Blobs], NEW c \in Cands,
         NEW target \in Branches, NEW paths \in SUBSET Files,
         SubmitCandidate(w, content, c, target, paths)
  PROVE  Atomic!Next
<1> PICK n : n = snap[w].node
  OBVIOUS
<1> PICK r : r = ResultOf(snap[w], "done", Len(commits) + 1)
  OBVIOUS
<1>1. r.ver = version + 1 /\ r.output = Len(commits) + 1
  BY DEF ResultOf, NewResult
<1>2. /\ Submitting(w) /\ n \in Work /\ cand[c] = None /\ Record(n, r)
      /\ ~Conflict(snap[w], "done", Len(commits) + 1, Project)
      /\ Capture(snap[w].revision, content) /\ UNCHANGED defn
      /\ cand' = [cand EXCEPT ![c] = NewCandidate(n, version + 1, Len(commits) + 1, target)]
  BY <1>1 DEF SubmitCandidate
<1>3. /\ n \in Existing /\ snap[w].revision = HeadCommit
      /\ IsReady(n) /\ Paths(snap[w]) \in SUBSET Files
      /\ r = Atomic!CurrentResult(n, "done", Paths(snap[w]), HeadCommit, Len(commits) + 1)
  BY <1>2, ProjectHead, ResultIsCurrent DEF Submitting, IsReady
<1>4. Atomic!Produce(n, Paths(snap[w]), content)
  BY <1>2, <1>3, SameReadiness, SameResults, SameFacts DEF Atomic!Produce
<1>5. \E seen \in SUBSET Files :
        observed' = [observed EXCEPT ![n] = observed[n] \cup Observations(r, seen)]
  BY DEF SubmitCandidate
<1>6. result'[n] = r
  BY <1>2, <1>3 DEF Record, Existing, Inv, TypeOK, FactsOK
<1>7. Atomic!Propose(n, c, target)
  BY <1>2, <1>5, <1>6, SameResults, SameCandidates DEF Atomic!Propose
<1>8. version' = version + 1
  BY <1>2 DEF Record
<1> QED BY <1>3, <1>4, <1>7, <1>8, SubmitIsNext DEF Atomic!SubmitStep

(* A verdict decides the candidate its review pinned. *)
LEMMA CandidateIsDecided ==
  ASSUME Inv, NEW w \in Workers, NEW verdict \in Verdicts, SubmitVerdict(w, verdict)
  PROVE  Atomic!Next
<1> PICK n : n = snap[w].node
  OBVIOUS
<1> PICK c : c = defn[n].verifies
  OBVIOUS
<1> PICK r : r = ResultOf(snap[w], verdict, None)
  OBVIOUS
<1>1. /\ n \in Reviews /\ verdict \in {"accepted", "rejected"}
      /\ cand[c].status = "pending" /\ RequireCurrent(c, "pending")
      /\ ExactPin(c, snap[w]) /\ Record(n, r)
      /\ cand' = [cand EXCEPT ![c] = DecidedState(c, n, verdict)]
  BY DEF SubmitVerdict
<1>2. /\ n \in Existing /\ Paths(snap[w]) \in SUBSET Files
      /\ Atomic!Conclude(n, verdict, Paths(snap[w]))
      /\ version' = version + 1
  BY SubmissionConcludes DEF SubmitVerdict
<1>3. result'[n] = r
  BY <1>1, <1>2 DEF Record, Existing, Inv, TypeOK, FactsOK
<1>4. ExactPin(c, result'[n])
  <2>1. r.deps = snap[w].deps /\ r.lineage = snap[w].lineage
    BY DEF ResultOf, NewResult
  <2> QED BY <1>1, <1>3, <2>1 DEF ExactPin
<1>5. Atomic!Decide(n, verdict, Paths(snap[w]))
  BY <1>1, <1>2, <1>4, SameRequirement, SameCandidates DEF Atomic!Decide
<1> QED BY <1>1, <1>2, <1>5, SubmitIsNext DEF Atomic!SubmitStep

(* Work completed in the checkout is finished, or its commit is adopted. *)
LEMMA CompletionIsAdopted ==
  ASSUME Inv, HistoryInv, CompleteRecord
  PROVE  Atomic!Next
<1> PICK s : s = completing
  OBVIOUS
<1>1. /\ s # None /\ ~Conflict(s, "done", s.output, Project)
      /\ Record(s.node, ResultOf(s, "done", s.output))
      /\ UNCHANGED <<defn, observed, cand, projectVars>>
  BY DEF CompleteRecord
<1>2. /\ s.node \in Existing /\ s.node \in Work /\ s.revision \in Commits
      /\ s.context \in SUBSET ContextPin
  BY <1>1, CompletionIsThere, DirectAssumption DEF Inv, TypeOK, Completion
<1>3. /\ s.defn = defn[s.node] /\ s.deps = PinNodeList(defn[s.node].dep)
      /\ s.lineage = PinNodeList(defn[s.node].der)
      /\ HeadCommit \in {s.revision, s.output}
  BY <1>1, SnapshotIsCurrent DEF Project
<1>4. Paths(s) \in SUBSET Files /\ s.context = ContextAt(HeadCommit, Paths(s))
  BY <1>1, <1>2, ContextIsCurrent DEF Project
<1>5. IsReady(s.node)
  BY <1>1 DEF Conflict, ReadinessChanged, Project, IsReady
<1>6. version' = version + 1
  BY <1>1 DEF Record
<1>7. CASE s.output = None
  <2>1. HeadCommit = s.revision
    BY <1>3, <1>7, ProjectHead
  <2>2. ResultOf(s, "done", None) =
          Atomic!CurrentResult(s.node, "done", Paths(s), HeadCommit, None)
    BY <1>3, <1>4, <2>1, SamePins, SameResults, SameCheckouts
       DEF Atomic!CurrentResult, ResultOf
  <2>3. Atomic!Finish(s.node, Paths(s))
    BY <1>1, <1>2, <1>5, <1>7, <2>2, SameReadiness, SameResults, SameFacts
       DEF Atomic!Finish, Atomic!Conclude, Atomic!projectVars, projectVars
  <2> QED BY <1>2, <1>4, <1>6, <2>3, SubmitIsNext DEF Atomic!SubmitStep
<1>8. CASE s.output # None
  <2>1. HeadCommit = s.output
    BY <1>1, <1>8, CompletionIsCheckedOut
  <2> PICK paths \in SUBSET Files : paths = Paths(s)
    BY <1>4
  <2>2. /\ IsAncestor(s.revision, HeadCommit)
        /\ \A x \in s.context : commits[s.revision].tree[x.path] = x.blob
    BY <1>1 DEF HistoryInv, CompletionFollows
  <2>3. \A x \in s.context : commits[HeadCommit].tree[x.path] = x.blob
    BY <1>1 DEF Conflict, ContextChanged, Project
  <2>4. \A f \in paths : commits[HeadCommit].tree[f] = commits[s.revision].tree[f]
    BY <2>2, <2>3 DEF Paths
  <2>5. s.context = ContextAt(s.revision, paths)
    BY <1>4, <2>4 DEF ContextAt
  <2>6. ResultOf(s, "done", s.output) =
          Atomic!CurrentResult(s.node, "done", paths, s.revision, HeadCommit)
    BY <1>3, <2>1, <2>5, SamePins, SameResults, SameCheckouts
       DEF Atomic!CurrentResult, ResultOf
  <2>7. Atomic!Adopt(s.node, paths, s.revision)
    BY <1>1, <1>2, <1>5, <2>2, <2>4, <2>6, SameReadiness, SameResults, SameFacts, SameCheckouts
       DEF Atomic!Adopt, Atomic!projectVars, projectVars
  <2> QED BY <1>2, <1>6, <2>7, SubmitIsNext, SameCheckouts DEF Atomic!SubmitStep
<1> QED BY <1>7, <1>8

(* A publisher holds an accepted candidate, and what it checked before no  *)
(* longer matters.                                                         *)
LEMMA CandidateIsPublished ==
  ASSUME Inv, NEW c \in Cands, PublishFastForward(c)
  PROVE  Atomic!Next
<1>1. cand[c] # None /\ cand[c].status = "accepted"
  BY DEF PublishFastForward, Inv, Closed, PublishersHoldAccepted
<1>2. Atomic!Publish(c)
  BY <1>1, SameCandidates
     DEF PublishFastForward, Atomic!Publish, Atomic!storeVars, storeVars
<1> QED BY <1>2 DEF Atomic!Next

(* The steps of a worker: LinkaAtomic makes the ones that record in one    *)
(* step, and sees nothing of the others.                                   *)
LEMMA WorkerImplements ==
  ASSUME Inv, NEW w \in Workers, WorkerStep(w)
  PROVE  Atomic!Next \/ UNCHANGED factVars
BY WorkFinishes, WorkFails, ReviewIsAbandoned, CandidateIsProposed, CandidateIsDecided
   DEF WorkerStep, SnapshotCheck, SnapshotPin, SnapshotFreeze, Drop

(* So for a completion: its commit is one the branch gets from the owner. *)
LEMMA CompletionImplements ==
  ASSUME Inv, HistoryInv, CompletionStep
  PROVE  Atomic!Next \/ UNCHANGED factVars
<1>1. ASSUME CompleteCapture PROVE Atomic!Next
  <2>1. PICK content :
          /\ content = [f \in Files |-> IF f \in completing.outputs THEN tree[f]
                                      ELSE commits[HeadCommit].tree[f]]
          /\ CommitBranch(Main, content)
    BY <1>1 DEF CompleteCapture
  <2>2. content \in [Files -> Blobs] /\ Main \in Branches
    <3>1. commits[HeadCommit].tree \in [Files -> Blobs] /\ tree \in [Files -> Blobs]
      <4>1. commits[HeadCommit] \in Commit /\ tree \in [Files -> Blobs]
        BY HeadExists DEF Commits, Inv, TypeOK, FactsOK
      <4> QED BY <4>1 DEF Commit
    <3> QED BY <2>1, <3>1, IdAssumption
  <2>3. OwnerStep
    BY <2>1, <2>2 DEF OwnerStep
  <2> QED BY <2>3, SameOperations DEF Atomic!Next
<1> QED BY <1>1, CompletionIsAdopted DEF CompletionStep, CompleteFreeze, CompleteFail

(* So for a publisher. *)
LEMMA PublisherImplements ==
  ASSUME Inv, NEW c \in Cands, PublishStep(c)
  PROVE  Atomic!Next \/ UNCHANGED factVars
BY CandidateIsPublished DEF PublishStep, PublishCheck, PublishGiveUp

(* Every result recorded and every publication is one that LinkaAtomic     *)
(* makes in one step, on the facts as they are at that step, although the  *)
(* snapshot behind a result was read piecemeal, without the lock and long  *)
(* before, and a publisher checks and swaps apart (snapshot_work,          *)
(* submit_result_locked, publish).                                         *)
THEOREM SubmissionsLookAtomic == Spec => SubmissionsAreAtomic
<1>1. Init => Atomic!InitFacts
  <2>1. Atomic!InitFacts = InitFacts
    BY DEF Atomic!InitFacts, Atomic!Nodes, InitFacts, Nodes
  <2> QED BY <2>1 DEF Init
<1>2. Inv /\ HistoryInv /\ [Next]_vars => [Atomic!Next]_(Atomic!factVars)
  <2> SUFFICES ASSUME Inv, HistoryInv, [Next]_vars PROVE Atomic!Next \/ UNCHANGED factVars
    BY DEF factVars, storeVars, projectVars, Atomic!factVars, Atomic!storeVars,
       Atomic!projectVars
  <2>1. CASE GraphStep \/ OwnerStep
    BY <2>1, SameOperations DEF Atomic!Next
  <2>2. CASE UNCHANGED vars
    BY <2>2 DEF vars
  <2> QED BY <2>1, <2>2, WorkerImplements, CompletionImplements, PublisherImplements DEF Next
<1> QED BY <1>1, <1>2, InvIsInvariant, HistoryIsInvariant, PTL DEF Spec, SubmissionsAreAtomic, Atomic!Spec

=============================================================================
