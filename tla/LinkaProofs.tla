----------------------------- MODULE LinkaProofs -----------------------------
(***************************************************************************)
(* Type correctness of Linka, for every instance.  TypeOK is not inductive: *)
(* that a pin of a dependency is a pin, or the tree of the commit a branch  *)
(* names a tree, needs the dependency and the commit to be there.  Closed   *)
(* says they are, and Inv is preserved by every step.                       *)
(***************************************************************************)
EXTENDS LinkaProperties, TLAPS

Inv == TypeOK /\ Closed

(* An empty store beside a project with one commit is well formed. *)
LEMMA InitInv == Init => Inv
<1> SUFFICES ASSUME Init PROVE Inv
  OBVIOUS
<1> USE IdAssumption DEF Init, InitFacts
<1>1. FactsOK
  BY DEF FactsOK, Commit
<1>2. TypeOK
  BY <1>1 DEF TypeOK
<1>3. Closed
  BY DEF Closed, GraphIsClosed, ProjectIsClosed, SnapshotsAreClosed, PublishersHoldAccepted,
     Existing, Recorded, Registered, Commits
<1> QED BY <1>2, <1>3 DEF Inv

(* Adding a node, of either kind: its edges lead to nodes that exist. *)
LEMMA AddNodePreserves ==
  ASSUME Inv, UNCHANGED processVars,
         NEW n \in Nodes, NEW dep \in SUBSET Nodes, NEW der \in SUBSET Nodes,
         NEW verifies \in Cands \cup {None}, NEW desc \in Descs,
         n \in Reviews => verifies \in Registered,
         AddNode(n, dep, der, verifies, desc)
  PROVE  Inv'
<1> USE DEF Inv, TypeOK, FactsOK, Closed, AddNode, processVars, completionVars, projectVars
<1>1. defn'[n] \in Definition /\ defn' \in [Nodes -> Definition \cup {None}]
  BY DEF Definition
<1>2. Existing' = Existing \cup {n} /\ n \notin Existing
  BY <1>1, NoneAssumption DEF Existing
<1>3. GraphIsClosed'
  BY <1>1, <1>2 DEF GraphIsClosed, Existing, Recorded, Registered
<1>4. ProjectIsClosed' /\ PublishersHoldAccepted'
  BY DEF ProjectIsClosed, PublishersHoldAccepted, Commits, Recorded, Registered
<1>5. SnapshotsAreClosed'
  BY <1>2 DEF SnapshotsAreClosed, Commits
<1> QED BY <1>1, <1>3, <1>4, <1>5

(* Linking two existing nodes keeps the invariant. *)
LEMMA LinkPreserves ==
  ASSUME Inv, UNCHANGED processVars,
         NEW from \in Nodes, NEW to \in Nodes, NEW kind \in {"dep", "der"},
         Link(from, to, kind)
  PROVE  Inv'
<1> USE DEF Inv, TypeOK, FactsOK, Closed, Link, processVars, completionVars, projectVars
<1>0. defn[from] \in Definition /\ from \in Existing /\ to \in Existing
  BY DEF Existing
<1>1. /\ defn' \in [Nodes -> Definition \cup {None}]
      /\ defn'[from] \in Definition
      /\ defn'[from].dep \cup defn'[from].der \subseteq
           defn[from].dep \cup defn[from].der \cup {to}
      /\ defn'[from].verifies = defn[from].verifies
      /\ \A n \in Nodes \ {from} : defn'[n] = defn[n]
  <2>1. CASE kind = "dep"
    <3>1. defn' = [defn EXCEPT ![from].dep = defn[from].dep \cup {to}]
      BY <2>1
    <3> QED BY <1>0, <3>1 DEF Definition
  <2>2. CASE kind = "der"
    <3>1. defn' = [defn EXCEPT ![from].der = defn[from].der \cup {to}]
      BY <2>2
    <3> QED BY <1>0, <3>1 DEF Definition
  <2> QED BY <2>1, <2>2
<1>2. Existing' = Existing
  BY <1>0, <1>1, NoneAssumption DEF Existing
<1>3. GraphIsClosed'
  <2>1. Recorded' = Recorded /\ Registered' = Registered
    BY DEF Recorded, Registered
  <2>2. \A n \in Existing' : defn'[n].dep \cup defn'[n].der \subseteq Existing'
    <3> TAKE n \in Existing'
    <3>1. defn[n].dep \cup defn[n].der \subseteq Existing /\ n \in Nodes
      BY <1>2 DEF GraphIsClosed, Existing
    <3>2. CASE n = from
      BY <1>0, <1>1, <1>2, <3>1, <3>2
    <3>3. CASE n # from
      BY <1>1, <1>2, <3>1, <3>3
    <3> QED BY <3>2, <3>3
  <2>3. \A n \in Existing' \cap Reviews : defn'[n].verifies \in Registered'
    BY <1>1, <1>2, <2>1 DEF GraphIsClosed, Existing
  <2> QED BY <1>2, <2>1, <2>2, <2>3 DEF GraphIsClosed
<1>4. ProjectIsClosed' /\ PublishersHoldAccepted'
  BY DEF ProjectIsClosed, PublishersHoldAccepted, Commits, Recorded, Registered
<1>5. SnapshotsAreClosed'
  BY <1>2 DEF SnapshotsAreClosed, Commits
<1> QED BY <1>1, <1>3, <1>4, <1>5

(* Editing a description changes no edge. *)
LEMMA EditPreserves ==
  ASSUME Inv, UNCHANGED processVars, NEW n \in Nodes, NEW desc \in Descs, Edit(n, desc)
  PROVE  Inv'
<1> USE DEF Inv, TypeOK, FactsOK, Closed, Edit, processVars, completionVars, projectVars
<1>0. defn[n] \in Definition
  BY DEF Existing
<1>1. /\ defn' \in [Nodes -> Definition \cup {None}]
      /\ defn'[n] \in Definition
      /\ defn'[n].dep = defn[n].dep /\ defn'[n].der = defn[n].der
      /\ defn'[n].verifies = defn[n].verifies
      /\ \A m \in Nodes \ {n} : defn'[m] = defn[m]
  BY <1>0 DEF Definition, Existing
<1>2. Existing' = Existing
  BY <1>1, NoneAssumption DEF Existing
<1>3. GraphIsClosed'
  BY <1>1, <1>2 DEF GraphIsClosed, Recorded, Registered
<1>4. ProjectIsClosed' /\ PublishersHoldAccepted'
  BY DEF ProjectIsClosed, PublishersHoldAccepted, Commits, Recorded, Registered
<1>5. SnapshotsAreClosed'
  BY <1>2 DEF SnapshotsAreClosed, Commits
<1> QED BY <1>1, <1>3, <1>4, <1>5

(* A pin of an existing node, and the pins of a set of them. *)
LEMMA PinsTyped ==
  ASSUME Inv, NEW S, S \subseteq Existing
  PROVE  PinNodeList(S) \in SUBSET Pin
<1>1. ASSUME NEW n \in S PROVE PinOf(n) \in Pin
  <2>1. n \in Nodes /\ defn[n] \in Definition
    BY DEF Existing, Inv, TypeOK, FactsOK
  <2>2. /\ Version(n) \in Nat \cup {None} /\ Outcome(n) \in Outcomes \cup {None}
        /\ Output(n) \in Nat \cup {None}
    BY <2>1 DEF Version, Outcome, Output, Inv, TypeOK, FactsOK, Result
  <2> QED BY <2>1, <2>2 DEF PinOf, Pin
<1> QED BY <1>1 DEF PinNodeList

(* A result made of well-formed parts is well formed. *)
LEMMA NewResultTyped ==
  ASSUME version \in Nat, NEW outcome \in Outcomes, NEW d \in Definition,
         NEW deps \in SUBSET Pin, NEW lineage \in SUBSET Pin,
         NEW context \in SUBSET ContextPin, NEW revision \in Nat,
         NEW output \in Nat \cup {None}
  PROVE  NewResult(outcome, d, deps, lineage, context, revision, output) \in Result
BY DEF NewResult, Result

(* Recording a well-formed result against an existing commit. *)
LEMMA RecordPreserves ==
  ASSUME Inv, NEW n \in Existing, NEW r \in Result, Record(n, r),
         r.revision \in Commits, r.output \in Commits' \cup {None},
         Commits \subseteq Commits', UNCHANGED refs, UNCHANGED defn,
         commits' \in Seq(Commit),
         \A k \in Commits' : commits'[k].anc \subseteq Commits',
         UNCHANGED tree
  PROVE  /\ result' \in [Nodes -> Result \cup {None}]
         /\ version' \in Nat
         /\ Recorded' \subseteq Existing'
         /\ \A b \in Branches : refs'[b] \in Commits'
         /\ \A m \in Recorded' : /\ result'[m].revision \in Commits'
                                  /\ result'[m].output \in Commits' \cup {None}
<1> USE DEF Inv, TypeOK, FactsOK, Record, Existing
<1>1. result' \in [Nodes -> Result \cup {None}] /\ version' \in Nat
  OBVIOUS
<1>2. Recorded' \subseteq Recorded \cup {n}
  BY DEF Recorded
<1>3. Recorded' \subseteq Existing'
  BY <1>2 DEF Closed, GraphIsClosed
<1>4. \A b \in Branches : refs'[b] \in Commits'
  BY DEF Closed, ProjectIsClosed
<1>5. ASSUME NEW m \in Recorded'
      PROVE /\ result'[m].revision \in Commits'
            /\ result'[m].output \in Commits' \cup {None}
  <2>1. CASE m = n
    BY <2>1
  <2>2. CASE m # n
    <3>1. m \in Recorded /\ result'[m] = result[m]
      BY <2>2, <1>2 DEF Recorded
    <3> QED BY <3>1 DEF Closed, ProjectIsClosed
  <2> QED BY <2>1, <2>2
<1> QED BY <1>1, <1>3, <1>4, <1>5

(* The commits a worker captures or the owner makes. *)
LEMMA CommitPreserves ==
  ASSUME Inv, NEW k \in Commits, NEW content \in [Files -> Blobs],
         commits' = Append(commits,
           [parent |-> k, tree |-> content,
            anc |-> commits[k].anc \cup {Len(commits) + 1}])
  PROVE  /\ commits' \in Seq(Commit)
         /\ Commits \subseteq Commits'
         /\ Len(commits) + 1 \in Commits'
         /\ \A i \in Commits : commits'[i] = commits[i]
         /\ \A i \in Commits' : commits'[i].anc \subseteq Commits'
<1> USE DEF Inv, TypeOK, FactsOK, Commits
<1>1. commits \in Seq(Commit) /\ Len(commits) \in Nat /\ DOMAIN commits = 1 .. Len(commits)
  OBVIOUS
<1>2. commits[k] \in Commit /\ commits[k].anc \subseteq DOMAIN commits
  BY <1>1 DEF Closed, ProjectIsClosed
<1> DEFINE new == [parent |-> k, tree |-> content,
                   anc |-> commits[k].anc \cup {Len(commits) + 1}]
<1>3. new \in Commit
  BY <1>1, <1>2 DEF Commit
<1>4. /\ commits' \in Seq(Commit)
      /\ Len(commits') = Len(commits) + 1
      /\ DOMAIN commits' = 1 .. Len(commits) + 1
      /\ \A i \in 1 .. Len(commits) : commits'[i] = commits[i]
      /\ commits'[Len(commits) + 1] = new
  <2> HIDE DEF new
  <2> QED BY <1>1, <1>3 DEF new
<1>5. ASSUME NEW i \in DOMAIN commits' PROVE commits'[i].anc \subseteq DOMAIN commits'
  <2>1. CASE i = Len(commits) + 1
    BY <2>1, <1>1, <1>2, <1>4
  <2>2. CASE i # Len(commits) + 1
    BY <2>2, <1>1, <1>4 DEF Closed, ProjectIsClosed
  <2> QED BY <2>1, <2>2
<1> QED BY <1>1, <1>4, <1>5

(* The owner committing on a branch keeps the invariant. *)
LEMMA CommitBranchPreserves ==
  ASSUME Inv, UNCHANGED processVars, NEW b \in Branches, NEW content \in [Files -> Blobs],
         CommitBranch(b, content)
  PROVE  Inv'
<1> USE DEF Inv, TypeOK, FactsOK, Closed, CommitBranch, storeVars, processVars, completionVars
<1>0. refs[b] \in Commits /\ Len(commits) \in Nat
  BY DEF ProjectIsClosed
<1>1. /\ commits' \in Seq(Commit)
      /\ Commits \subseteq Commits'
      /\ Len(commits) + 1 \in Commits'
      /\ \A i \in Commits' : commits'[i].anc \subseteq Commits'
  BY <1>0, CommitPreserves
<1>2. refs' \in [Branches -> Nat] /\ \A x \in Branches : refs'[x] \in Commits'
  BY <1>0, <1>1 DEF ProjectIsClosed
<1>3. ProjectIsClosed'
  BY <1>1, <1>2 DEF ProjectIsClosed, Recorded, Registered
<1>4. GraphIsClosed' /\ PublishersHoldAccepted'
  BY DEF GraphIsClosed, PublishersHoldAccepted, Existing, Recorded, Registered
<1>5. SnapshotsAreClosed'
  BY <1>1 DEF SnapshotsAreClosed, Existing
<1> QED BY <1>1, <1>2, <1>3, <1>4, <1>5

(* The owner editing the checkout keeps the invariant. *)
LEMMA EditTreePreserves ==
  ASSUME Inv, UNCHANGED processVars, NEW f \in Files, NEW b \in Blobs, EditTree(f, b)
  PROVE  Inv'
<1> USE DEF Inv, TypeOK, FactsOK, Closed, EditTree, storeVars, processVars, completionVars
<1>1. GraphIsClosed' /\ ProjectIsClosed' /\ SnapshotsAreClosed' /\ PublishersHoldAccepted'
  BY DEF GraphIsClosed, ProjectIsClosed, SnapshotsAreClosed, PublishersHoldAccepted,
     Existing, Recorded, Registered, Commits
<1> QED BY <1>1

(* The checkout is always at some commit. *)
LEMMA HeadExists == ASSUME Inv PROVE HeadCommit \in Commits /\ HeadCommit \in Nat
BY IdAssumption DEF Inv, TypeOK, FactsOK, Closed, ProjectIsClosed, HeadCommit

(* Recording a failure keeps the invariant. *)
LEMMA FailPreserves ==
  ASSUME Inv, UNCHANGED processVars, NEW n \in Work, Fail(n)
  PROVE  Inv'
<1> DEFINE r == NewResult("failed", defn[n], PinNodeList(defn[n].dep),
                          PinNodeList(defn[n].der), {}, HeadCommit, None)
<1>0. n \in Existing /\ defn[n] \in Definition /\ Record(n, r)
  BY DEF Fail, Existing, Inv, TypeOK, FactsOK
<1>1. PinNodeList(defn[n].dep) \in SUBSET Pin /\ PinNodeList(defn[n].der) \in SUBSET Pin
  BY <1>0, PinsTyped DEF Inv, Closed, GraphIsClosed
<1>2. r \in Result
  BY <1>0, <1>1, HeadExists, NewResultTyped DEF Outcomes, WorkOutcomes, Inv, TypeOK, FactsOK
<1>3. r.revision = HeadCommit /\ r.output = None
  BY DEF NewResult
<1> HIDE DEF r
<1>4. UNCHANGED <<defn, observed, cand, commits, refs, tree, snap, publishing,
                  completing, captured, completed>>
  BY DEF Fail, projectVars, processVars, completionVars
<1>5. /\ result' \in [Nodes -> Result \cup {None}]
      /\ version' \in Nat
      /\ Recorded' \subseteq Existing'
      /\ \A m \in Recorded' : /\ result'[m].revision \in Commits'
                               /\ result'[m].output \in Commits' \cup {None}
  BY <1>0, <1>2, <1>3, <1>4, HeadExists, RecordPreserves
     DEF Commits, Inv, TypeOK, FactsOK, Closed, ProjectIsClosed
<1>6. TypeOK'
  BY <1>4, <1>5 DEF Inv, TypeOK, FactsOK
<1>7. Closed'
  BY <1>4, <1>5 DEF Inv, Closed, GraphIsClosed, ProjectIsClosed, SnapshotsAreClosed,
     PublishersHoldAccepted, Existing, Registered, Commits
<1> QED BY <1>6, <1>7 DEF Inv

(* Observing context keeps the observations well formed. *)
LEMMA ObservationsTyped ==
  ASSUME Inv, NEW r \in Result, r.revision \in Commits, NEW paths \in SUBSET Files
  PROVE  Observations(r, paths) \in SUBSET Observation
<1>1. commits[r.revision] \in Commit
  BY DEF Inv, TypeOK, FactsOK, Commits
<1> QED BY <1>1 DEF Observations, Observation, Result, Commit

(* Recording observed context keeps the invariant. *)
LEMMA ObserveContextPreserves ==
  ASSUME Inv, UNCHANGED processVars, NEW n \in Nodes, NEW paths \in SUBSET Files,
         ObserveContext(n, paths)
  PROVE  Inv'
<1> DEFINE seen == (paths \cap Observable(n, result[n])) \ NodeOutputs
<1>1. result[n] \in Result /\ result[n].revision \in Commits /\ seen \in SUBSET Files
  BY DEF ObserveContext, Recorded, Observable, Inv, TypeOK, FactsOK, Closed, ProjectIsClosed
<1>2. Observations(result[n], seen) \in SUBSET Observation
  BY <1>1, ObservationsTyped
<1>3. observed' = [observed EXCEPT ![n] = observed[n] \cup Observations(result[n], seen)]
  BY DEF ObserveContext
<1> HIDE DEF seen
<1>4. UNCHANGED <<defn, result, cand, commits, refs, tree, version, snap, publishing,
                  completing, captured, completed>>
  BY DEF ObserveContext, projectVars, processVars, completionVars
<1>5. observed' \in [Nodes -> SUBSET Observation]
  BY <1>2, <1>3 DEF Inv, TypeOK, FactsOK
<1>6. TypeOK'
  BY <1>4, <1>5 DEF Inv, TypeOK, FactsOK
<1>7. Closed'
  BY <1>4 DEF Inv, Closed, GraphIsClosed, ProjectIsClosed, SnapshotsAreClosed,
     PublishersHoldAccepted, Existing, Recorded, Registered, Commits
<1> QED BY <1>6, <1>7 DEF Inv

(* A new candidate, for an artifact that exists. *)
LEMMA NewCandidatePreserves ==
  ASSUME Inv, NEW c \in Cands, cand[c] = None, NEW n \in Work, NEW ver \in Nat,
         NEW artifact \in Nat, NEW target \in Branches,
         cand' = [cand EXCEPT ![c] = NewCandidate(n, ver, artifact, target)]
  PROVE  /\ cand' \in [Cands -> Candidate \cup {None}]
         /\ Registered' = Registered \cup {c}
         /\ \A x \in Registered : cand'[x] = cand[x]
         /\ cand'[c].artifact = artifact
         /\ publishing \subseteq Registered
<1>1. NewCandidate(n, ver, artifact, target) \in Candidate
  BY DEF NewCandidate, Candidate
<1>2. NewCandidate(n, ver, artifact, target) # None
  BY <1>1, NoneAssumption
<1>3. NewCandidate(n, ver, artifact, target).artifact = artifact
  BY DEF NewCandidate
<1> QED BY <1>1, <1>2, <1>3
        DEF Registered, Inv, TypeOK, FactsOK, Closed, PublishersHoldAccepted

(* Registering a candidate keeps the invariant. *)
LEMMA RegisterPreserves ==
  ASSUME Inv, UNCHANGED processVars, NEW c \in Cands, NEW n \in Work, NEW target \in Branches,
         Register(c, n, target)
  PROVE  Inv'
<1>1. /\ result[n] \in Result /\ result[n].ver \in Nat
      /\ result[n].output \in Nat /\ result[n].output \in Commits
  BY DEF Register, Recorded, Result, Inv, TypeOK, FactsOK, Closed, ProjectIsClosed
<1>2. /\ cand' \in [Cands -> Candidate \cup {None}]
      /\ Registered' = Registered \cup {c}
      /\ \A x \in Registered : cand'[x] = cand[x]
      /\ cand'[c].artifact = result[n].output
      /\ publishing \subseteq Registered
  BY <1>1, NewCandidatePreserves DEF Register
<1>3. UNCHANGED <<defn, result, observed, commits, refs, tree, version, snap, publishing,
                  completing, captured, completed>>
  BY DEF Register, projectVars, processVars, completionVars
<1>4. TypeOK'
  BY <1>2, <1>3 DEF Inv, TypeOK, FactsOK
<1>5. Closed'
  BY <1>1, <1>2, <1>3 DEF Inv, Closed, GraphIsClosed, ProjectIsClosed, SnapshotsAreClosed,
     PublishersHoldAccepted, Existing, Recorded, Commits
<1> QED BY <1>4, <1>5 DEF Inv

(* Every operation under the lock, and every step of the owner, keeps it. *)
LEMMA OperationPreserves ==
  ASSUME Inv, GraphStep \/ OwnerStep, UNCHANGED processVars
  PROVE  Inv'
<1>1. ASSUME NEW call \in AddCalls, NEW desc \in Descs,
             Add(call[1], call[2], call[3], desc)
      PROVE  Inv'
  <2>1. call[1] \in Nodes /\ call[2] \in SUBSET Nodes /\ call[3] \in SUBSET Nodes
    BY CallAssumption
  <2> QED BY <1>1, <2>1, AddNodePreserves, IdAssumption DEF Add
<1>2. ASSUME NEW call \in AddCalls, NEW desc \in Descs, NEW c \in Cands,
             AddVerification(call[1], call[2], call[3], c, desc)
      PROVE  Inv'
  <2>1. call[1] \in Nodes /\ call[2] \in SUBSET Nodes /\ call[3] \in SUBSET Nodes
    BY CallAssumption
  <2>2. c \in Registered /\ cand[c].node \in Nodes
    BY <1>2 DEF AddVerification, Registered, Inv, TypeOK, FactsOK, Candidate, Nodes
  <2>3. call[3] \cup {cand[c].node} \in SUBSET Nodes
    BY <2>1, <2>2
  <2> QED BY <1>2, <2>1, <2>2, <2>3, AddNodePreserves DEF AddVerification
<1>3. ASSUME NEW call \in LinkCalls, Link(call[1], call[2], call[3]) PROVE Inv'
  <2>1. call[1] \in Nodes /\ call[2] \in Nodes /\ call[3] \in {"dep", "der"}
    BY CallAssumption
  <2> QED BY <1>3, <2>1, LinkPreserves
<1>4. ASSUME NEW n \in Nodes, NEW desc \in Descs, Edit(n, desc) PROVE Inv'
  BY <1>4, EditPreserves
<1>5. ASSUME NEW n \in Work, Fail(n) PROVE Inv'
  BY <1>5, FailPreserves
<1>6. ASSUME NEW n \in Nodes, NEW paths \in SUBSET Files, ObserveContext(n, paths) PROVE Inv'
  BY <1>6, ObserveContextPreserves
<1>7. ASSUME NEW c \in Cands, NEW n \in Work, NEW b \in Branches, Register(c, n, b) PROVE Inv'
  BY <1>7, RegisterPreserves
<1>8. ASSUME NEW f \in Files, NEW b \in Blobs, EditTree(f, b) PROVE Inv'
  BY <1>8, EditTreePreserves
<1>9. ASSUME NEW b \in Branches, NEW content \in [Files -> Blobs], CommitBranch(b, content)
      PROVE Inv'
  BY <1>9, CommitBranchPreserves
<1> QED BY <1>1, <1>2, <1>3, <1>4, <1>5, <1>6, <1>7, <1>8, <1>9
   DEF GraphStep, OwnerStep

-----------------------------------------------------------------------------
(* The steps of a worker that touch nothing but its own snapshot. *)
LEMMA OwnSnapshotPreserves ==
  ASSUME Inv, NEW w \in Workers, UNCHANGED <<factVars, publishing, completionVars>>,
         NEW s \in Snapshot \cup {None}, snap' = [snap EXCEPT ![w] = s],
         s # None =>
           /\ s.node \in Existing
           /\ s.stage # "checked" => s.defn # None
           /\ s.stage = "frozen" => s.revision \in Commits
  PROVE  Inv'
<1> USE DEF Inv, TypeOK, FactsOK, Closed, factVars, storeVars, projectVars, completionVars
<1>1. snap' \in [Workers -> Snapshot \cup {None}]
  OBVIOUS
<1>2. SnapshotsAreClosed'
  BY DEF SnapshotsAreClosed, Existing, Commits
<1>3. GraphIsClosed' /\ ProjectIsClosed' /\ PublishersHoldAccepted'
  BY DEF GraphIsClosed, ProjectIsClosed, PublishersHoldAccepted,
     Existing, Recorded, Registered, Commits
<1> QED BY <1>1, <1>2, <1>3

(* Looking for work keeps the invariant. *)
LEMMA SnapshotCheckPreserves ==
  ASSUME Inv, NEW w \in Workers, NEW n \in Nodes, SnapshotCheck(w, n)
  PROVE  Inv'
<1> DEFINE s == [stage |-> "checked", node |-> n, defn |-> None, deps |-> {},
                 lineage |-> {}, context |-> {}, revision |-> 0, prev |-> None]
<1>1. s \in Snapshot
  BY DEF Snapshot
<1>2. n \in Existing
  BY DEF SnapshotCheck, IsReady, IsReadyIn
<1>3. s.stage = "checked" /\ s.node = n
  OBVIOUS
<1>4. snap' = [snap EXCEPT ![w] = s] /\ UNCHANGED <<factVars, publishing, completionVars>>
  BY DEF SnapshotCheck
<1> HIDE DEF s
<1> QED BY <1>1, <1>2, <1>3, <1>4, OwnSnapshotPreserves

(* Pinning what the node builds on keeps the invariant. *)
LEMMA SnapshotPinPreserves ==
  ASSUME Inv, NEW w \in Workers, SnapshotPin(w)
  PROVE  Inv'
<1> DEFINE n == snap[w].node
           s == [snap[w] EXCEPT !.stage = "pinned", !.defn = defn[n],
                                !.deps = PinNodeList(defn[n].dep),
                                !.lineage = PinNodeList(defn[n].der)]
<1>1. snap[w] \in Snapshot /\ n \in Existing /\ n \in Nodes
  BY DEF SnapshotPin, Inv, TypeOK, Closed, SnapshotsAreClosed, Snapshot
<1>2. defn[n] \in Definition /\ defn[n] # None
  BY <1>1 DEF Existing, Inv, TypeOK, FactsOK
<1>3. PinNodeList(defn[n].dep) \in SUBSET Pin /\ PinNodeList(defn[n].der) \in SUBSET Pin
  BY <1>1, PinsTyped DEF Inv, Closed, GraphIsClosed
<1>4. s \in Snapshot /\ s.stage = "pinned" /\ s.node = n /\ s.defn = defn[n]
  BY <1>1, <1>2, <1>3 DEF Snapshot
<1>5. snap' = [snap EXCEPT ![w] = s] /\ UNCHANGED <<factVars, publishing, completionVars>>
  BY <1>1 DEF SnapshotPin, Inv, TypeOK
<1> HIDE DEF s, n
<1> QED BY <1>1, <1>2, <1>4, <1>5, OwnSnapshotPreserves

(* Freezing the project's revision and context keeps the invariant. *)
LEMMA SnapshotFreezePreserves ==
  ASSUME Inv, NEW w \in Workers, NEW paths \in SUBSET Files, SnapshotFreeze(w, paths)
  PROVE  Inv'
<1> DEFINE context == ContextAt(HeadCommit, paths)
           s == [snap[w] EXCEPT !.stage = "frozen", !.revision = HeadCommit,
                                !.context = context, !.prev = Version(snap[w].node)]
<1>1. /\ snap[w] \in Snapshot /\ snap[w].node \in Existing /\ snap[w].node \in Nodes
      /\ snap[w].defn # None
  BY DEF SnapshotFreeze, Inv, TypeOK, Closed, SnapshotsAreClosed, Snapshot
<1>2. Version(snap[w].node) \in Nat \cup {None}
  BY <1>1 DEF Version, Inv, TypeOK, FactsOK, Result
<1>3. commits[HeadCommit] \in Commit
  BY HeadExists DEF Inv, TypeOK, FactsOK, Commits
<1>4. context \in SUBSET ContextPin
  BY <1>3 DEF ContextAt, Commit, ContextPin
<1>5. snap' = [snap EXCEPT ![w] = s] /\ UNCHANGED <<factVars, publishing, completionVars>>
  BY <1>1 DEF SnapshotFreeze, Inv, TypeOK
<1> HIDE DEF context
<1>6. /\ s \in Snapshot /\ s.node = snap[w].node
      /\ s.defn = snap[w].defn /\ s.revision = HeadCommit
  BY <1>1, <1>2, <1>4, HeadExists DEF Snapshot
<1> HIDE DEF s
<1> QED BY <1>1, <1>5, <1>6, HeadExists, OwnSnapshotPreserves

(* So does letting go of a snapshot. *)
LEMMA DropPreserves ==
  ASSUME Inv, NEW w \in Workers, Drop(w)
  PROVE  Inv'
<1>1. snap' = [snap EXCEPT ![w] = None] /\ UNCHANGED <<factVars, publishing, completionVars>>
  BY DEF Drop, Release
<1> QED BY <1>1, OwnSnapshotPreserves

-----------------------------------------------------------------------------
(* What passes the checks of submit_result was frozen from the definition   *)
(* and the inputs the node has now, on a commit that exists.                *)
LEMMA SnapshotIsCurrent ==
  ASSUME NEW s, NEW outcome, NEW output, NEW at, ~Conflict(s, outcome, output, at)
  PROVE  /\ s.defn = defn[s.node]
         /\ s.deps = PinNodeList(defn[s.node].dep)
         /\ s.lineage = PinNodeList(defn[s.node].der)
         /\ at.head \in {s.revision, output}
BY DEF Conflict, DefinitionChanged, DependenciesChanged, LineageChanged, ProjectChanged

(* A worker's frozen snapshot names what is there; so does a completion's.  *)
LEMMA FrozenIsThere ==
  ASSUME Inv, NEW w \in Workers, Frozen(w)
  PROVE  /\ snap[w].node \in Existing /\ snap[w].revision \in Commits
         /\ snap[w].revision \in Nat /\ snap[w].context \in SUBSET ContextPin
BY DEF Frozen, Inv, TypeOK, Closed, SnapshotsAreClosed, Snapshot

LEMMA CompletionIsThere ==
  ASSUME Inv, completing # None
  PROVE  /\ completing.node \in Existing /\ completing.revision \in Commits
         /\ completing.revision \in Nat /\ completing.context \in SUBSET ContextPin
         /\ completing.output \in Nat \cup {None}
         /\ completing.output \in Commits \cup {None}
BY DEF Inv, TypeOK, Closed, SnapshotsAreClosed, Completion

(* The result of a current snapshot is well formed. *)
LEMMA ResultOfTyped ==
  ASSUME Inv, NEW s, s.node \in Existing, s.revision \in Nat,
         s.context \in SUBSET ContextPin,
         NEW outcome \in Outcomes, NEW conflicting, NEW at,
         ~Conflict(s, outcome, conflicting, at), NEW output \in Nat \cup {None}
  PROVE  /\ ResultOf(s, outcome, output) \in Result
         /\ ResultOf(s, outcome, output).ver = version + 1
         /\ ResultOf(s, outcome, output).output = output
         /\ ResultOf(s, outcome, output).revision = s.revision
<1>1. /\ s.defn \in Definition
      /\ s.deps = PinNodeList(defn[s.node].dep)
      /\ s.lineage = PinNodeList(defn[s.node].der)
  BY SnapshotIsCurrent DEF Existing, Inv, TypeOK, FactsOK
<1>2. s.deps \in SUBSET Pin /\ s.lineage \in SUBSET Pin
  BY <1>1, PinsTyped DEF Inv, Closed, GraphIsClosed
<1>3. ResultOf(s, outcome, output) \in Result
  BY <1>1, <1>2, NewResultTyped DEF ResultOf, Inv, TypeOK, FactsOK
<1> QED BY <1>1, <1>3 DEF ResultOf, NewResult

(* What all submissions share: a well-formed result is recorded, against    *)
(* the project's commits and whatever the submission adds to them.          *)
LEMMA SubmissionPreserves ==
  ASSUME Inv, NEW n \in Existing, NEW r \in Result, Record(n, r),
         r.revision \in Commits, r.output \in Commits' \cup {None},
         snap' \in [Workers -> Snapshot \cup {None}],
         \A w \in Workers : snap'[w] \in {snap[w], None},
         completing' \in {completing, None}, UNCHANGED captured,
         completed' \subseteq captured,
         UNCHANGED <<defn, refs, tree, publishing>>,
         observed' \in [Nodes -> SUBSET Observation],
         commits' \in Seq(Commit), Commits \subseteq Commits',
         \A k \in Commits' : commits'[k].anc \subseteq Commits',
         cand' \in [Cands -> Candidate \cup {None}], Registered \subseteq Registered',
         \A c \in Registered' : cand'[c].artifact \in Commits',
         PublishersHoldAccepted'
  PROVE  Inv'
<1>3. /\ result' \in [Nodes -> Result \cup {None}]
      /\ version' \in Nat
      /\ Recorded' \subseteq Existing'
      /\ \A b \in Branches : refs'[b] \in Commits'
      /\ \A m \in Recorded' : /\ result'[m].revision \in Commits'
                               /\ result'[m].output \in Commits' \cup {None}
  BY RecordPreserves
<1>5. TypeOK'
  BY <1>3 DEF Inv, TypeOK, FactsOK
<1>6. ProjectIsClosed'
  BY <1>3 DEF ProjectIsClosed
<1>7. GraphIsClosed'
  BY <1>3 DEF Inv, Closed, GraphIsClosed, Existing
<1>8. SnapshotsAreClosed'
  BY DEF Inv, TypeOK, Closed, SnapshotsAreClosed, Existing
<1> QED BY <1>5, <1>6, <1>7, <1>8 DEF Inv, Closed

(* The submission of a worker: its snapshot is released, no completion is   *)
(* touched.                                                                  *)
LEMMA WorkerSubmissionPreserves ==
  ASSUME Inv, NEW w \in Workers, Frozen(w), NEW outcome \in Outcomes,
         NEW conflicting, NEW at, ~Conflict(snap[w], outcome, conflicting, at),
         NEW output \in Nat \cup {None}, output \in Commits' \cup {None},
         Record(snap[w].node, ResultOf(snap[w], outcome, output)), Release(w),
         UNCHANGED <<defn, refs, tree, publishing, completionVars>>,
         observed' \in [Nodes -> SUBSET Observation],
         commits' \in Seq(Commit), Commits \subseteq Commits',
         \A k \in Commits' : commits'[k].anc \subseteq Commits',
         cand' \in [Cands -> Candidate \cup {None}], Registered \subseteq Registered',
         \A c \in Registered' : cand'[c].artifact \in Commits',
         PublishersHoldAccepted'
  PROVE  Inv'
<1> DEFINE n == snap[w].node
           r == ResultOf(snap[w], outcome, output)
<1>1. /\ n \in Existing /\ snap[w].revision \in Commits /\ snap[w].revision \in Nat
      /\ snap[w].context \in SUBSET ContextPin
  BY FrozenIsThere
<1>2. r \in Result /\ r.revision \in Commits /\ r.output \in Commits' \cup {None}
  BY <1>1, ResultOfTyped
<1>3. Record(n, r)
  OBVIOUS
<1>4. /\ snap' \in [Workers -> Snapshot \cup {None}]
      /\ \A x \in Workers : snap'[x] \in {snap[x], None}
  BY DEF Release, Inv, TypeOK
<1>5. completing' \in {completing, None} /\ UNCHANGED captured /\ completed' \subseteq captured
  BY DEF completionVars, Inv, TypeOK
<1> HIDE DEF n, r
<1> QED BY <1>1, <1>2, <1>3, <1>4, <1>5, SubmissionPreserves

(* A submission that adds no commit and touches no candidate. *)
LEMMA PlainSubmissionPreserves ==
  ASSUME Inv, NEW w \in Workers, Frozen(w), NEW outcome \in Outcomes,
         NEW at, ~Conflict(snap[w], outcome, None, at),
         Record(snap[w].node, ResultOf(snap[w], outcome, None)), Release(w),
         UNCHANGED <<defn, observed, cand, projectVars, publishing, completionVars>>
  PROVE  Inv'
<1>1. UNCHANGED <<commits, refs, tree>>
  BY DEF projectVars
<1>2. /\ observed' \in [Nodes -> SUBSET Observation] /\ commits' \in Seq(Commit)
      /\ cand' \in [Cands -> Candidate \cup {None}]
  BY <1>1 DEF Inv, TypeOK, FactsOK
<1>3. /\ Commits' = Commits /\ Registered' = Registered
      /\ \A k \in Commits' : commits'[k].anc \subseteq Commits'
      /\ \A c \in Registered' : cand'[c].artifact \in Commits'
      /\ PublishersHoldAccepted'
  BY <1>1 DEF Commits, Registered, Inv, Closed, ProjectIsClosed, PublishersHoldAccepted
<1>4. None \in Nat \cup {None} /\ None \in Commits' \cup {None}
  OBVIOUS
<1> QED BY <1>1, <1>2, <1>3, <1>4, WorkerSubmissionPreserves

(* Capturing an output commits the work on top of the frozen commit. *)
LEMMA CapturePreserves ==
  ASSUME Inv, NEW k \in Commits, NEW content \in [Files -> Blobs], Capture(k, content)
  PROVE  /\ commits' \in Seq(Commit)
         /\ Commits \subseteq Commits'
         /\ Len(commits) + 1 \in Commits'
         /\ Len(commits) + 1 \in Nat
         /\ \A i \in Commits' : commits'[i].anc \subseteq Commits'
         /\ UNCHANGED <<refs, tree>>
<1>1. Len(commits) + 1 \in Nat
  BY DEF Inv, TypeOK, FactsOK
<1> QED BY <1>1, CommitPreserves DEF Capture

(* Submitting an output together with its candidate keeps the invariant. *)
LEMMA SubmitCandidatePreserves ==
  ASSUME Inv, NEW w \in Workers, NEW content \in [Files -> Blobs], NEW c \in Cands,
         NEW target \in Branches, NEW paths \in SUBSET Files,
         SubmitCandidate(w, content, c, target, paths)
  PROVE  Inv'
<1> DEFINE n == snap[w].node
           out == Len(commits) + 1
           r == ResultOf(snap[w], "done", out)
           seen == (paths \cap Observable(n, r)) \ NodeOutputs'
<1>1. /\ Frozen(w) /\ ~Conflict(snap[w], "done", r.output, Project)
      /\ Capture(snap[w].revision, content)
      /\ Record(n, r) /\ cand[c] = None /\ n \in Work
      /\ cand' = [cand EXCEPT ![c] = NewCandidate(n, r.ver, r.output, target)]
      /\ observed' = [observed EXCEPT ![n] = observed[n] \cup Observations(r, seen)]
      /\ Release(w) /\ UNCHANGED <<defn, publishing, completionVars>>
  BY DEF SubmitCandidate, Submitting
<1>2. /\ n \in Existing /\ snap[w].revision \in Commits /\ snap[w].revision \in Nat
      /\ snap[w].context \in SUBSET ContextPin
  BY <1>1, FrozenIsThere
<1>3. /\ commits' \in Seq(Commit)
      /\ Commits \subseteq Commits'
      /\ out \in Commits'
      /\ out \in Nat
      /\ \A k \in Commits' : commits'[k].anc \subseteq Commits'
      /\ UNCHANGED <<refs, tree>>
  BY <1>1, <1>2, CapturePreserves
<1>4. "done" \in Outcomes
  BY DEF Outcomes, WorkOutcomes
<1>5. r \in Result /\ r.ver = version + 1 /\ r.output = out /\ r.revision = snap[w].revision
  BY <1>1, <1>2, <1>3, <1>4, ResultOfTyped
<1>6. Observations(r, seen) \in SUBSET Observation
  <2>1. seen \in SUBSET Files
    OBVIOUS
  <2> HIDE DEF r, seen
  <2> QED BY <2>1, <1>2, <1>5, ObservationsTyped
<1>7. observed' \in [Nodes -> SUBSET Observation]
  <2> HIDE DEF r, seen, n
  <2> QED BY <1>1, <1>6 DEF Inv, TypeOK, FactsOK
<1>8. r.ver \in Nat
  BY <1>5 DEF Inv, TypeOK, FactsOK
<1>9. /\ cand' \in [Cands -> Candidate \cup {None}]
      /\ Registered' = Registered \cup {c}
      /\ \A x \in Registered : cand'[x] = cand[x]
      /\ cand'[c].artifact = out
      /\ publishing \subseteq Registered
  <2> HIDE DEF r, seen, n, out
  <2> QED BY <1>1, <1>3, <1>5, <1>8, NewCandidatePreserves
<1>10. /\ PublishersHoldAccepted'
       /\ \A x \in Registered' : cand'[x].artifact \in Commits'
  <2> HIDE DEF r, seen, n, out
  <2> QED BY <1>1, <1>3, <1>9 DEF Inv, Closed, ProjectIsClosed, PublishersHoldAccepted
<1>11. Record(snap[w].node, ResultOf(snap[w], "done", out))
  BY <1>1
<1>12. ~Conflict(snap[w], "done", r.output, Project)
  BY <1>1
<1> HIDE DEF r, seen, n, out
<1> QED BY <1>1, <1>3, <1>4, <1>7, <1>9, <1>10, <1>11, <1>12, WorkerSubmissionPreserves

(* Deciding a candidate leaves a well-formed record with the same artifact. *)
LEMMA DecidedTyped ==
  ASSUME Inv, NEW c \in Registered, NEW v \in Reviews, NEW verdict \in {"accepted", "rejected"}
  PROVE  /\ DecidedState(c, v, verdict) \in Candidate
         /\ DecidedState(c, v, verdict).artifact = cand[c].artifact
<1>1. cand[c] \in Candidate
  BY DEF Registered, Inv, TypeOK, FactsOK
<1>2. refs[cand[c].target] \in Nat
  BY <1>1 DEF Candidate, Inv, TypeOK, FactsOK
<1> DEFINE previous == IF verdict = "accepted" THEN refs[cand[c].target] ELSE None
<1>3. previous \in Nat \cup {None}
  BY <1>2
<1>4. DecidedState(c, v, verdict) =
        [cand[c] EXCEPT !.status = verdict, !.verification = v, !.previous = previous]
  BY DEF DecidedState
<1> HIDE DEF previous
<1> QED BY <1>1, <1>3, <1>4 DEF Candidate

(* Submitting a verdict keeps the invariant: the candidate it decides is    *)
(* pending, so no publisher holds it.                                       *)
LEMMA SubmitVerdictPreserves ==
  ASSUME Inv, NEW w \in Workers, NEW verdict \in Verdicts, SubmitVerdict(w, verdict)
  PROVE  Inv'
<1> DEFINE n == snap[w].node
           c == defn[n].verifies
<1>1. /\ Frozen(w) /\ n \in Reviews /\ verdict \in {"accepted", "rejected"}
      /\ ~Conflict(snap[w], verdict, None, Project) /\ cand[c].status = "pending"
      /\ Record(n, ResultOf(snap[w], verdict, None)) /\ Release(w)
      /\ cand' = [cand EXCEPT ![c] = DecidedState(c, n, verdict)]
      /\ UNCHANGED <<defn, observed, commits, refs, tree, publishing, completionVars>>
  BY DEF SubmitVerdict, Submitting, projectVars
<1>2. c \in Registered
  BY <1>1, FrozenIsThere DEF Inv, Closed, GraphIsClosed
<1>3. c \in Cands /\ c \notin publishing
  BY <1>1, <1>2 DEF Registered, Inv, Closed, PublishersHoldAccepted
<1>4. /\ DecidedState(c, n, verdict) \in Candidate
      /\ DecidedState(c, n, verdict).artifact = cand[c].artifact
  BY <1>1, <1>2, DecidedTyped
<1>5. "accepted" \in Outcomes /\ "rejected" \in Outcomes
  BY DEF Outcomes, Verdicts
<1>6. /\ commits' \in Seq(Commit) /\ observed' \in [Nodes -> SUBSET Observation]
      /\ \A k \in Commits' : commits'[k].anc \subseteq Commits'
      /\ Commits' = Commits
  BY <1>1 DEF Commits, Inv, TypeOK, FactsOK, Closed, ProjectIsClosed
<1>7. Record(snap[w].node, ResultOf(snap[w], verdict, None))
  BY <1>1
<1> HIDE DEF n, c
<1>8. cand' \in [Cands -> Candidate \cup {None}] /\ Registered' = Registered
  BY <1>1, <1>2, <1>3, <1>4, NoneAssumption DEF Registered, Inv, TypeOK, FactsOK
<1>9. \A x \in Registered' : cand'[x].artifact = cand[x].artifact /\ cand[x].artifact \in Commits
  BY <1>1, <1>2, <1>3, <1>4, <1>8 DEF Registered, Inv, TypeOK, FactsOK, Closed, ProjectIsClosed
<1>10. PublishersHoldAccepted'
  BY <1>1, <1>3, <1>8 DEF Inv, TypeOK, FactsOK, Closed, PublishersHoldAccepted
<1>11. /\ verdict \in Outcomes /\ None \in Nat \cup {None} /\ None \in Commits' \cup {None}
       /\ ~Conflict(snap[w], verdict, None, Project)
       /\ \A x \in Registered' : cand'[x].artifact \in Commits'
  BY <1>1, <1>5, <1>6, <1>9
<1> QED BY <1>1, <1>6, <1>7, <1>8, <1>10, <1>11, WorkerSubmissionPreserves

(* The other submissions keep the invariant. *)
LEMMA OtherSubmissionsPreserve ==
  ASSUME Inv, NEW w \in Workers,
         (\E at \in Checkouts : SubmitFailed(w, at)) \/ SubmitDone(w) \/ SubmitAbandoned(w)
  PROVE  Inv'
<1>1. "failed" \in Outcomes /\ "done" \in Outcomes /\ "abandoned" \in Outcomes
  BY DEF Outcomes, WorkOutcomes, Verdicts
<1>2. CASE \E at \in Checkouts : SubmitFailed(w, at)
  BY <1>1, <1>2, PlainSubmissionPreserves DEF SubmitFailed, Submitting
<1>3. CASE SubmitDone(w)
  BY <1>1, <1>3, PlainSubmissionPreserves DEF SubmitDone, Submitting
<1>4. CASE SubmitAbandoned(w)
  BY <1>1, <1>4, PlainSubmissionPreserves DEF SubmitAbandoned, Submitting
<1> QED BY <1>2, <1>3, <1>4

(* Every step of a worker keeps the invariant. *)
LEMMA WorkerPreserves ==
  ASSUME Inv, NEW w \in Workers, WorkerStep(w)
  PROVE  Inv'
BY SnapshotCheckPreserves, SnapshotPinPreserves, SnapshotFreezePreserves, DropPreserves,
   OtherSubmissionsPreserve, SubmitCandidatePreserves, SubmitVerdictPreserves
   DEF WorkerStep

-----------------------------------------------------------------------------
(* Starting a completion freezes what is there. *)
LEMMA CompleteFreezePreserves ==
  ASSUME Inv, NEW n \in Direct, NEW outputs \in SUBSET Files, NEW paths \in SUBSET Files,
         CompleteFreeze(n, outputs, paths)
  PROVE  Inv'
<1> DEFINE s == [node |-> n, defn |-> defn[n],
                 deps |-> PinNodeList(defn[n].dep), lineage |-> PinNodeList(defn[n].der),
                 context |-> ContextAt(HeadCommit, paths),
                 revision |-> HeadCommit, prev |-> Version(n),
                 outputs |-> outputs, output |-> None]
<1>1. n \in Existing /\ n \in Nodes /\ defn[n] \in Definition
  BY DEF CompleteFreeze, IsReady, IsReadyIn, Existing, Inv, TypeOK, FactsOK
<1>2. PinNodeList(defn[n].dep) \in SUBSET Pin /\ PinNodeList(defn[n].der) \in SUBSET Pin
  BY <1>1, PinsTyped DEF Inv, Closed, GraphIsClosed
<1>3. commits[HeadCommit] \in Commit
  BY HeadExists DEF Inv, TypeOK, FactsOK, Commits
<1>4. ContextAt(HeadCommit, paths) \in SUBSET ContextPin
  BY <1>3 DEF ContextAt, Commit, ContextPin
<1>5. Version(n) \in Nat \cup {None}
  BY <1>1 DEF Version, Inv, TypeOK, FactsOK, Result
<1>6. s \in Completion /\ s.node = n /\ s.revision = HeadCommit /\ s.output = None
  BY <1>1, <1>2, <1>4, <1>5, HeadExists DEF Completion
<1>7. /\ completing' = s
      /\ UNCHANGED <<factVars, snap, publishing, captured, completed>>
  BY DEF CompleteFreeze
<1> HIDE DEF s
<1> USE <1>7 DEF factVars, storeVars, projectVars
<1>8. TypeOK'
  BY <1>6 DEF Inv, TypeOK, FactsOK
<1>9. Closed'
  BY <1>1, <1>6, HeadExists DEF Inv, Closed, GraphIsClosed, ProjectIsClosed,
     SnapshotsAreClosed, PublishersHoldAccepted, Existing, Recorded, Registered, Commits
<1> QED BY <1>8, <1>9 DEF Inv

(* The commit of a completion is one of the branch checked out. *)
LEMMA CompleteCapturePreserves == ASSUME Inv, CompleteCapture PROVE Inv'
<1> DEFINE content == [f \in Files |-> IF f \in completing.outputs THEN tree[f]
                                       ELSE commits[HeadCommit].tree[f]]
           k == Len(commits) + 1
<1>1. /\ completing # None /\ CommitBranch(Main, content)
      /\ completing' = [completing EXCEPT !.output = k]
      /\ captured' = captured \cup {k}
      /\ UNCHANGED <<snap, publishing, completed>>
  BY DEF CompleteCapture
<1>2. commits[HeadCommit] \in Commit /\ tree \in [Files -> Blobs]
  BY HeadExists DEF Inv, TypeOK, FactsOK, Commits
<1>3. content \in [Files -> Blobs]
  BY <1>2 DEF Commit
<1> HIDE DEF content
<1>4. /\ commits' \in Seq(Commit)
      /\ Commits \subseteq Commits'
      /\ k \in Commits' /\ k \in Nat
      /\ \A i \in Commits' : commits'[i].anc \subseteq Commits'
  <2>1. PICK h \in Commits : h = HeadCommit
    BY HeadExists
  <2>2. commits' = Append(commits,
          [parent |-> h, tree |-> content, anc |-> commits[h].anc \cup {Len(commits) + 1}])
    BY <1>1, <2>1 DEF CommitBranch, HeadCommit
  <2>3. k \in Nat
    BY DEF Inv, TypeOK, FactsOK
  <2>4. /\ commits' \in Seq(Commit)
        /\ Commits \subseteq Commits'
        /\ k \in Commits'
        /\ \A i \in Commits' : commits'[i].anc \subseteq Commits'
    BY <1>3, <2>2, CommitPreserves
  <2> QED BY <2>3, <2>4
<1>5. /\ refs' = [refs EXCEPT ![Main] = k]
      /\ UNCHANGED <<defn, result, observed, cand, tree, version>>
  BY <1>1 DEF CommitBranch, storeVars
<1> HIDE DEF k
<1>6. /\ completing \in Completion /\ completing' \in Completion
      /\ completing'.node = completing.node
      /\ completing'.revision = completing.revision
      /\ completing'.output = k
  <2>1. completing \in Completion
    BY <1>1 DEF Inv, TypeOK
  <2> QED BY <1>1, <1>4, <2>1 DEF Completion
<1>7. TypeOK'
  BY <1>1, <1>4, <1>5, <1>6 DEF Inv, TypeOK, FactsOK
<1>8. ProjectIsClosed'
  BY <1>4, <1>5 DEF Inv, TypeOK, FactsOK, Closed, ProjectIsClosed, Recorded, Registered
<1>9. SnapshotsAreClosed'
  BY <1>1, <1>4, <1>5, <1>6 DEF Inv, Closed, SnapshotsAreClosed, Existing
<1>10. GraphIsClosed' /\ PublishersHoldAccepted'
  BY <1>1, <1>5 DEF Inv, Closed, GraphIsClosed, PublishersHoldAccepted,
     Existing, Recorded, Registered
<1> QED BY <1>7, <1>8, <1>9, <1>10 DEF Inv, Closed

(* Recording a completion is a submission against the commits there are. *)
LEMMA CompleteRecordPreserves == ASSUME Inv, CompleteRecord PROVE Inv'
<1> DEFINE n == completing.node
           r == ResultOf(completing, "done", completing.output)
<1>1. /\ completing # None /\ ~Conflict(completing, "done", completing.output, Project)
      /\ Record(n, r) /\ completing' = None
      /\ completed' = completed \cup ({completing.output} \ {None})
      /\ UNCHANGED <<defn, observed, cand, commits, refs, tree, snap, publishing, captured>>
  BY DEF CompleteRecord, projectVars
<1>2. "done" \in Outcomes
  BY DEF Outcomes, WorkOutcomes
<1>3. /\ n \in Existing /\ r \in Result /\ r.revision \in Commits
      /\ r.output \in Commits \cup {None}
  BY <1>1, <1>2, CompletionIsThere, ResultOfTyped
<1> HIDE DEF n, r
<1>4. completed' \subseteq captured
  BY <1>1 DEF Inv, TypeOK, Closed, SnapshotsAreClosed
<1>5. /\ observed' \in [Nodes -> SUBSET Observation] /\ commits' \in Seq(Commit)
      /\ cand' \in [Cands -> Candidate \cup {None}]
      /\ snap' \in [Workers -> Snapshot \cup {None}]
      /\ \A w \in Workers : snap'[w] \in {snap[w], None}
  BY <1>1 DEF Inv, TypeOK, FactsOK
<1>6. /\ Commits' = Commits /\ Registered' = Registered
      /\ \A k \in Commits' : commits'[k].anc \subseteq Commits'
      /\ \A c \in Registered' : cand'[c].artifact \in Commits'
      /\ PublishersHoldAccepted'
  BY <1>1 DEF Commits, Registered, Inv, Closed, ProjectIsClosed, PublishersHoldAccepted
<1> QED BY <1>1, <1>3, <1>4, <1>5, <1>6, SubmissionPreserves

(* A completion that fails leaves what it did where it is. *)
LEMMA CompleteFailPreserves == ASSUME Inv, CompleteFail PROVE Inv'
<1> USE DEF CompleteFail, factVars, storeVars, projectVars
<1>1. TypeOK'
  BY DEF Inv, TypeOK, FactsOK
<1>2. Closed'
  BY DEF Inv, Closed, GraphIsClosed, ProjectIsClosed, SnapshotsAreClosed,
     PublishersHoldAccepted, Existing, Recorded, Registered, Commits
<1> QED BY <1>1, <1>2 DEF Inv

(* Every step of a completion keeps the invariant. *)
LEMMA CompletionPreserves == ASSUME Inv, CompletionStep PROVE Inv'
BY CompleteFreezePreserves, CompleteCapturePreserves, CompleteRecordPreserves,
   CompleteFailPreserves
   DEF CompletionStep

-----------------------------------------------------------------------------
(* Publishing moves a branch to a commit that exists. *)
LEMMA FastForwardPreserves ==
  ASSUME Inv, NEW c \in Cands, PublishFastForward(c)
  PROVE  Inv'
<1>1. c \in Registered /\ cand[c] \in Candidate /\ cand[c].artifact \in Commits
  BY DEF PublishFastForward, Registered, Inv, TypeOK, FactsOK, Closed,
     PublishersHoldAccepted, ProjectIsClosed
<1>2. cand[c].artifact \in Nat /\ cand[c].target \in Branches
  BY <1>1 DEF Candidate
<1>3. commits[cand[c].artifact].tree \in [Files -> Blobs]
  <2>1. commits[cand[c].artifact] \in Commit
    BY <1>1 DEF Commits, Inv, TypeOK, FactsOK
  <2> QED BY <2>1 DEF Commit
<1>4. /\ refs' = [refs EXCEPT ![cand[c].target] = cand[c].artifact]
      /\ tree' \in {commits[cand[c].artifact].tree, tree}
      /\ publishing' \subseteq publishing
      /\ UNCHANGED <<defn, result, observed, cand, commits, version, snap>>
      /\ UNCHANGED <<completing, captured, completed>>
  BY DEF PublishFastForward, FastForward, storeVars, completionVars
<1>5. TypeOK'
  BY <1>2, <1>3, <1>4 DEF Inv, TypeOK, FactsOK
<1>6. ProjectIsClosed'
  BY <1>1, <1>4 DEF Inv, TypeOK, FactsOK, Closed, ProjectIsClosed, Commits, Recorded, Registered
<1>7. GraphIsClosed' /\ SnapshotsAreClosed' /\ PublishersHoldAccepted'
  BY <1>4 DEF Inv, Closed, GraphIsClosed, SnapshotsAreClosed, PublishersHoldAccepted,
     Existing, Recorded, Registered, Commits
<1> QED BY <1>5, <1>6, <1>7 DEF Inv, Closed

(* Checking a candidate and giving one up keep the invariant. *)
LEMMA PublisherPreserves ==
  ASSUME Inv, NEW c \in Cands, PublishStep(c)
  PROVE  Inv'
<1>1. CASE PublishCheck(c) \/ PublishGiveUp(c)
  <2>1. /\ publishing' \subseteq publishing \cup {c}
        /\ c \in publishing' => cand[c] # None /\ cand[c].status = "accepted"
        /\ UNCHANGED <<defn, result, observed, cand, commits, refs, tree, version, snap>>
        /\ UNCHANGED <<completing, captured, completed>>
    BY <1>1 DEF PublishCheck, PublishGiveUp, factVars, storeVars, projectVars,
       completionVars, Inv, Closed, PublishersHoldAccepted
  <2>2. TypeOK'
    BY <2>1 DEF Inv, TypeOK, FactsOK
  <2>3. Closed'
    BY <2>1 DEF Inv, Closed, GraphIsClosed, ProjectIsClosed, SnapshotsAreClosed,
       PublishersHoldAccepted, Existing, Recorded, Registered, Commits
  <2> QED BY <2>2, <2>3 DEF Inv
<1>2. CASE PublishFastForward(c)
  BY <1>2, FastForwardPreserves
<1> QED BY <1>1, <1>2 DEF PublishStep

(* A step that changes nothing keeps the invariant. *)
LEMMA StutterPreserves == ASSUME Inv, UNCHANGED vars PROVE Inv'
BY DEF vars, factVars, storeVars, projectVars, processVars, completionVars, Inv, TypeOK, FactsOK, Closed,
   GraphIsClosed, ProjectIsClosed, SnapshotsAreClosed, PublishersHoldAccepted,
   Existing, Recorded, Registered, Commits

(* The store, the project and the snapshots keep their shape, and nothing   *)
(* in them ever refers to a node, a candidate or a commit that is not       *)
(* there, through every operation of Linka.                                 *)
THEOREM InvIsInvariant == Spec => []Inv
<1>1. Init => Inv
  BY InitInv
<1>2. Inv /\ [Next]_vars => Inv'
  BY OperationPreserves, WorkerPreserves, CompletionPreserves, PublisherPreserves,
     StutterPreserves
     DEF Next
<1> QED BY <1>1, <1>2, PTL DEF Spec

(* Every variable always has its type (Linka's TypeOK). *)
THEOREM TypeCorrect == Spec => []TypeOK
<1>1. Inv => TypeOK
  BY DEF Inv
<1> QED BY <1>1, InvIsInvariant, PTL

-----------------------------------------------------------------------------
(* Branches. *)

(* The commits form a history: each is among its own ancestors, no later    *)
(* one is, and what is under an ancestor is under it.                        *)
Ancestry ==
  \A k \in Commits :
    /\ IsAncestor(k, k)
    /\ \A j \in commits[k].anc : j <= k /\ commits[j].anc \subseteq commits[k].anc

(* How the commits and the branches of the project move in one step. *)
Grows ==
  /\ Commits \subseteq Commits'
  /\ \A k \in Commits : commits'[k] = commits[k]
  /\ \A k \in Commits' \ Commits :
       \E j \in Commits : commits'[k].anc = commits[j].anc \cup {k}
  /\ \A b \in Branches : refs[b] \in commits'[refs'[b]].anc

(* Commits that stay as they are keep what the branches that stay contain. *)
LEMMA StandingBranchesGrow ==
  ASSUME Inv, Ancestry, UNCHANGED refs,
         Commits \subseteq Commits', \A k \in Commits : commits'[k] = commits[k],
         \A k \in Commits' \ Commits :
           \E j \in Commits : commits'[k].anc = commits[j].anc \cup {k}
  PROVE  Grows
<1>1. \A b \in Branches : refs[b] \in Commits
  BY DEF Inv, Closed, ProjectIsClosed
<1> QED BY <1>1 DEF Grows, Ancestry, IsAncestor

(* A commit made on top of another contains it, and itself. *)
LEMMA NewCommitGrows ==
  ASSUME Inv, NEW k \in Commits, NEW content \in [Files -> Blobs],
         commits' = Append(commits,
           [parent |-> k, tree |-> content,
            anc |-> commits[k].anc \cup {Len(commits) + 1}])
  PROVE  /\ Commits \subseteq Commits'
         /\ \A i \in Commits : commits'[i] = commits[i]
         /\ Commits' \ Commits = {Len(commits) + 1}
         /\ commits'[Len(commits) + 1].anc = commits[k].anc \cup {Len(commits) + 1}
         /\ commits'[Len(commits) + 1].parent = k
<1>1. commits \in Seq(Commit) /\ Len(commits) \in Nat /\ Commits = 1 .. Len(commits)
  BY DEF Inv, TypeOK, FactsOK, Commits
<1>2. commits' \in Seq(Commit) /\ \A i \in Commits : commits'[i] = commits[i]
  BY CommitPreserves
<1> DEFINE new == [parent |-> k, tree |-> content,
                   anc |-> commits[k].anc \cup {Len(commits) + 1}]
<1>3. /\ commits' = Append(commits, new)
      /\ new.anc = commits[k].anc \cup {Len(commits) + 1} /\ new.parent = k
  OBVIOUS
<1> HIDE DEF new
<1>4. Len(commits') = Len(commits) + 1 /\ commits'[Len(commits) + 1] = new
  BY <1>1, <1>3
<1>5. Commits' = 1 .. Len(commits) + 1
  BY <1>2, <1>4 DEF Commits
<1> QED BY <1>1, <1>2, <1>3, <1>4, <1>5

(* Capturing an output touches no branch. *)
LEMMA CaptureGrows ==
  ASSUME Inv, Ancestry, NEW k \in Commits, NEW content \in [Files -> Blobs],
         Capture(k, content)
  PROVE  Grows
<1>1. UNCHANGED refs
  BY DEF Capture
<1>2. /\ Commits \subseteq Commits'
      /\ \A i \in Commits : commits'[i] = commits[i]
      /\ \A i \in Commits' \ Commits :
           \E j \in Commits : commits'[i].anc = commits[j].anc \cup {i}
  <2>1. commits' = Append(commits,
          [parent |-> k, tree |-> content, anc |-> commits[k].anc \cup {Len(commits) + 1}])
    BY DEF Capture
  <2>2. /\ Commits \subseteq Commits'
        /\ \A i \in Commits : commits'[i] = commits[i]
        /\ Commits' \ Commits = {Len(commits) + 1}
        /\ commits'[Len(commits) + 1].anc = commits[k].anc \cup {Len(commits) + 1}
    BY <2>1, NewCommitGrows
  <2> QED BY <2>2
<1> QED BY <1>1, <1>2, StandingBranchesGrow

(* The owner's commit contains what its branch named. *)
LEMMA CommitBranchGrows ==
  ASSUME Inv, Ancestry, NEW b \in Branches, NEW content \in [Files -> Blobs],
         CommitBranch(b, content)
  PROVE  Grows
<1>1. \A x \in Branches : refs[x] \in Commits
  BY DEF Inv, Closed, ProjectIsClosed
<1>2. /\ Commits \subseteq Commits'
      /\ \A i \in Commits : commits'[i] = commits[i]
      /\ Commits' \ Commits = {Len(commits) + 1}
      /\ commits'[Len(commits) + 1].anc = commits[refs[b]].anc \cup {Len(commits) + 1}
  BY <1>1, NewCommitGrows DEF CommitBranch
<1>3. refs' = [refs EXCEPT ![b] = Len(commits) + 1] /\ refs \in [Branches -> Nat]
  BY DEF CommitBranch, Inv, TypeOK, FactsOK
<1>4. \A x \in Branches : refs[x] \in commits'[refs'[x]].anc
  BY <1>1, <1>2, <1>3 DEF Ancestry, IsAncestor
<1>5. \A i \in Commits' \ Commits :
        \E j \in Commits : commits'[i].anc = commits[j].anc \cup {i}
  BY <1>1, <1>2
<1> QED BY <1>2, <1>4, <1>5 DEF Grows

(* A fast-forward moves the branch to a commit that contains its old one. *)
LEMMA FastForwardGrows ==
  ASSUME Inv, Ancestry, NEW c \in Cands, PublishFastForward(c)
  PROVE  Grows
<1>1. /\ refs[cand[c].target] \in commits[cand[c].artifact].anc
      /\ refs' = [refs EXCEPT ![cand[c].target] = cand[c].artifact]
      /\ UNCHANGED commits
  BY DEF PublishFastForward, CanFastForward, FastForward, IsAncestor
<1>2. refs \in [Branches -> Nat] /\ \A x \in Branches : refs[x] \in Commits
  BY DEF Inv, TypeOK, FactsOK, Closed, ProjectIsClosed
<1>3. \A x \in Branches : refs[x] \in commits[refs'[x]].anc
  BY <1>1, <1>2 DEF Ancestry, IsAncestor
<1> QED BY <1>1, <1>3 DEF Grows, IsAncestor, Commits

(* A completion's commit is the owner's, of the branch checked out. *)
LEMMA CompleteCaptureGrows ==
  ASSUME Inv, Ancestry, CompleteCapture
  PROVE  /\ Grows
         /\ HeadCommit' = Len(commits) + 1
         /\ commits'[HeadCommit'].anc = commits[HeadCommit].anc \cup {Len(commits) + 1}
<1> PICK content : content = [f \in Files |-> IF f \in completing.outputs THEN tree[f]
                                              ELSE commits[HeadCommit].tree[f]]
  OBVIOUS
<1>1. CommitBranch(Main, content)
  BY DEF CompleteCapture
<1>2. content \in [Files -> Blobs]
  <2>1. commits[HeadCommit] \in Commit /\ tree \in [Files -> Blobs]
    BY HeadExists DEF Inv, TypeOK, FactsOK, Commits
  <2> QED BY <2>1 DEF Commit
<1>3. PICK h \in Commits : h = HeadCommit
  BY HeadExists
<1>4. commits' = Append(commits,
        [parent |-> h, tree |-> content, anc |-> commits[h].anc \cup {Len(commits) + 1}])
  BY <1>1, <1>3 DEF CommitBranch, HeadCommit
<1>5. commits'[Len(commits) + 1].anc = commits[h].anc \cup {Len(commits) + 1}
  BY <1>2, <1>4, NewCommitGrows
<1>6. HeadCommit' = Len(commits) + 1
  BY <1>1, IdAssumption DEF CommitBranch, HeadCommit, Inv, TypeOK, FactsOK
<1>7. Grows
  BY <1>1, <1>2, IdAssumption, CommitBranchGrows
<1> QED BY <1>3, <1>5, <1>6, <1>7

(* Every step lets the history grow. *)
LEMMA StepGrows ==
  ASSUME Inv, Ancestry, [Next]_vars
  PROVE  Grows
<1>1. ASSUME UNCHANGED <<commits, refs>> PROVE Grows
  BY <1>1, StandingBranchesGrow DEF Commits
<1>2. CASE GraphStep \/ OwnerStep
  BY <1>1, <1>2, CommitBranchGrows DEF GraphStep, OwnerStep, Add, AddVerification,
     AddNode, Link, Edit, Fail, ObserveContext, Register, EditTree, projectVars, storeVars
<1>3. ASSUME NEW w \in Workers, WorkerStep(w) PROVE Grows
  <2>1. ASSUME NEW content \in [Files -> Blobs], Submitting(w),
               Capture(snap[w].revision, content)
        PROVE  Grows
    <3>1. snap[w].revision \in Commits
      BY <2>1, FrozenIsThere DEF Submitting
    <3> QED BY <2>1, <3>1, CaptureGrows
  <2> QED BY <1>1, <1>3, <2>1 DEF WorkerStep, SnapshotCheck, SnapshotPin, SnapshotFreeze,
     Drop, SubmitFailed, SubmitDone, SubmitCandidate, SubmitVerdict,
     SubmitAbandoned, factVars, projectVars
<1>4. ASSUME NEW c \in Cands, PublishStep(c) PROVE Grows
  BY <1>1, <1>4, FastForwardGrows DEF PublishStep, PublishCheck, PublishGiveUp, factVars,
     projectVars
<1>5. CASE CompletionStep
  BY <1>1, <1>5, CompleteCaptureGrows DEF CompletionStep, CompleteFreeze, CompleteRecord,
     CompleteFail, factVars, projectVars
<1>6. CASE UNCHANGED vars
  BY <1>1, <1>6 DEF vars, factVars, projectVars
<1> QED BY <1>2, <1>3, <1>4, <1>5, <1>6 DEF Next

(* A history that grows stays one. *)
LEMMA AncestryStays == ASSUME Inv, Ancestry, Grows, Inv' PROVE Ancestry'
<1>1. /\ Commits = 1 .. Len(commits) /\ Commits' = 1 .. Len(commits')
      /\ Len(commits) \in Nat /\ Len(commits') \in Nat
      /\ \A k \in Commits : commits[k].anc \subseteq Commits
  BY DEF Inv, TypeOK, FactsOK, Commits, Closed, ProjectIsClosed
<1>2. ASSUME NEW k \in Commits', NEW j \in commits'[k].anc
      PROVE  j <= k /\ commits'[j].anc \subseteq commits'[k].anc
  <2>1. CASE k \in Commits
    BY <1>1, <1>2, <2>1 DEF Grows, Ancestry
  <2>2. CASE k \notin Commits
    <3>1. PICK i \in Commits : commits'[k].anc = commits[i].anc \cup {k}
      BY <2>2 DEF Grows
    <3>2. i <= k
      BY <1>1, <2>2, <3>1
    <3>3. CASE j = k
      BY <1>1, <3>3
    <3>4. CASE j # k
      <4>1. j \in commits[i].anc /\ j \in Commits
        BY <1>1, <1>2, <3>1, <3>4
      <4>2. j <= i /\ commits[j].anc \subseteq commits[i].anc /\ commits'[j] = commits[j]
        BY <4>1 DEF Ancestry, Grows
      <4> QED BY <1>1, <3>1, <3>2, <4>1, <4>2
    <3> QED BY <3>3, <3>4
  <2> QED BY <2>1, <2>2
<1>3. ASSUME NEW k \in Commits' PROVE k \in commits'[k].anc
  BY DEF Grows, Ancestry, IsAncestor
<1> QED BY <1>2, <1>3 DEF Ancestry, IsAncestor

(* The commit a completion made is one of the branch, on what it froze,     *)
(* however the branch has moved since; its context is that of its revision.  *)
CompletionFollows ==
  completing # None =>
    /\ IsAncestor(completing.revision, HeadCommit)
    /\ \A p \in completing.context : commits[completing.revision].tree[p.path] = p.blob
    /\ completing.output # None =>
         /\ IsAncestor(completing.output, HeadCommit)
         /\ IsAncestor(completing.revision, completing.output)
         /\ completing.revision # completing.output

HistoryInv == Ancestry /\ CompletionFollows

(* What the branch checked out contains, it goes on containing. *)
LEMMA FollowingStays ==
  ASSUME Inv, Inv', HistoryInv, Grows, Ancestry', completing' \in {completing, None}
  PROVE  CompletionFollows'
<1> SUFFICES ASSUME completing # None, completing' = completing PROVE CompletionFollows'
  BY DEF CompletionFollows
<1>1. HeadCommit \in Commits /\ Main \in Branches
  BY HeadExists, IdAssumption
<1>2. completing.revision \in Commits /\ completing.output \in Commits \cup {None}
  BY CompletionIsThere
<1>3. /\ HeadCommit \in commits'[HeadCommit'].anc
      /\ commits'[HeadCommit] = commits[HeadCommit]
  BY <1>1 DEF Grows, HeadCommit
<1>4. HeadCommit' \in Commits'
  BY <1>1 DEF Inv, Closed, ProjectIsClosed, HeadCommit
<1>5. commits[HeadCommit].anc \subseteq commits'[HeadCommit'].anc
  BY <1>3, <1>4 DEF Ancestry
<1> QED BY <1>2, <1>5 DEF HistoryInv, CompletionFollows, IsAncestor, Grows

(* The commits stay a history, and completions follow it. *)
LEMMA HistoryStays == ASSUME Inv, HistoryInv, [Next]_vars, Inv' PROVE HistoryInv'
<1>1. Ancestry /\ CompletionFollows
  BY DEF HistoryInv
<1>2. Grows
  BY <1>1, StepGrows
<1>3. Ancestry'
  BY <1>1, <1>2, AncestryStays
<1>4. ASSUME completing' \in {completing, None} PROVE CompletionFollows'
  BY <1>2, <1>3, <1>4, FollowingStays
<1>5. ASSUME CompletionStep PROVE CompletionFollows'
  <2>1. ASSUME NEW n \in Direct, NEW outputs \in SUBSET Files, NEW paths \in SUBSET Files,
               CompleteFreeze(n, outputs, paths)
        PROVE  CompletionFollows'
    <3>1. /\ completing'.revision = HeadCommit /\ completing'.output = None
          /\ completing'.context = {[path |-> f, blob |-> commits[HeadCommit].tree[f]] : f \in paths}
      BY <2>1 DEF CompleteFreeze, ContextAt
    <3>2. UNCHANGED <<commits, refs>> /\ IsAncestor(HeadCommit, HeadCommit)
      BY <1>1, <2>1, HeadExists DEF CompleteFreeze, factVars, projectVars, Ancestry
    <3> QED BY <3>1, <3>2 DEF CompletionFollows, IsAncestor, HeadCommit
  <2>2. ASSUME CompleteCapture PROVE CompletionFollows'
    <3>1. /\ HeadCommit' = Len(commits) + 1
          /\ commits'[HeadCommit'].anc = commits[HeadCommit].anc \cup {Len(commits) + 1}
      BY <1>1, <2>2, CompleteCaptureGrows
    <3>2. completing # None /\ completing' = [completing EXCEPT !.output = Len(commits) + 1]
      BY <2>2 DEF CompleteCapture
    <3>3. completing \in Completion /\ completing.revision \in Commits
      BY <3>2, CompletionIsThere DEF Inv, TypeOK
    <3>4. /\ completing'.revision = completing.revision
          /\ completing'.output = Len(commits) + 1
          /\ completing'.context = completing.context
      BY <3>2, <3>3 DEF Completion
    <3>5. completing.revision # Len(commits) + 1
      BY <3>3 DEF Commits, Inv, TypeOK, FactsOK
    <3>6. /\ completing.revision \in commits[HeadCommit].anc
          /\ \A x \in completing.context : commits[completing.revision].tree[x.path] = x.blob
          /\ commits'[completing.revision] = commits[completing.revision]
      BY <1>1, <1>2, <3>2, <3>3 DEF CompletionFollows, IsAncestor, Grows
    <3> QED BY <3>1, <3>4, <3>5, <3>6 DEF CompletionFollows, IsAncestor
  <2> QED BY <1>4, <1>5, <2>1, <2>2 DEF CompletionStep, CompleteRecord, CompleteFail
<1>6. ASSUME ~CompletionStep PROVE CompletionFollows'
  <2>1. UNCHANGED completing
    BY <1>6 DEF Next, processVars, completionVars, WorkerStep, SnapshotCheck, SnapshotPin,
       SnapshotFreeze, Drop, SubmitFailed, SubmitDone, SubmitCandidate, SubmitVerdict,
       SubmitAbandoned, PublishStep, PublishCheck, PublishFastForward, PublishGiveUp, vars
  <2> QED BY <1>4, <2>1
<1> QED BY <1>3, <1>5, <1>6 DEF HistoryInv

(* What a completion committed is what is checked out when it is recorded:  *)
(* the branch has gone on from what the completion froze, so the checks can  *)
(* only have found the commit itself there.                                  *)
LEMMA CompletionIsCheckedOut ==
  ASSUME Inv, HistoryInv, completing # None, completing.output # None,
         ~Conflict(completing, "done", completing.output, Project)
  PROVE  HeadCommit = completing.output
<1> DEFINE revision == completing.revision
           output == completing.output
<1>1. HeadCommit \in {revision, output}
  BY SnapshotIsCurrent DEF Project
<1>2. revision \in Commits /\ output \in Commits /\ revision # output
  BY CompletionIsThere DEF HistoryInv, CompletionFollows
<1>3. /\ output \in commits[HeadCommit].anc /\ revision \in commits[output].anc
      /\ HeadCommit \in Commits
  BY HeadExists DEF HistoryInv, CompletionFollows, IsAncestor
<1>4. output <= HeadCommit /\ revision <= output
  BY <1>2, <1>3 DEF HistoryInv, Ancestry
<1>5. revision \in Nat /\ output \in Nat
  BY <1>2, CompletionIsThere DEF Commits, Inv, TypeOK, FactsOK
<1> QED BY <1>1, <1>2, <1>4, <1>5

(* The project's commits are a history at all times, and a completion under *)
(* way, frozen at one commit and captured at another, is part of it however  *)
(* the branches move in between (complete, commit_paths).                    *)
THEOREM HistoryIsInvariant == Spec => []HistoryInv
<1>1. Init => HistoryInv
  <2> SUFFICES ASSUME Init PROVE HistoryInv
    OBVIOUS
  <2>1. PICK b \in Blobs :
          commits = <<[parent |-> 1, anc |-> {1}, tree |-> [f \in Files |-> b]]>>
    BY DEF Init, InitFacts
  <2>2. Commits = {1} /\ commits[1].anc = {1}
    BY <2>1 DEF Commits
  <2> QED BY <2>2 DEF HistoryInv, Ancestry, CompletionFollows, IsAncestor, Init
<1>2. Inv /\ HistoryInv /\ [Next]_vars /\ Inv' => HistoryInv'
  BY HistoryStays
<1> QED BY <1>1, <1>2, InvIsInvariant, PTL DEF Spec

(* No branch ever loses a commit, although publishers check and swap at     *)
(* different times and the owner commits in between (publish_fast_forward). *)
THEOREM BranchesNeverShrink == Spec => BranchesOnlyGrow
<1>1. Inv /\ HistoryInv /\ [Next]_vars =>
        [\A b \in Branches : refs[b] \in commits'[refs'[b]].anc]_vars
  BY StepGrows DEF Grows, IsAncestor, HistoryInv
<1> QED BY <1>1, HistoryIsInvariant, InvIsInvariant, PTL DEF Spec, BranchesOnlyGrow

=============================================================================
