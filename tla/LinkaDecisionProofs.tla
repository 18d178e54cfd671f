------------------------- MODULE LinkaDecisionProofs -------------------------
(***************************************************************************)
(* What decisions and publications promise, for every instance of Linka:   *)
(* a recorded verdict is the decision its candidate carries, no branch gets *)
(* work that was done aside and nobody accepted, and no completion is built *)
(* on one that was interrupted.                                             *)
(***************************************************************************)
EXTENDS LinkaProofs

-----------------------------------------------------------------------------
(* Verdicts. *)

(* Backing is VerdictsAreBacked, over the results instead of the outcomes. *)
Decides(v) == result[v] # None /\ result[v].outcome \in {"accepted", "rejected"}

Backed(v) ==
  /\ cand[defn[v].verifies].status = result[v].outcome
  /\ cand[defn[v].verifies].verification = v
  /\ ExactPin(defn[v].verifies, result[v])

Backing == \A v \in Reviews : Decides(v) => Backed(v)

(* The invariant says what is promised. *)
LEMMA BackingIsTheProperty == ASSUME Backing PROVE VerdictsAreBacked
<1> SUFFICES ASSUME NEW v \in Reviews, Outcome(v) \in {"accepted", "rejected"}
             PROVE  Backed(v) /\ Outcome(v) = result[v].outcome
  BY DEF VerdictsAreBacked, Backed
<1>1. None # "accepted" /\ None # "rejected"
  BY NoneAssumption DEF Outcomes, Verdicts
<1>2. result[v] # None
  BY <1>1 DEF Outcome
<1>3. Outcome(v) = result[v].outcome
  BY <1>2 DEF Outcome
<1> QED BY <1>2, <1>3 DEF Backing, Decides

(* A review that decides exists, and so does its candidate. *)
LEMMA DecidingIsClosed ==
  ASSUME Inv, NEW v \in Reviews, Decides(v)
  PROVE  v \in Existing /\ defn[v].verifies \in Registered
<1>1. v \in Recorded
  BY DEF Decides, Recorded, Nodes
<1> QED BY <1>1 DEF Inv, Closed, GraphIsClosed

(* What backs a verdict stays while definitions keep what they verify,      *)
(* candidates stay, and reviews get no result but one that decides nothing. *)
LEMMA BackingStays ==
  ASSUME Inv, Backing,
         \A v \in Reviews :
           result'[v] = result[v] \/ ~(result'[v].outcome \in {"accepted", "rejected"}),
         \A v \in Existing : defn'[v].verifies = defn[v].verifies,
         \A c \in Registered : cand'[c] = cand[c]
  PROVE  Backing'
<1> SUFFICES ASSUME NEW v \in Reviews, Decides(v)'
             PROVE  Backed(v)'
  BY DEF Backing
<1>1. result'[v] = result[v] /\ Decides(v)
  BY DEF Decides
<1>2. v \in Existing /\ defn[v].verifies \in Registered
  BY <1>1, DecidingIsClosed
<1>3. defn'[v].verifies = defn[v].verifies /\ cand'[defn[v].verifies] = cand[defn[v].verifies]
  BY <1>2
<1>4. Backed(v)
  BY <1>1 DEF Backing
<1> QED BY <1>1, <1>3, <1>4 DEF Backed, ExactPin

(* A result of a node that is no review touches no verdict. *)
LEMMA WorkKeepsReviews ==
  ASSUME Inv, NEW n \in Work, NEW r, Record(n, r)
  PROVE  \A v \in Reviews : result'[v] = result[v]
<1> SUFFICES ASSUME NEW v \in Reviews PROVE result'[v] = result[v]
  OBVIOUS
<1>1. v # n /\ v \in Nodes
  BY IdAssumption DEF Nodes
<1>2. result' = [result EXCEPT ![n] = r] /\ result \in [Nodes -> Result \cup {None}]
  BY DEF Record, Inv, TypeOK, FactsOK
<1> QED BY <1>1, <1>2

(* No operation decides: those under the lock, and the owner's. *)
LEMMA OperationKeepsBacking ==
  ASSUME Inv, Backing, GraphStep \/ OwnerStep
  PROVE  Backing'
<1>0. defn \in [Nodes -> Definition \cup {None}] /\ \A v \in Existing : defn[v] \in Definition
  BY DEF Existing, Inv, TypeOK, FactsOK
<1>1. ASSUME UNCHANGED <<defn, result, cand>> PROVE Backing'
  BY <1>1, BackingStays
<1>2. ASSUME NEW n, NEW dep, NEW der, NEW verifies, NEW desc,
             AddNode(n, dep, der, verifies, desc)
      PROVE  Backing'
  <2>1. \A v \in Existing : defn'[v].verifies = defn[v].verifies
    BY <1>0, <1>2 DEF AddNode, Existing
  <2> QED BY <1>2, <2>1, BackingStays DEF AddNode
<1>3. ASSUME NEW from, NEW to, NEW kind, Link(from, to, kind) PROVE Backing'
  <2>1. from \in Existing /\ UNCHANGED <<result, cand>>
    BY <1>3 DEF Link
  <2>2. CASE defn' = [defn EXCEPT ![from].dep = defn[from].dep \cup {to}]
    <3>1. \A v \in Existing : defn'[v].verifies = defn[v].verifies
      BY <1>0, <2>1, <2>2 DEF Existing, Definition
    <3> QED BY <2>1, <3>1, BackingStays
  <2>3. CASE defn' = [defn EXCEPT ![from].der = defn[from].der \cup {to}]
    <3>1. \A v \in Existing : defn'[v].verifies = defn[v].verifies
      BY <1>0, <2>1, <2>3 DEF Existing, Definition
    <3> QED BY <2>1, <3>1, BackingStays
  <2> QED BY <1>3, <2>2, <2>3 DEF Link
<1>4. ASSUME NEW n, NEW desc, Edit(n, desc) PROVE Backing'
  <2>1. \A v \in Existing : defn'[v].verifies = defn[v].verifies
    BY <1>0, <1>4 DEF Edit, Existing, Definition
  <2> QED BY <1>4, <2>1, BackingStays DEF Edit
<1>5. ASSUME NEW n \in Work, Fail(n) PROVE Backing'
  <2>1. UNCHANGED <<defn, cand>> /\ \A v \in Reviews : result'[v] = result[v]
    BY <1>5, WorkKeepsReviews DEF Fail
  <2> QED BY <2>1, BackingStays
<1>6. ASSUME NEW c \in Cands, NEW n \in Work, NEW b \in Branches, Register(c, n, b)
      PROVE  Backing'
  <2>1. \A x \in Registered : cand'[x] = cand[x]
    BY <1>6 DEF Register, Registered, Inv, TypeOK, FactsOK
  <2> QED BY <1>6, <2>1, BackingStays DEF Register
<1> QED
  BY <1>1, <1>2, <1>3, <1>4, <1>5, <1>6 DEF GraphStep, OwnerStep, Add, AddVerification,
     ObserveContext, EditTree, CommitBranch, storeVars

(* A verdict on a pending candidate is backed by the decision it makes, and *)
(* unbacks no other: a verdict on that candidate would have decided it.     *)
LEMMA VerdictIsBacked ==
  ASSUME Inv, Backing, NEW w \in Workers, NEW verdict \in Verdicts, SubmitVerdict(w, verdict)
  PROVE  Backing'
<1> DEFINE n == snap[w].node
           c == defn[n].verifies
           r == ResultOf(snap[w], verdict, None)
           decided == DecidedState(c, n, verdict)
<1>1. /\ Frozen(w) /\ n \in Reviews /\ verdict \in {"accepted", "rejected"}
      /\ cand[c].status = "pending"
      /\ ExactPin(c, snap[w]) /\ Record(n, r)
      /\ cand' = [cand EXCEPT ![c] = decided]
      /\ UNCHANGED defn
  BY DEF SubmitVerdict, Submitting
<1>2. c \in Registered
  BY <1>1, FrozenIsThere DEF Inv, Closed, GraphIsClosed
<1>3. c \in Cands /\ cand[c] \in Candidate
  BY <1>2 DEF Registered, Inv, TypeOK, FactsOK
<1>4. r.outcome = verdict /\ r.deps = snap[w].deps /\ r.lineage = snap[w].lineage
  BY DEF ResultOf, NewResult
<1>5. /\ decided.status = verdict /\ decided.verification = n
      /\ decided.node = cand[c].node /\ decided.ver = cand[c].ver
      /\ decided.artifact = cand[c].artifact
  BY <1>3 DEF DecidedState, Candidate
<1>6. ExactPin(c, r)
  <2> HIDE DEF r, c
  <2> QED BY <1>1, <1>4 DEF ExactPin
<1>7. n \in Nodes
  BY <1>1 DEF Nodes
<1> HIDE DEF r, decided, c, n
<1>8. /\ result'[n] = r /\ cand'[c] = decided
      /\ \A v \in Nodes \ {n} : result'[v] = result[v]
      /\ \A x \in Cands \ {c} : cand'[x] = cand[x]
  BY <1>1, <1>3, <1>7 DEF Record, Inv, TypeOK, FactsOK
<1> SUFFICES ASSUME NEW v \in Reviews, Decides(v)'
             PROVE  Backed(v)'
  BY DEF Backing
<1>9. CASE v = n
  <2>1. defn'[v].verifies = c
    BY <1>1, <1>9 DEF c
  <2>2. \E p \in r.deps \cup r.lineage : /\ p.id = decided.node
                                         /\ p.ver = decided.ver
                                         /\ p.output = decided.artifact
    BY <1>5, <1>6 DEF ExactPin
  <2> QED BY <1>4, <1>5, <1>8, <1>9, <2>1, <2>2 DEF Backed, ExactPin
<1>10. CASE v # n
  <2>1. v \in Nodes
    BY DEF Nodes
  <2>2. result'[v] = result[v]
    BY <1>8, <1>10, <2>1
  <2>3. Decides(v) /\ Backed(v)
    BY <2>2 DEF Decides, Backing
  <2>4. defn[v].verifies \in Cands
    BY <2>3, DecidingIsClosed DEF Registered
  <2>5. defn[v].verifies # c
    BY <1>1, <2>3 DEF Decides, Backed
  <2>6. cand'[defn[v].verifies] = cand[defn[v].verifies]
    BY <1>8, <2>4, <2>5
  <2> QED BY <1>1, <2>2, <2>3, <2>6 DEF Backed, ExactPin
<1> QED BY <1>9, <1>10

(* The other submissions leave verdicts alone, or abandon a review. *)
LEMMA WorkerKeepsBacking ==
  ASSUME Inv, Backing, NEW w \in Workers, WorkerStep(w)
  PROVE  Backing'
<1>1. ASSUME UNCHANGED <<defn, result, cand>> PROVE Backing'
  BY <1>1, BackingStays
<1>2. ASSUME NEW n \in Work, NEW r, Record(n, r), UNCHANGED defn,
             \A x \in Registered : cand'[x] = cand[x]
      PROVE  Backing'
  <2>1. \A v \in Reviews : result'[v] = result[v]
    BY <1>2, WorkKeepsReviews
  <2> QED BY <1>2, <2>1, BackingStays
<1>3. CASE SubmitAbandoned(w)
  <2> DEFINE n == snap[w].node
             r == ResultOf(snap[w], "abandoned", None)
  <2>1. n \in Reviews /\ Record(n, r) /\ UNCHANGED <<defn, cand>>
    BY <1>3 DEF SubmitAbandoned
  <2>2. r.outcome = "abandoned"
    BY DEF ResultOf, NewResult
  <2> HIDE DEF n, r
  <2>3. ASSUME NEW v \in Reviews
        PROVE  result'[v] = result[v] \/ ~(result'[v].outcome \in {"accepted", "rejected"})
    BY <2>1, <2>2 DEF Record, Inv, TypeOK, FactsOK, Nodes
  <2> QED BY <2>1, <2>3, BackingStays
<1>4. ASSUME NEW content, NEW c \in Cands, NEW b, NEW paths,
             SubmitCandidate(w, content, c, b, paths)
      PROVE  Backing'
  <2> DEFINE r == ResultOf(snap[w], "done", Len(commits) + 1)
             n == snap[w].node
  <2>1. /\ n \in Work /\ Record(n, r) /\ UNCHANGED defn /\ cand[c] = None
        /\ cand' = [cand EXCEPT ![c] = NewCandidate(n, r.ver, r.output, b)]
    BY <1>4 DEF SubmitCandidate
  <2> HIDE DEF n, r
  <2>2. \A x \in Registered : cand'[x] = cand[x]
    BY <2>1 DEF Registered, Inv, TypeOK, FactsOK
  <2> QED BY <1>2, <2>1, <2>2
<1>5. CASE \E at \in Checkouts : SubmitFailed(w, at)
  BY <1>2, <1>5 DEF SubmitFailed
<1>6. CASE SubmitDone(w)
  BY <1>2, <1>6 DEF SubmitDone
<1>7. CASE \/ \E n \in Nodes : SnapshotCheck(w, n)
           \/ SnapshotPin(w)
           \/ \E paths \in SUBSET Files : SnapshotFreeze(w, paths)
           \/ Drop(w)
  BY <1>1, <1>7 DEF SnapshotCheck, SnapshotPin, SnapshotFreeze, Drop, factVars, storeVars
<1> QED BY <1>3, <1>4, <1>5, <1>6, <1>7, VerdictIsBacked DEF WorkerStep

(* A completion is of work, and decides nothing. *)
LEMMA CompletionKeepsBacking ==
  ASSUME Inv, Backing, CompletionStep
  PROVE  Backing'
<1>1. ASSUME CompleteRecord PROVE Backing'
  <2>1. completing.node \in Work
    BY <1>1, DirectAssumption DEF CompleteRecord, Inv, TypeOK, Completion
  <2>2. UNCHANGED <<defn, cand>> /\ \A v \in Reviews : result'[v] = result[v]
    BY <1>1, <2>1, WorkKeepsReviews DEF CompleteRecord
  <2> QED BY <2>2, BackingStays
<1>2. ASSUME ~CompleteRecord PROVE UNCHANGED <<defn, result, cand>>
  BY <1>2 DEF CompletionStep, CompleteFreeze, CompleteCapture, CompleteFail, CommitBranch,
     factVars, storeVars
<1> QED BY <1>1, <1>2, BackingStays

(* A recorded verdict is the decision its candidate carries, reached on the *)
(* very result the candidate proposes, however many reviews race            *)
(* (prepare_verification_decision).                                         *)
THEOREM VerdictsStayBacked == Spec => []VerdictsAreBacked
<1>1. Init => Backing
  <2> SUFFICES ASSUME Init, NEW v \in Reviews PROVE ~Decides(v)
    BY DEF Backing
  <2>1. v \in Nodes
    BY DEF Nodes
  <2>2. result[v] = None
    BY <2>1 DEF Init, InitFacts
  <2> QED BY <2>2 DEF Decides
<1>2. Inv /\ Backing /\ [Next]_vars => Backing'
  <2> SUFFICES ASSUME Inv, Backing, [Next]_vars PROVE Backing'
    OBVIOUS
  <2>1. ASSUME UNCHANGED <<defn, result, cand>> PROVE Backing'
    BY <2>1, BackingStays
  <2>2. ASSUME NEW c \in Cands, PublishStep(c) PROVE Backing'
    BY <2>1, <2>2 DEF PublishStep, PublishCheck, PublishFastForward, PublishGiveUp,
       factVars, storeVars
  <2>3. CASE UNCHANGED vars
    BY <2>1, <2>3 DEF vars, factVars, storeVars
  <2> QED BY <2>2, <2>3, OperationKeepsBacking, WorkerKeepsBacking, CompletionKeepsBacking
       DEF Next
<1>3. Backing => VerdictsAreBacked
  BY BackingIsTheProperty
<1> QED BY <1>1, <1>2, <1>3, InvIsInvariant, PTL DEF Spec

-----------------------------------------------------------------------------
(* Publication.  UnacceptedStaysOut is not inductive: it says nothing of an *)
(* output no candidate proposes yet, nor of one that lies under a commit no *)
(* branch names.  KeptOut says it of both, and Distinct that no two results *)
(* and no two candidates share an output, so that accepting one candidate   *)
(* releases nothing another one proposes.  Both speak of outputs produced   *)
(* aside; an output committed in the checkout was recorded as one.           *)
Produced ==
  {k \in Commits \ captured : \/ \E n \in Recorded : result[n].output = k
                              \/ \E c \in Registered : cand[c].artifact = k}

Released(k) ==
  \E c \in Registered : cand[c].artifact = k /\ cand[c].status = "accepted"

KeptOut ==
  /\ \A k \in Produced, b \in Branches : IsAncestor(k, refs[b]) => Released(k)
  /\ \A k \in Produced, i \in Commits : IsAncestor(k, i) => k = i \/ Released(k)

Distinct ==
  /\ \A c, d \in Registered :
       cand[c].artifact = cand[d].artifact => c = d \/ cand[c].artifact \in captured
  /\ \A c \in Registered, n \in Recorded :
       result[n].output = cand[c].artifact =>
         \/ cand[c].node = n /\ cand[c].ver = result[n].ver
         \/ cand[c].artifact \in captured
  /\ \A m, n \in Recorded :
       result[m].output = result[n].output =>
         m = n \/ result[m].output \in captured \cup {None}

CapturesAreRecorded ==
  /\ \A n \in Recorded : result[n].output \in captured => result[n].output \in completed
  /\ \A c \in Registered : cand[c].artifact \in captured => cand[c].artifact \in completed

OutInv == KeptOut /\ Distinct /\ CapturesAreRecorded

(* The invariant says what is promised. *)
LEMMA KeptOutIsTheProperty == ASSUME Inv, OutInv PROVE UnacceptedStaysOut
<1> SUFFICES ASSUME NEW c \in Registered, NEW b \in Branches,
                    IsAncestor(cand[c].artifact, refs[b]), cand[c].artifact \notin completed
             PROVE  cand[c].status = "accepted"
  BY DEF UnacceptedStaysOut
<1>1. cand[c].artifact \in Produced
  BY DEF OutInv, CapturesAreRecorded, Produced, Inv, Closed, ProjectIsClosed
<1> QED BY <1>1 DEF OutInv, KeptOut, Distinct, Released, Produced

(* An output is a commit, and no commit is missing. *)
LEMMA OutputsAreCommits ==
  ASSUME Inv
  PROVE  /\ \A n \in Recorded : result[n].output \in Commits \cup {None}
         /\ \A c \in Registered : cand[c].artifact \in Commits
         /\ Produced \subseteq Commits /\ captured \subseteq Commits
         /\ \A k \in Commits : k \in Nat /\ k # None
         /\ \A b \in Branches : refs[b] \in Commits
         /\ \A k \in Commits : commits[k].anc \subseteq Commits
         /\ Len(commits) + 1 \in Nat \ Commits
<1>1. commits \in Seq(Commit) /\ Len(commits) \in Nat /\ Commits = 1 .. Len(commits)
  BY DEF Inv, TypeOK, FactsOK, Commits
<1>2. None \notin Nat
  BY IdAssumption
<1> QED BY <1>1, <1>2 DEF Produced, Inv, Closed, ProjectIsClosed, SnapshotsAreClosed

(* Steps that move no branch, propose nothing new, take back no acceptance, *)
(* and record no output but one that was committed in the checkout.          *)
Quiet ==
  /\ UNCHANGED <<commits, refs, captured>>
  /\ completed \subseteq completed'
  /\ Registered' = Registered
  /\ \A c \in Registered :
       /\ cand'[c].artifact = cand[c].artifact
       /\ cand'[c].node = cand[c].node
       /\ cand'[c].ver = cand[c].ver
       /\ cand[c].status = "accepted" => cand'[c].status = "accepted"
  /\ \A n \in Recorded' : \/ n \in Recorded /\ result'[n] = result[n]
                          \/ result'[n].output = None
                          \/ result'[n].output \in captured \cap completed'

(* Such a step keeps everything out. *)
LEMMA QuietKeepsOut == ASSUME Inv, OutInv, Quiet PROVE OutInv'
<1>1. Commits' = Commits
  BY DEF Quiet, Commits
<1>2. /\ \A k \in Commits : k # None
      /\ \A c \in Registered : cand[c].artifact # None
      /\ None \notin captured
  BY OutputsAreCommits
<1>3. Produced' \subseteq Produced
  BY <1>1, <1>2 DEF Quiet, Produced
<1>4. \A k : Released(k) => Released(k)'
  BY DEF Quiet, Released
<1>5. KeptOut'
  BY <1>1, <1>3, <1>4 DEF OutInv, KeptOut, Quiet, IsAncestor
<1>6. Distinct'
  BY <1>2 DEF OutInv, Distinct, Quiet
<1>7. CapturesAreRecorded'
  BY <1>2 DEF OutInv, CapturesAreRecorded, Quiet
<1> QED BY <1>5, <1>6, <1>7 DEF OutInv

(* A result without an output, beside a candidate's decision or nothing. *)
LEMMA PlainResultIsQuiet ==
  ASSUME Inv, NEW n \in Nodes, NEW r, Record(n, r), r.output = None,
         UNCHANGED <<cand, commits, refs, captured, completed>>
  PROVE  Quiet
BY DEF Quiet, Record, Recorded, Registered, Inv, TypeOK, FactsOK

(* A new commit, on top of one that a branch names: it contains what the   *)
(* branch contains, all of it released.                                    *)
LEMMA NewCommitKeepsOut ==
  ASSUME Inv, KeptOut, NEW x \in Branches, NEW content \in [Files -> Blobs],
         captured \subseteq captured',
         commits' = Append(commits,
           [parent |-> refs[x], tree |-> content,
            anc |-> commits[refs[x]].anc \cup {Len(commits) + 1}]),
         \A b \in Branches :
           \/ refs'[b] = refs[b]
           \/ refs'[b] = Len(commits) + 1 /\ (Len(commits) + 1 \notin Produced'),
         Produced' \subseteq Produced \cup {Len(commits) + 1},
         \A k : Released(k) => Released(k)'
  PROVE  KeptOut'
<1> PICK new : new = Len(commits) + 1
  OBVIOUS
<1>1. /\ Commits \subseteq Commits'
      /\ \A i \in Commits : commits'[i] = commits[i]
      /\ Commits' \ Commits = {new}
      /\ commits'[new].anc = commits[refs[x]].anc \cup {new}
  BY OutputsAreCommits, NewCommitGrows
<1>2. /\ \A b \in Branches : refs[b] \in Commits
      /\ \A k \in Commits : commits[k].anc \subseteq Commits
      /\ new \notin Commits /\ Produced \subseteq Commits
  BY OutputsAreCommits DEF Produced
<1>3. \A b \in Branches :
        refs'[b] = refs[b] \/ (refs'[b] = new /\ new \notin Produced')
  OBVIOUS
<1>4. Produced' \subseteq Produced \cup {new}
  OBVIOUS
<1>5. ASSUME NEW k \in Produced', NEW i \in Commits', IsAncestor(k, i)'
      PROVE  k = i \/ Released(k)'
  <2>1. CASE i = new
    BY <1>1, <1>2, <1>4, <1>5, <2>1 DEF KeptOut, IsAncestor
  <2>2. CASE i # new
    BY <1>1, <1>2, <1>4, <1>5, <2>2 DEF KeptOut, IsAncestor
  <2> QED BY <2>1, <2>2
<1>6. ASSUME NEW k \in Produced', NEW b \in Branches, IsAncestor(k, refs[b])'
      PROVE  Released(k)'
  <2>1. CASE refs'[b] = refs[b]
    BY <1>1, <1>2, <1>4, <1>6, <2>1 DEF KeptOut, IsAncestor
  <2>2. CASE refs'[b] = new /\ new \notin Produced'
    BY <1>1, <1>2, <1>4, <1>6, <2>2 DEF KeptOut, IsAncestor
  <2> QED BY <1>3, <2>1, <2>2
<1> QED BY <1>5, <1>6 DEF KeptOut

(* A result with an output of its own, on top of the checkout's commit, and *)
(* a candidate for it.                                                      *)
LEMMA NewOutputKeepsOut ==
  ASSUME Inv, OutInv, NEW n \in Nodes, NEW r \in Result, Record(n, r),
         r.output = Len(commits) + 1,
         NEW content \in [Files -> Blobs], Capture(HeadCommit, content),
         UNCHANGED <<captured, completed>>,
         NEW c \in Cands, NEW target \in Branches, cand[c] = None, n \in Work,
         cand' = [cand EXCEPT ![c] = NewCandidate(n, r.ver, r.output, target)]
  PROVE  OutInv'
<1> PICK new : new = Len(commits) + 1
  OBVIOUS
<1>1. /\ Commits' = Commits \cup {new} /\ new \notin Commits /\ new \in Nat /\ new # None
      /\ Produced \subseteq Commits /\ captured \subseteq Commits
      /\ \A m \in Recorded : result[m].output \in Commits \cup {None}
      /\ \A x \in Registered : cand[x].artifact \in Commits
  <2>1. HeadCommit \in Commits
    BY HeadExists
  <2>2. Commits \subseteq Commits' /\ Commits' \ Commits = {Len(commits) + 1}
    BY <2>1, NewCommitGrows DEF Capture
  <2>3. None \notin Nat
    BY IdAssumption
  <2> QED BY <2>2, <2>3, OutputsAreCommits
<1>2. /\ result' = [result EXCEPT ![n] = r] /\ r.output = new /\ r # None
      /\ result \in [Nodes -> Result \cup {None}]
  BY NoneAssumption DEF Record, Inv, TypeOK, FactsOK
<1>3. /\ Recorded' = Recorded \cup {n}
      /\ \A m \in Recorded' \ {n} : m \in Recorded /\ result'[m] = result[m]
      /\ result'[n] = r
  BY <1>2 DEF Recorded
<1>4. /\ Registered' = Registered \cup {c} /\ c \notin Registered
      /\ \A x \in Registered : cand'[x] = cand[x]
      /\ cand'[c].artifact = new /\ cand'[c].node = n /\ cand'[c].ver = r.ver
  <2>1. r.ver \in Nat /\ r.output \in Nat
    BY <1>1, <1>2 DEF Result
  <2>2. /\ Registered' = Registered \cup {c}
        /\ \A x \in Registered : cand'[x] = cand[x]
    BY <2>1, NewCandidatePreserves
  <2>3. cand'[c] = NewCandidate(n, r.ver, r.output, target)
    BY DEF Inv, TypeOK, FactsOK
  <2> QED BY <1>2, <2>2, <2>3 DEF NewCandidate, Registered
<1>5. Produced' \subseteq Produced \cup {new}
  BY <1>1, <1>2, <1>3, <1>4 DEF Produced
<1>6. \A k : Released(k) => Released(k)'
  BY <1>4 DEF Released
<1>7. KeptOut'
  <2>1. Main \in Branches /\ UNCHANGED refs
    BY IdAssumption DEF Capture
  <2> QED BY <1>5, <1>6, <2>1, NewCommitKeepsOut DEF OutInv, Capture, HeadCommit
<1>8. \A x \in Registered', y \in Registered' :
        cand'[x].artifact = cand'[y].artifact => x = y \/ cand'[x].artifact \in captured
  BY <1>1, <1>4 DEF OutInv, Distinct
<1>9. \A x \in Registered', m \in Recorded' :
        result'[m].output = cand'[x].artifact =>
          \/ cand'[x].node = m /\ cand'[x].ver = result'[m].ver
          \/ cand'[x].artifact \in captured
  <2> SUFFICES ASSUME NEW x \in Registered', NEW m \in Recorded',
                      result'[m].output = cand'[x].artifact
               PROVE  \/ cand'[x].node = m /\ cand'[x].ver = result'[m].ver
                      \/ cand'[x].artifact \in captured
    OBVIOUS
  <2>1. CASE m = n
    BY <1>1, <1>2, <1>3, <1>4, <2>1
  <2>2. CASE m # n
    BY <1>1, <1>3, <1>4, <2>2 DEF OutInv, Distinct
  <2> QED BY <2>1, <2>2
<1>10. \A m \in Recorded', k \in Recorded' :
         result'[m].output = result'[k].output =>
           m = k \/ result'[m].output \in captured \cup {None}
  BY <1>1, <1>2, <1>3 DEF OutInv, Distinct
<1>11. CapturesAreRecorded'
  BY <1>1, <1>2, <1>3, <1>4 DEF OutInv, CapturesAreRecorded
<1> QED BY <1>7, <1>8, <1>9, <1>10, <1>11 DEF OutInv, Distinct

(* A candidate registered later, for a result that has none: no other      *)
(* candidate proposes that output.                                         *)
LEMMA RegisterKeepsOut ==
  ASSUME Inv, OutInv, NEW c \in Cands, NEW n \in Work, NEW target \in Branches,
         Register(c, n, target), UNCHANGED <<captured, completed>>
  PROVE  OutInv'
<1>1. /\ n \in Recorded /\ cand[c] = None /\ result[n].output # None
      /\ CandidatesForResult(n) = {} /\ UNCHANGED <<result, commits, refs>>
  BY DEF Register, projectVars
<1>2. result[n].ver \in Nat /\ result[n].output \in Nat
  BY <1>1 DEF Recorded, Inv, TypeOK, FactsOK, Result
<1>3. /\ Registered' = Registered \cup {c}
      /\ \A x \in Registered : x # c /\ cand'[x] = cand[x]
      /\ cand'[c].artifact = result[n].output
      /\ cand'[c].node = n /\ cand'[c].ver = result[n].ver
  <2>1. /\ Registered' = Registered \cup {c}
        /\ \A x \in Registered : cand'[x] = cand[x]
    BY <1>1, <1>2, NewCandidatePreserves DEF Register
  <2>2. cand'[c] = NewCandidate(n, result[n].ver, result[n].output, target)
    BY DEF Register, Inv, TypeOK, FactsOK
  <2> QED BY <1>1, <2>1, <2>2 DEF NewCandidate, Registered
<1>4. \A x \in Registered :
        cand[x].artifact # result[n].output \/ cand[x].artifact \in captured
  BY <1>1 DEF OutInv, Distinct, CandidatesForResult, Recorded
<1>5. Recorded' = Recorded /\ Commits' = Commits
  BY <1>1 DEF Recorded, Commits
<1>6. Produced' \subseteq Produced
  BY <1>1, <1>3, <1>5 DEF Produced
<1>7. \A k : Released(k) => Released(k)'
  BY <1>3 DEF Released
<1>8. KeptOut'
  BY <1>1, <1>5, <1>6, <1>7 DEF OutInv, KeptOut, IsAncestor
<1>9. \A x \in Registered', y \in Registered' :
        cand'[x].artifact = cand'[y].artifact => x = y \/ cand'[x].artifact \in captured
  BY <1>3, <1>4 DEF OutInv, Distinct
<1>10. \A x \in Registered', m \in Recorded' :
         result'[m].output = cand'[x].artifact =>
           \/ cand'[x].node = m /\ cand'[x].ver = result'[m].ver
           \/ cand'[x].artifact \in captured
  BY <1>1, <1>3, <1>5 DEF OutInv, Distinct
<1>11. \A m \in Recorded', k \in Recorded' :
         result'[m].output = result'[k].output =>
           m = k \/ result'[m].output \in captured \cup {None}
  BY <1>1, <1>5 DEF OutInv, Distinct
<1>12. CapturesAreRecorded'
  BY <1>1, <1>3, <1>5 DEF OutInv, CapturesAreRecorded
<1> QED BY <1>8, <1>9, <1>10, <1>11, <1>12 DEF OutInv, Distinct

(* The owner's commit is nobody's output; nor is yet that of a completion.  *)
LEMMA CommitBranchKeepsOut ==
  ASSUME Inv, OutInv, NEW b \in Branches, NEW content \in [Files -> Blobs],
         CommitBranch(b, content),
         captured' \in {captured, captured \cup {Len(commits) + 1}}, UNCHANGED completed
  PROVE  OutInv'
<1> PICK new : new = Len(commits) + 1
  OBVIOUS
<1>1. /\ UNCHANGED <<result, cand>> /\ refs' = [refs EXCEPT ![b] = new]
      /\ refs \in [Branches -> Nat]
  BY DEF CommitBranch, storeVars, Inv, TypeOK, FactsOK
<1>2. Recorded' = Recorded /\ Registered' = Registered
  BY <1>1 DEF Recorded, Registered
<1>3. /\ \A n \in Recorded : result[n].output \in Commits \cup {None}
      /\ \A c \in Registered : cand[c].artifact \in Commits
      /\ new \notin Commits /\ new # None
      /\ refs[b] \in Commits
  <2>1. None \notin Nat /\ new \in Nat
    BY IdAssumption, OutputsAreCommits
  <2> QED BY <2>1, OutputsAreCommits
<1>4. Commits' = Commits \cup {new}
  BY <1>3, NewCommitGrows DEF CommitBranch
<1>5. Produced' \subseteq Produced /\ new \notin Produced'
  BY <1>1, <1>2, <1>3, <1>4 DEF Produced
<1>6. \A k : Released(k) => Released(k)'
  BY <1>1, <1>2 DEF Released
<1>7. \A x \in Branches :
        \/ refs'[x] = refs[x]
        \/ refs'[x] = Len(commits) + 1 /\ (Len(commits) + 1 \notin Produced')
  BY <1>1, <1>5
<1>8. Produced' \subseteq Produced \cup {Len(commits) + 1}
  BY <1>5
<1>9. KeptOut'
  BY <1>6, <1>7, <1>8, NewCommitKeepsOut DEF OutInv, CommitBranch
<1>10. Distinct'
  BY <1>1, <1>2 DEF OutInv, Distinct
<1>11. CapturesAreRecorded'
  BY <1>1, <1>2, <1>3 DEF OutInv, CapturesAreRecorded
<1> QED BY <1>9, <1>10, <1>11 DEF OutInv

(* What is published was accepted, and so was all that lies under it. *)
LEMMA FastForwardKeepsOut ==
  ASSUME Inv, OutInv, NEW c \in Cands, PublishFastForward(c)
  PROVE  OutInv'
<1>1. /\ c \in Registered /\ cand[c].status = "accepted"
      /\ refs' = [refs EXCEPT ![cand[c].target] = cand[c].artifact]
      /\ UNCHANGED <<result, cand, commits>> /\ refs \in [Branches -> Nat]
      /\ UNCHANGED <<captured, completed>>
  BY DEF PublishFastForward, FastForward, storeVars, completionVars, Registered, Inv, TypeOK, FactsOK,
     Closed, PublishersHoldAccepted
<1>2. /\ Recorded' = Recorded /\ Registered' = Registered /\ Commits' = Commits
      /\ Produced' = Produced /\ \A k : Released(k)' <=> Released(k)
  BY <1>1 DEF Recorded, Registered, Commits, Produced, Released
<1>3. cand[c].artifact \in Commits /\ Released(cand[c].artifact)
  BY <1>1 DEF Released, Inv, Closed, ProjectIsClosed
<1>4. ASSUME NEW k \in Produced, NEW b \in Branches, k \in commits[refs'[b]].anc
      PROVE  Released(k)
  <2>1. CASE refs'[b] = refs[b]
    BY <1>4, <2>1 DEF OutInv, KeptOut, IsAncestor
  <2>2. CASE refs'[b] = cand[c].artifact
    BY <1>3, <1>4, <2>2 DEF OutInv, KeptOut, IsAncestor
  <2> QED BY <1>1, <2>1, <2>2
<1>5. KeptOut'
  BY <1>1, <1>2, <1>4 DEF OutInv, KeptOut, IsAncestor
<1>6. Distinct' /\ CapturesAreRecorded'
  BY <1>1, <1>2 DEF OutInv, Distinct, CapturesAreRecorded
<1> QED BY <1>5, <1>6 DEF OutInv

(* A verdict changes neither what a candidate proposes nor for whom, and the *)
(* candidate it decides was pending.                                         *)
LEMMA VerdictIsQuiet ==
  ASSUME Inv, NEW w \in Workers, NEW verdict \in Verdicts, SubmitVerdict(w, verdict)
  PROVE  Quiet
<1> DEFINE n == snap[w].node
           c == defn[n].verifies
           r == ResultOf(snap[w], verdict, None)
           decided == DecidedState(c, n, verdict)
<1>1. /\ Frozen(w) /\ n \in Reviews /\ verdict \in {"accepted", "rejected"}
      /\ cand[c].status = "pending"
      /\ Record(n, r) /\ cand' = [cand EXCEPT ![c] = decided]
      /\ UNCHANGED <<commits, refs, captured, completed>>
  BY DEF SubmitVerdict, Submitting, projectVars, completionVars
<1>2. c \in Registered
  BY <1>1, FrozenIsThere DEF Inv, Closed, GraphIsClosed
<1>3. c \in Cands /\ cand[c] \in Candidate
  BY <1>2 DEF Registered, Inv, TypeOK, FactsOK
<1>4. /\ decided.node = cand[c].node /\ decided.ver = cand[c].ver
      /\ decided.artifact = cand[c].artifact
  BY <1>3 DEF DecidedState, Candidate
<1>5. decided \in Candidate
  BY <1>1, <1>2, DecidedTyped
<1>6. r.output = None
  BY DEF ResultOf, NewResult
<1>7. n \in Nodes
  BY <1>1 DEF Nodes
<1> HIDE DEF r, decided, c, n
<1>8. \A m \in Recorded' : \/ m \in Recorded /\ result'[m] = result[m]
                           \/ result'[m].output = None
  BY <1>1, <1>6, <1>7 DEF Record, Recorded, Inv, TypeOK, FactsOK
<1>9. Registered' = Registered /\ cand'[c] = decided
      /\ \A x \in Registered \ {c} : cand'[x] = cand[x]
  BY <1>1, <1>3, <1>5, NoneAssumption DEF Registered, Inv, TypeOK, FactsOK
<1>10. cand[c].status # "accepted"
  BY <1>1
<1> QED BY <1>1, <1>4, <1>8, <1>9, <1>10 DEF Quiet

(* Steps that leave results, candidates, commits and branches alone. *)
LEMMA StandingIsQuiet ==
  ASSUME UNCHANGED <<result, cand, commits, refs, captured, completed>>
  PROVE  Quiet
BY DEF Quiet, Recorded, Registered

(* Every operation, and every step of the owner, keeps it out. *)
LEMMA OperationKeepsOut ==
  ASSUME Inv, OutInv, GraphStep \/ OwnerStep, UNCHANGED <<captured, completed>>
  PROVE  OutInv'
<1>1. ASSUME NEW n \in Work, Fail(n) PROVE OutInv'
  <2> DEFINE r == NewResult("failed", defn[n], PinNodeList(defn[n].dep),
                            PinNodeList(defn[n].der), {}, HeadCommit, None)
  <2>1. n \in Nodes /\ Record(n, r) /\ UNCHANGED <<cand, commits, refs>>
    BY <1>1 DEF Fail, projectVars, Nodes
  <2>2. r.output = None
    BY DEF NewResult
  <2> HIDE DEF r
  <2> QED BY <2>1, <2>2, PlainResultIsQuiet, QuietKeepsOut
<1>2. CASE UNCHANGED <<result, cand, commits, refs>>
  BY <1>2, StandingIsQuiet, QuietKeepsOut
<1> QED
  BY <1>1, <1>2, RegisterKeepsOut, CommitBranchKeepsOut DEF GraphStep, OwnerStep,
     Add, AddVerification, AddNode, Link, Edit, ObserveContext, EditTree, projectVars, storeVars

(* So does every step of a worker. *)
LEMMA WorkerKeepsOut ==
  ASSUME Inv, OutInv, NEW w \in Workers, WorkerStep(w)
  PROVE  OutInv'
<1>0. UNCHANGED <<captured, completed>>
  BY DEF WorkerStep, SnapshotCheck, SnapshotPin, SnapshotFreeze, Drop, SubmitFailed,
     SubmitDone, SubmitAbandoned, SubmitVerdict, SubmitCandidate, completionVars
<1>1. CASE UNCHANGED factVars
  BY <1>0, <1>1, StandingIsQuiet, QuietKeepsOut DEF factVars, storeVars, projectVars
<1>2. ASSUME NEW outcome, Submitting(w),
             Record(snap[w].node, ResultOf(snap[w], outcome, None)),
             UNCHANGED <<cand, commits, refs>>
      PROVE  OutInv'
  <2>1. snap[w].node \in Nodes
    BY <1>2, FrozenIsThere DEF Submitting, Existing
  <2>2. ResultOf(snap[w], outcome, None).output = None
    BY DEF ResultOf, NewResult
  <2> QED BY <1>0, <1>2, <2>1, <2>2, PlainResultIsQuiet, QuietKeepsOut
<1>3. CASE \/ \E at \in Checkouts : SubmitFailed(w, at)
           \/ SubmitDone(w)
           \/ SubmitAbandoned(w)
  BY <1>2, <1>3 DEF SubmitFailed, SubmitDone, SubmitAbandoned, projectVars
<1>4. ASSUME NEW content \in [Files -> Blobs], NEW c \in Cands, NEW b \in Branches,
             NEW paths \in SUBSET Files, SubmitCandidate(w, content, c, b, paths)
      PROVE  OutInv'
  <2> PICK r : r = ResultOf(snap[w], "done", Len(commits) + 1)
    OBVIOUS
  <2>1. /\ Submitting(w) /\ snap[w].node \in Work /\ cand[c] = None
        /\ Record(snap[w].node, r)
        /\ ~Conflict(snap[w], "done", Len(commits) + 1, Project)
        /\ Capture(snap[w].revision, content)
        /\ cand' = [cand EXCEPT ![c] = NewCandidate(snap[w].node, r.ver, r.output, b)]
    BY <1>4 DEF SubmitCandidate, ResultOf, NewResult
  <2>2. "done" \in Outcomes /\ Len(commits) + 1 \in Nat \ Commits
    BY OutputsAreCommits DEF Outcomes, WorkOutcomes
  <2>3. /\ snap[w].node \in Existing /\ snap[w].node \in Nodes
        /\ snap[w].revision \in Nat /\ snap[w].context \in SUBSET ContextPin
    BY <2>1, FrozenIsThere DEF Submitting, Existing
  <2>4. r \in Result /\ r.output = Len(commits) + 1
    BY <2>1, <2>2, <2>3, ResultOfTyped
  <2>5. snap[w].revision = HeadCommit
    BY <2>1, <2>2, HeadExists, SnapshotIsCurrent DEF Project
  <2> QED BY <1>0, <2>1, <2>3, <2>4, <2>5, NewOutputKeepsOut
<1>5. ASSUME NEW verdict \in Verdicts, SubmitVerdict(w, verdict) PROVE OutInv'
  BY <1>5, VerdictIsQuiet, QuietKeepsOut
<1> QED BY <1>1, <1>3, <1>4, <1>5 DEF WorkerStep, SnapshotCheck, SnapshotPin,
     SnapshotFreeze, Drop

(* A completion commits in the checkout, and records what it committed. *)
LEMMA CompletionKeepsOut ==
  ASSUME Inv, OutInv, CompletionStep
  PROVE  OutInv'
<1>1. ASSUME CompleteCapture PROVE OutInv'
  <2> PICK content : content = [f \in Files |-> IF f \in completing.outputs THEN tree[f]
                                                ELSE commits[HeadCommit].tree[f]]
    OBVIOUS
  <2>1. /\ CommitBranch(Main, content) /\ UNCHANGED completed
        /\ captured' = captured \cup {Len(commits) + 1}
    BY <1>1 DEF CompleteCapture
  <2>2. content \in [Files -> Blobs]
    <3>1. commits[HeadCommit] \in Commit /\ tree \in [Files -> Blobs]
      BY HeadExists DEF Inv, TypeOK, FactsOK, Commits
    <3> QED BY <3>1 DEF Commit
  <2> QED BY <2>1, <2>2, IdAssumption, CommitBranchKeepsOut
<1>2. ASSUME CompleteRecord PROVE OutInv'
  <2> PICK n : n = completing.node
    OBVIOUS
  <2> PICK r : r = ResultOf(completing, "done", completing.output)
    OBVIOUS
  <2>1. /\ completing # None /\ Record(n, r)
        /\ completed' = completed \cup ({completing.output} \ {None})
        /\ UNCHANGED <<cand, commits, refs, captured>>
    BY <1>2 DEF CompleteRecord, projectVars
  <2>2. r.output = completing.output
    BY DEF ResultOf, NewResult
  <2>3. n \in Nodes /\ completing.output \in captured \cup {None}
    BY <2>1, CompletionIsThere DEF Existing, Inv, Closed, SnapshotsAreClosed
  <2>4. r.output = None \/ r.output \in captured \cap completed'
    BY <2>1, <2>2, <2>3
  <2>5. \A m \in Recorded' : \/ m \in Recorded /\ result'[m] = result[m]
                             \/ result'[m] = r
    BY <2>1, <2>3 DEF Record, Recorded, Inv, TypeOK, FactsOK
  <2>6. Quiet
    BY <2>1, <2>4, <2>5 DEF Quiet, Registered
  <2> QED BY <2>6, QuietKeepsOut
<1>3. ASSUME ~CompleteCapture, ~CompleteRecord PROVE OutInv'
  <2>1. UNCHANGED <<result, cand, commits, refs, captured, completed>>
    BY <1>3 DEF CompletionStep, CompleteFreeze, CompleteFail, factVars, storeVars, projectVars
  <2> QED BY <2>1, StandingIsQuiet, QuietKeepsOut
<1> QED BY <1>1, <1>2, <1>3

(* Everything produced aside is kept out until it is accepted. *)
THEOREM WorkIsKeptOut == Spec => []OutInv
<1>1. Init => OutInv
  <2> SUFFICES ASSUME Init PROVE OutInv
    OBVIOUS
  <2>1. Recorded = {} /\ Registered = {}
    BY DEF Init, InitFacts, Recorded, Registered
  <2> QED BY <2>1 DEF OutInv, KeptOut, Distinct, CapturesAreRecorded, Produced
<1>2. Inv /\ OutInv /\ [Next]_vars => OutInv'
  <2> SUFFICES ASSUME Inv, OutInv, [Next]_vars PROVE OutInv'
    OBVIOUS
  <2>1. ASSUME NEW c \in Cands, PublishCheck(c) \/ PublishGiveUp(c) PROVE OutInv'
    BY <2>1, StandingIsQuiet, QuietKeepsOut DEF PublishCheck, PublishGiveUp, factVars,
       storeVars, projectVars, completionVars
  <2>2. CASE UNCHANGED vars
    BY <2>2, StandingIsQuiet, QuietKeepsOut DEF vars, factVars, storeVars, projectVars,
       processVars, completionVars
  <2>3. CASE (GraphStep \/ OwnerStep) /\ UNCHANGED processVars
    BY <2>3, OperationKeepsOut DEF processVars, completionVars
  <2> QED BY <2>1, <2>2, <2>3, WorkerKeepsOut, CompletionKeepsOut, FastForwardKeepsOut
       DEF Next, PublishStep
<1> QED BY <1>1, <1>2, InvIsInvariant, PTL DEF Spec

(* Work done aside reaches a branch only by being accepted.  Neither a      *)
(* publication nor work done on top of the checkout brings in a commit that  *)
(* a candidate proposes and nobody accepted, unless a completion had         *)
(* committed it in the checkout, which is recorded of it (publish, the swap  *)
(* it ends in, the single decision, and complete before register).           *)
THEOREM UnacceptedWorkStaysOut == Spec => []UnacceptedStaysOut
<1>1. Inv /\ OutInv => UnacceptedStaysOut
  BY KeptOutIsTheProperty
<1> QED BY <1>1, InvIsInvariant, WorkIsKeptOut, PTL

-----------------------------------------------------------------------------
(* Interrupted completions.  While a completion holds the lock, the branch  *)
(* checked out moves, but never to a commit that was left behind: the owner *)
(* makes a new one, and what is published was recorded.                     *)
OrphanInv ==
  /\ \A k \in Commits : commits[k].parent \in Commits
  /\ completing # None =>
       IF completing.output = None THEN HeadCommit \notin Orphans
       ELSE commits[completing.output].parent \notin Orphans
  /\ \A k \in completed : commits[k].parent \notin Orphans

(* Steps that touch no completion. *)
LEMMA OrphansStay ==
  ASSUME Inv, OrphanInv, UNCHANGED completionVars,
         Commits \subseteq Commits', \A k \in Commits : commits'[k] = commits[k],
         \A k \in Commits' \ Commits : commits'[k].parent \in Commits,
         HeadCommit' = HeadCommit \/ HeadCommit' \notin Orphans
  PROVE  OrphanInv'
<1>1. UNCHANGED <<completing, captured, completed>> /\ UNCHANGED Orphans
  BY DEF completionVars, Orphans
<1>2. completed \subseteq Commits
  BY DEF Inv, TypeOK, Closed, SnapshotsAreClosed
<1>3. completing # None => completing.output \in Commits \cup {None}
  BY CompletionIsThere
<1> QED BY <1>1, <1>2, <1>3 DEF OrphanInv

(* A commit on any other, with or without a branch following it. *)
LEMMA CommitKeepsOrphans ==
  ASSUME Inv, OrphanInv, UNCHANGED completionVars,
         NEW k \in Commits, NEW content \in [Files -> Blobs],
         commits' = Append(commits,
           [parent |-> k, tree |-> content,
            anc |-> commits[k].anc \cup {Len(commits) + 1}]),
         HeadCommit' \in {HeadCommit, Len(commits) + 1}
  PROVE  OrphanInv'
<1>1. /\ Commits \subseteq Commits'
      /\ \A i \in Commits : commits'[i] = commits[i]
      /\ Commits' \ Commits = {Len(commits) + 1}
      /\ commits'[Len(commits) + 1].parent = k
  BY NewCommitGrows
<1>2. Len(commits) + 1 \notin Orphans
  BY OutputsAreCommits DEF Orphans
<1> QED BY <1>1, <1>2, OrphansStay

(* The owner commits, on the branch checked out or another. *)
LEMMA OwnerKeepsOrphans ==
  ASSUME Inv, OrphanInv, UNCHANGED completionVars, NEW b \in Branches,
         NEW content \in [Files -> Blobs], CommitBranch(b, content)
  PROVE  OrphanInv'
<1>1. PICK k \in Commits : k = refs[b]
  BY OutputsAreCommits
<1>2. HeadCommit' \in {HeadCommit, Len(commits) + 1}
  BY IdAssumption DEF CommitBranch, HeadCommit, Inv, TypeOK, FactsOK
<1>3. commits' = Append(commits,
        [parent |-> k, tree |-> content, anc |-> commits[k].anc \cup {Len(commits) + 1}])
  BY <1>1 DEF CommitBranch
<1> QED BY <1>2, <1>3, CommitKeepsOrphans

(* What is published is no commit that was left behind. *)
LEMMA PublisherKeepsOrphans ==
  ASSUME Inv, OutInv, OrphanInv, NEW c \in Cands, PublishFastForward(c)
  PROVE  OrphanInv'
<1>1. /\ c \in Registered /\ UNCHANGED <<commits, completionVars>>
      /\ refs' = [refs EXCEPT ![cand[c].target] = cand[c].artifact]
  BY DEF PublishFastForward, FastForward, Registered, Inv, Closed, PublishersHoldAccepted
<1>2. cand[c].artifact \notin Orphans
  BY <1>1 DEF OutInv, CapturesAreRecorded, Orphans
<1>3. HeadCommit' \in {HeadCommit, cand[c].artifact}
  BY <1>1, IdAssumption DEF HeadCommit, Inv, TypeOK, FactsOK
<1>4. Commits' = Commits
  BY <1>1 DEF Commits
<1> QED BY <1>1, <1>2, <1>3, <1>4, OrphansStay

(* A completion looks before it starts, and takes its commit from there. *)
LEMMA CompletionKeepsOrphans ==
  ASSUME Inv, OrphanInv, CompletionStep
  PROVE  OrphanInv'
<1>0. completing # None =>
        /\ completing \in Completion /\ completing.output \in Commits \cup {None}
        /\ completing.output \in captured \cup {None}
  BY CompletionIsThere DEF Inv, TypeOK, Closed, SnapshotsAreClosed
<1>1. ASSUME NEW n \in Direct, NEW outputs \in SUBSET Files, NEW paths \in SUBSET Files,
             CompleteFreeze(n, outputs, paths)
      PROVE  OrphanInv'
  <2>1. /\ HeadCommit \notin Orphans /\ completing'.output = None
        /\ UNCHANGED <<commits, refs, captured, completed>>
    BY <1>1 DEF CompleteFreeze, factVars, projectVars
  <2> QED BY <2>1 DEF OrphanInv, Orphans, HeadCommit, Commits
<1>2. ASSUME CompleteCapture PROVE OrphanInv'
  <2> PICK new : new = Len(commits) + 1
    OBVIOUS
  <2> PICK content : content = [f \in Files |-> IF f \in completing.outputs THEN tree[f]
                                                ELSE commits[HeadCommit].tree[f]]
    OBVIOUS
  <2>1. content \in [Files -> Blobs]
    <3>1. commits[HeadCommit] \in Commit /\ tree \in [Files -> Blobs]
      BY HeadExists DEF Inv, TypeOK, FactsOK, Commits
    <3> QED BY <3>1 DEF Commit
  <2>2. /\ completing # None /\ completing.output = None /\ CommitBranch(Main, content)
        /\ completing' = [completing EXCEPT !.output = new]
        /\ captured' = captured \cup {new} /\ UNCHANGED completed
    BY <1>2 DEF CompleteCapture
  <2>3. PICK h \in Commits : h = HeadCommit
    BY HeadExists
  <2>4. commits' = Append(commits,
          [parent |-> h, tree |-> content, anc |-> commits[h].anc \cup {Len(commits) + 1}])
    BY <2>2, <2>3 DEF CommitBranch, HeadCommit
  <2>5. /\ Commits \subseteq Commits'
        /\ \A i \in Commits : commits'[i] = commits[i]
        /\ Commits' \ Commits = {new}
        /\ commits'[new].parent = h
    BY <2>1, <2>4, NewCommitGrows
  <2>6. completing'.output = new /\ new \in Nat /\ new # None /\ new \notin Commits
    BY <1>0, <2>2, OutputsAreCommits, IdAssumption DEF Completion
  <2>7. Orphans' \subseteq Orphans \cup {new} /\ completed \subseteq Commits
    BY <2>2 DEF Orphans, Inv, TypeOK, Closed, SnapshotsAreClosed
  <2>8. h \notin Orphans'
    BY <2>2, <2>3, <2>6, <2>7 DEF OrphanInv
  <2>9. \A k \in completed' : commits'[k].parent \notin Orphans'
    BY <2>2, <2>5, <2>6, <2>7 DEF OrphanInv
  <2>10. \A k \in Commits' : commits'[k].parent \in Commits'
    BY <2>5 DEF OrphanInv
  <2> QED BY <2>5, <2>6, <2>8, <2>9, <2>10 DEF OrphanInv
<1>3. ASSUME CompleteRecord PROVE OrphanInv'
  <2>1. /\ completing # None /\ completing' = None
        /\ completed' = completed \cup ({completing.output} \ {None})
        /\ UNCHANGED <<commits, captured>>
    BY <1>3 DEF CompleteRecord, projectVars
  <2>2. Orphans' \subseteq Orphans /\ Commits' = Commits
    BY <2>1 DEF Orphans, Commits
  <2> QED BY <2>1, <2>2 DEF OrphanInv
<1>4. ASSUME CompleteFail PROVE OrphanInv'
  <2>1. completing' = None /\ UNCHANGED <<commits, captured, completed>>
    BY <1>4 DEF CompleteFail, factVars, projectVars
  <2> QED BY <2>1 DEF OrphanInv, Orphans, Commits
<1> QED BY <1>1, <1>2, <1>3, <1>4 DEF CompletionStep

(* A completion that was interrupted between its commit and its record is    *)
(* never built on by the next, although owner and publishers move the branch *)
(* while a completion holds the lock (require_consistent_project_head).      *)
THEOREM CompletionsBuildOnRecorded == Spec => []CompletionsRestOnRecorded
<1>1. Init => OrphanInv
  <2> SUFFICES ASSUME Init PROVE OrphanInv
    OBVIOUS
  <2>1. PICK b \in Blobs :
          commits = <<[parent |-> 1, anc |-> {1}, tree |-> [f \in Files |-> b]]>>
    BY DEF Init, InitFacts
  <2>2. Commits = {1} /\ commits[1].parent = 1
    BY <2>1 DEF Commits
  <2> QED BY <2>2 DEF Init, OrphanInv
<1>2. Inv /\ OutInv /\ OrphanInv /\ [Next]_vars => OrphanInv'
  <2> SUFFICES ASSUME Inv, OutInv, OrphanInv, [Next]_vars PROVE OrphanInv'
    OBVIOUS
  <2>1. ASSUME UNCHANGED <<commits, refs, completionVars>> PROVE OrphanInv'
    BY <2>1, OrphansStay DEF Commits, HeadCommit
  <2>2. CASE (GraphStep \/ OwnerStep) /\ UNCHANGED processVars
    BY <2>1, <2>2, OwnerKeepsOrphans DEF processVars, GraphStep, OwnerStep, Add,
       AddVerification, AddNode, Link, Edit, Fail, ObserveContext, Register, EditTree,
       storeVars, projectVars
  <2>3. ASSUME NEW w \in Workers, WorkerStep(w) PROVE OrphanInv'
    <3>1. ASSUME NEW content \in [Files -> Blobs], NEW c \in Cands, NEW b \in Branches,
                 NEW paths \in SUBSET Files, SubmitCandidate(w, content, c, b, paths)
          PROVE  OrphanInv'
      <4>1. /\ snap[w].revision \in Commits /\ UNCHANGED <<refs, completionVars>>
            /\ Capture(snap[w].revision, content)
        BY <3>1, FrozenIsThere DEF SubmitCandidate, Submitting, Capture
      <4> QED BY <4>1, CommitKeepsOrphans DEF Capture, HeadCommit
    <3> QED BY <2>1, <2>3, <3>1 DEF WorkerStep, SnapshotCheck, SnapshotPin, SnapshotFreeze,
         Drop, SubmitFailed, SubmitDone, SubmitVerdict, SubmitAbandoned, factVars,
         projectVars
  <2>4. ASSUME NEW c \in Cands, PublishStep(c) PROVE OrphanInv'
    BY <2>1, <2>4, PublisherKeepsOrphans DEF PublishStep, PublishCheck, PublishGiveUp,
       factVars, projectVars
  <2>5. CASE UNCHANGED vars
    BY <2>1, <2>5 DEF vars, factVars, projectVars, processVars
  <2> QED BY <2>2, <2>3, <2>4, <2>5, CompletionKeepsOrphans DEF Next
<1>3. OrphanInv => CompletionsRestOnRecorded
  BY DEF OrphanInv, CompletionsRestOnRecorded
<1> QED BY <1>1, <1>2, <1>3, InvIsInvariant, WorkIsKeptOut, PTL DEF Spec

=============================================================================
