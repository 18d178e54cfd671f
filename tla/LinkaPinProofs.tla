---------------------------- MODULE LinkaPinProofs ----------------------------
(***************************************************************************)
(* Completed work rests on successes, and accepted work counts, for every  *)
(* instance of Linka.                                                      *)
(*                                                                         *)
(* CompleteRestsOnSuccess is not inductive: it speaks of nodes that are    *)
(* complete, and completeness comes and goes without the node being        *)
(* touched.  What a step preserves is PinsAreFaithful: a pin that matches  *)
(* still tells the outcome it was taken with, because a version is never   *)
(* used twice.                                                             *)
(***************************************************************************)
EXTENDS LinkaProofs

PinInv == Inv /\ PinsAreFaithful

(* A pin stays faithful while no result is recorded, and while one is that *)
(* has a version of its own.                                               *)
LEMMA FaithfulStays ==
  ASSUME Inv, NEW p \in Pin, Faithful(p),
         \/ UNCHANGED <<result, version>>
         \/ \E n \in Nodes, r \in Result : Record(n, r) /\ r.ver = version + 1
  PROVE  Faithful(p)'
<1>1. CASE UNCHANGED <<result, version>>
  BY <1>1 DEF Faithful, Version, Outcome
<1>2. ASSUME NEW n \in Nodes, NEW r \in Result, Record(n, r), r.ver = version + 1
      PROVE  Faithful(p)'
  <2>1. p.id \in Nodes /\ p.ver \in Nat \cup {None} /\ version \in Nat
    BY DEF Pin, Inv, TypeOK, FactsOK
  <2>2. /\ version' = version + 1
        /\ result'[n] = r /\ r # None
        /\ \A m \in Nodes \ {n} : result'[m] = result[m]
    BY <1>2, NoneAssumption DEF Record, Inv, TypeOK, FactsOK
  <2>3. CASE p.id = n
    <3>1. Version(p.id)' = version + 1
      BY <1>2, <2>2, <2>3 DEF Version
    <3> QED BY <2>1, <2>2, <3>1 DEF Faithful
  <2>4. CASE p.id # n
    <3>1. Version(p.id)' = Version(p.id) /\ Outcome(p.id)' = Outcome(p.id)
      BY <2>1, <2>2, <2>4 DEF Version, Outcome
    <3> QED BY <2>1, <2>2, <3>1 DEF Faithful
  <2> QED BY <2>3, <2>4
<1> QED BY <1>1, <1>2

(* The pins taken of existing nodes are faithful when they are taken. *)
LEMMA FreshPinsFaithful ==
  ASSUME PinInv, NEW S, S \subseteq Existing, NEW p \in PinNodeList(S)
  PROVE  p \in Pin /\ Faithful(p)
<1>1. p \in Pin
  BY PinsTyped DEF PinInv
<1>2. PICK n \in S : p = PinOf(n)
  BY DEF PinNodeList
<1>3. p.id = n /\ p.ver = Version(n) /\ p.outcome = Outcome(n) /\ n \in Nodes
  BY <1>2 DEF PinOf, Existing
<1>4. Version(n) # None => n \in Recorded /\ Version(n) = result[n].ver
  BY <1>3 DEF Version, Recorded
<1>5. Version(n) # None => Version(n) <= version
  BY <1>4 DEF PinInv, PinsAreFaithful
<1> QED BY <1>1, <1>3, <1>5 DEF Faithful

(* What the store and the snapshots have pinned is made of pins. *)
LEMMA ConsumedTyped ==
  ASSUME Inv
  PROVE  /\ \A n \in Recorded : Consumed(result[n]) \subseteq Pin
         /\ \A w \in Workers : snap[w] # None => Consumed(snap[w]) \subseteq Pin
<1>1. \A n \in Recorded : result[n] \in Result
  BY DEF Recorded, Inv, TypeOK, FactsOK
<1>2. \A w \in Workers : snap[w] # None => snap[w] \in Snapshot
  BY DEF Inv, TypeOK
<1> QED BY <1>1, <1>2 DEF Consumed, Result, Snapshot

(* Steps that record nothing keep the pins faithful, if the snapshots they *)
(* leave have only faithful pins.                                          *)
LEMMA QuietPreserves ==
  ASSUME PinInv, UNCHANGED <<result, version>>,
         \A w \in Workers : snap'[w] # None => \A p \in Consumed(snap'[w]) :
           p \in Pin /\ Faithful(p)
  PROVE  PinsAreFaithful'
<1>1. \A p \in Pin : Faithful(p) => Faithful(p)'
  BY FaithfulStays DEF PinInv
<1>2. Recorded' = Recorded
  BY DEF Recorded
<1>3. \A n \in Recorded' :
        /\ result'[n].ver <= version'
        /\ RestsOnPins(result'[n])
        /\ \A p \in Consumed(result'[n]) : Faithful(p)'
  BY <1>1, <1>2, ConsumedTyped DEF PinInv, PinsAreFaithful
<1>4. \A w \in Workers : snap'[w] # None => \A p \in Consumed(snap'[w]) : Faithful(p)'
  BY <1>1
<1> QED BY <1>3, <1>4 DEF PinsAreFaithful, Consumed, RestsOnPins

(* Recording a result that has a version of its own, only faithful pins,   *)
(* and successes among them where it needs them, keeps the pins faithful.  *)
LEMMA RecordingPreserves ==
  ASSUME PinInv, NEW n \in Nodes, NEW r \in Result, Record(n, r),
         r.ver = version + 1, RestsOnPins(r),
         \A p \in Consumed(r) : p \in Pin /\ Faithful(p),
         \A w \in Workers : snap'[w] \in {snap[w], None}
  PROVE  PinsAreFaithful'
<1>1. \A p \in Pin : Faithful(p) => Faithful(p)'
  BY FaithfulStays DEF PinInv
<1>2. /\ version \in Nat /\ version' = version + 1
      /\ result'[n] = r
      /\ \A m \in Nodes \ {n} : result'[m] = result[m]
  BY DEF Record, PinInv, Inv, TypeOK, FactsOK
<1>3. ASSUME NEW m \in Recorded'
      PROVE  /\ result'[m].ver <= version'
             /\ RestsOnPins(result'[m])
             /\ \A p \in Consumed(result'[m]) : Faithful(p)'
  <2>1. CASE m = n
    BY <1>1, <1>2, <2>1
  <2>2. CASE m # n
    <3>1. m \in Recorded /\ result'[m] = result[m] /\ result[m] \in Result
      BY <1>2, <2>2 DEF Recorded, PinInv, Inv, TypeOK, FactsOK
    <3>2. result[m].ver \in Nat
      BY <3>1 DEF Result
    <3> QED BY <1>1, <1>2, <3>1, <3>2, ConsumedTyped DEF PinInv, PinsAreFaithful
  <2> QED BY <2>1, <2>2
<1>4. \A w \in Workers : snap'[w] # None => \A p \in Consumed(snap'[w]) : Faithful(p)'
  BY <1>1, ConsumedTyped DEF PinInv, PinsAreFaithful
<1> QED BY <1>3, <1>4 DEF PinsAreFaithful, Consumed, RestsOnPins

-----------------------------------------------------------------------------
(* A success rests on successes: a submission that is not a failure is      *)
(* refused unless everything its node depends on is complete and satisfying.*)
LEMMA SuccessRestsOnPins ==
  ASSUME Inv, NEW s, s.node \in Existing, NEW outcome \in Outcomes,
         NEW conflicting, NEW at, ~Conflict(s, outcome, conflicting, at), NEW output
  PROVE  RestsOnPins(ResultOf(s, outcome, output))
<1> DEFINE r == ResultOf(s, outcome, output)
<1>1. s.defn = defn[s.node] /\ s.deps = PinNodeList(defn[s.node].dep)
  BY SnapshotIsCurrent
<1>2. r.outcome = outcome /\ r.defn = s.defn /\ r.deps = s.deps
  BY DEF ResultOf, NewResult
<1>3. ASSUME outcome # "failed", NEW d \in s.defn.dep
      PROVE  \E p \in s.deps : p.id = d /\ p.ver # None /\ Satisfies(p.outcome)
  <2>1. PinOf(d) \in s.deps /\ PinOf(d).id = d /\ PinOf(d).ver = Version(d)
    BY <1>1, <1>3 DEF PinNodeList, PinOf
  <2>2. IsCompleteIn(at.tree, PinOf(d).id) /\ Satisfies(PinOf(d).outcome)
    BY <1>3, <2>1 DEF Conflict, DependencyUnsatisfied
  <2>3. result[d] # None
    BY <2>1, <2>2 DEF IsCompleteIn
  <2>4. d \in Nodes
    BY <1>1, <1>3 DEF Inv, Closed, GraphIsClosed, Existing
  <2>5. result[d].ver \in Nat
    BY <2>3, <2>4 DEF Inv, TypeOK, FactsOK, Result
  <2>6. Version(d) # None
    BY <2>3, <2>5, IdAssumption DEF Version
  <2> QED BY <2>1, <2>2, <2>6
<1> HIDE DEF r
<1>4. RestsOnPins(r)
  BY <1>2, <1>3 DEF RestsOnPins
<1> QED BY <1>4 DEF r

(* Every submission keeps the pins faithful: those that pass the checks are *)
(* the pins of this moment.                                                  *)
LEMMA SubmissionKeepsPins ==
  ASSUME PinInv, NEW s, s.node \in Existing, s.revision \in Nat,
         s.context \in SUBSET ContextPin, NEW outcome \in Outcomes,
         NEW conflicting, NEW at, ~Conflict(s, outcome, conflicting, at),
         NEW output \in Nat \cup {None},
         Record(s.node, ResultOf(s, outcome, output)),
         \A w \in Workers : snap'[w] \in {snap[w], None}
  PROVE  PinsAreFaithful'
<1> PICK n : n = s.node
  OBVIOUS
<1> PICK r : r = ResultOf(s, outcome, output)
  OBVIOUS
<1>1. n \in Nodes /\ Record(n, r)
  BY DEF Existing
<1>2. r \in Result /\ r.ver = version + 1
  BY ResultOfTyped DEF PinInv
<1>3. RestsOnPins(r)
  BY SuccessRestsOnPins DEF PinInv
<1>4. \A p \in Consumed(r) : p \in Pin /\ Faithful(p)
  <2>1. r.deps = PinNodeList(defn[n].dep) /\ r.lineage = PinNodeList(defn[n].der)
    BY SnapshotIsCurrent DEF ResultOf, NewResult
  <2>2. defn[n].dep \subseteq Existing /\ defn[n].der \subseteq Existing
    BY DEF PinInv, Inv, Closed, GraphIsClosed
  <2> QED BY <2>1, <2>2, FreshPinsFaithful DEF Consumed
<1> QED BY <1>1, <1>2, <1>3, <1>4, RecordingPreserves

(* An output's number is a number. *)
LEMMA OutputNumber == ASSUME Inv PROVE Len(commits) + 1 \in Nat
BY DEF Inv, TypeOK, FactsOK

(* The steps of a worker that record a result. *)
LEMMA SubmitKeepsPins ==
  ASSUME PinInv, NEW w \in Workers,
         \/ \E at \in Checkouts : SubmitFailed(w, at)
         \/ SubmitDone(w)
         \/ SubmitAbandoned(w)
         \/ \E verdict \in Verdicts : SubmitVerdict(w, verdict)
         \/ \E content \in [Files -> Blobs], c \in Cands, b \in Branches,
               paths \in SUBSET Files :
              SubmitCandidate(w, content, c, b, paths)
  PROVE  PinsAreFaithful'
<1>0. "failed" \in Outcomes /\ "done" \in Outcomes /\ "abandoned" \in Outcomes
  BY DEF Outcomes, WorkOutcomes, Verdicts
<1>1. ASSUME NEW outcome \in Outcomes, NEW at, NEW output \in Nat \cup {None},
             Submitting(w), ~Conflict(snap[w], outcome, output, at), Release(w),
             Record(snap[w].node, ResultOf(snap[w], outcome, output))
      PROVE  PinsAreFaithful'
  <2>1. \A x \in Workers : snap'[x] \in {snap[x], None}
    BY <1>1 DEF Release, PinInv, Inv, TypeOK
  <2>2. /\ snap[w].node \in Existing /\ snap[w].revision \in Nat
        /\ snap[w].context \in SUBSET ContextPin
    BY <1>1, FrozenIsThere DEF PinInv, Submitting
  <2> QED BY <1>1, <2>1, <2>2, SubmissionKeepsPins
<1>2. ASSUME NEW at \in Checkouts, SubmitFailed(w, at) PROVE PinsAreFaithful'
  BY <1>0, <1>1, <1>2 DEF SubmitFailed
<1>3. CASE SubmitDone(w) \/ SubmitAbandoned(w)
  BY <1>0, <1>1, <1>3 DEF SubmitDone, SubmitAbandoned
<1>4. ASSUME NEW verdict \in Verdicts, SubmitVerdict(w, verdict) PROVE PinsAreFaithful'
  BY <1>1, <1>4 DEF SubmitVerdict, Outcomes
<1>5. ASSUME NEW content \in [Files -> Blobs], NEW c \in Cands, NEW b \in Branches,
             NEW paths \in SUBSET Files, SubmitCandidate(w, content, c, b, paths)
      PROVE  PinsAreFaithful'
  <2>1. Len(commits) + 1 \in Nat \cup {None}
    BY OutputNumber DEF PinInv
  <2>2. ResultOf(snap[w], "done", Len(commits) + 1).output = Len(commits) + 1
    BY DEF ResultOf, NewResult
  <2> QED BY <1>0, <1>1, <1>5, <2>1, <2>2 DEF SubmitCandidate
<1> QED BY <1>2, <1>3, <1>4, <1>5

(* A completion submits what it froze as a worker does. *)
LEMMA CompletionKeepsPins ==
  ASSUME PinInv, CompletionStep
  PROVE  PinsAreFaithful'
<1>1. ASSUME CompleteRecord PROVE PinsAreFaithful'
  <2>1. /\ completing # None /\ ~Conflict(completing, "done", completing.output, Project)
        /\ Record(completing.node, ResultOf(completing, "done", completing.output))
        /\ UNCHANGED snap
    BY <1>1 DEF CompleteRecord
  <2>2. /\ completing.node \in Existing /\ completing.revision \in Nat
        /\ completing.context \in SUBSET ContextPin
        /\ completing.output \in Nat \cup {None}
    BY <2>1, CompletionIsThere DEF PinInv
  <2>3. "done" \in Outcomes
    BY DEF Outcomes, WorkOutcomes
  <2> QED BY <2>1, <2>2, <2>3, SubmissionKeepsPins
<1>2. ASSUME ~CompleteRecord PROVE UNCHANGED <<result, version, snap>>
  BY <1>2 DEF CompletionStep, CompleteFreeze, CompleteCapture, CompleteFail, CommitBranch,
     factVars, storeVars
<1>3. ASSUME UNCHANGED <<result, version, snap>> PROVE PinsAreFaithful'
  BY <1>3, QuietPreserves, ConsumedTyped DEF PinInv, PinsAreFaithful
<1> QED BY <1>1, <1>2, <1>3

(* The other steps of a worker keep the pins faithful: it pins what is     *)
(* current, or keeps what it has, or lets go of it.                        *)
LEMMA SnapshotKeepsPins ==
  ASSUME PinInv, NEW w \in Workers,
         \/ \E n \in Nodes : SnapshotCheck(w, n)
         \/ SnapshotPin(w)
         \/ \E paths \in SUBSET Files : SnapshotFreeze(w, paths)
         \/ Drop(w)
  PROVE  PinsAreFaithful'
<1> USE DEF PinInv, Inv, TypeOK
<1>1. UNCHANGED <<result, version>>
  BY DEF SnapshotCheck, SnapshotPin, SnapshotFreeze, Drop, factVars, storeVars
<1>2. \A x \in Workers \ {w} : snap'[x] = snap[x]
  BY DEF SnapshotCheck, SnapshotPin, SnapshotFreeze, Drop, Release
<1>3. ASSUME snap'[w] # None, NEW p \in Consumed(snap'[w]) PROVE p \in Pin /\ Faithful(p)
  <2>1. CASE \E n \in Nodes : SnapshotCheck(w, n)
    <3>1. Consumed(snap'[w]) = {}
      BY <2>1 DEF SnapshotCheck, Consumed
    <3> QED BY <1>3, <3>1
  <2>2. CASE SnapshotPin(w)
    <3>1. snap[w] \in Snapshot /\ snap[w].node \in Existing
      BY <2>2 DEF SnapshotPin, Closed, SnapshotsAreClosed
    <3> DEFINE d == defn[snap[w].node]
    <3>2. d.dep \subseteq Existing /\ d.der \subseteq Existing
      BY <3>1 DEF Closed, GraphIsClosed
    <3>3. snap'[w] = [snap[w] EXCEPT !.stage = "pinned", !.defn = d,
                                     !.deps = PinNodeList(d.dep),
                                     !.lineage = PinNodeList(d.der)]
      BY <2>2, <3>1 DEF SnapshotPin
    <3> HIDE DEF d
    <3>4. snap'[w].deps = PinNodeList(d.dep) /\ snap'[w].lineage = PinNodeList(d.der)
      BY <3>1, <3>3 DEF Snapshot
    <3> QED BY <1>3, <3>2, <3>4, FreshPinsFaithful DEF Consumed
  <2>3. CASE \E paths \in SUBSET Files : SnapshotFreeze(w, paths)
    <3>1. snap[w] # None /\ snap[w] \in Snapshot
      BY <2>3 DEF SnapshotFreeze
    <3>2. PICK paths \in SUBSET Files : SnapshotFreeze(w, paths)
      BY <2>3
    <3> DEFINE context == ContextAt(HeadCommit, paths)
    <3>3. snap'[w] = [snap[w] EXCEPT !.stage = "frozen", !.revision = HeadCommit,
                                     !.context = context, !.prev = Version(snap[w].node)]
      BY <3>1, <3>2 DEF SnapshotFreeze
    <3> HIDE DEF context
    <3>4. snap'[w].deps = snap[w].deps /\ snap'[w].lineage = snap[w].lineage
      BY <3>1, <3>3 DEF Snapshot
    <3> QED BY <1>3, <3>1, <3>4, ConsumedTyped DEF Consumed, PinsAreFaithful
  <2>4. CASE Drop(w)
    BY <1>3, <2>4 DEF Drop, Release
  <2> QED BY <2>1, <2>2, <2>3, <2>4
<1>4. \A x \in Workers : snap'[x] # None => \A p \in Consumed(snap'[x]) : p \in Pin /\ Faithful(p)
  BY <1>2, <1>3, ConsumedTyped DEF PinsAreFaithful
<1> QED BY <1>1, <1>4, QuietPreserves

(* A failure recorded outside any snapshot pins what is current. *)
LEMMA FailKeepsPins ==
  ASSUME PinInv, NEW n \in Work, Fail(n), UNCHANGED snap
  PROVE  PinsAreFaithful'
<1> DEFINE deps == PinNodeList(defn[n].dep)
           lineage == PinNodeList(defn[n].der)
           r == NewResult("failed", defn[n], deps, lineage, {}, HeadCommit, None)
<1>1. n \in Nodes /\ n \in Existing /\ Record(n, r)
  BY DEF Fail, Nodes
<1>2. defn[n].dep \subseteq Existing /\ defn[n].der \subseteq Existing /\ defn[n] \in Definition
  BY <1>1 DEF PinInv, Inv, Closed, GraphIsClosed, Existing, TypeOK, FactsOK
<1>3. \A p \in deps \cup lineage : p \in Pin /\ Faithful(p)
  BY <1>2, FreshPinsFaithful
<1>4. deps \in SUBSET Pin /\ lineage \in SUBSET Pin
  BY <1>3
<1> HIDE DEF deps, lineage
<1>5. r \in Result
  BY <1>2, <1>4, HeadExists, NewResultTyped
     DEF Outcomes, WorkOutcomes, PinInv, Inv, TypeOK, FactsOK
<1>6. r.ver = version + 1 /\ r.outcome = "failed" /\ Consumed(r) = deps \cup lineage
  BY DEF NewResult, Consumed
<1> HIDE DEF r
<1>7. RestsOnPins(r) /\ \A w \in Workers : snap'[w] \in {snap[w], None}
  BY <1>6 DEF RestsOnPins
<1> QED BY <1>1, <1>3, <1>5, <1>6, <1>7, RecordingPreserves

(* Steps that leave the results and the snapshots alone. *)
LEMMA ElsewhereKeepsPins ==
  ASSUME PinInv, UNCHANGED <<result, version, snap>>
  PROVE  PinsAreFaithful'
BY QuietPreserves, ConsumedTyped DEF PinInv, PinsAreFaithful

(* Every operation keeps the pins faithful; only a failure records.        *)
LEMMA OperationKeepsPins ==
  ASSUME PinInv, GraphStep \/ OwnerStep, UNCHANGED processVars
  PROVE  PinsAreFaithful'
<1>1. UNCHANGED snap
  BY DEF processVars
<1>2. ASSUME NEW n \in Work, Fail(n) PROVE PinsAreFaithful'
  BY <1>1, <1>2, FailKeepsPins
<1>3. ASSUME ~\E n \in Work : Fail(n) PROVE UNCHANGED <<result, version>>
  BY <1>3 DEF GraphStep, OwnerStep, Add, AddVerification, AddNode, Link, Edit, ObserveContext,
     Register, EditTree, CommitBranch, storeVars
<1> QED BY <1>1, <1>2, <1>3, ElsewhereKeepsPins

(* Pins stay faithful through every operation of Linka: a version names one *)
(* result for ever, and successes rest on successes.                        *)
THEOREM PinsStayFaithful == Spec => []PinsAreFaithful
<1>1. Init => PinsAreFaithful
  BY DEF Init, InitFacts, PinsAreFaithful, Recorded
<1>2. Inv /\ PinsAreFaithful /\ [Next]_vars => PinsAreFaithful'
  <2> SUFFICES ASSUME PinInv, [Next]_vars PROVE PinsAreFaithful'
    BY DEF PinInv
  <2>1. CASE (GraphStep \/ OwnerStep) /\ UNCHANGED processVars
    BY <2>1, OperationKeepsPins
  <2>2. ASSUME NEW w \in Workers, WorkerStep(w) PROVE PinsAreFaithful'
    <3>1. CASE \E at \in Checkouts : SubmitFailed(w, at)
      BY <3>1, SubmitKeepsPins
    <3> QED BY <2>2, <3>1, SnapshotKeepsPins, SubmitKeepsPins DEF WorkerStep
  <2>3. ASSUME NEW c \in Cands, PublishStep(c) PROVE UNCHANGED <<result, version, snap>>
    BY <2>3 DEF PublishStep, PublishCheck, PublishFastForward, PublishGiveUp,
       factVars, storeVars
  <2>4. CASE UNCHANGED vars
    BY <2>4, ElsewhereKeepsPins DEF vars, factVars, storeVars, processVars
  <2> QED BY <2>1, <2>2, <2>3, <2>4, CompletionKeepsPins, ElsewhereKeepsPins DEF Next
<1> QED BY <1>1, <1>2, InvIsInvariant, PTL DEF Spec

(* Completed work rests on successes.  A node that is complete is not      *)
(* stale, so every pin of its result matches what is current; and a pin    *)
(* that matches still tells the outcome it was taken with, a success.      *)
THEOREM CompleteWorkRestsOnSuccess == Spec => []CompleteRestsOnSuccess
<1>1. ASSUME PinInv PROVE CompleteRestsOnSuccess
  <2> SUFFICES ASSUME NEW n \in Existing, IsComplete(n), NEW d \in defn[n].dep
               PROVE  Satisfies(Outcome(d))
    BY DEF CompleteRestsOnSuccess
  <2> DEFINE r == result[n]
  <2>1. /\ n \in Recorded /\ r.defn = defn[n] /\ r.outcome # "failed"
        /\ \A p \in Consumed(r) : ~PinIsStale(p)
    BY DEF IsComplete, IsCompleteIn, IsStaleIn, Recorded, Existing, Verdicts
  <2>2. PICK p \in r.deps : p.id = d /\ p.ver # None /\ Satisfies(p.outcome)
    BY <1>1, <2>1 DEF PinInv, PinsAreFaithful, RestsOnPins
  <2>3. Faithful(p) /\ ~PinIsStale(p)
    BY <1>1, <2>1, <2>2 DEF PinInv, PinsAreFaithful, Consumed
  <2>4. Outcome(d) = p.outcome
    BY <2>2, <2>3 DEF Faithful, PinIsStale
  <2> QED BY <2>2, <2>4
<1>2. Inv /\ PinsAreFaithful => CompleteRestsOnSuccess
  BY <1>1 DEF PinInv
<1> QED BY <1>2, InvIsInvariant, PinsStayFaithful, PTL

-----------------------------------------------------------------------------
(* Accepted work counts.  A result settles its node when it pins what is    *)
(* still current after it is recorded.  Recording it changes the node       *)
(* itself, so the node must not be among its own inputs; it makes every     *)
(* observation of that version count, and every candidate, so there must be *)
(* none yet; and an output committed in the checkout must be the commit      *)
(* that is checked out, which is what the history of commits is for.         *)
NoSelfInput == \A n \in Existing : n \notin defn[n].dep \cup defn[n].der

SeenBefore == \A n \in Nodes : \A o \in observed[n] : o.ver <= version

ProposedBefore == \A c \in Registered : cand[c].ver <= version

SettleInv == PinInv /\ NoSelfInput /\ SeenBefore /\ ProposedBefore

(* A new node cannot name itself, and a self-link is refused. *)
LEMMA DefinitionsKeepNoSelf ==
  ASSUME Inv, NoSelfInput, GraphStep \/ OwnerStep
  PROVE  NoSelfInput'
<1>0. defn \in [Nodes -> Definition \cup {None}] /\ \A n \in Existing : defn[n] \in Definition
  BY DEF Existing, Inv, TypeOK, FactsOK
<1>1. CASE UNCHANGED defn
  BY <1>1 DEF NoSelfInput, Existing
<1>2. ASSUME NEW n, NEW dep, NEW der, NEW verifies, NEW desc,
             AddNode(n, dep, der, verifies, desc)
      PROVE  NoSelfInput'
  <2> PICK new : new = [dep |-> dep, der |-> der, verifies |-> verifies, desc |-> desc]
    OBVIOUS
  <2>1. /\ n \notin dep \cup der
        /\ defn' = [defn EXCEPT ![n] = new]
        /\ new.dep = dep /\ new.der = der
    BY <1>2 DEF AddNode, Existing
  <2> QED BY <1>0, <2>1 DEF NoSelfInput, Existing
<1>3. ASSUME NEW from, NEW to, NEW kind, Link(from, to, kind) PROVE NoSelfInput'
  <2>1. from # to /\ from \in Existing
    BY <1>3 DEF Link
  <2>2. CASE defn' = [defn EXCEPT ![from].dep = defn[from].dep \cup {to}]
    BY <1>0, <2>1, <2>2 DEF NoSelfInput, Existing, Definition
  <2>3. CASE defn' = [defn EXCEPT ![from].der = defn[from].der \cup {to}]
    BY <1>0, <2>1, <2>3 DEF NoSelfInput, Existing, Definition
  <2> QED BY <1>3, <2>2, <2>3 DEF Link
<1>4. ASSUME NEW n, NEW desc, Edit(n, desc) PROVE NoSelfInput'
  <2>1. n \in Existing /\ defn' = [defn EXCEPT ![n].desc = desc]
    BY <1>4 DEF Edit
  <2> QED BY <1>0, <2>1 DEF NoSelfInput, Existing, Definition
<1> QED
  BY <1>1, <1>2, <1>3, <1>4 DEF GraphStep, OwnerStep, Add, AddVerification, Fail, Register,
     ObserveContext, EditTree, CommitBranch, storeVars

(* An observation is made of a result that is there. *)
LEMMA ObservationsAreSeen ==
  ASSUME PinInv, SeenBefore, NEW n \in Nodes, NEW r \in Result, r.ver <= version',
         version' \in Nat, version <= version', NEW paths,
         observed' = [observed EXCEPT ![n] = observed[n] \cup Observations(r, paths)]
  PROVE  SeenBefore'
<1>1. observed \in [Nodes -> SUBSET Observation] /\ version \in Nat
  BY DEF PinInv, Inv, TypeOK, FactsOK
<1>2. \A o \in Observations(r, paths) : o.ver = r.ver
  BY DEF Observations
<1>3. \A m \in Nodes : \A o \in observed[m] : o.ver \in Nat /\ o.ver <= version
  BY <1>1 DEF SeenBefore, Observation
<1> HIDE DEF Observations
<1>4. ASSUME NEW m \in Nodes, NEW o \in observed'[m] PROVE o.ver <= version'
  <2>1. o \in observed[m] \/ o \in Observations(r, paths)
    BY <1>1, <1>4
  <2>2. CASE o \in observed[m]
    BY <1>1, <1>3, <2>2
  <2>3. CASE o \in Observations(r, paths)
    BY <1>2, <2>3
  <2> QED BY <2>1, <2>2, <2>3
<1> QED BY <1>4 DEF SeenBefore

(* Versions only grow, so what was seen before still was. *)
LEMMA SeenStays ==
  ASSUME Inv, SeenBefore, UNCHANGED observed, version' \in {version, version + 1}
  PROVE  SeenBefore'
<1>1. version \in Nat /\ observed \in [Nodes -> SUBSET Observation]
  BY DEF Inv, TypeOK, FactsOK
<1>2. \A m \in Nodes : \A o \in observed[m] : o.ver \in Nat
  BY <1>1 DEF Observation
<1> QED BY <1>1, <1>2 DEF SeenBefore

(* Candidates keep the version they propose, or propose one there is. *)
LEMMA ProposedStays ==
  ASSUME SettleInv, version' \in {version, version + 1},
         \A c \in Registered' : \/ c \in Registered /\ cand'[c].ver = cand[c].ver
                                \/ cand'[c].ver <= version'
  PROVE  ProposedBefore'
<1>1. version \in Nat /\ \A c \in Registered : cand[c] \in Candidate
  BY DEF SettleInv, PinInv, Inv, TypeOK, FactsOK, Registered
<1>2. \A c \in Registered : cand[c].ver \in Nat
  BY <1>1 DEF Candidate
<1> QED BY <1>1, <1>2 DEF SettleInv, ProposedBefore

(* A step of the operations keeps them in the past. *)
LEMMA OperationKeepsProposed ==
  ASSUME SettleInv, GraphStep \/ OwnerStep
  PROVE  ProposedBefore'
<1>1. ASSUME UNCHANGED cand, version' \in {version, version + 1} PROVE ProposedBefore'
  BY <1>1, ProposedStays DEF Registered
<1>2. ASSUME NEW c \in Cands, NEW n \in Work, NEW b \in Branches, Register(c, n, b)
      PROVE  ProposedBefore'
  <2>1. result[n].ver <= version /\ UNCHANGED version
    BY <1>2 DEF Register, SettleInv, PinInv, PinsAreFaithful
  <2>2. \A x \in Registered' : \/ x \in Registered /\ cand'[x] = cand[x]
                               \/ cand'[x].ver = result[n].ver
    BY <1>2 DEF Register, NewCandidate, Registered, SettleInv, PinInv, Inv, TypeOK, FactsOK
  <2> QED BY <2>1, <2>2, ProposedStays
<1> QED BY <1>1, <1>2 DEF GraphStep, OwnerStep, Add, AddVerification, AddNode, Link, Edit,
   Fail, Record, ObserveContext, EditTree, CommitBranch, storeVars

(* So does one of a worker: what it proposes is the result it records. *)
LEMMA WorkerKeepsProposed ==
  ASSUME SettleInv, NEW w \in Workers, WorkerStep(w)
  PROVE  ProposedBefore'
<1>1. ASSUME UNCHANGED cand, version' \in {version, version + 1} PROVE ProposedBefore'
  BY <1>1, ProposedStays DEF Registered
<1>2. ASSUME NEW content \in [Files -> Blobs], NEW c \in Cands, NEW b \in Branches,
             NEW paths \in SUBSET Files, SubmitCandidate(w, content, c, b, paths)
      PROVE  ProposedBefore'
  <2> PICK new : new = NewCandidate(snap[w].node, version + 1, Len(commits) + 1, b)
    OBVIOUS
  <2>1. version' = version + 1 /\ cand' = [cand EXCEPT ![c] = new] /\ new.ver = version + 1
    BY <1>2 DEF SubmitCandidate, Record, ResultOf, NewResult, NewCandidate
  <2>2. version \in Nat /\ cand \in [Cands -> Candidate \cup {None}]
    BY DEF SettleInv, PinInv, Inv, TypeOK, FactsOK
  <2>3. \A x \in Registered' : \/ x \in Registered /\ cand'[x] = cand[x]
                               \/ cand'[x].ver <= version'
    BY <2>1, <2>2 DEF Registered
  <2> QED BY <2>1, <2>3, ProposedStays
<1>3. ASSUME NEW verdict \in Verdicts, SubmitVerdict(w, verdict) PROVE ProposedBefore'
  <2> PICK n : n = snap[w].node
    OBVIOUS
  <2> PICK c : c = defn[n].verifies
    OBVIOUS
  <2> PICK new : new = DecidedState(c, n, verdict)
    OBVIOUS
  <2>1. /\ version' = version + 1 /\ cand' = [cand EXCEPT ![c] = new]
        /\ Frozen(w) /\ n \in Reviews
    BY <1>3 DEF SubmitVerdict, Submitting, Record
  <2>2. c \in Registered
    BY <2>1, FrozenIsThere DEF SettleInv, PinInv, Inv, Closed, GraphIsClosed
  <2>3. c \in Cands /\ cand[c] \in Candidate /\ cand \in [Cands -> Candidate \cup {None}]
    BY <2>2 DEF Registered, SettleInv, PinInv, Inv, TypeOK, FactsOK
  <2>4. new.ver = cand[c].ver
    BY <2>3 DEF DecidedState, Candidate
  <2>5. \A x \in Registered' : x \in Registered /\ cand'[x].ver = cand[x].ver
    BY <2>1, <2>2, <2>3, <2>4 DEF Registered
  <2> QED BY <2>1, <2>5, ProposedStays
<1> QED BY <1>1, <1>2, <1>3 DEF WorkerStep, SnapshotCheck, SnapshotPin, SnapshotFreeze,
   Drop, SubmitFailed, SubmitDone, SubmitAbandoned, Record, factVars, storeVars

(* Every step keeps inputs apart, and observations and candidates in the past. *)
LEMMA StepKeepsSettleInv ==
  ASSUME SettleInv, [Next]_vars
  PROVE  NoSelfInput' /\ SeenBefore' /\ ProposedBefore'
<1> USE DEF SettleInv
<1>0. Inv
  BY DEF PinInv
<1>1. ASSUME UNCHANGED <<defn, observed>>, version' \in {version, version + 1}
      PROVE  NoSelfInput' /\ SeenBefore'
  BY <1>1, SeenStays DEF PinInv, NoSelfInput, Existing
<1>2. ASSUME GraphStep \/ OwnerStep PROVE NoSelfInput' /\ SeenBefore'
  <2>1. NoSelfInput'
    BY <1>2, DefinitionsKeepNoSelf DEF PinInv
  <2>2. ASSUME UNCHANGED observed, version' \in {version, version + 1} PROVE SeenBefore'
    BY <2>2, SeenStays DEF PinInv
  <2>3. ASSUME NEW n \in Nodes, NEW paths \in SUBSET Files, ObserveContext(n, paths)
        PROVE  SeenBefore'
    <3>1. result[n] \in Result /\ result[n].ver <= version /\ UNCHANGED version
      BY <2>3 DEF ObserveContext, Recorded, PinInv, PinsAreFaithful, Inv, TypeOK, FactsOK
    <3>2. PICK seen : observed' = [observed EXCEPT ![n] =
                                     observed[n] \cup Observations(result[n], seen)]
      BY <2>3 DEF ObserveContext
    <3>3. version' \in Nat /\ version <= version' /\ result[n].ver <= version'
      BY <3>1 DEF PinInv, Inv, TypeOK, FactsOK
    <3> QED BY <3>1, <3>2, <3>3, ObservationsAreSeen
  <2> QED BY <1>2, <2>1, <2>2, <2>3 DEF GraphStep, OwnerStep, Add, AddVerification,
     AddNode, Link, Edit, Fail, Record, Register, EditTree, CommitBranch, storeVars
<1>3. ASSUME NEW w \in Workers, WorkerStep(w) PROVE NoSelfInput' /\ SeenBefore'
  <2>1. ASSUME NEW content \in [Files -> Blobs], NEW c \in Cands, NEW b \in Branches,
               NEW paths \in SUBSET Files, SubmitCandidate(w, content, c, b, paths)
        PROVE  NoSelfInput' /\ SeenBefore'
    <3> PICK r : r = ResultOf(snap[w], "done", Len(commits) + 1)
      OBVIOUS
    <3>1. /\ Frozen(w) /\ ~Conflict(snap[w], "done", r.output, Project)
          /\ version' = version + 1 /\ UNCHANGED defn
      BY <2>1 DEF SubmitCandidate, Submitting, Record
    <3>2. "done" \in Outcomes /\ Len(commits) + 1 \in Nat
      BY OutputNumber DEF PinInv, Outcomes, WorkOutcomes
    <3>3. r \in Result /\ r.ver = version + 1
      BY <1>0, <3>1, <3>2, FrozenIsThere, ResultOfTyped
    <3>4. snap[w].node \in Nodes
      BY <1>0, <3>1, FrozenIsThere DEF Existing
    <3>5. version \in Nat /\ r.ver <= version' /\ version <= version' /\ version' \in Nat
      BY <3>1, <3>3 DEF PinInv, Inv, TypeOK, FactsOK
    <3>6. PICK seen : observed' = [observed EXCEPT ![snap[w].node] =
                                     observed[snap[w].node] \cup Observations(r, seen)]
      BY <2>1 DEF SubmitCandidate
    <3>7. SeenBefore'
      BY <3>3, <3>5, <3>6, <3>4, ObservationsAreSeen
    <3> QED BY <3>1, <3>7 DEF NoSelfInput, Existing
  <2> QED BY <1>1, <1>3, <2>1 DEF WorkerStep, SnapshotCheck, SnapshotPin, SnapshotFreeze,
     Drop, SubmitFailed, SubmitDone, SubmitVerdict, SubmitAbandoned, Record,
     factVars, storeVars
<1>4. ASSUME NEW c \in Cands, PublishStep(c) PROVE NoSelfInput' /\ SeenBefore'
  BY <1>1, <1>4 DEF PublishStep, PublishCheck, PublishFastForward, PublishGiveUp,
     factVars, storeVars
<1>5. ASSUME CompletionStep PROVE NoSelfInput' /\ SeenBefore'
  BY <1>1, <1>5 DEF CompletionStep, CompleteFreeze, CompleteCapture, CompleteRecord,
     CompleteFail, CommitBranch, Record, factVars, storeVars
<1>6. ASSUME UNCHANGED vars PROVE NoSelfInput' /\ SeenBefore'
  BY <1>1, <1>6 DEF vars, factVars, storeVars
<1>7. NoSelfInput' /\ SeenBefore'
  BY <1>1, <1>2, <1>3, <1>4, <1>5, <1>6 DEF Next, vars, factVars, storeVars
<1>8. ProposedBefore'
  <2>1. ASSUME UNCHANGED cand, version' \in {version, version + 1} PROVE ProposedBefore'
    BY <2>1, ProposedStays DEF Registered
  <2>2. ASSUME CompletionStep \/ \E c \in Cands : PublishStep(c) PROVE ProposedBefore'
    BY <2>1, <2>2 DEF CompletionStep, CompleteFreeze, CompleteCapture, CompleteRecord,
       CompleteFail, CommitBranch, Record, PublishStep, PublishCheck, PublishFastForward,
       PublishGiveUp, factVars, storeVars
  <2> QED BY <2>1, <2>2, OperationKeepsProposed, WorkerKeepsProposed
       DEF Next, vars, factVars, storeVars
<1> QED BY <1>7, <1>8

(* A result that passes the checks is not stale once it is recorded: its    *)
(* pins, taken long ago, are those of this moment, and its output, if it has *)
(* one, is what the checkout holds.                                          *)
LEMMA RecordedResultIsFresh ==
  ASSUME SettleInv, NEW s, s.node \in Existing, s.revision \in Nat,
         s.context \in SUBSET ContextPin, NEW outcome \in Outcomes,
         NEW output \in Nat \cup {None}, ~Conflict(s, outcome, output, Project),
         Record(s.node, ResultOf(s, outcome, output)),
         UNCHANGED <<defn, observed, tree, commits>>, tree = commits[HeadCommit].tree,
         output # None => UNCHANGED cand /\ tree = commits[output].tree,
         NEW n \in Nodes, n = s.node
  PROVE  /\ ~IsStale(n)'
         /\ result'[n] # None
         /\ result'[n].outcome = outcome
         /\ IntegrationOf(n)' = "not_required"
<1> PICK r : r = ResultOf(s, outcome, output)
  OBVIOUS
<1>0. Inv
  BY DEF SettleInv, PinInv
<1>1. /\ s.defn = defn[n] /\ s.deps = PinNodeList(defn[n].dep)
      /\ s.lineage = PinNodeList(defn[n].der)
  BY SnapshotIsCurrent
<1>2. /\ r.ver = version + 1 /\ r.outcome = outcome /\ r.output = output
      /\ r.defn = s.defn /\ r.deps = s.deps
      /\ r.lineage = s.lineage /\ r.context = s.context
  BY DEF ResultOf, NewResult
<1>3. /\ result'[n] = r /\ r # None
      /\ \A m \in Nodes \ {n} : result'[m] = result[m]
  <2>1. r \in Result
    BY <1>0, ResultOfTyped
  <2> QED BY <1>0, <2>1, NoneAssumption DEF Record, Inv, TypeOK, FactsOK
<1>4. ASSUME NEW p \in Consumed(r) PROVE ~PinIsStale(p)'
  <2>1. PICK m \in defn[n].dep \cup defn[n].der : p = PinOf(m)
    BY <1>1, <1>2, <1>4 DEF Consumed, PinNodeList
  <2>2. m # n /\ m \in Nodes
    BY <1>0, <2>1 DEF SettleInv, NoSelfInput, Inv, Closed, GraphIsClosed, Existing
  <2>3. p.id = m /\ p.defn = defn[m] /\ p.ver = Version(m) /\ p.output = Output(m)
    BY <2>1 DEF PinOf
  <2>4. Version(m)' = Version(m) /\ Output(m)' = Output(m)
    BY <1>3, <2>2 DEF Version, Output
  <2> QED BY <2>3, <2>4 DEF PinIsStale
<1>5. \A x \in observed'[n] : x.ver # r.ver
  <2>1. version \in Nat /\ observed[n] \subseteq Observation
    BY <1>0 DEF Inv, TypeOK, FactsOK
  <2>2. \A x \in observed[n] : x.ver \in Nat /\ x.ver <= version
    BY <2>1 DEF SettleInv, SeenBefore, Observation
  <2> QED BY <1>2, <2>1, <2>2
<1>6. ContextPins(n)' = s.context
  BY <1>2, <1>3, <1>5 DEF ContextPins
<1>7. \A p \in ContextPins(n)' : tree'[p.path] = p.blob
  BY <1>6 DEF Conflict, ContextChanged, Project
<1>8. CandidatesForResult(n)' = {}
  <2>1. CASE output = None
    BY <1>2, <1>3, <2>1 DEF CandidatesForResult
  <2>2. CASE output # None
    <3>1. version \in Nat /\ \A c \in Registered : cand[c].ver \in Nat
      BY <1>0 DEF Registered, Inv, TypeOK, FactsOK, Candidate
    <3>2. \A c \in Registered : cand[c].ver # version + 1
      BY <3>1 DEF SettleInv, ProposedBefore
    <3> QED BY <1>2, <1>3, <2>2, <3>2 DEF CandidatesForResult, Registered
  <2> QED BY <2>1, <2>2
<1>9. ~OutputDriftedIn(tree, n)'
  <2>1. CASE output = None
    BY <1>2, <1>3, <2>1 DEF OutputDriftedIn
  <2>2. CASE output # None
    <3>1. ~Drifted(output, tree)'
      BY <2>2 DEF Drifted
    <3> QED BY <1>2, <1>3, <1>8, <3>1 DEF OutputDriftedIn
  <2> QED BY <2>1, <2>2
<1>10. ~IsStale(n)'
  BY <1>1, <1>2, <1>3, <1>4, <1>7, <1>9 DEF IsStale, IsStaleIn
<1>11. IntegrationOf(n)' = "not_required"
  BY <1>8 DEF IntegrationOf
<1> QED BY <1>2, <1>3, <1>10, <1>11

(* The first candidates of a fresh output are those its submission makes.  *)
LEMMA FreshOutputHasNoCandidate ==
  ASSUME Inv, NEW x \in Cands, cand[x] # None
  PROVE  cand[x].artifact # Len(commits) + 1
<1>1. commits \in Seq(Commit) /\ Commits = 1 .. Len(commits) /\ cand[x].artifact \in Commits
  BY DEF Inv, TypeOK, FactsOK, Commits, Closed, ProjectIsClosed, Registered
<1> QED BY <1>1

(* Work submitted with its candidate awaits that candidate's integration.  *)
LEMMA ProposedWorkAwaits ==
  ASSUME Inv, NEW w \in Workers, NEW content \in [Files -> Blobs], NEW c \in Cands,
         NEW target \in Branches, NEW paths \in SUBSET Files,
         SubmitCandidate(w, content, c, target, paths),
         NEW n \in Nodes, n = snap[w].node
  PROVE  /\ \A m \in Nodes \ {n} : result'[m] = result[m]
         /\ IsAwaitingIntegration(n)'
<1> PICK r : r = ResultOf(snap[w], "done", Len(commits) + 1)
  OBVIOUS
<1> PICK new : new = NewCandidate(n, r.ver, r.output, target)
  OBVIOUS
<1>1. /\ Frozen(w) /\ ~Conflict(snap[w], "done", r.output, Project)
      /\ n \in Work /\ Record(n, r)
      /\ cand' = [cand EXCEPT ![c] = new] /\ cand[c] = None
  BY DEF SubmitCandidate, Submitting
<1>2. r.output = Len(commits) + 1 /\ r.ver = version + 1
  BY DEF ResultOf, NewResult
<1>3. r.output # None /\ r.output \in Nat /\ r.ver \in Nat /\ r # None /\ n \in Nodes
  <2>1. "done" \in Outcomes /\ Len(commits) + 1 \in Nat
    BY OutputNumber DEF Outcomes, WorkOutcomes
  <2>2. r \in Result
    BY <1>1, <2>1, FrozenIsThere, ResultOfTyped
  <2> QED BY <1>1, <1>2, <2>1, <2>2, IdAssumption, NoneAssumption DEF Result, Nodes
<1>4. /\ new \in Candidate /\ new # None /\ new.status = "pending" /\ new.node = n
      /\ new.ver = r.ver /\ new.artifact = r.output
  BY <1>1, <1>3, NoneAssumption DEF NewCandidate, Candidate
<1>5. /\ result'[n] = r /\ \A m \in Nodes \ {n} : result'[m] = result[m]
      /\ cand'[c] = new /\ \A x \in Cands \ {c} : cand'[x] = cand[x]
  BY <1>1, <1>3 DEF Record, Inv, TypeOK, FactsOK
<1>6. CandidatesForResult(n)' = {c}
  <2>1. c \in CandidatesForResult(n)'
    BY <1>3, <1>4, <1>5 DEF CandidatesForResult, Registered
  <2>2. ASSUME NEW x \in CandidatesForResult(n)', x # c PROVE FALSE
    <3>1. x \in Cands /\ cand[x] # None /\ cand[x].artifact = r.output
      BY <1>5, <2>2 DEF CandidatesForResult, Registered
    <3> QED BY <1>2, <1>3, <3>1, FreshOutputHasNoCandidate
  <2> QED BY <2>1, <2>2
<1>7. Integration(c)' = "pending"
  BY <1>4, <1>5 DEF Integration
<1>8. IntegrationOf(n)' = "pending"
  BY <1>6, <1>7 DEF IntegrationOf
<1>9. IsAwaitingIntegration(n)'
  BY <1>8 DEF IsAwaitingIntegration, IntegrationDone
<1> QED BY <1>5, <1>9

(* Recording changes the result of one node only. *)
LEMMA RecordTouchesOne ==
  ASSUME Inv, NEW n \in Nodes, NEW r, Record(n, r)
  PROVE  result'[n] = r /\ \A m \in Nodes \ {n} : result'[m] = result[m]
BY DEF Record, Inv, TypeOK, FactsOK

Settles(n) ==
  /\ result'[n] # result[n]
  /\ result'[n].outcome # "failed"
  /\ tree = commits[HeadCommit].tree
  => IsComplete(n)' \/ IsAwaitingIntegration(n)'

(* A success or a verdict that passes the checks completes its node. *)
LEMMA FreshResultSettles ==
  ASSUME SettleInv, NEW s, s.node \in Existing, s.revision \in Nat,
         s.context \in SUBSET ContextPin, NEW outcome \in Outcomes,
         outcome = "done" \/ outcome \in Verdicts,
         NEW output \in Nat \cup {None}, ~Conflict(s, outcome, output, Project),
         Record(s.node, ResultOf(s, outcome, output)),
         UNCHANGED <<defn, observed, tree, commits>>,
         output # None => UNCHANGED cand /\ HeadCommit = output,
         NEW n \in Nodes
  PROVE  Settles(n)
<1> SUFFICES ASSUME result'[n] # result[n], tree = commits[HeadCommit].tree
             PROVE  IsComplete(n)'
  BY DEF Settles
<1>1. n = s.node
  <2>1. s.node \in Nodes
    BY DEF Existing
  <2> QED BY <2>1, RecordTouchesOne DEF SettleInv, PinInv
<1>2. /\ ~IsStale(n)' /\ result'[n] # None /\ result'[n].outcome = outcome
      /\ IntegrationOf(n)' = "not_required"
  BY <1>1, RecordedResultIsFresh
<1> QED BY <1>2 DEF IsComplete, IsCompleteIn, IsStale

(* A failure settles nothing, and need not. *)
LEMMA FailureSettles ==
  ASSUME Inv, NEW m \in Nodes, NEW r, r.outcome = "failed", Record(m, r), NEW n \in Nodes
  PROVE  Settles(n)
BY RecordTouchesOne DEF Settles

(* A completion settles its node. *)
LEMMA CompletionSettles ==
  ASSUME SettleInv, HistoryInv, CompletionStep, NEW n \in Nodes
  PROVE  Settles(n)
<1>0. Inv
  BY DEF SettleInv, PinInv
<1>1. ASSUME CompleteRecord PROVE Settles(n)
  <2>1. /\ completing # None
        /\ ~Conflict(completing, "done", completing.output, Project)
        /\ Record(completing.node, ResultOf(completing, "done", completing.output))
        /\ UNCHANGED <<defn, observed, tree, commits, cand>>
    BY <1>1 DEF CompleteRecord, projectVars
  <2>2. /\ completing.node \in Existing /\ completing.revision \in Nat
        /\ completing.context \in SUBSET ContextPin
        /\ completing.output \in Nat \cup {None} /\ "done" \in Outcomes
    BY <1>0, <2>1, CompletionIsThere DEF Outcomes, WorkOutcomes
  <2>3. completing.output # None => HeadCommit = completing.output
    BY <1>0, <2>1, CompletionIsCheckedOut
  <2> QED BY <2>1, <2>2, <2>3, FreshResultSettles
<1>2. ASSUME ~CompleteRecord PROVE Settles(n)
  BY <1>2 DEF CompletionStep, CompleteFreeze, CompleteCapture, CompleteFail, CommitBranch,
     factVars, storeVars, Settles
<1> QED BY <1>1, <1>2

(* No step of any kind leaves recorded work unsettled. *)
LEMMA StepSettles ==
  ASSUME SettleInv, HistoryInv, [Next]_vars, NEW n \in Nodes
  PROVE  Settles(n)
<1>0. Inv
  BY DEF SettleInv, PinInv
<1>1. CASE UNCHANGED result
  BY <1>1 DEF Settles
<1>2. CASE GraphStep \/ OwnerStep
  <2>1. ASSUME NEW m \in Work, Fail(m) PROVE Settles(n)
    <3> PICK r : r = NewResult("failed", defn[m], PinNodeList(defn[m].dep),
                               PinNodeList(defn[m].der), {}, HeadCommit, None)
      OBVIOUS
    <3>1. Record(m, r) /\ m \in Nodes /\ r.outcome = "failed"
      BY <2>1 DEF Fail, Nodes, NewResult
    <3> QED BY <1>0, <3>1, FailureSettles
  <2> QED BY <1>1, <1>2, <2>1 DEF GraphStep, OwnerStep, Add, AddVerification, AddNode, Link,
     Edit, ObserveContext, Register, EditTree, CommitBranch, storeVars
<1>3. ASSUME NEW w \in Workers, WorkerStep(w) PROVE Settles(n)
  <2>1. ASSUME NEW at \in Checkouts, SubmitFailed(w, at) PROVE Settles(n)
    <3> PICK r : r = ResultOf(snap[w], "failed", None)
      OBVIOUS
    <3>1. Record(snap[w].node, r) /\ snap[w].node \in Nodes /\ r.outcome = "failed"
      BY <1>0, <2>1, FrozenIsThere DEF SubmitFailed, Submitting, Existing, ResultOf, NewResult
    <3> QED BY <1>0, <3>1, FailureSettles
  <2>2. ASSUME NEW outcome \in Outcomes, outcome = "done" \/ outcome \in Verdicts,
               Submitting(w), ~Conflict(snap[w], outcome, None, Project),
               Record(snap[w].node, ResultOf(snap[w], outcome, None)),
               UNCHANGED <<defn, observed, tree, commits>>
        PROVE  Settles(n)
    <3>1. /\ snap[w].node \in Existing /\ snap[w].revision \in Nat
          /\ snap[w].context \in SUBSET ContextPin
      BY <1>0, <2>2, FrozenIsThere DEF Submitting
    <3> QED BY <2>2, <3>1, FreshResultSettles
  <2>3. CASE SubmitDone(w) \/ SubmitAbandoned(w)
    BY <2>2, <2>3 DEF SubmitDone, SubmitAbandoned, projectVars, Outcomes, WorkOutcomes,
       Verdicts
  <2>4. ASSUME NEW verdict \in Verdicts, SubmitVerdict(w, verdict) PROVE Settles(n)
    BY <2>2, <2>4 DEF SubmitVerdict, projectVars, Outcomes
  <2>5. ASSUME NEW content \in [Files -> Blobs], NEW c \in Cands, NEW b \in Branches,
               NEW paths \in SUBSET Files, SubmitCandidate(w, content, c, b, paths)
        PROVE  Settles(n)
    <3>1. PICK m \in Nodes : m = snap[w].node
      BY <1>0, <2>5, FrozenIsThere DEF SubmitCandidate, Submitting, Existing
    <3> QED BY <1>0, <2>5, <3>1, ProposedWorkAwaits DEF Settles
  <2>6. CASE UNCHANGED factVars
    BY <1>1, <2>6 DEF factVars, storeVars
  <2> QED BY <1>3, <2>1, <2>3, <2>4, <2>5, <2>6 DEF WorkerStep, SnapshotCheck,
     SnapshotPin, SnapshotFreeze, Drop
<1>4. ASSUME NEW c \in Cands, PublishStep(c) PROVE Settles(n)
  BY <1>1, <1>4 DEF PublishStep, PublishCheck, PublishFastForward, PublishGiveUp,
     factVars, storeVars
<1>5. CASE UNCHANGED vars
  BY <1>1, <1>5 DEF vars, factVars, storeVars
<1> QED BY <1>2, <1>3, <1>4, <1>5, CompletionSettles DEF Next

(* Accepted work counts: in a clean checkout, a submission that is recorded *)
(* leaves its node complete or awaiting integration, never ready to be      *)
(* dispatched again (submit_result_locked and staleness_for_result).        *)
THEOREM AcceptedWorkCounts == Spec => AcceptedWorkSettles
<1>1. Init => NoSelfInput /\ SeenBefore /\ ProposedBefore
  <2> SUFFICES ASSUME Init PROVE NoSelfInput /\ SeenBefore /\ ProposedBefore
    OBVIOUS
  <2>1. Existing = {} /\ Registered = {} /\ \A n \in Nodes : observed[n] = {}
    BY DEF Init, InitFacts, Existing, Registered
  <2> QED BY <2>1 DEF NoSelfInput, SeenBefore, ProposedBefore
<1>2. SettleInv /\ [Next]_vars => NoSelfInput' /\ SeenBefore' /\ ProposedBefore'
  BY StepKeepsSettleInv
<1>3. SettleInv /\ HistoryInv /\ [Next]_vars => [\A n \in Nodes : Settles(n)]_vars
  BY StepSettles
<1>4. Inv /\ PinsAreFaithful /\ NoSelfInput /\ SeenBefore /\ ProposedBefore <=> SettleInv
  BY DEF SettleInv, PinInv
<1>5. Spec => [][\A n \in Nodes : Settles(n)]_vars
  BY <1>1, <1>2, <1>3, <1>4, InvIsInvariant, HistoryIsInvariant, PinsStayFaithful, PTL
     DEF Spec
<1> QED BY <1>5 DEF AcceptedWorkSettles, Settles

=============================================================================
