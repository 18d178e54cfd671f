-------------------------------- MODULE Linka --------------------------------
(***************************************************************************)
(* The Linka graph under its operations.  Workers freeze a node's inputs   *)
(* without holding the store lock, work, and submit against what they      *)
(* froze; a user's `complete` holds the lock while it commits the project; *)
(* reviews decide candidates; publishers check an accepted candidate and   *)
(* swap it in without the lock; and the graph and the project move         *)
(* underneath all of this (GraphStep, OwnerStep).                          *)
(***************************************************************************)
EXTENDS LinkaOperations

CONSTANTS
  Workers,     \* processes that take snapshots and submit results
  Direct       \* work that users also complete in the project's checkout

ASSUME DirectAssumption == Direct \subseteq Work

VARIABLES
  snap,        \* worker -> the work snapshot it holds, or None
  publishing,  \* candidates a publisher has checked and not yet swapped in
  completing,  \* the completion that holds the store lock, or None
  captured,    \* commits completions made in the checkout
  completed    \* those of them the store recorded as an output

completionVars == <<completing, captured, completed>>
processVars == <<snap, publishing, completionVars>>
vars == <<factVars, processVars>>

Snapshot == [stage: {"checked", "pinned", "frozen"}, node: Nodes,
             defn: Definition \cup {None}, deps: SUBSET Pin,
             lineage: SUBSET Pin, context: SUBSET ContextPin,
             revision: Nat, prev: Nat \cup {None}]

Completion == [node: Direct, defn: Definition, deps: SUBSET Pin,
               lineage: SUBSET Pin, context: SUBSET ContextPin,
               revision: Nat, prev: Nat \cup {None},
               outputs: SUBSET Files, output: Nat \cup {None}]

TypeOK ==
  /\ FactsOK
  /\ snap \in [Workers -> Snapshot \cup {None}]
  /\ publishing \subseteq Cands
  /\ completing \in Completion \cup {None}
  /\ captured \subseteq Nat
  /\ completed \subseteq captured

Init ==
  /\ InitFacts
  /\ snap = [w \in Workers |-> None]
  /\ publishing = {}
  /\ completing = None
  /\ captured = {}
  /\ completed = {}

LockFree == completing = None

-----------------------------------------------------------------------------
(* Freezing work and submitting it. *)

(* snapshot_work reads without the lock: first the node's state, then what  *)
(* it builds on, then the project, its context and the previous result.     *)
SnapshotCheck(w, n) ==
  /\ snap[w] = None
  /\ IsReady(n)
  /\ snap' = [snap EXCEPT ![w] =
                [stage |-> "checked", node |-> n, defn |-> None, deps |-> {},
                 lineage |-> {}, context |-> {}, revision |-> 0, prev |-> None]]
  /\ UNCHANGED <<factVars, publishing, completionVars>>

SnapshotPin(w) ==
  /\ snap[w] # None
  /\ snap[w].stage = "checked"
  /\ LET d == defn[snap[w].node]
     IN snap' = [snap EXCEPT ![w].stage   = "pinned",
                             ![w].defn    = d,
                             ![w].deps    = PinNodeList(d.dep),
                             ![w].lineage = PinNodeList(d.der)]
  /\ UNCHANGED <<factVars, publishing, completionVars>>

(* Mutant: the previous result is not frozen with the rest. *)
SnapshotFreezeNoPrevious(w, paths) ==
  /\ snap[w] # None
  /\ snap[w].stage = "pinned"
  /\ snap' = [snap EXCEPT
       ![w].stage    = "frozen",
       ![w].revision = HeadCommit,
       ![w].context  = ContextAt(HeadCommit, paths)]
  /\ UNCHANGED <<factVars, publishing, completionVars>>

SnapshotFreeze(w, paths) ==
  /\ snap[w] # None
  /\ snap[w].stage = "pinned"
  /\ snap' = [snap EXCEPT
       ![w].stage    = "frozen",
       ![w].revision = HeadCommit,
       ![w].context  = ContextAt(HeadCommit, paths),
       ![w].prev     = Version(snap[w].node)]
  /\ UNCHANGED <<factVars, publishing, completionVars>>

Frozen(w) == snap[w] # None /\ snap[w].stage = "frozen"

(* Submitting starts by taking the store lock. *)
Submitting(w) == Frozen(w) /\ LockFree

(* The checks submit_result makes under the lock.  Each compares one frozen *)
(* field with the store, or with the project as the checkout `at` has it.    *)
DefinitionChanged(s)   == defn[s.node] # s.defn
DependenciesChanged(s) == PinNodeList(defn[s.node].dep) # s.deps
LineageChanged(s)      == PinNodeList(defn[s.node].der) # s.lineage
ContextChanged(s, at)  == \E p \in s.context : commits[at.head].tree[p.path] # p.blob
ProjectChanged(s, output, at) == at.head \notin {s.revision, output}
PreviousResultChanged(s) == Version(s.node) # s.prev
ReadinessChanged(s, at)  == ~IsReadyIn(at.tree, s.node)

Satisfies(outcome) == outcome \in {"done", "accepted"}

DependencyUnsatisfied(s, at) ==
  \E p \in s.deps : \/ ~IsCompleteIn(at.tree, p.id)
                    \/ ~Satisfies(p.outcome)
                    \/ p.ver = None

(* Mutants: one of the checks is missing. *)
ConflictWithoutDefinition(s, outcome, output, at) ==
  \/ DependenciesChanged(s)
  \/ LineageChanged(s)
  \/ ProjectChanged(s, output, at)
  \/ ReadinessChanged(s, at)
  \/ PreviousResultChanged(s)

ConflictWithoutProject(s, outcome, output, at) ==
  \/ DefinitionChanged(s)
  \/ DependenciesChanged(s)
  \/ LineageChanged(s)
  \/ ContextChanged(s, at)
  \/ ReadinessChanged(s, at)
  \/ PreviousResultChanged(s)

Conflict(s, outcome, output, at) ==
  \/ DefinitionChanged(s)
  \/ DependenciesChanged(s)
  \/ LineageChanged(s)
  \/ ContextChanged(s, at)
  \/ ProjectChanged(s, output, at)
  \/ ReadinessChanged(s, at)
  \/ outcome # "failed" /\ DependencyUnsatisfied(s, at)
  \/ PreviousResultChanged(s)

ResultOf(s, outcome, output) ==
  NewResult(outcome, s.defn, s.deps, s.lineage, s.context, s.revision, output)

Release(w) == snap' = [snap EXCEPT ![w] = None]

(* A conflict records nothing; so does a worker that gives up or crashes. *)
Drop(w) ==
  /\ snap[w] # None
  /\ Release(w)
  /\ UNCHANGED <<factVars, publishing, completionVars>>

(* A failed attempt is compared with the worktree it happened in, whatever  *)
(* the project's checkout has become: the worktree's head is the frozen      *)
(* revision unless the agent committed.                                      *)
SubmitFailed(w, at) ==
  /\ Submitting(w)
  /\ snap[w].node \in Work
  /\ ~Conflict(snap[w], "failed", None, at)
  /\ Record(snap[w].node, ResultOf(snap[w], "failed", None))
  /\ Release(w)
  /\ UNCHANGED <<defn, observed, cand, projectVars, publishing, completionVars>>

(* Graph-only success, which is also what an answered question records. *)
SubmitDone(w) ==
  /\ Submitting(w)
  /\ snap[w].node \in Work
  /\ ~Conflict(snap[w], "done", None, Project)
  /\ Record(snap[w].node, ResultOf(snap[w], "done", None))
  /\ Release(w)
  /\ UNCHANGED <<defn, observed, cand, projectVars, publishing, completionVars>>

SubmitCandidate(w, content, c, target, paths) ==
  LET n == snap[w].node
      r == ResultOf(snap[w], "done", Len(commits) + 1)
      seen == (paths \cap Observable(n, r)) \ NodeOutputs'
  IN /\ Submitting(w)
     /\ n \in Work
     /\ cand[c] = None
     /\ ~Conflict(snap[w], "done", r.output, Project)
     /\ Capture(snap[w].revision, content)
     /\ Record(n, r)
     /\ cand' = [cand EXCEPT ![c] = NewCandidate(n, r.ver, r.output, target)]
     /\ observed' = [observed EXCEPT ![n] = @ \cup Observations(r, seen)]
     /\ Release(w)
     /\ UNCHANGED <<defn, publishing, completionVars>>

-----------------------------------------------------------------------------
(* Completing work in the project's checkout, under the store lock: freeze, *)
(* commit the outputs on the branch checked out, record.                     *)

(* Commits of completions the store has never recorded. *)
Orphans == captured \ completed

DirtyPaths == {f \in Files : tree[f] # commits[HeadCommit].tree[f]}

(* Mutant: nobody looks at what an interrupted completion left. *)
CompleteFreezeUnchecked(n, outputs, paths) ==
  /\ LockFree
  /\ n \in Direct
  /\ DirtyPaths \subseteq outputs
  /\ IsReady(n)
  /\ completing' = [node |-> n, defn |-> defn[n],
                    deps |-> PinNodeList(defn[n].dep),
                    lineage |-> PinNodeList(defn[n].der),
                    context |-> ContextAt(HeadCommit, paths),
                    revision |-> HeadCommit, prev |-> Version(n),
                    outputs |-> outputs, output |-> None]
  /\ UNCHANGED <<factVars, snap, publishing, captured, completed>>

(* Nothing is built on the commit of a completion that was interrupted, and *)
(* no change but the outputs is pending.  With the store locked the snapshot *)
(* is read in one step.                                                      *)
CompleteFreeze(n, outputs, paths) ==
  /\ LockFree
  /\ n \in Direct
  /\ HeadCommit \notin Orphans
  /\ DirtyPaths \subseteq outputs
  /\ IsReady(n)
  /\ completing' = [node |-> n, defn |-> defn[n],
                    deps |-> PinNodeList(defn[n].dep),
                    lineage |-> PinNodeList(defn[n].der),
                    context |-> ContextAt(HeadCommit, paths),
                    revision |-> HeadCommit, prev |-> Version(n),
                    outputs |-> outputs, output |-> None]
  /\ UNCHANGED <<factVars, snap, publishing, captured, completed>>

(* The owner and publishers are not kept out: the outputs are committed on   *)
(* whatever the branch has become.  Nothing to commit is an error.           *)
CompleteCapture ==
  LET s == completing
      content == [f \in Files |-> IF f \in s.outputs THEN tree[f]
                                  ELSE commits[HeadCommit].tree[f]]
  IN /\ s # None
     /\ s.outputs # {}
     /\ s.output = None
     /\ CommitBranch(Main, content)
     /\ completing' = [s EXCEPT !.output = Len(commits) + 1]
     /\ captured' = captured \cup {Len(commits) + 1}
     /\ UNCHANGED <<snap, publishing, completed>>

(* Without outputs the completion records graph-only work. *)
CompleteRecord ==
  LET s == completing
  IN /\ s # None
     /\ s.outputs # {} => s.output # None
     /\ ~Conflict(s, "done", s.output, Project)
     /\ Record(s.node, ResultOf(s, "done", s.output))
     /\ completed' = completed \cup ({s.output} \ {None})
     /\ completing' = None
     /\ UNCHANGED <<defn, observed, cand, projectVars, snap, publishing, captured>>

(* Refused, for want of changes or for a conflict, or dead: the lock is free *)
(* again, and a commit that was made stays where it is.                      *)
CompleteFail ==
  /\ completing # None
  /\ completing' = None
  /\ UNCHANGED <<factVars, snap, publishing, captured, completed>>

-----------------------------------------------------------------------------
(* Verdicts and publication. *)

(* Mutant: any pinned candidate may be decided, again or too late. *)
SubmitVerdictUnchecked(w, verdict) ==
  LET s == snap[w]
      c == defn[s.node].verifies
  IN /\ Submitting(w)
     /\ s.node \in Reviews
     /\ verdict \in {"accepted", "rejected"}
     /\ ~Conflict(s, verdict, None, Project)
     /\ ExactPin(c, s)
     /\ Record(s.node, ResultOf(s, verdict, None))
     /\ cand' = [cand EXCEPT ![c] = DecidedState(c, s.node, verdict)]
     /\ Release(w)
     /\ UNCHANGED <<defn, observed, projectVars, publishing, completionVars>>

SubmitVerdict(w, verdict) ==
  LET s == snap[w]
      c == defn[s.node].verifies
  IN /\ Submitting(w)
     /\ s.node \in Reviews
     /\ verdict \in {"accepted", "rejected"}
     /\ ~Conflict(s, verdict, None, Project)
     /\ cand[c].status = "pending"
     /\ RequireCurrent(c, "pending")
     /\ ExactPin(c, s)
     /\ Record(s.node, ResultOf(s, verdict, None))
     /\ cand' = [cand EXCEPT ![c] = DecidedState(c, s.node, verdict)]
     /\ Release(w)
     /\ UNCHANGED <<defn, observed, projectVars, publishing, completionVars>>

(* Abandoning reaches no decision and looks at no candidate. *)
SubmitAbandoned(w) ==
  /\ Submitting(w)
  /\ snap[w].node \in Reviews
  /\ ~Conflict(snap[w], "abandoned", None, Project)
  /\ Record(snap[w].node, ResultOf(snap[w], "abandoned", None))
  /\ Release(w)
  /\ UNCHANGED <<defn, observed, cand, projectVars, publishing, completionVars>>

(* publish runs without the store lock: it checks, and then swaps. *)
PublishCheck(c) ==
  /\ cand[c] # None
  /\ c \notin publishing
  /\ cand[c].status = "accepted"
  /\ Integration(c) = "accepted"
  /\ RequireCurrent(c, "accepted")
  /\ publishing' = publishing \cup {c}
  /\ UNCHANGED <<factVars, snap, completionVars>>

PublishFastForward(c) ==
  /\ c \in publishing
  /\ CanFastForward(c)
  /\ FastForward(c)
  /\ publishing' = publishing \ {c}
  /\ UNCHANGED <<storeVars, commits, version, snap, completionVars>>

(* The swap is refused, or the publisher dies before it. *)
PublishGiveUp(c) ==
  /\ c \in publishing
  /\ publishing' = publishing \ {c}
  /\ UNCHANGED <<factVars, snap, completionVars>>

-----------------------------------------------------------------------------
WorkerStep(w) ==
  \/ \E n \in Nodes : SnapshotCheck(w, n)
  \/ SnapshotPin(w)
  \/ \E paths \in SUBSET Files : SnapshotFreeze(w, paths)
  \/ Drop(w)
  \/ \E at \in Checkouts : SubmitFailed(w, at)
  \/ SubmitDone(w)
  \/ \E content \in [Files -> Blobs], c \in Cands, b \in Branches, paths \in SUBSET Files :
       SubmitCandidate(w, content, c, b, paths)
  \/ \E verdict \in Verdicts : SubmitVerdict(w, verdict)
  \/ SubmitAbandoned(w)

CompletionStep ==
  \/ \E n \in Direct, outputs, paths \in SUBSET Files : CompleteFreeze(n, outputs, paths)
  \/ CompleteCapture
  \/ CompleteRecord
  \/ CompleteFail

PublishStep(c) ==
  \/ PublishCheck(c)
  \/ PublishFastForward(c)
  \/ PublishGiveUp(c)

(* Everything that writes the store takes its lock. *)
Next ==
  \/ LockFree /\ GraphStep /\ UNCHANGED processVars
  \/ OwnerStep /\ UNCHANGED processVars
  \/ \E w \in Workers : WorkerStep(w)
  \/ CompletionStep
  \/ \E c \in Cands : PublishStep(c)

Spec == Init /\ [][Next]_vars

=============================================================================
