--------------------------- MODULE LinkaOperations ---------------------------
(***************************************************************************)
(* The operations of Linka that are one step because they run under the    *)
(* store's mutation lock, the building blocks of those that are not, and   *)
(* what the project's owner does to the project.                           *)
(*                                                                         *)
(* That a mutation under the lock may be one step, although it writes      *)
(* several files and may be interrupted, is the subject of StoreMutation.  *)
(***************************************************************************)
EXTENDS LinkaState

CONSTANTS
  AddCalls,    \* the <<node, depends_on, derived_from>> the users may add
  LinkCalls,   \* the <<from, to, kind>> they may link
  MaxVersion,  \* bound on the results ever recorded
  MaxCommit    \* bound on the commits ever made

ASSUME CallAssumption ==
  /\ AddCalls \subseteq Nodes \X (SUBSET Nodes) \X (SUBSET Nodes)
  /\ LinkCalls \subseteq Nodes \X Nodes \X {"dep", "der"}
  /\ MaxVersion \in Nat
  /\ MaxCommit \in Nat

VARIABLE
  version      \* results recorded so far; the last one's number

factVars == <<storeVars, projectVars, version>>

FactsOK ==
  /\ defn \in [Nodes -> Definition \cup {None}]
  /\ result \in [Nodes -> Result \cup {None}]
  /\ observed \in [Nodes -> SUBSET Observation]
  /\ cand \in [Cands -> Candidate \cup {None}]
  /\ commits \in Seq(Commit)
  /\ refs \in [Branches -> Nat]
  /\ tree \in [Files -> Blobs]
  /\ version \in Nat

(* A store with no nodes beside a project with its root commit.  The root's *)
(* parent is itself: it introduces no file.                                  *)
InitFacts ==
  /\ defn = [n \in Nodes |-> None]
  /\ result = [n \in Nodes |-> None]
  /\ observed = [n \in Nodes |-> {}]
  /\ cand = [c \in Cands |-> None]
  /\ \E b \in Blobs :
       /\ commits = <<[parent |-> 1, anc |-> {1}, tree |-> [f \in Files |-> b]]>>
       /\ tree = [f \in Files |-> b]
  /\ refs = [b \in Branches |-> 1]
  /\ version = 0

-----------------------------------------------------------------------------
(* Editing the graph. *)

AddNode(n, dep, der, verifies, desc) ==
  /\ defn[n] = None
  /\ dep \cup der \subseteq Existing
  /\ defn' = [defn EXCEPT ![n] =
                [dep |-> dep, der |-> der, verifies |-> verifies, desc |-> desc]]
  /\ UNCHANGED <<result, observed, cand, projectVars, version>>

Add(n, dep, der, desc) ==
  /\ n \in Work
  /\ AddNode(n, dep, der, None, desc)

(* A verification always derives from the candidate's source node. *)
AddVerification(v, dep, der, c, desc) ==
  /\ v \in Reviews
  /\ cand[c] # None
  /\ AddNode(v, dep, der \cup {cand[c].node}, c, desc)

(* Self-links and duplicates are refused; cycles are not looked for. *)
Link(from, to, kind) ==
  /\ from # to
  /\ {from, to} \subseteq Existing
  /\ \/ /\ kind = "dep"
        /\ to \notin defn[from].dep
        /\ defn' = [defn EXCEPT ![from].dep = defn[from].dep \cup {to}]
     \/ /\ kind = "der"
        /\ to \notin defn[from].der
        /\ defn' = [defn EXCEPT ![from].der = defn[from].der \cup {to}]
  /\ UNCHANGED <<result, observed, cand, projectVars, version>>

(* Submitting the description a node has is a no-op; an earlier one brings  *)
(* the earlier definition version back.                                      *)
Edit(n, desc) ==
  /\ n \in Existing
  /\ defn[n].desc # desc
  /\ defn' = [defn EXCEPT ![n].desc = desc]
  /\ UNCHANGED <<result, observed, cand, projectVars, version>>

-----------------------------------------------------------------------------
(* Recording results. *)

(* Mutant: a result's version does not tell it from an earlier one. *)
NewResultReusingVersion(outcome, definition, deps, lineage, context, revision, output) ==
  [ver |-> 1, outcome |-> outcome, defn |-> definition,
   deps |-> deps, lineage |-> lineage, context |-> context,
   revision |-> revision, output |-> output]

NewResult(outcome, definition, deps, lineage, context, revision, output) ==
  [ver |-> version + 1, outcome |-> outcome, defn |-> definition,
   deps |-> deps, lineage |-> lineage, context |-> context,
   revision |-> revision, output |-> output]

Record(n, r) ==
  /\ version < MaxVersion
  /\ version' = version + 1
  /\ result' = [result EXCEPT ![n] = r]

(* A failure may be recorded for any ordinary node, ready or not. *)
Fail(n) ==
  /\ n \in Work \cap Existing
  /\ Record(n, NewResult("failed", defn[n], PinNodeList(defn[n].dep),
                         PinNodeList(defn[n].der), {}, HeadCommit, None))
  /\ UNCHANGED <<defn, observed, cand, projectVars>>

(* Paths a node's output already covers, or the result already pins, are    *)
(* not observed again; the rest are identified at the frozen revision.      *)
NodeOutputs == UNION {FilesIn(Output(n)) : n \in {m \in Recorded : Output(m) # None}}

Observable(n, r) ==
  {f \in Files : /\ f \notin {p.path : p \in r.context}
                 /\ f \notin {o.path : o \in {x \in observed[n] : x.ver = r.ver}}}

Observations(r, paths) ==
  {[ver |-> r.ver, path |-> f, blob |-> commits[r.revision].tree[f]] : f \in paths}

ObserveContext(n, paths) ==
  LET r == result[n]
      seen == (paths \cap Observable(n, r)) \ NodeOutputs
  IN /\ n \in Recorded
     /\ seen # {}
     /\ observed' = [observed EXCEPT ![n] = @ \cup Observations(r, seen)]
     /\ UNCHANGED <<defn, result, cand, projectVars, version>>

-----------------------------------------------------------------------------
(* Outputs and candidates. *)

(* The work's commit is parented on the frozen revision.  No branch moves. *)
Capture(revision, content) ==
  /\ Len(commits) < MaxCommit
  /\ content # commits[revision].tree
  /\ commits' = Append(commits,
       [parent |-> revision, tree |-> content,
        anc |-> commits[revision].anc \cup {Len(commits) + 1}])
  /\ UNCHANGED <<refs, tree>>

NewCandidate(n, ver, artifact, target) ==
  [node |-> n, ver |-> ver, artifact |-> artifact, target |-> target,
   status |-> "pending", verification |-> None, previous |-> None]

(* Only a success with an output can be proposed, and only once: a second   *)
(* call with the same facts returns the candidate there is.  Nobody asks     *)
(* whether the output is on a branch already, as one of `complete` is.       *)
Register(c, n, target) ==
  /\ cand[c] = None
  /\ n \in Work \cap Recorded
  /\ result[n].outcome = "done"
  /\ result[n].output # None
  /\ CandidatesForResult(n) = {}
  /\ cand' = [cand EXCEPT ![c] =
                NewCandidate(n, result[n].ver, result[n].output, target)]
  /\ UNCHANGED <<defn, result, observed, projectVars, version>>

(* The candidate is still its node's current result, in this status. *)
RequireCurrent(c, status) ==
  LET n == cand[c].node
  IN /\ result[n] # None
     /\ result[n].ver = cand[c].ver
     /\ result[n].output = cand[c].artifact
     /\ ~Unreadable(n)
     /\ IntegrationOf(n) = status
     /\ ~IsStale(n)

ExactPin(c, s) ==
  \E p \in s.deps \cup s.lineage : /\ p.id = cand[c].node
                                   /\ p.ver = cand[c].ver
                                   /\ p.output = cand[c].artifact

(* Mutant: acceptance pins the name of the target, not its commit. *)
DecidedStateByName(c, v, verdict) ==
  [cand[c] EXCEPT !.status = verdict, !.verification = v,
                  !.previous = IF verdict = "accepted" THEN cand[c].target ELSE None]

(* Accepting pins the target as it stands when the decision is made. *)
DecidedState(c, v, verdict) ==
  [cand[c] EXCEPT !.status = verdict,
                  !.verification = v,
                  !.previous = IF verdict = "accepted"
                               THEN refs[cand[c].target] ELSE None]

(* Mutant: the swap no longer compares. *)
CanFastForwardUnchecked(c) ==
  /\ IsAncestor(cand[c].previous, cand[c].artifact)
  /\ cand[c].target = Main => tree = commits[HeadCommit].tree

(* What the compare-and-swap of publish_fast_forward asks of the project. *)
CanFastForward(c) ==
  /\ refs[cand[c].target] = cand[c].previous
  /\ IsAncestor(cand[c].previous, cand[c].artifact)
  /\ cand[c].target = Main => tree = commits[HeadCommit].tree

FastForward(c) ==
  /\ refs' = [refs EXCEPT ![cand[c].target] = cand[c].artifact]
  /\ tree' = IF cand[c].target = Main
             THEN commits[cand[c].artifact].tree ELSE tree

-----------------------------------------------------------------------------
(* The project's owner edits the checkout and commits, on any branch.  On   *)
(* the one checked out a commit takes some paths of the working tree.        *)

EditTree(f, b) ==
  /\ tree[f] # b
  /\ tree' = [tree EXCEPT ![f] = b]
  /\ UNCHANGED <<storeVars, commits, refs, version>>

CommitBranch(b, content) ==
  /\ Len(commits) < MaxCommit
  /\ content # commits[refs[b]].tree
  /\ b = Main => \A f \in Files : content[f] \in {tree[f], commits[HeadCommit].tree[f]}
  /\ commits' = Append(commits,
       [parent |-> refs[b], tree |-> content,
        anc |-> commits[refs[b]].anc \cup {Len(commits) + 1}])
  /\ refs' = [refs EXCEPT ![b] = Len(commits) + 1]
  /\ UNCHANGED <<storeVars, tree, version>>

-----------------------------------------------------------------------------
GraphStep ==
  \/ \E call \in AddCalls, desc \in Descs :
       \/ Add(call[1], call[2], call[3], desc)
       \/ \E c \in Cands : AddVerification(call[1], call[2], call[3], c, desc)
  \/ \E call \in LinkCalls : Link(call[1], call[2], call[3])
  \/ \E n \in Nodes, desc \in Descs : Edit(n, desc)
  \/ \E n \in Work : Fail(n)
  \/ \E n \in Nodes, paths \in SUBSET Files : ObserveContext(n, paths)
  \/ \E c \in Cands, n \in Work, b \in Branches : Register(c, n, b)

OwnerStep ==
  \/ \E f \in Files, b \in Blobs : EditTree(f, b)
  \/ \E b \in Branches, content \in [Files -> Blobs] : CommitBranch(b, content)

=============================================================================
