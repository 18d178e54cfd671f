----------------------------- MODULE LinkaState -----------------------------
(***************************************************************************)
(* The facts a Linka store keeps, the project repository it is paired      *)
(* with, and the state of a node that is derived from both.                *)
(*                                                                         *)
(* Nothing here is an action.  A node has a definition and at most one     *)
(* result; its readiness, completeness and staleness are never stored but  *)
(* recomputed by node_state (linka/src/ops/state.rs), which this module    *)
(* translates.  Definitions are identified by their content, so a          *)
(* definition is its own version; results carry a timestamp, so each one   *)
(* gets a fresh number.                                                    *)
(***************************************************************************)
EXTENDS Naturals, Sequences

CONSTANTS
  Work,        \* identifiers of ordinary nodes
  Reviews,     \* identifiers of verification nodes
  Cands,       \* identifiers of candidate records
  Descs,       \* node descriptions
  Files,       \* project paths
  Blobs,       \* file contents
  Branches,    \* branches of the project repository
  Main,        \* the branch checked out in the project
  None         \* an absent record, pin or identifier

Nodes == Work \cup Reviews

ASSUME IdAssumption ==
  /\ Work \cap Reviews = {}
  /\ Main \in Branches
  /\ None \notin Nodes \cup Cands \cup Nat

WorkOutcomes == {"done", "failed"}
Verdicts     == {"accepted", "rejected", "abandoned"}
Outcomes     == WorkOutcomes \cup Verdicts

VARIABLES
  defn,        \* node -> its definition (node.toml, description.md) or None
  result,      \* node -> its current result (result.toml, result.md) or None
  observed,    \* node -> late context observations (observations/*.toml)
  cand,        \* candidate -> its record (candidate.toml) or None
  commits,     \* the project's commits, in creation order
  refs,        \* branch -> the commit it names
  tree         \* path -> content in the project working tree

storeVars   == <<defn, result, observed, cand>>
projectVars == <<commits, refs, tree>>

-----------------------------------------------------------------------------
(* The shape of the records. *)

Commits == DOMAIN commits

Definition == [dep: SUBSET Nodes, der: SUBSET Nodes,
               verifies: Cands \cup {None}, desc: Descs]

Pin == [id: Nodes, defn: Definition, ver: Nat \cup {None},
        outcome: Outcomes \cup {None}, output: Nat \cup {None}]

ContextPin == [path: Files, blob: Blobs]

Result == [ver: Nat, outcome: Outcomes, defn: Definition,
           deps: SUBSET Pin, lineage: SUBSET Pin, context: SUBSET ContextPin,
           revision: Nat, output: Nat \cup {None}]

Observation == [ver: Nat, path: Files, blob: Blobs]

Candidate == [node: Work, ver: Nat, artifact: Nat, target: Branches,
              status: {"pending", "accepted", "rejected"},
              verification: Reviews \cup {None}, previous: Nat \cup {None}]

Commit == [parent: Nat, anc: SUBSET Nat, tree: [Files -> Blobs]]

(* An absent record is not a record, an absent outcome no outcome. *)
ASSUME NoneAssumption == None \notin Definition \cup Candidate \cup Result \cup Outcomes

-----------------------------------------------------------------------------
(* Reading the store. *)

Existing  == {n \in Nodes : defn[n] # None}
Recorded  == {n \in Nodes : result[n] # None}
Registered == {c \in Cands : cand[c] # None}

Version(n) == IF result[n] = None THEN None ELSE result[n].ver
Output(n)  == IF result[n] = None THEN None ELSE result[n].output
Outcome(n) == IF result[n] = None THEN None ELSE result[n].outcome

(* What a result or a snapshot freezes about a node it builds on. *)
PinOf(n) == [id |-> n, defn |-> defn[n], ver |-> Version(n),
             outcome |-> Outcome(n), output |-> Output(n)]

PinNodeList(S) == {PinOf(n) : n \in S}

Consumed(r) == r.deps \cup r.lineage

(* The candidates attached to this exact result and artifact. *)
CandidatesForResult(n) ==
  {c \in Registered : /\ cand[c].node = n
                      /\ result[n] # None
                      /\ result[n].output # None
                      /\ cand[c].ver = result[n].ver
                      /\ cand[c].artifact = result[n].output}

-----------------------------------------------------------------------------
(* Reading the project repository. *)

IsAncestor(a, b) == a \in commits[b].anc

HeadCommit == refs[Main]

(* A checkout, as the commit it is on and the files it holds: the project's *)
(* own, or the worktree an attempt is made in.                               *)
Project   == [head |-> HeadCommit, tree |-> tree]
Checkouts == [head: Commits, tree: [Files -> Blobs]]

ContextAt(k, paths) == {[path |-> f, blob |-> commits[k].tree[f]] : f \in paths}

(* The files an output commit changes, relative to its parent. *)
FilesIn(k) ==
  {f \in Files : commits[k].tree[f] # commits[commits[k].parent].tree[f]}

Drifted(k, now) == \E f \in FilesIn(k) : now[f] # commits[k].tree[f]

-----------------------------------------------------------------------------
(* The derived state of a node. *)

(* Publication is derived from Git ancestry, never recorded. *)
Integration(c) ==
  CASE cand[c].status = "pending"  -> "pending"
    [] cand[c].status = "rejected" -> "rejected"
    [] OTHER -> IF IsAncestor(cand[c].artifact, refs[cand[c].target])
                THEN "published"
                ELSE IF refs[cand[c].target] = cand[c].previous
                     THEN "accepted"
                     ELSE "error"

IntegrationOf(n) ==
  IF CandidatesForResult(n) = {} THEN "not_required"
  ELSE Integration(CHOOSE c \in CandidatesForResult(n) : TRUE)

IntegrationDone(n) ==
  IntegrationOf(n) \in {"not_required", "published", "rejected"}

PinIsStale(p) ==
  \/ defn[p.id] # p.defn
  \/ Version(p.id) # p.ver
  \/ Output(p.id) # p.output

(* Context is compared with the working tree, declared and observed alike. *)
ContextPins(n) ==
  result[n].context \cup
    {[path |-> o.path, blob |-> o.blob] :
        o \in {x \in observed[n] : x.ver = result[n].ver}}

(* What follows is evaluated through the repository a caller opens: the     *)
(* project's checkout or an attempt's worktree.  They share the branches and *)
(* differ in the files they hold, `now`, which only direct outputs are       *)
(* compared with: context is read in the project's checkout by everyone.     *)

(* A candidate's output drifts only once it is published, and then against *)
(* its target; a direct output drifts against the files held.              *)
OutputDriftedIn(now, n) ==
  /\ result[n].output # None
  /\ IF CandidatesForResult(n) = {}
     THEN Drifted(result[n].output, now)
     ELSE \E c \in CandidatesForResult(n) :
            /\ Integration(c) = "published"
            /\ Drifted(result[n].output, commits[refs[cand[c].target]].tree)

(* Mutant: what was consumed is compared, the definition is not. *)
IsStaleByPins(now, n) ==
  /\ result[n] # None
  /\ \/ \E p \in Consumed(result[n]) : PinIsStale(p)
     \/ \E p \in ContextPins(n) : tree[p.path] # p.blob
     \/ OutputDriftedIn(now, n)

IsStaleIn(now, n) ==
  /\ result[n] # None
  /\ \/ defn[n] # result[n].defn
     \/ \E p \in Consumed(result[n]) : PinIsStale(p)
     \/ \E p \in ContextPins(n) : tree[p.path] # p.blob
     \/ OutputDriftedIn(now, n)

IsCompleteIn(now, n) ==
  /\ result[n] # None
  /\ ~IsStaleIn(now, n)
  /\ \/ result[n].outcome \in Verdicts
     \/ /\ result[n].outcome = "done"
        /\ IntegrationOf(n) \in {"not_required", "published"}

BlockersIn(now, n) ==
  {d \in defn[n].dep :
     \/ d \notin Existing
     \/ ~IsCompleteIn(now, d)
     \/ Outcome(d) \in {"rejected", "abandoned"}}

IsAwaitingIntegration(n) == ~IntegrationDone(n)

(* Every node the evaluation of n visits: n and what it depends on. *)
Reach(n) ==
  {m \in Nodes :
     \A S \in SUBSET Nodes :
       (n \in S /\ \A s \in S \cap Existing : defn[s].dep \subseteq S) => m \in S}

(* The evaluation fails for n, and for all that depend on it, when it meets *)
(* a dependency cycle, an ambiguous candidate or an inconsistent target.    *)
Unreadable(n) ==
  \E m \in Reach(n) \cap Existing :
    \/ \E d \in defn[m].dep : m \in Reach(d)
    \/ \E c1, c2 \in CandidatesForResult(m) : c1 # c2
    \/ IntegrationOf(m) = "error"

IsReadyIn(now, n) ==
  /\ n \in Existing
  /\ ~Unreadable(n)
  /\ ~IsCompleteIn(now, n)
  /\ BlockersIn(now, n) = {}
  /\ IntegrationDone(n)

(* Everyone but a failing attempt asks from the project's own checkout. *)
IsStale(n)    == IsStaleIn(tree, n)
IsComplete(n) == IsCompleteIn(tree, n)
Blockers(n)   == BlockersIn(tree, n)
IsReady(n)    == IsReadyIn(tree, n)

=============================================================================
