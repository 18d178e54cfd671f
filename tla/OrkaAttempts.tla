---------------------------- MODULE OrkaAttempts ----------------------------
(***************************************************************************)
(* The life of Orka's attempts: orka run takes a ready node from Linka,    *)
(* lets an agent work on it in a worktree of its own, and submits what the *)
(* agent did; orka recover finishes, from the files an attempt left, what  *)
(* a dead run did not.  Any number of both may run at a time.              *)
(*                                                                         *)
(* A process takes one step per file it writes, per change it makes to the *)
(* project repository and per decision it bases on what others may change. *)
(* It can die between any two of them; the agent dies with its run.        *)
(*                                                                         *)
(* Linka is what LinkaAtomic promises: a submission compares all that its  *)
(* snapshot froze with what is current, in one step.  The revision of a    *)
(* failure is compared in the attempt's worktree, not in the project.      *)
(***************************************************************************)
EXTENDS Naturals, FiniteSets

CONSTANTS
  Procs,        \* processes, each running a node or recovering
  Nodes,        \* work a machine may take
  MaxAttempts,  \* bound: attempts created
  MaxHead,      \* bound: commits the owner adds to the target branch
  MaxCrashes,   \* bound: processes that die
  None

Attempts == 1..MaxAttempts

(* The files that decide what recovery does; the marker of a prepared      *)
(* workspace and the request it does not tell apart.                       *)
Files == {"dir", "record", "plan", "evidence"}

(* An attempt's seal (interrupted stands for a contract violation too), and *)
(* what Linka may have recorded of it: success with an output and a        *)
(* candidate, success without, or failure.                                 *)
Seals == {"submitted", "failure", "stale", "interrupted", "integrity"}
Records == {"output", "nothing", "failure"}

(* The seals of what Linka has recorded; a mutant counts a conflict in. *)
RegisteredOrStale == {"submitted", "failure", "stale"}
Registered == {"submitted", "failure"}

Commands == {"run", "recover"}
BranchStates == {"input", "work", "output"}

ASSUME AttemptAssumption ==
  /\ MaxAttempts \in Nat /\ MaxHead \in Nat /\ MaxCrashes \in Nat
  /\ None \notin Attempts \cup [node : Nodes, base : Nat]
  /\ None \notin Seals \cup Records \cup Commands \cup BranchStates

VARIABLES
  open, by,          \* Linka: which nodes are ready, whose result is current,
  stale,             \* ... attempts whose node is not what their snapshot froze
  recorded,          \* ... and what its history holds of each attempt
  head,              \* project: the target branch,
  branch,            \* each attempt's branch: at its input, at work, at output
  tree,              \* its worktree: absent, clean, dirty or out of order
  promoted, pin,     \* promotion markers; per node, the attempt whose output is retained
  input, files,      \* attempt store: the frozen input and the files there are
  claim,             \* ... what exit and declaration of the agent come to
  seal,              \* ... and the seal
  pc, role, at,      \* processes: next step, command, attempt in hand
  verdict, todo,     \* ... the seal to write, the attempts left to recover
  audit,             \* ... a run's audit of the repository, in its memory only
  crashes,           \* how many processes died so far
  overlapped         \* history: attempts recovered while their run was alive

linka == <<open, by, stale, recorded>>
git   == <<head, branch, tree, promoted, pin>>
store == <<input, files, claim, seal>>
procs == <<pc, role, at, verdict, todo, audit>>
hist  == <<crashes, overlapped>>
vars  == <<linka, git, store, procs, hist>>

-----------------------------------------------------------------------------
(* What is on disk. *)

Has(a, f) == f \in files[a]

(* Where an attempt stands is derived from which of its files exist. *)
Phase(a) ==
  IF seal[a] # None THEN "sealed"
  ELSE IF Has(a, "evidence") THEN "executed" ELSE "before_evidence"

DirectoryOnly(a) == Has(a, "dir") /\ ~Has(a, "record")

(* The shared repository as an attempt must leave it: the project's head,  *)
(* everybody else's branch, worktree and marker, and the retained outputs. *)
Protected(a) ==
  [head |-> head, pin |-> pin, promoted |-> promoted \ {a},
   others |-> [b \in Attempts \ {a} |-> <<branch[b], tree[b] # "absent">>]]

(* A pin of this attempt's own output that was not there before is approved. *)
Unchanged(a, before) ==
  Protected(a) = [before EXCEPT !.pin =
                    [n \in Nodes |-> IF @[n] = None /\ pin[n] = a THEN a ELSE @[n]]]

(* The workspace on file is the plan, whose audit is empty: no repository  *)
(* with a branch agrees with it.  Only the run that prepared the workspace *)
(* has an audit to compare with.                                           *)
Valid(p) ==
  /\ tree[at[p]] \notin {"absent", "broken"}
  /\ audit[p] # None
  /\ Unchanged(at[p], audit[p])

Clean(a) == tree[a] = "clean"

-----------------------------------------------------------------------------
(* Processes. *)

Goto(p, label) == pc' = [pc EXCEPT ![p] = label]

(* The process ends, or dies: all that it knew is gone.                    *)
Exit(p) ==
  /\ pc' = [pc EXCEPT ![p] = "idle"]
  /\ role' = [role EXCEPT ![p] = None]
  /\ at' = [at EXCEPT ![p] = None]
  /\ verdict' = [verdict EXCEPT ![p] = None]
  /\ todo' = [todo EXCEPT ![p] = {}]
  /\ audit' = [audit EXCEPT ![p] = None]

Crash(p) ==
  /\ pc[p] # "idle"
  /\ crashes < MaxCrashes
  /\ crashes' = crashes + 1
  /\ Exit(p)
  /\ UNCHANGED <<linka, git, store, overlapped>>

(* A mutant of Done: a run goes on to its next attempt with the audit of   *)
(* the last one.                                                           *)
DoneKeepingAudit(p) ==
  /\ Goto(p, IF role[p] = "run" THEN "idle" ELSE "listing")
  /\ role' = [role EXCEPT ![p] = IF @ = "run" THEN None ELSE @]
  /\ at' = [at EXCEPT ![p] = None]
  /\ verdict' = [verdict EXCEPT ![p] = None]
  /\ UNCHANGED <<todo, audit>>

(* A run is over after its attempt, a recovery after the last one. *)
Done(p) ==
  \/ /\ role[p] = "run"
     /\ Exit(p)
  \/ /\ role[p] = "recover"
     /\ Goto(p, "listing")
     /\ at' = [at EXCEPT ![p] = None]
     /\ verdict' = [verdict EXCEPT ![p] = None]
     /\ UNCHANGED <<role, todo, audit>>

Sealing(p, label, v) ==
  /\ Goto(p, label)
  /\ verdict' = [verdict EXCEPT ![p] = v]
  /\ UNCHANGED <<role, at, todo, audit>>

Then(p, label) == Goto(p, label) /\ UNCHANGED <<role, at, verdict, todo, audit>>

-----------------------------------------------------------------------------
(* orka run: from a ready node to the agent. *)

Write(a, f) == files' = [files EXCEPT ![a] = @ \cup {f}]

(* Every later write requires the attempt's record. *)
Required(p, f, next) ==
  IF Has(at[p], "record")
  THEN /\ Write(at[p], f)
       /\ Then(p, next)
  ELSE /\ Exit(p)
       /\ UNCHANGED files

Fresh(a) == input[a] = None /\ \A b \in Attempts : b < a => input[b] # None

(* The input is frozen; the attempt's directory is made, its record is not *)
(* written yet.                                                             *)
Begin(p) ==
  /\ pc[p] = "idle"
  /\ \E n \in Nodes, a \in Attempts :
       /\ open[n]
       /\ Fresh(a)
       /\ input' = [input EXCEPT ![a] = [node |-> n, base |-> head]]
       /\ Write(a, "dir")
       /\ pc' = [pc EXCEPT ![p] = "created"]
       /\ role' = [role EXCEPT ![p] = "run"]
       /\ at' = [at EXCEPT ![p] = a]
  /\ UNCHANGED <<linka, git, claim, seal, verdict, todo, audit, hist>>

WriteRecord(p) ==
  /\ pc[p] = "created"
  /\ Write(at[p], "record")
  /\ Then(p, "planning")
  /\ UNCHANGED <<linka, git, input, claim, seal, hist>>

PlanWorkspace(p) ==
  /\ pc[p] = "planning"
  /\ Required(p, "plan", "allocating")
  /\ UNCHANGED <<linka, git, input, claim, seal, hist>>

(* git worktree add -b, at the frozen revision. *)
AddWorktree(p) ==
  /\ pc[p] = "allocating"
  /\ branch' = [branch EXCEPT ![at[p]] = "input"]
  /\ tree' = [tree EXCEPT ![at[p]] = "clean"]
  /\ Then(p, "auditing")
  /\ UNCHANGED <<linka, head, promoted, pin, store, hist>>

(* What the repository is like from here on is what the run audits it for.  *)
MarkPrepared(p) ==
  /\ pc[p] = "auditing"
  /\ IF Has(at[p], "record")
     THEN /\ Goto(p, "admitting")
          /\ audit' = [audit EXCEPT ![p] = Protected(at[p])]
          /\ UNCHANGED <<role, at, verdict, todo>>
     ELSE Exit(p)
  /\ UNCHANGED <<linka, git, store, hist>>

(* Staging the exchange directory makes the attempt's directory again if   *)
(* need be.  Whether the sandbox can write the repository is found out by  *)
(* trying; what cannot be admitted is sealed.                              *)
Admit(p) ==
  /\ pc[p] = "admitting"
  /\ \/ /\ Valid(p) /\ Clean(at[p]) /\ Has(at[p], "record")
        /\ Then(p, "running")
     \/ Sealing(p, "closing", "integrity")
  /\ Write(at[p], "dir")
  /\ UNCHANGED <<linka, git, input, claim, seal, hist>>

(* The agent commits, leaves changes, breaks its worktree or its file      *)
(* checkpoints, declares an outcome or none.                               *)
AgentWorks(p) ==
  /\ pc[p] = "running"
  /\ \E b \in {"input", "work"} : branch' = [branch EXCEPT ![at[p]] = b]
  /\ \E t \in {"clean", "dirty", "broken"} : tree' = [tree EXCEPT ![at[p]] = t]
  /\ Then(p, "worked")
  /\ UNCHANGED <<linka, head, promoted, pin, store, hist>>

(* Success needs a zero exit; a declared failure stands whatever the exit. *)
Decision(declared, code) ==
  CASE declared = "failed" -> "failed"
    [] declared = "succeeded" /\ code = 0 -> "succeeded"
    [] OTHER -> "interrupted"

RecordEvidence(p) ==
  /\ pc[p] = "worked"
  /\ \E declared \in {None, "succeeded", "failed"}, code \in {0, 1} :
       claim' = [claim EXCEPT ![at[p]] = Decision(declared, code)]
  /\ Required(p, "evidence", "settling")
  /\ UNCHANGED <<linka, git, input, seal, hist>>

(* The backend fails before there is exit evidence, agent started or not. *)
ExecutorFails(p) ==
  /\ pc[p] \in {"running", "worked"}
  /\ \/ Valid(p) /\ Then(p, "rolling_back")
     \/ ~Valid(p) /\ Sealing(p, "closing", "integrity")
  /\ UNCHANGED <<linka, git, store, hist>>

-----------------------------------------------------------------------------
(* Settling: decide, submit, seal. *)

Input(p) == input[at[p]]

(* An integrity failure outranks every declaration. *)
Attest(p) ==
  /\ pc[p] = "settling"
  /\ \/ Valid(p) /\ Then(p, "attested")
     \/ ~Valid(p) /\ Sealing(p, "sealing", "integrity")
  /\ UNCHANGED <<linka, git, store, hist>>

(* A success that is not committed is no success. *)
Outcome(a) ==
  IF claim[a] = "succeeded" /\ ~Clean(a) THEN "interrupted" ELSE claim[a]

(* What this attempt already has in Linka is not submitted again.  Reading *)
(* the declaration makes the attempt's directory again if need be.         *)
Decide(p) ==
  /\ pc[p] = "attested"
  /\ LET a == at[p]
         d == Outcome(a)
     IN  IF d = "interrupted" THEN Sealing(p, "sealing", d)
         ELSE IF by[Input(p).node] = a
         THEN IF recorded[a] = "failure" THEN Then(p, "observing")
                                         ELSE Sealing(p, "sealing", "submitted")
         ELSE Then(p, IF d = "failed" THEN "reporting" ELSE "capturing")
  /\ Write(at[p], "dir")
  /\ UNCHANGED <<linka, git, input, claim, seal, hist>>

(* The agent's files become one output on the input, whatever it committed *)
(* on the way.  If they are the input's there is no output, and the commits *)
(* stay where they are.                                                     *)
CaptureWorktree(p) ==
  /\ pc[p] = "capturing"
  /\ \/ /\ Then(p, "submitting")
        /\ UNCHANGED branch
     \/ /\ branch[at[p]] # "input"
        /\ branch' = [branch EXCEPT ![at[p]] = "output"]
        /\ Then(p, "promoting")
  /\ UNCHANGED <<linka, head, tree, promoted, pin, store, hist>>

(* The captured state is attested again; if it is not in order the run     *)
(* ends in an error, with nothing sealed.                                  *)
Promote(p) ==
  /\ pc[p] = "promoting"
  /\ IF Valid(p)
     THEN /\ promoted' = promoted \cup {at[p]}
          /\ Then(p, "submitting")
     ELSE /\ Done(p)
          /\ UNCHANGED promoted
  /\ UNCHANGED <<linka, head, branch, tree, pin, store, hist>>

(* The attempts whose snapshot a change of the node makes stale. *)
Holders(n) == {a \in Attempts : input[a] # None /\ input[a].node = n}

Accept(a, outcome) ==
  LET n == input[a].node
  IN  /\ stale' = stale \cup Holders(n)
      /\ open' = [open EXCEPT ![n] = (outcome = "failure")]
      /\ by' = [by EXCEPT ![n] = a]
      /\ recorded' = [recorded EXCEPT ![a] = outcome]

(* A success is compared with the project's head. *)
Conflict(p) == at[p] \in stale \/ head # Input(p).base

(* A mutant of Submit: a conflict is sealed like an acceptance. *)
SubmitAndSealAnyway(p) ==
  /\ pc[p] = "submitting"
  /\ IF Conflict(p)
     THEN /\ Sealing(p, "sealing", "submitted")
          /\ UNCHANGED linka
     ELSE IF at[p] \in promoted
     THEN Accept(at[p], "output") /\ Then(p, "retaining")
     ELSE Accept(at[p], "nothing") /\ Sealing(p, "sealing", "submitted")
  /\ UNCHANGED <<git, store, hist>>

(* Result, candidate and evidence are one mutation of Linka's store. *)
Submit(p) ==
  /\ pc[p] = "submitting"
  /\ IF Conflict(p)
     THEN /\ Sealing(p, "sealing", "stale")
          /\ UNCHANGED linka
     ELSE IF at[p] \in promoted
     THEN Accept(at[p], "output") /\ Then(p, "retaining")
     ELSE Accept(at[p], "nothing") /\ Sealing(p, "sealing", "submitted")
  /\ UNCHANGED <<git, store, hist>>

(* The retained output follows the submission, without Linka's lock. *)
RetainOutput(p) ==
  /\ pc[p] = "retaining"
  /\ pin' = [pin EXCEPT ![Input(p).node] = at[p]]
  /\ Sealing(p, "sealing", "submitted")
  /\ UNCHANGED <<linka, head, branch, tree, promoted, store, hist>>

(* A failure is compared with the head of the attempt's own worktree, so   *)
(* the agent's commits count as a project that changed.                    *)
SubmitFailure(p) ==
  /\ pc[p] = "reporting"
  /\ IF at[p] \in stale \/ branch[at[p]] # "input"
     THEN /\ Sealing(p, "sealing", "stale")
          /\ UNCHANGED linka
     ELSE Accept(at[p], "failure") /\ Then(p, "observing")
  /\ UNCHANGED <<git, store, hist>>

(* A failure's observed reads follow in a mutation of their own; by then   *)
(* the node may have another result, and the run ends in an error.         *)
ObserveContext(p) ==
  /\ pc[p] = "observing"
  /\ IF by[Input(p).node] = at[p]
     THEN Sealing(p, "sealing", "failure")
     ELSE Done(p)
  /\ UNCHANGED <<linka, git, store, hist>>

-----------------------------------------------------------------------------
(* Sealing and cleaning up. *)

(* A seal is final; writing the same one again changes nothing, another    *)
(* one is an error.  Only recovery cleans up what is sealed as interrupted *)
(* in a rollback, and an error of a settlement does not end a recovery.    *)
CleansUp(p) ==
  pc[p] = "sealing" \/ (pc[p] = "interrupting" /\ role[p] = "recover")

Seal(p) ==
  /\ pc[p] \in {"sealing", "interrupting", "closing"}
  /\ IF Has(at[p], "record") /\ seal[at[p]] \in {None, verdict[p]}
     THEN /\ seal' = [seal EXCEPT ![at[p]] = verdict[p]]
          /\ claim' = [claim EXCEPT ![at[p]] = None]
          /\ IF CleansUp(p) THEN Then(p, "cleaning") ELSE Done(p)
     ELSE /\ IF pc[p] = "sealing" THEN Done(p) ELSE Exit(p)
          /\ UNCHANGED <<claim, seal>>
  /\ UNCHANGED <<linka, git, input, files, hist>>

(* A mutant of Removable: a clean worktree goes with its commits. *)
RemovableUnpromoted(p) == Valid(p) /\ Clean(at[p])

(* The worktree goes only if it is in order, clean, and its commits are    *)
(* promoted.                                                                *)
Removable(p) ==
  /\ Valid(p)
  /\ Clean(at[p])
  /\ branch[at[p]] = "input" \/ at[p] \in promoted

AlreadyAbsent(a) ==
  ~Has(a, "plan") \/ (tree[a] = "absent" /\ (a \in promoted \/ branch[a] = None))

Cleanup(p) ==
  /\ pc[p] = "cleaning"
  /\ tree' = [tree EXCEPT ![at[p]] = IF Removable(p) THEN "absent" ELSE @]
  /\ IF (Removable(p) \/ AlreadyAbsent(at[p])) /\ seal[at[p]] \in Registered
     THEN Then(p, "discarding")
     ELSE Done(p)
  /\ UNCHANGED <<linka, head, branch, promoted, pin, store, hist>>

Forget(a) ==
  /\ files' = [files EXCEPT ![a] = {}]
  /\ claim' = [claim EXCEPT ![a] = None]
  /\ seal' = [seal EXCEPT ![a] = None]

(* Accepted work lives in Linka: its local attempt is dropped. *)
DiscardRegistered(p) ==
  /\ pc[p] = "discarding"
  /\ IF Has(at[p], "record") /\ seal[at[p]] \in Registered
     THEN Forget(at[p]) /\ Done(p)
     ELSE Exit(p) /\ UNCHANGED <<files, claim, seal>>
  /\ UNCHANGED <<linka, git, input, hist>>

(* Rolling back an allocation without evidence: an unchanged worktree      *)
(* goes, then the branch if nobody moved it, then the attempt.             *)
RollBackWorktree(p) ==
  /\ pc[p] = "rolling_back"
  /\ LET a == at[p]
     IN  IF tree[a] = "absent" \/ (Valid(p) /\ Clean(a) /\ branch[a] = "input")
         THEN /\ tree' = [tree EXCEPT ![a] = "absent"]
              /\ Then(p, "rolling_back_branch")
         ELSE /\ UNCHANGED tree
              /\ Sealing(p, "interrupting", "interrupted")
  /\ UNCHANGED <<linka, head, branch, promoted, pin, store, hist>>

(* A mutant of RollBackBranch: the branch goes whoever moved it. *)
RollBackAnyBranch(p) ==
  /\ pc[p] = "rolling_back_branch"
  /\ branch' = [branch EXCEPT ![at[p]] = None]
  /\ Then(p, "rolling_back_attempt")
  /\ UNCHANGED <<linka, head, tree, promoted, pin, store, hist>>

RollBackBranch(p) ==
  /\ pc[p] = "rolling_back_branch"
  /\ IF branch[at[p]] \in {None, "input"}
     THEN /\ branch' = [branch EXCEPT ![at[p]] = None]
          /\ Then(p, "rolling_back_attempt")
     ELSE /\ UNCHANGED branch
          /\ Sealing(p, "interrupting", "interrupted")
  /\ UNCHANGED <<linka, head, tree, promoted, pin, store, hist>>

(* ... whose files are read again just before they are removed. *)
ReloadWithoutEvidence(p) ==
  /\ pc[p] = "rolling_back_attempt"
  /\ IF Has(at[p], "record") /\ Phase(at[p]) = "before_evidence"
     THEN Then(p, "removing")
     ELSE Exit(p)
  /\ UNCHANGED <<linka, git, store, hist>>

DiscardWithoutEvidence(p) ==
  /\ pc[p] = "removing"
  /\ Forget(at[p])
  /\ Done(p)
  /\ UNCHANGED <<linka, git, input, hist>>

-----------------------------------------------------------------------------
(* orka recover: every attempt there is, oldest first. *)

StartRecovery(p) ==
  /\ pc[p] = "idle"
  /\ \E a \in Attempts : Has(a, "dir")
  /\ pc' = [pc EXCEPT ![p] = "listing"]
  /\ role' = [role EXCEPT ![p] = "recover"]
  /\ todo' = [todo EXCEPT ![p] = {a \in Attempts : Has(a, "dir")}]
  /\ UNCHANGED <<linka, git, store, at, verdict, audit, hist>>

Alive(a) == \E q \in Procs : role[q] = "run" /\ at[q] = a

(* An attempt without a readable record ends the whole recovery. *)
Load(p) ==
  /\ pc[p] = "listing"
  /\ \E a \in todo[p] :
         /\ \A b \in todo[p] : a <= b
         /\ overlapped' = IF Alive(a) THEN overlapped \cup {a} ELSE overlapped
         /\ IF ~Has(a, "record") THEN Exit(p)
            ELSE /\ at' = [at EXCEPT ![p] = a]
                 /\ todo' = [todo EXCEPT ![p] = @ \ {a}]
                 /\ Goto(p, CASE Phase(a) = "sealed" -> "cleaning"
                              [] Phase(a) = "executed" -> "settling"
                              [] OTHER -> "inspecting")
                 /\ UNCHANGED <<role, verdict, audit>>
  /\ UNCHANGED <<linka, git, store, crashes>>

FinishRecovery(p) ==
  /\ pc[p] = "listing"
  /\ todo[p] = {}
  /\ Exit(p)
  /\ UNCHANGED <<linka, git, store, hist>>

(* A mutant of Inspect: the workspace is left, the attempt goes. *)
InspectAttemptOnly(p) ==
  /\ pc[p] = "inspecting"
  /\ Then(p, "rolling_back_attempt")
  /\ UNCHANGED <<linka, git, store, hist>>

(* A mutant of Inspect: a workspace out of order is skipped, not sealed. *)
InspectWithoutSeal(p) ==
  /\ pc[p] = "inspecting"
  /\ CASE ~Has(at[p], "plan") -> Then(p, "rolling_back_attempt")
       [] Has(at[p], "plan") /\ tree[at[p]] # "absent" /\ ~Valid(p) -> Done(p)
       [] OTHER -> Then(p, "rolling_back")
  /\ UNCHANGED <<linka, git, store, hist>>

(* Without evidence nothing may be submitted. *)
Inspect(p) ==
  /\ pc[p] = "inspecting"
  /\ CASE ~Has(at[p], "plan") -> Then(p, "rolling_back_attempt")
       [] Has(at[p], "plan") /\ tree[at[p]] # "absent" /\ ~Valid(p) ->
            Sealing(p, "closing", "integrity")
       [] OTHER -> Then(p, "rolling_back")
  /\ UNCHANGED <<linka, git, store, hist>>

-----------------------------------------------------------------------------
(* Everybody else: the owner edits or reopens a node, somebody records a   *)
(* result for it, the target branch grows.                                 *)

NodeMoves ==
  /\ \E n \in Nodes :
       /\ stale' = stale \cup Holders(n)
       /\ open' = [open EXCEPT ![n] = TRUE]
       /\ \E w \in {by[n], None} : by' = [by EXCEPT ![n] = w]
  /\ UNCHANGED <<recorded, git, store, procs, hist>>

OwnerCommits ==
  /\ head < MaxHead
  /\ head' = head + 1
  /\ UNCHANGED <<linka, branch, tree, promoted, pin, store, procs, hist>>

-----------------------------------------------------------------------------
Init ==
  /\ stale = {} /\ open = [n \in Nodes |-> TRUE]
  /\ by = [n \in Nodes |-> None] /\ recorded = [a \in Attempts |-> None]
  /\ head = 0 /\ promoted = {} /\ pin = [n \in Nodes |-> None]
  /\ branch = [a \in Attempts |-> None] /\ tree = [a \in Attempts |-> "absent"]
  /\ input = [a \in Attempts |-> None] /\ files = [a \in Attempts |-> {}]
  /\ claim = [a \in Attempts |-> None]
  /\ seal = [a \in Attempts |-> None]
  /\ pc = [p \in Procs |-> "idle"] /\ role = [p \in Procs |-> None]
  /\ at = [p \in Procs |-> None] /\ verdict = [p \in Procs |-> None]
  /\ todo = [p \in Procs |-> {}] /\ audit = [p \in Procs |-> None]
  /\ crashes = 0 /\ overlapped = {}

Prepare(p) ==
  WriteRecord(p) \/ PlanWorkspace(p) \/ AddWorktree(p) \/ MarkPrepared(p)
  \/ Admit(p)

Execute(p) == AgentWorks(p) \/ RecordEvidence(p) \/ ExecutorFails(p)

Settle(p) ==
  Attest(p) \/ Decide(p) \/ CaptureWorktree(p) \/ Promote(p) \/ Submit(p)
  \/ RetainOutput(p) \/ SubmitFailure(p) \/ ObserveContext(p)

Finish(p) ==
  Seal(p) \/ Cleanup(p) \/ DiscardRegistered(p) \/ RollBackWorktree(p)
  \/ RollBackBranch(p) \/ ReloadWithoutEvidence(p) \/ DiscardWithoutEvidence(p)

Recover(p) == Load(p) \/ FinishRecovery(p) \/ Inspect(p)

Step(p) == Prepare(p) \/ Execute(p) \/ Settle(p) \/ Finish(p) \/ Recover(p)

Next ==
  \/ \E p \in Procs : Begin(p) \/ StartRecovery(p) \/ Step(p) \/ Crash(p)
  \/ NodeMoves
  \/ OwnerCommits

Spec == Init /\ [][Next]_vars

(* Processes keep going unless they die; agents exit; the owner runs       *)
(* orka recover again and again.                                           *)
FairSpec ==
  Spec /\ \A p \in Procs : WF_vars(Step(p)) /\ WF_vars(StartRecovery(p))

-----------------------------------------------------------------------------
Labels ==
  {"idle", "created", "planning", "allocating", "auditing", "admitting",
   "running", "worked", "settling", "attested", "capturing", "promoting",
   "submitting", "retaining", "reporting", "observing", "sealing",
   "interrupting", "closing", "cleaning", "discarding", "rolling_back",
   "rolling_back_branch", "rolling_back_attempt", "removing", "listing",
   "inspecting"}

Audit(a) ==
  [head : Nat, pin : [Nodes -> Attempts \cup {None}], promoted : SUBSET Attempts,
   others : [Attempts \ {a} -> (BranchStates \cup {None}) \X BOOLEAN]]

DiskTyped ==
  /\ open \in [Nodes -> BOOLEAN]
  /\ by \in [Nodes -> Attempts \cup {None}]
  /\ stale \in SUBSET Attempts
  /\ recorded \in [Attempts -> Records \cup {None}]
  /\ head \in Nat
  /\ branch \in [Attempts -> BranchStates \cup {None}]
  /\ tree \in [Attempts -> {"absent", "clean", "dirty", "broken"}]
  /\ promoted \in SUBSET Attempts
  /\ pin \in [Nodes -> Attempts \cup {None}]
  /\ input \in [Attempts -> [node : Nodes, base : Nat] \cup {None}]
  /\ files \in [Attempts -> SUBSET Files]
  /\ claim \in [Attempts -> {None, "succeeded", "failed", "interrupted"}]
  /\ seal \in [Attempts -> Seals \cup {None}]
  /\ crashes \in Nat
  /\ overlapped \in SUBSET Attempts

ProcTyped ==
  /\ pc \in [Procs -> Labels]
  /\ role \in [Procs -> Commands \cup {None}]
  /\ at \in [Procs -> Attempts \cup {None}]
  /\ verdict \in [Procs -> Seals \cup {None}]
  /\ todo \in [Procs -> SUBSET Attempts]
  /\ audit = [p \in Procs |-> audit[p]]

(* Every variable has the values the code gives it, and what a run knows of *)
(* the repository is about the attempt it has in hand: the audit does not   *)
(* survive the attempt it was taken for (Workspace.audit).                  *)
TypeOK ==
  /\ DiskTyped /\ ProcTyped
  /\ \A p \in Procs : audit[p] # None => audit[p] \in Audit(at[p])

(* A seal says what Linka holds of the attempt: submitted and failure only *)
(* for what was recorded, whoever sealed it; stale and interrupted only if *)
(* nothing was (SealedState), as long as no recovery overlapped the run.   *)
SealsTellTheTruth ==
  \A a \in Attempts :
    /\ seal[a] = "submitted" => recorded[a] \in {"output", "nothing"}
    /\ seal[a] = "failure" => recorded[a] = "failure"
    /\ seal[a] \in {"stale", "interrupted"} /\ a \notin overlapped
         => recorded[a] = None

(* An output that Linka holds stays reachable in the project: it is the    *)
(* attempt's branch, with a promotion marker, whatever dies and whatever   *)
(* is cleaned up or rolled back (Promote before Submit).                   *)
OutputsAreKept ==
  \A a \in Attempts :
    recorded[a] = "output" => a \in promoted /\ branch[a] = "output"

(* No worktree is left that the attempt store does not know of, unless a   *)
(* recovery rolled the attempt back under its run: the plan is written     *)
(* before the worktree is made, and goes after it.                         *)
WorktreesAreKnown ==
  \A a \in Attempts :
    tree[a] # "absent" /\ a \notin overlapped => Has(a, "plan")

(* No step discards work: a worktree goes only when it is clean and its    *)
(* commits are promoted, a branch only when nothing was committed to it.   *)
WorkIsNeverDiscarded ==
  [][\A a \in Attempts :
       /\ tree[a] # "absent" /\ tree'[a] = "absent" =>
            tree[a] = "clean" /\ (branch[a] = "input" \/ a \in promoted)
       /\ branch[a] \in {"work", "output"} => branch'[a] \in {"work", "output"}]_vars

(* What an agent's execution left as evidence goes only after Linka has    *)
(* recorded the attempt (discard_registered, discard_without_evidence).    *)
EvidenceOutlivesTheAttempt ==
  [][\A a \in Attempts \ overlapped :
       Has(a, "evidence") /\ "evidence" \notin files'[a] => recorded[a] # None]_vars

Concluded(a) == seal[a] # None \/ files[a] = {}

(* Every attempt that has a record is concluded in the end, by its run or  *)
(* by a recovery, if no attempt keeps a directory without a record.        *)
AttemptsConclude ==
  <>[](\A a \in Attempts : ~DirectoryOnly(a)) =>
    \A a \in Attempts : Has(a, "record") ~> Concluded(a)

(* An integrity failure records nothing (SealedState).  It does when a run *)
(* dies between acceptance and seal: recovery audits the workspace by its  *)
(* plan, which has no audit.                                               *)
IntegrityFailuresRecordNothing ==
  \A a \in Attempts \ overlapped : seal[a] = "integrity" => recorded[a] = None

=============================================================================
