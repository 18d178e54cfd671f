----------------------------- MODULE OrkaReviews -----------------------------
(***************************************************************************)
(* Reviewing one candidate: Orka binds a Linka verification node to a Nota *)
(* branch and carries the verdict back (src/orka/src/review.rs), Nota      *)
(* keeps the notes in Git (src/nota/src/trailer_store.rs), and a worktree  *)
(* per review holds the reviewer's edits (src/orka/src/review_worktree.rs).*)
(* Every command is a process of its own; Linka's mutations are atomic     *)
(* under its lock, and everything else is one file or one ref at a time.   *)
(*                                                                         *)
(* A branch is the sequence of its commits since its marker, the marker    *)
(* first; a commit is a number, and an absent branch is the empty          *)
(* sequence.                                                               *)
(***************************************************************************)
EXTENDS FiniteSets, Integers, Sequences

CONSTANTS
  None,         \* no value
  Procs,        \* the processes that run a command
  MaxReviews,   \* how many verification nodes are ever made
  Entered,      \* the reviews someone checks out in a managed worktree
  MaxNotes,     \* how many notes and suggestions are ever written
  MaxMoves,     \* how often the inputs of a review move
  MaxCrashes    \* how many processes die inside a command

Reviews == 1 .. MaxReviews
Marker  == 0
Notes   == 1 .. MaxNotes
Commits == {Marker} \cup Notes
Inputs  == 0 .. MaxMoves

Decisive == {"accepted", "rejected"}
Outcomes == Decisive \cup {"abandoned"}
Results  == [outcome : Outcomes, head : Commits \cup {None}]

(* Where a process is: the step it takes next, or the answer it gave. *)
Places == {"idle", "lookup", "add", "freeze", "bind", "open", "mark", "enter",
           "note", "check", "submit", "remove", "submitted", "conflict"}

ASSUME ReviewAssumption ==
  /\ {MaxReviews, MaxNotes, MaxMoves, MaxCrashes} \subseteq Nat
  /\ Entered \subseteq Reviews
  /\ None \notin Procs \cup Reviews \cup Commits \cup Inputs \cup Results
  /\ None \notin Outcomes

VARIABLES
  made,      \* how many verification nodes the graph holds for the candidate
  result,    \* their results in the graph
  decision,  \* the candidate's decision
  inputs,    \* the version of everything a verification's snapshot freezes
  source,    \* what became of the source result the candidate names
  record,    \* the snapshot in review.toml, or None while there is no file
  lock,      \* who holds .review-start.lock
  branch,    \* the Nota branches
  notes,     \* how many entries were ever written
  acked,     \* the entries their author was told are recorded, by review
  tree,      \* the managed worktrees
  crashes,   \* how many processes died
  proc       \* what each process is doing

graph == <<made, result, decision>>
world == <<inputs, source>>
nota  == <<branch, notes, acked>>
vars  == <<graph, world, record, lock, nota, tree, crashes, proc>>

Idle == [at |-> "idle", review |-> None, verdict |-> None, seen |-> None,
         note |-> None, known |-> {}]

At(p, place)   == proc[p].at = place
Goto(p, place) == proc' = [proc EXCEPT ![p].at = place]
Last(v)        == branch[v][Len(branch[v])]
Entries(v)     == {branch[v][i] : i \in 1 .. Len(branch[v])}

(* The review ended in a verdict on the candidate. *)
Decided(v) == result[v] # None /\ result[v].outcome \in Decisive

(* The bindings whose verification has no result. *)
Active == {v \in Reviews : record[v] # None /\ result[v] = None}

(* A command ends: the file that carries the start lock is closed. *)
Return(p) ==
  /\ proc' = [proc EXCEPT ![p] = Idle]
  /\ lock' = IF lock = p THEN None ELSE lock

-----------------------------------------------------------------------------
(* Starting a review. The lock is only tried; a second start gives up.     *)

(* Mutant: the lock is not taken. *)
StartUnlocked(p) ==
  /\ At(p, "idle") /\ made < MaxReviews
  /\ Goto(p, "lookup")
  /\ UNCHANGED <<graph, world, record, lock, nota, tree, crashes>>

Start(p) ==
  /\ At(p, "idle") /\ made < MaxReviews
  /\ lock = None
  /\ lock' = p
  /\ Goto(p, "lookup")
  /\ UNCHANGED <<graph, world, record, nota, tree, crashes>>

(* One active binding is resumed, none makes a new verification, and more  *)
(* than one is an error.                                                   *)
Lookup(p) ==
  /\ At(p, "lookup")
  /\ IF Active = {} THEN Goto(p, "add") /\ UNCHANGED lock
     ELSE IF Cardinality(Active) > 1 THEN Return(p)
     ELSE /\ \E v \in Active : proc' = [proc EXCEPT ![p].at = "open", ![p].review = v]
          /\ UNCHANGED lock
  /\ UNCHANGED <<graph, world, record, nota, tree, crashes>>

AddVerification(p) ==
  /\ At(p, "add") /\ made < MaxReviews
  /\ made' = made + 1
  /\ proc' = [proc EXCEPT ![p].at = "freeze", ![p].review = made + 1]
  /\ UNCHANGED <<result, decision, world, record, lock, nota, tree, crashes>>

(* Mutant: the branch is opened before the binding. *)
SnapshotAndOpen(p) ==
  /\ At(p, "freeze")
  /\ IF source = "replaced" THEN Return(p)
     ELSE Goto(p, "open") /\ UNCHANGED lock
  /\ UNCHANGED <<graph, world, record, nota, tree, crashes>>

(* The snapshot must still name the candidate's own result. *)
SnapshotWork(p) ==
  /\ At(p, "freeze")
  /\ IF source = "replaced" THEN Return(p)
     ELSE /\ proc' = [proc EXCEPT ![p].at = "bind", ![p].seen = inputs]
          /\ UNCHANGED lock
  /\ UNCHANGED <<graph, world, record, nota, tree, crashes>>

(* Mutant: the binding does not carry the snapshot. *)
RecordVerification(p) ==
  /\ At(p, "bind")
  /\ record' = [record EXCEPT ![proc[p].review] = proc[p].review]
  /\ proc' = [proc EXCEPT ![p].at = "open", ![p].seen = None]
  /\ UNCHANGED <<graph, world, lock, nota, tree, crashes>>

CreateRecord(p) ==
  /\ At(p, "bind")
  /\ record' = [record EXCEPT ![proc[p].review] = proc[p].seen]
  /\ proc' = [proc EXCEPT ![p].at = "open", ![p].seen = None]
  /\ UNCHANGED <<graph, world, lock, nota, tree, crashes>>

(* A resumed review may have its branch already. *)
Resume(p, v) ==
  /\ At(p, "idle") /\ record[v] # None
  /\ proc' = [proc EXCEPT ![p].at = "open", ![p].review = v]
  /\ UNCHANGED <<graph, world, record, lock, nota, tree, crashes>>

(* The command entered the review or created it; it goes on to the         *)
(* worktree without the start lock.                                        *)
Opened(p) ==
  /\ Goto(p, "enter")
  /\ lock' = IF lock = p THEN None ELSE lock

OpenBranch(p) ==
  /\ At(p, "open")
  /\ IF branch[proc[p].review] # <<>> THEN Opened(p)
     ELSE Goto(p, "mark") /\ UNCHANGED lock
  /\ UNCHANGED <<graph, world, record, nota, tree, crashes>>

(* Mutant: update-ref without its old value. *)
CreateBranchForced(p) ==
  /\ At(p, "mark")
  /\ branch' = [branch EXCEPT ![proc[p].review] = <<Marker>>]
  /\ Opened(p)
  /\ UNCHANGED <<graph, world, record, notes, acked, tree, crashes>>

(* update-ref with an empty old value: the branch must not exist. *)
CreateBranch(p) ==
  LET v == proc[p].review IN
  /\ At(p, "mark")
  /\ IF branch[v] = <<>>
     THEN branch' = [branch EXCEPT ![v] = <<Marker>>] /\ Opened(p)
     ELSE Return(p) /\ UNCHANGED branch
  /\ UNCHANGED <<graph, world, record, notes, acked, tree, crashes>>

(* With --enter the worktree is made or reused. *)
PrepareWorktree(p) ==
  LET v == proc[p].review IN
  /\ At(p, "enter")
  /\ tree' = [tree EXCEPT ![v] =
                IF v \in Entered /\ @ = "absent" THEN "clean" ELSE @]
  /\ Return(p)
  /\ UNCHANGED <<graph, world, record, nota, crashes>>

-----------------------------------------------------------------------------
(* Nota: a note is committed on the tip that was read, and the branch moves *)
(* only if that is still its tip. A suggestion is an ordinary commit in the *)
(* worktree, which Git guards the same way.                                 *)

AddNote(p, v) ==
  /\ At(p, "idle") /\ branch[v] # <<>> /\ notes < MaxNotes
  /\ notes' = notes + 1
  /\ proc' = [proc EXCEPT ![p].at = "note", ![p].review = v,
                          ![p].seen = Last(v), ![p].note = notes + 1]
  /\ UNCHANGED <<graph, world, record, lock, branch, acked, tree, crashes>>

Append1(v, entry) ==
  /\ branch' = [branch EXCEPT ![v] = Append(@, entry)]
  /\ acked' = [acked EXCEPT ![v] = @ \cup {entry}]

UpdateBranch(p) ==
  LET v == proc[p].review IN
  /\ At(p, "note")
  /\ IF Last(v) = proc[p].seen THEN Append1(v, proc[p].note)
     ELSE UNCHANGED <<branch, acked>>
  /\ Return(p)
  /\ UNCHANGED <<graph, world, record, notes, tree, crashes>>

EditTree(v) ==
  /\ tree[v] = "clean"
  /\ tree' = [tree EXCEPT ![v] = "dirty"]
  /\ UNCHANGED <<graph, world, record, lock, nota, crashes, proc>>

CommitSuggestion(v) ==
  /\ tree[v] = "dirty" /\ notes < MaxNotes
  /\ notes' = notes + 1
  /\ Append1(v, notes + 1)
  /\ tree' = [tree EXCEPT ![v] = "clean"]
  /\ UNCHANGED <<graph, world, record, lock, crashes, proc>>

-----------------------------------------------------------------------------
(* Ending a review. A verdict needs the Nota branch, an abandonment does    *)
(* not; both look for a result before they submit one.                      *)

(* The head is the last entry of the branch, or its marker. *)
Finish(p, v, verdict) ==
  /\ At(p, "idle") /\ record[v] # None /\ branch[v] # <<>>
  /\ proc' = [proc EXCEPT ![p] = [Idle EXCEPT
       !.at = "check", !.review = v, !.verdict = verdict, !.seen = Last(v),
       !.known = acked[v]]]
  /\ UNCHANGED <<graph, world, record, lock, nota, tree, crashes>>

Abandon(p, v) ==
  /\ At(p, "idle") /\ record[v] # None
  /\ proc' = [proc EXCEPT ![p] = [Idle EXCEPT
       !.at = "check", !.review = v, !.verdict = "abandoned"]]
  /\ UNCHANGED <<graph, world, record, lock, nota, tree, crashes>>

(* The verdict a command would leave. *)
Verdict(p) == [outcome |-> proc[p].verdict, head |-> proc[p].seen]

(* Mutant: the head is not compared. *)
CheckOutcome(p) ==
  LET known == result[proc[p].review] IN
  /\ At(p, "check")
  /\ IF known = None THEN Goto(p, "submit") /\ UNCHANGED lock
     ELSE IF known.outcome = proc[p].verdict THEN Goto(p, "submitted") /\ UNCHANGED lock
     ELSE Return(p)
  /\ UNCHANGED <<graph, world, record, nota, tree, crashes>>

(* The same verdict on the same head was submitted before; any other result *)
(* is an error.                                                             *)
CheckResult(p) ==
  LET known == result[proc[p].review] IN
  /\ At(p, "check")
  /\ \/ known = None /\ Goto(p, "submit") /\ UNCHANGED lock
     \/ known = Verdict(p) /\ Goto(p, "submitted") /\ UNCHANGED lock
     \/ known \notin {None, Verdict(p)} /\ Return(p)
  /\ UNCHANGED <<graph, world, record, nota, tree, crashes>>

Conflicts(v) == record[v] # inputs \/ result[v] # None

(* Mutant: a decided candidate is not refused. *)
DecidableAgain(p) == proc[p].verdict \in Decisive => source = "current"

(* A decisive verdict decides the candidate in the same mutation, and needs *)
(* it undecided and its source current.                                     *)
Decidable(p) == proc[p].verdict \in Decisive => decision = None /\ source = "current"

SubmitVerification(p) ==
  LET v == proc[p].review IN
  /\ At(p, "submit")
  /\ \/ Conflicts(v) /\ Goto(p, "conflict") /\ UNCHANGED <<lock, result, decision>>
     \/ ~Conflicts(v) /\ ~Decidable(p) /\ Return(p) /\ UNCHANGED <<result, decision>>
     \/ /\ ~Conflicts(v) /\ Decidable(p)
        /\ result' = [result EXCEPT ![v] = Verdict(p)]
        /\ decision' = IF proc[p].verdict \in Decisive THEN proc[p].verdict ELSE decision
        /\ Goto(p, "submitted")
        /\ UNCHANGED lock
  /\ UNCHANGED <<made, world, record, nota, tree, crashes>>

Answer(p) ==
  /\ proc[p].at \in {"submitted", "conflict"}
  /\ Return(p)
  /\ UNCHANGED <<graph, world, record, nota, tree, crashes>>

-----------------------------------------------------------------------------
(* Cleaning up a worktree: a dirty one is retained, and Git looks again      *)
(* before it removes the directory.                                          *)

Cleanup(p, v) ==
  /\ At(p, "idle") /\ record[v] # None /\ tree[v] = "clean"
  /\ proc' = [proc EXCEPT ![p].at = "remove", ![p].review = v]
  /\ UNCHANGED <<graph, world, record, lock, nota, tree, crashes>>

(* Mutant: removal is forced. *)
RemoveForced(p) ==
  /\ At(p, "remove")
  /\ tree' = [tree EXCEPT ![proc[p].review] = "absent"]
  /\ Return(p)
  /\ UNCHANGED <<graph, world, record, nota, crashes>>

RemoveWorktree(p) ==
  LET v == proc[p].review IN
  /\ At(p, "remove")
  /\ tree' = [tree EXCEPT ![v] = IF @ = "clean" THEN "absent" ELSE @]
  /\ Return(p)
  /\ UNCHANGED <<graph, world, record, nota, crashes>>

-----------------------------------------------------------------------------
(* The world around a review: the project moves, or the source node is      *)
(* edited or answered again. A process may die inside a command; the system *)
(* closes its lock file.                                                    *)

InputsMove ==
  /\ inputs < MaxMoves
  /\ inputs' = inputs + 1
  /\ source' \in {source, "replaced"} \cup {s \in {"edited"} : source = "current"}
  /\ UNCHANGED <<graph, record, lock, nota, tree, crashes, proc>>

Crash(p) ==
  /\ ~At(p, "idle") /\ crashes < MaxCrashes
  /\ crashes' = crashes + 1
  /\ Return(p)
  /\ UNCHANGED <<graph, world, record, nota, tree>>

Init ==
  /\ made = 0 /\ decision = None
  /\ result = [v \in Reviews |-> None] /\ record = [v \in Reviews |-> None]
  /\ inputs = 0 /\ source = "current"
  /\ lock = None
  /\ branch = [v \in Reviews |-> <<>>] /\ notes = 0
  /\ acked = [v \in Reviews |-> {}]
  /\ tree = [v \in Reviews |-> "absent"]
  /\ crashes = 0
  /\ proc = [p \in Procs |-> Idle]

(* A command that began goes on. *)
Continue(p) ==
  \/ Lookup(p) \/ AddVerification(p) \/ SnapshotWork(p) \/ CreateRecord(p)
  \/ OpenBranch(p) \/ CreateBranch(p) \/ PrepareWorktree(p)
  \/ UpdateBranch(p)
  \/ CheckResult(p) \/ SubmitVerification(p) \/ Answer(p)
  \/ RemoveWorktree(p)

Begin(p, v) ==
  \/ Resume(p, v) \/ AddNote(p, v)
  \/ \E verdict \in Decisive : Finish(p, v, verdict)
  \/ Abandon(p, v) \/ Cleanup(p, v)

Next ==
  \/ \E p \in Procs : Start(p) \/ Continue(p) \/ Crash(p)
  \/ \E p \in Procs, v \in Reviews : Begin(p, v)
  \/ \E v \in Reviews : EditTree(v) \/ CommitSuggestion(v)
  \/ InputsMove

Spec == Init /\ [][Next]_vars

-----------------------------------------------------------------------------
(* The properties.                                                          *)

(* The variables hold what they are declared to hold. *)
TypeOK ==
  /\ made \in 0 .. MaxReviews
  /\ result \in [Reviews -> Results \cup {None}]
  /\ decision \in Decisive \cup {None}
  /\ inputs \in Inputs /\ source \in {"current", "edited", "replaced"}
  /\ record \in [Reviews -> Inputs \cup {None}]
  /\ lock \in Procs \cup {None}
  /\ branch \in [Reviews -> Seq(Commits)] /\ notes \in 0 .. MaxNotes
  /\ acked \in [Reviews -> SUBSET Notes]
  /\ tree \in [Reviews -> {"absent", "clean", "dirty"}]
  /\ crashes \in 0 .. MaxCrashes
  /\ proc \in [Procs -> [at : Places, review : Reviews \cup {None},
                         verdict : Outcomes \cup {None},
                         seen : Commits \cup Inputs \cup {None},
                         note : Notes \cup {None}, known : SUBSET Notes]]

(* A candidate has at most one active review, however its starts interleave  *)
(* with resumes, verdicts and crashes (Reviews::start and for_candidate).    *)
OneActiveReview == \A v, w \in Active : v = w

(* An entry its author was told is recorded stays on its review's branch:    *)
(* neither another note nor a branch creation that lost a race replaces it   *)
(* (GitTrailerStore::add_note and start_review).                             *)
NotesAreKept == \A v \in Reviews : acked[v] \subseteq Entries(v)

(* A verdict the reviewer is told stands covers every entry that was         *)
(* recorded when the reviewer gave it: the head in the result is not older,  *)
(* be it this call's result or one from an earlier call (Reviews::finish).   *)
VerdictsCoverTheNotes ==
  \A p \in Procs :
    At(p, "submitted") /\ proc[p].verdict \in Decisive =>
      LET v == proc[p].review IN
      /\ result[v].outcome = proc[p].verdict
      /\ \E i \in 1 .. Len(branch[v]) :
           /\ branch[v][i] = result[v].head
           /\ proc[p].known \subseteq {branch[v][j] : j \in 1 .. i}

(* A Nota branch, a worktree and a result have their binding behind them, so *)
(* that no crash leaves evidence Orka cannot find (Reviews::start).          *)
EvidenceIsBound ==
  \A v \in Reviews :
    branch[v] # <<>> \/ tree[v] # "absent" \/ result[v] # None => record[v] # None

(* The candidate was decided exactly if one review was, the same way; no     *)
(* later verdict, on this review or another, decides it again                *)
(* (submit_result_locked and prepare_verification_decision).                 *)
OneVerdict ==
  /\ \A v, w \in Reviews : Decided(v) /\ Decided(w) => v = w
  /\ \A v \in Reviews : Decided(v) => decision = result[v].outcome
  /\ decision # None => \E v \in Reviews : Decided(v)

(* What a reviewer has not committed leaves a worktree only into a commit    *)
(* (GitReviewWorktrees::cleanup).                                            *)
EditsAreKept ==
  [][\A v \in Reviews :
       tree[v] = "dirty" /\ tree'[v] # "dirty" => Len(branch'[v]) > Len(branch[v])]_vars

=============================================================================
