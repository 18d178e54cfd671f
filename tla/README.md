# A TLA+ model of the verka workbench

verka is a set of Rust programs for running a software project as a graph of
small pieces of work, much of it done by coding agents, with humans reviewing
the results. This directory holds TLA+ modules that model its core, the TLC
configurations that check them on small instances, and proofs that the TLA+
proof system (TLAPS) checks for every instance.

## The system

| component | state | operations | what makes it hard | what must hold |
|---|---|---|---|---|
| **Linka graph state** `linka/model`, `linka/src/ops/state.rs` | nodes (definition, at most one result with the versions it consumed), observations, candidates; everything else is derived | evaluate staleness, blockers, completeness, readiness | evidence is compared with what is current, transitively, against a moving project | work that counts as complete rests on successes; a pin that matches is true |
| **Linka operations** `ops/mutate.rs` | the store | add, add_verification, link, edit, fail, respond, complete, observe, attach | any order of calls is legal, on nodes in any state | the graph stays closed; a completion that was cut short is never built on |
| **Linka submission** `ops/submit.rs` | a worker's frozen snapshot | `snapshot_work`, `submit_*` | snapshots are read piecemeal without the lock and submitted long after | a submission is as if done in one step on current facts |
| **Linka candidates** `candidate/*` | candidate record, project branches | register, decide by review, publish | reviews race; publish checks and swaps apart; no journal | single decision, unaccepted work stays out, branches only grow |
| **Linka store** `store.rs`, `git.rs` | files on disk, HEAD of the workbench, OS lock | lock, clean check, write files, commit, verify | crash or error between any two writes, unlocked readers | a commit is one whole mutation |
| **Linka check** `ops/check.rs` | none | reports problems | sees what entered sideways | |
| **Orka engine, attempts** `orka/src/engine.rs`, `attempt.rs`, `workspace.rs`, `linka_work.rs` | per attempt a directory of files, a worktree, a branch and a promotion marker; a run's audit in memory | run (record, plan, worktree, audit, agent, evidence, settle, seal, clean up), recover | crash between any two writes; recovery takes no lock; three stores (Linka, Git, attempt files) without a common transaction | a seal tells what Linka holds; no output, work or evidence is lost; every attempt is concluded |
| **Orka review bridge** `orka/src/review.rs`, `review_worktree.rs` | a binding of a verification node to a Nota branch, a start lock, worktrees | start, resume, finish, abandon, cleanup | Linka, binding, Nota and worktree are written one after the other; retries | one active review; a verdict covers the notes it was given on |
| **Nota** `nota` | a review as an append-only branch of trailers | open, note | concurrent writers to one ref | nothing written is lost |
| **Styra server** `styra/server` | sessions, their interactions with agent, threads and message queue, journal, quota, worktrees | send, queue, stop, complete, seal, close, resume, and what the agent does | client threads, a collector thread and the agent's own threads; state on disk and in memory; a dying server | one agent at a time; no message lost or sent twice; a dead agent is shown as stopped; a seal is final |
| Driva, Genta | none lasting | launch a sandboxed command; decode agent protocols | | |
| CLIs, TUIs, web and editor front ends, Svara | view state | presentation | | |

How they interact: Orka reads ready work and `snapshot_work` from Linka, runs an agent
(Driva) in a Git worktree of the project made for the attempt, captures what it
committed as one commit and submits it, usually as a candidate. A verification node
reviews the candidate; Nota carries the discussion and its conclusion is submitted to
Linka as the verdict. Publication fast-forwards a project branch to an accepted
candidate. All of these processes share nothing but the Linka store (through its
mutation lock) and the project's Git repository (without one). Styra is an application
of its own: it runs agents in sandboxes (Driva) for its clients, decodes what they
write (Genta), and shares no state with the others.

PROJECT.json lists the components with what is modelled of each, and the
hazards: the places where a test would hardly reach what can go wrong.

## Modules

| module | what it models |
|---|---|
| `LinkaState` | records and the derived state of a node: `IsStale`, `IsComplete`, `Blockers`, `Unreadable`, `IsReady`, `Integration` |
| `LinkaOperations` | operations that are one step because they run under the mutation lock, the parts the others are made of, and the project's owner (`EditTree`, `CommitBranch`) |
| `Linka` | workers (`Snapshot*`, `Submit*`, `Drop`), completions in the checkout (`Complete*`), publishers (`Publish*`) and the operations around them |
| `LinkaAtomic` | the abstract specification: each submission, completion and publication is one step on current facts |
| `LinkaProperties` | everything promised of `Linka`, safety and liveness, and the fairness |
| `MCLinka` | the instances TLC checks |
| `MCConverge` | the same with a bound on how often people interfere |
| `LinkaProofs` | type correctness, closedness, what the project's history keeps and that no branch loses a commit, proved |
| `LinkaPinProofs` | faithfulness of pins, what complete work rests on, and that accepted work counts, proved |
| `LinkaDecisionProofs` | every verdict is its candidate's decision, unaccepted work stays out, completions build on recorded ones, proved |
| `LinkaAtomicProofs` | `Linka` implements `LinkaAtomic`, proved |
| `StoreFiles` | the files of a store and what one mutation makes of them |
| `AtomicStore` | the abstract specification: each commit is one whole mutation of the one before |
| `StoreMutation` | the transaction protocol: lock, clean check, writes, commit, failures and crashes |
| `StoreProofs` | `StoreMutation` implements `AtomicStore`, proved |
| `OrkaAttempts` | the lifecycle of attempts: `orka run` and `orka recover`, write by write, with crashes |
| `OrkaProofs` | seals are true, outputs, work and evidence are kept, proved |
| `OrkaReviews` | the reviews of one candidate across Linka, the bindings, Nota and worktrees |
| `MCOrkaReviews` | the instance of it TLC checks |
| `OrkaReviewProofs` | one active review, one verdict, notes and edits kept, proved |
| `StyraInteraction` | one Session of the Styra server: requests, collector, agent, queue, completion |
| `MCStyra` | the instance of it TLC checks |
| `StyraProofs` | one agent, the end of an agent, and what becomes of the queue, proved |

`Linka` rests on `StoreMutation`: it takes a mutation under the lock as one step
because the store's history is that of `AtomicStore`. `OrkaAttempts` and
`OrkaReviews` in turn take a submission to Linka as one step, because that is what
`LinkaAtomic` says of it: on the current facts of the store always, and of the
project except for a failure, which is compared with the attempt's own worktree
(`SubmitFailure` there, `SubmitFailed` and `FinishFailed` here).

### How state and actions correspond to the code

`defn[n]` is `node.toml` and `description.md` of node n, `result[n]` its
`result.toml` and `result.md`, `observed[n]` its `observations/`, `cand[c]` the
candidate's record. `commits`, `refs` and `tree` are the project repository:
commits with parent, ancestors and tree; the commit of each branch; and the
working tree of the checked-out branch `Main`. `snap[w]` is the `WorkSnapshot` a
worker holds and `publishing` the candidates a publisher has checked but not
swapped in. Both are lost in a crash, which is why `Drop` and `PublishGiveUp`
are enabled at any time. `completing` is the `complete` that holds the store lock,
`captured` the commits completions made in the checkout and `completed` those of
them that are on record: what Git's log of the store tells by its `-S` search.

`snapshot_work` takes no lock, and reads in the three steps `SnapshotCheck`
(readiness), `SnapshotPin` (definition, dependencies, lineage) and `SnapshotFreeze`
(project, context, previous result). Any operation may fall between them. Each
submission is one step, since it revalidates and commits under the lock; `Conflict` is
the disjunction of the eight comparisons of `submit_result_locked`, in its order. A
comparison with the project is one with a checkout, `[head, tree]`: `Project`, or
whatever worktree `at` an attempt failed in (`submit_failure_with_evidence` opens its
VCS there). So a failure is recorded after the project moved on, and refused when the
agent committed. `respond` is `SnapshotCheck` to `SubmitDone` by one process: it too
takes its snapshot before the lock.

`complete` has the lock from first to last, and three steps: `CompleteFreeze` (no
interrupted completion at HEAD, nothing dirty but the outputs, ready),
`CompleteCapture` (commit the outputs on the branch, whatever the owner and
publishers have made of it meanwhile) and `CompleteRecord`. `CompleteFail` is an
error or its death at any of them; a commit that was made stays. Its output is on a
branch from the start, and `register` may make a candidate of it (as
`candidate/tests.rs` does), pending and undecided. No document forbids that;
`UnacceptedStaysOut` therefore speaks of work done aside, and names the exception.

In `StoreMutation`, a record is two files (`node.toml` and `description.md`,
`result.toml` and `result.md`) and a file's content is the revision of the record
it was written for. `disk` is the working tree, `head` the last commit. A mutation
writes any set of records, in any order of files (the code's order is one of
them); the second file may be removed, as empty notes are. A file whose write is
cut short is `Truncated`. A process may carry on from a record it read earlier
without the lock (`ReadMeta`, `ReadText`, two steps, so the reading may be torn
or of uncommitted files), as a checked submission does; under the lock the
reading is compared with the store (`Current`). Killing a process releases its
lock; if it was in `git commit`, that process may live on (`orphan`) and land its
commit later. `Resolve` is the owner restoring the last commit; the model assumes
this is not done in the middle of somebody's mutation.

In `OrkaAttempts`, `files[a]` says which of an attempt's files exist, `seal[a]`
what its `seal.toml` says, `tree[a]`, `branch[a]` and `promoted` what its worktree,
branch and promotion marker are, `pin[n]` which attempt's output
`refs/linka/outputs/` retains, and `recorded[a]` what Linka's history holds of it.
`pc[p]` is where a process is in `run_node_with_progress`, `settle` or `recover`,
`audit[p]` what only a run knows of the repository, in memory. Each write has a
step: `WriteRecord`, `PlanWorkspace`, `AddWorktree`, `MarkPrepared`,
`RecordEvidence`, `Promote`, `Submit`, `RetainOutput`, `Seal`, `Cleanup`,
`DiscardRegistered` for a run, `Inspect` and the roll-back steps for a recovery.
`Crash` may come between any two of them. `overlapped` is history: the attempts
that a recovery took up while their run was alive.

In `OrkaReviews`, `record[v]` is the binding file with the snapshot it froze,
`branch[v]` the commits of the Nota branch, `tree[v]` the review's worktree,
`result[v]` and `decision` Linka's result and the candidate's decision, and `lock`
the start lock. `Start` to `OpenBranch` is `Reviews::start`; `AddNote` to
`UpdateBranch` is a note, appended by comparing and swapping the ref; `Finish` to
`Answer` is a verdict, first looked for among the results and then submitted;
`acked` are the notes whose authors were told they are recorded.

In `StyraInteraction`, a Session is served by one interaction (`run`) after
another. `current` is the one in the server's map; each has an `activity`, a queue
of composed messages in memory, an `agent` and a channel of `updates` to its
collector thread. `stored` is `queue.json` and the completion in `session.json`.
A request of a client thread is `pc[p]`; it takes a step for each lock it takes and
each file it writes. `locks[r]` is the queue's mutex, `metadata` the
`workspace_metadata` mutex under which sessions are resumed and launched.
`Read`, `End` and `Collect` are the reader, the exec thread and the collector. Sending
is `Check` (does it accept), `Journal` (journal and announce it to the collector),
`Deliver`, and `Mark` (set `Running`). In place of `Deliver`, a closed input may be
passed over without a word (`Skip`, `apply_appserver_actions`), or, by the agents
without a client, the send is refused although it is in the journal (`Refuse`).
Which agent has which client is not told apart. `Deliver` means that the agent's
client took the message; it may hold it until the agent is ready. The
agent may write any update and leave at any moment; closing its input or
terminating it therefore has no step of its own. `Crash` is the death of the
server with all its threads and sandboxes.

`accept` and `reject` of a candidate only confirm a decision that a verdict has
already made, and change nothing.

### Abstractions

* A definition is its own version (the code hashes the bytes), so an edit back
  to an earlier text brings the earlier version back, as it does in the code.
* A result's version is a fresh number. In the code it is the hash of a record
  with a timestamp of millisecond resolution; two equal records within one
  millisecond would share one. `PinsAreFaithful` fails without this.
* Files are whole: context and drift compare a path's content.
* The internal steps of one `git merge --ff-only` or one `update-ref` are one
  swap. What lies between the check and the swap is not.
* Opaque attachments, assignees, authors, notes and messages are left out: no
  derived state depends on them.
* Of an attempt's files only those that decide what recovery does are told apart.
  `interrupted` also stands for a contract violation, `nothing` for a success
  without an output. An agent may leave its worktree as it found it though it
  committed; that too is a success without an output (`CaptureWorktree`).
* In `StyraInteraction` five updates stand for all an agent writes: a turn is over, it
  yielded to a background task, a background task started, its background tasks ran
  dry, or a poll told so. A run offers some of them (`Outputs`). The lookup of the
  interaction is merged into the first step of a stop, completion, close, direct send
  or resume, since what those do to an interaction is of no consequence once it is
  replaced; a request about the queue keeps its interaction, and what it then writes
  to `queue.json` is `overtaken`. Messages that are typed, not queued, are not
  tracked. I/O errors of the queue file are left out, a refused send is not. The end
  of the process and of its exec thread are one step.
* `Unreadable` stands for the error that evaluation returns. An operation that
  evaluates an unreadable node refuses; the refusal is the guard.

## Runs

Deadlock checking is off: the bounds on results, commits, attempts, notes and
runs stop every system in the end, as does a graph in which everything is done or a
Session nobody uses. The exception is `store_mutation`, which never stops.

| run | instance | properties | what it shows |
|---|---|---|---|
| `linka_review` | 1 node that may also be completed in the checkout, 2 reviews, 1 candidate, 2 branches, 2 workers, 3 results, 3 commits, 2 interferences | `TypeOK`, `VerdictsAreBacked`, `UnacceptedStaysOut`, `BranchesOnlyGrow`, `SubmissionsAreAtomic` | two workers race two reviews while the owner edits, commits, completes and moves branches between check and swap: one decision, no branch with undecided work done aside, no commit lost, and all of it as if in single steps |
| `linka_chain` | 2 nodes in a chain, the first completed in the checkout too, 1 candidate, links that add lineage or close the cycle, 1 worker, 2 texts, 9 results, 3 commits, 2 interferences | `CompleteRestsOnSuccess`, `PinsAreFaithful`, `CompletionsRestOnRecorded`, `AcceptedWorkSettles`, `WorkConverges` | edits, failures, links and redone dependencies between snapshot and submission, with and without outputs; completions cut short; once people leave it alone, work ends |
| `store_mutation` | 2 processes, 2 records of 2 files, 2 revisions each | `StoreInv`, `CommitsAreWhole`, `StoreRecovers` | failures and kills between any two steps, torn readings, a git commit outliving its process |
| `orka_attempts` | 2 processes, 1 node, 1 attempt, 1 commit of the owner, 2 crashes | `TypeOK`, `SealsTellTheTruth`, `OutputsAreKept`, `WorktreesAreKnown`, `WorkIsNeverDiscarded`, `EvidenceOutlivesTheAttempt`, `AttemptsConclude` | a run and recoveries, one beside the other and after deaths of both |
| `orka_review` | 2 processes, 2 reviews, one with a worktree, 2 notes, 1 move of the inputs, 1 crash | `TypeOK`, `OneActiveReview`, `NotesAreKept`, `VerdictsCoverTheNotes`, `EvidenceIsBound`, `OneVerdict`, `EditsAreKept` | starts, notes, verdicts, retries and cleanups of reviews interleaved |
| `styra_interaction` | 2 clients, 2 interactions, 1 queued message, a collector 1 update behind, 1 crash | `TypeOK`, `OneAgent`, `DeadAgentsDoNotLookIdle`, `QueueIsKept`, `QueueIsMirrored` | requests against a leaving agent and a dying server: one agent, no message in two places, and every message accounted for |
| `linka_stale_candidate` | 1 node, 1 candidate, 2 texts | `StaleSuccessIsReady` (violated) | see findings |
| `linka_decision_kept` | 1 node, 1 review, 1 candidate, 4 results | `DecisionsAgreeWithReviews` (violated) | see findings |
| `orka_integrity` | 1 process, 1 attempt, 1 crash | `IntegrityFailuresRecordNothing` (violated) | see findings |
| `styra_queue` | 2 clients, 2 interactions, 2 queued messages, no crash | `QueueSurvives` (violated) | see findings |
| `styra_dead_agent` | 2 clients, 2 interactions, no queue | `GoneAgentsAreStopped` (violated) | see findings |
| `styra_seal` | 2 clients, 2 interactions, no crash | `SealsAreFinal` (violated) | see findings |

Why these bounds are enough for what they ask. Staleness, pins and conflicts relate a
node to its direct dependencies, so a chain of two shows every relation, and a worker
may take a snapshot, be overtaken by `Fail` and edits, and submit; two workers are the
least that race, and race in `linka_review`. Three results there are the candidate's
and a verdict of each review; three commits are the root, an output and one
more, of the owner or of a completion. `MCConverge` counts what people do to disturb: editing or linking a
node, touching the checkout or a branch, failing, and work concluded in a dirty
checkout. Two such interferences, anywhere between the steps of the others, are the
least that move something twice, or one thing under another (in `linka_review`
starting a completion and a late observation of context count as well). What Linka and its workers do is not counted,
so `linka_chain` has all the redoing that two interferences cause; nine results are
more than it ever needs, and `WorkConverges` fails if they are used up. In
`orka_attempts` one attempt is enough for a run and a recovery to meet in it in every
way, and the owner's commit stands for whatever else moves the shared repository; the
proofs hold for any number. Two crashes are a run's and that of its recovery. In
`orka_review` the second review is the one a crash or a verdict of the first makes
possible, and two notes are the least that race on one tip. In `styra_interaction` two
clients are the least that hold an interaction another has replaced; the collector
lags by one update, which is enough for the order of an event and the end of the
process to matter. Every bound (`MaxVersion`, `MaxCommit`, `MaxAttempts`, `MaxHead`,
`MaxCrashes`, `MaxReviews`, `MaxNotes`, `MaxMoves`, `MaxRuns`, `MaxMessages`,
`MaxChannel`) is a constant of the module and a guard of the action it bounds.
Workers, reviews, Orka's processes and Styra's clients are interchangeable: safety
runs with several of them use that symmetry where they can. No liveness run does.

`SubmissionsAreAtomic` is refinement: `LinkaAtomic` over the same facts, with the
snapshots, completions and publishers hidden. It is the strongest statement here. It says
that the eight comparisons leave no gap: what a worker froze piecemeal, without
a lock and long ago, is exactly what a single step would read when the result
is recorded. Of the project it says so for whoever works on the project's checkout;
a failure is told of the commit it happened on (`FinishFailed`), current or not, and
this is what Orka asks for.

### Fairness

`WorkersFair`: a worker that keeps finding ready work eventually gets through snapshot
and submission (strong fairness, for others may interrupt it or it may die any number
of times), and a frozen snapshot that conflicts is eventually dropped
(`SubmissionError` returns to the caller, which starts again). `CompletionsFair`: a
completion that has committed is recorded or fails (a running program; it dies at
worst). `WorkConverges` has a premise: in the end the checkout is clean and no edges
lead back, lineage included. Both are needed. A node that derives from what depends on
it goes stale by its own success, and so does one whose context is pinned at the
commit while the checkout holds something else; the code lets either be dispatched for
ever. The end it promises is one short of the bound on results.

In `StoreMutation`, a
process that has the lock takes its next step or dies (weak fairness of a running
program), a git commit ends, and the owner eventually resolves a dirty store however
often others try the lock meanwhile (strong fairness: the documentation says dirt
stays until it is resolved, so recovery cannot be had without this).

In `OrkaAttempts`, a process takes its next step unless it dies (weak fairness of a
running program; crashes are never fair and are bounded), an agent exits in the end
(an assumption about agents: Orka sets them no limit, and one that hangs is ended by
killing its run), and the owner runs `orka recover` again and again, which is what the
command is for. `AttemptsConclude` adds, as its premise, that no attempt is left with
a directory and no record: such an attempt ends every recovery where it stands in the
listing (`recover`, `self.attempts.load`), and those after it wait for somebody to
remove it. `OrkaReviews` and `StyraInteraction` promise nothing that must happen:
their steps wait for humans and for agents.

## Proofs

Every safety property a passing run checks is also a theorem, for all values of the
constants. Those are arbitrary sets. The assumptions about Linka's are `IdAssumption`
(identifiers are disjoint, the checked-out branch is a branch, `None` is no
identifier), `NoneAssumption` (an absent record is no record, an absent outcome no
outcome), `CallAssumption` (the calls users make are well-typed) and
`DirectAssumption` (what is completed in the checkout is ordinary work).

* `LinkaProofs`: `TypeOK` is not inductive: to type a new result, output commits
  must exist and the node a candidate names must be recorded; to type a
  snapshot, its node must exist. `Inv == TypeOK /\ Closed` adds exactly this:
  `GraphIsClosed`, `ProjectIsClosed`, `SnapshotsAreClosed`,
  `PublishersHoldAccepted`. There is one lemma per action, and under it one step
  per part of `Inv` that the action can disturb. Theorems `InvIsInvariant`,
  `TypeCorrect`.
  On top of `Inv` there is `HistoryInv`: a commit is its own ancestor
  and comes with the ancestors of its ancestors (`Ancestry`), and the branch checked
  out goes on containing the revision a completion froze and the commit it made
  (`CompletionFollows`). `BranchesNeverShrink` follows, since a branch that stays put
  must contain where it was, a commit is made on top of the branch it moves, and the
  swap of a publication compares with the target its artifact descends from.
* `LinkaPinProofs`: `PinInv == Inv /\ PinsAreFaithful`. Versions only grow and
  each result gets a fresh one, so a pin taken before can match only the result
  it was taken of; submission moves the snapshot's pins into the result.
  Theorem `PinsStayFaithful`. `CompleteWorkRestsOnSuccess` then follows without
  an induction of its own: a complete node is not stale, so its pins match and
  cover its dependencies, and pins that match are faithful. `AcceptedWorkCounts`
  (every step that records) needs more of the state before the step,
  `SettleInv`: no node is among its own dependencies or lineage (`NoSelfInput`),
  since a result is a new version and would be stale by its own pin; and late
  observations belong to versions given out before (`SeenBefore`), since one of the
  version a result is about to get would count against it at once; the same goes for
  candidates (`ProposedBefore`). Work committed in the checkout also needs `HistoryInv`:
  its output is HEAD itself, so in a clean checkout it has not drifted. Recording
  changes no other node's version, so the pins the conflict checks found current stay so.
* `LinkaDecisionProofs`: for `VerdictsStayBacked` the invariant is `Backing`, together
  with `Inv`: a verdict needs a pending candidate, and one that an earlier review
  decided is not pending, so a later review can decide neither against nor over it;
  `Closed` says the definition and the candidate of a recorded review are there to
  stay. For `UnacceptedWorkStaysOut` the branches alone are not enough: publication
  moves a branch to an artifact and all its ancestors, and a registration makes a
  candidate of an output recorded before. `OutInv` therefore speaks of every commit
  a result or a candidate names, and keeps it out of the branches and from under
  any other commit until a candidate of it is accepted or a completion made it
  (`KeptOut`); and it says that no two results and no two candidates share an output
  made aside (`Distinct`), so that accepting one candidate releases nothing that another
  proposes, and that a captured commit which is some result's output is a completed
  one (`CapturesAreRecorded`). `CompletionsBuildOnRecorded` has an
  invariant of its own, `OrphanInv`: while a completion holds the lock, HEAD is no
  commit that was left behind, and once it has committed, what its commit stands on is
  none either. The owner and publishers move HEAD meanwhile, but only to a new commit
  or to one that was recorded (`OutInv`).
* `LinkaAtomicProofs`: `SubmissionsLookAtomic` is the refinement `Spec => Atomic!Spec`.
  The mapping is the identity on the facts; snapshots and publishers are hidden. An
  accepted submission passed every conflict check, so each field of its snapshot
  equals the fact it was read from (`ContextIsCurrent`, `ResultIsCurrent`), although
  the fields were read at different times; the abstract submission records the
  same result. A swap is an abstract publication because decisions are never taken
  back (`PublishersHoldAccepted`, from `Inv`) and the target is compared again. A
  completion's commit is the owner's commit of the abstract project, and its record an
  `Adopt`: its output is still HEAD, on the frozen revision (`HistoryInv`). Reading,
  dropping and checking are stutters.
* `StoreProofs`: `CommitsStayWhole` is the refinement `Spec => Atomic!Spec` for any
  number of processes and records. Whole commits are not inductive by themselves:
  `Commit` commits whatever the working tree holds. `StoreInv` says why that is
  whole: the lock has one holder (`Holder`); while it writes, the working tree is
  the last commit with part of one mutation applied (`WritingIsWhole`); and a git
  commit still running after its process died has a whole mutation before it
  (`OrphanIsWhole`), which keeps the store dirty, so that nobody else begins
  before it ends (`MutationMoves`). Assumptions: `RevisionAssumption` (the bound
  is a number) and `StoreAssumption` (`None` is no process and no record).

* `OrkaProofs`: none of the properties is inductive, since a step of settlement
  relies on earlier steps of the same process and on what others may not do
  meanwhile. `IInv` says for each place a process can be in which attempt it may hold
  (`Placed`) and what it knows of it (`Known`); that a run is alone with its
  attempt unless a recovery has overlapped it (`PairInv`); and what is true of an
  attempt whoever holds it (`AttemptInv`). A step of one process keeps what the
  others know (`MoveStep`): recovery has no audit, so everything that needs a valid
  workspace is done by the run alone. Theorems `SealsAreTrue`, `OutputsStay`,
  `WorktreesStayKnown`, the action properties `WorkStays` and `EvidenceStays`,
  and `TypeCorrect`, whose part about audits has an invariant of its own.
  Assumption: `AttemptAssumption` (bounds are numbers, `None` is no value).
* `OrkaReviewProofs`: `IInv` adds to the properties what each command may rely on
  between two steps (`Knows`): the starter holds the lock and found no active review, a
  verdict covers the notes below its head. Nothing it relies on is taken back
  (`Steady`): bindings and results stay, branches are only extended, and only the
  holder of the lock makes a review active. Assumption: `ReviewAssumption`.
* `StyraProofs`: five invariants, each on top of `TInv` (types, and which requests
  hold an interaction or a message). `AgentInv`: between two interactions there is
  only the holder of `workspace_metadata`, and it got there when the interaction in
  the map had lost its agent (`OneAgentAtATime`). `EndInv`: once an agent has left,
  its end is on the channel with nothing but sent messages behind it, or it was
  handled and nothing but sent messages is left (`TheEndIsTheLastUpdate`). That is as
  much as holds: shown as running it may stay for ever, which is a finding.
  `MirrorInv`: the interaction that read `queue.json` last has what the file holds,
  and is the one in the map, or about to be put there while no request works for it
  yet (`TheQueueIsMirrored`). `KeepInv`: each message is in one account, the stored
  queue holds none twice, and no two requests hold the same one; so what is put back
  was not delivered, and what is delivered is not in the file (`MessagesAreKept`).
  Lost is an account too: the theorem says where a message can be lost, in a crash
  while it is sent (`lost`) or at a closed input (`skipped`), not that none is. The
  last two end, like the properties, when a request that still holds a replaced
  interaction writes the file (`overtaken`). Assumption: `InteractionAssumption`
  (bounds are numbers, `None` is no process, the marks and outputs offered are those
  of the code).

Only model-checked are the three liveness properties (`WorkConverges`,
`StoreRecovers`, `AttemptsConclude`): liveness under fairness is beyond the prover.
The violations under Findings are TLC's.

## Findings

* `linka_stale_candidate`: DESIGN.md's table says a stale success is ready
  whatever its integration. `is_ready` requires integration to be done, and
  `require_current` refuses any decision on a stale candidate, so such a node can be
  neither redone nor decided.
* `linka_decision_kept`: DESIGN.md says candidate decisions agree with current
  review results. A decided verification that goes stale is ready again and may
  be abandoned; its candidate keeps the decision, and `linka check` reports it.
* `orka_integrity`: an attempt's plan is stored before its worktree is made and the
  audit captured, and the audit is never stored. Recovery validates by the plan's
  empty audit, so every attempt recovered with a worktree is sealed as an integrity
  failure, also one whose result Linka has recorded, of which `attempt.rs` says
  nothing may be recorded. The tests of recovery store the prepared workspace
  instead of the plan and so do not see it.
* `styra_queue`: `server.rs` says messages not yet sent are mirrored on disk on every
  mutation so that the queue survives. A request keeps the interaction it looked up
  and writes that one's queue: one client closes the Session's interaction, which
  stops it and then clears its queue; between the two another resumes the Session and
  queues a message for the new interaction, and the clearing empties the file. With
  `MaxCrashes = 1` the property is violated in fewer steps still: `send_queued_message`
  stores the queue without the message before it sends it, and a server that dies
  in between has lost it.
* `styra_dead_agent`: `types.rs` says `Stopped` is what an interaction is whose process
  is gone, and `Running` that the agent is working. `send_message` asks for the
  activity, sends, and sets `Running`; the collector sets it too when it handles the
  message. If the agent left in between, its end was handled before, nothing comes
  after it, and the Session shows a dead agent at work, accepts further messages and
  refuses to be resumed, until somebody stops it.
* `styra_seal`: resuming a Session checks the seal, launches the sandbox, and then
  stores `Active`. A seal set in between is erased, and the Session runs again,
  which `types.rs` and the refusal in `set_session_completion` both exclude.

## Not modelled

* Branches of the project that the owner resets or deletes: they only commit. The
  checks compare the branch with what they pinned, and refuse.
* `capture_submission` and the successes it records with an output but without a
  candidate: only tests call it (`submit_success`, `submit_failure`).
* Checkouts that switch branch: `Main` stays the branch checked out.
* Pairing (written once); attachments, assignees and authors (no derived state
  depends on them); `linka check` beyond decisions; the audits and listings of Orka
  (they only read); auto-accept (calls what is modelled).
* Of the Styra server: quota windows and automatic retries, interrupts, provider
  switches, the reasons shown for an activity, the journal, snapshots and commits,
  worktrees and the roster. The hazards in PROJECT.json name the places where the
  retries are exposed. Their state multiplies that of `StyraInteraction`, whose
  instance is at the edge of what TLC explores in minutes.
* Half-written files other than those of the Linka store.
* Driva (builds and runs one command line), Genta (decodes one line at a time),
  and all front ends, editor plugins and web views: sequential, no lasting state.

## Plan

The modules above are the plan's, and their safety properties are proved. What
is left is breadth: the quota windows and automatic retries of the Styra server
(with the two hazards they carry), which need an instance small enough for TLC
beside the rest of `StyraInteraction`.
