----------------------------- MODULE OrkaProofs -----------------------------
(***************************************************************************)
(* Proofs about the attempt lifecycle, for any number of attempts, nodes   *)
(* and processes: seals tell what Linka holds, outputs stay reachable, and *)
(* neither work nor evidence is discarded.                                 *)
(*                                                                         *)
(* All of it rests on who may do what to an attempt: a run is the only one *)
(* of its attempt, only a run knows an audit, so only a run gets past the  *)
(* audit and submits; and an attempt whose recovery did not overlap its    *)
(* run is touched by one or the other, never by both.                      *)
(***************************************************************************)
EXTENDS OrkaAttempts, TLAPS

Preparing == {"created", "planning", "allocating", "auditing", "admitting", "running"}
Submitting == {"attested", "capturing", "promoting", "submitting", "retaining",
               "reporting", "observing"}
Unsubmitted == Preparing \cup {"worked", "attested", "capturing", "promoting",
                               "submitting", "reporting"}
Unwitnessed == Preparing \cup
  {"worked", "rolling_back", "rolling_back_branch", "rolling_back_attempt", "removing",
   "inspecting", "interrupting"}
Planned == {"allocating", "auditing", "admitting", "running"}
Treeless == {"rolling_back_branch", "rolling_back_attempt", "removing", "discarding"}
Sealers == {"sealing", "interrupting", "closing"}
Away == {"idle", "listing"}

(* An attempt that no recovery took up while its run was alive. *)
Undisturbed(a) == a \notin overlapped

(* The seal a process is about to write is as true as the one on file. *)
TrueSeal(a, v) ==
  /\ v = "submitted" => recorded[a] \in {"output", "nothing"}
  /\ v = "failure" => recorded[a] = "failure"
  /\ v \in {"stale", "interrupted"} /\ Undisturbed(a) => recorded[a] = None

(* Which process may be where, with which attempt in hand, ... *)
Placed(l, r, a, d, t) ==
  /\ l = "idle" <=> r = None
  /\ l \in Away <=> a = None
  /\ a # None => input[a] # None
  /\ l \in Preparing \cup {"worked"} \cup Submitting => r = "run"
  /\ l \in {"listing", "inspecting"} => r = "recover"
  /\ d # None => r = "run"
  /\ \A b \in t : input[b] # None

(* ... and what it knows of that attempt. *)
Known(l, r, a, v) ==
  /\ l \in Preparing => branch[a] \in {None, "input"}
  /\ l = "promoting" => branch[a] = "output"
  /\ l \in Unsubmitted \/ (l = "settling" /\ r = "run") => recorded[a] = None
  /\ l = "retaining" => recorded[a] = "output"
  /\ l = "observing" => recorded[a] = "failure"
  /\ Undisturbed(a) /\ l \in Unwitnessed => recorded[a] = None /\ ~Has(a, "evidence")
  /\ Undisturbed(a) /\ l \in {"settling"} \cup Submitting => Has(a, "evidence")
  /\ l \in Sealers => v \in Seals /\ TrueSeal(a, v)
  /\ r = "recover" /\ l \in Sealers => v \notin Registered
  /\ r = "recover" /\ l = "settling" /\ Undisturbed(a) => seal[a] \notin Registered
  /\ r = "run" /\ l \notin Away \cup {"cleaning", "discarding"} /\ Undisturbed(a) =>
       seal[a] = None
  /\ l \in Planned /\ Undisturbed(a) => Has(a, "plan")
  /\ l \in Treeless /\ Undisturbed(a) => tree[a] = "absent"

PlaceInv == \A p \in Procs : Placed(pc[p], role[p], at[p], audit[p], todo[p])
KnowInv == \A p \in Procs : Known(pc[p], role[p], at[p], verdict[p])

(* A run is alone with its attempt, or a recovery has overlapped it. *)
PairInv ==
  \A p, q \in Procs :
    role[p] = "run" /\ at[p] # None /\ at[q] = at[p] /\ p # q =>
      role[q] # "run" /\ at[p] \in overlapped

(* Attempts, begun or not, and what was done with them. *)
AttemptInv ==
  \A a \in Attempts :
    /\ input[a] = None =>
         /\ files[a] = {} /\ seal[a] = None /\ recorded[a] = None
         /\ branch[a] = None /\ tree[a] = "absent" /\ a \notin promoted /\ a \notin overlapped
    /\ a \in promoted => branch[a] = "output"
    /\ recorded[a] = "output" => a \in promoted
    /\ \A n \in Nodes : by[n] = a => recorded[a] # None
    /\ Undisturbed(a) /\ recorded[a] # None /\ Has(a, "record") => Has(a, "evidence")
    /\ Undisturbed(a) /\ tree[a] # "absent" => Has(a, "plan")
    /\ TrueSeal(a, seal[a])

IInv == DiskTyped /\ ProcTyped /\ PlaceInv /\ KnowInv /\ PairInv /\ AttemptInv

-----------------------------------------------------------------------------
(* How a process moves: nobody else does, and it comes to stand somewhere. *)

Others(p) ==
  \A q \in Procs \ {p} :
    /\ pc'[q] = pc[q] /\ role'[q] = role[q] /\ at'[q] = at[q]
    /\ verdict'[q] = verdict[q] /\ audit'[q] = audit[q] /\ todo'[q] = todo[q]

Stands(p, l, r, a, v, d, t) ==
  /\ pc'[p] = l /\ role'[p] = r /\ at'[p] = a
  /\ verdict'[p] = v /\ audit'[p] = d /\ todo'[p] = t

Moves(p, l, r, a, v, d, t) == ProcTyped' /\ Others(p) /\ Stands(p, l, r, a, v, d, t)

Leaves(p) ==
  \/ Moves(p, "idle", None, None, None, None, {})
  \/ /\ role[p] = "recover"
     /\ Moves(p, "listing", role[p], None, None, audit[p], todo[p])

LEMMA NoneIsNone ==
  /\ None \notin Attempts /\ None \notin [node : Nodes, base : Nat]
  /\ None # "run" /\ None # "recover"
  /\ None # "input" /\ None # "work" /\ None # "output"
  /\ None # "nothing" /\ None # "failure" /\ None # "submitted"
  /\ None # "stale" /\ None # "interrupted" /\ None # "integrity"
BY AttemptAssumption DEF Seals, Records, Commands, BranchStates

LEMMA ThenMoves ==
  ASSUME ProcTyped, NEW p \in Procs, NEW l \in Labels, Then(p, l)
  PROVE  Moves(p, l, role[p], at[p], verdict[p], audit[p], todo[p])
BY DEF ProcTyped, Then, Goto, Moves, Others, Stands

LEMMA SealingMoves ==
  ASSUME ProcTyped, NEW p \in Procs, NEW l \in Labels, NEW v \in Seals, Sealing(p, l, v)
  PROVE  Moves(p, l, role[p], at[p], v, audit[p], todo[p])
BY DEF ProcTyped, Sealing, Goto, Moves, Others, Stands

LEMMA ExitLeaves ==
  ASSUME ProcTyped, NEW p \in Procs, Exit(p)
  PROVE  Leaves(p)
<1>1. ProcTyped'
  BY DEF ProcTyped, Exit, Labels, Commands
<1>2. Others(p) /\ Stands(p, "idle", None, None, None, None, {})
  BY DEF ProcTyped, Exit, Others, Stands
<1> QED  BY <1>1, <1>2 DEF Leaves, Moves

LEMMA DoneLeaves ==
  ASSUME ProcTyped, NEW p \in Procs, Done(p)
  PROVE  Leaves(p)
<1>1. CASE role[p] = "run" /\ Exit(p)
  BY <1>1, ExitLeaves
<1>2. CASE role[p] = "recover" /\ ~(role[p] = "run" /\ Exit(p))
  <2>1. ProcTyped'
    BY <1>2 DEF ProcTyped, Done, Goto, Labels
  <2>2. Others(p) /\ Stands(p, "listing", role[p], None, None, audit[p], todo[p])
    BY <1>2 DEF ProcTyped, Done, Goto, Others, Stands
  <2> QED  BY <1>2, <2>1, <2>2 DEF Leaves, Moves
<1> QED  BY <1>1, <1>2 DEF Done

(* A step that moves one process keeps the invariant if what it did to the *)
(* attempts does, and if everybody still knows what they knew.             *)
LEMMA MoveStep ==
  ASSUME IInv, NEW p \in Procs, NEW l, NEW r, NEW a, NEW v, NEW d, NEW t,
         Moves(p, l, r, a, v, d, t), DiskTyped', AttemptInv',
         overlapped \subseteq overlapped',
         \A b \in Attempts : input[b] # None => input'[b] # None,
         Placed(l, r, a, d, t)', Known(l, r, a, v)',
         a = None \/ (a = at[p] /\ r = role[p]),
         \A q \in Procs \ {p} : Known(pc[q], role[q], at[q], verdict[q])'
  PROVE  IInv'
<1>1. ProcTyped'
  BY DEF Moves
<1>2. PlaceInv'
  BY DEF Moves, Others, Stands, IInv, PlaceInv, Placed, ProcTyped
<1>3. KnowInv'
  BY DEF Moves, Stands, KnowInv
<1>4. PairInv'
  BY DEF Moves, Others, Stands, IInv, PairInv
<1> QED  BY <1>1, <1>2, <1>3, <1>4 DEF IInv

(* Nothing happens to the attempts that anybody could know of. *)
Quiet ==
  /\ DiskTyped'
  /\ UNCHANGED <<input, seal, recorded, branch, promoted, overlapped>>
  /\ \A n \in Nodes : by'[n] \in {by[n], None}
  /\ \A a \in Attempts :
       /\ \A f \in {"record", "evidence"} : f \in files'[a] <=> f \in files[a]
       /\ "plan" \in files[a] => "plan" \in files'[a]
       /\ tree'[a] \in {tree[a], "absent"}
       /\ input[a] = None => files'[a] = files[a]

LEMMA QuietKeeps ==
  ASSUME IInv, Quiet
  PROVE  /\ AttemptInv'
         /\ \A l, r, a, v : (a \in Attempts \/ l \in Away) /\ Known(l, r, a, v) => Known(l, r, a, v)'
         /\ \A l, r, a, d, t : Placed(l, r, a, d, t) => Placed(l, r, a, d, t)'
<1>1. AttemptInv'
  BY NoneIsNone DEF Quiet, IInv, AttemptInv, TrueSeal, Undisturbed, Has
<1>2. \A l, r, a, v : (a \in Attempts \/ l \in Away) /\ Known(l, r, a, v) => Known(l, r, a, v)'
  BY DEF Quiet, Known, TrueSeal, Undisturbed, Has, Away, Preparing, Unsubmitted, Submitting, Unwitnessed, Planned, Treeless, Sealers
<1>3. \A l, r, a, d, t : Placed(l, r, a, d, t) => Placed(l, r, a, d, t)'
  BY DEF Quiet, Placed
<1> QED  BY <1>1, <1>2, <1>3

LEMMA LeaveStep ==
  ASSUME IInv, NEW p \in Procs, Leaves(p), DiskTyped', AttemptInv',
         overlapped \subseteq overlapped',
         \A b \in Attempts : input[b] # None => input'[b] # None,
         \A q \in Procs \ {p} : Known(pc[q], role[q], at[q], verdict[q])'
  PROVE  IInv'
<1>1. \A l, r, v : l \in Away => Known(l, r, None, v)'
  BY DEF Known, Away, Preparing, Unsubmitted, Submitting, Unwitnessed, Planned, Treeless, Sealers
<1>2. Placed("idle", None, None, None, {})'
  BY NoneIsNone DEF Placed, Away, Preparing, Submitting
<1>3. CASE Moves(p, "idle", None, None, None, None, {})
  BY <1>1, <1>2, <1>3, MoveStep DEF Away
<1>4. CASE role[p] = "recover" /\ Moves(p, "listing", role[p], None, None, audit[p], todo[p])
  <2>1. PICK d, s : d = audit[p] /\ s = todo[p]
    OBVIOUS
  <2>2. Moves(p, "listing", "recover", None, None, d, s)
    BY <1>4, <2>1
  <2>3. d = None /\ \A b \in s : b \in Attempts /\ input[b] # None
    BY <1>4, <2>1 DEF IInv, PlaceInv, Placed, ProcTyped
  <2>4. Placed("listing", "recover", None, d, s)'
    BY <2>3, NoneIsNone DEF Placed, Away, Preparing, Submitting
  <2> QED  BY <1>1, <2>2, <2>4, MoveStep DEF Away
<1> QED  BY <1>3, <1>4 DEF Leaves

(* Steps that only move a process. *)
LEMMA QuietMove ==
  ASSUME IInv, Quiet, NEW p \in Procs, NEW l, NEW r, NEW a, NEW v, NEW d, NEW t,
         Moves(p, l, r, a, v, d, t), Placed(l, r, a, d, t), Known(l, r, a, v) \/ Known(l, r, a, v)',
         a = None \/ (a = at[p] /\ r = role[p])
  PROVE  IInv'
<1>1. \A q \in Procs : at[q] \in Attempts \/ pc[q] \in Away
  BY DEF IInv, PlaceInv, Placed, ProcTyped
<1>2. a \in Attempts \/ l \in Away
  BY DEF IInv, ProcTyped, Placed
<1>3. \A q \in Procs \ {p} : Known(pc[q], role[q], at[q], verdict[q])'
  BY <1>1, QuietKeeps DEF IInv, KnowInv, Moves, Others
<1>4. DiskTyped' /\ overlapped \subseteq overlapped'
      /\ \A b \in Attempts : input[b] # None => input'[b] # None
  BY DEF Quiet
<1>5. Placed(l, r, a, d, t)' /\ Known(l, r, a, v)' /\ AttemptInv'
  BY <1>2, QuietKeeps
<1> QED  BY <1>3, <1>4, <1>5, MoveStep

LEMMA QuietLeave ==
  ASSUME IInv, Quiet, NEW p \in Procs, Leaves(p)
  PROVE  IInv'
<1>1. \A q \in Procs : at[q] \in Attempts \/ pc[q] \in Away
  BY DEF IInv, PlaceInv, Placed, ProcTyped
<1>2. Others(p)
  BY DEF Leaves, Moves
<1>3. \A q \in Procs \ {p} : Known(pc[q], role[q], at[q], verdict[q])'
  BY <1>1, <1>2, QuietKeeps DEF IInv, KnowInv, Others
<1>4. DiskTyped' /\ overlapped \subseteq overlapped'
      /\ \A b \in Attempts : input[b] # None => input'[b] # None
  BY DEF Quiet
<1> QED  BY <1>3, <1>4, QuietKeeps, LeaveStep

LEMMA SameDisk ==
  ASSUME IInv, UNCHANGED <<linka, git, store, hist>>
  PROVE  Quiet
BY DEF IInv, DiskTyped, Quiet, linka, git, store, hist

LEMMA WriteIsQuiet ==
  ASSUME IInv, NEW p \in Procs, at[p] # None, NEW f \in {"dir", "plan"}, Write(at[p], f),
         UNCHANGED <<linka, git, input, claim, seal, hist>>
  PROVE  Quiet
<1>1. at[p] \in Attempts /\ input[at[p]] # None
  BY DEF IInv, PlaceInv, Placed, ProcTyped
<1>2. DiskTyped'
  BY <1>1 DEF IInv, DiskTyped, Write, Files, linka, git, hist
<1>3. \A a \in Attempts :
       /\ \A g \in {"record", "evidence"} : g \in files'[a] <=> g \in files[a]
       /\ "plan" \in files[a] => "plan" \in files'[a]
       /\ input[a] = None => files'[a] = files[a]
  BY <1>1 DEF IInv, DiskTyped, Write
<1> QED  BY <1>2, <1>3 DEF Quiet, linka, git, hist

(* Where p stands and what it knows, for the label at hand. *)
LEMMA InHand ==
  ASSUME IInv, NEW p \in Procs
  PROVE  /\ Placed(pc[p], role[p], at[p], audit[p], todo[p])
         /\ Known(pc[p], role[p], at[p], verdict[p])
         /\ pc[p] \notin Away => at[p] \in Attempts /\ input[at[p]] # None
BY DEF IInv, PlaceInv, KnowInv, Placed, ProcTyped

LEMMA QuietThen ==
  ASSUME IInv, Quiet, NEW p \in Procs, NEW l \in Labels \ Away, Then(p, l), pc[p] \notin Away,
         l \in Preparing \cup {"worked"} \cup Submitting => role[p] = "run",
         l = "inspecting" => role[p] = "recover",
         Known(l, role[p], at[p], verdict[p]) \/ Known(l, role[p], at[p], verdict[p])'
  PROVE  IInv'
<1>1. PICK r, a, v, d, t :
        r = role[p] /\ a = at[p] /\ v = verdict[p] /\ d = audit[p] /\ t = todo[p]
  OBVIOUS
<1>2. Moves(p, l, r, a, v, d, t)
  BY <1>1, ThenMoves DEF IInv
<1>3. Placed(l, r, a, d, t)
  BY <1>1 DEF IInv, PlaceInv, Placed, Away
<1>4. Known(l, r, a, v) \/ Known(l, r, a, v)'
  BY <1>1 DEF Then
<1> QED  BY <1>1, <1>2, <1>3, <1>4, QuietMove

LEMMA QuietSealing ==
  ASSUME IInv, Quiet, NEW p \in Procs, NEW l \in Sealers, NEW s \in Seals, Sealing(p, l, s),
         pc[p] \notin Away \cup {"cleaning", "discarding"}, TrueSeal(at[p], s), role[p] = "recover" => s \notin Registered,
         Undisturbed(at[p]) /\ l = "interrupting" =>
           recorded[at[p]] = None /\ ~Has(at[p], "evidence")
  PROVE  IInv'
<1>1. PICK r, a, d, t : r = role[p] /\ a = at[p] /\ d = audit[p] /\ t = todo[p]
  OBVIOUS
<1>2. Moves(p, l, r, a, s, d, t)
  BY <1>1, SealingMoves DEF IInv, Sealers, Labels
<1>3. Placed(l, r, a, d, t)
  BY <1>1 DEF IInv, PlaceInv, Placed, Away, Sealers, Preparing, Submitting
<1>4. Known(l, r, a, s)
  BY <1>1, InHand DEF Known, Sealers, Preparing, Submitting, Unsubmitted, Unwitnessed, Planned, Treeless
<1> QED  BY <1>1, <1>2, <1>3, <1>4, QuietMove

-----------------------------------------------------------------------------
(* The steps that leave the attempts as they are. *)

LEMMA PlanWorkspaceStep ==
  ASSUME IInv, NEW p \in Procs, PlanWorkspace(p)
  PROVE  IInv'
<1> USE InHand DEF Away, Placed, PlanWorkspace, Required
<1>1. CASE Has(at[p], "record")
  <2>1. Quiet
    BY <1>1, WriteIsQuiet, NoneIsNone
  <2>2. Known("allocating", role[p], at[p], verdict[p])'
    BY <1>1, <2>1 DEF Quiet, Write, IInv, DiskTyped, Has, Undisturbed, Then, Known, Preparing, Submitting, Unsubmitted, Unwitnessed, Planned, Treeless, Sealers
  <2> QED  BY <1>1, <2>1, <2>2, QuietThen DEF Labels, Preparing
<1>2. CASE ~Has(at[p], "record")
  BY <1>2, SameDisk, ExitLeaves, QuietLeave DEF IInv, store
<1> QED  BY <1>1, <1>2

LEMMA MarkPreparedStep ==
  ASSUME IInv, NEW p \in Procs, MarkPrepared(p)
  PROVE  IInv'
<1> USE InHand DEF Away, MarkPrepared
<1>1. Quiet
  BY SameDisk
<1>2. CASE Has(at[p], "record")
  <2>1. PICK a, v, d, t :
          a = at[p] /\ v = verdict[p] /\ d = Protected(at[p]) /\ t = todo[p]
    OBVIOUS
  <2>2. Moves(p, "admitting", "run", a, v, d, t)
    BY <1>2, <2>1 DEF IInv, ProcTyped, Labels, Moves, Others, Stands, Goto, Placed, Preparing
  <2>3. Placed("admitting", "run", a, d, t) /\ Known("admitting", "run", a, v)
    BY <2>1, NoneIsNone DEF Placed, Known, Preparing, Submitting, Unsubmitted, Unwitnessed, Planned, Treeless, Sealers
  <2> QED  BY <1>1, <2>1, <2>2, <2>3, QuietMove DEF Placed, Preparing
<1>3. CASE ~Has(at[p], "record")
  BY <1>1, <1>3, ExitLeaves, QuietLeave DEF IInv
<1> QED  BY <1>2, <1>3

LEMMA AdmitStep ==
  ASSUME IInv, NEW p \in Procs, Admit(p)
  PROVE  IInv'
<1> USE InHand DEF Away, Placed, Admit
<1>1. Quiet
  BY WriteIsQuiet, NoneIsNone
<1>2. CASE Then(p, "running")
  <2>1. Known("running", role[p], at[p], verdict[p])
    BY DEF Known, Preparing, Submitting, Unsubmitted, Unwitnessed, Planned, Treeless, Sealers
  <2> QED  BY <1>1, <1>2, <2>1, QuietThen DEF Labels, Preparing
<1>3. CASE Sealing(p, "closing", "integrity")
  BY <1>1, <1>3, QuietSealing DEF Registered, Seals, Sealers, TrueSeal
<1> QED  BY <1>2, <1>3

LEMMA ExecutorFailsStep ==
  ASSUME IInv, NEW p \in Procs, ExecutorFails(p)
  PROVE  IInv'
<1> USE InHand DEF Away, Placed, ExecutorFails
<1>1. Quiet
  BY SameDisk
<1>2. CASE Then(p, "rolling_back")
  <2>1. Known("rolling_back", role[p], at[p], verdict[p])
    BY DEF Known, Preparing, Submitting, Unsubmitted, Unwitnessed, Planned, Treeless, Sealers
  <2> QED  BY <1>1, <1>2, <2>1, QuietThen DEF Labels, Preparing, Submitting
<1>3. CASE Sealing(p, "closing", "integrity")
  BY <1>1, <1>3, QuietSealing DEF Registered, Seals, Sealers, TrueSeal
<1> QED  BY <1>2, <1>3

LEMMA AttestStep ==
  ASSUME IInv, NEW p \in Procs, Attest(p)
  PROVE  IInv'
<1> USE InHand DEF Away, Placed, Attest
<1>1. Quiet
  BY SameDisk
<1>2. CASE Valid(p) /\ Then(p, "attested")
  <2>1. role[p] = "run"
    BY <1>2 DEF Valid
  <2>2. Known("attested", role[p], at[p], verdict[p])
    BY <2>1 DEF Known, Preparing, Submitting, Unsubmitted, Unwitnessed, Planned, Treeless, Sealers
  <2> QED  BY <1>1, <1>2, <2>1, <2>2, QuietThen DEF Labels
<1>3. CASE Sealing(p, "sealing", "integrity")
  BY <1>1, <1>3, QuietSealing DEF Registered, Seals, Sealers, TrueSeal
<1> QED  BY <1>2, <1>3

LEMMA DecideStep ==
  ASSUME IInv, NEW p \in Procs, Decide(p)
  PROVE  IInv'
<1> DEFINE a == at[p]
<1> USE InHand DEF Away, Placed, Decide
<1>1. Quiet
  BY WriteIsQuiet, NoneIsNone
<1>2. /\ recorded[a] = None /\ role[p] = "run"
      /\ Undisturbed(a) => Has(a, "evidence")
  BY DEF Known, Unsubmitted, Submitting
<1>3. CASE Sealing(p, "sealing", "interrupted")
  BY <1>1, <1>2, <1>3, NoneIsNone, QuietSealing DEF Registered, Seals, Sealers, TrueSeal
<1>4. by[Input(p).node] # a
  BY <1>2, NoneIsNone DEF IInv, DiskTyped, AttemptInv, Input
<1>5. CASE \E l \in {"reporting", "capturing"} : Then(p, l)
  <2>1. PICK l \in {"reporting", "capturing"} : Then(p, l)
    BY <1>5
  <2>2. Known(l, role[p], at[p], verdict[p])
    BY <1>2 DEF Known, Preparing, Submitting, Unsubmitted, Unwitnessed, Planned, Treeless, Sealers
  <2> QED  BY <1>1, <1>2, <2>1, <2>2, QuietThen DEF Labels
<1> QED  BY <1>3, <1>4, <1>5

LEMMA GitIsQuiet ==
  ASSUME IInv, UNCHANGED <<linka, head, branch, promoted, store, hist>>,
         tree' \in [Attempts -> {"absent", "clean", "dirty", "broken"}],
         \A a \in Attempts : tree'[a] \in {tree[a], "absent"},
         pin' \in [Nodes -> Attempts \cup {None}]
  PROVE  Quiet
BY DEF IInv, DiskTyped, Quiet, linka, store, hist

LEMMA RetainOutputStep ==
  ASSUME IInv, NEW p \in Procs, RetainOutput(p)
  PROVE  IInv'
<1> USE InHand DEF Away, Placed, RetainOutput
<1>1. Quiet
  BY GitIsQuiet DEF IInv, DiskTyped, Input
<1>2. recorded[at[p]] = "output" /\ role[p] = "run"
  BY DEF Known, Submitting
<1> QED  BY <1>1, <1>2, QuietSealing DEF Registered, Seals, Sealers, TrueSeal

LEMMA ObserveContextStep ==
  ASSUME IInv, NEW p \in Procs, ObserveContext(p)
  PROVE  IInv'
<1> USE InHand DEF Away, Placed, ObserveContext
<1>1. Quiet
  BY SameDisk
<1>2. recorded[at[p]] = "failure" /\ role[p] = "run"
  BY DEF Known, Submitting
<1>3. CASE Sealing(p, "sealing", "failure")
  BY <1>1, <1>2, <1>3, QuietSealing DEF Registered, Seals, Sealers, TrueSeal
<1>4. CASE Done(p)
  BY <1>1, <1>4, DoneLeaves, QuietLeave DEF IInv
<1> QED  BY <1>3, <1>4

LEMMA CleanupStep ==
  ASSUME IInv, NEW p \in Procs, Cleanup(p)
  PROVE  IInv'
<1> USE InHand DEF Away, Placed, Cleanup
<1>1. Quiet
  BY GitIsQuiet DEF IInv, DiskTyped
<1>2. CASE Then(p, "discarding")
  <2>0. Removable(p) \/ AlreadyAbsent(at[p])
    BY <1>2 DEF Done, Then, Goto, Exit, IInv, ProcTyped
  <2>2. Undisturbed(at[p]) => tree'[at[p]] = "absent"
    BY <2>0 DEF IInv, DiskTyped, AttemptInv, AlreadyAbsent
  <2>1. Known("discarding", role[p], at[p], verdict[p])'
    BY <1>1, <1>2, <2>2 DEF Quiet, Then, Goto, Undisturbed, Known, Preparing, Submitting, Unsubmitted, Unwitnessed, Planned, Treeless, Sealers
  <2> QED  BY <1>1, <1>2, <2>1, QuietThen DEF Labels, Preparing, Submitting
<1>3. CASE Done(p)
  BY <1>1, <1>3, DoneLeaves, QuietLeave DEF IInv
<1> QED  BY <1>2, <1>3

LEMMA RollBackWorktreeStep ==
  ASSUME IInv, NEW p \in Procs, RollBackWorktree(p)
  PROVE  IInv'
<1> USE InHand DEF Away, Placed, RollBackWorktree
<1>1. Quiet
  BY GitIsQuiet DEF IInv, DiskTyped
<1>2. CASE Then(p, "rolling_back_branch")
  <2>1. Known("rolling_back_branch", role[p], at[p], verdict[p])'
    <3>1. tree' = [tree EXCEPT ![at[p]] = "absent"]
      BY <1>2 DEF Then, Sealing, Goto, IInv, ProcTyped
    <3>2. tree'[at[p]] = "absent"
      BY <3>1 DEF IInv, DiskTyped
    <3> QED
      BY <1>1, <1>2, <3>2 DEF Quiet, Then, Goto, Undisturbed, Known, Has, Preparing, Submitting,
         Unsubmitted, Unwitnessed, Planned, Treeless, Sealers
  <2> QED  BY <1>1, <1>2, <2>1, QuietThen DEF Labels, Preparing, Submitting
<1>3. CASE Sealing(p, "interrupting", "interrupted")
  BY <1>1, <1>3, NoneIsNone, QuietSealing DEF Registered, Seals, Sealers, TrueSeal, Known, Unwitnessed
<1> QED  BY <1>2, <1>3

LEMMA ReloadWithoutEvidenceStep ==
  ASSUME IInv, NEW p \in Procs, ReloadWithoutEvidence(p)
  PROVE  IInv'
<1> USE InHand DEF Away, Placed, ReloadWithoutEvidence
<1>1. Quiet
  BY SameDisk
<1>2. CASE Then(p, "removing")
  <2>1. Known("removing", role[p], at[p], verdict[p])
    BY DEF Known, Preparing, Submitting, Unsubmitted, Unwitnessed, Planned, Treeless, Sealers
  <2> QED  BY <1>1, <1>2, <2>1, QuietThen DEF Labels, Preparing, Submitting
<1>3. CASE Exit(p)
  BY <1>1, <1>3, ExitLeaves, QuietLeave DEF IInv
<1> QED  BY <1>2, <1>3

LEMMA InspectStep ==
  ASSUME IInv, NEW p \in Procs, Inspect(p)
  PROVE  IInv'
<1> USE InHand DEF Away, Placed, Inspect
<1>1. Quiet
  BY SameDisk
<1>2. ASSUME NEW l \in {"rolling_back", "rolling_back_attempt"}, Then(p, l)
      PROVE  IInv'
  <2>0. l = "rolling_back_attempt" => ~Has(at[p], "plan")
    BY <1>2 DEF Then, Sealing, Goto, IInv, ProcTyped
  <2>1. Known(l, role[p], at[p], verdict[p])
    BY <1>2, <2>0 DEF IInv, AttemptInv, Known, Preparing, Submitting, Unsubmitted, Unwitnessed, Planned, Treeless, Sealers
  <2> QED  BY <1>1, <1>2, <2>1, QuietThen DEF Labels, Preparing, Submitting
<1>3. CASE Sealing(p, "closing", "integrity")
  BY <1>1, <1>3, QuietSealing DEF Registered, Seals, Sealers, TrueSeal
<1> QED  BY <1>2, <1>3

LEMMA FinishRecoveryStep ==
  ASSUME IInv, NEW p \in Procs, FinishRecovery(p)
  PROVE  IInv'
BY SameDisk, ExitLeaves, QuietLeave DEF IInv, FinishRecovery

LEMMA StartRecoveryStep ==
  ASSUME IInv, NEW p \in Procs, StartRecovery(p)
  PROVE  IInv'
<1> USE InHand DEF Away, Placed, StartRecovery
<1>1. Quiet
  BY SameDisk
<1>2. PICK v, d, t : v = verdict[p] /\ d = audit[p] /\ t = {a \in Attempts : Has(a, "dir")}
  OBVIOUS
<1>3. Moves(p, "listing", "recover", None, v, d, t)
  BY <1>2 DEF IInv, ProcTyped, Labels, Commands, Moves, Others, Stands
<1>4. d = None /\ \A b \in t : input[b] # None
  BY <1>2, NoneIsNone DEF IInv, AttemptInv, Has
<1>5. Placed("listing", "recover", None, d, t) /\ Known("listing", "recover", None, v)
  BY <1>4, NoneIsNone DEF Known, Preparing, Submitting, Unsubmitted, Unwitnessed, Planned, Treeless, Sealers
<1> QED  BY <1>1, <1>3, <1>5, QuietMove

LEMMA CrashStep ==
  ASSUME IInv, NEW p \in Procs, Crash(p)
  PROVE  IInv'
<1>1. Quiet
  BY DEF IInv, DiskTyped, Quiet, Crash, linka, git, store
<1> QED  BY <1>1, ExitLeaves, QuietLeave DEF IInv, Crash

(* Steps of others than processes. *)
LEMMA OutsideStep ==
  ASSUME IInv, Quiet, UNCHANGED procs
  PROVE  IInv'
<1>1. \A p \in Procs : at[p] \in Attempts \/ pc[p] \in Away
  BY DEF IInv, PlaceInv, Placed, ProcTyped
<1>2. KnowInv'
  BY <1>1, QuietKeeps DEF IInv, KnowInv, procs
<1>3. PlaceInv'
  BY QuietKeeps DEF IInv, PlaceInv, procs
<1>4. ProcTyped' /\ PairInv' /\ DiskTyped'
  BY DEF IInv, ProcTyped, PairInv, Quiet, procs
<1> QED  BY <1>2, <1>3, <1>4, QuietKeeps DEF IInv

LEMMA NodeMovesStep ==
  ASSUME IInv, NodeMoves
  PROVE  IInv'
<1>1. Quiet
  BY DEF IInv, DiskTyped, Quiet, NodeMoves, Holders, git, store, hist
<1> QED  BY <1>1, OutsideStep DEF NodeMoves

LEMMA OwnerCommitsStep ==
  ASSUME IInv, OwnerCommits
  PROVE  IInv'
<1>1. Quiet
  BY DEF IInv, DiskTyped, Quiet, OwnerCommits, linka, store, hist
<1> QED  BY <1>1, OutsideStep DEF OwnerCommits

-----------------------------------------------------------------------------
(* The steps that do something to an attempt: what another process with    *)
(* the same attempt in hand knows is what overlapping leaves of it.        *)

LEMMA Companions ==
  ASSUME IInv, NEW p \in Procs, NEW q \in Procs \ {p}, at[p] # None, at[q] = at[p]
  PROVE  /\ role[p] = "run" => role[q] = "recover" /\ ~Undisturbed(at[p])
         /\ role[q] = "run" => role[p] = "recover" /\ ~Undisturbed(at[p])
BY NoneIsNone DEF IInv, PairInv, PlaceInv, Placed, ProcTyped, Undisturbed, Away, Commands

(* Who has another attempt in hand, or none, knows what it knew. *)
LEMMA Elsewhere ==
  ASSUME IInv, NEW p \in Procs, NEW q \in Procs \ {p}, Others(p), at[q] # at[p],
         overlapped' = overlapped,
         \A b \in Attempts \ {at[p]} :
           /\ files'[b] = files[b] /\ seal'[b] = seal[b]
           /\ recorded'[b] = recorded[b] /\ branch'[b] = branch[b] /\ tree'[b] = tree[b]
  PROVE  Known(pc[q], role[q], at[q], verdict[q])'
<1>1. CASE at[q] \in Attempts
  BY <1>1, InHand DEF Others, Known, Undisturbed, TrueSeal, Has
<1>2. CASE at[q] \notin Attempts
  <2>1. pc[q] \in Away /\ at[q] = None /\ role[q] # "run"
    BY <1>2, InHand, NoneIsNone DEF Placed, Away
  <2> QED
    BY <2>1 DEF Others, Known, Away, Preparing, Submitting, Unsubmitted, Unwitnessed, Planned, Treeless, Sealers
<1> QED  BY <1>1, <1>2

LEMMA WriteRecordStep ==
  ASSUME IInv, NEW p \in Procs, WriteRecord(p)
  PROVE  IInv'
<1> USE InHand DEF Away, Placed, WriteRecord
<1>1. PICK a, v, d, t : a = at[p] /\ v = verdict[p] /\ d = audit[p] /\ t = todo[p]
  OBVIOUS
<1>2. Moves(p, "planning", "run", a, v, d, t) /\ Others(p)
  BY <1>1, ThenMoves DEF IInv, Labels, Preparing, Moves
<1>3. /\ DiskTyped'
      /\ UNCHANGED <<tree, by, input, seal, recorded, branch, promoted, overlapped>>
      /\ \A b \in Attempts : files'[b] = IF b = a THEN files[a] \cup {"record"} ELSE files[b]
  BY <1>1 DEF IInv, DiskTyped, Write, Files, linka, git, hist
<1>4. AttemptInv'
  BY <1>1, <1>3 DEF IInv, AttemptInv, TrueSeal, Undisturbed, Has, Known, Unsubmitted, Preparing
<1>5. Placed("planning", "run", a, d, t)'
  BY <1>1, <1>3, NoneIsNone DEF Preparing, Submitting
<1>6. Known("planning", "run", a, v)'
  BY <1>1, <1>3, NoneIsNone
  DEF Known, Preparing, Submitting, Unsubmitted, Unwitnessed, Planned, Treeless, Sealers, Undisturbed, Has
<1>7. \A q \in Procs \ {p} : Known(pc[q], role[q], at[q], verdict[q])'
  BY <1>1, <1>2, <1>3 DEF Others, Known, Unwitnessed, Planned, Treeless, Undisturbed, TrueSeal, Has,
     Preparing, Submitting, Unsubmitted, Sealers, Registered
<1> QED  BY <1>1, <1>2, <1>3, <1>4, <1>5, <1>6, <1>7, MoveStep DEF Preparing

LEMMA AddWorktreeStep ==
  ASSUME IInv, NEW p \in Procs, AddWorktree(p)
  PROVE  IInv'
<1> USE InHand DEF Away, Placed, AddWorktree
<1>1. PICK a, v, d, t : a = at[p] /\ v = verdict[p] /\ d = audit[p] /\ t = todo[p]
  OBVIOUS
<1>2. Moves(p, "auditing", "run", a, v, d, t) /\ Others(p)
  BY <1>1, ThenMoves DEF IInv, Labels, Preparing, Moves
<1>3. /\ DiskTyped' /\ \A b \in Attempts \ {a} : tree'[b] = tree[b]
      /\ UNCHANGED <<by, input, files, seal, recorded, promoted, overlapped>>
      /\ \A b \in Attempts : branch'[b] = IF b = a THEN "input" ELSE branch[b]
  BY <1>1 DEF IInv, DiskTyped, BranchStates, linka, store, hist
<1>4. AttemptInv'
  BY <1>1, <1>3, NoneIsNone DEF IInv, AttemptInv, TrueSeal, Undisturbed, Has, Known, Preparing, Planned
<1>5. Placed("auditing", "run", a, d, t)'
  BY <1>1, <1>3, NoneIsNone DEF Preparing, Submitting
<1>6. Known("auditing", "run", a, v)'
  BY <1>1, <1>3, NoneIsNone
  DEF Known, Preparing, Submitting, Unsubmitted, Unwitnessed, Planned, Treeless, Sealers, Undisturbed, Has
<1>7. \A q \in Procs \ {p} : Known(pc[q], role[q], at[q], verdict[q])'
  BY <1>1, <1>2, <1>3, Companions DEF Others, Known, Unwitnessed, Planned, Treeless, Undisturbed, TrueSeal, Has,
     Preparing, Submitting, Unsubmitted, Sealers, Registered
<1> QED  BY <1>1, <1>2, <1>3, <1>4, <1>5, <1>6, <1>7, MoveStep DEF Preparing

LEMMA AgentWorksStep ==
  ASSUME IInv, NEW p \in Procs, AgentWorks(p)
  PROVE  IInv'
<1> USE InHand DEF Away, Placed, AgentWorks
<1>1. PICK a, v, d, t : a = at[p] /\ v = verdict[p] /\ d = audit[p] /\ t = todo[p]
  OBVIOUS
<1>2. Moves(p, "worked", "run", a, v, d, t) /\ Others(p)
  BY <1>1, ThenMoves DEF IInv, Labels, Preparing, Moves
<1>3. /\ DiskTyped' /\ \A b \in Attempts \ {a} : tree'[b] = tree[b]
      /\ UNCHANGED <<by, input, files, seal, recorded, promoted, overlapped>>
      /\ \A b \in Attempts \ {a} : branch'[b] = branch[b]
  BY <1>1 DEF IInv, DiskTyped, BranchStates, linka, store, hist
<1>4. AttemptInv'
  BY <1>1, <1>3, NoneIsNone DEF IInv, AttemptInv, TrueSeal, Undisturbed, Has, Known, Preparing, Planned
<1>5. Placed("worked", "run", a, d, t)'
  BY <1>1, <1>3, NoneIsNone DEF Preparing, Submitting
<1>6. Known("worked", "run", a, v)'
  BY <1>1, <1>3, NoneIsNone
  DEF Known, Preparing, Submitting, Unsubmitted, Unwitnessed, Planned, Treeless, Sealers, Undisturbed, Has
<1>7. \A q \in Procs \ {p} : Known(pc[q], role[q], at[q], verdict[q])'
  BY <1>1, <1>2, <1>3, Companions DEF Others, Known, Unwitnessed, Planned, Treeless, Undisturbed, TrueSeal, Has,
     Preparing, Submitting, Unsubmitted, Sealers, Registered
<1> QED  BY <1>1, <1>2, <1>3, <1>4, <1>5, <1>6, <1>7, MoveStep DEF Preparing

LEMMA RecordEvidenceStep ==
  ASSUME IInv, NEW p \in Procs, RecordEvidence(p)
  PROVE  IInv'
<1> USE InHand DEF Away, Placed, RecordEvidence, Required
<1>1. role[p] = "run" /\ recorded[at[p]] = None
  BY DEF Known, Unsubmitted
<1>2. claim' \in [Attempts -> {None, "succeeded", "failed", "interrupted"}]
  BY DEF IInv, DiskTyped, Decision
<1>3. CASE Has(at[p], "record")
  <2>1. PICK a, v, d, t : a = at[p] /\ v = verdict[p] /\ d = audit[p] /\ t = todo[p]
    OBVIOUS
  <2>2. Moves(p, "settling", "run", a, v, d, t) /\ Others(p)
    BY <1>1, <1>3, <2>1, ThenMoves DEF IInv, Labels, Moves
  <2>3. /\ DiskTyped'
        /\ UNCHANGED <<tree, by, input, seal, recorded, branch, promoted, overlapped>>
        /\ \A b \in Attempts : files'[b] = IF b = a THEN files[a] \cup {"evidence"} ELSE files[b]
    BY <1>2, <1>3, <2>1 DEF IInv, DiskTyped, Write, Files, linka, git, hist
  <2>4. AttemptInv'
    BY <2>1, <2>3 DEF IInv, AttemptInv, TrueSeal, Undisturbed, Has
  <2>5. Placed("settling", "run", a, d, t)'
    BY <2>1, <2>3, NoneIsNone DEF Preparing, Submitting
  <2>6. Known("settling", "run", a, v)'
    BY <1>1, <2>1, <2>3, NoneIsNone
    DEF Known, Preparing, Submitting, Unsubmitted, Unwitnessed, Planned, Treeless, Sealers, Undisturbed, Has
  <2>7. \A q \in Procs \ {p} : Known(pc[q], role[q], at[q], verdict[q])'
    BY <1>1, <2>1, <2>2, <2>3, Companions DEF Others, Known, Unwitnessed, Undisturbed, TrueSeal,
       Planned, Treeless, Has, Preparing, Submitting, Unsubmitted, Sealers, Registered
  <2> QED  BY <1>1, <2>1, <2>2, <2>3, <2>4, <2>5, <2>6, <2>7, MoveStep
<1>4. CASE ~Has(at[p], "record")
  <2>1. Quiet
    BY <1>2, <1>4 DEF IInv, DiskTyped, Quiet, linka, git, hist
  <2> QED  BY <1>4, <2>1, ExitLeaves, QuietLeave DEF IInv
<1> QED  BY <1>3, <1>4

LEMMA CaptureWorktreeStep ==
  ASSUME IInv, NEW p \in Procs, CaptureWorktree(p)
  PROVE  IInv'
<1> USE InHand DEF Away, Placed, CaptureWorktree
<1>1. PICK a, v, d, t : a = at[p] /\ v = verdict[p] /\ d = audit[p] /\ t = todo[p]
  OBVIOUS
<1>2. /\ role[p] = "run" /\ recorded[a] = None
      /\ Undisturbed(a) => Has(a, "evidence")
  BY <1>1 DEF Known, Unsubmitted, Submitting
<1>3. CASE Then(p, "submitting") /\ UNCHANGED branch
  <2>1. Quiet
    BY <1>3, SameDisk DEF git
  <2>2. Known("submitting", role[p], at[p], verdict[p])
    BY <1>1, <1>2 DEF Known, Preparing, Submitting, Unsubmitted, Unwitnessed, Planned, Treeless, Sealers
  <2> QED  BY <1>2, <1>3, <2>1, <2>2, QuietThen DEF Labels
<1>4. CASE /\ branch[at[p]] # "input" /\ Then(p, "promoting")
           /\ branch' = [branch EXCEPT ![at[p]] = "output"]
  <2>2. Moves(p, "promoting", "run", a, v, d, t) /\ Others(p)
    BY <1>1, <1>2, <1>4, ThenMoves DEF IInv, Labels, Moves
  <2>3. /\ DiskTyped'
        /\ UNCHANGED <<tree, by, input, files, seal, recorded, promoted, overlapped>>
        /\ \A b \in Attempts : branch'[b] = IF b = a THEN "output" ELSE branch[b]
    BY <1>1, <1>4 DEF IInv, DiskTyped, BranchStates, linka, store, hist
  <2>4. AttemptInv'
    BY <1>1, <2>3, NoneIsNone DEF IInv, AttemptInv, TrueSeal, Undisturbed, Has
  <2>5. Placed("promoting", "run", a, d, t)'
    BY <1>1, <2>3, NoneIsNone DEF Preparing, Submitting
  <2>6. Known("promoting", "run", a, v)'
    BY <1>1, <1>2, <2>3, NoneIsNone
    DEF Known, Preparing, Submitting, Unsubmitted, Unwitnessed, Planned, Treeless, Sealers, Undisturbed, Has
  <2>7. \A q \in Procs \ {p} : Known(pc[q], role[q], at[q], verdict[q])'
    BY <1>1, <1>2, <2>2, <2>3, Companions DEF Others, Known, Unwitnessed, Undisturbed, TrueSeal,
       Has, Preparing, Submitting, Unsubmitted, Sealers, Registered
  <2> QED  BY <1>1, <1>2, <2>2, <2>3, <2>4, <2>5, <2>6, <2>7, MoveStep
<1> QED  BY <1>3, <1>4

LEMMA PromoteStep ==
  ASSUME IInv, NEW p \in Procs, Promote(p)
  PROVE  IInv'
<1> USE InHand DEF Away, Placed, Promote
<1>1. PICK a, v, d, t : a = at[p] /\ v = verdict[p] /\ d = audit[p] /\ t = todo[p]
  OBVIOUS
<1>2. /\ role[p] = "run" /\ recorded[a] = None /\ branch[a] = "output"
      /\ Undisturbed(a) => Has(a, "evidence")
  BY <1>1 DEF Known, Unsubmitted, Submitting
<1>3. CASE Valid(p)
  <2>2. Moves(p, "submitting", "run", a, v, d, t) /\ Others(p)
    BY <1>1, <1>2, <1>3, ThenMoves DEF IInv, Labels, Moves
  <2>3. /\ DiskTyped'
        /\ UNCHANGED <<tree, by, input, files, seal, recorded, branch, overlapped>>
        /\ promoted' = promoted \cup {a}
    BY <1>1, <1>3 DEF IInv, DiskTyped, linka, store, hist
  <2>4. AttemptInv'
    BY <1>1, <1>2, <2>3, NoneIsNone DEF IInv, AttemptInv, TrueSeal, Undisturbed, Has
  <2>5. Placed("submitting", "run", a, d, t)'
    BY <1>1, <2>3, NoneIsNone DEF Preparing, Submitting
  <2>6. Known("submitting", "run", a, v)'
    BY <1>1, <1>2, <2>3, NoneIsNone
    DEF Known, Preparing, Submitting, Unsubmitted, Unwitnessed, Planned, Treeless, Sealers, Undisturbed, Has
  <2>7. \A q \in Procs \ {p} : Known(pc[q], role[q], at[q], verdict[q])'
    BY <2>2, <2>3 DEF Others, Known, Undisturbed, TrueSeal, Has
  <2> QED  BY <1>1, <1>2, <2>2, <2>3, <2>4, <2>5, <2>6, <2>7, MoveStep
<1>4. CASE ~Valid(p)
  <2>1. Quiet
    BY <1>4, SameDisk DEF git
  <2> QED  BY <1>4, <2>1, DoneLeaves, QuietLeave DEF IInv
<1> QED  BY <1>3, <1>4

(* Linka accepting what a run submits. *)
LEMMA AcceptKeeps ==
  ASSUME IInv, NEW p \in Procs, NEW o \in Records, Accept(at[p], o), Others(p),
         UNCHANGED <<git, store, hist>>, pc[p] \in {"submitting", "reporting"},
         o = "output" => at[p] \in promoted
  PROVE  /\ DiskTyped' /\ AttemptInv'
         /\ UNCHANGED <<tree, input, files, seal, branch, promoted, overlapped>>
         /\ \A b \in Attempts : recorded'[b] = IF b = at[p] THEN o ELSE recorded[b]
         /\ \A q \in Procs \ {p} : Known(pc[q], role[q], at[q], verdict[q])'
<1> DEFINE a == at[p]
<1>1. /\ a \in Attempts /\ input[a] # None /\ role[p] = "run" /\ recorded[a] = None
      /\ Undisturbed(a) => Has(a, "evidence")
  BY InHand DEF Away, Placed, Known, Unsubmitted, Submitting
<1>2. input[a] \in [node : Nodes, base : Nat]
  BY <1>1 DEF IInv, DiskTyped
<1>3. /\ UNCHANGED <<tree, input, files, seal, branch, promoted, overlapped>>
      /\ \A b \in Attempts : recorded'[b] = IF b = a THEN o ELSE recorded[b]
      /\ \A n \in Nodes : by'[n] \in {by[n], a}
  BY <1>1, <1>2 DEF IInv, DiskTyped, Accept, git, store, hist
<1>4. open' \in [Nodes -> BOOLEAN] /\ by' \in [Nodes -> Attempts \cup {None}]
      /\ stale' \in SUBSET Attempts /\ recorded' \in [Attempts -> Records \cup {None}]
  BY <1>1, <1>2 DEF IInv, DiskTyped, Accept, Holders
<1>5. DiskTyped'
  BY <1>4 DEF IInv, DiskTyped, git, store, hist
<1>6. o # None
  BY NoneIsNone DEF Records
<1>7. \A b \in Attempts : TrueSeal(b, seal[b])'
  <2>1. Undisturbed(a) => seal[a] = None
    BY <1>1, InHand DEF Known, Away
  <2> QED
    BY <1>1, <1>3, <2>1, NoneIsNone DEF IInv, AttemptInv, TrueSeal, Undisturbed
<1>8. AttemptInv'
  BY <1>1, <1>3, <1>6, <1>7, NoneIsNone DEF IInv, AttemptInv, Undisturbed, Has
<1>9. \A q \in Procs \ {p} : Known(pc[q], role[q], at[q], verdict[q])'
  BY <1>1, <1>3, Companions, InHand, NoneIsNone DEF Others, Known, Placed, Unwitnessed,
     Undisturbed, TrueSeal, Has, Preparing, Submitting, Unsubmitted, Sealers, Registered, Away
<1> QED  BY <1>3, <1>5, <1>8, <1>9

LEMMA SealStep ==
  ASSUME IInv, NEW p \in Procs, Seal(p)
  PROVE  IInv'
<1> USE InHand DEF Away, Placed, Seal
<1>1. PICK r, a, v, d, t :
        r = role[p] /\ a = at[p] /\ v = verdict[p] /\ d = audit[p] /\ t = todo[p]
  OBVIOUS
<1>2. /\ a \in Attempts /\ input[a] # None /\ v \in Seals /\ TrueSeal(a, v)
      /\ r = "recover" => v \notin Registered
  BY <1>1 DEF Known, Sealers
<1>3. CASE Has(at[p], "record") /\ seal[at[p]] \in {None, verdict[p]}
  <2>1. /\ DiskTyped'
        /\ UNCHANGED <<tree, by, input, files, recorded, branch, promoted, overlapped>>
        /\ \A b \in Attempts : seal'[b] = IF b = a THEN v ELSE seal[b]
    BY <1>1, <1>2, <1>3 DEF IInv, DiskTyped, linka, git, hist
  <2>2. AttemptInv'
    BY <1>2, <2>1, NoneIsNone DEF IInv, AttemptInv, TrueSeal, Undisturbed, Has
  <2>3. ASSUME Others(p)
        PROVE  \A q \in Procs \ {p} : Known(pc[q], role[q], at[q], verdict[q])'
    <3>1. ASSUME NEW q \in Procs \ {p}, at[q] = a
          PROVE  Known(pc[q], role[q], at[q], verdict[q])'
      <4>1. Undisturbed(a) => role[q] # "run" /\ v \notin Registered
        BY <1>1, <1>2, <3>1, Companions, InHand, NoneIsNone
        DEF IInv, ProcTyped, Commands
      <4>2. /\ UNCHANGED <<pc[q], role[q], at[q], verdict[q]>>
            /\ UNCHANGED <<branch[a], recorded[a], files[a]>> /\ seal'[a] = v
        BY <1>2, <2>1, <2>3 DEF Others
      <4> HIDE DEF Seal, Placed
      <4> QED
        BY <2>1, <3>1, <4>1, <4>2, InHand DEF Known, Undisturbed, TrueSeal, Has
    <3>2. ASSUME NEW q \in Procs \ {p}, at[q] # a
          PROVE  Known(pc[q], role[q], at[q], verdict[q])'
      BY <1>1, <2>1, <2>3, <3>2, Elsewhere
    <3> QED  BY <3>1, <3>2
  <2>4. CASE Then(p, "cleaning")
    <3>1. Moves(p, "cleaning", r, a, v, d, t) /\ Others(p)
      BY <1>1, <2>4, ThenMoves DEF IInv, Labels, Moves
    <3>2. Placed("cleaning", r, a, d, t)'
      BY <1>1, <2>1, NoneIsNone DEF Preparing, Submitting
    <3>3. Known("cleaning", r, a, v)'
      BY DEF Known, Preparing, Submitting, Unsubmitted, Unwitnessed, Planned, Treeless, Sealers
    <3> QED  BY <1>1, <2>1, <2>2, <2>3, <3>1, <3>2, <3>3, MoveStep
  <2>5. CASE Done(p)
    <3>1. Leaves(p) /\ Others(p)
      BY <2>5, DoneLeaves DEF IInv, Leaves, Moves
    <3> QED  BY <2>1, <2>2, <2>3, <3>1, LeaveStep
  <2> QED  BY <1>3, <2>4, <2>5
<1>4. CASE ~(Has(at[p], "record") /\ seal[at[p]] \in {None, verdict[p]})
  <2>1. Quiet
    BY <1>4, SameDisk DEF store
  <2> QED  BY <1>4, <2>1, DoneLeaves, ExitLeaves, QuietLeave DEF IInv
<1> QED  BY <1>3, <1>4

LEMMA RollBackBranchStep ==
  ASSUME IInv, NEW p \in Procs, RollBackBranch(p)
  PROVE  IInv'
<1> USE InHand DEF Away, Placed, RollBackBranch
<1>1. PICK r, a, v, d, t :
        r = role[p] /\ a = at[p] /\ v = verdict[p] /\ d = audit[p] /\ t = todo[p]
  OBVIOUS
<1>2. Undisturbed(a) => recorded[a] = None /\ ~Has(a, "evidence")
  BY <1>1 DEF Known, Unwitnessed
<1>3. CASE branch[at[p]] \in {None, "input"}
  <2>1. /\ DiskTyped'
        /\ UNCHANGED <<tree, by, input, files, seal, recorded, promoted, overlapped>>
        /\ \A b \in Attempts : branch'[b] = IF b = a THEN None ELSE branch[b]
    BY <1>1, <1>3 DEF IInv, DiskTyped, linka, store, hist
  <2>2. AttemptInv'
    BY <1>1, <1>3, <2>1, NoneIsNone DEF IInv, AttemptInv, TrueSeal, Undisturbed, Has
  <2>3. Moves(p, "rolling_back_attempt", r, a, v, d, t) /\ Others(p)
    BY <1>1, <1>3, ThenMoves DEF IInv, Labels, Moves
  <2>4. Placed("rolling_back_attempt", r, a, d, t)'
    BY <1>1, <2>1, NoneIsNone DEF Preparing, Submitting
  <2>5. Known("rolling_back_attempt", r, a, v)'
    BY <1>1, <1>2, <2>1
    DEF Known, Preparing, Submitting, Unsubmitted, Unwitnessed, Planned, Treeless, Sealers, Undisturbed, Has
  <2>6. \A q \in Procs \ {p} : Known(pc[q], role[q], at[q], verdict[q])'
    BY <1>1, <1>3, <2>1, <2>3, NoneIsNone
    DEF Others, Known, Undisturbed, TrueSeal, Has, Preparing
  <2> QED  BY <1>1, <2>1, <2>2, <2>3, <2>4, <2>5, <2>6, MoveStep
<1>4. CASE branch[at[p]] \notin {None, "input"}
  <2>1. Quiet
    BY <1>4, SameDisk DEF git
  <2> QED  BY <1>1, <1>2, <1>4, <2>1, NoneIsNone, QuietSealing DEF Registered, Seals, Sealers, TrueSeal
<1> QED  BY <1>3, <1>4

(* An attempt may be dropped if nobody relies on its files. *)
LEMMA ForgetStep ==
  ASSUME IInv, NEW p \in Procs, at[p] \in Attempts, Forget(at[p]), Done(p),
         UNCHANGED <<linka, git, input, hist>>,
         Undisturbed(at[p]) => tree[at[p]] = "absent",
         \A q \in Procs \ {p} :
           at[q] = at[p] /\ Undisturbed(at[p]) => pc[q] \notin {"settling"} \cup Submitting
  PROVE  IInv'
<1>1. PICK a : a = at[p]
  OBVIOUS
<1>2. /\ DiskTyped'
      /\ UNCHANGED <<tree, by, input, recorded, branch, promoted, overlapped>>
      /\ \A b \in Attempts : files'[b] = IF b = a THEN {} ELSE files[b]
      /\ \A b \in Attempts : seal'[b] = IF b = a THEN None ELSE seal[b]
  BY <1>1 DEF IInv, DiskTyped, Forget, linka, git, hist
<1>3. AttemptInv'
  BY <1>1, <1>2, NoneIsNone DEF IInv, AttemptInv, TrueSeal, Undisturbed, Has
<1>4. Leaves(p) /\ Others(p)
  BY DoneLeaves DEF IInv, Leaves, Moves
<1>5. \A q \in Procs \ {p} : Known(pc[q], role[q], at[q], verdict[q])'
  <2>1. ASSUME NEW q \in Procs \ {p}, at[q] = a
        PROVE  Known(pc[q], role[q], at[q], verdict[q])'
    <3>1. pc[q] \in Planned => ~Undisturbed(a)
      BY <1>1, <2>1, Companions, InHand, NoneIsNone DEF Placed, Planned, Preparing
    <3> QED
      BY <1>1, <1>2, <1>4, <2>1, <3>1, InHand, NoneIsNone
      DEF Others, Known, Undisturbed, TrueSeal, Has, Registered
  <2>2. ASSUME NEW q \in Procs \ {p}, at[q] # a
        PROVE  Known(pc[q], role[q], at[q], verdict[q])'
    BY <1>1, <1>2, <1>4, <2>2, Elsewhere
  <2> QED  BY <2>1, <2>2
<1> QED  BY <1>2, <1>3, <1>4, <1>5, LeaveStep

LEMMA DiscardRegisteredStep ==
  ASSUME IInv, NEW p \in Procs, DiscardRegistered(p)
  PROVE  IInv'
<1> USE InHand DEF Away, Placed, DiscardRegistered
<1>1. CASE Has(at[p], "record") /\ seal[at[p]] \in Registered
  <2>1. ASSUME NEW q \in Procs \ {p}, at[q] = at[p], Undisturbed(at[p]),
               pc[q] \in {"settling"} \cup Submitting
        PROVE  FALSE
    BY <1>1, <2>1, Companions, NoneIsNone DEF Known, IInv, ProcTyped, Commands
  <2>2. Undisturbed(at[p]) => tree[at[p]] = "absent"
    BY DEF Known, Treeless
  <2> QED  BY <1>1, <2>1, <2>2, ForgetStep
<1>2. CASE ~(Has(at[p], "record") /\ seal[at[p]] \in Registered)
  <2>1. Quiet
    BY <1>2, SameDisk DEF store
  <2> QED  BY <1>2, <2>1, ExitLeaves, QuietLeave DEF IInv
<1> QED  BY <1>1, <1>2

LEMMA DiscardWithoutEvidenceStep ==
  ASSUME IInv, NEW p \in Procs, DiscardWithoutEvidence(p)
  PROVE  IInv'
<1> USE InHand DEF Away, Placed, DiscardWithoutEvidence
<1>1. Undisturbed(at[p]) => ~Has(at[p], "evidence") /\ tree[at[p]] = "absent"
  BY DEF Known, Unwitnessed, Treeless
<1>2. ASSUME NEW q \in Procs \ {p}, at[q] = at[p], Undisturbed(at[p]),
             pc[q] \in {"settling"} \cup Submitting
      PROVE  FALSE
  BY <1>1, <1>2 DEF Known
<1> QED  BY <1>1, <1>2, ForgetStep

LEMMA SubmitStep ==
  ASSUME IInv, NEW p \in Procs, Submit(p)
  PROVE  IInv'
<1> USE InHand DEF Away, Placed, Submit
<1>1. PICK a, v, d, t : a = at[p] /\ v = verdict[p] /\ d = audit[p] /\ t = todo[p]
  OBVIOUS
<1>2. /\ a \in Attempts /\ input[a] # None /\ role[p] = "run" /\ recorded[a] = None
      /\ Undisturbed(a) => Has(a, "evidence") /\ seal[a] = None
  BY <1>1 DEF Known, Unsubmitted, Submitting
<1>3. CASE Conflict(p)
  <2>1. Quiet
    BY <1>3, SameDisk
  <2> QED  BY <1>1, <1>2, <1>3, <2>1, NoneIsNone, QuietSealing
           DEF Registered, Seals, Sealers, TrueSeal
<1>4. CASE ~Conflict(p) /\ at[p] \in promoted
  <2>1. Moves(p, "retaining", "run", a, v, d, t) /\ Others(p)
    BY <1>1, <1>2, <1>4, ThenMoves DEF IInv, Labels, Moves
  <2>2. Accept(at[p], "output")
    BY <1>4
  <2>3. /\ DiskTyped' /\ AttemptInv'
        /\ UNCHANGED <<tree, input, files, seal, branch, promoted, overlapped>>
        /\ recorded'[a] = "output"
        /\ \A q \in Procs \ {p} : Known(pc[q], role[q], at[q], verdict[q])'
    BY <1>1, <1>2, <1>4, <2>1, <2>2, AcceptKeeps DEF Records
  <2>4. Placed("retaining", "run", a, d, t)'
    BY <1>1, <1>2, <2>3, NoneIsNone DEF Preparing, Submitting
  <2>5. Known("retaining", "run", a, v)'
    BY <1>2, <2>3, NoneIsNone
    DEF Known, Preparing, Submitting, Unsubmitted, Unwitnessed, Planned, Treeless, Sealers, Undisturbed, Has
  <2> QED  BY <1>1, <1>2, <2>1, <2>3, <2>4, <2>5, MoveStep
<1>5. CASE ~Conflict(p) /\ at[p] \notin promoted
  <2>1. Moves(p, "sealing", "run", a, "submitted", d, t) /\ Others(p)
    BY <1>1, <1>2, <1>5, SealingMoves DEF IInv, Labels, Moves, Seals
  <2>2. Accept(at[p], "nothing")
    BY <1>5
  <2>3. /\ DiskTyped' /\ AttemptInv'
        /\ UNCHANGED <<tree, input, files, seal, branch, promoted, overlapped>>
        /\ recorded'[a] = "nothing"
        /\ \A q \in Procs \ {p} : Known(pc[q], role[q], at[q], verdict[q])'
    BY <1>1, <1>2, <1>5, <2>1, <2>2, AcceptKeeps DEF Records
  <2>4. Placed("sealing", "run", a, d, t)'
    BY <1>1, <1>2, <2>3, NoneIsNone DEF Preparing, Submitting
  <2>5. Known("sealing", "run", a, "submitted")'
    BY <1>2, <2>3, NoneIsNone
    DEF Known, Preparing, Submitting, Unsubmitted, Unwitnessed, Planned, Treeless, Sealers, Undisturbed, Has,
        TrueSeal, Seals
  <2> QED  BY <1>1, <1>2, <2>1, <2>3, <2>4, <2>5, MoveStep
<1> QED  BY <1>3, <1>4, <1>5

LEMMA SubmitFailureStep ==
  ASSUME IInv, NEW p \in Procs, SubmitFailure(p)
  PROVE  IInv'
<1> USE InHand DEF Away, Placed, SubmitFailure
<1>1. PICK a, v, d, t : a = at[p] /\ v = verdict[p] /\ d = audit[p] /\ t = todo[p]
  OBVIOUS
<1>2. /\ a \in Attempts /\ input[a] # None /\ role[p] = "run" /\ recorded[a] = None
      /\ Undisturbed(a) => Has(a, "evidence") /\ seal[a] = None
  BY <1>1 DEF Known, Unsubmitted, Submitting
<1>3. CASE at[p] \in stale \/ branch[at[p]] # "input"
  <2>1. Quiet
    BY <1>3, SameDisk
  <2> QED  BY <1>1, <1>2, <1>3, <2>1, NoneIsNone, QuietSealing
           DEF Registered, Seals, Sealers, TrueSeal
<1>4. CASE ~(at[p] \in stale \/ branch[at[p]] # "input")
  <2>1. Moves(p, "observing", "run", a, v, d, t) /\ Others(p)
    BY <1>1, <1>2, <1>4, ThenMoves DEF IInv, Labels, Moves
  <2>2. Accept(at[p], "failure")
    BY <1>4
  <2>3. /\ DiskTyped' /\ AttemptInv'
        /\ UNCHANGED <<tree, input, files, seal, branch, promoted, overlapped>>
        /\ recorded'[a] = "failure"
        /\ \A q \in Procs \ {p} : Known(pc[q], role[q], at[q], verdict[q])'
    BY <1>1, <1>2, <2>1, <2>2, AcceptKeeps DEF Records
  <2>4. Placed("observing", "run", a, d, t)'
    BY <1>1, <1>2, <2>3, NoneIsNone DEF Preparing, Submitting
  <2>5. Known("observing", "run", a, v)'
    BY <1>2, <2>3, NoneIsNone
    DEF Known, Preparing, Submitting, Unsubmitted, Unwitnessed, Planned, Treeless, Sealers, Undisturbed, Has
  <2> QED  BY <1>1, <1>2, <2>1, <2>3, <2>4, <2>5, MoveStep
<1> QED  BY <1>3, <1>4

(* A new attempt is nobody else's. *)
LEMMA BeginStep ==
  ASSUME IInv, NEW p \in Procs, Begin(p)
  PROVE  IInv'
<1> USE DEF Begin
<1>1. PICK n \in Nodes, a \in Attempts :
        /\ Fresh(a)
        /\ input' = [input EXCEPT ![a] = [node |-> n, base |-> head]]
        /\ Write(a, "dir")
        /\ pc' = [pc EXCEPT ![p] = "created"]
        /\ role' = [role EXCEPT ![p] = "run"]
        /\ at' = [at EXCEPT ![p] = a]
  OBVIOUS
<1>2. Others(p) /\ ProcTyped'
  BY <1>1 DEF IInv, ProcTyped, Others, Labels, Commands
<1>3. /\ pc'[p] = "created" /\ role'[p] = "run" /\ at'[p] = a
      /\ UNCHANGED <<audit, todo>>
  BY <1>1 DEF IInv, ProcTyped
<1>4. [node |-> n, base |-> head] \in [node : Nodes, base : Nat]
  BY <1>1 DEF IInv, DiskTyped
<1>5. /\ DiskTyped'
      /\ UNCHANGED <<tree, by, seal, recorded, branch, promoted, overlapped>>
      /\ input'[a] # None
      /\ \A b \in Attempts \ {a} : input'[b] = input[b] /\ files'[b] = files[b]
      /\ files'[a] = {"dir"}
  <2>1. input'[a] # None /\ input' \in [Attempts -> [node : Nodes, base : Nat] \cup {None}]
    BY <1>1, <1>4, NoneIsNone DEF IInv, DiskTyped
  <2>2. files[a] = {}
    BY <1>1 DEF IInv, AttemptInv, Fresh
  <2> QED  BY <1>1, <2>1, <2>2 DEF IInv, DiskTyped, Write, Files, linka, git, hist
<1>6. /\ input[a] = None /\ seal[a] = None /\ recorded[a] = None /\ branch[a] = None
      /\ a \notin promoted /\ a \notin overlapped
  BY <1>1 DEF IInv, AttemptInv, Fresh
<1>7. \A q \in Procs : at[q] # a /\ a \notin todo[q]
  BY <1>1, <1>6, InHand, NoneIsNone DEF Placed
<1>8. AttemptInv'
  BY <1>5, <1>6, NoneIsNone DEF IInv, AttemptInv, TrueSeal, Undisturbed, Has
<1>9. Placed(pc[p], role[p], at[p], audit[p], todo[p])'
  <2>1. \A b \in todo[p] : b \in Attempts /\ input[b] # None
    BY InHand DEF Placed, IInv, ProcTyped
  <2> QED
    BY <1>1, <1>3, <1>5, <2>1, NoneIsNone DEF Placed, Away, Preparing, Submitting
<1>10. Known(pc[p], role[p], at[p], verdict[p])'
  BY <1>3, <1>5, <1>6, NoneIsNone
  DEF Known, Preparing, Submitting, Unsubmitted, Unwitnessed, Planned, Treeless, Sealers, Has
<1>11. \A q \in Procs \ {p} : Placed(pc[q], role[q], at[q], audit[q], todo[q])'
  BY <1>2, <1>5, InHand DEF Placed, Others, IInv, ProcTyped
<1>12. \A q \in Procs \ {p} : Known(pc[q], role[q], at[q], verdict[q])'
  <2> SUFFICES ASSUME NEW q \in Procs \ {p}
               PROVE  Known(pc[q], role[q], at[q], verdict[q])'
    OBVIOUS
  <2>1. CASE at[q] \in Attempts
    BY <1>2, <1>5, <1>7, <2>1, InHand DEF Others, Known, Undisturbed, TrueSeal, Has
  <2>2. CASE at[q] \notin Attempts
    <3>1. pc[q] \in Away
      BY <2>2, InHand
    <3> QED
      BY <1>2, <3>1
      DEF Others, Known, Away, Preparing, Submitting, Unsubmitted, Unwitnessed, Planned, Treeless, Sealers
  <2> QED  BY <2>1, <2>2
<1>13. PairInv'
  BY <1>2, <1>3, <1>5, <1>7 DEF IInv, PairInv, Others
<1> QED
  BY <1>2, <1>5, <1>8, <1>9, <1>10, <1>11, <1>12, <1>13 DEF IInv, PlaceInv, KnowInv

(* A recovery takes up an attempt; if its run is alive they overlap. *)
LEMMA LoadStep ==
  ASSUME IInv, NEW p \in Procs, Load(p)
  PROVE  IInv'
<1>1. PICK v, d : v = verdict[p] /\ d = audit[p]
  OBVIOUS
<1>2. role[p] = "recover" /\ at[p] = None /\ d = None /\ todo[p] \subseteq Attempts
  BY <1>1, InHand, NoneIsNone DEF Load, Placed, Away, IInv, ProcTyped
<1>3. PICK a \in todo[p] :
        /\ overlapped' = IF Alive(a) THEN overlapped \cup {a} ELSE overlapped
        /\ IF ~Has(a, "record") THEN Exit(p)
           ELSE /\ at' = [at EXCEPT ![p] = a]
                /\ todo' = [todo EXCEPT ![p] = @ \ {a}]
                /\ Goto(p, CASE Phase(a) = "sealed" -> "cleaning"
                             [] Phase(a) = "executed" -> "settling"
                             [] OTHER -> "inspecting")
                /\ UNCHANGED <<role, verdict, audit>>
  BY DEF Load
<1>4. a \in Attempts /\ input[a] # None
  BY <1>2, InHand DEF Placed
<1>5. /\ DiskTyped' /\ overlapped \subseteq overlapped' /\ overlapped' \subseteq overlapped \cup {a}
      /\ UNCHANGED <<tree, by, input, files, seal, recorded, branch, promoted>>
  BY <1>3, <1>4 DEF Load, IInv, DiskTyped, linka, git, store
<1>6. AttemptInv'
  BY <1>4, <1>5 DEF IInv, AttemptInv, TrueSeal, Undisturbed, Has
<1>7. ASSUME Others(p)
      PROVE  \A q \in Procs \ {p} :
               /\ Known(pc[q], role[q], at[q], verdict[q])'
               /\ Placed(pc[q], role[q], at[q], audit[q], todo[q])'
  <2>1. ASSUME NEW q \in Procs \ {p}
        PROVE  Placed(pc[q], role[q], at[q], audit[q], todo[q])'
    BY <1>5, <1>7, InHand DEF Others, Placed
  <2>2. ASSUME NEW q \in Procs \ {p}
        PROVE  Known(pc[q], role[q], at[q], verdict[q])'
    BY <1>5, <1>7, InHand DEF Others, Known, Undisturbed, TrueSeal, Has
  <2> QED  BY <2>1, <2>2
<1>8. CASE Has(a, "record")
  <2> DEFINE l == CASE Phase(a) = "sealed" -> "cleaning"
                    [] Phase(a) = "executed" -> "settling"
                    [] OTHER -> "inspecting"
  <2>0. /\ l \in {"cleaning", "settling", "inspecting"}
        /\ l = "settling" => seal[a] = None /\ Has(a, "evidence")
        /\ l = "inspecting" => ~Has(a, "evidence")
    BY DEF Phase
  <2>1. pc' = [pc EXCEPT ![p] = l] /\ at' = [at EXCEPT ![p] = a]
        /\ todo' = [todo EXCEPT ![p] = @ \ {a}] /\ UNCHANGED <<role, verdict, audit>>
    BY <1>3, <1>8 DEF Goto
  <2> HIDE DEF l
  <2>2. /\ ProcTyped' /\ Others(p)
        /\ role'[p] = "recover" /\ at'[p] = a /\ audit'[p] = d /\ verdict'[p] = v
        /\ todo'[p] \subseteq todo[p] /\ pc'[p] = l
    BY <1>1, <1>2, <1>4, <2>0, <2>1 DEF IInv, ProcTyped, Others, Labels
  <2>3. Placed(pc[p], role[p], at[p], audit[p], todo[p])'
    BY <1>2, <1>4, <1>5, <2>0, <2>2, InHand, NoneIsNone DEF Placed, Away, Preparing, Submitting
  <2>4. Undisturbed(a)' => recorded[a] = None \/ Has(a, "evidence")
    BY <1>4, <1>5, <1>8 DEF IInv, AttemptInv, Undisturbed
  <2>5. Known(pc[p], role[p], at[p], verdict[p])'
    BY <1>5, <2>0, <2>2, <2>4, NoneIsNone DEF Known, Preparing, Submitting, Unsubmitted,
       Unwitnessed, Planned, Treeless, Sealers, Undisturbed, Has, Registered, Seals
  <2>6. PairInv'
    <3>1. ASSUME NEW q \in Procs \ {p}, role[q] = "run", at[q] = a
          PROVE  a \in overlapped'
      BY <1>3, <3>1 DEF Alive
    <3> QED
      BY <1>2, <1>5, <2>2, <3>1, NoneIsNone DEF IInv, PairInv, Others
  <2> QED  BY <1>5, <1>6, <1>7, <2>2, <2>3, <2>5, <2>6 DEF IInv, PlaceInv, KnowInv
<1>9. CASE ~Has(a, "record")
  <2>1. Leaves(p) /\ Others(p)
    BY <1>3, <1>9, ExitLeaves DEF IInv, Leaves, Moves
  <2> QED  BY <1>5, <1>6, <1>7, <2>1, LeaveStep
<1> QED  BY <1>8, <1>9

LEMMA InitInv == Init => IInv
<1> SUFFICES ASSUME Init PROVE IInv
  OBVIOUS
<1>1. DiskTyped /\ ProcTyped
  BY AttemptAssumption DEF Init, DiskTyped, ProcTyped, Labels
<1>2. PlaceInv /\ KnowInv /\ PairInv
  BY NoneIsNone DEF Init, PlaceInv, Placed, KnowInv, Known, PairInv, Away, Preparing, Submitting,
     Unsubmitted, Unwitnessed, Planned, Treeless, Sealers
<1>3. AttemptInv
  BY NoneIsNone DEF Init, AttemptInv, TrueSeal
<1> QED  BY <1>1, <1>2, <1>3 DEF IInv

LEMMA StepInv ==
  ASSUME IInv, [Next]_vars
  PROVE  IInv'
<1>1. ASSUME NEW p \in Procs, Begin(p) \/ StartRecovery(p) \/ Step(p) \/ Crash(p)
      PROVE  IInv'
  <2>1. CASE Prepare(p)
    BY <2>1, WriteRecordStep, PlanWorkspaceStep, AddWorktreeStep, MarkPreparedStep, AdmitStep
    DEF Prepare
  <2>2. CASE Execute(p)
    BY <2>2, AgentWorksStep, RecordEvidenceStep, ExecutorFailsStep DEF Execute
  <2>3. CASE Settle(p)
    BY <2>3, AttestStep, DecideStep, CaptureWorktreeStep, PromoteStep, SubmitStep,
       RetainOutputStep, SubmitFailureStep, ObserveContextStep DEF Settle
  <2>4. CASE Finish(p)
    BY <2>4, SealStep, CleanupStep, DiscardRegisteredStep, RollBackWorktreeStep,
       RollBackBranchStep, ReloadWithoutEvidenceStep, DiscardWithoutEvidenceStep DEF Finish
  <2>5. CASE Recover(p)
    BY <2>5, LoadStep, FinishRecoveryStep, InspectStep DEF Recover
  <2> QED
    BY <1>1, <2>1, <2>2, <2>3, <2>4, <2>5, BeginStep, StartRecoveryStep, CrashStep DEF Step
<1>2. CASE NodeMoves
  BY <1>2, NodeMovesStep
<1>3. CASE OwnerCommits
  BY <1>3, OwnerCommitsStep
<1>4. CASE UNCHANGED vars
  <2>1. Quiet /\ UNCHANGED procs
    BY <1>4, SameDisk DEF vars
  <2> QED  BY <2>1, OutsideStep
<1> QED  BY <1>1, <1>2, <1>3, <1>4 DEF Next

LEMMA Inductive == Spec => []IInv
BY InitInv, StepInv, PTL DEF Spec

-----------------------------------------------------------------------------
(* A worktree that the attempt store does not know of is one that recovery *)
(* rolled back under its run (plan_workspace before prepare).              *)
THEOREM WorktreesStayKnown == Spec => []WorktreesAreKnown
<1>1. IInv => WorktreesAreKnown
  BY DEF IInv, AttemptInv, Undisturbed, WorktreesAreKnown
<1> QED  BY <1>1, Inductive, PTL

(* A seal says what Linka holds of the attempt, whoever wrote it: a run    *)
(* after its submission, or a recovery that never submits (SealedState).   *)
THEOREM SealsAreTrue == Spec => []SealsTellTheTruth
<1>1. IInv => SealsTellTheTruth
  BY DEF IInv, AttemptInv, TrueSeal, Undisturbed, SealsTellTheTruth
<1> QED  BY <1>1, Inductive, PTL

(* An output that Linka holds is on a promoted branch, and stays there     *)
(* (Workspaces::promote before submit_candidate_success).                  *)
THEOREM OutputsStay == Spec => []OutputsAreKept
<1>1. IInv => OutputsAreKept
  BY DEF IInv, AttemptInv, OutputsAreKept
<1> QED  BY <1>1, Inductive, PTL

(* What a step does to branches and worktrees, and to evidence. *)
LEMMA BranchSteps ==
  ASSUME IInv, [Next]_vars, NEW a \in Attempts, branch'[a] # branch[a]
  PROVE  branch[a] \in {None, "input"} \/ branch'[a] = "output"
<1>1. PICK p \in Procs :
        AddWorktree(p) \/ AgentWorks(p) \/ CaptureWorktree(p) \/ RollBackBranch(p)
  BY DEF Next, vars, git, procs, Step, Prepare, Execute, Settle, Finish, Recover, Begin,
     StartRecovery, Crash, NodeMoves, OwnerCommits, WriteRecord, PlanWorkspace, MarkPrepared,
     Admit, RecordEvidence, ExecutorFails, Attest, Decide, Promote, Submit, RetainOutput,
     SubmitFailure, ObserveContext, Seal, Cleanup, DiscardRegistered, RollBackWorktree,
     ReloadWithoutEvidence, DiscardWithoutEvidence, Load, FinishRecovery, Inspect
<1>2. at[p] \in Attempts /\ Known(pc[p], role[p], at[p], verdict[p])
  BY <1>1, InHand DEF Away, AddWorktree, AgentWorks, CaptureWorktree, RollBackBranch
<1>3. CASE AddWorktree(p) \/ AgentWorks(p)
  BY <1>2, <1>3 DEF AddWorktree, AgentWorks, Known, Preparing, IInv, DiskTyped
<1>4. CASE CaptureWorktree(p)
  BY <1>2, <1>4 DEF CaptureWorktree, IInv, DiskTyped
<1>5. CASE RollBackBranch(p)
  BY <1>2, <1>5 DEF RollBackBranch, IInv, DiskTyped
<1> QED  BY <1>1, <1>3, <1>4, <1>5

LEMMA TreeSteps ==
  ASSUME IInv, [Next]_vars, NEW a \in Attempts, tree[a] # "absent", tree'[a] = "absent"
  PROVE  tree[a] = "clean" /\ (branch[a] = "input" \/ a \in promoted)
<1>1. PICK p \in Procs :
        AddWorktree(p) \/ AgentWorks(p) \/ Cleanup(p) \/ RollBackWorktree(p)
  BY DEF Next, vars, git, procs, Step, Prepare, Execute, Settle, Finish, Recover, Begin,
     StartRecovery, Crash, NodeMoves, OwnerCommits, WriteRecord, PlanWorkspace, MarkPrepared,
     Admit, RecordEvidence, ExecutorFails, Attest, Decide, CaptureWorktree, Promote, Submit,
     RetainOutput, SubmitFailure, ObserveContext, Seal, DiscardRegistered, RollBackBranch,
     ReloadWithoutEvidence, DiscardWithoutEvidence, Load, FinishRecovery, Inspect
<1>2. at[p] \in Attempts
  BY <1>1, InHand DEF Away, AddWorktree, AgentWorks, Cleanup, RollBackWorktree
<1>3. CASE AddWorktree(p) \/ AgentWorks(p)
  BY <1>2, <1>3 DEF AddWorktree, AgentWorks, IInv, DiskTyped
<1>4. CASE Cleanup(p)
  BY <1>2, <1>4 DEF Cleanup, Removable, Clean, IInv, DiskTyped
<1>5. CASE RollBackWorktree(p)
  BY <1>2, <1>5 DEF RollBackWorktree, Clean, IInv, DiskTyped
<1> QED  BY <1>1, <1>3, <1>4, <1>5

(* Neither a worktree nor a branch goes with anything on it that is not in *)
(* the project (Workspaces::cleanup, discard_unchanged).                   *)
THEOREM WorkStays == Spec => WorkIsNeverDiscarded
<1>1. ASSUME IInv, [Next]_vars
      PROVE  \A a \in Attempts :
               /\ tree[a] # "absent" /\ tree'[a] = "absent" =>
                    tree[a] = "clean" /\ (branch[a] = "input" \/ a \in promoted)
               /\ branch[a] \in {"work", "output"} => branch'[a] \in {"work", "output"}
  BY <1>1, BranchSteps, TreeSteps, NoneIsNone
<1> QED  BY <1>1, Inductive, PTL DEF Spec, WorkIsNeverDiscarded

(* Evidence goes only for what Linka holds (discard_registered), unless a  *)
(* recovery overlapped its run.                                            *)
THEOREM EvidenceStays == Spec => EvidenceOutlivesTheAttempt
<1>1. ASSUME IInv, [Next]_vars, NEW a \in Attempts \ overlapped,
             Has(a, "evidence"), "evidence" \notin files'[a]
      PROVE  recorded[a] # None
  <2>1. PICK p \in Procs : DiscardRegistered(p) \/ DiscardWithoutEvidence(p)
    <3>1. PICK p \in Procs :
            Begin(p) \/ WriteRecord(p) \/ PlanWorkspace(p) \/ Admit(p) \/ RecordEvidence(p)
            \/ Decide(p) \/ DiscardRegistered(p) \/ DiscardWithoutEvidence(p)
      BY <1>1 DEF Next, vars, store, procs, Step, Prepare, Execute, Settle, Finish, Recover,
         StartRecovery, Crash, NodeMoves, OwnerCommits, AddWorktree, MarkPrepared, AgentWorks,
         ExecutorFails, Attest, CaptureWorktree, Promote, Submit, RetainOutput, SubmitFailure,
         ObserveContext, Seal, Cleanup, RollBackWorktree, RollBackBranch,
         ReloadWithoutEvidence, Load, FinishRecovery, Inspect, Has
    <3>2. ASSUME NEW b, NEW f, Write(b, f) PROVE FALSE
      BY <1>1, <3>2 DEF Write, IInv, DiskTyped, Has
    <3>3. ASSUME NEW f, Required(p, f, "settling") \/ Required(p, f, "allocating") PROVE FALSE
      BY <1>1, <3>2, <3>3 DEF Required, Has
    <3> QED
      BY <3>1, <3>2, <3>3
      DEF Begin, WriteRecord, PlanWorkspace, Admit, RecordEvidence, Decide
  <2>2. at[p] \in Attempts /\ Known(pc[p], role[p], at[p], verdict[p])
    BY <1>1, <2>1, InHand DEF Away, DiscardRegistered, DiscardWithoutEvidence
  <2>3. a = at[p]
    BY <1>1, <2>1, <2>2 DEF DiscardRegistered, DiscardWithoutEvidence, Forget, Has, IInv, DiskTyped
  <2>4. CASE DiscardRegistered(p)
    <3>1. seal[a] \in Registered
      BY <1>1, <2>3, <2>4 DEF DiscardRegistered, Has
    <3> QED
      BY <1>1, <3>1, NoneIsNone DEF Registered, IInv, AttemptInv, TrueSeal
  <2>5. CASE DiscardWithoutEvidence(p)
    BY <1>1, <2>2, <2>3, <2>5 DEF DiscardWithoutEvidence, Known, Unwitnessed, Undisturbed
  <2> QED  BY <2>1, <2>4, <2>5
<1>2. ASSUME IInv, [Next]_vars
      PROVE  \A a \in Attempts \ overlapped :
               Has(a, "evidence") /\ "evidence" \notin files'[a] => recorded[a] # None
  BY <1>1, <1>2
<1> QED  BY <1>2, Inductive, PTL DEF Spec, EvidenceOutlivesTheAttempt

(* Audits change hands with their attempts. *)
AuditInv == \A p \in Procs : audit[p] # None => audit[p] \in Audit(at[p])

LEMMA AuditSteps ==
  ASSUME IInv, [Next]_vars, NEW q \in Procs, audit'[q] # None
  PROVE  MarkPrepared(q) \/ (audit'[q] = audit[q] /\ at'[q] = at[q])
<1>1. CASE \E p \in Procs : Exit(p) \/ Done(p)
  <2>1. PICK p \in Procs : Leaves(p)
    BY <1>1, ExitLeaves, DoneLeaves DEF IInv
  <2>2. audit[p] # None => role[p] = "run"
    BY InHand DEF Placed
  <2> QED
    BY <2>1, <2>2, NoneIsNone DEF Leaves, Moves, Others, Stands
<1>2. CASE \E p \in Procs : Begin(p) \/ Load(p)
  <2>1. PICK p \in Procs : Begin(p) \/ Load(p)
    BY <1>2
  <2>2. audit[p] = None
    BY <2>1, InHand, NoneIsNone DEF Placed, Begin, Load
  <2>3. CASE Begin(p)
    BY <2>2, <2>3 DEF Begin, IInv, ProcTyped
  <2>4. CASE Load(p)
    BY <1>1, <2>1, <2>2, <2>4 DEF Load, IInv, ProcTyped
  <2> QED  BY <2>1, <2>3, <2>4
<1>3. CASE \E p \in Procs : MarkPrepared(p)
  BY <1>1, <1>3 DEF MarkPrepared, IInv, ProcTyped
<1>4. CASE UNCHANGED <<at, audit>>
  BY <1>4
<1> QED
  BY <1>1, <1>2, <1>3, <1>4
  DEF Next, vars, procs, Step, Prepare, Execute, Settle, Finish, Recover, StartRecovery, Crash,
      NodeMoves, OwnerCommits, WriteRecord, PlanWorkspace, AddWorktree, Admit, AgentWorks,
      RecordEvidence, ExecutorFails, Attest, Decide, CaptureWorktree, Promote, Submit,
      RetainOutput, SubmitFailure, ObserveContext, Seal, Cleanup, DiscardRegistered,
      RollBackWorktree, RollBackBranch, ReloadWithoutEvidence, DiscardWithoutEvidence,
      FinishRecovery, Inspect, Then, Sealing, Required

LEMMA ProtectedTyped ==
  ASSUME IInv, NEW a \in Attempts
  PROVE  Protected(a) \in Audit(a)
BY DEF IInv, DiskTyped, Protected, Audit

(* Every variable keeps the values the code gives it. *)
THEOREM TypeCorrect == Spec => []TypeOK
<1>1. Init => AuditInv
  BY DEF Init, AuditInv
<1>2. ASSUME IInv, AuditInv, [Next]_vars
      PROVE  AuditInv'
  <2> SUFFICES ASSUME NEW q \in Procs, audit'[q] # None
               PROVE  audit'[q] \in Audit(at[q])'
    BY DEF AuditInv
  <2>1. CASE MarkPrepared(q)
    <3>1. at[q] \in Attempts
      BY <1>2, <2>1, InHand DEF MarkPrepared, Away
    <3>2. audit'[q] = Protected(at[q]) /\ at'[q] = at[q]
      BY <1>2, <2>1 DEF MarkPrepared, Exit, IInv, ProcTyped
    <3> QED  BY <1>2, <3>1, <3>2, ProtectedTyped DEF Audit
  <2>2. CASE audit'[q] = audit[q] /\ at'[q] = at[q]
    BY <1>2, <2>2 DEF AuditInv, Audit
  <2> QED  BY <1>2, <2>1, <2>2, AuditSteps
<1>3. IInv /\ AuditInv => TypeOK
  BY DEF IInv, AuditInv, TypeOK
<1> QED  BY <1>1, <1>2, <1>3, Inductive, PTL DEF Spec

=============================================================================
