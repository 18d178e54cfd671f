-------------------------- MODULE OrkaReviewProofs --------------------------
(***************************************************************************)
(* Proofs about the reviews of a candidate, for any number of processes,   *)
(* reviews and notes. The argument is about what a command may rely on     *)
(* between two steps: only the holder of the start lock makes bindings, so *)
(* that it found none active stays true; and everything else a command     *)
(* knows, a binding, a result, the commits below a head, is never taken    *)
(* back (Steady).                                                          *)
(***************************************************************************)
EXTENDS OrkaReviews, TLAPS

Starting == {"lookup", "add", "freeze", "bind"}
Judging  == {"check", "submit", "submitted"}
Bound    == {"open", "mark", "enter", "note", "remove", "conflict"} \cup Judging
Held     == {"freeze", "bind"} \cup Bound

ProcState == [at : Places, review : Reviews \cup {None}, verdict : Outcomes \cup {None},
              seen : Commits \cup Inputs \cup {None}, note : Notes \cup {None},
              known : SUBSET Notes]

(* The head s of review v has the entries k at or below it. *)
Covered(v, s, k) ==
  \E i \in 1 .. Len(branch[v]) :
    branch[v][i] = s /\ k \subseteq {branch[v][j] : j \in 1 .. i}

(* What process q may rely on, being in state s. *)
Knows(q, s) ==
  /\ s.at \in Starting => lock = q
  /\ s.at \in {"add", "freeze", "bind"} => Active = {}
  /\ s.at \in Held => s.review \in Reviews
  /\ s.at = "bind" => s.seen \in Inputs
  /\ s.at = "note" => s.note \in Notes
  /\ s.at \in Bound => record[s.review] # None
  /\ s.at \in Judging =>
       /\ s.verdict \in Outcomes /\ s.seen \in Commits \cup {None}
       /\ s.verdict \in Decisive => s.seen \in Commits /\ Covered(s.review, s.seen, s.known)
  /\ s.at = "submitted" =>
       result[s.review] = [outcome |-> s.verdict, head |-> s.seen]

KnowInv == \A q \in Procs : Knows(q, proc[q])

IInv == /\ TypeOK /\ KnowInv
        /\ OneActiveReview /\ NotesAreKept /\ EvidenceIsBound /\ OneVerdict

(* What a process relies on is not taken back, and only the holder of the   *)
(* start lock may end the absence of active bindings.                       *)
Steady(p) ==
  /\ \A q \in Procs : q # p /\ lock = q => lock' = q
  /\ Active = {} => Active' = {} \/ lock = p
  /\ \A v \in Reviews : record[v] # None => record'[v] # None
  /\ \A v \in Reviews : result[v] # None => result'[v] = result[v]
  /\ \A v \in Reviews : /\ Len(branch[v]) <= Len(branch'[v])
                        /\ \A i \in 1 .. Len(branch[v]) : branch'[v][i] = branch[v][i]

LEMMA CoveredStays ==
  ASSUME TypeOK, NEW p, Steady(p), NEW v \in Reviews, NEW s, NEW k, Covered(v, s, k),
         branch' \in [Reviews -> Seq(Commits)]
  PROVE  Covered(v, s, k)'
<1>1. PICK i \in 1 .. Len(branch[v]) :
        branch[v][i] = s /\ k \subseteq {branch[v][j] : j \in 1 .. i}
  BY DEF Covered
<1>2. Len(branch[v]) \in Nat /\ Len(branch'[v]) \in Nat
  BY DEF TypeOK
<1>3. i \in 1 .. Len(branch'[v]) /\ branch'[v][i] = s
  BY <1>1, <1>2 DEF Steady
<1>4. \A j \in 1 .. i : branch'[v][j] = branch[v][j]
  BY <1>1, <1>2 DEF Steady
<1>5. k \subseteq {branch'[v][j] : j \in 1 .. i}
  BY <1>1, <1>4
<1>q. QED
  BY <1>3, <1>5 DEF Covered

LEMMA KnowledgeStays ==
  ASSUME TypeOK, NEW p, Steady(p), NEW q \in Procs, p # q, NEW s, Knows(q, s),
         branch' \in [Reviews -> Seq(Commits)]
  PROVE  Knows(q, s)'
<1>1. s.at \in Starting => lock' = q
  BY DEF Knows, Steady
<1>2. s.at \in {"add", "freeze", "bind"} => Active' = {}
  BY DEF Knows, Steady, Starting
<1>3. s.at \in Bound => record'[s.review] # None
  BY DEF Knows, Steady, Held
<1>4. s.at \in Judging /\ s.verdict \in Decisive => Covered(s.review, s.seen, s.known)'
  BY CoveredStays DEF Knows, Held, Bound
<1>5. s.at = "submitted" => result'[s.review] = [outcome |-> s.verdict, head |-> s.seen]
  <2>1. CASE s.at = "submitted"
    <3>1. s.review \in Reviews /\ [outcome |-> s.verdict, head |-> s.seen] \in Results
      BY <2>1 DEF Knows, Held, Bound, Judging, Results
    <3>q. QED
      BY <2>1, <3>1, ReviewAssumption DEF Knows, Steady
  <2>q. QED
    BY <2>1
<1>q. QED
  BY <1>1, <1>2, <1>3, <1>4, <1>5 DEF Knows

(* A step of p is told by what it does to p and to what others rely on. *)
LEMMA Others ==
  ASSUME TypeOK, KnowInv, NEW p, Steady(p), branch' \in [Reviews -> Seq(Commits)],
         \A q \in Procs : q # p => proc'[q] = proc[q],
         p \in Procs => Knows(p, proc[p])'
  PROVE  KnowInv'
<1> SUFFICES ASSUME NEW q \in Procs, q # p PROVE Knows(q, proc[q])'
  BY DEF KnowInv
<1>1. PICK s : s = proc[q]
  OBVIOUS
<1>2. Knows(q, s)'
  BY <1>1, KnowledgeStays DEF KnowInv
<1>q. QED
  BY <1>1, <1>2 DEF Knows

(* Steps that leave the graph, the bindings and the branches alone. *)
LEMMA Aside ==
  ASSUME IInv, NEW p, UNCHANGED <<graph, record, nota>>,
         \A q \in Procs : q # p /\ lock = q => lock' = q,
         \A v \in Reviews : tree'[v] # "absent" => tree[v] # "absent" \/ record[v] # None
  PROVE  /\ Steady(p)
         /\ OneActiveReview' /\ NotesAreKept' /\ EvidenceIsBound' /\ OneVerdict'
<1>1. Active' = Active
  BY DEF Active, graph
<1>2. Steady(p)
  BY <1>1 DEF Steady, graph, nota, IInv, TypeOK
<1>3. OneActiveReview'
  BY <1>1 DEF IInv, OneActiveReview
<1>4. NotesAreKept'
  BY DEF IInv, NotesAreKept, Entries, nota
<1>5. EvidenceIsBound'
  BY DEF IInv, EvidenceIsBound, nota, graph
<1>6. OneVerdict'
  BY DEF IInv, OneVerdict, Decided, graph
<1>q. QED
  BY <1>2, <1>3, <1>4, <1>5, <1>6

LEMMA IdleKnows == ASSUME NEW q PROVE Knows(q, Idle) /\ Knows(q, Idle)' /\ Idle \in ProcState
  BY DEF Knows, Idle, Starting, Held, Bound, Judging, ProcState, Places

(* Returning is always safe. *)
LEMMA Returns ==
  ASSUME IInv, NEW p \in Procs, Return(p)
  PROVE  /\ lock' \in Procs \cup {None}
         /\ \A q \in Procs : q # p /\ lock = q => lock' = q
         /\ \A q \in Procs : q # p => proc'[q] = proc[q]
         /\ proc' \in [Procs -> ProcState]
         /\ Knows(p, proc[p])'
<1>1. proc'[p] = Idle /\ Idle \in ProcState
  BY IdleKnows DEF Return, IInv, TypeOK
<1>2. proc' \in [Procs -> ProcState]
  BY <1>1 DEF Return, IInv, TypeOK, ProcState
<1>3. Knows(p, proc[p])'
  BY <1>1, IdleKnows DEF Knows
<1>q. QED
  BY <1>1, <1>2, <1>3 DEF Return, IInv, TypeOK

LEMMA AsideReturns ==
  ASSUME IInv, NEW p \in Procs, Return(p), UNCHANGED <<graph, record, nota>>,
         inputs' \in Inputs, source' \in {"current", "edited", "replaced"},
         tree' \in [Reviews -> {"absent", "clean", "dirty"}], crashes' \in 0 .. MaxCrashes,
         \A v \in Reviews : tree'[v] # "absent" => tree[v] # "absent" \/ record[v] # None
  PROVE  IInv'
<1>1. TypeOK'
  BY Returns DEF IInv, TypeOK, ProcState, graph, nota
<1>2. KnowInv'
  BY Others, Returns, Aside DEF IInv, TypeOK, nota
<1>q. QED
  BY <1>1, <1>2, Returns, Aside DEF IInv

(* A step that only changes where p is and what it knows. *)
LEMMA AsideGoes ==
  ASSUME IInv, NEW p \in Procs, NEW s \in ProcState, proc' = [proc EXCEPT ![p] = s],
         UNCHANGED <<graph, record, nota, world, tree, crashes>>,
         lock' \in Procs \cup {None},
         \A q \in Procs : q # p /\ lock = q => lock' = q,
         Knows(p, s)'
  PROVE  IInv'
<1>1. proc' \in [Procs -> ProcState] /\ proc'[p] = s
      /\ \A q \in Procs : q # p => proc'[q] = proc[q]
  BY DEF IInv, TypeOK, ProcState
<1>2. TypeOK'
  BY <1>1 DEF IInv, TypeOK, ProcState, graph, nota, world
<1>3. Knows(p, proc[p])'
  BY <1>1 DEF Knows
<1>4. KnowInv'
  BY <1>1, <1>3, Others, Aside DEF IInv, TypeOK, nota
<1>q. QED
  BY <1>2, <1>4, Aside DEF IInv

-----------------------------------------------------------------------------
(* Starting. *)

LEMMA StartStep == ASSUME IInv, NEW p \in Procs, Start(p) PROVE IInv'
<1>0. PICK s : s = [proc[p] EXCEPT !.at = "lookup"]
  OBVIOUS
<1>1. s \in ProcState /\ s.at = "lookup" /\ proc' = [proc EXCEPT ![p] = s] /\ lock' = p
  BY <1>0 DEF Start, Goto, IInv, TypeOK, ProcState, Places
<1>2. Knows(p, s)'
  BY <1>1 DEF Knows, Starting, Held, Bound, Judging
<1>3. \A q \in Procs : q # p /\ lock = q => lock' = q
  BY ReviewAssumption DEF Start
<1>q. QED
  BY <1>1, <1>2, <1>3, AsideGoes DEF Start, graph, nota, world

LEMMA LookupStep == ASSUME IInv, NEW p \in Procs, Lookup(p) PROVE IInv'
<1>1. CASE Active = {}
  <2>0. PICK s : s = [proc[p] EXCEPT !.at = "add"]
    OBVIOUS
  <2>1. s \in ProcState /\ s.at = "add" /\ proc' = [proc EXCEPT ![p] = s] /\ lock' = lock
    <3>1. Goto(p, "add") /\ UNCHANGED lock
      BY <1>1 DEF Lookup
    <3>q. QED
      BY <2>0, <3>1 DEF Goto, IInv, TypeOK, ProcState, Places
  <2>2. Active' = {} /\ lock' = p
    BY <1>1, <2>1 DEF Lookup, Active, graph, IInv, KnowInv, Knows, Starting, At
  <2>3. Knows(p, s)'
    BY <2>1, <2>2 DEF Knows, Starting, Held, Bound, Judging
  <2>q. QED
    BY <2>1, <2>2, <2>3, AsideGoes DEF Lookup, graph, nota, world, IInv, TypeOK
<1>2. CASE Active # {} /\ Cardinality(Active) > 1
  <2>1. Return(p)
    BY <1>2 DEF Lookup
  <2>q. QED
    BY <2>1, AsideReturns DEF Lookup, graph, nota, world, IInv, TypeOK
<1>3. CASE Active # {} /\ ~(Cardinality(Active) > 1)
  <2>1. PICK v \in Active : proc' = [proc EXCEPT ![p].at = "open", ![p].review = v]
    BY <1>3 DEF Lookup
  <2>0. PICK s : s = [proc[p] EXCEPT !.at = "open", !.review = v]
    OBVIOUS
  <2>2. v \in Reviews /\ record[v] # None
    BY DEF Active
  <2>3. s \in ProcState /\ s.at = "open" /\ s.review = v
        /\ proc' = [proc EXCEPT ![p] = s] /\ lock' = lock
    BY <2>0, <1>3, <2>1, <2>2 DEF Lookup, IInv, TypeOK, ProcState, Places
  <2>4. Knows(p, s)'
    BY <2>2, <2>3 DEF Knows, Starting, Held, Bound, Judging, Lookup
  <2>q. QED
    BY <2>3, <2>4, AsideGoes DEF Lookup, graph, nota, world, IInv, TypeOK
<1>q. QED
  BY <1>1, <1>2, <1>3

LEMMA AddVerificationStep == ASSUME IInv, NEW p \in Procs, AddVerification(p) PROVE IInv'
<1>0. PICK s : s = [proc[p] EXCEPT !.at = "freeze", !.review = made + 1]
  OBVIOUS
<1>1. made + 1 \in Reviews /\ made' \in 0 .. MaxReviews
  BY ReviewAssumption DEF AddVerification, Reviews, IInv, TypeOK
<1>2. s \in ProcState /\ s.at = "freeze" /\ s.review = made + 1
      /\ proc' = [proc EXCEPT ![p] = s]
  BY <1>0, <1>1 DEF AddVerification, IInv, TypeOK, ProcState, Places
<1>3. lock = p /\ Active = {}
  BY DEF AddVerification, IInv, KnowInv, Knows, Starting, At
<1>4. Active' = Active
  BY DEF AddVerification, Active
<1>5. Knows(p, s)'
  BY <1>1, <1>2, <1>3, <1>4 DEF AddVerification, Knows, Starting, Held, Bound, Judging
<1>6. proc' \in [Procs -> ProcState] /\ proc'[p] = s
      /\ \A q \in Procs : q # p => proc'[q] = proc[q]
  BY <1>2 DEF IInv, TypeOK, ProcState
<1>7. Steady(p)
  BY <1>4 DEF AddVerification, Steady, IInv, TypeOK, nota
<1>8. TypeOK'
  BY <1>1, <1>6 DEF AddVerification, IInv, TypeOK, ProcState, world, nota
<1>9. Knows(p, proc[p])'
  BY <1>5, <1>6 DEF Knows
<1>10. KnowInv'
  BY <1>6, <1>7, <1>9, Others DEF AddVerification, IInv, TypeOK, nota
<1>11. OneActiveReview'
  BY <1>4 DEF IInv, OneActiveReview
<1>12. NotesAreKept' /\ EvidenceIsBound' /\ OneVerdict'
  BY DEF AddVerification, IInv, NotesAreKept, Entries, EvidenceIsBound, OneVerdict, Decided, nota
<1>q. QED
  BY <1>8, <1>10, <1>11, <1>12 DEF IInv

LEMMA SnapshotWorkStep == ASSUME IInv, NEW p \in Procs, SnapshotWork(p) PROVE IInv'
<1>1. CASE source = "replaced"
  BY <1>1, AsideReturns DEF SnapshotWork, graph, nota, world, IInv, TypeOK
<1>2. CASE source # "replaced"
  <2>0. PICK s : s = [proc[p] EXCEPT !.at = "bind", !.seen = inputs]
    OBVIOUS
  <2>1. s \in ProcState /\ s.at = "bind" /\ s.seen = inputs /\ s.review = proc[p].review
        /\ proc' = [proc EXCEPT ![p] = s] /\ lock' = lock
    BY <2>0, <1>2 DEF SnapshotWork, IInv, TypeOK, ProcState, Places
  <2>2. Active' = Active
    BY DEF SnapshotWork, Active, graph
  <2>3. lock = p /\ Active = {} /\ proc[p].review \in Reviews /\ inputs \in Inputs
    BY DEF SnapshotWork, IInv, KnowInv, Knows, Starting, Held, At, TypeOK
  <2>4. Knows(p, s)'
    BY <2>1, <2>2, <2>3 DEF Knows, Starting, Held, Bound, Judging
  <2>q. QED
    BY <2>1, <2>4, AsideGoes DEF SnapshotWork, graph, nota, world, IInv, TypeOK
<1>q. QED
  BY <1>1, <1>2

LEMMA CreateRecordStep == ASSUME IInv, NEW p \in Procs, CreateRecord(p) PROVE IInv'
<1>0. PICK s : s = [proc[p] EXCEPT !.at = "open", !.seen = None]
  OBVIOUS
<1>1. PICK v : v = proc[p].review
  OBVIOUS
<1>2. s \in ProcState /\ s.at = "open" /\ s.review = v /\ proc' = [proc EXCEPT ![p] = s]
  BY <1>0, <1>1 DEF CreateRecord, IInv, TypeOK, ProcState, Places
<1>3. lock = p /\ Active = {} /\ v \in Reviews /\ proc[p].seen \in Inputs
  BY <1>1 DEF CreateRecord, IInv, KnowInv, Knows, Starting, Held, At
<1>4. record' \in [Reviews -> Inputs \cup {None}] /\ record'[v] # None
      /\ \A w \in Reviews : w # v => record'[w] = record[w]
  BY <1>1, <1>3, ReviewAssumption DEF CreateRecord, IInv, TypeOK
<1>5. Active' \subseteq {v}
  BY <1>3, <1>4 DEF CreateRecord, Active, graph
<1>6. Knows(p, s)'
  BY <1>2, <1>3, <1>4 DEF Knows, Starting, Held, Bound, Judging
<1>7. proc' \in [Procs -> ProcState] /\ proc'[p] = s
      /\ \A q \in Procs : q # p => proc'[q] = proc[q]
  BY <1>2 DEF IInv, TypeOK, ProcState
<1>8. Steady(p)
  BY <1>3, <1>4 DEF CreateRecord, Steady, IInv, TypeOK, nota, graph
<1>9. TypeOK'
  BY <1>4, <1>7 DEF CreateRecord, IInv, TypeOK, ProcState, world, nota, graph
<1>10. Knows(p, proc[p])'
  BY <1>6, <1>7 DEF Knows
<1>11. KnowInv'
  BY <1>7, <1>8, <1>10, Others DEF CreateRecord, IInv, TypeOK, nota
<1>12. OneActiveReview'
  BY <1>5 DEF OneActiveReview
<1>13. EvidenceIsBound'
  BY <1>4 DEF CreateRecord, IInv, EvidenceIsBound, graph, nota
<1>14. NotesAreKept' /\ OneVerdict'
  BY DEF CreateRecord, IInv, NotesAreKept, Entries, OneVerdict, Decided, nota, graph
<1>q. QED
  BY <1>9, <1>11, <1>12, <1>13, <1>14 DEF IInv

-----------------------------------------------------------------------------
(* Opening a review. *)

LEMMA ResumeStep == ASSUME IInv, NEW p \in Procs, NEW v \in Reviews, Resume(p, v) PROVE IInv'
<1>0. PICK s : s = [proc[p] EXCEPT !.at = "open", !.review = v]
  OBVIOUS
<1>1. s \in ProcState /\ s.at = "open" /\ s.review = v
      /\ proc' = [proc EXCEPT ![p] = s]
  BY <1>0 DEF Resume, IInv, TypeOK, ProcState, Places
<1>2. Knows(p, s)'
  BY <1>1 DEF Resume, Knows, Starting, Held, Bound, Judging
<1>q. QED
  BY <1>1, <1>2, AsideGoes DEF Resume, graph, nota, world, IInv, TypeOK

LEMMA OpenedKnows ==
  ASSUME IInv, NEW p \in Procs, proc[p].at \in {"open", "mark"}, Opened(p),
         UNCHANGED record
  PROVE  /\ proc' \in [Procs -> ProcState]
         /\ \A q \in Procs : q # p => proc'[q] = proc[q]
         /\ Knows(p, proc[p])'
         /\ lock' \in Procs \cup {None}
         /\ \A q \in Procs : q # p /\ lock = q => lock' = q
<1>0. PICK s : s = [proc[p] EXCEPT !.at = "enter"]
  OBVIOUS
<1>1. s \in ProcState /\ s.at = "enter" /\ s.review = proc[p].review
      /\ proc' = [proc EXCEPT ![p] = s]
  BY <1>0 DEF Opened, Goto, IInv, TypeOK, ProcState, Places
<1>2. proc' \in [Procs -> ProcState] /\ proc'[p] = s
      /\ \A q \in Procs : q # p => proc'[q] = proc[q]
  BY <1>1 DEF IInv, TypeOK, ProcState
<1>3. proc[p].review \in Reviews /\ record[proc[p].review] # None
  BY DEF IInv, KnowInv, Knows, Bound, Held
<1>4. Knows(p, proc[p])'
  BY <1>1, <1>2, <1>3 DEF Knows, Starting, Held, Bound, Judging
<1>q. QED
  BY <1>2, <1>4 DEF Opened, IInv, TypeOK

LEMMA OpenBranchStep == ASSUME IInv, NEW p \in Procs, OpenBranch(p) PROVE IInv'
<1>1. CASE branch[proc[p].review] # <<>>
  <2>1. Opened(p) /\ proc[p].at \in {"open", "mark"} /\ UNCHANGED record
    BY <1>1 DEF OpenBranch, At
  <2>2. TypeOK'
    BY <2>1, OpenedKnows DEF OpenBranch, IInv, TypeOK, ProcState, graph, nota, world
  <2>3. KnowInv'
    BY <2>1, OpenedKnows, Others, Aside DEF OpenBranch, IInv, TypeOK, nota
  <2>q. QED
    BY <2>1, <2>2, <2>3, OpenedKnows, Aside DEF OpenBranch, IInv
<1>2. CASE branch[proc[p].review] = <<>>
  <2>0. PICK s : s = [proc[p] EXCEPT !.at = "mark"]
    OBVIOUS
  <2>1. s \in ProcState /\ s.at = "mark" /\ s.review = proc[p].review
        /\ proc' = [proc EXCEPT ![p] = s] /\ lock' = lock
    BY <2>0, <1>2 DEF OpenBranch, Goto, IInv, TypeOK, ProcState, Places
  <2>2. proc[p].review \in Reviews /\ record[proc[p].review] # None
    BY DEF OpenBranch, At, IInv, KnowInv, Knows, Bound, Held
  <2>3. Knows(p, s)'
    BY <2>1, <2>2 DEF OpenBranch, Knows, Starting, Held, Bound, Judging
  <2>q. QED
    BY <2>1, <2>3, AsideGoes DEF OpenBranch, graph, nota, world, IInv, TypeOK
<1>q. QED
  BY <1>1, <1>2

LEMMA CreateBranchStep == ASSUME IInv, NEW p \in Procs, CreateBranch(p) PROVE IInv'
<1>1. PICK v : v = proc[p].review
  OBVIOUS
<1>2. v \in Reviews /\ record[v] # None
  BY <1>1 DEF CreateBranch, At, IInv, KnowInv, Knows, Bound, Held
<1>3. CASE branch[v] # <<>>
  <2>1. Return(p) /\ UNCHANGED branch
    BY <1>1, <1>3 DEF CreateBranch
  <2>q. QED
    BY <2>1, AsideReturns DEF CreateBranch, graph, nota, world, IInv, TypeOK
<1>4. CASE branch[v] = <<>>
  <2>1. Opened(p) /\ proc[p].at \in {"open", "mark"} /\ UNCHANGED record
        /\ branch' = [branch EXCEPT ![v] = <<Marker>>]
    BY <1>1, <1>4 DEF CreateBranch, At
  <2>2. <<Marker>> \in Seq(Commits) /\ Len(branch[v]) = 0 /\ Len(<<Marker>>) = 1
    BY <1>4 DEF Commits
  <2>3. branch' \in [Reviews -> Seq(Commits)] /\ branch'[v] = <<Marker>>
        /\ \A w \in Reviews : w # v => branch'[w] = branch[w]
    BY <1>2, <2>1, <2>2 DEF IInv, TypeOK
  <2>4. Active' = Active
    BY DEF CreateBranch, Active, graph
  <2>5. \A w \in Reviews : /\ Len(branch[w]) <= Len(branch'[w])
                            /\ \A i \in 1 .. Len(branch[w]) : branch'[w][i] = branch[w][i]
    <3> SUFFICES ASSUME NEW w \in Reviews
                 PROVE  /\ Len(branch[w]) <= Len(branch'[w])
                        /\ \A i \in 1 .. Len(branch[w]) : branch'[w][i] = branch[w][i]
      OBVIOUS
    <3>1. CASE w = v
      BY <1>4, <2>2, <2>3, <3>1
    <3>2. CASE w # v
      BY <2>3, <3>2 DEF IInv, TypeOK
    <3>q. QED
      BY <3>1, <3>2
  <2>6. Steady(p)
    BY <2>1, <2>4, <2>5, OpenedKnows DEF CreateBranch, Steady, graph
  <2>7. TypeOK'
    BY <2>1, <2>3, OpenedKnows DEF CreateBranch, IInv, TypeOK, ProcState, graph, world
  <2>8. KnowInv'
    BY <2>1, <2>3, <2>6, OpenedKnows, Others DEF IInv
  <2>9. NotesAreKept'
    <3>1. acked[v] = {}
      BY <1>2, <1>4, <2>2 DEF IInv, NotesAreKept, Entries
    <3>q. QED
      BY <2>3, <3>1 DEF CreateBranch, IInv, NotesAreKept, Entries
  <2>10. OneActiveReview' /\ OneVerdict'
    BY <2>4 DEF CreateBranch, IInv, OneActiveReview, OneVerdict, Decided, graph
  <2>11. EvidenceIsBound'
    BY <1>2, <2>3 DEF CreateBranch, IInv, EvidenceIsBound, graph
  <2>q. QED
    BY <2>7, <2>8, <2>9, <2>10, <2>11 DEF IInv
<1>q. QED
  BY <1>3, <1>4

LEMMA PrepareWorktreeStep == ASSUME IInv, NEW p \in Procs, PrepareWorktree(p) PROVE IInv'
<1>1. /\ tree' \in [Reviews -> {"absent", "clean", "dirty"}]
      /\ \A v \in Reviews : v # proc[p].review => tree'[v] = tree[v]
  BY DEF PrepareWorktree, IInv, TypeOK
<1>2. record[proc[p].review] # None
  BY DEF PrepareWorktree, At, IInv, KnowInv, Knows, Bound
<1>q. QED
  BY <1>1, <1>2, AsideReturns DEF PrepareWorktree, graph, nota, world, IInv, TypeOK

-----------------------------------------------------------------------------
(* Notes and suggestions. *)

LEMMA AddNoteStep == ASSUME IInv, NEW p \in Procs, NEW v \in Reviews, AddNote(p, v) PROVE IInv'
<1>0. PICK s : s = [proc[p] EXCEPT !.at = "note", !.review = v,
                                   !.seen = Last(v), !.note = notes + 1]
  OBVIOUS
<1>1. notes + 1 \in Notes /\ notes' \in 0 .. MaxNotes
  BY ReviewAssumption DEF AddNote, Notes, IInv, TypeOK
<1>2. Last(v) \in Commits
  BY DEF AddNote, Last, IInv, TypeOK
<1>3. s \in ProcState /\ s.at = "note" /\ s.review = v /\ s.note = notes + 1
      /\ proc' = [proc EXCEPT ![p] = s]
  BY <1>0, <1>1, <1>2 DEF AddNote, IInv, TypeOK, ProcState, Places
<1>4. record[v] # None
  BY DEF AddNote, IInv, EvidenceIsBound
<1>5. Knows(p, s)'
  BY <1>1, <1>3, <1>4 DEF AddNote, Knows, Starting, Held, Bound, Judging
<1>6. proc' \in [Procs -> ProcState] /\ proc'[p] = s
      /\ \A q \in Procs : q # p => proc'[q] = proc[q]
  BY <1>3 DEF IInv, TypeOK, ProcState
<1>7. Active' = Active
  BY DEF AddNote, Active, graph
<1>8. Steady(p)
  BY <1>7 DEF AddNote, Steady, IInv, TypeOK, graph
<1>9. TypeOK'
  BY <1>1, <1>6 DEF AddNote, IInv, TypeOK, ProcState, world, graph
<1>10. Knows(p, proc[p])'
  BY <1>5, <1>6 DEF Knows
<1>11. KnowInv'
  BY <1>6, <1>8, <1>10, Others DEF AddNote, IInv, TypeOK
<1>12. OneActiveReview' /\ NotesAreKept' /\ EvidenceIsBound' /\ OneVerdict'
  BY <1>7 DEF AddNote, IInv, OneActiveReview, NotesAreKept, Entries, EvidenceIsBound,
              OneVerdict, Decided, graph
<1>q. QED
  BY <1>9, <1>11, <1>12 DEF IInv

(* An entry on a bound review's branch disturbs nobody. *)
LEMMA Appends ==
  ASSUME IInv, NEW p, NEW v \in Reviews, NEW e \in Notes, Append1(v, e),
         record[v] # None, UNCHANGED <<graph, record>>,
         \A w \in Reviews : tree'[w] # "absent" => tree[w] # "absent",
         \A q \in Procs : q # p /\ lock = q => lock' = q
  PROVE  /\ branch' \in [Reviews -> Seq(Commits)] /\ acked' \in [Reviews -> SUBSET Notes]
         /\ Steady(p)
         /\ OneActiveReview' /\ NotesAreKept' /\ EvidenceIsBound' /\ OneVerdict'
<1>1. branch[v] \in Seq(Commits) /\ e \in Commits
  BY DEF IInv, TypeOK, Commits
<1>2. /\ Append(branch[v], e) \in Seq(Commits)
      /\ Len(Append(branch[v], e)) = Len(branch[v]) + 1
      /\ \A i \in 1 .. Len(branch[v]) : Append(branch[v], e)[i] = branch[v][i]
      /\ Append(branch[v], e)[Len(branch[v]) + 1] = e
      /\ Len(branch[v]) \in Nat
  BY <1>1
<1>3. /\ branch' \in [Reviews -> Seq(Commits)] /\ branch'[v] = Append(branch[v], e)
      /\ \A w \in Reviews : w # v => branch'[w] = branch[w]
  BY <1>2 DEF Append1, IInv, TypeOK
<1>4. /\ acked' \in [Reviews -> SUBSET Notes] /\ acked'[v] = acked[v] \cup {e}
      /\ \A w \in Reviews : w # v => acked'[w] = acked[w]
  BY DEF Append1, IInv, TypeOK
<1>5. Active' = Active
  BY DEF Active, graph
<1>6. \A w \in Reviews : /\ Len(branch[w]) <= Len(branch'[w])
                          /\ \A i \in 1 .. Len(branch[w]) : branch'[w][i] = branch[w][i]
  <2> SUFFICES ASSUME NEW w \in Reviews
               PROVE  /\ Len(branch[w]) <= Len(branch'[w])
                      /\ \A i \in 1 .. Len(branch[w]) : branch'[w][i] = branch[w][i]
    OBVIOUS
  <2>1. CASE w = v
    BY <1>2, <1>3, <2>1
  <2>2. CASE w # v
    BY <1>3, <2>2 DEF IInv, TypeOK
  <2>q. QED
    BY <2>1, <2>2
<1>7. Steady(p)
  BY <1>5, <1>6 DEF Steady, graph
<1>8. NotesAreKept'
  <2> SUFFICES ASSUME NEW w \in Reviews, NEW x \in acked'[w] PROVE x \in Entries(w)'
    BY DEF NotesAreKept
  <2>1. CASE x \in acked[w]
    <3>1. PICK i \in 1 .. Len(branch[w]) : branch[w][i] = x
      BY <2>1 DEF IInv, NotesAreKept, Entries
    <3>2. i \in 1 .. Len(branch'[w]) /\ branch'[w][i] = x
      BY <1>3, <1>6, <3>1 DEF IInv, TypeOK
    <3>q. QED
      BY <3>2 DEF Entries
  <2>2. CASE x \notin acked[w]
    <3>1. w = v /\ x = e
      BY <1>4, <2>2
    <3>2. Len(branch[v]) + 1 \in 1 .. Len(branch'[v])
      BY <1>2, <1>3
    <3>q. QED
      BY <1>2, <1>3, <3>1, <3>2 DEF Entries
  <2>q. QED
    BY <2>1, <2>2
<1>9. OneActiveReview' /\ OneVerdict'
  BY <1>5 DEF IInv, OneActiveReview, OneVerdict, Decided, graph
<1>10. EvidenceIsBound'
  BY <1>3 DEF IInv, EvidenceIsBound, graph
<1>q. QED
  BY <1>3, <1>4, <1>7, <1>8, <1>9, <1>10

LEMMA UpdateBranchStep == ASSUME IInv, NEW p \in Procs, UpdateBranch(p) PROVE IInv'
<1>1. PICK v : v = proc[p].review
  OBVIOUS
<1>2. v \in Reviews /\ record[v] # None /\ proc[p].note \in Notes
  BY <1>1 DEF UpdateBranch, At, IInv, KnowInv, Knows, Bound, Held
<1>3. CASE Last(v) # proc[p].seen
  BY <1>1, <1>3, AsideReturns DEF UpdateBranch, graph, nota, world, IInv, TypeOK
<1>4. CASE Last(v) = proc[p].seen
  <2>1. Append1(v, proc[p].note) /\ Return(p) /\ UNCHANGED <<graph, record, tree>>
    BY <1>1, <1>4 DEF UpdateBranch
  <2>2. /\ branch' \in [Reviews -> Seq(Commits)] /\ acked' \in [Reviews -> SUBSET Notes]
        /\ Steady(p)
        /\ OneActiveReview' /\ NotesAreKept' /\ EvidenceIsBound' /\ OneVerdict'
    BY <1>2, <2>1, Returns, Appends
  <2>3. TypeOK'
    BY <2>1, <2>2, Returns DEF UpdateBranch, IInv, TypeOK, ProcState, graph, world
  <2>4. KnowInv'
    BY <2>1, <2>2, Returns, Others DEF IInv
  <2>q. QED
    BY <2>2, <2>3, <2>4 DEF IInv
<1>q. QED
  BY <1>3, <1>4

LEMMA EditTreeStep == ASSUME IInv, NEW v \in Reviews, EditTree(v) PROVE IInv'
<1>1. /\ tree' \in [Reviews -> {"absent", "clean", "dirty"}]
      /\ \A w \in Reviews : tree'[w] # "absent" => tree[w] # "absent"
  BY DEF EditTree, IInv, TypeOK
<1>2. None \notin Procs
  BY ReviewAssumption
<1>3. /\ Steady(None)
      /\ OneActiveReview' /\ NotesAreKept' /\ EvidenceIsBound' /\ OneVerdict'
  BY <1>1, Aside DEF EditTree
<1>4. TypeOK'
  BY <1>1 DEF EditTree, IInv, TypeOK, graph, world, nota
<1>5. KnowInv'
  BY <1>2, <1>3, Others DEF EditTree, IInv, TypeOK, nota
<1>q. QED
  BY <1>3, <1>4, <1>5 DEF IInv

LEMMA CommitSuggestionStep ==
  ASSUME IInv, NEW v \in Reviews, CommitSuggestion(v) PROVE IInv'
<1>1. /\ tree' \in [Reviews -> {"absent", "clean", "dirty"}]
      /\ \A w \in Reviews : tree'[w] # "absent" => tree[w] # "absent"
  BY DEF CommitSuggestion, IInv, TypeOK
<1>2. None \notin Procs
  BY ReviewAssumption
<1>3. notes + 1 \in Notes /\ notes' \in 0 .. MaxNotes
  BY ReviewAssumption DEF CommitSuggestion, Notes, IInv, TypeOK
<1>4. record[v] # None
  BY DEF CommitSuggestion, IInv, EvidenceIsBound
<1>5. /\ branch' \in [Reviews -> Seq(Commits)] /\ acked' \in [Reviews -> SUBSET Notes]
      /\ Steady(None)
      /\ OneActiveReview' /\ NotesAreKept' /\ EvidenceIsBound' /\ OneVerdict'
  BY <1>1, <1>3, <1>4, Appends DEF CommitSuggestion
<1>6. TypeOK'
  BY <1>1, <1>3, <1>5 DEF CommitSuggestion, IInv, TypeOK, graph, world
<1>7. KnowInv'
  BY <1>2, <1>5, Others DEF CommitSuggestion, IInv
<1>q. QED
  BY <1>5, <1>6, <1>7 DEF IInv

-----------------------------------------------------------------------------
(* Ending a review. *)

LEMMA FinishStep ==
  ASSUME IInv, NEW p \in Procs, NEW v \in Reviews, NEW verdict \in Decisive,
         Finish(p, v, verdict)
  PROVE  IInv'
<1>0. PICK s : s = [Idle EXCEPT !.at = "check", !.review = v, !.verdict = verdict,
                                !.seen = Last(v), !.known = acked[v]]
  OBVIOUS
<1>1. /\ branch[v] \in Seq(Commits) /\ Len(branch[v]) \in 1 .. Len(branch[v])
      /\ acked[v] \subseteq Notes
  BY DEF Finish, IInv, TypeOK
<1>2. Last(v) \in Commits
  BY <1>1 DEF Last
<1>3. /\ s \in ProcState /\ s.at = "check" /\ s.review = v /\ s.verdict = verdict
      /\ s.seen = Last(v) /\ s.known = acked[v] /\ proc' = [proc EXCEPT ![p] = s]
  BY <1>0, <1>1, <1>2 DEF Finish, Idle, ProcState, Places, Outcomes
<1>4. Covered(v, Last(v), acked[v])'
  <2>1. Covered(v, Last(v), acked[v])
    BY <1>1 DEF Covered, Last, IInv, NotesAreKept, Entries
  <2>q. QED
    BY <2>1 DEF Finish, Covered, Last, nota
<1>5. Last(v)' = Last(v) /\ acked' = acked /\ record' = record
  BY DEF Finish, Last, nota
<1>6. Knows(p, s)'
  BY <1>2, <1>3, <1>4, <1>5 DEF Finish, Knows, Starting, Held, Bound, Judging, Outcomes
<1>q. QED
  BY <1>3, <1>6, AsideGoes DEF Finish, graph, nota, world, IInv, TypeOK

LEMMA AbandonStep == ASSUME IInv, NEW p \in Procs, NEW v \in Reviews, Abandon(p, v) PROVE IInv'
<1>0. PICK s : s = [Idle EXCEPT !.at = "check", !.review = v, !.verdict = "abandoned"]
  OBVIOUS
<1>1. /\ s \in ProcState /\ s.at = "check" /\ s.review = v /\ s.verdict = "abandoned"
      /\ s.seen = None /\ proc' = [proc EXCEPT ![p] = s]
  BY <1>0 DEF Abandon, Idle, ProcState, Places, Outcomes
<1>2. Knows(p, s)'
  BY <1>1 DEF Abandon, Knows, Starting, Held, Bound, Judging, Outcomes, Decisive
<1>q. QED
  BY <1>1, <1>2, AsideGoes DEF Abandon, graph, nota, world, IInv, TypeOK

(* What a command that judges knows, wherever it goes next. *)
LEMMA Judges ==
  ASSUME IInv, NEW p \in Procs, proc[p].at \in {"check", "submit"},
         NEW place \in Places, Goto(p, place)
  PROVE  \E s \in ProcState :
           /\ s = [proc[p] EXCEPT !.at = place] /\ proc' = [proc EXCEPT ![p] = s]
           /\ s.at = place /\ s.review \in Reviews /\ record[s.review] # None
           /\ s.review = proc[p].review /\ s.verdict = proc[p].verdict
           /\ s.seen = proc[p].seen
           /\ s.verdict \in Outcomes /\ s.seen \in Commits \cup {None}
           /\ s.verdict \in Decisive =>
                s.seen \in Commits /\ Covered(s.review, s.seen, s.known)
<1>0. PICK s : s = [proc[p] EXCEPT !.at = place]
  OBVIOUS
<1>1. /\ s \in ProcState /\ s.at = place /\ s.review = proc[p].review
      /\ s.verdict = proc[p].verdict /\ s.seen = proc[p].seen /\ s.known = proc[p].known
      /\ proc' = [proc EXCEPT ![p] = s]
  BY <1>0 DEF Goto, IInv, TypeOK, ProcState
<1>2. Knows(p, proc[p])
  BY DEF IInv, KnowInv
<1>3. /\ proc[p].review \in Reviews /\ record[proc[p].review] # None
      /\ proc[p].verdict \in Outcomes /\ proc[p].seen \in Commits \cup {None}
      /\ proc[p].verdict \in Decisive => proc[p].seen \in Commits
           /\ Covered(proc[p].review, proc[p].seen, proc[p].known)
  BY <1>2 DEF Knows, Held, Bound, Judging
<1>q. QED
  BY <1>0, <1>1, <1>3

LEMMA CheckResultStep == ASSUME IInv, NEW p \in Procs, CheckResult(p) PROVE IInv'
<1>1. PICK r : r = result[proc[p].review]
  OBVIOUS
<1>2. CASE r \notin {None, Verdict(p)}
  <2>1. Return(p)
    BY <1>1, <1>2 DEF CheckResult
  <2>q. QED
    BY <2>1, AsideReturns DEF CheckResult, graph, nota, world, IInv, TypeOK
<1>3. CASE r \in {None, Verdict(p)}
  <2>1. PICK place \in {"submit", "submitted"} :
          Goto(p, place) /\ (place = "submitted" => r = Verdict(p)) /\ lock' = lock
    BY <1>1, <1>3 DEF CheckResult
  <2>2. place \in Places /\ proc[p].at \in {"check", "submit"}
    BY DEF Places, CheckResult, At
  <2>3. PICK s \in ProcState :
          /\ s = [proc[p] EXCEPT !.at = place] /\ proc' = [proc EXCEPT ![p] = s]
          /\ s.at = place /\ s.review \in Reviews /\ record[s.review] # None
          /\ s.review = proc[p].review /\ s.verdict = proc[p].verdict
          /\ s.seen = proc[p].seen
          /\ s.verdict \in Outcomes /\ s.seen \in Commits \cup {None}
          /\ s.verdict \in Decisive =>
               s.seen \in Commits /\ Covered(s.review, s.seen, s.known)
    BY <2>1, <2>2, Judges
  <2>4. s.at = "submitted" => result'[s.review] = [outcome |-> s.verdict, head |-> s.seen]
    BY <1>1, <2>1, <2>3 DEF CheckResult, graph, Verdict
  <2>5. s.verdict \in Decisive => Covered(s.review, s.seen, s.known)'
    BY <2>3 DEF CheckResult, Covered, nota
  <2>6. Knows(p, s)'
    BY <2>1, <2>3, <2>4, <2>5 DEF CheckResult, Knows, Starting, Held, Bound, Judging
  <2>q. QED
    BY <2>1, <2>3, <2>6, AsideGoes DEF CheckResult, graph, nota, world, IInv, TypeOK
<1>q. QED
  BY <1>2, <1>3

LEMMA SubmitVerificationStep == ASSUME IInv, NEW p \in Procs, SubmitVerification(p) PROVE IInv'
<1>1. PICK v : v = proc[p].review
  OBVIOUS
<1>2. proc[p].at \in {"check", "submit"} /\ {"conflict", "submitted"} \subseteq Places
  BY DEF SubmitVerification, At, Places
<1>3. CASE Conflicts(v)
  <2>1. Goto(p, "conflict") /\ UNCHANGED <<lock, result, decision>>
    BY <1>1, <1>3 DEF SubmitVerification
  <2>2. PICK s \in ProcState :
          /\ proc' = [proc EXCEPT ![p] = s]
          /\ s.at = "conflict" /\ s.review \in Reviews /\ record[s.review] # None
    BY <1>2, <2>1, Judges
  <2>3. Knows(p, s)'
    BY <2>2 DEF SubmitVerification, Knows, Starting, Held, Bound, Judging
  <2>q. QED
    BY <2>1, <2>2, <2>3, AsideGoes DEF SubmitVerification, graph, nota, world, IInv, TypeOK
<1>4. CASE ~Conflicts(v) /\ ~Decidable(p)
  <2>1. Return(p) /\ UNCHANGED <<result, decision>>
    BY <1>1, <1>4 DEF SubmitVerification
  <2>q. QED
    BY <2>1, AsideReturns DEF SubmitVerification, graph, nota, world, IInv, TypeOK
<1>5. CASE ~Conflicts(v) /\ Decidable(p)
  <2>1. /\ result' = [result EXCEPT ![v] = Verdict(p)]
        /\ decision' = IF proc[p].verdict \in Decisive THEN proc[p].verdict ELSE decision
        /\ Goto(p, "submitted") /\ UNCHANGED lock
    BY <1>1, <1>5 DEF SubmitVerification
  <2>2. PICK s \in ProcState :
          /\ s = [proc[p] EXCEPT !.at = "submitted"] /\ proc' = [proc EXCEPT ![p] = s]
          /\ s.at = "submitted" /\ s.review \in Reviews /\ record[s.review] # None
          /\ s.review = proc[p].review /\ s.verdict = proc[p].verdict
          /\ s.seen = proc[p].seen
          /\ s.verdict \in Outcomes /\ s.seen \in Commits \cup {None}
          /\ s.verdict \in Decisive =>
               s.seen \in Commits /\ Covered(s.review, s.seen, s.known)
    BY <1>2, <2>1, Judges
  <2>3. PICK r : r = [outcome |-> s.verdict, head |-> s.seen]
    OBVIOUS
  <2>4. /\ r \in Results /\ r # None /\ r.outcome = s.verdict
        /\ v \in Reviews /\ s.review = v
    BY <1>1, <2>2, <2>3, ReviewAssumption DEF Results
  <2>5. /\ result' \in [Reviews -> Results \cup {None}] /\ result'[v] = r
        /\ \A w \in Reviews : w # v => result'[w] = result[w]
    BY <2>1, <2>2, <2>3, <2>4 DEF Verdict, IInv, TypeOK
  <2>6. result[v] = None
    BY <1>5 DEF Conflicts
  <2>7. Active' \subseteq Active
    BY <2>5, <2>6 DEF SubmitVerification, Active
  <2>8. Steady(p)
    BY <2>1, <2>5, <2>6, <2>7 DEF SubmitVerification, Steady, nota, IInv, TypeOK
  <2>9. s.verdict \in Decisive => Covered(s.review, s.seen, s.known)'
    BY <2>2 DEF SubmitVerification, Covered, nota
  <2>10. Knows(p, s)'
    BY <2>2, <2>3, <2>4, <2>5, <2>9 DEF SubmitVerification, Knows, Starting, Held, Bound, Judging
  <2>11. proc' \in [Procs -> ProcState] /\ proc'[p] = s
         /\ \A q \in Procs : q # p => proc'[q] = proc[q]
    BY <2>2 DEF IInv, TypeOK, ProcState
  <2>12. TypeOK'
    BY <2>1, <2>2, <2>5, <2>11 DEF SubmitVerification, IInv, TypeOK, ProcState, nota, world
  <2>13. Knows(p, proc[p])'
    BY <2>10, <2>11 DEF Knows
  <2>14. KnowInv'
    BY <2>8, <2>11, <2>13, Others DEF SubmitVerification, IInv, TypeOK, nota
  <2>15. OneActiveReview'
    BY <2>7 DEF IInv, OneActiveReview
  <2>16. EvidenceIsBound'
    BY <2>2, <2>4, <2>5 DEF SubmitVerification, IInv, EvidenceIsBound, nota
  <2>17. NotesAreKept'
    BY DEF SubmitVerification, IInv, NotesAreKept, Entries, nota
  <2>18. OneVerdict'
    <3>1. \A w \in Reviews : w # v => (Decided(w)' <=> Decided(w))
      BY <2>5 DEF Decided
    <3>2. Decided(v)' <=> s.verdict \in Decisive
      BY <2>4, <2>5 DEF Decided
    <3>3. ~Decided(v)
      BY <2>6 DEF Decided
    <3>4. CASE s.verdict \in Decisive
      <4>1. decision = None /\ decision' = s.verdict
        BY <1>5, <2>1, <2>2, <3>4 DEF Decidable
      <4>2. \A w \in Reviews : ~Decided(w)
        BY <4>1, ReviewAssumption DEF IInv, OneVerdict, Decided, Outcomes
      <4>q. QED
        BY <2>4, <2>5, <3>1, <3>2, <3>4, <4>1, <4>2 DEF OneVerdict
    <3>5. CASE s.verdict \notin Decisive
      BY <2>1, <2>2, <2>4, <2>5, <3>1, <3>2, <3>3, <3>5 DEF IInv, OneVerdict
    <3>q. QED
      BY <3>4, <3>5
  <2>q. QED
    BY <2>12, <2>14, <2>15, <2>16, <2>17, <2>18 DEF IInv
<1>q. QED
  BY <1>3, <1>4, <1>5

-----------------------------------------------------------------------------
(* Cleaning up, and the world around. *)

LEMMA CleanupStep == ASSUME IInv, NEW p \in Procs, NEW v \in Reviews, Cleanup(p, v) PROVE IInv'
<1>0. PICK s : s = [proc[p] EXCEPT !.at = "remove", !.review = v]
  OBVIOUS
<1>1. s \in ProcState /\ s.at = "remove" /\ s.review = v /\ proc' = [proc EXCEPT ![p] = s]
  BY <1>0 DEF Cleanup, IInv, TypeOK, ProcState, Places
<1>2. Knows(p, s)'
  BY <1>1 DEF Cleanup, Knows, Starting, Held, Bound, Judging
<1>q. QED
  BY <1>1, <1>2, AsideGoes DEF Cleanup, graph, nota, world, IInv, TypeOK

LEMMA RemoveWorktreeStep == ASSUME IInv, NEW p \in Procs, RemoveWorktree(p) PROVE IInv'
<1>1. /\ tree' \in [Reviews -> {"absent", "clean", "dirty"}]
      /\ \A v \in Reviews : tree'[v] # "absent" => tree[v] # "absent"
  BY DEF RemoveWorktree, IInv, TypeOK
<1>q. QED
  BY <1>1, AsideReturns DEF RemoveWorktree, graph, nota, world, IInv, TypeOK

LEMMA InputsMoveStep == ASSUME IInv, InputsMove PROVE IInv'
<1>1. inputs' \in Inputs /\ source' \in {"current", "edited", "replaced"}
  BY ReviewAssumption DEF InputsMove, Inputs, IInv, TypeOK
<1>2. /\ Steady(None)
      /\ OneActiveReview' /\ NotesAreKept' /\ EvidenceIsBound' /\ OneVerdict'
  BY Aside DEF InputsMove
<1>3. TypeOK'
  BY <1>1 DEF InputsMove, IInv, TypeOK, graph, nota
<1>4. None \notin Procs
  BY ReviewAssumption
<1>5. KnowInv'
  BY <1>2, <1>4, Others DEF InputsMove, IInv, TypeOK, nota
<1>q. QED
  BY <1>2, <1>3, <1>5 DEF IInv

LEMMA ProcessStep == ASSUME IInv, NEW p \in Procs, Continue(p) \/ Crash(p) PROVE IInv'
<1>1. CASE Crash(p)
  <2>1. crashes' \in 0 .. MaxCrashes
    BY <1>1, ReviewAssumption DEF Crash, IInv, TypeOK
  <2>q. QED
    BY <1>1, <2>1, AsideReturns DEF Crash, graph, nota, world, IInv, TypeOK
<1>2. CASE Answer(p)
  BY <1>2, AsideReturns DEF Answer, graph, nota, world, IInv, TypeOK
<1>q. QED
  BY <1>1, <1>2, LookupStep, AddVerificationStep, SnapshotWorkStep, CreateRecordStep,
     OpenBranchStep, CreateBranchStep, PrepareWorktreeStep, UpdateBranchStep,
     CheckResultStep, SubmitVerificationStep, RemoveWorktreeStep DEF Continue

LEMMA Initially == Init => IInv
<1> SUFFICES ASSUME Init PROVE IInv
  OBVIOUS
<1>1. TypeOK
  BY ReviewAssumption, IdleKnows DEF Init, TypeOK, ProcState, Inputs
<1>2. KnowInv
  BY IdleKnows DEF Init, KnowInv
<1>3. OneActiveReview /\ NotesAreKept /\ EvidenceIsBound /\ OneVerdict
  BY DEF Init, OneActiveReview, Active, NotesAreKept, EvidenceIsBound, OneVerdict, Decided
<1>q. QED
  BY <1>1, <1>2, <1>3 DEF IInv

LEMMA Preserved == IInv /\ [Next]_vars => IInv'
<1> SUFFICES ASSUME IInv, [Next]_vars PROVE IInv'
  OBVIOUS
<1>1. CASE UNCHANGED vars
  <2>1. TypeOK'
    BY <1>1 DEF IInv, TypeOK, vars, graph, world, nota
  <2>2. KnowInv'
    <3> SUFFICES ASSUME NEW q \in Procs PROVE Knows(q, proc[q])'
      BY DEF KnowInv
    <3>q. QED
      BY <1>1 DEF IInv, KnowInv, Knows, Covered, Active, vars, graph, nota
  <2>q. QED
    BY <1>1, <2>1, <2>2, Aside DEF vars, IInv
<1>2. CASE \E p \in Procs : Start(p) \/ Continue(p) \/ Crash(p)
  BY <1>2, StartStep, ProcessStep
<1>3. CASE \E p \in Procs, v \in Reviews : Begin(p, v)
  BY <1>3, ResumeStep, AddNoteStep, FinishStep, AbandonStep, CleanupStep DEF Begin
<1>4. CASE \E v \in Reviews : EditTree(v) \/ CommitSuggestion(v)
  BY <1>4, EditTreeStep, CommitSuggestionStep
<1>5. CASE InputsMove
  BY <1>5, InputsMoveStep
<1>q. QED
  BY <1>1, <1>2, <1>3, <1>4, <1>5 DEF Next

LEMMA Inductive == Spec => []IInv
  BY Initially, Preserved, PTL DEF Spec

-----------------------------------------------------------------------------
(* The theorems. *)

(* Every variable keeps its type, whatever the commands and crashes. *)
THEOREM ReviewTypes == Spec => []TypeOK
<1>1. IInv => TypeOK
  BY DEF IInv
<1>q. QED
  BY <1>1, Inductive, PTL

(* The start lock is enough: a candidate never has two active reviews. *)
THEOREM OneReviewAtATime == Spec => []OneActiveReview
<1>1. IInv => OneActiveReview
  BY DEF IInv
<1>q. QED
  BY <1>1, Inductive, PTL

(* The compare-and-swap of Nota's refs is enough: no recorded entry is lost. *)
THEOREM NotesStay == Spec => []NotesAreKept
<1>1. IInv => NotesAreKept
  BY DEF IInv
<1>q. QED
  BY <1>1, Inductive, PTL

(* No branch, worktree or result is ever without its binding. *)
THEOREM EvidenceStaysBound == Spec => []EvidenceIsBound
<1>1. IInv => EvidenceIsBound
  BY DEF IInv
<1>q. QED
  BY <1>1, Inductive, PTL

(* One review decides its candidate, once. *)
THEOREM OneReviewDecides == Spec => []OneVerdict
<1>1. IInv => OneVerdict
  BY DEF IInv
<1>q. QED
  BY <1>1, Inductive, PTL

(* A verdict that is reported covers the notes its reviewer could read. *)
THEOREM VerdictsCover == Spec => []VerdictsCoverTheNotes
<1>1. IInv => VerdictsCoverTheNotes
  <2> SUFFICES ASSUME IInv, NEW p \in Procs, At(p, "submitted"), proc[p].verdict \in Decisive
               PROVE  LET v == proc[p].review IN
                      /\ result[v].outcome = proc[p].verdict
                      /\ \E i \in 1 .. Len(branch[v]) :
                           /\ branch[v][i] = result[v].head
                           /\ proc[p].known \subseteq {branch[v][j] : j \in 1 .. i}
    BY DEF VerdictsCoverTheNotes
  <2>1. /\ result[proc[p].review] = [outcome |-> proc[p].verdict, head |-> proc[p].seen]
        /\ Covered(proc[p].review, proc[p].seen, proc[p].known)
    BY DEF IInv, KnowInv, Knows, At, Judging
  <2>q. QED
    BY <2>1 DEF Covered
<1>q. QED
  BY <1>1, Inductive, PTL

(* No command takes an edit that was not committed. *)
THEOREM EditsStay == Spec => EditsAreKept
<1>1. IInv /\ [Next]_vars =>
        [\A v \in Reviews :
           tree[v] = "dirty" /\ tree'[v] # "dirty" => Len(branch'[v]) > Len(branch[v])]_vars
  <2> SUFFICES ASSUME IInv, Next, NEW v \in Reviews, tree[v] = "dirty", tree'[v] # "dirty"
               PROVE  Len(branch'[v]) > Len(branch[v])
    BY DEF vars
  <2>1. tree \in [Reviews -> {"absent", "clean", "dirty"}]
    BY DEF IInv, TypeOK
  <2>2. CASE \E w \in Reviews : CommitSuggestion(w)
    <3>1. PICK w \in Reviews : CommitSuggestion(w)
      BY <2>2
    <3>2. w = v
      BY <2>1, <3>1 DEF CommitSuggestion
    <3>3. branch[v] \in Seq(Commits) /\ branch'[v] = Append(branch[v], notes + 1)
      BY <3>1, <3>2 DEF CommitSuggestion, Append1, IInv, TypeOK
    <3>q. QED
      BY <3>3
  <2>3. CASE ~\E w \in Reviews : CommitSuggestion(w)
    <3>1. tree'[v] = "dirty"
      BY <2>1, <2>3 DEF Next, Start, Continue, Begin, Crash, Lookup, AddVerification,
         SnapshotWork, CreateRecord, OpenBranch, CreateBranch, PrepareWorktree, UpdateBranch,
         CheckResult, SubmitVerification, Answer, RemoveWorktree, Resume, AddNote, Finish,
         Abandon, Cleanup, EditTree, InputsMove
    <3>q. QED
      BY <3>1
  <2>q. QED
    BY <2>2, <2>3
<1>q. QED
  BY <1>1, Inductive, PTL DEF Spec, EditsAreKept
=============================================================================
