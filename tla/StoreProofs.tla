----------------------------- MODULE StoreProofs -----------------------------
(***************************************************************************)
(* Every commit is a whole mutation, for any processes and any records.    *)
(*                                                                         *)
(* That alone is not inductive: what is committed is whatever the working  *)
(* tree holds.  StoreInv adds why that is whole: only the holder of the    *)
(* lock writes, it began in a clean store, and a git commit that outlives  *)
(* its process keeps the store dirty until it ends.                        *)
(***************************************************************************)
EXTENDS StoreMutation, TLAPS

(* A mutation changes the revision of every record it writes. *)
LEMMA MutationMoves ==
  ASSUME NEW s \in Contents, NEW t, IsMutation(s, t)
  PROVE  t # s /\ t \in Contents
<1>1. PICK written \in SUBSET Records, emptied \in SUBSET Records :
        Writable(s, written) /\ t = Mutation(s, written, emptied)
  BY DEF IsMutation
<1>2. t \in Contents
  BY <1>1 DEF Mutation, Contents, Files, Meta, Parts
<1>3. PICK r \in written : TRUE
  BY <1>1 DEF Writable
<1>4. Meta(r) \in Files /\ Meta(r)[1] = r /\ Meta(r)[2] = "meta"
  BY <1>3 DEF Meta, Files, Parts
<1>5. t[Meta(r)] = s[Meta(r)] + 1
  BY <1>1, <1>3, <1>4 DEF Mutation
<1> QED BY <1>2, <1>4, <1>5 DEF Contents

(* In a clean store, a plan made from current readings is a mutation of the *)
(* last commit.                                                             *)
LEMMA PlansAreMutations ==
  ASSUME StoreTypeOK, NEW p \in Procs, Clean, Current(seen[p]),
         NEW written \in SUBSET Records, NEW emptied \in SUBSET Records,
         Writable(disk, written)
  PROVE  IsMutation(head, Planned(p, written, emptied))
<1>1. ASSUME NEW r \in written PROVE Revision(p, r) = disk[Meta(r)] + 1
  BY StoreAssumption DEF Current, Revision
<1>2. \A f \in Files : f[1] \in written => Revision(p, f[1]) = disk[Meta(f[1])] + 1
  BY <1>1
<1>3. Planned(p, written, emptied) = Mutation(disk, written, emptied)
  BY <1>2 DEF Planned, Mutation
<1> QED BY <1>3 DEF IsMutation, Clean

(* Leaving and unlocking keep the lock with the one process that has it. *)
LEMMA LeavingKeepsHolder ==
  ASSUME StoreTypeOK, Holder, NEW p \in Procs, Unlock(p), Leave(p)
  PROVE  /\ Holder'
         /\ \A q \in Procs : pc'[q] = "writing" =>
              q # p /\ pc[q] = "writing" /\ plan'[q] = plan[q] /\ todo'[q] = todo[q]
  BY StoreAssumption DEF StoreTypeOK, Holder, Unlock, Leave

(* The types of the store. *)
LEMMA StoreTyped == StoreTypeOK /\ [Next]_vars => StoreTypeOK'
<1> SUFFICES ASSUME StoreTypeOK, [Next]_vars PROVE StoreTypeOK'
  OBVIOUS
<1> USE DEF StoreTypeOK
<1>0. /\ \A r \in Records : Meta(r) \in Files /\ Text(r) \in Files
      /\ Empty \in Contents /\ Truncated \in Nat /\ None \notin Records
  BY RevisionAssumption, StoreAssumption DEF Meta, Text, Files, Parts, Empty,
     Contents, Truncated
<1>1. ASSUME NEW p \in Procs, NEW r \in Records, ReadMeta(p, r) PROVE StoreTypeOK'
  <2>1. disk[Meta(r)] \in Nat
    BY <1>0 DEF Contents
  <2> QED BY <1>0, <1>1, <2>1 DEF ReadMeta, Phases
<1>2. ASSUME NEW p \in Procs, ReadText(p) PROVE StoreTypeOK'
  <2>1. disk[Text(seen[p].rec)] \in Nat
    BY <1>0, <1>2 DEF ReadText, Contents
  <2> QED BY <1>2, <2>1 DEF ReadText, Phases
<1>3. ASSUME NEW p \in Procs, Lock(p) PROVE StoreTypeOK'
  BY <1>3 DEF Lock, Phases
<1>4. ASSUME NEW p \in Procs, Leave(p), Unlock(p), disk' \in Contents,
             head' \in Contents, orphan' \in BOOLEAN
      PROVE  StoreTypeOK'
  <2>1. /\ pc' \in [Procs -> Phases] /\ plan' \in [Procs -> Contents]
        /\ lock' \in Procs \cup {None} /\ todo' \in [Procs -> SUBSET Files]
    BY <1>0, <1>4 DEF Leave, Unlock, Phases
  <2>2. /\ seen' \in [Procs -> [rec: Records \cup {None}, meta: Nat, text: Nat]]
        /\ \A q \in Procs : pc'[q] = "reading" => seen'[q].rec # None
    BY <1>4 DEF Leave, Unread
  <2> QED BY <1>4, <2>1, <2>2
<1>5. ASSUME NEW p \in Procs, LeaveFiles(p) PROVE disk' \in Contents
  BY <1>0, <1>5 DEF LeaveFiles, Contents
<1>6. ASSUME NEW p \in Procs, Refuse(p) \/ Finish(p) \/ Fail(p) \/ Crash(p)
      PROVE  StoreTypeOK'
  BY <1>4, <1>5, <1>6 DEF Refuse, Finish, Fail, Crash
<1>7. ASSUME NEW p \in Procs, NEW written \in SUBSET Records,
             NEW emptied \in SUBSET Records, Begin(p, written, emptied)
      PROVE  StoreTypeOK'
  <2>1. Planned(p, written, emptied) \in Contents
    BY <1>7, PlansAreMutations, MutationMoves DEF Begin, StartWriting
  <2>2. written \X Parts \in SUBSET Files
    BY DEF Files
  <2> QED BY <1>7, <2>1, <2>2 DEF Begin, StartWriting, Phases
<1>8. ASSUME NEW p \in Procs, NEW f \in Files, Write(p, f) PROVE StoreTypeOK'
  <2>1. plan[p][f] \in Nat
    BY DEF Contents
  <2> QED BY <1>8, <2>1 DEF Write, Contents
<1>9. ASSUME NEW p \in Procs, Commit(p) PROVE StoreTypeOK'
  BY <1>9 DEF Commit, Phases
<1>10. CASE OrphanCommits \/ OrphanDies \/ Resolve
  BY <1>10 DEF OrphanCommits, OrphanDies, Resolve
<1>11. CASE UNCHANGED vars
  BY <1>11 DEF vars
<1> QED BY <1>1, <1>2, <1>3, <1>6, <1>7, <1>8, <1>9, <1>10, <1>11 DEF Next, Step

(* A process that leaves takes no other mutation in flight with it. *)
LEMMA LeavingKeepsInv ==
  ASSUME StoreInv, StoreTypeOK', NEW p \in Procs, Unlock(p), Leave(p), LeaveFiles(p),
         UNCHANGED head,
         \/ UNCHANGED orphan
         \/ pc[p] = "writing" /\ todo[p] = {} /\ orphan'
  PROVE  StoreInv'
<1>1. /\ Holder'
      /\ \A q \in Procs : pc'[q] = "writing" =>
           q # p /\ pc[q] = "writing" /\ plan'[q] = plan[q] /\ todo'[q] = todo[q]
  BY LeavingKeepsHolder DEF StoreInv
<1>2. \A q \in Procs : q # p /\ pc[q] = "writing" => pc[p] # "writing"
  BY DEF StoreInv, Holder
<1>3. WritingIsWhole'
  BY <1>1, <1>2 DEF StoreInv, WritingIsWhole, LeaveFiles
<1>4. OrphanIsWhole'
  <2>1. CASE pc[p] = "writing" /\ todo[p] = {} /\ orphan'
    <3>1. \A f \in Files : disk[f] = plan[p][f]
      BY <2>1 DEF StoreInv, WritingIsWhole
    <3>2. disk = plan[p]
      BY <3>1 DEF StoreInv, StoreTypeOK, Contents
    <3> QED BY <2>1, <3>2 DEF StoreInv, WritingIsWhole, OrphanIsWhole, LeaveFiles
  <2>2. CASE UNCHANGED orphan
    <3>1. orphan => pc[p] # "writing"
      BY DEF StoreInv, WritingIsWhole
    <3> QED BY <2>2, <3>1 DEF StoreInv, OrphanIsWhole, LeaveFiles
  <2> QED BY <2>1, <2>2
<1> QED BY <1>1, <1>3, <1>4 DEF StoreInv

(* StoreInv is inductive. *)
LEMMA StoreStep == StoreInv /\ [Next]_vars => StoreInv'
<1> SUFFICES ASSUME StoreInv, [Next]_vars PROVE StoreInv'
  OBVIOUS
<1>0. StoreTypeOK'
  BY StoreTyped DEF StoreInv
<1>1. ASSUME NEW p \in Procs,
             ReadText(p) \/ Lock(p) \/ \E r \in Records : ReadMeta(p, r)
      PROVE  StoreInv'
  <2>1. /\ UNCHANGED <<disk, head, plan, todo, orphan>>
        /\ \A q \in Procs : pc'[q] = "writing" => pc[q] = "writing"
    BY <1>1 DEF ReadText, Lock, ReadMeta, StoreInv, StoreTypeOK
  <2>2. Holder'
    BY <1>1, StoreAssumption DEF ReadText, Lock, ReadMeta, Holder, StoreInv, StoreTypeOK
  <2> QED BY <1>0, <2>1, <2>2 DEF StoreInv, WritingIsWhole, OrphanIsWhole
<1>2. ASSUME NEW p \in Procs, Refuse(p) \/ Finish(p) \/ Fail(p) \/ Crash(p)
      PROVE  StoreInv'
  BY <1>0, <1>2, LeavingKeepsInv DEF Refuse, Finish, Fail, Crash, LeaveFiles
<1>3. ASSUME NEW p \in Procs, NEW written \in SUBSET Records,
             NEW emptied \in SUBSET Records, Begin(p, written, emptied)
      PROVE  StoreInv'
  <2>1. IsMutation(head, Planned(p, written, emptied))
    BY <1>3, PlansAreMutations DEF Begin, StartWriting, StoreInv
  <2>2. ~orphan
    BY <1>3, MutationMoves DEF Begin, Clean, StoreInv, StoreTypeOK, OrphanIsWhole
  <2>3. /\ pc' = [pc EXCEPT ![p] = "writing"] /\ lock = p
        /\ plan' = [plan EXCEPT ![p] = Planned(p, written, emptied)]
        /\ todo' = [todo EXCEPT ![p] = written \X Parts]
        /\ UNCHANGED <<disk, head, lock, orphan>> /\ disk = head
    BY <1>3 DEF Begin, StartWriting, Clean, StoreInv, Holder
  <2>4. Holder'
    BY <1>3, <2>3 DEF Begin, Holder, StoreInv, StoreTypeOK
  <2>5. \A f \in Files : f \notin written \X Parts =>
          Planned(p, written, emptied)[f] = disk[f]
    BY DEF Planned, Files
  <2>6. ASSUME NEW q \in Procs, pc'[q] = "writing" PROVE q = p
    BY <2>3, <2>4, <2>6 DEF Holder
  <2>7. WritingIsWhole'
    BY <2>1, <2>2, <2>3, <2>5, <2>6 DEF WritingIsWhole, StoreInv, StoreTypeOK
  <2> QED BY <1>0, <2>2, <2>3, <2>4, <2>7 DEF StoreInv, OrphanIsWhole
<1>4. ASSUME NEW p \in Procs, NEW f \in Files, Write(p, f) PROVE StoreInv'
  <2>1. /\ pc[p] = "writing" /\ f \in todo[p]
        /\ disk' = [disk EXCEPT ![f] = plan[p][f]]
        /\ todo' = [todo EXCEPT ![p] = todo[p] \ {f}]
        /\ UNCHANGED <<head, lock, pc, plan, orphan>>
    BY <1>4 DEF Write
  <2>2. \A q \in Procs : pc[q] = "writing" => q = p
    BY <2>1 DEF StoreInv, Holder
  <2>3. WritingIsWhole'
    BY <2>1, <2>2 DEF WritingIsWhole, StoreInv, StoreTypeOK, Contents
  <2> QED BY <1>0, <2>1, <2>3 DEF StoreInv, Holder, OrphanIsWhole, WritingIsWhole
<1>5. ASSUME NEW p \in Procs, Commit(p) PROVE StoreInv'
  <2>1. /\ pc[p] = "writing" /\ pc' = [pc EXCEPT ![p] = "committed"]
        /\ head' = disk /\ UNCHANGED <<disk, lock, plan, todo, orphan>>
    BY <1>5 DEF Commit
  <2>2. \A q \in Procs : pc'[q] # "writing"
    BY <2>1 DEF StoreInv, StoreTypeOK, Holder
  <2>3. Holder'
    BY <2>1 DEF StoreInv, StoreTypeOK, Holder
  <2> QED BY <1>0, <2>1, <2>2, <2>3 DEF StoreInv, WritingIsWhole, OrphanIsWhole
<1>6. CASE OrphanCommits \/ OrphanDies \/ Resolve
  <2>1. /\ UNCHANGED <<lock, pc, plan, todo>> /\ ~orphan'
        /\ \A q \in Procs : pc[q] # "writing"
    BY <1>6, StoreAssumption DEF OrphanCommits, OrphanDies, Resolve, StoreInv, Holder,
       WritingIsWhole
  <2> QED BY <1>0, <2>1 DEF StoreInv, Holder, WritingIsWhole, OrphanIsWhole
<1>7. CASE UNCHANGED vars
  BY <1>0, <1>7 DEF vars, StoreInv, Holder, WritingIsWhole, OrphanIsWhole
<1> QED BY <1>1, <1>2, <1>3, <1>4, <1>5, <1>6, <1>7 DEF Next, Step

(* Whatever fails or is killed, a mutation in flight is a whole mutation of *)
(* the last commit, written by the only process that has the lock.          *)
THEOREM StoreInvIsInvariant == Spec => []StoreInv
<1>1. Init => StoreInv
  <2> SUFFICES ASSUME Init PROVE StoreInv
    OBVIOUS
  <2>1. Empty \in Contents
    BY DEF Empty, Contents
  <2>2. StoreTypeOK
    <3>1. Unread \in [rec: Records \cup {None}, meta: Nat, text: Nat]
      BY DEF Unread
    <3> QED BY <2>1, <3>1 DEF Init, StoreTypeOK, Phases
  <2>3. Holder /\ WritingIsWhole /\ OrphanIsWhole
    BY StoreAssumption DEF Init, Holder, WritingIsWhole, OrphanIsWhole
  <2> QED BY <2>2, <2>3 DEF StoreInv
<1> QED BY <1>1, StoreStep, PTL DEF Spec

(* The history of the store is one of AtomicStore: every commit is one      *)
(* whole mutation of the commit before it.                                  *)
THEOREM CommitsStayWhole == Spec => CommitsAreWhole
<1>1. Init => Atomic!Init
  BY DEF Init, Atomic!Init, Atomic!Empty, Atomic!Files, Atomic!Parts, Empty, Files, Parts
<1>2. ASSUME NEW t, IsMutation(head, t), head' = t PROVE Atomic!Next
  BY <1>2 DEF Atomic!Next, Atomic!IsMutation, Atomic!Writable, Atomic!Mutation,
     Atomic!Files, Atomic!Parts, Atomic!Meta,
     IsMutation, Writable, Mutation, Files, Parts, Meta
<1>3. StoreInv /\ [Next]_vars => [Atomic!Next]_head
  <2> SUFFICES ASSUME StoreInv, [Next]_vars, head' # head PROVE Atomic!Next
    OBVIOUS
  <2>1. head' = disk /\ (OrphanCommits \/ \E p \in Procs : Commit(p))
    BY DEF Next, Step, vars, ReadMeta, ReadText, Lock, Refuse, Begin, StartWriting,
       Write, Commit, Finish, Fail, Crash, OrphanCommits, OrphanDies, Resolve
  <2>2. IsMutation(head, disk)
    <3>1. CASE OrphanCommits
      BY <3>1 DEF OrphanCommits, StoreInv, OrphanIsWhole
    <3>2. ASSUME NEW p \in Procs, Commit(p) PROVE IsMutation(head, disk)
      <4>1. \A f \in Files : disk[f] = plan[p][f]
        BY <3>2 DEF Commit, StoreInv, WritingIsWhole
      <4>2. disk = plan[p]
        BY <4>1 DEF StoreInv, StoreTypeOK, Contents
      <4> QED BY <3>2, <4>2 DEF Commit, StoreInv, WritingIsWhole
    <3> QED BY <2>1, <3>1, <3>2
  <2> QED BY <1>2, <2>1, <2>2
<1> QED BY <1>1, <1>3, StoreInvIsInvariant, PTL DEF Spec, CommitsAreWhole, Atomic!Spec

=============================================================================
