---------------------------- MODULE StoreMutation ----------------------------
(***************************************************************************)
(* How a mutation of the store becomes one commit.  A process takes the    *)
(* mutation lock, refuses to go on in a dirty store, writes its files one  *)
(* by one into the working tree, commits the whole store and unlocks.  It  *)
(* may fail or be killed between any two of these steps.  What it writes   *)
(* may rest on a record it read earlier, without the lock.                 *)
(***************************************************************************)
EXTENDS StoreFiles

CONSTANTS
  Procs,   \* the processes that use the store
  None     \* no process, no record

ASSUME StoreAssumption == None \notin Procs \cup Records

VARIABLES
  disk,    \* file -> the revision it holds in the working tree, 0 if absent
  head,    \* file -> the revision it holds in the last commit
  lock,    \* the process that holds the OS lock, or None
  pc,      \* process -> where it is
  seen,    \* process -> a record it has read without the lock, or None
  plan,    \* process -> the store it means to leave
  todo,    \* process -> the files it has yet to write
  orphan   \* a git commit outlives the process that started it

vars == <<disk, head, lock, pc, seen, plan, todo, orphan>>

Phases == {"idle", "reading", "read", "locked", "writing", "committed"}

StoreTypeOK ==
  /\ disk \in Contents
  /\ head \in Contents
  /\ lock \in Procs \cup {None}
  /\ pc \in [Procs -> Phases]
  /\ seen \in [Procs -> [rec: Records \cup {None}, meta: Nat, text: Nat]]
  /\ plan \in [Procs -> Contents]
  /\ todo \in [Procs -> SUBSET Files]
  /\ orphan \in BOOLEAN
  /\ \A p \in Procs : pc[p] = "reading" => seen[p].rec # None

Unread == [rec |-> None, meta |-> 0, text |-> 0]

Init ==
  /\ disk = Empty
  /\ head = Empty
  /\ lock = None
  /\ pc = [p \in Procs |-> "idle"]
  /\ seen = [p \in Procs |-> Unread]
  /\ plan = [p \in Procs |-> Empty]
  /\ todo = [p \in Procs |-> {}]
  /\ orphan = FALSE

-----------------------------------------------------------------------------
(* A file being written is empty at first: a process that dies in a write,  *)
(* or whose write fails, may leave it so.                                    *)
Truncated == MaxRevision + 1

(* Reading one record without the lock: its metadata, then its text.        *)
ReadMeta(p, r) ==
  /\ pc[p] = "idle"
  /\ disk[Meta(r)] # Truncated
  /\ pc' = [pc EXCEPT ![p] = "reading"]
  /\ seen' = [seen EXCEPT ![p] = [rec |-> r, meta |-> disk[Meta(r)], text |-> 0]]
  /\ UNCHANGED <<disk, head, lock, plan, todo, orphan>>

ReadText(p) ==
  /\ pc[p] = "reading"
  /\ pc' = [pc EXCEPT ![p] = "read"]
  /\ seen' = [seen EXCEPT ![p] = [seen[p] EXCEPT !.text = disk[Text(seen[p].rec)]]]
  /\ UNCHANGED <<disk, head, lock, plan, todo, orphan>>

-----------------------------------------------------------------------------
(* A process that leaves the store forgets what it read and planned.        *)
Leave(p) ==
  /\ pc' = [pc EXCEPT ![p] = "idle"]
  /\ seen' = [seen EXCEPT ![p] = Unread]
  /\ plan' = [plan EXCEPT ![p] = Empty]
  /\ todo' = [todo EXCEPT ![p] = {}]

Unlock(p) == lock' = IF lock = p THEN None ELSE lock

(* The lock is only tried: a process that does not get it gives up.         *)
Lock(p) ==
  /\ pc[p] \in {"idle", "read"}
  /\ lock = None
  /\ lock' = p
  /\ pc' = [pc EXCEPT ![p] = "locked"]
  /\ UNCHANGED <<disk, head, seen, plan, todo, orphan>>

Clean == disk = head

(* What was read without the lock is still what the store holds. *)
Current(s) ==
  s.rec # None => s.meta = disk[Meta(s.rec)] /\ s.text = disk[Text(s.rec)]

(* The store is dirty, a check under the lock fails, or nothing is to be    *)
(* done: the process unlocks without having written anything.               *)
Refuse(p) ==
  /\ pc[p] = "locked"
  /\ Unlock(p)
  /\ Leave(p)
  /\ UNCHANGED <<disk, head, orphan>>

(* The next revision of the records to be written.  A mutation that rests   *)
(* on an earlier reading carries on from what it read.                      *)
Revision(p, r) == IF seen[p].rec = r THEN seen[p].meta + 1 ELSE disk[Meta(r)] + 1

Planned(p, written, emptied) ==
  [f \in Files |->
     IF f[1] \notin written THEN disk[f]
     ELSE IF f[2] = "text" /\ f[1] \in emptied THEN 0
     ELSE Revision(p, f[1])]

StartWriting(p, written, emptied) ==
  /\ Writable(disk, written)
  /\ pc' = [pc EXCEPT ![p] = "writing"]
  /\ plan' = [plan EXCEPT ![p] = Planned(p, written, emptied)]
  /\ todo' = [todo EXCEPT ![p] = written \X Parts]
  /\ UNCHANGED <<disk, head, lock, seen, orphan>>

(* Mutants: no look at whether the store is clean; no revalidation. *)
BeginInAnyStore(p, written, emptied) ==
  /\ pc[p] = "locked"
  /\ Current(seen[p])
  /\ StartWriting(p, written, emptied)

BeginUnvalidated(p, written, emptied) ==
  /\ pc[p] = "locked"
  /\ Clean
  /\ StartWriting(p, written, emptied)

Begin(p, written, emptied) ==
  /\ pc[p] = "locked"
  /\ Clean
  /\ Current(seen[p])
  /\ StartWriting(p, written, emptied)

Write(p, f) ==
  /\ pc[p] = "writing"
  /\ f \in todo[p]
  /\ disk' = [disk EXCEPT ![f] = plan[p][f]]
  /\ todo' = [todo EXCEPT ![p] = todo[p] \ {f}]
  /\ UNCHANGED <<head, lock, pc, seen, plan, orphan>>

(* Whatever the store holds is committed. *)
Commit(p) ==
  /\ pc[p] = "writing"
  /\ todo[p] = {}
  /\ head' = disk
  /\ pc' = [pc EXCEPT ![p] = "committed"]
  /\ UNCHANGED <<disk, lock, seen, plan, todo, orphan>>

Finish(p) ==
  /\ pc[p] = "committed"
  /\ Unlock(p)
  /\ Leave(p)
  /\ UNCHANGED <<disk, head, orphan>>

(* What was written stays where it is. *)
LeaveFiles(p) ==
  \/ UNCHANGED disk
  \/ /\ pc[p] = "writing"
     /\ \E f \in todo[p] : disk' = [disk EXCEPT ![f] = Truncated]

(* A write or the commit fails. *)
Fail(p) ==
  /\ pc[p] = "writing"
  /\ Unlock(p)
  /\ Leave(p)
  /\ LeaveFiles(p)
  /\ UNCHANGED <<head, orphan>>

-----------------------------------------------------------------------------
(* Mutant: the lock is the existence of a file. *)
CrashKeepsLock(p) ==
  /\ pc[p] # "idle"
  /\ Leave(p)
  /\ LeaveFiles(p)
  /\ \/ UNCHANGED orphan
     \/ pc[p] = "writing" /\ todo[p] = {} /\ orphan' = TRUE
  /\ UNCHANGED <<head, lock>>

(* The process is killed.  The system releases its lock; a git commit it    *)
(* had started may go on without it.                                        *)
Crash(p) ==
  /\ pc[p] # "idle"
  /\ Unlock(p)
  /\ Leave(p)
  /\ LeaveFiles(p)
  /\ \/ UNCHANGED orphan
     \/ pc[p] = "writing" /\ todo[p] = {} /\ orphan' = TRUE
  /\ UNCHANGED head

OrphanCommits ==
  /\ orphan
  /\ orphan' = FALSE
  /\ head' = disk
  /\ UNCHANGED <<disk, lock, pc, seen, plan, todo>>

OrphanDies ==
  /\ orphan
  /\ orphan' = FALSE
  /\ UNCHANGED <<disk, head, lock, pc, seen, plan, todo>>

(* The owner restores the last commit, when no process is at work. *)
Resolve ==
  /\ lock = None
  /\ ~orphan
  /\ ~Clean
  /\ disk' = head
  /\ UNCHANGED <<head, lock, pc, seen, plan, todo, orphan>>

-----------------------------------------------------------------------------
Step(p) ==
  \/ \E r \in Records : ReadMeta(p, r)
  \/ ReadText(p)
  \/ Lock(p)
  \/ Refuse(p)
  \/ \E written, emptied \in SUBSET Records : Begin(p, written, emptied)
  \/ \E f \in Files : Write(p, f)
  \/ Commit(p)
  \/ Finish(p)
  \/ Fail(p)
  \/ Crash(p)

Next ==
  \/ \E p \in Procs : Step(p)
  \/ OrphanCommits
  \/ OrphanDies
  \/ Resolve

Spec == Init /\ [][Next]_vars

(* A process that has the lock carries on or dies; so does a git commit.    *)
(* The owner gets round to a dirty store, whoever tries the lock meanwhile. *)
Fairness ==
  /\ \A p \in Procs :
       /\ WF_vars(Refuse(p) \/ \E w, e \in SUBSET Records : Begin(p, w, e))
       /\ WF_vars((\E f \in Files : Write(p, f)) \/ Commit(p) \/ Fail(p))
       /\ WF_vars(Finish(p))
  /\ WF_vars(OrphanCommits \/ OrphanDies)
  /\ SF_vars(Resolve)

FairSpec == Spec /\ Fairness

-----------------------------------------------------------------------------
(* The lock is held by the one process that is between taking and releasing *)
(* it, dead processes included (try_lock, MutationLock::drop).              *)
Holder == \A p \in Procs : pc[p] \in {"locked", "writing", "committed"} <=> lock = p

(* A mutation in flight is one whole mutation of the last commit, begun in  *)
(* a clean store and from current readings; what it has not yet written is  *)
(* as committed, and no abandoned git commit is still running beside it.    *)
WritingIsWhole ==
  \A p \in Procs : pc[p] = "writing" =>
    /\ IsMutation(head, plan[p])
    /\ \A f \in Files : disk[f] = IF f \in todo[p] THEN head[f] ELSE plan[p][f]
    /\ ~orphan

(* Nor can an abandoned git commit, when it ends, commit anything else.     *)
OrphanIsWhole == orphan => IsMutation(head, disk)

StoreInv == StoreTypeOK /\ Holder /\ WritingIsWhole /\ OrphanIsWhole

(* Wherever processes fail or are killed, no commit is part of a mutation,  *)
(* two mutations or the remains of one, and none undoes what another        *)
(* committed since it read: the history is that of AtomicStore              *)
(* (mutation_lock, require_clean_store, commit_path).                       *)
Atomic == INSTANCE AtomicStore WITH store <- head
CommitsAreWhole == Atomic!Spec

(* No failure and no crash blocks the store for ever: again and again it is *)
(* unlocked and clean (MutationLock::drop and the OS lock).                 *)
StoreRecovers == []<>(lock = None /\ Clean)

=============================================================================
