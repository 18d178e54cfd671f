----------------------------- MODULE StyraProofs -----------------------------
(***************************************************************************)
(* Proofs about a Session and the interactions it is served by, for any    *)
(* number of clients, interactions, messages and crashes.  Three arguments *)
(* are kept apart: who may have an agent (the holder of workspace_metadata *)
(* is the only one between two interactions), what is still to come on an  *)
(* interaction's channel once its agent has left, and where each composed  *)
(* message is.                                                             *)
(***************************************************************************)
EXTENDS StyraInteraction, FiniteSetTheorems, TLAPS

Serving  == {"queue", "check", "journal", "deliver", "mark", "discard", "remove"}
Entering == {"load", "insert"}
Carrying == {"check", "journal", "deliver", "mark"}
InTransit == {"check", "journal", "deliver"}

(* What a request holds: an interaction that was launched, and a message   *)
(* only while it sends it.                                                 *)
Holds(p) ==
  /\ pc[p].at \in Serving \cup Entering => pc[p].run \in Launched
  /\ pc[p].at = "check" => pc[p].msg \in Messages
  /\ pc[p].at \notin Carrying => pc[p].msg = 0

TInv == TypeOK /\ (current # 0 => current \in Launched) /\ \A p \in Procs : Holds(p)

LEMMA IdleRequest == Idle \in Requests /\ Idle.at = "idle" /\ Idle.msg = 0
BY InteractionAssumption DEF Idle, Requests, Places, Completions

(* A step of p leaves its request at a place, with an interaction and a    *)
(* message, and every other request alone.                                 *)
Turns(p, place, run, msg) ==
  /\ pc' \in [Procs -> Requests]
  /\ pc'[p].at = place /\ pc'[p].run = run /\ pc'[p].msg = msg
  /\ \A q \in Procs : q # p => pc'[q] = pc[q]

LEMMA Answered ==
  ASSUME TInv, NEW p \in Procs, Answer(p)
  PROVE  Turns(p, "idle", 0, 0)
BY IdleRequest DEF Answer, Turns, TInv, TypeOK, Idle

LEMMA Moved ==
  ASSUME TInv, NEW p \in Procs, NEW place \in Places, Goto(p, place)
  PROVE  Turns(p, place, pc[p].run, pc[p].msg)
BY DEF Goto, Turns, TInv, TypeOK, Requests

LEMMA HoldsStay ==
  ASSUME TInv, NEW p \in Procs, NEW place, NEW run, NEW msg, Turns(p, place, run, msg),
         Launched \subseteq Launched',
         place \in Serving \cup Entering => run \in Launched',
         place = "check" => msg \in Messages,
         place \notin Carrying => msg = 0
  PROVE  \A q \in Procs : Holds(q)'
<1>1. Holds(p)'
  BY DEF Holds, Turns
<1>2. ASSUME NEW q \in Procs, q # p PROVE Holds(q)'
  BY <1>2 DEF TInv, Holds, Turns
<1>q. QED
  BY <1>1, <1>2

LEMMA Persisted ==
  ASSUME TypeOK, NEW r \in Runs, NEW messages \in Seq(Messages), Persist(r, messages)
  PROVE  /\ stored' \in [queue : Seq(Messages), completed : Completions]
         /\ queue' \in [Runs -> Seq(Messages)]
         /\ stored'.queue = messages /\ queue'[r] = messages
         /\ stored'.completed = stored.completed
         /\ \A s \in Runs : s # r => queue'[s] = queue[s]
         /\ overtaken' \in BOOLEAN /\ current' = current /\ loaded' = loaded
BY DEF TypeOK, Persist

LEMMA LookUpTurns ==
  ASSUME TInv, NEW p \in Procs, LookUp(p)
  PROVE  current \in Launched /\ Turns(p, "queue", current, 0)
BY DEF TInv, TypeOK, LookUp, At, Holds, Carrying, Turns, Requests, Places

LEMMA TakeTurns ==
  ASSUME TInv, NEW p \in Procs, Take(p), NEW r, r = pc[p].run
  PROVE  /\ r \in Launched
         /\ \/ queue[r] = <<>> /\ Turns(p, "idle", 0, 0) /\ UNCHANGED <<files, queue, locks>>
            \/ /\ queue[r] # <<>> /\ Turns(p, "check", r, Head(queue[r]))
               /\ Head(queue[r]) \in Messages /\ Tail(queue[r]) \in Seq(Messages)
               /\ Persist(r, Tail(queue[r]))
<1>1. r \in Runs /\ r \in Launched
  BY DEF TInv, Take, At, Holds, Serving, Launched
<1>2. CASE queue[r] = <<>>
  BY <1>1, <1>2, Answered DEF Take
<1>3. CASE queue[r] # <<>>
  <2>1. Head(queue[r]) \in Messages /\ Tail(queue[r]) \in Seq(Messages)
    BY <1>1, <1>3 DEF TInv, TypeOK
  <2>2. pc[p] \in Requests /\ pc \in [Procs -> Requests] /\ Head(queue[r]) \in 0 .. MaxMessages
    BY <2>1, InteractionAssumption DEF TInv, TypeOK, Messages
  <2>3. pc' = [pc EXCEPT ![p].at = "check", ![p].msg = Head(queue[r])]
    BY <1>3, <2>2 DEF Take
  <2>4. Turns(p, "check", r, Head(queue[r]))
    BY <2>2, <2>3 DEF Turns, Requests, Places
  <2>q. QED
    BY <1>1, <1>3, <2>1, <2>4 DEF Take
<1>q. QED
  BY <1>2, <1>3

LEMMA SetCompletedTurns ==
  ASSUME TInv, NEW p \in Procs, SetCompleted(p)
  PROVE  Turns(p, "store", current, 0)
<1>1. pc[p] \in Requests /\ pc \in [Procs -> Requests] /\ pc[p].msg = 0
  BY DEF TInv, TypeOK, SetCompleted, At, Holds, Carrying
<1>2. PICK as \in Marks : 
        pc' = [pc EXCEPT ![p].at = "store", ![p].run = current, ![p].as = as]
  BY DEF SetCompleted
<1>3. as \in Completions
  BY InteractionAssumption DEF Completions
<1>q. QED
  BY <1>1, <1>2, <1>3 DEF TInv, TypeOK, Turns, Requests, Places

LEMMA LookUpTyped ==
  ASSUME TInv, NEW p \in Procs, LookUp(p)
  PROVE  TInv'
<1>1. \A q \in Procs : Holds(q)'
  BY LookUpTurns, HoldsStay DEF LookUp, Launched, Carrying
<1>q. QED
  BY <1>1, LookUpTurns DEF TInv, TypeOK, LookUp, files, ledger, Launched, Turns

LEMMA QueueMessageTyped ==
  ASSUME TInv, NEW p \in Procs, QueueMessage(p)
  PROVE  TInv'
<1> DEFINE r == pc[p].run
<1>1. r \in Runs
  BY DEF TInv, QueueMessage, At, Holds, Serving, Launched
<1>2. composed' \in 0 .. MaxMessages /\ composed + 1 \in Messages
  BY InteractionAssumption DEF TInv, TypeOK, QueueMessage, Messages
<1>3. Append(queue[r], composed + 1) \in Seq(Messages)
  BY <1>1, <1>2 DEF TInv, TypeOK
<1>4. Persist(r, Append(queue[r], composed + 1))
  BY DEF QueueMessage
<1>5. Turns(p, "idle", 0, 0)
  BY Answered DEF QueueMessage
<1>6. \A q \in Procs : Holds(q)'
  BY <1>5, HoldsStay DEF QueueMessage, Launched, Serving, Entering, Carrying
<1>q. QED
  BY <1>1, <1>2, <1>3, <1>4, <1>5, <1>6, Persisted DEF TInv, TypeOK, QueueMessage, Launched, Turns

LEMMA TakeTyped ==
  ASSUME TInv, NEW p \in Procs, Take(p)
  PROVE  TInv'
<1> PICK r : r = pc[p].run
  OBVIOUS
<1>1. CASE queue[r] = <<>>
  <2>1. Turns(p, "idle", 0, 0) /\ UNCHANGED <<files, queue, locks>>
    BY <1>1, TakeTurns
  <2>2. \A q \in Procs : Holds(q)'
    BY <2>1, HoldsStay DEF Take, Launched, Serving, Entering, Carrying
  <2>q. QED
    BY <2>1, <2>2 DEF TInv, TypeOK, Take, Launched, files, ledger, Turns
<1>2. CASE queue[r] # <<>>
  <2>1. /\ r \in Launched /\ Turns(p, "check", r, Head(queue[r]))
        /\ Head(queue[r]) \in Messages /\ Tail(queue[r]) \in Seq(Messages)
        /\ Persist(r, Tail(queue[r]))
    BY <1>2, TakeTurns
  <2>2. \A q \in Procs : Holds(q)'
    BY <2>1, HoldsStay DEF Take, Launched, Carrying
  <2>3. locks' \in [Runs -> Procs \cup {None}]
    BY <1>2 DEF TInv, TypeOK, Take
  <2>q. QED
    BY <2>1, <2>2, <2>3, Persisted DEF TInv, TypeOK, Take, Launched, ledger, Turns
<1>q. QED
  BY <1>1, <1>2

LEMMA SetCompletedTyped ==
  ASSUME TInv, NEW p \in Procs, SetCompleted(p)
  PROVE  TInv'
<1>1. \A q \in Procs : Holds(q)'
  BY SetCompletedTurns, HoldsStay DEF SetCompleted, Launched, Serving, Entering, Carrying
<1>2. activity' \in [Runs -> Activities]
  BY DEF TInv, TypeOK, SetCompleted, Activities
<1>q. QED
  BY <1>1, <1>2, SetCompletedTurns
     DEF TInv, TypeOK, SetCompleted, files, ledger, Launched, Turns

LEMMA AnswersTyped ==
  ASSUME TInv, NEW p \in Procs, Answer(p), UNCHANGED <<updates, queue, ledger>>,
         activity' \in [Runs -> Activities], UNCHANGED <<agent, loaded, overtaken, crashes>>,
         stored' \in [queue : Seq(Messages), completed : Completions],
         completed' \in [Runs -> Completions],
         current' = current \/ current' = 0 \/ current' \in Launched, dropped' \subseteq Runs,
         metadata' \in Procs \cup {None}, locks' \in [Runs -> Procs \cup {None}]
  PROVE  TInv'
<1>1. \A q \in Procs : Holds(q)'
  BY Answered, HoldsStay DEF Launched, Serving, Entering, Carrying
<1>2. Launched' = Launched
  BY DEF Launched
<1>3. pc' \in [Procs -> Requests]
  BY Answered DEF Turns
<1>4. current' \in 0 .. MaxRuns /\ (current' # 0 => current' \in Launched')
  BY <1>2, InteractionAssumption DEF TInv, TypeOK, Launched, Runs
<1>q. QED
  BY <1>1, <1>2, <1>3, <1>4 DEF TInv, TypeOK, ledger

LEMMA ClearTurns ==
  ASSUME TInv, NEW p \in Procs, Clear(p), NEW r, r = pc[p].run
  PROVE  /\ r \in Launched /\ Persist(r, <<>>)
         /\ \E place \in {"idle", "remove"}, run \in {0, r} :
              (place = "remove" => run = r) /\ Turns(p, place, run, 0)
<1>1. r \in Launched
  BY DEF TInv, Clear, Holds, Serving
<1>2. CASE At(p, "queue")
  BY <1>1, <1>2, Answered DEF Clear
<1>3. CASE ~At(p, "queue")
  BY <1>1, <1>3, Moved DEF Clear, TInv, Holds, Carrying, At, Places
<1>q. QED
  BY <1>2, <1>3, <1>1 DEF Clear

LEMMA ClearTyped ==
  ASSUME TInv, NEW p \in Procs, Clear(p)
  PROVE  TInv'
<1> PICK r : r = pc[p].run
  OBVIOUS
<1>1. PICK place \in {"idle", "remove"}, run \in {0, r} :
        (place = "remove" => run = r) /\ Turns(p, place, run, 0)
  BY ClearTurns
<1>2. r \in Launched /\ Persist(r, <<>>)
  BY ClearTurns
<1>3. \A q \in Procs : Holds(q)'
  BY <1>1, <1>2, HoldsStay DEF Clear, Launched, Serving, Entering, Carrying
<1>4. cleared' \subseteq Messages
  BY <1>2 DEF TInv, TypeOK, Clear, Launched
<1>5. <<>> \in Seq(Messages)
  OBVIOUS
<1>q. QED
  BY <1>1, <1>2, <1>3, <1>4, <1>5, Persisted DEF TInv, TypeOK, Clear, Launched, Turns

LEMMA TypeTurns ==
  ASSUME TInv, NEW p \in Procs, Type(p)
  PROVE  current \in Launched /\ Turns(p, "journal", current, 0)
BY DEF TInv, TypeOK, Type, At, Holds, Carrying, Turns, Requests, Places

LEMMA TypeTyped ==
  ASSUME TInv, NEW p \in Procs, Type(p)
  PROVE  TInv'
<1>1. \A q \in Procs : Holds(q)'
  BY TypeTurns, HoldsStay DEF Type, Launched, Carrying
<1>q. QED
  BY <1>1, TypeTurns DEF TInv, TypeOK, Type, files, ledger, Launched, Turns

LEMMA Unlocked ==
  ASSUME TInv, NEW p \in Procs, Unlock(p)
  PROVE  locks' \in [Runs -> Procs \cup {None}]
BY DEF TInv, TypeOK, Unlock

(* A queued message that is refused goes back, from wherever it was.        *)
LEMMA PutBackTurns ==
  ASSUME TInv, NEW p \in Procs, PutBack(p), NEW r, r = pc[p].run, NEW m, m = pc[p].msg,
         r \in Launched, m \in Messages
  PROVE  /\ Turns(p, "idle", 0, 0) /\ Unlock(p)
         /\ <<m>> \o queue[r] \in Seq(Messages) /\ Persist(r, <<m>> \o queue[r])
<1>1. <<m>> \o queue[r] \in Seq(Messages)
  BY DEF TInv, TypeOK, Launched
<1>q. QED
  BY <1>1, Answered DEF PutBack

LEMMA PutBackTyped ==
  ASSUME TInv, NEW p \in Procs, PutBack(p), pc[p].run \in Launched, pc[p].msg \in Messages,
         UNCHANGED <<activity, agent, updates, completed, dropped, metadata, ledger, crashes>>
  PROVE  TInv'
<1> PICK r : r = pc[p].run
  OBVIOUS
<1> PICK m : m = pc[p].msg
  OBVIOUS
<1>1. /\ Turns(p, "idle", 0, 0) /\ Unlock(p)
      /\ <<m>> \o queue[r] \in Seq(Messages) /\ Persist(r, <<m>> \o queue[r])
  BY PutBackTurns
<1>2. \A q \in Procs : Holds(q)'
  BY <1>1, HoldsStay DEF Launched, Serving, Entering, Carrying
<1>q. QED
  BY <1>1, <1>2, Persisted, Unlocked DEF TInv, TypeOK, Launched, ledger, Turns

LEMMA CheckTurns ==
  ASSUME TInv, NEW p \in Procs, Check(p), NEW r, r = pc[p].run, NEW m, m = pc[p].msg
  PROVE  /\ r \in Launched /\ m \in Messages /\ pc[p].at = "check"
         /\ \/ Turns(p, "journal", r, m) /\ UNCHANGED <<files, queue, locks>>
            \/ PutBack(p)
<1>1. r \in Launched /\ m \in Messages /\ pc[p].at = "check"
  BY DEF TInv, Check, At, Holds, Serving
<1>q. QED
  BY <1>1, Moved DEF Check, Places

LEMMA CheckTyped ==
  ASSUME TInv, NEW p \in Procs, Check(p)
  PROVE  TInv'
<1> PICK r : r = pc[p].run
  OBVIOUS
<1> PICK m : m = pc[p].msg
  OBVIOUS
<1>0. r \in Launched /\ m \in Messages
  BY CheckTurns
<1>1. CASE Turns(p, "journal", r, m) /\ UNCHANGED <<files, queue, locks>>
  <2>1. \A q \in Procs : Holds(q)'
    BY <1>0, <1>1, HoldsStay DEF Check, Launched, Carrying
  <2>q. QED
    BY <1>1, <2>1 DEF TInv, TypeOK, Check, Launched, files, ledger, Turns
<1>2. CASE PutBack(p)
  BY <1>0, <1>2, PutBackTyped DEF Check
<1>q. QED
  BY <1>1, <1>2, CheckTurns

LEMMA JournalTurns ==
  ASSUME TInv, NEW p \in Procs, Journal(p), NEW r, r = pc[p].run, NEW m, m = pc[p].msg
  PROVE  r \in Launched /\ pc[p].at = "journal" /\ Turns(p, "deliver", r, m)
BY Moved DEF Journal, TInv, At, Holds, Serving, Places

LEMMA Sent ==
  ASSUME TypeOK, NEW r \in Runs, NEW update \in Updates, Send(r, update)
  PROVE  updates' \in [Runs -> Seq(Updates)]
BY DEF TypeOK, Send

LEMMA JournalTyped ==
  ASSUME TInv, NEW p \in Procs, Journal(p)
  PROVE  TInv'
<1> PICK r : r = pc[p].run
  OBVIOUS
<1>1. r \in Launched /\ Turns(p, "deliver", r, pc[p].msg)
  BY JournalTurns
<1>2. \A q \in Procs : Holds(q)'
  BY <1>1, HoldsStay DEF Journal, Launched, Carrying
<1>3. updates' \in [Runs -> Seq(Updates)]
  BY <1>1, Sent DEF Journal, Updates, Launched, TInv
<1>q. QED
  BY <1>1, <1>2, <1>3 DEF TInv, TypeOK, Journal, files, ledger, Launched, Turns

LEMMA DeliverTurns ==
  ASSUME TInv, NEW p \in Procs, Deliver(p) \/ Skip(p), NEW r, r = pc[p].run,
         NEW m, m = pc[p].msg
  PROVE  r \in Launched /\ pc[p].at = "deliver" /\ Turns(p, "mark", r, m)
BY Moved DEF Deliver, Skip, TInv, At, Holds, Serving, Places

LEMMA DeliverTyped ==
  ASSUME TInv, NEW p \in Procs, Deliver(p) \/ Skip(p)
  PROVE  TInv'
<1> PICK r : r = pc[p].run
  OBVIOUS
<1>1. r \in Launched /\ Turns(p, "mark", r, pc[p].msg)
  BY DeliverTurns
<1>2. \A q \in Procs : Holds(q)'
  BY <1>1, HoldsStay DEF Deliver, Skip, Launched, Carrying
<1>3. delivered' \in [Messages -> Nat]
  <2>1. CASE Skip(p)
    BY <2>1 DEF Skip, TInv, TypeOK
  <2>2. CASE Deliver(p)
    BY <2>2 DEF Deliver, TInv, TypeOK
  <2>q. QED
    BY <2>1, <2>2
<1>4. pc[p].msg \in Messages \cup {0}
  BY InteractionAssumption DEF TInv, TypeOK, Requests, Messages
<1>5. skipped' \subseteq Messages
  BY <1>4 DEF Deliver, Skip, TInv, TypeOK
<1>q. QED
  BY <1>1, <1>2, <1>3, <1>5 DEF TInv, TypeOK, Deliver, Skip, files, Launched, Turns

LEMMA RefuseTurns ==
  ASSUME TInv, NEW p \in Procs, Refuse(p)
  PROVE  /\ pc[p].run \in Launched /\ pc[p].at = "deliver"
         /\ \/ /\ pc[p].msg = 0 /\ Turns(p, "idle", 0, 0)
               /\ UNCHANGED <<files, queue, locks>>
            \/ pc[p].msg \in Messages /\ PutBack(p)
<1>1. pc[p].msg \in Messages \cup {0}
  BY InteractionAssumption DEF TInv, TypeOK, Requests, Messages
<1>2. pc[p].run \in Launched /\ pc[p].at = "deliver"
  BY DEF TInv, Refuse, At, Holds, Serving
<1>q. QED
  BY <1>1, <1>2, Answered DEF Refuse

LEMMA RefuseTyped ==
  ASSUME TInv, NEW p \in Procs, Refuse(p)
  PROVE  TInv'
<1>1. CASE pc[p].msg = 0
  <2>1. Answer(p) /\ UNCHANGED <<files, queue, locks>>
    BY <1>1 DEF Refuse
  <2>q. QED
    BY <2>1, AnswersTyped DEF TInv, TypeOK, Refuse, files, ledger
<1>2. CASE pc[p].msg # 0
  BY <1>2, RefuseTurns, PutBackTyped DEF Refuse
<1>q. QED
  BY <1>1, <1>2

LEMMA MarkTyped ==
  ASSUME TInv, NEW p \in Procs, Mark(p)
  PROVE  TInv'
<1>1. activity' \in [Runs -> Activities]
  BY DEF TInv, TypeOK, Mark, Move, Activities
<1>q. QED
  BY <1>1, Unlocked, AnswersTyped DEF TInv, TypeOK, Mark, files, ledger

LEMMA StopTyped ==
  ASSUME TInv, NEW p \in Procs, Stop(p)
  PROVE  TInv'
BY DEF TInv, TypeOK, Stop, Move, Activities, files, ledger, Launched, Holds

LEMMA KillFailsTyped ==
  ASSUME TInv, NEW p \in Procs, KillFails(p)
  PROVE  TInv'
BY AnswersTyped DEF TInv, TypeOK, KillFails, files, ledger

LEMMA StoreCompletedTyped ==
  ASSUME TInv, NEW p \in Procs, StoreCompleted(p)
  PROVE  TInv'
<1>1. pc[p].as \in Completions
  BY DEF TInv, TypeOK, Requests
<1>q. QED
  BY <1>1, AnswersTyped DEF TInv, TypeOK, StoreCompleted, ledger

LEMMA CloseTurns ==
  ASSUME TInv, NEW p \in Procs, Close(p)
  PROVE  current \in Launched /\ Turns(p, "discard", current, 0)
BY DEF TInv, TypeOK, Close, At, Holds, Carrying, Turns, Requests, Places

LEMMA CloseTyped ==
  ASSUME TInv, NEW p \in Procs, Close(p)
  PROVE  TInv'
<1>1. \A q \in Procs : Holds(q)'
  BY CloseTurns, HoldsStay DEF Close, Launched, Carrying
<1>2. activity' \in [Runs -> Activities]
  BY DEF TInv, TypeOK, Close, Move, Activities
<1>q. QED
  BY <1>1, <1>2, CloseTurns DEF TInv, TypeOK, Close, files, ledger, Launched, Turns

LEMMA RemoveTyped ==
  ASSUME TInv, NEW p \in Procs, Remove(p)
  PROVE  TInv'
<1>1. pc[p].run \in Runs
  BY DEF TInv, Remove, At, Holds, Serving, Launched
<1>2. dropped' \subseteq Runs
  BY <1>1 DEF TInv, TypeOK, Remove, Launched
<1>q. QED
  BY <1>2, AnswersTyped DEF TInv, TypeOK, Remove, ledger

LEMMA ResumeTurns ==
  ASSUME TInv, NEW p \in Procs, Resume(p)
  PROVE  Turns(p, "await", pc[p].run, 0)
<1>1. pc[p].msg = 0
  BY DEF TInv, Resume, Holds, At, Carrying
<1>q. QED
  BY <1>1, Moved DEF Resume, Places

LEMMA ResumeTyped ==
  ASSUME TInv, NEW p \in Procs, Resume(p)
  PROVE  TInv'
<1>1. \A q \in Procs : Holds(q)'
  BY ResumeTurns, HoldsStay DEF Resume, Launched, Serving, Entering, Carrying
<1>q. QED
  BY <1>1, ResumeTurns DEF TInv, TypeOK, Resume, files, ledger, Launched, Turns

LEMMA GiveUpTyped ==
  ASSUME TInv, NEW p \in Procs, GiveUp(p)
  PROVE  TInv'
BY AnswersTyped DEF TInv, TypeOK, GiveUp, files, ledger

LEMMA LaunchTurns ==
  ASSUME TInv, NEW p \in Procs, Launch(p)
  PROVE  \E r \in Runs : /\ agent[r] = "none" /\ agent' = [agent EXCEPT ![r] = "alive"]
                         /\ Turns(p, "load", r, 0)
<1>1. PICK r \in Runs : /\ agent[r] = "none" /\ agent' = [agent EXCEPT ![r] = "alive"]
                        /\ pc' = [pc EXCEPT ![p].at = "load", ![p].run = r]
  BY DEF Launch
<1>2. pc[p] \in Requests /\ pc[p].msg = 0
  BY DEF TInv, TypeOK, Launch, At, Holds, Carrying
<1>3. Turns(p, "load", r, 0)
  <2>1. pc \in [Procs -> Requests] /\ r \in 0 .. MaxRuns
    BY InteractionAssumption DEF TInv, TypeOK, Runs
  <2>q. QED
    BY <1>1, <1>2, <2>1 DEF Turns, Requests, Places
<1>q. QED
  BY <1>1, <1>3

LEMMA LaunchTyped ==
  ASSUME TInv, NEW p \in Procs, Launch(p)
  PROVE  TInv'
<1>1. PICK r \in Runs : /\ agent[r] = "none" /\ agent' = [agent EXCEPT ![r] = "alive"]
                        /\ Turns(p, "load", r, 0)
  BY LaunchTurns
<1>2. agent' \in [Runs -> {"none", "alive", "finished"}] /\ agent'[r] = "alive"
  BY <1>1 DEF TInv, TypeOK
<1>3. Launched \subseteq Launched' /\ r \in Launched'
  BY <1>1, <1>2 DEF TInv, TypeOK, Launched
<1>4. \A q \in Procs : Holds(q)'
  BY <1>1, <1>3, HoldsStay DEF Carrying
<1>q. QED
  BY <1>1, <1>2, <1>3, <1>4 DEF TInv, TypeOK, Launch, files, ledger, Turns

LEMMA LoadTurns ==
  ASSUME TInv, NEW p \in Procs, Load(p), NEW r, r = pc[p].run
  PROVE  r \in Launched /\ Turns(p, "insert", r, 0)
<1>1. r \in Launched /\ pc[p].msg = 0
  BY DEF TInv, Load, At, Holds, Entering, Carrying
<1>q. QED
  BY <1>1, Moved DEF Load, Places

LEMMA LoadTyped ==
  ASSUME TInv, NEW p \in Procs, Load(p)
  PROVE  TInv'
<1> PICK r : r = pc[p].run
  OBVIOUS
<1>1. r \in Launched /\ Turns(p, "insert", r, 0)
  BY LoadTurns
<1>2. \A q \in Procs : Holds(q)'
  BY <1>1, HoldsStay DEF Load, Launched, Carrying
<1>3. stored' \in [queue : Seq(Messages), completed : Completions] /\ loaded' \in Runs
      /\ queue' \in [Runs -> Seq(Messages)]
  BY <1>1 DEF TInv, TypeOK, Load, Completions, Launched
<1>q. QED
  BY <1>1, <1>2, <1>3 DEF TInv, TypeOK, Load, ledger, Launched, Turns

LEMMA InsertTyped ==
  ASSUME TInv, NEW p \in Procs, Insert(p)
  PROVE  TInv'
<1>1. pc[p].run \in Launched
  BY DEF TInv, Insert, At, Holds, Entering
<1>2. dropped' \subseteq Runs
  BY DEF TInv, TypeOK, Insert, Launched
<1>q. QED
  BY <1>1, <1>2, AnswersTyped DEF TInv, TypeOK, Insert, ledger

LEMMA ReadTyped ==
  ASSUME TInv, NEW r \in Runs, Read(r)
  PROVE  TInv'
<1>1. updates' \in [Runs -> Seq(Updates)]
  BY Sent DEF Read, Updates, TInv
<1>q. QED
  BY <1>1 DEF TInv, TypeOK, Read, files, ledger, Launched, Holds

LEMMA EndTyped ==
  ASSUME TInv, NEW r \in Runs, End(r)
  PROVE  TInv'
<1>1. updates' \in [Runs -> Seq(Updates)]
  BY Sent DEF End, Updates, TInv
<1>2. agent' \in [Runs -> {"none", "alive", "finished"}] /\ Launched' = Launched
  BY DEF End, TInv, TypeOK, Launched
<1>q. QED
  BY <1>1, <1>2 DEF TInv, TypeOK, End, files, ledger, Holds

LEMMA CollectTyped ==
  ASSUME TInv, NEW r \in Runs, Collect(r)
  PROVE  TInv'
<1>1. Head(updates[r]) \in Updates /\ Tail(updates[r]) \in Seq(Updates)
  BY DEF Collect, TInv, TypeOK
<1>2. Follows(r, Head(updates[r])) \in Activities
  <2>1. Head(updates[r]) \in Events \cup {"user", "ended"}
    BY <1>1, InteractionAssumption DEF Updates
  <2>2. activity[r] \in Activities
    BY DEF TInv, TypeOK
  <2>q. QED
    BY <2>1, <2>2 DEF Follows, Events, Activities
<1>q. QED
  BY <1>1, <1>2 DEF TInv, TypeOK, Collect, Move, files, ledger, Launched, Holds

LEMMA CrashTyped ==
  ASSUME TInv, Crash
  PROVE  TInv'
<1>1. agent' \in [Runs -> {"none", "alive", "finished"}]
  BY DEF Crash, TInv, TypeOK
<1>2. lost' \subseteq Messages
  <2>1. \A p \in Procs : pc[p].msg \in Messages \cup {0}
    BY InteractionAssumption DEF TInv, TypeOK, Requests, Messages
  <2>2. Taken \subseteq Messages
    BY <2>1 DEF Taken, Sending
  <2>q. QED
    BY <2>2 DEF Crash, TInv, TypeOK
<1>3. crashes' \in 0 .. MaxCrashes
  BY InteractionAssumption DEF Crash, TInv, TypeOK
<1>4. pc' \in [Procs -> Requests] /\ \A q \in Procs : Holds(q)'
  BY IdleRequest DEF Crash, Holds, Serving, Entering, Carrying
<1>q. QED
  <2>1. activity' \in [Runs -> Activities] /\ locks' \in [Runs -> Procs \cup {None}]
    BY DEF Crash, Activities
  <2>2. updates' \in [Runs -> Seq(Updates)]
    BY DEF Crash
  <2>3. current' = 0 /\ current' \in 0 .. MaxRuns
    BY InteractionAssumption DEF Crash
  <2>q. QED
    BY <1>1, <1>2, <1>3, <1>4, <2>1, <2>2, <2>3 DEF Crash, TInv, TypeOK

LEMMA TypedSteps == TInv /\ [Next]_vars => TInv'
<1> SUFFICES ASSUME TInv, [Next]_vars PROVE TInv'
  OBVIOUS
<1>1. ASSUME NEW p \in Procs, Messaging(p) PROVE TInv'
  BY <1>1, LookUpTyped, QueueMessageTyped, TakeTyped, ClearTyped, TypeTyped, CheckTyped,
     JournalTyped, DeliverTyped, RefuseTyped, MarkTyped DEF Messaging
<1>2. ASSUME NEW p \in Procs, Ending(p) PROVE TInv'
  BY <1>2, StopTyped, SetCompletedTyped, KillFailsTyped, StoreCompletedTyped, CloseTyped,
     RemoveTyped DEF Ending
<1>3. ASSUME NEW p \in Procs, Resuming(p) PROVE TInv'
  BY <1>3, ResumeTyped, GiveUpTyped, LaunchTyped, LoadTyped, InsertTyped DEF Resuming
<1>4. CASE UNCHANGED vars
  BY <1>4 DEF TInv, TypeOK, vars, files, ledger, Launched, Holds
<1>q. QED
  BY <1>1, <1>2, <1>3, <1>4, ReadTyped, EndTyped, CollectTyped, CrashTyped DEF Next

LEMMA TypedStart == Init => TInv
<1> SUFFICES ASSUME Init PROVE TInv
  OBVIOUS
<1>1. 1 \in Runs /\ 0 \in 0 .. MaxMessages /\ 0 \in 0 .. MaxCrashes /\ 1 \in 0 .. MaxRuns
  BY InteractionAssumption DEF Runs
<1>2. current \in Launched
  BY <1>1 DEF Init, Launched
<1>3. \A p \in Procs : Holds(p)
  BY IdleRequest DEF Init, Holds, Serving, Entering, Carrying
<1>4. /\ stored \in [queue : Seq(Messages), completed : Completions]
      /\ updates \in [Runs -> Seq(Updates)] /\ queue \in [Runs -> Seq(Messages)]
  BY DEF Init, Completions
<1>5. pc \in [Procs -> Requests]
  BY IdleRequest DEF Init
<1>q. QED
  BY <1>1, <1>2, <1>3, <1>4, <1>5 DEF Init, TInv, TypeOK, Activities, Completions

(* Every variable keeps its type, and a request works for an interaction    *)
(* that was launched, with a message in its hands only while it sends it    *)
(* (the requests of server.rs).                                             *)
THEOREM Typing == Spec => []TypeOK
<1>1. TInv => TypeOK
  BY DEF TInv
<1>q. QED
  BY <1>1, TypedStart, TypedSteps, PTL DEF Spec

-----------------------------------------------------------------------------
(* One agent.  workspace_metadata is held from the wait for the previous    *)
(* agent until the new interaction is in the map; so at most one request is *)
(* between the two, and it got there when the interaction in the map, if    *)
(* any, had lost its agent.                                                 *)
Resumes == {"await"} \cup Entering

AgentInv ==
  /\ \A p \in Procs : pc[p].at \in Resumes => metadata = p
  /\ \A p \in Procs : pc[p].at \in Entering =>
       pc[p].run # current /\ (current # 0 => Finished(current))
  /\ \A r \in Runs : agent[r] = "alive" =>
       \/ r = current \/ r \in dropped
       \/ \E p \in Procs : pc[p].at \in Entering /\ pc[p].run = r

LEMMA AgentAside ==
  ASSUME TInv, AgentInv, NEW p \in Procs, NEW place, NEW run, NEW msg,
         Turns(p, place, run, msg), place \notin Resumes, pc[p].at \notin Resumes,
         UNCHANGED <<current, agent, metadata, dropped>>
  PROVE  AgentInv'
<1>1. \A q \in Procs : pc'[q].at \in Resumes => pc[q].at \in Resumes /\ pc'[q] = pc[q]
  BY DEF Turns
<1>2. \A q \in Procs : pc[q].at \in Resumes => pc'[q] = pc[q]
  BY DEF Turns
<1>q. QED
  BY <1>1, <1>2 DEF AgentInv, Finished, Resumes

LEMMA AgentQuiet ==
  ASSUME TInv, AgentInv, UNCHANGED <<current, metadata, dropped, pc>>,
         \A r \in Runs : agent'[r] = "alive" => agent[r] = "alive",
         \A r \in Runs : Finished(r) => Finished(r)'
  PROVE  AgentInv'
BY DEF TInv, TypeOK, AgentInv, Finished, Launched

LEMMA AgentMessaging ==
  ASSUME TInv, AgentInv, NEW p \in Procs, Messaging(p)
  PROVE  AgentInv'
<1>1. CASE LookUp(p)
  BY <1>1, LookUpTurns, AgentAside DEF LookUp, At, Resumes, Entering, files
<1>2. CASE QueueMessage(p)
  BY <1>2, Answered, AgentAside DEF QueueMessage, Persist, At, Resumes, Entering
<1>3. CASE Take(p)
  <2>1. pc[p].at \notin Resumes /\ UNCHANGED <<current, agent, metadata, dropped>>
    BY <1>3 DEF Take, Persist, At, Resumes, Entering, files
  <2>q. QED
    BY <1>3, <2>1, TakeTurns, AgentAside DEF Resumes, Entering
<1>4. CASE Clear(p)
  <2>1. pc[p].at \notin Resumes /\ UNCHANGED <<current, agent, metadata, dropped>>
    BY <1>4 DEF Clear, Persist, Resumes, Entering
  <2>q. QED
    BY <1>4, <2>1, ClearTurns, AgentAside DEF Resumes, Entering
<1>5. CASE Type(p)
  BY <1>5, TypeTurns, AgentAside DEF Type, At, Resumes, Entering, files
<1>6. CASE Check(p)
  <2>1. pc[p].at \notin Resumes /\ UNCHANGED <<current, agent, metadata, dropped>>
    BY <1>6 DEF Check, PutBack, Persist, At, Resumes, Entering, files
  <2>2. CASE PutBack(p)
    BY <2>1, <2>2, Answered, AgentAside DEF PutBack, Resumes, Entering
  <2>3. CASE ~PutBack(p)
    BY <1>6, <2>1, <2>3, CheckTurns, AgentAside DEF Resumes, Entering
  <2>q. QED
    BY <2>2, <2>3
<1>7. CASE Journal(p)
  BY <1>7, JournalTurns, AgentAside DEF Journal, At, Resumes, Entering, files
<1>8. CASE Mark(p)
  BY <1>8, Answered, AgentAside DEF Mark, At, Resumes, Entering, files
<1>9. CASE Deliver(p) \/ Skip(p)
  BY <1>9, DeliverTurns, AgentAside DEF Deliver, Skip, At, Resumes, Entering, files
<1>10. CASE Refuse(p)
  <2>1. pc[p].at \notin Resumes /\ UNCHANGED <<current, agent, metadata, dropped>>
    BY <1>10 DEF Refuse, PutBack, Persist, At, Resumes, Entering, files
  <2>q. QED
    BY <1>10, <2>1, RefuseTurns, Answered, AgentAside DEF PutBack, Resumes, Entering
<1>q. QED
  BY <1>1, <1>2, <1>3, <1>4, <1>5, <1>6, <1>7, <1>8, <1>9, <1>10 DEF Messaging

LEMMA AgentEnding ==
  ASSUME TInv, AgentInv, NEW p \in Procs, Ending(p)
  PROVE  AgentInv'
<1>1. CASE Stop(p)
  BY <1>1, AgentQuiet DEF Stop, files, Finished
<1>2. CASE SetCompleted(p)
  BY <1>2, SetCompletedTurns, AgentAside DEF SetCompleted, At, Resumes, Entering, files
<1>3. CASE KillFails(p)
  BY <1>3, Answered, AgentAside DEF KillFails, At, Resumes, Entering, files
<1>4. CASE StoreCompleted(p)
  BY <1>4, Answered, AgentAside DEF StoreCompleted, At, Resumes, Entering
<1>5. CASE Close(p)
  BY <1>5, CloseTurns, AgentAside DEF Close, At, Resumes, Entering, files
<1>6. CASE Remove(p)
  <2>1. Turns(p, "idle", 0, 0) /\ pc[p].at = "remove"
    BY <1>6, Answered DEF Remove, At
  <2>2. /\ current' = 0 /\ dropped \subseteq dropped' /\ (current # 0 => current \in dropped')
        /\ UNCHANGED <<agent, metadata>>
    BY <1>6 DEF Remove
  <2>3. \A q \in Procs : pc'[q].at \in Resumes => pc[q].at \in Resumes /\ pc'[q] = pc[q]
    BY <2>1 DEF Turns, Resumes, Entering
  <2>4. \A q \in Procs : pc[q].at \in Resumes => pc'[q] = pc[q]
    BY <2>1 DEF Turns, Resumes, Entering
  <2>5. \A q \in Procs : pc[q].at \in Entering => pc[q].run # 0
    BY InteractionAssumption DEF TInv, Holds, Launched, Runs
  <2>6. \A r \in Runs : r # 0
    BY InteractionAssumption DEF Runs
  <2>q. QED
    BY <2>2, <2>3, <2>4, <2>5, <2>6 DEF AgentInv, Finished, Resumes
<1>q. QED
  BY <1>1, <1>2, <1>3, <1>4, <1>5, <1>6 DEF Ending

LEMMA AgentResuming ==
  ASSUME TInv, AgentInv, NEW p \in Procs, Resuming(p)
  PROVE  AgentInv'
<1>0. None \notin Procs
  BY InteractionAssumption
<1>1. CASE Resume(p)
  <2>1. Turns(p, "await", pc[p].run, 0) /\ metadata = None /\ metadata' = p
        /\ UNCHANGED <<current, agent, dropped>>
    BY <1>1, ResumeTurns DEF Resume, files
  <2>2. \A q \in Procs : pc[q].at \notin Resumes
    BY <1>0, <2>1 DEF AgentInv
  <2>3. \A q \in Procs : pc'[q].at \notin Entering /\ (pc'[q].at \in Resumes => q = p)
    BY <2>1, <2>2 DEF Turns, Resumes, Entering
  <2>q. QED
    BY <2>1, <2>2, <2>3 DEF AgentInv, Resumes
<1>2. ASSUME pc[p].at \in Resumes, metadata' \in {p, None}, NEW place, NEW run,
             Turns(p, place, run, 0)
      PROVE  \A q \in Procs : q # p => pc'[q].at \notin Resumes /\ pc[q].at \notin Resumes
  BY <1>2 DEF AgentInv, Turns
<1>3. CASE GiveUp(p)
  <2>1. Turns(p, "idle", 0, 0) /\ metadata' = None /\ pc[p].at = "await"
        /\ UNCHANGED <<current, agent, dropped>>
    BY <1>3, Answered DEF GiveUp, At, files
  <2>2. \A q \in Procs : pc'[q].at \notin Resumes /\ pc[q].at \notin Entering
    BY <1>2, <2>1 DEF Turns, Resumes, Entering
  <2>q. QED
    BY <2>1, <2>2 DEF AgentInv, Resumes
<1>4. CASE Launch(p)
  <2>1. PICK r \in Runs : /\ agent[r] = "none" /\ agent' = [agent EXCEPT ![r] = "alive"]
                          /\ Turns(p, "load", r, 0)
    BY <1>4, LaunchTurns
  <2>2. /\ UNCHANGED <<current, dropped, metadata>> /\ metadata = p /\ pc[p].at = "await"
        /\ current # 0 => Finished(current)
    BY <1>4 DEF Launch, At, files, AgentInv, Resumes
  <2>3. \A q \in Procs : pc'[q].at \in Resumes => q = p
    BY <1>2, <2>1, <2>2 DEF Resumes
  <2>4. pc'[p].at \in Entering /\ pc'[p].run = r
    BY <2>1 DEF Turns, Entering
  <2>5. r # current /\ \A s \in Runs : s # r => agent'[s] = agent[s]
    BY <2>1, <2>2, InteractionAssumption DEF Finished, TInv, TypeOK, Runs
  <2>6. current # 0 => Finished(current)'
    BY <2>2, <2>5, InteractionAssumption DEF Finished, TInv, TypeOK, Runs, Launched
  <2>7. \A q \in Procs : pc[q].at \notin Entering
    BY <1>2, <2>1, <2>2 DEF Resumes, Entering
  <2>q. QED
    BY <2>1, <2>2, <2>3, <2>4, <2>5, <2>6, <2>7 DEF AgentInv, Resumes
<1>5. CASE Load(p)
  <2>1. Turns(p, "insert", pc[p].run, 0) /\ pc[p].at = "load"
    BY <1>5, LoadTurns DEF Load, At
  <2>2. UNCHANGED <<current, agent, dropped, metadata>>
    BY <1>5 DEF Load
  <2>q. QED
    BY <2>1, <2>2 DEF AgentInv, Turns, Resumes, Entering, Finished
<1>6. CASE Insert(p)
  <2>1. Turns(p, "idle", 0, 0) /\ pc[p].at = "insert"
    BY <1>6, Answered DEF Insert, At
  <2>2. /\ current' = pc[p].run /\ UNCHANGED agent /\ metadata' = None
        /\ dropped \subseteq dropped' /\ (current # 0 => current \in dropped')
    BY <1>6 DEF Insert
  <2>3. \A q \in Procs : pc'[q].at \notin Resumes /\ (pc[q].at \in Entering => q = p)
    BY <1>2, <2>1, <2>2 DEF Turns, Resumes, Entering
  <2>4. \A r \in Runs : r # 0
    BY InteractionAssumption DEF Runs
  <2>q. QED
    BY <2>2, <2>3, <2>4 DEF AgentInv, Resumes
<1>q. QED
  BY <1>1, <1>3, <1>4, <1>5, <1>6 DEF Resuming

LEMMA AgentSteps == TInv /\ AgentInv /\ [Next]_vars => AgentInv'
<1> SUFFICES ASSUME TInv, AgentInv, [Next]_vars PROVE AgentInv'
  OBVIOUS
<1>1. ASSUME NEW r \in Runs, Read(r) \/ End(r) \/ Collect(r) PROVE AgentInv'
  BY <1>1, AgentQuiet DEF Read, End, Collect, files, Finished, TInv, TypeOK
<1>2. CASE Crash
  <2>1. \A p \in Procs : pc'[p].at \notin Resumes
    BY <1>2, IdleRequest DEF Crash, Resumes, Entering
  <2>2. \A r \in Runs : agent'[r] # "alive"
    BY <1>2 DEF Crash
  <2>q. QED
    BY <2>1, <2>2 DEF AgentInv, Resumes
<1>3. CASE UNCHANGED vars
  BY <1>3, AgentQuiet DEF vars, files, Finished
<1>q. QED
  BY <1>1, <1>2, <1>3, AgentMessaging, AgentEnding, AgentResuming DEF Next

LEMMA AgentStart == Init => AgentInv
BY IdleRequest DEF Init, AgentInv, Resumes, Entering

(* A Session has one agent at a time, whatever the clients resume, stop,    *)
(* complete or close at once (resume_inner, resume_prepared_session): two   *)
(* agents are there together only if one of them belongs to an interaction  *)
(* that was already dropped.                                                *)
THEOREM OneAgentAtATime == Spec => []OneAgent
<1>1. TInv /\ AgentInv => OneAgent
  <2> SUFFICES ASSUME TInv, AgentInv, NEW r \in Launched, NEW s \in Launched,
                      ~Finished(r), ~Finished(s), {r, s} \cap dropped = {}
               PROVE  r = s
    BY DEF OneAgent
  <2>1. \A t \in {r, s} : t \in Runs /\ agent[t] = "alive" /\ t \notin dropped /\ t # 0
    BY InteractionAssumption DEF TInv, TypeOK, Launched, Finished, Runs
  <2>2. \A t \in {r, s} : t = current \/ \E p \in Procs : pc[p].at \in Entering /\ pc[p].run = t
    BY <2>1 DEF AgentInv
  <2>3. \A p, q \in Procs : pc[p].at \in Entering /\ pc[q].at \in Entering => p = q
    BY DEF AgentInv, Resumes
  <2>4. ASSUME current \in {r, s} PROVE \A p \in Procs : pc[p].at \notin Entering
    BY <2>1, <2>4 DEF AgentInv
  <2>q. QED
    BY <2>2, <2>3, <2>4
<1>q. QED
  BY <1>1, TypedStart, TypedSteps, AgentStart, AgentSteps, PTL DEF Spec

-----------------------------------------------------------------------------
(* The end of an agent.  Once it has left, its end is on the channel with   *)
(* nothing but sent messages behind it; or it was handled, and nothing else *)
(* is left to move the interaction out of "stopped".                        *)
OnlyMessages(s) == \A i \in DOMAIN s : s[i] = "user"
EndsIn(s) == \E k \in DOMAIN s : s[k] = "ended" /\ \A i \in DOMAIN s : i > k => s[i] = "user"
Over(doing, s) == (doing \in {"stopped", "running"} /\ OnlyMessages(s)) \/ EndsIn(s)

EndInv == \A r \in Runs : Finished(r) => Over(activity[r], updates[r])

LEMMA OverAppend ==
  ASSUME NEW doing, NEW s \in Seq(Updates), Over(doing, s)
  PROVE  Over(doing, Append(s, "user"))
<1> PICK t : t = Append(s, "user")
  OBVIOUS
<1>1. /\ DOMAIN t = DOMAIN s \cup {Len(s) + 1} /\ t[Len(s) + 1] = "user"
      /\ \A i \in DOMAIN s : t[i] = s[i]
  BY DEF Updates
<1>2. OnlyMessages(s) => OnlyMessages(t)
  BY <1>1 DEF OnlyMessages
<1>3. EndsIn(s) => EndsIn(t)
  BY <1>1 DEF EndsIn
<1>q. QED
  BY <1>2, <1>3 DEF Over

LEMMA EndsAppend ==
  ASSUME NEW s \in Seq(Updates)
  PROVE  EndsIn(Append(s, "ended"))
<1> PICK t : t = Append(s, "ended")
  OBVIOUS
<1>1. /\ DOMAIN t = 1 .. Len(s) + 1 /\ t[Len(s) + 1] = "ended" /\ Len(s) \in Nat
  OBVIOUS
<1>q. QED
  BY <1>1 DEF EndsIn

LEMMA OverTail ==
  ASSUME NEW doing, NEW s \in Seq(Updates), s # <<>>, Over(doing, s), NEW next,
         Head(s) = "user" => next = "running", Head(s) = "ended" => next = "stopped"
  PROVE  Over(next, Tail(s))
<1> PICK t : t = Tail(s)
  OBVIOUS
<1>1. /\ t \in Seq(Updates) /\ Len(t) = Len(s) - 1 /\ Len(s) \in Nat \ {0}
      /\ \A i \in 1 .. Len(t) : t[i] = s[i + 1]
  OBVIOUS
<1>2. DOMAIN t = 1 .. Len(t) /\ DOMAIN s = 1 .. Len(s) /\ Head(s) = s[1]
  BY <1>1
<1>3. \A i \in DOMAIN t : t[i] = s[i + 1] /\ i + 1 \in DOMAIN s
  BY <1>1, <1>2
<1>4. CASE OnlyMessages(s)
  BY <1>1, <1>2, <1>3, <1>4 DEF OnlyMessages, Over
<1>5. CASE EndsIn(s)
  <2>1. PICK k \in DOMAIN s : s[k] = "ended" /\ \A i \in DOMAIN s : i > k => s[i] = "user"
    BY <1>5 DEF EndsIn
  <2>2. CASE k = 1
    <3>1. \A i \in DOMAIN t : t[i] = "user"
      BY <1>1, <1>2, <1>3, <2>1, <2>2
    <3>q. QED
      BY <1>2, <2>1, <2>2, <3>1 DEF Over, OnlyMessages
  <2>3. CASE k # 1
    <3>1. k - 1 \in DOMAIN t /\ t[k - 1] = "ended"
      BY <1>1, <1>2, <2>1, <2>3
    <3>2. \A i \in DOMAIN t : i > k - 1 => t[i] = "user"
      BY <1>1, <1>2, <1>3, <2>1
    <3>q. QED
      BY <3>1, <3>2 DEF Over, EndsIn
  <2>q. QED
    BY <2>2, <2>3
<1>q. QED
  BY <1>4, <1>5 DEF Over

LEMMA EndQuiet ==
  ASSUME TInv, EndInv, UNCHANGED updates,
         \A r \in Runs : Finished(r)' => Finished(r),
         \A r \in Runs : activity'[r] \in {activity[r], "stopped", "running"}
  PROVE  EndInv'
BY DEF EndInv, Over

LEMMA EndMessaging ==
  ASSUME TInv, EndInv, NEW p \in Procs, Messaging(p)
  PROVE  EndInv'
<1>1. CASE Journal(p)
  <2> PICK r : r = pc[p].run
    OBVIOUS
  <2>1. r \in Runs
    BY <1>1, JournalTurns DEF Launched
  <2>2. UNCHANGED <<activity, agent>> /\ updates' = [updates EXCEPT ![r] = Append(@, "user")]
    BY <1>1 DEF Journal, Send
  <2>3. updates'[r] = Append(updates[r], "user") /\ \A s \in Runs : s # r => updates'[s] = updates[s]
    BY <2>1, <2>2 DEF TInv, TypeOK
  <2>4. updates[r] \in Seq(Updates)
    BY <2>1 DEF TInv, TypeOK
  <2>5. ASSUME NEW s \in Runs, Finished(s) PROVE Over(activity[s], updates'[s])
    BY <2>3, <2>4, <2>5, OverAppend DEF EndInv
  <2>q. QED
    BY <2>2, <2>5 DEF EndInv, Finished
<1>2. CASE Mark(p)
  BY <1>2, EndQuiet DEF Mark, Move, Finished, TInv, TypeOK
<1>3. CASE \/ LookUp(p) \/ QueueMessage(p) \/ Take(p) \/ Clear(p) \/ Type(p)
           \/ Check(p) \/ Deliver(p) \/ Skip(p) \/ Refuse(p)
  <2>1. UNCHANGED <<agent, updates, activity>>
    BY <1>3 DEF LookUp, QueueMessage, Take, Clear, Type, Check, Deliver, Skip, Refuse
  <2>q. QED
    BY <2>1, EndQuiet DEF Finished
<1>q. QED
  BY <1>1, <1>2, <1>3 DEF Messaging

LEMMA EndEnding ==
  ASSUME TInv, EndInv, NEW p \in Procs, Ending(p)
  PROVE  EndInv'
<1>1. UNCHANGED <<agent, updates>>
  BY DEF Ending, Stop, SetCompleted, KillFails, StoreCompleted, Close, Remove
<1>2. CASE Stop(p) \/ Close(p)
  BY <1>1, <1>2, EndQuiet DEF Stop, Close, Move, Finished, TInv, TypeOK
<1>3. CASE SetCompleted(p)
  BY <1>1, <1>3, EndQuiet DEF SetCompleted, Finished
<1>4. CASE KillFails(p) \/ StoreCompleted(p) \/ Remove(p)
  BY <1>1, <1>4, EndQuiet DEF KillFails, StoreCompleted, Remove, Finished
<1>q. QED
  BY <1>2, <1>3, <1>4 DEF Ending

LEMMA EndResuming ==
  ASSUME TInv, EndInv, NEW p \in Procs, Resuming(p)
  PROVE  EndInv'
<1>1. UNCHANGED <<activity, updates>>
  BY DEF Resuming, Resume, GiveUp, Launch, Load, Insert
<1>2. CASE Launch(p)
  BY <1>1, <1>2, EndQuiet DEF Launch, Finished, TInv, TypeOK
<1>3. CASE ~Launch(p)
  <2>1. UNCHANGED agent
    BY <1>3 DEF Resuming, Resume, GiveUp, Load, Insert
  <2>q. QED
    BY <1>1, <2>1, EndQuiet DEF Finished
<1>q. QED
  BY <1>2, <1>3

LEMMA EndAgent ==
  ASSUME TInv, EndInv, NEW r \in Runs, Read(r) \/ End(r) \/ Collect(r)
  PROVE  EndInv'
<1>0. updates[r] \in Seq(Updates)
  BY DEF TInv, TypeOK
<1>1. CASE Read(r)
  <2>1. ~Finished(r) /\ UNCHANGED <<activity, agent>>
        /\ \A s \in Runs : s # r => updates'[s] = updates[s]
    BY <1>1 DEF Read, Send, Finished, TInv, TypeOK
  <2>q. QED
    BY <2>1 DEF EndInv, Finished
<1>2. CASE End(r)
  <2>1. updates'[r] = Append(updates[r], "ended") /\ UNCHANGED activity
        /\ \A s \in Runs : s # r => updates'[s] = updates[s] /\ agent'[s] = agent[s]
    BY <1>2 DEF End, Send, TInv, TypeOK
  <2>2. Over(activity[r], updates'[r])
    BY <1>0, <2>1, EndsAppend DEF Over
  <2>q. QED
    BY <2>1, <2>2 DEF EndInv, Finished
<1>3. CASE Collect(r)
  <2>1. /\ updates[r] # <<>> /\ updates'[r] = Tail(updates[r]) /\ UNCHANGED agent
        /\ activity'[r] = Follows(r, Head(updates[r]))
        /\ \A s \in Runs : s # r => updates'[s] = updates[s] /\ activity'[s] = activity[s]
    BY <1>3 DEF Collect, Move, TInv, TypeOK
  <2>2. PICK update : update = Head(updates[r])
    OBVIOUS
  <2>3. /\ update = "user" => activity'[r] = "running"
        /\ update = "ended" => activity'[r] = "stopped"
    BY <2>1, <2>2 DEF Follows
  <2>4. Finished(r) => Over(activity'[r], updates'[r])
    BY <1>0, <2>1, <2>2, <2>3, OverTail DEF EndInv
  <2>q. QED
    BY <2>1, <2>4 DEF EndInv, Finished
<1>q. QED
  BY <1>1, <1>2, <1>3

LEMMA EndSteps == TInv /\ EndInv /\ [Next]_vars => EndInv'
<1> SUFFICES ASSUME TInv, EndInv, [Next]_vars PROVE EndInv'
  OBVIOUS
<1>1. CASE Crash
  BY <1>1 DEF Crash, EndInv, Over, OnlyMessages
<1>2. CASE UNCHANGED vars
  BY <1>2, EndQuiet DEF vars, Finished
<1>q. QED
  BY <1>1, <1>2, EndMessaging, EndEnding, EndResuming, EndAgent DEF Next

(* An interaction whose agent has left and whose updates are handled is     *)
(* never shown as idle, in whatever order the reader, the exec thread and   *)
(* the senders put their updates on its channel (interaction.rs, and the    *)
(* collector of resume_prepared_session).                                   *)
THEOREM TheEndIsTheLastUpdate == Spec => []DeadAgentsDoNotLookIdle
<1>1. Init => EndInv
  BY DEF Init, EndInv, Finished
<1>2. EndInv => DeadAgentsDoNotLookIdle
  BY DEF EndInv, DeadAgentsDoNotLookIdle, Over, EndsIn
<1>q. QED
  BY <1>1, <1>2, TypedStart, TypedSteps, EndSteps, PTL DEF Spec

-----------------------------------------------------------------------------
(* The queue on disk and in memory.  Until a replaced interaction writes    *)
(* queue.json, the interaction that read it last has what it holds; that is *)
(* the one in the map, or the one about to be put there, which no request   *)
(* works for yet.                                                           *)
MirrorInv ==
  /\ QueueIsMirrored
  /\ overtaken \/ queue[loaded] = stored.queue
  /\ \A p \in Procs : pc[p].at = "insert" => pc[p].run = loaded
  /\ current \in {0, loaded} \/ \E p \in Procs : pc[p].at = "insert"
  /\ \A p, q \in Procs : pc[p].at \in Serving /\ pc[q].at \in Entering => pc[p].run # pc[q].run

(* A request that goes on works for the same interaction, and one that      *)
(* begins for the one in the map: never for the one about to be put there.  *)
Serves(p, place, run) ==
  /\ place \notin Entering /\ pc[p].at \notin Entering
  /\ place \in Serving => run = current \/ (pc[p].at \in Serving /\ run = pc[p].run)

LEMMA MirrorPlaces ==
  ASSUME TInv, AgentInv, MirrorInv, NEW p \in Procs, NEW place, NEW run, NEW msg,
         Turns(p, place, run, msg), Serves(p, place, run), UNCHANGED <<current, loaded>>
  PROVE  /\ \A q \in Procs : pc'[q].at \in Entering => pc'[q] = pc[q]
         /\ \A q \in Procs : pc'[q].at = "insert" => pc'[q].run = loaded'
         /\ current' \in {0, loaded'} \/ \E q \in Procs : pc'[q].at = "insert"
         /\ \A q, c \in Procs :
              pc'[q].at \in Serving /\ pc'[c].at \in Entering => pc'[q].run # pc'[c].run
<1>1. \A q \in Procs : pc'[q].at \in Entering => pc'[q] = pc[q] /\ q # p
  BY DEF Turns, Serves
<1>2. \A q \in Procs : pc[q].at \in Entering => pc'[q] = pc[q]
  BY DEF Turns, Serves
<1>3. "insert" \in Entering
  BY DEF Entering
<1>4. \A c \in Procs : pc[c].at \in Entering => pc[c].run # current
  BY DEF AgentInv
<1>5. ASSUME NEW q \in Procs, NEW c \in Procs, pc'[q].at \in Serving, pc'[c].at \in Entering
      PROVE  pc'[q].run # pc'[c].run
  <2>1. CASE q = p
    BY <1>1, <1>4, <1>5, <2>1 DEF Turns, Serves, MirrorInv
  <2>2. CASE q # p
    BY <1>1, <1>5, <2>2 DEF Turns, MirrorInv
  <2>q. QED
    BY <2>1, <2>2
<1>q. QED
  BY <1>1, <1>2, <1>3, <1>5 DEF MirrorInv

LEMMA MirrorAside ==
  ASSUME TInv, AgentInv, MirrorInv, NEW p \in Procs, NEW place, NEW run, NEW msg,
         Turns(p, place, run, msg), Serves(p, place, run),
         UNCHANGED <<current, loaded, overtaken, queue>>, stored'.queue = stored.queue
  PROVE  MirrorInv'
BY MirrorPlaces DEF MirrorInv, QueueIsMirrored

LEMMA MirrorPersists ==
  ASSUME TInv, AgentInv, MirrorInv, NEW p \in Procs, NEW place, NEW run, NEW msg,
         Turns(p, place, run, msg), Serves(p, place, run), pc[p].at \in Serving,
         NEW messages \in Seq(Messages), Persist(pc[p].run, messages)
  PROVE  MirrorInv'
<1> PICK r : r = pc[p].run
  OBVIOUS
<1>1. r \in Runs
  BY DEF TInv, Holds, Launched
<1>2. /\ stored'.queue = messages /\ queue'[r] = messages /\ UNCHANGED <<current, loaded>>
      /\ overtaken' = (overtaken \/ r # loaded)
  BY <1>1, Persisted DEF TInv, Persist
<1>3. ASSUME ~overtaken' PROVE r = loaded /\ current \in {0, r}
  BY <1>2, <1>3 DEF MirrorInv, Entering
<1>4. overtaken' \/ queue'[loaded'] = stored'.queue
  BY <1>2, <1>3
<1>5. QueueIsMirrored'
  BY <1>2, <1>3 DEF QueueIsMirrored
<1>q. QED
  BY <1>2, <1>4, <1>5, MirrorPlaces DEF MirrorInv

LEMMA MirrorPutsBack ==
  ASSUME TInv, AgentInv, MirrorInv, NEW p \in Procs, PutBack(p), pc[p].at \in Serving,
         pc[p].msg \in Messages
  PROVE  MirrorInv'
<1> PICK messages : messages = <<pc[p].msg>> \o queue[pc[p].run]
  OBVIOUS
<1>1. pc[p].run \in Launched
  BY DEF TInv, Holds
<1>2. Turns(p, "idle", 0, 0) /\ messages \in Seq(Messages) /\ Persist(pc[p].run, messages)
  BY <1>1, PutBackTurns
<1>3. Serves(p, "idle", 0)
  BY DEF Serves, Serving, Entering
<1>q. QED
  BY <1>2, <1>3, MirrorPersists

LEMMA MirrorQuiet ==
  ASSUME MirrorInv, UNCHANGED <<current, loaded, overtaken, queue, pc, stored>>
  PROVE  MirrorInv'
BY DEF MirrorInv, QueueIsMirrored

LEMMA MirrorMessaging ==
  ASSUME TInv, AgentInv, MirrorInv, NEW p \in Procs, Messaging(p)
  PROVE  MirrorInv'
<1> PICK r : r = pc[p].run
  OBVIOUS
<1> USE DEF Serves, Serving, Entering
<1>1. CASE LookUp(p)
  BY <1>1, LookUpTurns, MirrorAside DEF LookUp, At, files
<1>2. CASE QueueMessage(p)
  <2>1. pc[p].at = "queue" /\ Persist(r, Append(queue[r], composed + 1)) /\ Turns(p, "idle", 0, 0)
    BY <1>2, Answered DEF QueueMessage, At
  <2>2. r \in Runs /\ composed + 1 \in Messages
    BY <1>2, <2>1, InteractionAssumption DEF QueueMessage, TInv, TypeOK, Holds, Launched, Messages
  <2>3. Append(queue[r], composed + 1) \in Seq(Messages)
    BY <2>2 DEF TInv, TypeOK
  <2>q. QED
    BY <2>1, <2>3, MirrorPersists
<1>3. CASE Take(p)
  <2>1. pc[p].at = "queue"
    BY <1>3 DEF Take, At
  <2>2. CASE Turns(p, "idle", 0, 0) /\ UNCHANGED <<files, queue, locks>>
    BY <2>1, <2>2, MirrorAside DEF files
  <2>3. CASE /\ Turns(p, "check", r, Head(queue[r]))
             /\ Tail(queue[r]) \in Seq(Messages) /\ Persist(r, Tail(queue[r]))
    <3>1. Serves(p, "check", r)
      BY <2>1
    <3>2. PICK messages \in Seq(Messages) : messages = Tail(queue[r])
      BY <2>3
    <3>q. QED
      BY <2>1, <2>3, <3>1, <3>2, MirrorPersists
  <2>q. QED
    BY <1>3, <2>2, <2>3, TakeTurns
<1>4. CASE Clear(p)
  <2>1. PICK place \in {"idle", "remove"}, run \in {0, r} :
          (place = "remove" => run = r) /\ Turns(p, place, run, 0)
    BY <1>4, ClearTurns
  <2>2. Persist(r, <<>>) /\ pc[p].at \in {"queue", "discard"}
    BY <1>4 DEF Clear
  <2>3. Serves(p, place, run) /\ pc[p].at \in Serving /\ <<>> \in Seq(Messages)
    BY <2>1, <2>2
  <2>q. QED
    BY <2>1, <2>2, <2>3, MirrorPersists
<1>5. CASE Type(p)
  BY <1>5, TypeTurns, MirrorAside DEF Type, At, files
<1>6. CASE Check(p)
  <2>0. PICK m : m = pc[p].msg
    OBVIOUS
  <2>1. pc[p].at = "check"
    BY <1>6 DEF Check, At
  <2>2. CASE Turns(p, "journal", r, m) /\ UNCHANGED <<files, queue, locks>>
    BY <2>1, <2>2, MirrorAside DEF files
  <2>3. CASE PutBack(p)
    BY <1>6, <2>1, <2>3, CheckTurns, MirrorPutsBack
  <2>q. QED
    BY <1>6, <2>0, <2>2, <2>3, CheckTurns
<1>7. CASE Journal(p)
  BY <1>7, JournalTurns, MirrorAside DEF Journal, files
<1>8. CASE Mark(p)
  BY <1>8, Answered, MirrorAside DEF Mark, At, files
<1>9. CASE Deliver(p) \/ Skip(p)
  <2>1. Turns(p, "mark", r, pc[p].msg) /\ pc[p].at = "deliver"
    BY <1>9, DeliverTurns
  <2>2. UNCHANGED <<files, queue>>
    BY <1>9 DEF Deliver, Skip
  <2>q. QED
    BY <2>1, <2>2, MirrorAside DEF files
<1>10. CASE Refuse(p)
  <2>1. pc[p].at = "deliver"
    BY <1>10, RefuseTurns
  <2>2. CASE Turns(p, "idle", 0, 0) /\ UNCHANGED <<files, queue, locks>>
    BY <2>1, <2>2, MirrorAside DEF files
  <2>3. CASE pc[p].msg \in Messages /\ PutBack(p)
    BY <2>1, <2>3, MirrorPutsBack
  <2>q. QED
    BY <1>10, <2>2, <2>3, RefuseTurns
<1>q. QED
  BY <1>1, <1>2, <1>3, <1>4, <1>5, <1>6, <1>7, <1>8, <1>9, <1>10 DEF Messaging

LEMMA MirrorEnding ==
  ASSUME TInv, AgentInv, MirrorInv, NEW p \in Procs, Ending(p)
  PROVE  MirrorInv'
<1> USE DEF Serves, Serving, Entering
<1>1. CASE Stop(p)
  BY <1>1, MirrorQuiet DEF Stop, files
<1>2. CASE SetCompleted(p)
  BY <1>2, SetCompletedTurns, MirrorAside DEF SetCompleted, At, files
<1>3. CASE KillFails(p)
  BY <1>3, Answered, MirrorAside DEF KillFails, At, files
<1>4. CASE StoreCompleted(p)
  <2>1. stored'.queue = stored.queue
    BY <1>4 DEF StoreCompleted, TInv, TypeOK
  <2>q. QED
    BY <1>4, <2>1, Answered, MirrorAside DEF StoreCompleted, At
<1>5. CASE Close(p)
  BY <1>5, CloseTurns, MirrorAside DEF Close, At, files
<1>6. CASE Remove(p)
  <2>1. Turns(p, "idle", 0, 0) /\ pc[p].at = "remove"
    BY <1>6, Answered DEF Remove, At
  <2>2. current' = 0 /\ UNCHANGED <<stored, loaded, overtaken, queue>>
    BY <1>6 DEF Remove
  <2>q. QED
    BY <2>1, <2>2 DEF MirrorInv, QueueIsMirrored, Turns
<1>q. QED
  BY <1>1, <1>2, <1>3, <1>4, <1>5, <1>6 DEF Ending

LEMMA MirrorResuming ==
  ASSUME TInv, AgentInv, MirrorInv, NEW p \in Procs, Resuming(p)
  PROVE  MirrorInv'
<1>1. CASE Resume(p)
  BY <1>1, ResumeTurns, MirrorAside DEF Resume, At, files, Serves, Serving, Entering
<1>2. CASE GiveUp(p)
  BY <1>2, Answered, MirrorAside DEF GiveUp, At, files, Serves, Serving, Entering
<1>3. CASE Launch(p)
  <2>1. PICK r \in Runs : agent[r] = "none" /\ Turns(p, "load", r, 0)
    BY <1>3, LaunchTurns
  <2>2. UNCHANGED <<files, queue>> /\ pc[p].at = "await"
    BY <1>3 DEF Launch, At
  <2>3. \A q \in Procs : pc[q].at \in Serving => pc[q].run # r
    BY <2>1 DEF TInv, Holds, Launched
  <2>q. QED
    BY <2>1, <2>2, <2>3 DEF MirrorInv, QueueIsMirrored, Turns, files, Serving, Entering
<1>4. CASE Load(p)
  <2>0. PICK r : r = pc[p].run
    OBVIOUS
  <2>1. r \in Runs /\ Turns(p, "insert", r, 0) /\ pc[p].at = "load"
    BY <1>4, <2>0, LoadTurns DEF Load, At, Launched
  <2>2. /\ loaded' = r /\ queue'[r] = stored.queue /\ stored'.queue = stored.queue
        /\ UNCHANGED <<current, overtaken>>
        /\ \A s \in Runs : s # r => queue'[s] = queue[s]
    BY <1>4, <2>0, <2>1 DEF Load, TInv, TypeOK
  <2>3. \A q \in Procs : pc[q].at \in Entering => q = p
    BY <2>1 DEF AgentInv, Resumes, Entering
  <2>4. r # current
    BY <2>0, <2>1 DEF AgentInv, Entering
  <2>5. QueueIsMirrored'
    BY <2>2, <2>4, InteractionAssumption DEF MirrorInv, QueueIsMirrored, TInv, TypeOK, Runs
  <2>6. \A q \in Procs : pc'[q].at \in Entering => q = p
    BY <2>1, <2>3 DEF Turns
  <2>7. \A q \in Procs : pc'[q].at = "insert" => pc'[q].run = loaded'
    BY <2>1, <2>2, <2>6 DEF Turns, Entering
  <2>8. \A q, c \in Procs :
          pc'[q].at \in Serving /\ pc'[c].at \in Entering => pc'[q].run # pc'[c].run
    <3> SUFFICES ASSUME NEW q \in Procs, NEW c \in Procs,
                        pc'[q].at \in Serving, pc'[c].at \in Entering
                 PROVE  pc'[q].run # pc'[c].run
      OBVIOUS
    <3>1. c = p /\ pc'[c].run = pc[c].run /\ pc[c].at \in Entering
      BY <2>0, <2>1, <2>6 DEF Turns, Entering
    <3>2. pc'[q] = pc[q]
      BY <2>1 DEF Turns, Serving
    <3>q. QED
      BY <3>1, <3>2 DEF MirrorInv
  <2>9. pc'[p].at = "insert"
    BY <2>1 DEF Turns
  <2>q. QED
    BY <2>2, <2>5, <2>7, <2>8, <2>9 DEF MirrorInv
<1>5. CASE Insert(p)
  <2>1. Turns(p, "idle", 0, 0) /\ pc[p].at = "insert" /\ current' = pc[p].run
        /\ UNCHANGED <<stored, loaded, overtaken, queue>>
    BY <1>5, Answered DEF Insert, At
  <2>2. current' = loaded
    BY <2>1 DEF MirrorInv
  <2>3. \A q \in Procs : pc'[q].at \notin Entering
    BY <2>1 DEF Turns, AgentInv, Resumes, Entering
  <2>q. QED
    BY <2>1, <2>2, <2>3 DEF MirrorInv, QueueIsMirrored, Entering
<1>q. QED
  BY <1>1, <1>2, <1>3, <1>4, <1>5 DEF Resuming

LEMMA MirrorSteps == TInv /\ AgentInv /\ MirrorInv /\ [Next]_vars => MirrorInv'
<1> SUFFICES ASSUME TInv, AgentInv, MirrorInv, [Next]_vars PROVE MirrorInv'
  OBVIOUS
<1>1. ASSUME NEW r \in Runs, Read(r) \/ End(r) \/ Collect(r) PROVE MirrorInv'
  BY <1>1, MirrorQuiet DEF Read, End, Collect, files
<1>2. CASE Crash
  <2>1. \A p \in Procs : pc'[p].at = "idle"
    BY <1>2, IdleRequest DEF Crash
  <2>q. QED
    BY <1>2, <2>1 DEF Crash, MirrorInv, QueueIsMirrored, Serving
<1>3. CASE UNCHANGED vars
  BY <1>3, MirrorQuiet DEF vars, files
<1>q. QED
  BY <1>1, <1>2, <1>3, MirrorMessaging, MirrorEnding, MirrorResuming DEF Next

LEMMA MirrorStart == Init => MirrorInv
<1> SUFFICES ASSUME Init PROVE MirrorInv
  OBVIOUS
<1>1. 1 \in Runs
  BY InteractionAssumption DEF Runs
<1>2. queue[1] = <<>> /\ stored.queue = <<>> /\ current = 1 /\ loaded = 1
  BY <1>1 DEF Init
<1>3. \A p \in Procs : pc[p].at = "idle"
  BY IdleRequest DEF Init
<1>q. QED
  BY <1>2, <1>3 DEF MirrorInv, QueueIsMirrored, Serving

(* Until a request that still holds a replaced interaction writes its       *)
(* queue, the queue a client is shown is the one in queue.json, from one    *)
(* resume to the next and while several clients queue, send and clear at    *)
(* once (the handlers of queue_message, send_queued_message, clear_queue).  *)
THEOREM TheQueueIsMirrored == Spec => []QueueIsMirrored
<1>1. MirrorInv => QueueIsMirrored
  BY DEF MirrorInv
<1>q. QED
  BY <1>1, TypedStart, TypedSteps, AgentStart, AgentSteps, MirrorStart, MirrorSteps, PTL DEF Spec

-----------------------------------------------------------------------------
(* Where a message is.  The steps that move one are few, and each takes it  *)
(* out of the only place it was in.                                         *)
In(m, s) == \E i \in DOMAIN s : s[i] = m
Distinct(s) == \A i, j \in DOMAIN s : s[i] = s[j] => i = j
Hand(p) == IF pc[p].at \in InTransit THEN pc[p].msg ELSE 0
Kinds == {"queued", "taken", "delivered", "skipped", "cleared", "lost"}

Settled(m) ==
  /\ m <= composed => \E a \in Kinds : Accounts(m) = {a}
  /\ ~(m <= composed) => Accounts(m) = {}
  /\ delivered[m] <= 1

KeptOnce ==
  /\ Distinct(stored.queue)
  /\ \A p, q \in Procs : Hand(p) # 0 /\ Hand(p) = Hand(q) => p = q
  /\ \A m \in Messages : Settled(m)

KeepInv == overtaken \/ KeptOnce

LEMMA InAppend ==
  ASSUME NEW s \in Seq(Messages), NEW n \in Messages, NEW t, t = Append(s, n)
  PROVE  /\ \A m : In(m, t) <=> In(m, s) \/ m = n
         /\ Distinct(s) /\ ~In(n, s) => Distinct(t)
<1>1. /\ Len(s) \in Nat /\ DOMAIN s = 1 .. Len(s) /\ DOMAIN t = 1 .. Len(s) + 1
      /\ t[Len(s) + 1] = n /\ \A i \in DOMAIN s : t[i] = s[i]
  OBVIOUS
<1>2. DOMAIN t = DOMAIN s \cup {Len(s) + 1}
  BY <1>1
<1>q. QED
  BY <1>1, <1>2 DEF In, Distinct

LEMMA InTail ==
  ASSUME NEW s \in Seq(Messages), s # <<>>, Distinct(s), NEW t, t = Tail(s)
  PROVE  /\ \A m : In(m, t) <=> In(m, s) /\ m # Head(s)
         /\ Distinct(t) /\ In(Head(s), s)
<1>1. /\ Len(s) \in Nat \ {0} /\ DOMAIN s = 1 .. Len(s) /\ DOMAIN t = 1 .. Len(s) - 1
      /\ Head(s) = s[1] /\ \A i \in DOMAIN t : t[i] = s[i + 1]
  OBVIOUS
<1>2. \A i \in DOMAIN t : i + 1 \in DOMAIN s /\ i + 1 # 1 /\ i \in Int
  BY <1>1
<1>3. \A i \in DOMAIN s : i # 1 => i - 1 \in DOMAIN t /\ t[i - 1] = s[i]
  BY <1>1
<1>4. 1 \in DOMAIN s
  BY <1>1
<1>5. Distinct(t)
  BY <1>1, <1>2 DEF Distinct
<1>6. \A m : In(m, t) => In(m, s) /\ m # Head(s)
  BY <1>1, <1>2, <1>4 DEF In, Distinct
<1>7. \A m : In(m, s) /\ m # Head(s) => In(m, t)
  BY <1>1, <1>3 DEF In
<1>q. QED
  BY <1>1, <1>4, <1>5, <1>6, <1>7 DEF In

LEMMA InFront ==
  ASSUME NEW s \in Seq(Messages), NEW n \in Messages, NEW t, t = <<n>> \o s
  PROVE  /\ \A m : In(m, t) <=> m = n \/ In(m, s)
         /\ Distinct(s) /\ ~In(n, s) => Distinct(t)
<1>1. /\ Len(s) \in Nat /\ DOMAIN s = 1 .. Len(s) /\ DOMAIN t = 1 .. Len(s) + 1
      /\ t[1] = n /\ \A i \in DOMAIN s : t[i + 1] = s[i]
  OBVIOUS
<1>2. \A i \in DOMAIN t : i # 1 => i - 1 \in DOMAIN s /\ t[i] = s[i - 1]
  BY <1>1
<1>3. \A i \in DOMAIN s : i + 1 \in DOMAIN t
  BY <1>1
<1>4. 1 \in DOMAIN t
  BY <1>1
<1>5. Distinct(s) /\ ~In(n, s) => Distinct(t)
  <2> SUFFICES ASSUME Distinct(s), ~In(n, s), NEW i \in DOMAIN t, NEW j \in DOMAIN t, t[i] = t[j]
               PROVE  i = j
    BY DEF Distinct
  <2>1. i = 1 <=> j = 1
    BY <1>1, <1>2 DEF In
  <2>2. i # 1 => i - 1 = j - 1
    BY <1>2, <2>1 DEF Distinct
  <2>q. QED
    BY <1>1, <2>1, <2>2
<1>6. \A m : In(m, t) => m = n \/ In(m, s)
  BY <1>1, <1>2 DEF In
<1>7. \A m : m = n \/ In(m, s) => In(m, t)
  BY <1>1, <1>3, <1>4 DEF In
<1>q. QED
  BY <1>5, <1>6, <1>7

LEMMA InHands ==
  ASSUME NEW m \in Messages
  PROVE  /\ InHand(m) <=> \E p \in Procs : Hand(p) = m
         /\ InHand(m)' <=> \E p \in Procs : Hand(p)' = m
BY InteractionAssumption DEF InHand, Taken, Sending, Hand, InTransit, Messages

LEMMA AccountsAre ==
  ASSUME NEW m
  PROVE  /\ Accounts(m) \subseteq Kinds /\ Accounts(m)' \subseteq Kinds
         /\ "queued" \in Accounts(m) <=> In(m, stored.queue)
         /\ "taken" \in Accounts(m) <=> InHand(m)
         /\ "delivered" \in Accounts(m) <=> delivered[m] > 0
         /\ "skipped" \in Accounts(m) <=> m \in skipped
         /\ "cleared" \in Accounts(m) <=> m \in cleared
         /\ "lost" \in Accounts(m) <=> m \in lost
         /\ "queued" \in Accounts(m)' <=> In(m, stored'.queue)
         /\ "taken" \in Accounts(m)' <=> InHand(m)'
         /\ "delivered" \in Accounts(m)' <=> delivered'[m] > 0
         /\ "skipped" \in Accounts(m)' <=> m \in skipped'
         /\ "cleared" \in Accounts(m)' <=> m \in cleared'
         /\ "lost" \in Accounts(m)' <=> m \in lost'
BY DEF Accounts, Kinds, In, Queued

(* A message that stays where it is. *)
LEMMA Stays ==
  ASSUME NEW m \in Messages, Settled(m), m <= composed' <=> m <= composed,
         In(m, stored'.queue) <=> In(m, stored.queue), InHand(m)' <=> InHand(m),
         delivered'[m] = delivered[m], m \in skipped' <=> m \in skipped,
         m \in cleared' <=> m \in cleared, m \in lost' <=> m \in lost
  PROVE  Settled(m)'
<1>1. \A a \in Kinds : a \in Accounts(m)' <=> a \in Accounts(m)
  BY AccountsAre DEF Kinds
<1>2. Accounts(m)' = Accounts(m)
  BY <1>1, AccountsAre
<1>q. QED
  BY <1>2 DEF Settled

(* A message that moves from one place to another. *)
LEMMA Goes ==
  ASSUME NEW m \in Messages, Settled(m), m <= composed, m <= composed',
         NEW a \in Kinds, NEW b \in Kinds, a \in Accounts(m),
         \A c \in Kinds : c \in Accounts(m)' <=> c = b \/ (c # a /\ c \in Accounts(m)),
         delivered'[m] <= 1
  PROVE  Settled(m)'
<1>1. Accounts(m) = {a}
  BY DEF Settled
<1>2. Accounts(m)' = {b}
  BY <1>1, AccountsAre
<1>q. QED
  BY <1>2 DEF Settled

LEMMA Unsent ==
  ASSUME TypeOK, NEW m \in Messages, Settled(m),
         "queued" \in Accounts(m) \/ "taken" \in Accounts(m)
  PROVE  /\ m <= composed /\ delivered[m] = 0 /\ m \notin skipped \cup cleared \cup lost
         /\ In(m, stored.queue) <=> ~InHand(m)
<1>1. m <= composed /\ \E a \in {"queued", "taken"} : Accounts(m) = {a}
  BY DEF Settled
<1>2. /\ ~(delivered[m] > 0) /\ m \notin skipped \cup cleared \cup lost
      /\ In(m, stored.queue) <=> ~InHand(m)
  BY <1>1, AccountsAre
<1>3. delivered[m] \in Nat
  BY DEF TypeOK
<1>q. QED
  BY <1>1, <1>2, <1>3

LEMMA KeepQuiet ==
  ASSUME TInv, KeepInv, overtaken => overtaken', stored'.queue = stored.queue,
         UNCHANGED <<composed, delivered, skipped, cleared, lost>>, \A p \in Procs : Hand(p)' = Hand(p)
  PROVE  KeepInv'
<1> SUFFICES ASSUME KeptOnce PROVE KeptOnce'
  BY DEF KeepInv
<1>1. \A m \in Messages : InHand(m)' <=> InHand(m)
  BY InHands
<1>2. \A m \in Messages : Settled(m)'
  BY <1>1, Stays DEF KeptOnce
<1>q. QED
  BY <1>2 DEF KeptOnce

(* The hands of the other requests. *)
LEMMA Hands ==
  ASSUME NEW p \in Procs, NEW place, NEW run, NEW msg, Turns(p, place, run, msg)
  PROVE  /\ Hand(p)' = (IF place \in InTransit THEN msg ELSE 0)
         /\ \A q \in Procs : q # p => Hand(q)' = Hand(q)
BY DEF Turns, Hand

(* A write of the queue of an interaction that was replaced leaves nothing  *)
(* to show; otherwise the file held that queue.                             *)
LEMMA Overtakes ==
  ASSUME TInv, MirrorInv, KeepInv, NEW r \in Runs, NEW messages \in Seq(Messages),
         Persist(r, messages),
         queue[r] = stored.queue /\ stored'.queue = messages /\ KeptOnce => KeptOnce'
  PROVE  KeepInv'
<1>1. CASE overtaken'
  BY <1>1 DEF KeepInv
<1>2. CASE ~overtaken'
  <2>1. r = loaded /\ ~overtaken
    BY <1>2 DEF Persist
  <2>2. queue[r] = stored.queue /\ stored'.queue = messages
    BY <2>1, Persisted DEF MirrorInv, TInv
  <2>q. QED
    BY <2>1, <2>2 DEF KeepInv
<1>q. QED
  BY <1>1, <1>2

LEMMA QueueMessageKeeps ==
  ASSUME TInv, MirrorInv, KeepInv, NEW p \in Procs, QueueMessage(p)
  PROVE  KeepInv'
<1> PICK r : r = pc[p].run
  OBVIOUS
<1>0. PICK n : n = composed + 1
  OBVIOUS
<1>1. r \in Runs /\ pc[p].at = "queue"
  BY DEF QueueMessage, At, TInv, Holds, Serving, Launched
<1>2. n \in Messages /\ composed \in Nat
  BY <1>0, InteractionAssumption DEF QueueMessage, TInv, TypeOK, Messages
<1> PICK messages : messages = Append(queue[r], n)
  OBVIOUS
<1>3. messages \in Seq(Messages) /\ queue[r] \in Seq(Messages)
  BY <1>1, <1>2 DEF TInv, TypeOK
<1>4. /\ Persist(r, messages) /\ composed' = n /\ UNCHANGED <<delivered, skipped, cleared, lost>>
  BY <1>0 DEF QueueMessage
<1>5. Turns(p, "idle", 0, 0)
  BY Answered DEF QueueMessage
<1>6. \A q \in Procs : Hand(q)' = Hand(q)
  BY <1>1, <1>5, Hands DEF Hand, InTransit
<1>7. ASSUME queue[r] = stored.queue, stored'.queue = messages, KeptOnce PROVE KeptOnce'
  <2>1. Accounts(n) = {} /\ delivered[n] <= 1
    BY <1>0, <1>2, <1>7 DEF KeptOnce, Settled
  <2>2. ~In(n, stored.queue)
    BY <2>1, AccountsAre
  <2>3. Distinct(stored'.queue) /\ \A m : In(m, stored'.queue) <=> In(m, stored.queue) \/ m = n
    <3>1. /\ \A m : In(m, messages) <=> In(m, queue[r]) \/ m = n
          /\ Distinct(queue[r]) /\ ~In(n, queue[r]) => Distinct(messages)
      BY <1>2, <1>3, InAppend
    <3>q. QED
      BY <1>7, <2>2, <3>1 DEF KeptOnce
  <2>4. \A m \in Messages : InHand(m)' <=> InHand(m)
    BY <1>6, InHands
  <2>5. ASSUME NEW m \in Messages, m # n PROVE Settled(m)'
    <3>1. m <= composed' <=> m <= composed
      BY <1>0, <1>2, <1>4, <2>5 DEF Messages
    <3>2. Settled(m)
      BY <1>7 DEF KeptOnce
    <3>q. QED
      BY <1>4, <2>3, <2>4, <2>5, <3>1, <3>2, Stays
  <2>6. Settled(n)'
    <3>1. \A a \in Kinds : a \in Accounts(n)' <=> a = "queued"
      BY <1>2, <1>4, <2>1, <2>3, <2>4, AccountsAre DEF Kinds
    <3>2. Accounts(n)' = {"queued"} /\ "queued" \in Kinds
      BY <3>1, AccountsAre DEF Kinds
    <3>q. QED
      BY <1>2, <1>4, <2>1, <3>2 DEF Settled, Messages
  <2>q. QED
    BY <1>6, <1>7, <2>3, <2>5, <2>6 DEF KeptOnce
<1>q. QED
  BY <1>1, <1>3, <1>4, <1>7, Overtakes

LEMMA TakeKeeps ==
  ASSUME TInv, MirrorInv, KeepInv, NEW p \in Procs, Take(p)
  PROVE  KeepInv'
<1> PICK r : r = pc[p].run
  OBVIOUS
<1> PICK n : n = Head(queue[r])
  OBVIOUS
<1> PICK messages : messages = Tail(queue[r])
  OBVIOUS
<1>0. r \in Runs /\ pc[p].at = "queue" /\ UNCHANGED <<composed, delivered, skipped, cleared, lost>>
  BY TakeTurns DEF Take, At, Launched, ledger
<1>1. CASE Turns(p, "idle", 0, 0) /\ UNCHANGED <<files, queue, locks>>
  <2>1. \A q \in Procs : Hand(q)' = Hand(q)
    BY <1>0, <1>1, Hands DEF Hand, InTransit
  <2>q. QED
    BY <1>0, <1>1, <2>1, KeepQuiet DEF files
<1>2. CASE /\ queue[r] # <<>> /\ Turns(p, "check", r, n)
           /\ n \in Messages /\ messages \in Seq(Messages) /\ Persist(r, messages)
  <2>1. Hand(p)' = n /\ Hand(p) = 0 /\ \A q \in Procs : q # p => Hand(q)' = Hand(q)
    BY <1>0, <1>2, Hands DEF Hand, InTransit
  <2>2. ASSUME queue[r] = stored.queue, stored'.queue = messages, KeptOnce PROVE KeptOnce'
    <3>1. /\ \A m : In(m, stored'.queue) <=> In(m, stored.queue) /\ m # n
          /\ Distinct(stored'.queue) /\ In(n, stored.queue)
      BY <1>0, <1>2, <2>2, InTail DEF TInv, TypeOK, KeptOnce
    <3>2. Settled(n) /\ "queued" \in Accounts(n)
      BY <1>2, <2>2, <3>1, AccountsAre DEF KeptOnce
    <3>3. ~InHand(n) /\ n <= composed
      BY <1>2, <3>1, <3>2, Unsent DEF TInv
    <3>4. \A q \in Procs : Hand(q) # n
      BY <1>2, <3>3, InHands
    <3>5. ASSUME NEW m \in Messages, m # n PROVE InHand(m)' <=> InHand(m)
      BY <2>1, <3>5, InteractionAssumption, InHands DEF Messages
    <3>6. InHand(n)'
      BY <1>2, <2>1, InHands
    <3>7. ASSUME NEW m \in Messages, m # n PROVE Settled(m)'
      <4>1. Settled(m)
        BY <2>2 DEF KeptOnce
      <4>q. QED
        BY <1>0, <3>1, <3>5, <3>7, <4>1, Stays
    <3>8. Settled(n)'
      <4>1. \A c \in Kinds :
              c \in Accounts(n)' <=> c = "taken" \/ (c # "queued" /\ c \in Accounts(n))
        BY <1>0, <3>1, <3>6, AccountsAre DEF Kinds
      <4>2. "queued" \in Kinds /\ "taken" \in Kinds /\ n <= composed' /\ delivered'[n] <= 1
        BY <1>0, <3>2, <3>3 DEF Kinds, Settled
      <4>q. QED
        BY <1>2, <3>2, <3>3, <4>1, <4>2, Goes
    <3>9. \A q, c \in Procs : Hand(q)' # 0 /\ Hand(q)' = Hand(c)' => q = c
      BY <2>1, <2>2, <3>4 DEF KeptOnce
    <3>q. QED
      BY <3>1, <3>7, <3>8, <3>9 DEF KeptOnce
  <2>q. QED
    BY <1>0, <1>2, <2>2, Overtakes
<1>q. QED
  BY <1>1, <1>2, TakeTurns

LEMMA ClearKeeps ==
  ASSUME TInv, MirrorInv, KeepInv, NEW p \in Procs, Clear(p)
  PROVE  KeepInv'
<1> PICK r : r = pc[p].run
  OBVIOUS
<1>1. r \in Runs /\ Persist(r, <<>>) /\ <<>> \in Seq(Messages)
  BY ClearTurns DEF Launched
<1>2. /\ cleared' = cleared \cup {queue[r][i] : i \in DOMAIN queue[r]}
      /\ UNCHANGED <<composed, delivered, skipped, lost>> /\ pc[p].at \in {"queue", "discard"}
  BY DEF Clear
<1>3. PICK place \in {"idle", "remove"}, run \in {0, r} : Turns(p, place, run, 0)
  BY ClearTurns
<1>4. \A q \in Procs : Hand(q)' = Hand(q)
  BY <1>2, <1>3, Hands DEF Hand, InTransit
<1>5. ASSUME queue[r] = stored.queue, stored'.queue = <<>>, KeptOnce PROVE KeptOnce'
  <2>1. \A m : ~In(m, stored'.queue)
    BY <1>5 DEF In
  <2>2. \A m : m \in cleared' <=> m \in cleared \/ In(m, stored.queue)
    BY <1>2, <1>5 DEF In
  <2>3. \A m \in Messages : InHand(m)' <=> InHand(m)
    BY <1>4, InHands
  <2>4. ASSUME NEW m \in Messages PROVE Settled(m)'
    <3>1. Settled(m)
      BY <1>5 DEF KeptOnce
    <3>2. CASE ~In(m, stored.queue)
      BY <1>2, <2>1, <2>2, <2>3, <3>1, <3>2, Stays
    <3>3. CASE In(m, stored.queue)
      <4>1. "queued" \in Accounts(m)
        BY <3>3, AccountsAre
      <4>2. m <= composed /\ m <= composed' /\ delivered'[m] <= 1
        BY <1>2, <3>1, <4>1, Unsent DEF TInv, Settled
      <4>3. \A c \in Kinds :
              c \in Accounts(m)' <=> c = "cleared" \/ (c # "queued" /\ c \in Accounts(m))
        BY <1>2, <2>1, <2>2, <2>3, <3>3, AccountsAre DEF Kinds
      <4>4. "queued" \in Kinds /\ "cleared" \in Kinds
        BY DEF Kinds
      <4>q. QED
        BY <3>1, <4>1, <4>2, <4>3, <4>4, Goes
    <3>q. QED
      BY <3>2, <3>3
  <2>5. Distinct(stored'.queue)
    BY <1>5 DEF Distinct
  <2>q. QED
    BY <1>4, <1>5, <2>4, <2>5 DEF KeptOnce
<1>q. QED
  BY <1>1, <1>5, Overtakes

LEMMA PutBackKeeps ==
  ASSUME TInv, MirrorInv, KeepInv, NEW p \in Procs, PutBack(p), pc[p].run \in Launched,
         pc[p].msg \in Messages, pc[p].at \in InTransit, UNCHANGED ledger
  PROVE  KeepInv'
<1> PICK r : r = pc[p].run
  OBVIOUS
<1> PICK n : n = pc[p].msg
  OBVIOUS
<1> PICK messages : messages = <<n>> \o queue[r]
  OBVIOUS
<1>0. /\ r \in Runs /\ n \in Messages /\ Hand(p) = n
      /\ UNCHANGED <<composed, delivered, skipped, cleared, lost>>
  BY DEF Launched, ledger, Hand
<1>1. Turns(p, "idle", 0, 0) /\ messages \in Seq(Messages) /\ Persist(r, messages)
  BY PutBackTurns
<1>2. Hand(p)' = 0 /\ \A q \in Procs : q # p => Hand(q)' = Hand(q)
  BY <1>1, Hands DEF InTransit
<1>3. ASSUME queue[r] = stored.queue, stored'.queue = messages, KeptOnce PROVE KeptOnce'
  <2>1. InHand(n) /\ Settled(n)
    BY <1>0, <1>3, InHands DEF KeptOnce
  <2>2. "taken" \in Accounts(n)
    BY <2>1, AccountsAre
  <2>3. ~In(n, stored.queue) /\ n <= composed
    BY <1>0, <2>1, <2>2, Unsent DEF TInv
  <2>4. Distinct(stored'.queue) /\ \A m : In(m, stored'.queue) <=> m = n \/ In(m, stored.queue)
    BY <1>0, <1>3, <2>3, InFront DEF TInv, TypeOK, KeptOnce
  <2>5. \A q \in Procs : Hand(q)' # n
    BY <1>0, <1>2, <1>3, InteractionAssumption DEF KeptOnce, Messages
  <2>6. ASSUME NEW m \in Messages, m # n PROVE InHand(m)' <=> InHand(m)
    BY <1>0, <1>2, <2>6, InteractionAssumption, InHands DEF Messages
  <2>7. ~InHand(n)'
    BY <1>0, <2>5, InHands
  <2>8. ASSUME NEW m \in Messages, m # n PROVE Settled(m)'
    <3>1. Settled(m)
      BY <1>3 DEF KeptOnce
    <3>q. QED
      BY <1>0, <2>4, <2>6, <2>8, <3>1, Stays
  <2>9. Settled(n)'
    <3>1. \A c \in Kinds :
            c \in Accounts(n)' <=> c = "queued" \/ (c # "taken" /\ c \in Accounts(n))
      BY <1>0, <2>4, <2>7, AccountsAre DEF Kinds
    <3>2. "queued" \in Kinds /\ "taken" \in Kinds /\ n <= composed' /\ delivered'[n] <= 1
      BY <1>0, <2>1, <2>3 DEF Kinds, Settled
    <3>q. QED
      BY <1>0, <2>1, <2>2, <2>3, <3>1, <3>2, Goes
  <2>10. \A q, c \in Procs : Hand(q)' # 0 /\ Hand(q)' = Hand(c)' => q = c
    BY <1>2, <1>3 DEF KeptOnce
  <2>q. QED
    BY <2>4, <2>8, <2>9, <2>10 DEF KeptOnce
<1>q. QED
  BY <1>0, <1>1, <1>3, Overtakes

LEMMA CheckKeeps ==
  ASSUME TInv, MirrorInv, KeepInv, NEW p \in Procs, Check(p)
  PROVE  KeepInv'
<1> PICK r : r = pc[p].run
  OBVIOUS
<1> PICK n : n = pc[p].msg
  OBVIOUS
<1>0. /\ r \in Launched /\ n \in Messages /\ pc[p].at = "check" /\ UNCHANGED ledger
  BY CheckTurns DEF Check
<1>1. CASE Turns(p, "journal", r, n) /\ UNCHANGED <<files, queue, locks>>
  <2>1. \A q \in Procs : Hand(q)' = Hand(q)
    BY <1>0, <1>1, Hands DEF Hand, InTransit
  <2>q. QED
    BY <1>0, <1>1, <2>1, KeepQuiet DEF files, ledger
<1>2. CASE PutBack(p)
  BY <1>0, <1>2, PutBackKeeps DEF InTransit
<1>q. QED
  BY <1>1, <1>2, CheckTurns

LEMMA JournalKeeps ==
  ASSUME TInv, KeepInv, NEW p \in Procs, Journal(p)
  PROVE  KeepInv'
<1> PICK n : n = pc[p].msg
  OBVIOUS
<1>1. /\ pc[p].at = "journal" /\ Turns(p, "deliver", pc[p].run, n)
      /\ UNCHANGED <<files, ledger>>
  BY JournalTurns DEF Journal
<1>2. \A q \in Procs : Hand(q)' = Hand(q)
  BY <1>1, Hands DEF Hand, InTransit
<1>q. QED
  BY <1>1, <1>2, KeepQuiet DEF files, ledger

(* A message that leaves its request's hands for an agent, or for nowhere.  *)
LEMMA HandsOver ==
  ASSUME TInv, KeptOnce, NEW p \in Procs, pc[p].at = "deliver", NEW n, n = pc[p].msg,
         NEW run, Turns(p, "mark", run, n), UNCHANGED <<stored, composed, cleared, lost>>,
         NEW b \in {"delivered", "skipped"},
         \A m \in Messages :
           /\ m # n => delivered'[m] = delivered[m] /\ (m \in skipped' <=> m \in skipped)
           /\ m = n => \/ b = "delivered" /\ delivered'[m] = delivered[m] + 1
                          /\ (m \in skipped' <=> m \in skipped)
                       \/ b = "skipped" /\ delivered'[m] = delivered[m] /\ m \in skipped'
  PROVE  KeptOnce'
<1>1. Hand(p) = n /\ Hand(p)' = 0 /\ \A q \in Procs : q # p => Hand(q)' = Hand(q)
  BY Hands DEF Hand, InTransit
<1>2. n \in Messages \cup {0} /\ 0 \notin Messages
  BY InteractionAssumption DEF TInv, TypeOK, Requests, Messages
<1>3. ASSUME NEW m \in Messages, m # n PROVE Settled(m)'
  <2>1. Settled(m)
    BY DEF KeptOnce
  <2>2. InHand(m)' <=> InHand(m)
    BY <1>1, <1>2, <1>3, InHands
  <2>q. QED
    BY <1>3, <2>1, <2>2, Stays
<1>4. ASSUME n \in Messages PROVE Settled(n)'
  <2>1. Settled(n) /\ InHand(n)
    BY <1>1, <1>4, InHands DEF KeptOnce
  <2>2. "taken" \in Accounts(n)
    BY <2>1, AccountsAre
  <2>3. n <= composed /\ delivered[n] = 0 /\ n \notin skipped
    BY <1>4, <2>1, <2>2, Unsent DEF TInv
  <2>4. \A q \in Procs : Hand(q)' # n
    BY <1>1, <1>2, <1>4 DEF KeptOnce
  <2>5. ~InHand(n)'
    BY <1>4, <2>4, InHands
  <2>6. \A c \in {"queued", "cleared", "lost"} : c \in Accounts(n)' <=> c \in Accounts(n)
    BY AccountsAre
  <2>7. CASE b = "delivered"
    <3>1. delivered'[n] = 1 /\ n \notin skipped'
      BY <1>4, <2>3, <2>7
    <3>2. \A c \in Kinds :
            c \in Accounts(n)' <=> c = "delivered" \/ (c # "taken" /\ c \in Accounts(n))
      BY <2>3, <2>5, <2>6, <3>1, AccountsAre DEF Kinds
    <3>q. QED
      BY <1>4, <2>1, <2>2, <2>3, <3>1, <3>2, Goes DEF Kinds
  <2>8. CASE b = "skipped"
    <3>1. delivered'[n] = 0 /\ n \in skipped'
      BY <1>4, <2>3, <2>8
    <3>2. \A c \in Kinds :
            c \in Accounts(n)' <=> c = "skipped" \/ (c # "taken" /\ c \in Accounts(n))
      BY <2>3, <2>5, <2>6, <3>1, AccountsAre DEF Kinds
    <3>q. QED
      BY <1>4, <2>1, <2>2, <2>3, <3>1, <3>2, Goes DEF Kinds
  <2>q. QED
    BY <2>7, <2>8
<1>5. \A q, c \in Procs : Hand(q)' # 0 /\ Hand(q)' = Hand(c)' => q = c
  BY <1>1 DEF KeptOnce
<1>q. QED
  BY <1>3, <1>4, <1>5 DEF KeptOnce

LEMMA DeliverKeeps ==
  ASSUME TInv, KeepInv, NEW p \in Procs, Deliver(p) \/ Skip(p)
  PROVE  KeepInv'
<1> PICK n : n = pc[p].msg
  OBVIOUS
<1>1. /\ pc[p].at = "deliver" /\ Turns(p, "mark", pc[p].run, n)
      /\ UNCHANGED <<stored, overtaken, composed, cleared, lost>>
  BY DeliverTurns DEF Deliver, Skip, files
<1> SUFFICES ASSUME KeptOnce PROVE KeptOnce'
  BY <1>1 DEF KeepInv
<1>2. CASE Deliver(p)
  BY <1>1, <1>2, HandsOver DEF Deliver
<1>3. CASE Skip(p)
  <2>1. 0 \notin Messages
    BY InteractionAssumption DEF Messages
  <2>q. QED
    BY <1>1, <1>3, <2>1, HandsOver DEF Skip
<1>q. QED
  BY <1>2, <1>3

LEMMA RefuseKeeps ==
  ASSUME TInv, MirrorInv, KeepInv, NEW p \in Procs, Refuse(p)
  PROVE  KeepInv'
<1>1. UNCHANGED ledger /\ pc[p].at = "deliver"
  BY RefuseTurns DEF Refuse
<1>2. CASE pc[p].msg = 0 /\ Turns(p, "idle", 0, 0) /\ UNCHANGED <<files, queue, locks>>
  <2>1. \A q \in Procs : Hand(q)' = Hand(q)
    BY <1>2, Hands DEF Hand, InTransit
  <2>q. QED
    BY <1>1, <1>2, <2>1, KeepQuiet DEF files, ledger
<1>3. CASE pc[p].msg \in Messages /\ PutBack(p)
  BY <1>1, <1>3, RefuseTurns, PutBackKeeps DEF InTransit
<1>q. QED
  BY <1>2, <1>3, RefuseTurns

LEMMA CrashKeeps ==
  ASSUME TInv, KeepInv, Crash
  PROVE  KeepInv'
<1>1. /\ UNCHANGED <<stored, overtaken, composed, delivered, skipped, cleared>>
      /\ \A m : m \in lost' <=> m \in lost \/ InHand(m)
      /\ \A p \in Procs : Hand(p)' = 0
  BY IdleRequest DEF Crash, InHand, Hand, InTransit
<1> SUFFICES ASSUME KeptOnce PROVE KeptOnce'
  BY <1>1 DEF KeepInv
<1>2. ASSUME NEW m \in Messages PROVE Settled(m)'
  <2>1. Settled(m)
    BY DEF KeptOnce
  <2>2. ~InHand(m)'
    BY <1>1, InHands, InteractionAssumption DEF Messages
  <2>3. CASE ~InHand(m)
    BY <1>1, <2>1, <2>2, <2>3, Stays
  <2>4. CASE InHand(m)
    <3>1. "taken" \in Accounts(m)
      BY <2>4, AccountsAre
    <3>2. m <= composed /\ m <= composed' /\ delivered'[m] <= 1
      BY <1>1, <2>1, <3>1, Unsent DEF TInv, Settled
    <3>3. \A c \in Kinds :
            c \in Accounts(m)' <=> c = "lost" \/ (c # "taken" /\ c \in Accounts(m))
      BY <1>1, <2>2, <2>4, AccountsAre DEF Kinds
    <3>4. "lost" \in Kinds /\ "taken" \in Kinds
      BY DEF Kinds
    <3>q. QED
      BY <2>1, <3>1, <3>2, <3>3, <3>4, Goes
  <2>q. QED
    BY <2>3, <2>4
<1>q. QED
  BY <1>1, <1>2 DEF KeptOnce

LEMMA MessagingKeeps ==
  ASSUME TInv, MirrorInv, KeepInv, NEW p \in Procs, Messaging(p)
  PROVE  KeepInv'
<1>1. CASE LookUp(p)
  <2>1. \A q \in Procs : Hand(q)' = Hand(q)
    <3>1. Turns(p, "queue", current, 0) /\ pc[p].at = "idle"
      BY <1>1, LookUpTurns DEF LookUp, At
    <3>2. Hand(p)' = 0 /\ Hand(p) = 0 /\ \A q \in Procs : q # p => Hand(q)' = Hand(q)
      BY <3>1, Hands DEF Hand, InTransit
    <3>q. QED
      BY <3>2
  <2>q. QED
    BY <1>1, <2>1, KeepQuiet DEF LookUp, files, ledger
<1>2. CASE Type(p)
  <2>1. \A q \in Procs : Hand(q)' = Hand(q)
    <3>1. Turns(p, "journal", current, 0) /\ pc[p].at = "idle"
      BY <1>2, TypeTurns DEF Type, At
    <3>2. Hand(p)' = 0 /\ Hand(p) = 0 /\ \A q \in Procs : q # p => Hand(q)' = Hand(q)
      BY <3>1, Hands DEF Hand, InTransit
    <3>q. QED
      BY <3>2
  <2>q. QED
    BY <1>2, <2>1, KeepQuiet DEF Type, files, ledger
<1>3. CASE Mark(p)
  <2>1. \A q \in Procs : Hand(q)' = Hand(q)
    BY <1>3, Answered, Hands DEF Mark, At, Hand, InTransit
  <2>q. QED
    BY <1>3, <2>1, KeepQuiet DEF Mark, files, ledger
<1>q. QED
  BY <1>1, <1>2, <1>3, QueueMessageKeeps, TakeKeeps, ClearKeeps, CheckKeeps, JournalKeeps,
     DeliverKeeps, RefuseKeeps DEF Messaging

LEMMA EndingKeeps ==
  ASSUME TInv, KeepInv, NEW p \in Procs, Ending(p)
  PROVE  KeepInv'
<1>1. /\ UNCHANGED <<ledger, overtaken>> /\ stored'.queue = stored.queue
  BY DEF Ending, Stop, SetCompleted, KillFails, StoreCompleted, Close, Remove, files,
         TInv, TypeOK
<1>2. \A q \in Procs : Hand(q)' = Hand(q)
  <2>1. CASE Stop(p)
    BY <2>1 DEF Stop, Hand
  <2>2. CASE SetCompleted(p)
    BY <2>2, SetCompletedTurns, Hands DEF SetCompleted, At, Hand, InTransit
  <2>3. CASE KillFails(p) \/ StoreCompleted(p) \/ Remove(p)
    BY <2>3, Answered, Hands DEF KillFails, StoreCompleted, Remove, At, Hand, InTransit
  <2>4. CASE Close(p)
    <3>1. Turns(p, "discard", current, 0) /\ pc[p].at = "idle"
      BY <2>4, CloseTurns DEF Close, At
    <3>q. QED
      BY <3>1, Hands DEF Hand, InTransit
  <2>q. QED
    BY <2>1, <2>2, <2>3, <2>4 DEF Ending
<1>q. QED
  BY <1>1, <1>2, KeepQuiet DEF ledger

LEMMA ResumingKeeps ==
  ASSUME TInv, KeepInv, NEW p \in Procs, Resuming(p)
  PROVE  KeepInv'
<1>1. /\ UNCHANGED <<ledger, overtaken>> /\ stored'.queue = stored.queue
  BY DEF Resuming, Resume, GiveUp, Launch, Load, Insert, files, TInv, TypeOK
<1>2. \A q \in Procs : Hand(q)' = Hand(q)
  <2>1. CASE Resume(p)
    BY <2>1, ResumeTurns, Hands DEF Resume, At, Hand, InTransit
  <2>2. CASE GiveUp(p) \/ Insert(p)
    BY <2>2, Answered, Hands DEF GiveUp, Insert, At, Hand, InTransit
  <2>3. CASE Launch(p)
    BY <2>3, LaunchTurns, Hands DEF Launch, At, Hand, InTransit
  <2>4. CASE Load(p)
    BY <2>4, LoadTurns, Hands DEF Load, At, Hand, InTransit
  <2>q. QED
    BY <2>1, <2>2, <2>3, <2>4 DEF Resuming
<1>q. QED
  BY <1>1, <1>2, KeepQuiet DEF ledger

LEMMA KeepSteps == TInv /\ MirrorInv /\ KeepInv /\ [Next]_vars => KeepInv'
<1> SUFFICES ASSUME TInv, MirrorInv, KeepInv, [Next]_vars PROVE KeepInv'
  OBVIOUS
<1>1. ASSUME NEW r \in Runs, Read(r) \/ End(r) \/ Collect(r) PROVE KeepInv'
  BY <1>1, KeepQuiet DEF Read, End, Collect, files, ledger, Hand
<1>2. CASE UNCHANGED vars
  BY <1>2, KeepQuiet DEF vars, files, ledger, Hand
<1>q. QED
  BY <1>1, <1>2, MessagingKeeps, EndingKeeps, ResumingKeeps, CrashKeeps DEF Next

LEMMA KeepStart == Init => KeepInv
<1> SUFFICES ASSUME Init PROVE KeptOnce
  BY DEF KeepInv
<1>1. stored.queue = <<>> /\ composed = 0 /\ skipped = {} /\ cleared = {} /\ lost = {}
      /\ \A m \in Messages : delivered[m] = 0
  BY DEF Init
<1>2. \A p \in Procs : Hand(p) = 0
  BY IdleRequest DEF Init, Hand, InTransit
<1>3. ASSUME NEW m \in Messages PROVE Settled(m)
  <2>1. m \in Nat \ {0} /\ ~(m <= composed)
    BY <1>1, InteractionAssumption DEF Messages
  <2>2. ~InHand(m) /\ ~In(m, stored.queue)
    BY <1>1, <1>2, <2>1, InHands DEF In
  <2>3. \A a \in Kinds : a \notin Accounts(m)
    BY <1>1, <2>2, AccountsAre DEF Kinds
  <2>q. QED
    BY <1>1, <2>1, <2>3, AccountsAre DEF Settled
<1>q. QED
  BY <1>1, <1>2, <1>3 DEF KeptOnce, Distinct

(* Until a request that still holds a replaced interaction writes           *)
(* queue.json, a message composed for the queue is in exactly one place: the *)
(* file, the hands of one request sending it, an agent, skipped at a closed  *)
(* input, discarded by the operator, or gone with a server that died while   *)
(* it was in a request's hands.  So the two last places of send_queued_      *)
(* message's failures are the only ones that lose it, no agent is handed it  *)
(* twice, and none gets it after it was discarded or given up.               *)
THEOREM MessagesAreKept == Spec => []QueueIsKept
<1>1. TInv /\ KeepInv => QueueIsKept
  <2> SUFFICES ASSUME TInv, KeptOnce, NEW m \in 1 .. composed
               PROVE  Cardinality(Accounts(m)) = 1 /\ delivered[m] <= 1
    BY DEF KeepInv, QueueIsKept
  <2>1. m \in Messages /\ m <= composed
    BY InteractionAssumption DEF TInv, TypeOK, Messages
  <2>2. PICK a \in Kinds : Accounts(m) = {a}
    BY <2>1 DEF KeptOnce, Settled
  <2>q. QED
    BY <2>1, <2>2, FS_Singleton DEF KeptOnce, Settled
<1>q. QED
  BY <1>1, TypedStart, TypedSteps, AgentStart, AgentSteps, MirrorStart, MirrorSteps,
     KeepStart, KeepSteps, PTL DEF Spec
=============================================================================
