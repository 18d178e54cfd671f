-------------------------- MODULE StyraInteraction --------------------------
(***************************************************************************)
(* One Session of the Styra server: the requests its client threads serve  *)
(* (src/styra/server/src/server.rs), the collector thread reading the      *)
(* agent's updates, and the threads around the agent process               *)
(* (interaction.rs).  A Session is served by one interaction after         *)
(* another; each has an agent of its own, an update channel, an activity   *)
(* and a queue of messages the operator composed but did not send.  The    *)
(* queue is mirrored in queue.json, the completion in session.json.        *)
(*                                                                         *)
(* The agent is external: while it lives it may write any update, and it   *)
(* may close its input or leave at any moment, so stopping and terminating *)
(* it have no step of their own.  What a message says, why an interaction  *)
(* is in its activity, snapshots, commits and the roster are left out.     *)
(***************************************************************************)
EXTENDS FiniteSets, Integers, Sequences

CONSTANTS
  None,         \* no process
  Procs,        \* client threads of the server
  Marks,        \* the completions the operator sets
  Outputs,      \* the updates an agent writes
  MaxRuns,      \* bound on the interactions the Session is served by
  MaxMessages,  \* bound on the messages composed for the queue
  MaxChannel,   \* bound on the updates a collector is behind
  MaxCrashes    \* bound on the times the server dies

Completions == {"active", "completed", "abandoned", "sealed"}
Events == {"over", "yielded", "rundry", "polled", "started"}

ASSUME InteractionAssumption ==
  /\ None \notin Procs /\ Marks \subseteq Completions
  /\ Outputs \subseteq Events
  /\ MaxRuns \in Nat \ {0} /\ MaxMessages \in Nat
  /\ MaxChannel \in Nat /\ MaxCrashes \in Nat

VARIABLES
  stored,     \* what the Session's files say: its queue and its completion
  current,    \* the interaction in the server's map, 0 for none
  activity,   \* what each interaction is doing
  agent,      \* its agent process, and the exec thread around it
  updates,    \* sent to its collector, not yet handled
  queue,      \* its queue in memory
  completed,  \* its completion in memory
  dropped,    \* interactions taken out of the map
  loaded,     \* the last interaction that read queue.json
  metadata,   \* the client holding workspace_metadata
  locks,      \* the client holding each interaction's queue
  pc,         \* each client's request: where it is and what it read
  composed,   \* messages accepted for the queue so far
  delivered,  \* how often each of them was handed to an agent
  skipped,    \* the messages whose agent took no more input
  cleared,    \* the messages the operator discarded
  lost,       \* the messages a dying server took along
  overtaken,  \* a replaced interaction wrote queue.json
  crashes

files == <<stored, current, loaded, overtaken>>
ledger == <<composed, delivered, skipped, cleared, lost>>
vars == <<files, activity, agent, updates, queue, completed,
          dropped, metadata, locks, pc, ledger, crashes>>

Runs == 1 .. MaxRuns
Messages == 1 .. MaxMessages
Activities == {"pending", "running", "background", "stopped"}
Updates == Outputs \cup {"user", "ended"}
Places == {"idle", "queue", "check", "journal", "deliver", "mark", "store",
           "discard", "remove", "await", "load", "insert"}

(***************************************************************************)
(* A request.  run is the interaction it looked up, msg the queued message *)
(* it is sending (0 for one typed now), as the completion it sets.         *)
(***************************************************************************)
Idle == [at |-> "idle", run |-> 0, msg |-> 0, as |-> "active"]
Requests == [at : Places, run : 0 .. MaxRuns, msg : 0 .. MaxMessages,
             as : Completions]

At(p, place) == pc[p].at = place
Goto(p, place) == pc' = [pc EXCEPT ![p].at = place]
Answer(p) == pc' = [pc EXCEPT ![p] = Idle]

Accepting(r) == activity[r] # "stopped"
Finished(r) == agent[r] = "finished"
Launched == {r \in Runs : agent[r] # "none"}
Move(r, next) == activity' = [activity EXCEPT ![r] = next]

(***************************************************************************)
(* A request about the queue looks the interaction up and keeps it: it may *)
(* have been replaced when the request takes its queue's lock.  The other  *)
(* requests look it up in their first step, as an interaction's own state  *)
(* is of no consequence once it is replaced.                               *)
(***************************************************************************)
LookUp(p) ==
  /\ At(p, "idle") /\ current # 0
  /\ pc' = [pc EXCEPT ![p].at = "queue", ![p].run = current]
  /\ UNCHANGED <<files, activity, agent, updates, queue, completed,
                 dropped, metadata, locks, ledger, crashes>>

-----------------------------------------------------------------------------
(* The queue: every change of it is written to queue.json under its lock.  *)

Persist(r, messages) ==
  /\ queue' = [queue EXCEPT ![r] = messages]
  /\ stored' = [stored EXCEPT !.queue = messages]
  /\ overtaken' = (overtaken \/ r # loaded)
  /\ UNCHANGED <<current, loaded>>

QueueMessage(p) ==
  LET r == pc[p].run IN
  /\ At(p, "queue") /\ locks[r] = None /\ composed < MaxMessages
  /\ composed' = composed + 1
  /\ Persist(r, Append(queue[r], composed + 1))
  /\ Answer(p)
  /\ UNCHANGED <<activity, agent, updates, completed, dropped,
                 metadata, locks, delivered, skipped, cleared, lost, crashes>>

\* send_queued_message takes the first message and keeps the lock.
Take(p) ==
  LET r == pc[p].run IN
  /\ At(p, "queue") /\ locks[r] = None
  /\ IF queue[r] = <<>>
     THEN Answer(p) /\ UNCHANGED <<files, queue, locks>>
     ELSE /\ Persist(r, Tail(queue[r]))
          /\ locks' = [locks EXCEPT ![r] = p]
          /\ pc' = [pc EXCEPT ![p].at = "check", ![p].msg = Head(queue[r])]
  /\ UNCHANGED <<activity, agent, updates, completed, dropped,
                 metadata, ledger, crashes>>

\* clear_queue, and the one close_interaction does.
Clear(p) ==
  LET r == pc[p].run IN
  /\ pc[p].at \in {"queue", "discard"} /\ locks[r] = None
  /\ cleared' = cleared \cup {queue[r][i] : i \in DOMAIN queue[r]}
  /\ Persist(r, <<>>)
  /\ IF At(p, "queue") THEN Answer(p) ELSE Goto(p, "remove")
  /\ UNCHANGED <<activity, agent, updates, completed, dropped,
                 metadata, locks, composed, delivered, skipped, lost, crashes>>

-----------------------------------------------------------------------------
(* Sending: the activity is read, the message journaled and announced to   *)
(* the collector, written to the agent's input, and the activity set, each  *)
(* under locks of its own.                                                 *)

Unlock(p) == locks' = [r \in Runs |-> IF locks[r] = p THEN None ELSE locks[r]]

\* A message typed now: refused, it leaves no trace.
Type(p) ==
  /\ At(p, "idle") /\ current # 0 /\ Accepting(current)
  /\ pc' = [pc EXCEPT ![p].at = "journal", ![p].run = current]
  /\ UNCHANGED <<files, activity, agent, updates, queue, completed,
                 dropped, metadata, locks, ledger, crashes>>

(* Mutant: a message that is refused is gone. *)
CheckDiscarding(p) ==
  /\ At(p, "check")
  /\ IF Accepting(pc[p].run)
     THEN Goto(p, "journal") /\ UNCHANGED locks
     ELSE Answer(p) /\ Unlock(p)
  /\ UNCHANGED <<files, activity, agent, updates, queue, completed, dropped,
                 metadata, ledger, crashes>>

\* A queued message that is refused goes back to the front of its queue.
PutBack(p) ==
  LET r == pc[p].run IN
  Answer(p) /\ Unlock(p) /\ Persist(r, <<pc[p].msg>> \o queue[r])

Check(p) ==
  /\ At(p, "check")
  /\ IF Accepting(pc[p].run)
     THEN Goto(p, "journal") /\ UNCHANGED <<files, queue, locks>>
     ELSE PutBack(p)
  /\ UNCHANGED <<activity, agent, updates, completed, dropped,
                 metadata, ledger, crashes>>

Send(r, update) == updates' = [updates EXCEPT ![r] = Append(@, update)]
Room(r) == Len(updates[r]) < MaxChannel

Journal(p) ==
  LET r == pc[p].run IN
  /\ At(p, "journal") /\ Room(r)
  /\ Send(r, "user")
  /\ Goto(p, "deliver")
  /\ UNCHANGED <<files, activity, agent, queue, completed, dropped,
                 metadata, locks, ledger, crashes>>

\* What the agent's client takes counts as handed over: it may hold it until
\* the agent is ready.
Deliver(p) ==
  /\ At(p, "deliver") /\ agent[pc[p].run] = "alive"
  /\ delivered' = [m \in Messages |->
                     IF m = pc[p].msg THEN delivered[m] + 1 ELSE delivered[m]]
  /\ Goto(p, "mark")
  /\ UNCHANGED <<files, activity, agent, updates, queue, completed, dropped,
                 metadata, locks, composed, skipped, cleared, lost, crashes>>

\* Clients of an agent do not say that its input is closed or broken: the
\* message is taken for sent.
Skip(p) ==
  /\ At(p, "deliver")
  /\ skipped' = skipped \cup ({pc[p].msg} \ {0})
  /\ Goto(p, "mark")
  /\ UNCHANGED <<files, activity, agent, updates, queue, completed, dropped,
                 metadata, locks, composed, delivered, cleared, lost, crashes>>

\* An agent without a client is written to directly, and a queued message that
\* cannot be written goes back although it is in the journal.
Refuse(p) ==
  /\ At(p, "deliver")
  /\ IF pc[p].msg = 0
     THEN Answer(p) /\ UNCHANGED <<files, queue, locks>>
     ELSE PutBack(p)
  /\ UNCHANGED <<activity, agent, updates, completed, dropped,
                 metadata, ledger, crashes>>

Mark(p) ==
  /\ At(p, "mark")
  /\ Move(pc[p].run, "running")
  /\ Unlock(p) /\ Answer(p)
  /\ UNCHANGED <<files, agent, updates, queue, completed, dropped,
                 metadata, ledger, crashes>>

-----------------------------------------------------------------------------
(* Stopping, completing and closing. *)

Stop(p) ==
  /\ At(p, "idle") /\ current # 0
  /\ Move(current, "stopped")
  /\ UNCHANGED <<files, agent, updates, queue, completed, dropped,
                 metadata, locks, pc, ledger, crashes>>

\* A sealed Session stays sealed; a live one that is done is killed first.
SetCompleted(p) ==
  LET known == IF current = 0 THEN stored.completed ELSE completed[current] IN
  /\ At(p, "idle")
  /\ \E as \in Marks :
       /\ known = "sealed" => as = "sealed"
       /\ pc' = [pc EXCEPT ![p].at = "store", ![p].run = current, ![p].as = as]
       /\ activity' = [r \in Runs |-> IF r = current /\ as # "active" THEN "stopped"
                                                                     ELSE activity[r]]
  /\ UNCHANGED <<files, agent, updates, queue, completed, dropped,
                 metadata, locks, ledger, crashes>>

\* kill waits for the sandbox to be gone, and gives up after a grace period.
Kills(p) == pc[p].run # 0 /\ pc[p].as # "active"

KillFails(p) ==
  /\ At(p, "store") /\ Kills(p) /\ ~Finished(pc[p].run)
  /\ Answer(p)
  /\ UNCHANGED <<files, activity, agent, updates, queue, completed,
                 dropped, metadata, locks, ledger, crashes>>

StoreCompleted(p) ==
  LET r == pc[p].run IN
  /\ At(p, "store")
  /\ Kills(p) => Finished(r)
  /\ stored' = [stored EXCEPT !.completed = pc[p].as]
  /\ completed' = [s \in Runs |-> IF s = r THEN pc[p].as ELSE completed[s]]
  /\ Answer(p)
  /\ UNCHANGED <<current, loaded, overtaken, activity, agent, updates,
                 queue, dropped, metadata, locks, ledger, crashes>>

Close(p) ==
  /\ At(p, "idle") /\ current # 0
  /\ Move(current, "stopped")
  /\ pc' = [pc EXCEPT ![p].at = "discard", ![p].run = current]
  /\ UNCHANGED <<files, agent, updates, queue, completed, dropped,
                 metadata, locks, ledger, crashes>>

\* The map is keyed by the Session: whatever serves it now is dropped, and
\* dropping an interaction shuts its agent down.
Remove(p) ==
  /\ At(p, "remove")
  /\ current' = 0
  /\ dropped' = dropped \cup ({pc[p].run, current} \ {0})
  /\ Answer(p)
  /\ UNCHANGED <<stored, loaded, overtaken, activity, agent, updates,
                 queue, completed, metadata, locks, ledger, crashes>>

-----------------------------------------------------------------------------
(* Resuming: under workspace_metadata from the first look to the last step. *)

Resume(p) ==
  /\ At(p, "idle") /\ metadata = None
  /\ current # 0 => ~Accepting(current)
  /\ metadata' = p /\ Goto(p, "await")
  /\ UNCHANGED <<files, activity, agent, updates, queue, completed,
                 dropped, locks, ledger, crashes>>

\* The grace period passes, the Session is sealed, or the launch fails.
GiveUp(p) ==
  /\ At(p, "await")
  /\ metadata' = None /\ Answer(p)
  /\ UNCHANGED <<files, activity, agent, updates, queue, completed,
                 dropped, locks, ledger, crashes>>

(* Mutant: the previous agent is asked to leave and not waited for. *)
LaunchBeside(p) ==
  /\ At(p, "await")
  /\ stored.completed # "sealed"
  /\ \E r \in Runs :
       /\ agent[r] = "none" /\ r - 1 \in Launched
       /\ agent' = [agent EXCEPT ![r] = "alive"]
       /\ pc' = [pc EXCEPT ![p].at = "load", ![p].run = r]
  /\ UNCHANGED <<files, activity, updates, queue, completed,
                 dropped, metadata, locks, ledger, crashes>>

\* The previous agent must have left, and the Session must not be sealed.
Launch(p) ==
  /\ At(p, "await")
  /\ current \in {0} \cup {r \in Runs : Finished(r)}
  /\ stored.completed # "sealed"
  /\ \E r \in Runs :
       /\ agent[r] = "none" /\ r - 1 \in Launched
       /\ agent' = [agent EXCEPT ![r] = "alive"]
       /\ pc' = [pc EXCEPT ![p].at = "load", ![p].run = r]
  /\ UNCHANGED <<files, activity, updates, queue, completed,
                 dropped, metadata, locks, ledger, crashes>>

(* Mutant: the resumed interaction starts with an empty queue. *)
LoadAnew(p) ==
  LET r == pc[p].run IN
  /\ At(p, "load")
  /\ loaded' = r
  /\ stored' = [stored EXCEPT !.completed = "active"]
  /\ Goto(p, "insert")
  /\ UNCHANGED <<current, overtaken, activity, agent, updates, queue, completed,
                 dropped, metadata, locks, ledger, crashes>>

Load(p) ==
  LET r == pc[p].run IN
  /\ At(p, "load")
  /\ queue' = [queue EXCEPT ![r] = stored.queue]
  /\ loaded' = r
  /\ stored' = [stored EXCEPT !.completed = "active"]
  /\ Goto(p, "insert")
  /\ UNCHANGED <<current, overtaken, activity, agent, updates, completed,
                 dropped, metadata, locks, ledger, crashes>>

(* Mutant: what was in the map is dropped though there may be nothing. *)
InsertReplacing(p) ==
  /\ At(p, "insert")
  /\ current' = pc[p].run
  /\ dropped' = dropped \cup {current}
  /\ metadata' = None /\ Answer(p)
  /\ UNCHANGED <<stored, loaded, overtaken, activity, agent, updates,
                 queue, completed, locks, ledger, crashes>>

Insert(p) ==
  /\ At(p, "insert")
  /\ current' = pc[p].run
  /\ dropped' = dropped \cup ({current} \ {0})
  /\ metadata' = None /\ Answer(p)
  /\ UNCHANGED <<stored, loaded, overtaken, activity, agent, updates,
                 queue, completed, locks, ledger, crashes>>

-----------------------------------------------------------------------------
(* The agent and the three threads around it. *)

(* Mutant: the end is reported without waiting for the readers. *)
ReadPastTheEnd(r) ==
  /\ agent[r] # "none" /\ Room(r)
  /\ \E update \in Outputs : Send(r, update)
  /\ UNCHANGED <<files, activity, agent, queue, completed,
                 dropped, metadata, locks, pc, ledger, crashes>>

\* The reader thread sends on what the agent wrote, before or after it went.
Read(r) ==
  /\ agent[r] = "alive" /\ Room(r)
  /\ \E update \in Outputs : Send(r, update)
  /\ UNCHANGED <<files, activity, agent, queue, completed,
                 dropped, metadata, locks, pc, ledger, crashes>>

\* The agent leaves, for a reason of its own or because its input was closed
\* or its sandbox terminated, and the exec thread reports the end once the
\* readers have reached theirs.
End(r) ==
  /\ agent[r] = "alive" /\ Room(r)
  /\ Send(r, "ended")
  /\ agent' = [agent EXCEPT ![r] = "finished"]
  /\ UNCHANGED <<files, activity, queue, completed,
                 dropped, metadata, locks, pc, ledger, crashes>>

\* Where an update leaves the interaction.  A turn that is over leaves it idle,
\* or to the background tasks the agent reported; these running dry is news only
\* if nothing was asked since, unless the agent only answers polls for them.
Follows(r, update) ==
  CASE update = "user"     -> "running"
    [] update = "over"     -> "pending"
    [] update = "yielded"  -> "background"
    [] update = "rundry"   -> IF activity[r] = "background" THEN "pending" ELSE activity[r]
    [] update = "polled"   -> "pending"
    [] update = "started"  -> "running"
    [] update = "ended"    -> "stopped"

Collect(r) ==
  /\ updates[r] # <<>>
  /\ updates' = [updates EXCEPT ![r] = Tail(@)]
  /\ Move(r, Follows(r, Head(updates[r])))
  /\ UNCHANGED <<files, agent, queue, completed, dropped, metadata, locks, pc, ledger,
                 crashes>>

-----------------------------------------------------------------------------
(* The server dies with its threads, its memory and its agents, and starts *)
(* again with no interaction in the map.                                   *)

Sending == {p \in Procs : pc[p].at \in {"check", "journal", "deliver"}}
Taken == {pc[p].msg : p \in Sending} \ {0}

Crash ==
  /\ crashes < MaxCrashes /\ crashes' = crashes + 1
  /\ current' = 0
  /\ activity' = [r \in Runs |-> "stopped"]
  /\ agent' = [r \in Runs |-> IF agent[r] = "none" THEN "none" ELSE "finished"]
  /\ updates' = [r \in Runs |-> <<>>]
  /\ metadata' = None /\ locks' = [r \in Runs |-> None]
  /\ pc' = [p \in Procs |-> Idle]
  /\ lost' = lost \cup Taken
  /\ UNCHANGED <<stored, loaded, overtaken, queue, completed,
                 dropped, composed, delivered, skipped, cleared>>

-----------------------------------------------------------------------------
\* A Session that was just created: its first interaction is in the map.
Init ==
  /\ stored = [queue |-> <<>>, completed |-> "active"]
  /\ current = 1 /\ loaded = 1 /\ overtaken = FALSE
  /\ activity = [r \in Runs |-> "pending"]
  /\ agent = [r \in Runs |-> IF r = 1 THEN "alive" ELSE "none"]
  /\ updates = [r \in Runs |-> <<>>]
  /\ queue = [r \in Runs |-> <<>>]
  /\ completed = [r \in Runs |-> "active"]
  /\ dropped = {} /\ metadata = None /\ locks = [r \in Runs |-> None]
  /\ pc = [p \in Procs |-> Idle]
  /\ composed = 0 /\ delivered = [m \in Messages |-> 0]
  /\ skipped = {} /\ cleared = {} /\ lost = {}
  /\ crashes = 0

Messaging(p) == \/ LookUp(p) \/ QueueMessage(p) \/ Take(p) \/ Clear(p)
                \/ Type(p) \/ Check(p) \/ Journal(p)
                \/ Deliver(p) \/ Skip(p) \/ Refuse(p) \/ Mark(p)
Ending(p) == \/ Stop(p) \/ SetCompleted(p) \/ KillFails(p) \/ StoreCompleted(p)
             \/ Close(p) \/ Remove(p)
Resuming(p) == Resume(p) \/ GiveUp(p) \/ Launch(p) \/ Load(p) \/ Insert(p)

Next ==
  \/ \E p \in Procs : Messaging(p) \/ Ending(p) \/ Resuming(p)
  \/ \E r \in Runs : Read(r) \/ End(r) \/ Collect(r)
  \/ Crash

Spec == Init /\ [][Next]_vars

-----------------------------------------------------------------------------
\* Every variable has its type.
TypeOK ==
  /\ stored \in [queue : Seq(Messages), completed : Completions]
  /\ current \in 0 .. MaxRuns /\ loaded \in Runs /\ overtaken \in BOOLEAN
  /\ activity \in [Runs -> Activities]
  /\ agent \in [Runs -> {"none", "alive", "finished"}]
  /\ updates \in [Runs -> Seq(Updates)]
  /\ queue \in [Runs -> Seq(Messages)]
  /\ completed \in [Runs -> Completions]
  /\ dropped \subseteq Runs
  /\ metadata \in Procs \cup {None} /\ locks \in [Runs -> Procs \cup {None}]
  /\ pc \in [Procs -> Requests]
  /\ composed \in 0 .. MaxMessages /\ delivered \in [Messages -> Nat]
  /\ skipped \subseteq Messages /\ cleared \subseteq Messages /\ lost \subseteq Messages
  /\ crashes \in 0 .. MaxCrashes

\* A Session has one agent at a time: a resume, asked for by anyone and by any
\* number of clients at once, starts none beside one that is still there.  Only
\* an interaction that was closed may have an agent that has not left yet.
OneAgent ==
  \A r, s \in Launched : Finished(r) \/ Finished(s) \/ r = s \/ {r, s} \cap dropped # {}

\* An interaction whose agent is gone and whose updates are handled never looks
\* idle, which would have clients send it their messages.
DeadAgentsDoNotLookIdle ==
  \A r \in Runs :
    Finished(r) /\ updates[r] = <<>> => activity[r] \in {"stopped", "running"}

\* The ways a composed message can have gone: queued on disk, in the hands of a
\* request sending it, handed to an agent, skipped at a closed input, discarded
\* by the operator, lost with a server that died sending it.
Queued(m) == \E i \in DOMAIN stored.queue : stored.queue[i] = m
InHand(m) == m \in Taken
Accounts(m) ==
  {a \in {"queued", "taken", "delivered", "skipped", "cleared", "lost"} :
     \/ a = "queued" /\ Queued(m)
     \/ a = "taken" /\ InHand(m)
     \/ a = "delivered" /\ delivered[m] > 0
     \/ a = "skipped" /\ m \in skipped
     \/ a = "cleared" /\ m \in cleared
     \/ a = "lost" /\ m \in lost}

\* A message composed for the queue is in exactly one place, and handed to an
\* agent at most once and never after it was discarded or given up, whatever
\* sends are refused and retried, resumes and crashes there are.  The program
\* loses it in two places only: at an agent's closed input, and when the server
\* dies between taking it from the queue and handing it over.  All of this holds
\* until a request that still holds a replaced interaction writes the queue.
QueueIsKept ==
  overtaken \/ \A m \in 1 .. composed : Cardinality(Accounts(m)) = 1 /\ delivered[m] <= 1

\* The queue a client is shown is the one the Session's files hold, until a
\* request that still holds a replaced interaction writes that one's queue.
QueueIsMirrored ==
  overtaken \/ current = 0 \/ queue[current] = stored.queue

\* Sealing is final: nothing turns a sealed Session back.
SealsAreFinal == [][stored.completed = "sealed" => stored'.completed = "sealed"]_vars

\* The queue is mirrored on disk on every change, so that it survives clients
\* and restarts: a message that was not sent yet and not discarded is in the
\* file, unless a request is sending it right now.
QueueSurvives ==
  \A m \in 1 .. composed :
    Queued(m) \/ InHand(m) \/ delivered[m] > 0 \/ m \in skipped \cup cleared

\* Stopped is what an interaction is whose agent's process is gone, once all it
\* said is handled and nobody is sending.
GoneAgentsAreStopped ==
  \A r \in Runs :
    /\ Finished(r)
    /\ updates[r] = <<>>
    /\ \A p \in Procs : pc[p].run # r
    => activity[r] = "stopped"
=============================================================================
