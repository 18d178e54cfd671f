------------------------------ MODULE MCConverge ------------------------------
(***************************************************************************)
(* The small instance on which work is to end.  People may interfere only  *)
(* MaxMoves times; what Linka and its workers do is not counted, so that a  *)
(* node that is redone for ever is seen to be.                              *)
(***************************************************************************)
EXTENDS MCLinka
CONSTANT MaxMoves

VARIABLE moves   \* interferences so far

(* A node is edited or linked, the checkout or a branch is changed, a       *)
(* completion fails, or work is concluded other than by a success in a      *)
(* clean checkout.                                                          *)
Interferes ==
  \/ \E n \in Existing : defn'[n] # defn[n]
  \/ refs' = refs /\ tree' # tree
  \/ refs' # refs /\ commits' # commits /\ captured' = captured
  \/ /\ completing # None /\ completing' = None
     /\ completing.output = None /\ result' = result
  \/ \E n \in Nodes :
       /\ result'[n] # result[n]
       /\ ~Satisfies(result'[n].outcome) \/ tree # commits[HeadCommit].tree

(* Contents and descriptions differ in nothing but being different: the     *)
(* root commit and every new node have the first.                           *)
MCInit == Init /\ moves = 0 /\ tree = [f \in Files |-> 0]

Step(counted) ==
  /\ Next
  /\ \A n \in Nodes \ Existing : defn'[n] # None => defn'[n].desc = 0
  /\ IF counted THEN moves < MaxMoves /\ moves' = moves + 1 ELSE UNCHANGED moves

(* Where nothing is to end, starting a completion counts too, and observing *)
(* context after the result is recorded.                                    *)
CompletionStarts == completing = None /\ completing' # None
ObservesLate == observed' # observed /\ result' = result

MCSpec ==
  MCInit /\ [][Step(Interferes \/ CompletionStarts \/ ObservesLate)]_<<vars, moves>>

MCFairSpec ==
  MCInit /\ [][Step(Interferes)]_<<vars, moves>> /\ WorkersFair /\ CompletionsFair

=============================================================================
