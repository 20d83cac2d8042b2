------------------------- MODULE SnapshotWatchProofs -------------------------
(***************************************************************************)
(* The wait for the snapshot, for any heights and any number of requests   *)
(* and handlers under way: run() goes on only on a final height, gives up  *)
(* only without a node, and does each once.                                *)
(***************************************************************************)
EXTENDS SnapshotWatch, TLAPS

\* A connection lasts as long as its node.
Connection == connected = nodeUp

\* TypeOK has the reason why late answers are harmless: no answer on its way is
\* above the finalized height, which never falls.
Inv == TypeOK /\ Connection /\ ResolvesOnlyFinal

\* The invariant holds when the wait begins.
LEMMA InitInv == Init => Inv
  BY WatchAssumption
  DEF Init, Inv, TypeOK, Watches, Connection, ResolvesOnlyFinal, Heights, Idle, None

\* The steps of observeChainHeight.
LEMMA WatchInv == ASSUME Inv, Watch PROVE Inv'
<1> USE WatchAssumption
        DEF Inv, TypeOK, Watches, Connection, ResolvesOnlyFinal, Heights, Idle,
            Asked, Done, node, capture
<1>1. CASE Start
  BY <1>1 DEF Start, Reached, observedProperty
<1>2. CASE Tick
  BY <1>2 DEF Tick
<1>3. CASE AnswerPoll
  <2>1. finalized \in 0..finalized
    OBVIOUS
  <2>2. polls' \in [Polls -> 0..finalized \cup {Idle, Asked}]
    BY <1>3, <2>1 DEF AnswerPoll, observedProperty
  <2> QED
    BY <1>3, <2>2 DEF AnswerPoll
<1>4. CASE CheckHeight
  <2>1. PICK p \in Polls :
            /\ polls[p] \in Heights
            /\ polls' = [polls EXCEPT ![p] = Idle]
            /\ IF Reached(polls[p])
               THEN Settle("resolved") /\ timer' = TimerAfter
               ELSE UNCHANGED <<watch, timer>>
    BY <1>4 DEF CheckHeight
  <2>2. polls[p] <= finalized
    BY <2>1
  <2>3. polls' \in [Polls -> 0..finalized \cup {Idle, Asked}]
    BY <2>1
  <2>4. watch' \in Watches /\ timer' \in BOOLEAN
    BY <2>1 DEF Settle, TimerAfter
  <2>5. watch' = "resolved" => finalized >= Observed
    BY <2>1, <2>2 DEF Settle, Reached
  <2> QED
    BY <1>4, <2>3, <2>4, <2>5 DEF CheckHeight
<1>5. CASE RejectPoll
  BY <1>5 DEF RejectPoll, Settle
<1>6. CASE EndProcess
  BY <1>6 DEF EndProcess, Exit
<1> QED
  BY <1>1, <1>2, <1>3, <1>4, <1>5, <1>6 DEF Watch

\* The steps of captureForgingStatusAtSnapshotHeight.
LEMMA CaptureInv == ASSUME Inv, Capture PROVE Inv'
<1> USE WatchAssumption
        DEF Inv, TypeOK, Watches, Connection, ResolvesOnlyFinal, Heights, Idle,
            Asked, Done, None, node, watcher
<1>1. CASE AnswerStatus
  BY <1>1 DEF AnswerStatus
<1>2. CASE StatusRejected
  BY <1>2 DEF StatusRejected, Exit
<1>3. CASE ExportStatus
  BY <1>3 DEF ExportStatus
<1> QED
  BY <1>1, <1>2, <1>3 DEF Capture

\* The steps of the v3 node.
NodeStep == NewBlock \/ DeleteBlock \/ Finalize \/ StopV3

\* They extend, replace and finalize blocks without touching the watcher.
LEMMA NodeInv == ASSUME Inv, NodeStep PROVE Inv'
<1> USE WatchAssumption
        DEF Inv, TypeOK, Watches, Connection, ResolvesOnlyFinal, Heights, Idle,
            Asked, Done, None, watcher, capture
<1>1. CASE NewBlock
  BY <1>1 DEF NewBlock, OnNewBlock
<1>2. CASE DeleteBlock
  BY <1>2 DEF DeleteBlock
<1>3. CASE Finalize
  <2>1. finalized' = finalized + 1 /\ polls' = polls
    BY <1>3 DEF Finalize
  <2>2. 0..finalized \subseteq 0..finalized'
    BY <2>1
  <2>3. polls' \in [Polls -> 0..finalized' \cup {Idle, Asked}]
    BY <2>1, <2>2
  <2> QED
    BY <1>3, <2>3 DEF Finalize
<1>4. CASE StopV3
  BY <1>4 DEF StopV3
<1> QED
  BY <1>1, <1>2, <1>3, <1>4 DEF NodeStep

\* The invariant is inductive.
THEOREM Invariance == Spec => []Inv
<1>1. Inv /\ [Next]_vars => Inv'
  <2> SUFFICES ASSUME Inv, [Next]_vars PROVE Inv'
    OBVIOUS
  <2>1. CASE Watch
    BY <2>1, WatchInv
  <2>2. CASE Capture
    BY <2>2, CaptureInv
  <2>3. CASE NodeStep
    BY <2>3, NodeInv
  <2>4. CASE UNCHANGED vars
    BY <2>4
    DEF vars, node, watcher, capture, Inv, TypeOK, Connection, ResolvesOnlyFinal
  <2> QED
    BY <2>1, <2>2, <2>3, <2>4 DEF Next, NodeStep
<1> QED
  BY <1>1, InitInv, PTL DEF Spec

\* Every variable keeps its type, and no answer on its way is ahead of what is
\* final.
THEOREM TypeCorrect == Spec => []TypeOK
  BY Invariance, PTL DEF Inv

\* run() goes on only when the snapshot height is final.
THEOREM OnlyFinal == Spec => []ResolvesOnlyFinal
  BY Invariance, PTL DEF Inv

\* The interval is set only while the wait is open, or after a rejection, which
\* does not clear it: it is cleared before the promise is resolved.
TimerCleared == watch \notin {"waiting", "rejected"} => ~timer

\* No poll starts before the wait, once it has resolved, or after the process has
\* ended; polls that start after a rejection are all that chain.ts:126 leaves.
THEOREM PollingEnds == Spec => PollingStops
<1>1. Init => TimerCleared
  BY DEF Init, TimerCleared
<1>2. TimerCleared /\ [Next]_vars => TimerCleared'
  <2> SUFFICES ASSUME TimerCleared, [Next]_vars PROVE TimerCleared'
    OBVIOUS
  <2> USE DEF TimerCleared
  <2>1. CASE Start \/ Tick \/ AnswerPoll
    BY <2>1 DEF Start, Tick, AnswerPoll
  <2>2. CASE CheckHeight \/ RejectPoll
    BY <2>2 DEF CheckHeight, RejectPoll, Settle, TimerAfter
  <2>3. CASE EndProcess \/ StatusRejected
    BY <2>3 DEF EndProcess, StatusRejected, Exit
  <2>4. CASE AnswerStatus \/ ExportStatus \/ NodeStep
    BY <2>4 DEF AnswerStatus, ExportStatus, NodeStep, NewBlock, DeleteBlock,
       Finalize, StopV3, watcher
  <2>5. CASE UNCHANGED vars
    BY <2>5 DEF vars, watcher
  <2> QED
    BY <2>1, <2>2, <2>3, <2>4, <2>5 DEF Next, Watch, Capture, NodeStep
<1>3. ASSUME Inv, TimerCleared, [Next]_vars, NEW p \in Polls,
             polls[p] # Asked, polls'[p] = Asked
      PROVE  watch \in {"waiting", "rejected"}
  <2> USE DEF Inv, TypeOK, Asked, Idle
  <2>1. CASE Tick
    BY <1>3, <2>1 DEF Tick, TimerCleared
  <2>2. CASE AnswerPoll
    BY <1>3, <2>2 DEF AnswerPoll, observedProperty
  <2>3. CASE CheckHeight
    BY <1>3, <2>3 DEF CheckHeight
  <2>4. CASE RejectPoll
    BY <1>3, <2>4 DEF RejectPoll
  <2>5. CASE Start \/ EndProcess \/ ~Watch
    BY <1>3, <2>5
    DEF Start, EndProcess, Next, Capture, AnswerStatus, StatusRejected, ExportStatus,
        Exit, NewBlock, DeleteBlock, Finalize, StopV3, vars, watcher
  <2> QED
    BY <2>1, <2>2, <2>3, <2>4, <2>5 DEF Watch
<1>4. Inv /\ TimerCleared /\ [Next]_vars =>
          [\A p \in Polls :
               polls[p] # Asked /\ polls'[p] = Asked => watch \in {"waiting", "rejected"}]_vars
  BY <1>3
<1> QED
  BY <1>1, <1>2, <1>4, Invariance, PTL DEF Spec, PollingStops

(***************************************************************************)
(* The refinement                                                          *)
(***************************************************************************)

\* The watcher implements FinalityWait: each of its steps is one of the promise
\* or leaves it alone.
THEOREM ImplementsWait == Spec => WaitKept
<1>1. Init => Wait!Init
  BY WatchAssumption DEF Init, Wait!Init, Reached, Heights
<1>2. Inv /\ [Next]_vars => [Wait!Next]_(Wait!vars)
  <2> SUFFICES ASSUME Inv, [Next]_vars PROVE [Wait!Next]_(Wait!vars)
    OBVIOUS
  <2> USE WatchAssumption
          DEF Inv, TypeOK, Watches, Connection, ResolvesOnlyFinal, Heights,
              Wait!Next, Wait!vars, Reached
  <2>1. CASE Start
    BY <2>1 DEF Start, observedProperty, node, Wait!GoOn, Wait!GiveUp
  <2>2. CASE Tick \/ AnswerPoll
    BY <2>2 DEF Tick, AnswerPoll, node
  <2>3. CASE CheckHeight
    <3>1. PICK p \in Polls :
              /\ polls[p] \in Heights
              /\ IF Reached(polls[p]) THEN Settle("resolved") ELSE UNCHANGED watch
      BY <2>3 DEF CheckHeight
    <3>2. polls[p] <= finalized
      BY <3>1 DEF Idle, Asked
    <3> QED
      BY <2>3, <3>1, <3>2 DEF CheckHeight, Settle, node, Wait!GoOn
  <2>4. CASE RejectPoll
    BY <2>4 DEF RejectPoll, Settle, node, Wait!GiveUp
  <2>5. CASE EndProcess
    BY <2>5 DEF EndProcess, Exit, node
  <2>6. CASE AnswerStatus \/ ExportStatus
    BY <2>6 DEF AnswerStatus, ExportStatus, node, watcher
  <2>7. CASE StatusRejected
    BY <2>7 DEF StatusRejected, Exit, node, Wait!GiveUp
  <2>8. CASE NewBlock \/ DeleteBlock
    BY <2>8 DEF NewBlock, DeleteBlock, watcher
  <2>9. CASE Finalize
    BY <2>9 DEF Finalize, watcher, Wait!BecomeFinal
  <2>10. CASE StopV3
    BY <2>10 DEF StopV3, watcher, Wait!LoseNode
  <2>11. CASE UNCHANGED vars
    BY <2>11 DEF vars, node, watcher
  <2> QED
    BY <2>1, <2>2, <2>3, <2>4, <2>5, <2>6, <2>7, <2>8, <2>9, <2>10, <2>11
    DEF Next, Watch, Capture
<1> QED
  BY <1>1, <1>2, Invariance, PTL DEF Spec, WaitKept, Wait!Spec
=============================================================================
