---------------------------- MODULE SnapshotWatch ----------------------------
(***************************************************************************)
(* Waiting for the snapshot: observeChainHeight (src/utils/chain.ts) polls *)
(* the v3 node on a timer until the snapshot height is final, while the    *)
(* handler of captureForgingStatusAtSnapshotHeight (src/events.ts) waits   *)
(* for the block at that height and asks for the forging status.  Requests *)
(* are asynchronous: the timer does not wait for the poll before, and the  *)
(* chain moves on, or back, while an answer is on its way.                 *)
(***************************************************************************)
EXTENDS Integers, FiniteSets

CONSTANTS
    MaxHeight,    \* bound: the last height the chain reaches
    Observed,     \* the snapshot height
    Polls,        \* bound: the polls under way at a time
    Handlers      \* bound: how often a block at the snapshot height is seen

ASSUME WatchAssumption ==
    /\ MaxHeight \in Nat
    /\ Observed \in 1..MaxHeight

Heights == 0..MaxHeight
Idle    == -1   \* no call
Asked   == -2   \* a request on its way, or being answered
Done    == -3   \* a handler that has come to its end
None    == -4   \* no status in the file

VARIABLES
    nodeUp, height, finalized,
    connected,   \* the client's connection
    watch,       \* where the wait is: see Watches
    timer,       \* the interval is set
    polls,       \* of each poll: Idle, Asked or the height in its answer
    handlers,    \* of each handler: Idle, Asked, the height answered at, or Done
    exported     \* the height that the status in forgingStatus.json is of

node    == <<nodeUp, height, finalized>>
watcher == <<watch, timer, polls>>
capture == <<handlers, exported>>
vars    == <<node, connected, watcher, capture>>

\* The process ends by the outer catch ("ended"), or because nobody handles a
\* rejection ("died").
Watches == {"start", "waiting", "resolved", "rejected", "ended", "died"}

TypeOK ==
    /\ nodeUp \in BOOLEAN /\ height \in Heights /\ finalized \in 0..height
    /\ connected \in BOOLEAN
    /\ watch \in Watches
    /\ timer \in BOOLEAN
    /\ polls \in [Polls -> 0..finalized \cup {Idle, Asked}]
    /\ handlers \in [Handlers -> Heights \cup {Idle, Asked, Done}]
    /\ exported \in Heights \cup {None}

\* run() has connected and subscribed.
Init ==
    /\ nodeUp = TRUE /\ height \in Heights /\ finalized \in 0..height
    /\ connected = TRUE
    /\ watch = "start" /\ timer = FALSE /\ polls = [p \in Polls |-> Idle]
    /\ handlers = [h \in Handlers |-> Idle] /\ exported = None

(***************************************************************************)
(* observeChainHeight with isFinal                                         *)
(***************************************************************************)
\* Mutant: the height that may be reverted.
observedProperty_Height == height

observedProperty == finalized

Reached(h) == h >= Observed

\* The first getNodeInfo decides whether there is anything to wait for.
Start ==
    /\ watch = "start"
    /\ IF ~connected
       THEN watch' = "rejected" /\ UNCHANGED timer
       ELSE IF Reached(observedProperty)
            THEN watch' = "resolved" /\ UNCHANGED timer
            ELSE watch' = "waiting" /\ timer' = TRUE
    /\ UNCHANGED <<node, connected, polls, capture>>

\* The timer fires; nothing says that the poll before has been answered.
Tick ==
    /\ timer
    /\ \E p \in Polls : polls[p] = Idle /\ polls' = [polls EXCEPT ![p] = Asked]
    /\ UNCHANGED <<node, connected, watch, timer, capture>>

\* The node answers; the answer is read some time later, in any order.
AnswerPoll ==
    /\ connected
    /\ \E p \in Polls :
           polls[p] = Asked /\ polls' = [polls EXCEPT ![p] = observedProperty]
    /\ UNCHANGED <<node, connected, watch, timer, capture>>

\* Mutants: a promise that any later answer settles again; a rejection that is
\* only logged.
Settle_Twice(outcome) == watch' = outcome
Settle_Resolved(outcome) ==
    watch' = IF watch = "waiting" /\ outcome = "resolved" THEN outcome ELSE watch

\* A promise is settled once.
Settle(outcome) == watch' = IF watch = "waiting" THEN outcome ELSE watch

\* Mutant: the interval goes on.
TimerAfter_Kept == timer

TimerAfter == FALSE

CheckHeight ==
    /\ \E p \in Polls :
           /\ polls[p] \in Heights
           /\ polls' = [polls EXCEPT ![p] = Idle]
           /\ IF Reached(polls[p])
              THEN Settle("resolved") /\ timer' = TimerAfter
              ELSE UNCHANGED <<watch, timer>>
    /\ UNCHANGED <<node, connected, capture>>

\* A call on a lost connection is rejected; the interval goes on.
RejectPoll ==
    /\ ~connected
    /\ \E p \in Polls :
           polls[p] = Asked /\ polls' = [polls EXCEPT ![p] = Idle]
    /\ Settle("rejected")
    /\ UNCHANGED <<node, connected, timer, capture>>

\* What is on its way is lost with the process.
Exit ==
    /\ timer' = FALSE
    /\ polls' = [p \in Polls |-> Idle]
    /\ handlers' = [h \in Handlers |-> Done]
    /\ UNCHANGED <<node, connected, exported>>

\* The outer catch of run().
EndProcess ==
    /\ watch = "rejected"
    /\ watch' = "ended"
    /\ Exit

(***************************************************************************)
(* captureForgingStatusAtSnapshotHeight                                    *)
(***************************************************************************)
\* Each block at the snapshot height starts a handler, which asks for the
\* status at once.
OnNewBlock(h) ==
    IF connected /\ h = Observed /\ watch \notin {"ended", "died"}
    THEN \E e \in Handlers :
             handlers[e] = Idle /\ handlers' = [handlers EXCEPT ![e] = Asked]
    ELSE UNCHANGED handlers

AnswerStatus ==
    /\ connected
    /\ \E e \in Handlers :
           handlers[e] = Asked /\ handlers' = [handlers EXCEPT ![e] = height]
    /\ UNCHANGED <<node, connected, watcher, exported>>

\* The call is outside the handler's try, and nobody awaits the handler: Node
\* ends the process.  A wait that is resolved stays so; run() is further on.
StatusRejected ==
    /\ ~connected
    /\ \E e \in Handlers : handlers[e] = Asked
    /\ watch' = IF watch = "resolved" THEN watch ELSE "died"
    /\ Exit

\* The status is written, or logged when the disk refuses it.
ExportStatus ==
    /\ \E e \in Handlers :
           /\ handlers[e] \in Heights
           /\ handlers' = [handlers EXCEPT ![e] = Done]
           /\ exported' \in {exported, handlers[e]}
    /\ UNCHANGED <<node, connected, watcher>>

(***************************************************************************)
(* The v3 node                                                             *)
(***************************************************************************)
NewBlock ==
    /\ nodeUp /\ height < MaxHeight
    /\ height' = height + 1
    /\ OnNewBlock(height + 1)
    /\ UNCHANGED <<nodeUp, finalized, connected, watcher, exported>>

\* A block that is not final may be replaced by another chain's; the bound on
\* handlers is here, so that the chain always gets on.
DeleteBlock ==
    /\ nodeUp /\ height > finalized
    /\ height = Observed => \E e \in Handlers : handlers[e] = Idle
    /\ height' = height - 1
    /\ UNCHANGED <<nodeUp, finalized, connected, watcher, capture>>

Finalize ==
    /\ nodeUp /\ finalized < height
    /\ finalized' = finalized + 1
    /\ UNCHANGED <<nodeUp, height, connected, watcher, capture>>

StopV3 ==
    /\ nodeUp
    /\ nodeUp' = FALSE /\ connected' = FALSE
    /\ UNCHANGED <<height, finalized, watcher, capture>>

Watch   == Start \/ Tick \/ AnswerPoll \/ CheckHeight \/ RejectPoll \/ EndProcess
Capture == AnswerStatus \/ StatusRejected \/ ExportStatus

Next == Watch \/ Capture \/ NewBlock \/ DeleteBlock \/ Finalize \/ StopV3

Spec == Init /\ [][Next]_vars

\* The timer fires, answers arrive and are read; the chain grows in spite of
\* the blocks it replaces, and becomes final.
FairSpec ==
    /\ Spec
    /\ WF_vars(Start) /\ WF_vars(Tick) /\ WF_vars(EndProcess)
    /\ WF_vars(AnswerPoll) /\ WF_vars(CheckHeight) /\ WF_vars(RejectPoll)
    /\ SF_vars(NewBlock) /\ SF_vars(Finalize)

(***************************************************************************)
(* Properties                                                              *)
(***************************************************************************)
\* run() goes on only when the snapshot height is final: no answer, however
\* late and whatever blocks were replaced, lets it read a snapshot that the
\* chain may still leave.
ResolvesOnlyFinal == watch = "resolved" => finalized >= Observed

\* A poll starts only while the wait is open, or after it was rejected, when the
\* interval goes on until the process ends (chain.ts:126): never once the wait has
\* resolved and run() is further on, whatever answers are late, and never after
\* the end of the process.
PollingStops ==
    [][\A p \in Polls :
           polls[p] # Asked /\ polls'[p] = Asked => watch \in {"waiting", "rejected"}]_vars

\* The wait ends: with the snapshot height final, or with the node and then the
\* process gone, be it by the catch of run() or by a handler nobody awaits.
WatchEnds == <>(watch \in {"resolved", "ended", "died"})

\* The watcher implements FinalityWait: it goes on only on a final height, gives
\* up only without a node, and does each at most once, whatever answers are late.
Wait == INSTANCE FinalityWait WITH
            final   <- Reached(finalized),
            up      <- nodeUp,
            outcome <- CASE watch = "resolved"           -> "final"
                         [] watch \in {"start", "waiting"} -> "none"
                         [] OTHER                        -> "lost"
WaitKept == Wait!Spec
=============================================================================
