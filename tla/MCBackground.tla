---------------------------- MODULE MCBackground ----------------------------
(***************************************************************************)
(* What goes on by itself, each part explored by itself: the panel's       *)
(* monitor and its subscriptions, the delivery of a configuration, and on  *)
(* Windows the service, the updater and the packet capture.  `part' says   *)
(* which one moves; the others keep a state in which nothing is due.       *)
(***************************************************************************)
EXTENDS Observatory, SubscriptionRefresh, Updater, PipeService, ConfigDelivery, PacketCapture

VARIABLE part

backgroundVars ==
    <<obsVars, feedVars, updateVars, pipeVars, deliveryVars, captureVars, part>>

\* The kind of alert that is followed: none while traffic is counted, one of a device or
\* of a node otherwise.
Followed ==
    CASE part = "watch" -> {"config_drift"}
      [] part = "probe" -> {"node_probe_stale"}
      [] OTHER          -> {}

BackgroundInit ==
    /\ part \in {"history", "watch", "probe", "feeds", "update", "pipe", "delivery", "capture"}
    /\ ObsInit(Followed)
    /\ FeedInit
    /\ UpdateInit /\ (part # "update" => machine.data = Original)
    /\ PipeInit
    /\ DeliveryInit /\ (part # "delivery" => \E p \in Profiles : profiles[p] = NoProfile)
    /\ CaptureInit /\ (part # "capture" => ~remove)

ObsMoves ==
    /\ \/ part \in {"history", "watch", "probe"} /\ MonitorStep
       \/ part = "history" /\ HistoryStep
       \/ part = "watch" /\ WatchStep
       \/ part = "probe" /\ ProbeStep
    /\ UNCHANGED <<feedVars, updateVars, pipeVars, deliveryVars, captureVars, part>>
FeedMoves ==
    /\ part = "feeds" /\ FeedNext
    /\ UNCHANGED <<obsVars, updateVars, pipeVars, deliveryVars, captureVars, part>>
UpdateMoves ==
    /\ part = "update" /\ UpdateNext
    /\ UNCHANGED <<obsVars, feedVars, pipeVars, deliveryVars, captureVars, part>>
PipeMoves ==
    /\ part = "pipe" /\ PipeNext
    /\ UNCHANGED <<obsVars, feedVars, updateVars, deliveryVars, captureVars, part>>
DeliveryMoves ==
    /\ part = "delivery" /\ DeliveryNext
    /\ UNCHANGED <<obsVars, feedVars, updateVars, pipeVars, captureVars, part>>
CaptureMoves ==
    /\ part = "capture" /\ CaptureNext
    /\ UNCHANGED <<obsVars, feedVars, updateVars, pipeVars, deliveryVars, part>>

BackgroundNext ==
    ObsMoves \/ FeedMoves \/ UpdateMoves \/ PipeMoves \/ DeliveryMoves \/ CaptureMoves

\* The fairness of the monitor and of the service, while one of them moves.
BackgroundFairness ==
    /\ WF_obsVars(part \in {"history", "watch", "probe"} /\ Evaluate)
    /\ WF_pipeVars(part = "pipe" /\ MainStep) /\ WF_pipeVars(part = "pipe" /\ ServiceControl)
    /\ \A w \in PipeWorkers : WF_pipeVars(part = "pipe" /\ WorkerStep(w))

BackgroundSpec == BackgroundInit /\ [][BackgroundNext]_backgroundVars /\ BackgroundFairness
=============================================================================
