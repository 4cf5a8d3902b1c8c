----------------------------- MODULE MCEventBus -----------------------------
(* A small instance of EventBus for TLC.                                    *)
EXTENDS EventBus, TLC
CONSTANTS inbox, toasts, engine, jobs, worker
MCTopicOf == inbox :> "state" @@ engine :> "state" @@ jobs :> "state"
             @@ toasts :> "message" @@ worker :> "message"
MCEvents == engine :> 2 @@ jobs :> 1 @@ worker :> 3
=============================================================================
