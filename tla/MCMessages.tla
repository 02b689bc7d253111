----------------------------- MODULE MCMessages -----------------------------
(***************************************************************************)
(* The parts that move messages and the pool that moves jobs to threads,   *)
(* each checked on its own small instance in one run: `part` picks the     *)
(* component of a behaviour, and the variables of the others stay at their *)
(* initial values, where their properties hold.                            *)
(***************************************************************************)
EXTENDS EventDelivery, IpcBus, TraceCapture, TraceStream, WireCodec, ThreadManager

CONSTANT Part  \* the components to check

VARIABLE part

mcVars == <<part, vars, ipcVars, captureVars, streamVars, codecVars, poolVars>>

\* A component that is not picked has one initial state, out of its several.
MCInit ==
    /\ part \in Part
    /\ Init /\ (part # "delivery" => kind = "sync" /\ ~resilient)
    /\ IpcInit
    /\ CaptureInit /\ (part # "capture" => ~tracing)
    /\ StreamInit /\ (part # "stream" => \A c \in Clients : client[c].command = "attach")
    /\ CodecInit
    /\ PoolInit

MCNext ==
    /\ UNCHANGED part
    /\ IF part = "delivery" THEN Next        ELSE UNCHANGED vars
    /\ IF part = "ipc"      THEN IpcNext     ELSE UNCHANGED ipcVars
    /\ IF part = "capture"  THEN CaptureNext ELSE UNCHANGED captureVars
    /\ IF part = "stream"   THEN StreamNext  ELSE UNCHANGED streamVars
    /\ IF part = "wire"     THEN CodecNext   ELSE UNCHANGED codecVars
    /\ IF part = "pool"     THEN PoolNext    ELSE UNCHANGED poolVars

MCSpec == MCInit /\ [][MCNext]_mcVars /\ Fairness /\ PoolFairness
=============================================================================
