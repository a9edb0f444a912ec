----------------------------- MODULE MCVlaAsync -----------------------------
(***************************************************************************)
(* VlaAsync on two instances, one picked by each initial state: the        *)
(* automatic threshold with latencies of up to half a chunk (the constants *)
(* of the configuration), and a fixed threshold with latencies of up to    *)
(* five ticks, failing and panicking policies.                             *)
(***************************************************************************)
EXTENDS VlaAsync

VARIABLE threshold

Fixed == INSTANCE VlaAsync WITH
             ChunkLen <- 3, AutoAhead <- FALSE, FixedTrigger <- 3, MinLatency <- 0, MaxLatency <- 5,
             MayFail <- TRUE, MayPanic <- TRUE, MaxSteps <- 5, MaxRequests <- 5

bothVars == <<vars, threshold>>

BothInit == Init /\ threshold \in {"auto", "fixed"}

AutoNext  == threshold = "auto" /\ Next /\ UNCHANGED threshold
FixedNext == threshold = "fixed" /\ Fixed!Next /\ UNCHANGED threshold

BothNext == AutoNext \/ FixedNext

BothSpec ==
    /\ BothInit /\ [][BothNext]_bothVars
    /\ WF_bothVars(threshold = "auto" /\ Tick /\ UNCHANGED threshold)
    /\ WF_bothVars(threshold = "auto" /\ Worker /\ UNCHANGED threshold)
    /\ WF_bothVars(threshold = "auto" /\ Join /\ UNCHANGED threshold)
    /\ WF_bothVars(threshold = "fixed" /\ Fixed!Tick /\ UNCHANGED threshold)
    /\ WF_bothVars(threshold = "fixed" /\ Fixed!Worker /\ UNCHANGED threshold)
    /\ WF_bothVars(threshold = "fixed" /\ Fixed!Join /\ UNCHANGED threshold)

\* With Threshold::Auto and latencies of up to half a chunk the robot never stalls after its
\* first chunk (NeverStalls); with a fixed one it may.
AutoNeverStalls == threshold = "auto" => NeverStalls

\* With either it never stops for good, whatever fails now and then (KeepsMoving): pending is
\* not left behind by a failed observation or inference.
RobotKeepsMoving == (threshold = "auto" => KeepsMoving) /\ (threshold = "fixed" => Fixed!KeepsMoving)
=============================================================================
