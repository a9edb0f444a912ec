----------------------------- MODULE Components -----------------------------
(***************************************************************************)
(* The components that share no state with one another, side by side: the  *)
(* initial state picks one, and only that one takes steps.  Part "kernels" *)
(* takes none: the plans and kernels of the matmuls and the other pure     *)
(* algorithms are evaluated in it.                                         *)
(***************************************************************************)
EXTENDS MCModelServer, Executor, Converse, ChatSession, ServeLock, Thermal, BufferPool,
        WorkgroupReduce, MatmulPlan, EngineChoice, ForwardEngines, ModelHub, SelfUpdate

VARIABLE part

serverVars == vars
allVars == <<part, serverVars, exVars, cvVars, csVars, lockVars, thVars, poolVars, redVars, feVars, hubVars, upVars>>

Parts == {"server", "executor", "converse", "session", "lock", "thermal", "pool", "reduce", "engine", "hub",
          "update", "kernels"}

\* What a component may choose initially is fixed unless it is the one picked.
AllInit ==
    /\ part \in Parts
    /\ Init /\ (part # "server" => /\ kind = [r \in Requests |-> "audio"]
                                  /\ model = [r \in Requests |-> small])
    /\ ExInit /\ (part # "executor" => scheduler = "static")
    /\ RedInit /\ (part # "reduce" => kernel = "rms_norm")
    /\ FeInit /\ (part # "engine" => engine_ = "llama")
    /\ HubInit /\ (part # "hub" => format = "gguf")
    /\ UpInit /\ (part # "update" => /\ machine = [os |-> "unix", gpu |-> FALSE]
                                    /\ exe = Binary(Latest, "Cpu"))
    /\ CvInit /\ CsInit /\ LockInit /\ ThInit /\ PoolInit

Server == /\ part = "server"
          /\ Next
          /\ UNCHANGED <<part, exVars, cvVars, csVars, lockVars, thVars, poolVars, redVars, feVars, hubVars, upVars>>
ServerStep(r) == /\ part = "server"
                 /\ Serve(r)
                 /\ UNCHANGED <<part, exVars, cvVars, csVars, lockVars, thVars, poolVars, redVars, feVars, hubVars, upVars>>

ExOthers == UNCHANGED <<part, serverVars, cvVars, csVars, lockVars, thVars, poolVars, redVars, feVars, hubVars, upVars>>
CvOthers == UNCHANGED <<part, serverVars, exVars, csVars, lockVars, thVars, poolVars, redVars, feVars, hubVars, upVars>>

Batches == part = "executor" /\ ExNext /\ ExOthers
Talks   == part = "converse" /\ CvNext /\ CvOthers

Sessions == /\ part = "session" /\ CsNext
            /\ UNCHANGED <<part, serverVars, exVars, cvVars, lockVars, thVars, poolVars, redVars, feVars, hubVars, upVars>>
Locks    == /\ part = "lock" /\ LockNext
            /\ UNCHANGED <<part, serverVars, exVars, cvVars, csVars, thVars, poolVars, redVars, feVars, hubVars, upVars>>
Governs  == /\ part = "thermal" /\ ThNext
            /\ UNCHANGED <<part, serverVars, exVars, cvVars, csVars, lockVars, poolVars, redVars, feVars, hubVars, upVars>>
Pools    == /\ part = "pool" /\ PoolNext
            /\ UNCHANGED <<part, serverVars, exVars, cvVars, csVars, lockVars, thVars, redVars, feVars, hubVars, upVars>>
Reduces  == /\ part = "reduce" /\ RedNext
            /\ UNCHANGED <<part, serverVars, exVars, cvVars, csVars, lockVars, thVars, poolVars, feVars, hubVars, upVars>>

Infers   == /\ part = "engine" /\ FeNext
            /\ UNCHANGED <<part, serverVars, exVars, cvVars, csVars, lockVars, thVars, poolVars, redVars, hubVars, upVars>>

HubOthers == UNCHANGED <<part, serverVars, exVars, cvVars, csVars, lockVars, thVars, poolVars, redVars, feVars, upVars>>

Loads    == part = "hub" /\ HubNext /\ HubOthers
Updates  == /\ part = "update" /\ UpNext
            /\ UNCHANGED <<part, serverVars, exVars, cvVars, csVars, lockVars, thVars, poolVars, redVars, feVars, hubVars>>

\* Where a component has come to its end; anywhere else, being stuck is an error.
Finished ==
    CASE part = "executor" -> epc = "done" /\ ~open
      [] part = "converse" -> cvPc \in {"ok", "err"} /\ WorkerGone
      [] part = "session"  -> /\ \A t \in Turns : turnPc[t] \in {"committed", "failed"}
                              /\ engine = NoTurn /\ resets = RESETS /\ ~resetting
      [] part = "lock"     -> \A s \in Servers : server[s] \in {"refused", "exited"}
      [] part = "reduce"   -> RedDone
      [] part = "update"   -> up.pc \in Ended
      [] part = "kernels"  -> TRUE
      [] OTHER             -> FALSE

Stay == Finished /\ UNCHANGED allVars

AllNext ==
    Server \/ Batches \/ Talks \/ Sessions \/ Locks \/ Governs \/ Pools \/ Reduces \/ Infers \/ Loads \/ Updates \/ Stay

\* The fairness of FairSpec, ExFairness, CvFairness and HubFairness.
AllFairness ==
    /\ \A r \in Requests : WF_allVars(ServerStep(r))
    /\ WF_allVars(part = "executor" /\ RunAsync /\ ExOthers)
    /\ WF_allVars(part = "executor" /\ Elapse /\ ExOthers)
    /\ WF_allVars(part = "converse" /\ WorkerStep /\ CvOthers)
    /\ WF_allVars(part = "converse" /\ CvStep /\ CvOthers)
    /\ \A p \in Loaders : WF_allVars(part = "hub" /\ LoaderStep(p) /\ HubOthers)

AllSpec == AllInit /\ [][AllNext]_allVars /\ AllFairness

-----------------------------------------------------------------------------
(* Liveness of the component that runs.                                    *)

\* Every request of the model server ends, also when clients disconnect; a spoken turn ends, also
\* when the synthesizer fails or panics; and a load ends with the files or an error, also when
\* the Hub is lost or the cache swept.
EveryoneIsAnswered ==
    /\ part = "server" => EveryRequestEnds
    /\ part = "converse" => TurnEnds
    /\ part = "hub" => LoadEnds

-----------------------------------------------------------------------------
(* The pure components that need no values to compute with.                *)

\* However an output is divided among tasks, chunks, groups of rows, panels and tiles, with
\* leftovers of every kind, each cell is written by one task, once, from its own two rows: the
\* tasks share the output through unsynchronised pointers.
PlansWriteEachCellOnce == part = "kernels" => \A c \in MatmulCalls : CallWritesOnce(c)

\* The machine runs what was asked for or says that it cannot: the CPU always works, an explicit
\* GPU is used or refused, a backend reported unavailable is, and Auto finds an engine (but where
\* it Degrades or is Misrouted); experts stay on the CPU, Phi never meets a missing shader, and the
\* layers a split leaves on the GPU fit beside the reserve.
EngineIsAsAsked ==
    part = "kernels" => \A b \in Binaries, m \in EngineModels, asked \in BackendKinds : RunsAsAsked(b, m, asked)
=============================================================================
