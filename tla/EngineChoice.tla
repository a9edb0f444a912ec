---------------------------- MODULE EngineChoice ----------------------------
(***************************************************************************)
(* Which engine runs a model (sapient-models, forward/mod.rs, and the      *)
(* backend splits of llama.rs, phi.rs and backend.rs): what the binary was *)
(* compiled with, what the machine has, what the user asked for, and what  *)
(* the model is.                                                           *)
(*                                                                         *)
(* b, a binary on a machine: mac (built for macOS), arm (Apple Silicon),   *)
(* mlx and wgpu (cargo features), adapter (a usable GPU adapter), ram (0   *)
(* if unknown).  m, a model: arch, gguf, moe, headDim, layers, bytes.      *)
(***************************************************************************)
EXTENDS Integers

CONSTANTS
    Binaries, EngineModels,  \* the binaries on machines, the models
    RESERVE                  \* memory left to the OS

BackendKinds == {"cpu", "metal", "wgpu", "auto"}
Archs == {"Llama", "Qwen", "Gemma", "Mixtral", "Glm4Moe", "Phi", "Gemma3", "Other"}
LlamaFamily == {"Llama", "Qwen", "Gemma", "Mixtral", "Glm4Moe"}

ASSUME ChoiceAssumption ==
    /\ Binaries \subseteq [mac : BOOLEAN, arm : BOOLEAN, mlx : BOOLEAN, wgpu : BOOLEAN, adapter : BOOLEAN, ram : Nat]
    /\ EngineModels \subseteq [arch : Archs, gguf : BOOLEAN, moe : BOOLEAN, headDim : Nat, layers : Nat, bytes : Nat]
    /\ RESERVE \in Nat

\* An engine: where its first gpuLayers layers and where the others run.
Engine(first, gpuLayers, rest) == [first |-> first, gpuLayers |-> gpuLayers, rest |-> rest]
On(device) == Engine(device, 0, device)
Error == On("error")

\* MlxLlmOps::support: the operations of the Metal backend exist.
MlxAvailable(b) == b.mac /\ b.arm /\ b.mlx

\* WgpuContext::adapter_available, compiled in with the feature.
WgpuAvailable(b) == b.wgpu /\ b.adapter

UseMlxEngine(b, kind) == kind \in {"metal", "auto"} /\ MlxAvailable(b)

UseWgpuEngine(b, kind) == kind = "wgpu" \/ (kind = "auto" /\ WgpuAvailable(b))

\* backend_unavailable_reason gives a reason.
BackendUnavailable(b, kind) ==
    \/ kind = "metal" /\ ~MlxAvailable(b)
    \/ kind = "wgpu" /\ ~WgpuAvailable(b)

WhisperWantsWgpu(b, kind) == kind = "wgpu" \/ (kind = "auto" /\ ~UseMlxEngine(b, kind) /\ WgpuAvailable(b))

MlxSdpaSupportedHeadDim(headDim) == headDim \in {32, 64, 96, 128, 256}

Budget_(b) == IF b.ram > RESERVE THEN b.ram - RESERVE ELSE 0

MetalMemoryFits(b, bytes) == bytes = 0 \/ 3 * bytes <= 2 * Budget_(b)

\* LlmBackendDispatch::from_kind_with_model_bytes and from_kind; wgpu has no operations of its own
\* here and is the CPU.
FromKindWithModelBytes(b, kind, bytes) ==
    CASE kind \in {"cpu", "wgpu"} -> "cpu"
      [] kind = "auto" -> IF MlxAvailable(b) /\ MetalMemoryFits(b, bytes) THEN "metal" ELSE "cpu"
      [] kind = "metal" -> IF MlxAvailable(b) THEN "metal" ELSE "error"

FromKind(b, kind) == FromKindWithModelBytes(b, kind, 0)

FromKindWithHeadDim(b, kind, headDim) ==
    IF MlxAvailable(b) /\ ~MlxSdpaSupportedHeadDim(headDim) /\ kind \in {"metal", "auto"}
    THEN IF kind = "metal" THEN "error" ELSE "cpu"
    ELSE FromKind(b, kind)

\* The kind for the first layers, how many they are (0: all of them), and whether the rest is on
\* the CPU.
Split(kind, gpuLayers, fallback) == [kind |-> kind, gpuLayers |-> gpuLayers, fallback |-> fallback]

MinOf2(x, y) == IF x <= y THEN x ELSE y

\* Mutant: every layer may go to the GPU.
ComputeBackendSplit_AllLayers(b, m, kind) ==
    LET perLayer == m.bytes \div m.layers
        gpuLayers == (2 * Budget_(b)) \div (3 * perLayer)
    IN  IF kind # "auto" THEN Split(kind, 0, FALSE)
        ELSE IF ~MlxAvailable(b) THEN Split("cpu", 0, FALSE)
        ELSE IF b.ram = 0 \/ (3 * m.bytes) \div 2 <= Budget_(b) THEN Split("metal", 0, FALSE)
        ELSE IF m.layers = 0 \/ m.bytes = 0 \/ m.bytes >= b.ram THEN Split("cpu", 0, FALSE)
        ELSE IF perLayer = 0 THEN Split("metal", 0, FALSE)
        ELSE IF gpuLayers >= m.layers \div 4 THEN Split("metal", gpuLayers + 1, TRUE)
        ELSE Split("cpu", 0, FALSE)

\* compute_backend_split: on Metal if the model and half as much again fit; else as many layers as
\* fit, at least a quarter of them and never all; else on the CPU.
ComputeBackendSplit(b, m, kind) ==
    LET perLayer == m.bytes \div m.layers
        gpuLayers == MinOf2((2 * Budget_(b)) \div (3 * perLayer), m.layers - 1)
    IN  IF kind # "auto" THEN Split(kind, 0, FALSE)
        ELSE IF ~MlxAvailable(b) THEN Split("cpu", 0, FALSE)
        ELSE IF b.ram = 0 \/ (3 * m.bytes) \div 2 <= Budget_(b) THEN Split("metal", 0, FALSE)
        ELSE IF m.layers = 0 \/ m.bytes = 0 \/ m.bytes >= b.ram THEN Split("cpu", 0, FALSE)
        ELSE IF perLayer = 0 THEN Split("metal", 0, FALSE)
        ELSE IF gpuLayers >= m.layers \div 4 THEN Split("metal", gpuLayers, TRUE)
        ELSE Split("cpu", 0, FALSE)

\* compute_phi_backend_split: never Metal for a head without a shader, unless asked for (an error
\* later); the same split otherwise, but a layer of no bytes goes to the CPU.
ComputePhiBackendSplit(b, m, kind) ==
    LET tiny == m.layers > 0 /\ m.bytes > 0 /\ m.bytes < b.ram /\ m.bytes \div m.layers = 0
    IN  IF kind = "cpu" THEN Split("cpu", 0, FALSE)
        ELSE IF MlxAvailable(b) /\ ~MlxSdpaSupportedHeadDim(m.headDim)
             THEN Split(IF kind = "metal" THEN "metal" ELSE "cpu", 0, FALSE)
        ELSE IF kind = "auto" /\ tiny /\ (3 * m.bytes) \div 2 > Budget_(b) THEN Split("cpu", 0, FALSE)
        ELSE ComputeBackendSplit(b, m, kind)

\* A dispatch built for a split: with no layers of its own the GPU has all of them.
Build(device, split) ==
    IF device = "error" THEN Error
    ELSE IF split.fallback /\ split.gpuLayers > 0 THEN Engine(device, split.gpuLayers, "cpu") ELSE On(device)

LlamaForward(b, m, kind) ==
    LET s == ComputeBackendSplit(b, m, kind) IN Build(FromKind(b, s.kind), s)

PhiForward(b, m, kind) ==
    LET s == ComputePhiBackendSplit(b, m, kind) IN Build(FromKindWithHeadDim(b, s.kind, m.headDim), s)

\* build_wgpu_from_weights and WgpuForwardEngine::from_weights: the dense Llama family only, and an
\* adapter is needed.
BuildWgpu(b, m) ==
    IF WgpuAvailable(b) /\ m.arch \in {"Llama", "Qwen", "Mixtral"} THEN On("wgpu") ELSE Error

BuildMoeCpu(b, m, kind) ==
    IF kind \in {"metal", "wgpu"} THEN Error ELSE LlamaForward(b, m, "cpu")

\* from_gguf_weights: MLX's own engine first, then wgpu, then the CPU engine.
FromGgufWeights(b, m, kind) ==
    CASE m.arch \in LlamaFamily /\ m.moe -> BuildMoeCpu(b, m, kind)
      [] m.arch \in LlamaFamily /\ ~m.moe /\ UseMlxEngine(b, kind) -> On("mlx")
      [] m.arch \in LlamaFamily /\ ~m.moe /\ ~UseMlxEngine(b, kind) /\ UseWgpuEngine(b, kind) -> BuildWgpu(b, m)
      [] m.arch \in LlamaFamily /\ ~m.moe /\ ~UseMlxEngine(b, kind) /\ ~UseWgpuEngine(b, kind) -> LlamaForward(b, m, kind)
      [] m.arch = "Phi" -> PhiForward(b, m, kind)
      [] OTHER -> Error

\* from_weight_paths_with_backend; Gemma 3 takes no notice of the kind.
FromWeightPaths(b, m, kind) ==
    CASE m.gguf -> FromGgufWeights(b, m, kind)
      [] ~m.gguf /\ m.arch \in LlamaFamily ->
            IF m.moe THEN BuildMoeCpu(b, m, kind)
            ELSE IF UseWgpuEngine(b, kind) /\ ~UseMlxEngine(b, kind) THEN BuildWgpu(b, m) ELSE LlamaForward(b, m, kind)
      [] ~m.gguf /\ m.arch = "Phi" -> PhiForward(b, m, kind)
      [] ~m.gguf /\ m.arch = "Gemma3" -> On("cpu")
      [] OTHER -> Error

-----------------------------------------------------------------------------
(* What running a model as asked means.                                    *)

\* What is asked of Phi on wgpu and of Gemma 3 on any GPU is done on the CPU without a word.
Degrades(m, asked) == (m.arch = "Phi" /\ asked = "wgpu") \/ (m.arch = "Gemma3" /\ ~m.gguf)

\* Dense models that a GPU build sends to an engine that refuses them.
Misrouted(b, m) == m.arch \in {"Gemma", "Glm4Moe"} /\ ~m.moe /\ WgpuAvailable(b) /\ ~MlxAvailable(b)

Loadable(m) == m.arch \notin {"Other"} /\ (m.arch = "Gemma3" => ~m.gguf)

\* With asked, the machine does this or says that it cannot.
RunsAsAsked(b, m, asked) ==
    LET e == FromWeightPaths(b, m, asked)
    IN  /\ e.gpuLayers > 0 => e.first = "metal" /\ e.rest = "cpu" /\ e.gpuLayers < m.layers
        /\ e.gpuLayers > 0 => 3 * e.gpuLayers * (m.bytes \div m.layers) <= 2 * (b.ram - RESERVE)
        /\ asked = "cpu" => e = IF Loadable(m) THEN On("cpu") ELSE Error
        /\ asked = "metal" => e.first \in {"metal", "mlx", "error"} \/ Degrades(m, asked)
        /\ asked = "wgpu" => e.first \in {"wgpu", "error"} \/ Degrades(m, asked)
        /\ BackendUnavailable(b, asked) => e = Error \/ Degrades(m, asked)
        /\ asked = "auto" /\ Loadable(m) => (e = Error <=> Misrouted(b, m))
        /\ m.moe /\ m.arch \in LlamaFamily => e \in {On("cpu"), Error}
        /\ m.arch = "Phi" /\ ~MlxSdpaSupportedHeadDim(m.headDim) => e.first # "metal"
        /\ WhisperWantsWgpu(b, asked) => asked = "wgpu" \/ WgpuAvailable(b)

-----------------------------------------------------------------------------
(* The operations of the Metal backend (backend.rs).                       *)

\* What MLX refuses: attention with shared key/value heads, and rotary positions with a gap; MLX
\* itself may fail, and an operation can be disabled by the environment.
MlxRefuses(op, heads, kvHeads, positions) ==
    \/ op = "gqa_attention" /\ heads # kvHeads
    \/ op = "rope" /\ (positions = <<>> \/ \E i \in DOMAIN positions : positions[i] # positions[1] + (i - 1))

\* Every operation that is disabled, refused or fails is done by the CPU backend.
MetalOp(op, heads, kvHeads, positions, disabled, fails, onMlx, onCpu) ==
    IF disabled \/ fails \/ MlxRefuses(op, heads, kvHeads, positions) THEN onCpu ELSE onMlx

\* The positions MLX turns a sequence by: its first and on from there.
MlxRope(positions) == [i \in DOMAIN positions |-> positions[1] + (i - 1)]

\* The keys query qi attends to: a mask only if there is more than one query.
MlxVisible(seqQ, seqK, qi) ==
    LET offset == IF seqK > seqQ THEN seqK - seqQ ELSE 0
    IN  {ki \in 0 .. seqK - 1 : seqQ > 1 => ~(ki > qi + offset)}

\* to_array_uncached of a view [heads, live, hd] of a buffer [heads, room, hd] takes the first
\* elements of the buffer.
MlxViewReads(heads, live, hd) == 0 .. (heads * live * hd) - 1
ViewIs(heads, live, room, hd) == {((h * room) + s) * hd + d : h \in 0 .. heads - 1, s \in 0 .. live - 1, d \in 0 .. hd - 1}

\* A cache whose head is whole blocks is kept packed and read back as a contiguous copy.
CacheIsPacked(headDim) == headDim % 32 = 0
=============================================================================
