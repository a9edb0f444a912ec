------------------------------- MODULE IrGraph -------------------------------
(***************************************************************************)
(* The compute graph of sapient-ir: its construction, the topological      *)
(* order, shape inference, the passes, its execution on the CPU backend,   *)
(* and its import from ONNX.  A node is known by its place in the list.    *)
(***************************************************************************)
EXTENDS CpuTensors
LOCAL INSTANCE SequencesExt
LOCAL INSTANCE FiniteSetsExt

\* A node has the fields of every kind of node; source is an output's, value a constant's.
Blank == [is |-> "input", op |-> [name |-> "none"], inputs |-> <<>>, value |-> Failed, shape |-> Unknown]

NewGraph == [nodes |-> <<>>, edges |-> <<>>, inputs |-> <<>>, outputs |-> <<>>]
LastId(g) == Len(g.nodes)

AddInput(g, shape) ==
    [g EXCEPT !.nodes = Append(@, [Blank EXCEPT !.shape = shape]), !.inputs = Append(@, LastId(g) + 1)]
AddConstant(g, value) ==
    [g EXCEPT !.nodes = Append(@, [Blank EXCEPT !.is = "constant", !.value = value])]
AddOp(g, op, inputs) ==
    [g EXCEPT !.nodes = Append(@, [Blank EXCEPT !.is = "operator", !.op = op, !.inputs = inputs]),
              !.edges = @ \o [i \in DOMAIN inputs |-> <<inputs[i], LastId(g) + 1>>]]

\* The output is a node of its own, with a source but without an edge.
MarkOutput(g, source) ==
    [g EXCEPT !.nodes = Append(@, [Blank EXCEPT !.is = "output", !.inputs = <<source>>]),
              !.outputs = Append(@, LastId(g) + 1)]

-----------------------------------------------------------------------------
(* The topological order (Kahn).                                           *)

InDegree(g) == [id \in DOMAIN g.nodes |-> Cardinality({e \in DOMAIN g.edges : g.edges[e][2] = id})]
Successors(g, id) ==
    LET of == SelectSeq(g.edges, LAMBDA e : e[1] = id) IN [i \in DOMAIN of |-> of[i][2]]

\* The nodes that start the queue, in the order in which a hash map yields them.
SourceOrders(g) == LET degree == InDegree(g) IN SetToSeqs({id \in DOMAIN g.nodes : degree[id] = 0})

Relax(s, succ) ==
    [s EXCEPT !.degree[succ] = @ - 1, !.queue = IF s.degree[succ] = 1 THEN Append(@, succ) ELSE @]

Visit(g, s) ==
    IF s.queue = <<>> THEN s
    ELSE FoldLeft(Relax, [s EXCEPT !.queue = Tail(@), !.order = Append(@, Head(s.queue))],
                  Successors(g, Head(s.queue)))

NoOrder == <<0>>

\* From the sources in their order; an error if a cycle leaves nodes behind.
TopologicalOrder(g, sources) ==
    LET end == FoldLeft(LAMBDA s, i : Visit(g, s), [queue |-> sources, degree |-> InDegree(g), order |-> <<>>],
                        g.nodes)
    IN  IF Len(end.order) = Len(g.nodes) THEN end.order ELSE NoOrder

Orders(g) == {TopologicalOrder(g, first) : first \in SourceOrders(g)}

-----------------------------------------------------------------------------
(* Shape inference.                                                        *)

SameShapeOps == {"Identity", "Relu", "Softmax", "LogSoftmax", "LayerNorm", "RmsNorm"}
BroadcastOps == {"Add", "Sub", "Mul", "Div"}
ReduceOps == {"ReduceSum", "ReduceMean", "ReduceMax"}

InferMatmulShape(a, b) ==
    LET ra == Len(a)
        rb == Len(b)
        lead == BroadcastWith(SubSeq(a, 1, ra - 2), SubSeq(b, 1, rb - 2))
    IN  IF ra < 2 \/ rb < 2 THEN Unknown
        ELSE IF ra = 2 /\ rb = 2 THEN IF a[2] = b[1] THEN <<a[1], b[2]>> ELSE Unknown
        ELSE IF lead = Unknown THEN Unknown
        ELSE lead \o <<a[ra - 1], b[rb]>>

InferGemmShape(op, a, b) ==
    IF Len(a) = 2 /\ Len(b) = 2
    THEN <<a[IF op.transA THEN 2 ELSE 1], b[IF op.transB THEN 1 ELSE 2]>>
    ELSE Unknown

\* The kernel's size is the attribute's, and dilations are not looked at.
InferConvShape(op, x, w) ==
    IF Len(x) # 4 \/ Len(w) # 4 THEN Unknown
    ELSE <<x[1], w[1],
           (x[3] + op.pads[1] + op.pads[3] - op.kernel[1]) \div op.strides[1] + 1,
           (x[4] + op.pads[2] + op.pads[4] - op.kernel[2]) \div op.strides[2] + 1>>

InferFlattenShape(op, x) ==
    LET ax == NormaliseAxis(op.axis, Len(x))
    IN  <<Numel(SubSeq(x, 1, ax - 1)), Numel(SubSeq(x, ax, Len(x)))>>

InferConcatShape(op, known) ==
    LET ax == NormaliseAxis(op.axis, Len(known[1]))
    IN  [known[1] EXCEPT ![ax] = SumOver(Len(known), LAMBDA i : known[i + 1][ax])]

\* The shape of an operator's output, from those of its inputs (Unknown where there is none).
InferOp(op, shapes) ==
    LET known == SelectSeq(shapes, LAMBDA s : s # Unknown)
        first == IF shapes = <<>> THEN Unknown ELSE shapes[1]
        both == Len(shapes) >= 2 /\ shapes[1] # Unknown /\ shapes[2] # Unknown
    IN  CASE op.name \in SameShapeOps -> first
          [] op.name \in BroadcastOps /\ both -> BroadcastWith(shapes[1], shapes[2])
          [] op.name \in BroadcastOps /\ ~both /\ known # <<>> -> known[1]
          [] op.name = "MatMul" /\ both -> InferMatmulShape(shapes[1], shapes[2])
          [] op.name = "Gemm" /\ both -> InferGemmShape(op, shapes[1], shapes[2])
          [] op.name = "Conv2d" /\ both -> InferConvShape(op, shapes[1], shapes[2])
          [] op.name \in ReduceOps /\ first # Unknown ->
                 ReducedDims(first, NormaliseAxes(op.axes, Len(first)), op.keep)
          [] op.name = "Flatten" /\ first # Unknown -> InferFlattenShape(op, first)
          [] op.name = "Concat" /\ known # <<>> -> InferConcatShape(op, known)
          [] op.name = "Transpose" ->
                 IF Len(first) = Len(op.perm) THEN [i \in DOMAIN op.perm |-> first[op.perm[i]]] ELSE first
          [] OTHER -> Unknown

InferNode(g, shapes, id) ==
    LET node == g.nodes[id]
    IN  [shapes EXCEPT ![id] = CASE node.is = "input"    -> node.shape
                                 [] node.is = "constant" -> node.value.dims
                                 [] node.is = "operator" -> InferOp(node.op, [i \in DOMAIN node.inputs |-> shapes[node.inputs[i]]])
                                 [] OTHER                -> shapes[node.inputs[1]]]

\* A broadcast that fails ends the inference with an error.
Infer(g, order) == FoldLeft(LAMBDA shapes, id : InferNode(g, shapes, id), [id \in DOMAIN g.nodes |-> Unknown], order)
InferenceFails(g, shapes) ==
    \E id \in DOMAIN g.nodes :
        LET node == g.nodes[id]
        IN  /\ node.is = "operator" /\ node.op.name \in BroadcastOps /\ Len(node.inputs) >= 2
            /\ shapes[node.inputs[1]] # Unknown /\ shapes[node.inputs[2]] # Unknown
            /\ shapes[id] = Unknown
-----------------------------------------------------------------------------
(* The passes, in the order of PassManager::standard.                      *)

IsConstant(g, id) == g.nodes[id].is = "constant"
IsMatmul(g, id) == g.nodes[id].is = "operator" /\ g.nodes[id].op.name = "MatMul"

\* What a simple operator over constants is, if it can be folded.
TryFold(op, values) ==
    LET alike == Len(values) = 2 /\ Numel(values[1].dims) = Numel(values[2].dims)
    IN  CASE op.name = "Add" /\ alike -> BinaryF32(PlusF32, values[1], values[2])
          [] op.name = "Mul" /\ alike -> BinaryF32(TimesF32, values[1], values[2])
          [] op.name = "Relu" /\ Len(values) = 1 -> UnaryF32(ReluF32, values[1])
          [] OTHER -> Failed

FoldNode(g, id) ==
    LET node == g.nodes[id]
        result == TryFold(node.op, [i \in DOMAIN node.inputs |-> g.nodes[node.inputs[i]].value])
    IN  IF /\ node.is = "operator"
           /\ \A i \in DOMAIN node.inputs : IsConstant(g, node.inputs[i])
           /\ IsTensor(result)
        THEN [g EXCEPT !.nodes[id] = [Blank EXCEPT !.is = "constant", !.value = result]]
        ELSE g

ConstantFolding(g, order) == FoldLeft(FoldNode, g, order)

\* The nodes that the outputs need.
Live(g) ==
    LET grow(live) == live \cup UNION {{g.nodes[id].inputs[i] : i \in DOMAIN g.nodes[id].inputs} : id \in live}
    IN  FoldLeft(LAMBDA live, i : grow(live), {g.outputs[i] : i \in DOMAIN g.outputs}, g.nodes)

\* Dead nodes stay in the list; only the edges that touch one go.
DeadCodeElimination(g) ==
    LET live == Live(g)
    IN  IF live = DOMAIN g.nodes THEN g
        ELSE [g EXCEPT !.edges = SelectSeq(@, LAMBDA e : e[1] \in live /\ e[2] \in live)]

\* Mutant: a product with several consumers is fused into one of them with its inputs swapped.
FuseNode_BiasFirst(g, id) ==
    LET node == g.nodes[id]
        fusible(i) == IsMatmul(g, node.inputs[i]) /\ Len(Successors(g, node.inputs[i])) = 1
        mm == IF fusible(1) THEN 1 ELSE 2
    IN  IF node.is = "operator" /\ node.op.name = "Add" /\ Len(node.inputs) >= 2 /\ (fusible(1) \/ fusible(2))
        THEN [g EXCEPT !.nodes[id].op = [name |-> "Gemm", transA |-> FALSE, transB |-> FALSE],
                       !.nodes[id].inputs = Append(g.nodes[node.inputs[mm]].inputs, node.inputs[mm])]
        ELSE g

\* A sum with a product that nothing else consumes becomes a Gemm; the product stays, and so do
\* the edges.
FuseNode(g, id) ==
    LET node == g.nodes[id]
        fusible(i) == IsMatmul(g, node.inputs[i]) /\ Len(Successors(g, node.inputs[i])) = 1
        mm == IF fusible(1) THEN 1 ELSE 2
    IN  IF node.is = "operator" /\ node.op.name = "Add" /\ Len(node.inputs) >= 2 /\ (fusible(1) \/ fusible(2))
        THEN [g EXCEPT !.nodes[id].op = [name |-> "Gemm", transA |-> FALSE, transB |-> FALSE],
                       !.nodes[id].inputs = Append(g.nodes[node.inputs[mm]].inputs, node.inputs[3 - mm])]
        ELSE g

OperatorFusion(g, order) == FoldLeft(FuseNode, g, order)

\* Each pass sorts the graph anew, from its sources in whatever order.
Optimised(g) ==
    LET trimmed == {DeadCodeElimination(ConstantFolding(g, order)) : order \in Orders(g)}
    IN  UNION {{OperatorFusion(h, order) : order \in Orders(h)} : h \in trimmed}

-----------------------------------------------------------------------------
(* Execution on the CPU backend.                                           *)

CloneOps == {"Reshape", "Identity", "KVCacheConcat", "RepeatKV", "MoEGate", "ScaledDotProductAttention"}
UndispatchedOps == {"Transpose", "Flatten", "Concat", "ReduceMin", "MaxPool"}

\* A normalised element: the operator, the elements it is computed from, and its place among them.
NormOf(op, x, slice, o) ==
    [fn |-> op.name, from |-> [d \in DOMAIN slice |-> x.at[slice[d]]], place |-> CHOOSE d \in DOMAIN slice : slice[d] = o]

EmbeddingRows(weight, ids) ==
    LET hidden == weight.dims[2]
        lead == IF Len(ids.dims) >= 2 THEN <<ids.dims[1], ids.dims[2]>> ELSE <<1, Numel(ids.dims)>>
    IN  Make(Append(lead, hidden), LAMBDA o : weight.at[ids.at[o \div hidden] * hidden + (o % hidden)])

\* The kernel of an operator on its operands; an operand that is missing is a panic.  Left out
\* are the operators that no file below uses, and the optional weight and bias of a norm or of a
\* convolution.
Dispatch(op, v) ==
    CASE v = <<>>                            -> Failed
      [] op.name = "Relu"                    -> UnaryF32(ReluF32, v[1])
      [] op.name \in CloneOps                -> v[1]
      [] op.name \in {"Softmax", "LogSoftmax"} ->
             Make(v[1].dims, LAMBDA o : NormOf(op, v[1], SoftmaxSlice(v[1].dims, op.axis, o), o))
      [] op.name \in {"LayerNorm", "RmsNorm"} ->
             Make(v[1].dims, LAMBDA o : NormOf(op, v[1], NormSlice(v[1].dims, op.axis, o), o))
      [] op.name \in ReduceOps               ->
             LET to == Reduce(v[1], op.axes, op.keep)
             IN  Make(to.dims, LAMBDA o : [fn |-> op.name, from |-> {<<i, v[1].at[i]>> : i \in to.at[o]}])
      [] op.name \in UndispatchedOps \/ Len(v) < 2 -> Failed
      [] op.name = "Add"                     -> BinaryF32(PlusF32, v[1], v[2])
      [] op.name = "Sub"                     -> BinaryF32(MinusF32, v[1], v[2])
      [] op.name = "Mul"                     -> BinaryF32(TimesF32, v[1], v[2])
      [] op.name = "MatMul"                  -> matmul(v[1], v[2])
      [] op.name = "Gemm"                    -> gemm(v[1], v[2], SubSeq(v, 3, Len(v)), op.transA, op.transB)
      [] op.name = "Embedding"               -> EmbeddingRows(v[1], v[2])
      [] op.name = "Conv2d"                  ->
             Make(ConvDims(v[1].dims, v[2].dims, op.pads, op.strides, op.dilations), LAMBDA o :
                  MapThenSumSet(LAMBDA p : v[2].at[p[1]] * v[1].at[p[2]],
                                Conv2d(v[1].dims, v[2].dims, op.pads, op.strides, op.dilations, op.groups, o)))
      [] OTHER                               -> Failed

\* One node of the order; the first that fails ends the execution.
Compute(g, s, id) ==
    LET node == g.nodes[id]
        operands == [i \in DOMAIN node.inputs |-> s.values[node.inputs[i]]]
        result == CASE node.is = "constant" -> node.value
                    [] node.is = "input"    -> s.values[id]
                    [] node.is = "output"   -> operands[1]
                    [] OTHER                -> IF \A i \in DOMAIN operands : IsTensor(operands[i])
                                               THEN Dispatch(node.op, operands) ELSE Failed
    IN  IF ~s.ok THEN s
        ELSE [ok |-> node.is = "operator" => IsTensor(result), values |-> [s.values EXCEPT ![id] = result]]

\* All values, and whether every operator succeeded; given are the graph's inputs, in order.
ComputeAll(g, order, given) ==
    FoldLeft(LAMBDA s, id : Compute(g, s, id),
             [ok |-> TRUE, values |-> [id \in DOMAIN g.nodes |->
                 IF g.nodes[id].is = "input" THEN given[CHOOSE i \in DOMAIN g.inputs : g.inputs[i] = id] ELSE Failed]],
             order)

\* The tensors of the outputs, or an error: an operator failed, or an output has no value.
Execute(g, order, given) ==
    LET end == ComputeAll(g, order, given)
        outputs == [i \in DOMAIN g.outputs |-> end.values[g.outputs[i]]]
    IN  IF end.ok /\ \A i \in DOMAIN outputs : IsTensor(outputs[i]) THEN outputs ELSE <<Failed>>

-----------------------------------------------------------------------------
(* Batches: the requests' tensors are stacked along a new first dimension. *)

LeftPad(data, len) ==
    LET n == Len(data)
    IN  IF n >= len THEN SubSeq(data, n - len + 1, n) ELSE [i \in 1 .. len - n |-> 0] \o data

\* Every request's elements (in order), padded or cut to as many as the first one has.
MergeInputs(requests) ==
    LET elems == Numel(requests[1].dims)
        rows == [r \in DOMAIN requests |->
                    LeftPad([i \in 1 .. Numel(requests[r].dims) |-> requests[r].at[i - 1]], elems)]
    IN  Make(<<Len(requests)>> \o requests[1].dims, LAMBDA o : rows[(o \div elems) + 1][(o % elems) + 1])

-----------------------------------------------------------------------------
(* The ONNX loader of sapient-io: protobuf messages, read as sequences of  *)
(* fields, and the graph they describe.  A field is its number, its wire   *)
(* type and its payload; the payload of a nested message is its fields.    *)

MODEL_GRAPH == 7
GRAPH_NODE == 1
GRAPH_INIT == 5
GRAPH_INPUT == 11
GRAPH_OUTPUT == 12
NODE_INPUT == 1
NODE_OUTPUT == 2
NODE_NAME == 3
NODE_OP_TYPE == 4
NODE_ATTR == 5
TENSOR_DIMS == 1
TENSOR_DTYPE == 2
TENSOR_FLOAT_DATA == 4
TENSOR_NAME == 8
TENSOR_RAW_DATA == 9
TENSOR_DOUBLE_DATA == 10
VI_NAME == 1

F32 == 1

\* Fields of a wire type that is not known end the message.
Readable(fields) ==
    LET bad == {i \in DOMAIN fields : fields[i].wire \notin {0, 1, 2, 5}}
    IN  SubSeq(fields, 1, (IF bad = {} THEN Len(fields) + 1 ELSE CHOOSE i \in bad : \A j \in bad : i <= j) - 1)

Is(f, number, wire) == f.number = number /\ f.wire = wire

\* The payloads of the fields of a number, as they come.
All(fields, number) ==
    LET of == SelectSeq(Readable(fields), LAMBDA f : Is(f, number, 2)) IN [i \in DOMAIN of |-> of[i].payload]
Latest(fields, number, default) ==
    LET of == All(fields, number) IN IF of = <<>> THEN default ELSE Last(of)

\* One field of a tensor: raw data counts only after its type, and only as F32.
TensorField(t, f) ==
    CASE Is(f, TENSOR_DIMS, 0)  -> [t EXCEPT !.dims = Append(@, f.payload)]
      [] Is(f, TENSOR_DTYPE, 0) -> [t EXCEPT !.dtype = f.payload]
      [] Is(f, TENSOR_NAME, 2)  -> [t EXCEPT !.name = f.payload]
      [] Is(f, TENSOR_FLOAT_DATA, 2) \/ Is(f, TENSOR_DOUBLE_DATA, 2) -> [t EXCEPT !.data = f.payload]
      [] Is(f, TENSOR_RAW_DATA, 2) /\ t.dtype = F32 -> [t EXCEPT !.data = f.payload]
      [] OTHER -> t
ParseTensor(fields) == FoldLeft(TensorField, [name |-> "", dims |-> <<>>, dtype |-> 0, data |-> <<>>], Readable(fields))

\* Attributes are skipped.
ParseNode(fields) ==
    [inputs |-> All(fields, NODE_INPUT), outputs |-> All(fields, NODE_OUTPUT),
     opType |-> Latest(fields, NODE_OP_TYPE, "")]

ParseViName(fields) == LET names == All(fields, VI_NAME) IN IF names = <<>> THEN "" ELSE names[1]

NamesOf(infos) == SelectSeq([i \in DOMAIN infos |-> ParseViName(infos[i])], LAMBDA n : n # "")
MapAll(fields, parse(_)) == [i \in DOMAIN fields |-> parse(fields[i])]

ParseGraph(fields) ==
    [nodes |-> MapAll(All(fields, GRAPH_NODE), ParseNode),
     inputs |-> NamesOf(All(fields, GRAPH_INPUT)),
     outputs |-> NamesOf(All(fields, GRAPH_OUTPUT)),
     initializers |-> MapAll(All(fields, GRAPH_INIT), ParseTensor)]

\* The first graph of the message.
ParseModel(fields) ==
    LET graphs == All(fields, MODEL_GRAPH) IN ParseGraph(IF graphs = <<>> THEN <<>> ELSE graphs[1])

-----------------------------------------------------------------------------

NamedOps == {"MatMul", "Add", "Sub", "Mul", "Div", "Relu", "Reshape"}

\* An operator with the defaults of its attributes; what is not known passes its input through.
OnnxOp(name) ==
    CASE name \in NamedOps -> [name |-> name]
      [] name = "Gemm"     -> [name |-> name, transA |-> FALSE, transB |-> FALSE]
      [] name \in {"Softmax", "LogSoftmax"} -> [name |-> name, axis |-> -1]
      [] name = "LayerNormalization" -> [name |-> "LayerNorm", axis |-> -1]
      [] name \in ReduceOps -> [name |-> name, axes |-> <<>>, keep |-> FALSE]
      [] name = "Conv"     -> [name |-> "Conv2d", kernel |-> <<3, 3>>, pads |-> <<0, 0, 0, 0>>, strides |-> <<1, 1>>,
                               dilations |-> <<1, 1>>, groups |-> 1]
      [] name = "Transpose" -> [name |-> name, perm |-> <<>>]
      [] name = "Flatten"  -> [name |-> name, axis |-> 1]
      [] name = "Concat"   -> [name |-> name, axis |-> 0]
      [] name = "MaxPool"  -> [name |-> name]
      [] OTHER             -> [name |-> "Identity"]

\* Names that are bound to nodes so far: the latest binding of a name counts.
Bind(names, name, id) == [n \in DOMAIN names \cup {name} |-> IF n = name THEN id ELSE names[n]]

ConstantOf(init) ==
    LET dims == IF init.dims = <<>> THEN <<1>> ELSE init.dims
    IN  Make(dims, LAMBDA o : IF init.data = <<>> THEN 0 ELSE init.data[o + 1])

ImportInitializer(s, init) ==
    [graph |-> AddConstant(s.graph, ConstantOf(init)), names |-> Bind(s.names, init.name, LastId(s.graph) + 1)]

\* An input that is also an initializer stays the constant.
ImportInput(s, name) ==
    IF name \in DOMAIN s.names THEN s
    ELSE [graph |-> AddInput(s.graph, Unknown), names |-> Bind(s.names, name, LastId(s.graph) + 1)]

\* Inputs whose names are not bound (an optional one that is left out, or a second output) are
\* dropped; of the outputs only the first gets a name.
ImportNode(s, node) ==
    LET known == SelectSeq(node.inputs, LAMBDA n : n \in DOMAIN s.names)
        inputs == [i \in DOMAIN known |-> s.names[known[i]]]
    IN  [graph |-> AddOp(s.graph, OnnxOp(node.opType), inputs),
         names |-> IF node.outputs = <<>> THEN s.names ELSE Bind(s.names, node.outputs[1], LastId(s.graph) + 1)]

ImportOutput(s, name) ==
    IF name \in DOMAIN s.names THEN [s EXCEPT !.graph = MarkOutput(@, s.names[name])] ELSE s

\* The graph of a model and the nodes its names are bound to.
FromBytes(fields) ==
    LET onnx == ParseModel(fields)
        s1 == FoldLeft(ImportInitializer, [graph |-> NewGraph, names |-> <<>>], onnx.initializers)
        s2 == FoldLeft(ImportInput, s1, onnx.inputs)
        s3 == FoldLeft(ImportNode, s2, onnx.nodes)
    IN  FoldLeft(ImportOutput, s3, onnx.outputs)

-----------------------------------------------------------------------------
(* Model files, from their bytes to the tensors of their nodes, against    *)
(* what ONNX says that they compute.                                       *)


Field(number, wire, payload) == [number |-> number, wire |-> wire, payload |-> payload]
Info(name) == <<Field(VI_NAME, 2, name)>>
NodeFields(opType, inputs, output) ==
    [i \in DOMAIN inputs |-> Field(NODE_INPUT, 2, inputs[i])]
    \o <<Field(NODE_OUTPUT, 2, output), Field(NODE_NAME, 2, "n"), Field(NODE_OP_TYPE, 2, opType), Field(NODE_ATTR, 2, <<>>)>>

\* The elements of a constant: small, and different enough for a slip to show.
Data(dims, seed) == [i \in 1 .. Numel(dims) |-> ((i * 7 + seed * 5) % 11) - 4]
TensorFields(name, dims, seed, raw) ==
    [i \in DOMAIN dims |-> Field(TENSOR_DIMS, 0, dims[i])]
    \o <<Field(TENSOR_DTYPE, 0, F32), Field(TENSOR_NAME, 2, name),
         Field(IF raw THEN TENSOR_RAW_DATA ELSE TENSOR_FLOAT_DATA, 2, Data(dims, seed)), Field(14, 0, 0)>>

\* A file with constants <<name, dims>>, the input x, nodes <<op, inputs, output>> and outputs.
File(consts, nodes, outputs) ==
    <<Field(8, 2, "opset"),
      Field(MODEL_GRAPH, 2,
        [i \in DOMAIN nodes |-> Field(GRAPH_NODE, 2, NodeFields(nodes[i][1], nodes[i][2], nodes[i][3]))]
        \o <<Field(2, 2, "g")>>
        \o [i \in DOMAIN consts |-> Field(GRAPH_INIT, 2, TensorFields(consts[i][1], consts[i][2], i, i % 2 = 0))]
        \o <<Field(GRAPH_INPUT, 2, Info("x"))>>
        \o [i \in DOMAIN consts |-> Field(GRAPH_INPUT, 2, Info(consts[i][1]))]
        \o [i \in DOMAIN outputs |-> Field(GRAPH_OUTPUT, 2, Info(outputs[i]))])>>

W == <<"w", <<2, 2>> >>
Bias == <<"b", <<2>> >>
One == <<"c", <<1>> >>

\* Files, by what is in them: a product and a bias (as the row of a Gemm, too), a residual, sums of
\* constants, a product with two consumers, a part that no output needs, names that are used
\* again, and operators that end a network.
Files ==
    <<File(<<W, Bias>>, << <<"MatMul", <<"x", "w">>, "p">>, <<"Add", <<"p", "b">>, "s">>, <<"Relu", <<"s">>, "y">> >>, <<"y">>),
      File(<<W, Bias>>, << <<"MatMul", <<"x", "w">>, "p">>, <<"Add", <<"b", "p">>, "y">> >>, <<"y">>),
      File(<<W, One>>, << <<"MatMul", <<"x", "w">>, "p">>, <<"Add", <<"c", "p">>, "s">>, <<"Softmax", <<"s">>, "y">> >>, <<"y">>),
      File(<<W, Bias>>, << <<"Gemm", <<"x", "w", "b">>, "s">>, <<"Relu", <<"s">>, "t">>, <<"Dropout", <<"t">>, "y">> >>, <<"y">>),
      File(<<W>>, << <<"MatMul", <<"x", "w">>, "p">>, <<"Add", <<"x", "p">>, "y">> >>, <<"y">>),
      File(<<W, <<"v", <<2, 2>> >> >>,
           << <<"Add", <<"w", "v">>, "u">>, <<"Relu", <<"u">>, "r">>, <<"Mul", <<"r", "w">>, "z">>, <<"MatMul", <<"x", "z">>, "y">> >>, <<"y">>),
      File(<<W, One>>,
           << <<"MatMul", <<"x", "w">>, "p">>, <<"Add", <<"p", "c">>, "s">>, <<"Sub", <<"s", "p">>, "y">> >>, <<"y">>),
      File(<<W>>, << <<"Relu", <<"x">>, "r">>, <<"MatMul", <<"r", "w">>, "p">>, <<"Sub", <<"p", "p">>, "q">>,
                     <<"LayerNormalization", <<"r">>, "y">> >>, <<"y">>),
      File(<<W>>, << <<"Relu", <<"x">>, "t">>, <<"MatMul", <<"t", "w">>, "t">>, <<"Mul", <<"t", "t">>, "y">> >>, <<"y">>),
      File(<<W>>, << <<"MatMul", <<"x", "w">>, "p">>, <<"MatMul", <<"w", "w">>, "q">>, <<"Add", <<"p", "q">>, "y">> >>, <<"y", "x">>)>>

-----------------------------------------------------------------------------
(* What ONNX says a file computes, operator by operator.                   *)

Pick(t, dims, o) ==
    t.at[FlatIndex(t.dims, [i \in DOMAIN t.dims |-> IF t.dims[i] = 1 THEN 0 ELSE Coord(dims, o)[i + Len(dims) - Len(t.dims)]])]
Broadcast(f(_, _), a, b) ==
    LET dims == BroadcastWith(a.dims, b.dims)
    IN  IF dims = Unknown THEN Failed ELSE Make(dims, LAMBDA o : f(Pick(a, dims, o), Pick(b, dims, o)))
Product(a, b) ==
    Make(<<a.dims[1], b.dims[2]>>, LAMBDA o :
         SumOver(a.dims[2], LAMBDA t : LET c == Coord(<<a.dims[1], b.dims[2]>>, o)
                                       IN  a.at[FlatIndex(a.dims, <<c[1], t>>)] * b.at[FlatIndex(b.dims, <<t, c[2]>>)]))
RowNorm(fn, x) ==
    Make(x.dims, LAMBDA o : LET c == Coord(x.dims, o)
                                n == Len(x.dims)
                            IN  [fn |-> fn, from |-> [d \in 0 .. x.dims[n] - 1 |-> x.at[FlatIndex(x.dims, [c EXCEPT ![n] = d])]],
                                 place |-> c[n]])
OpMeaning(opType, v) ==
    CASE opType = "Add"     -> Broadcast(PlusF32, v[1], v[2])
      [] opType = "Sub"     -> Broadcast(MinusF32, v[1], v[2])
      [] opType = "Mul"     -> Broadcast(TimesF32, v[1], v[2])
      [] opType = "MatMul"  -> Product(v[1], v[2])
      [] opType = "Gemm"    -> Broadcast(PlusF32, Product(v[1], v[2]), v[3])
      [] opType = "Relu"    -> Make(v[1].dims, LAMBDA o : ReluF32(v[1].at[o]))
      [] opType = "Softmax" -> RowNorm("Softmax", v[1])
      [] opType = "LayerNormalization" -> RowNorm("LayerNorm", v[1])
      [] OTHER              -> v[1]

\* The tensors of the nodes, in the order of the graph's node list: constants, x, operators.
Meanings(file, x) ==
    LET onnx == ParseModel(file)
        s0 == [env |-> [n \in {"x"} |-> x], list |-> <<>>]
        s1 == FoldLeft(LAMBDA s, c : [env |-> Bind(s.env, c.name, ConstantOf(c)), list |-> Append(s.list, ConstantOf(c))],
                       s0, onnx.initializers)
        s2 == [s1 EXCEPT !.list = Append(@, x)]
        step(s, n) == LET y == OpMeaning(n.opType, [i \in DOMAIN n.inputs |-> s.env[n.inputs[i]]])
                      IN  [env |-> Bind(s.env, n.outputs[1], y), list |-> Append(s.list, y)]
    IN  FoldLeft(step, s2, onnx.nodes)

-----------------------------------------------------------------------------
(* Properties.                                                             *)

\* An order puts every node after those it needs by an edge, and has every node once.
IsExtension(g, order) ==
    /\ Len(order) = Len(g.nodes) /\ {order[i] : i \in DOMAIN order} = DOMAIN g.nodes
    /\ \A e \in DOMAIN g.edges : \E i, j \in DOMAIN order : i < j /\ order[i] = g.edges[e][1] /\ order[j] = g.edges[e][2]

Operators(g) == {id \in DOMAIN g.nodes : g.nodes[id].is = "operator"}

\* What fails although it is legal: a row added to several (until it is fused into a Gemm), and a
\* product fused with a matrix of several rows; a dead operator may run before its operands.
AddsRows(g, meanings) ==
    \E id \in Operators(g) : /\ g.nodes[id].op.name \in BroadcastOps
                             /\ LET n(i) == Numel(meanings[g.nodes[id].inputs[i]].dims)
                                IN  n(1) # n(2) /\ n(1) # 1 /\ n(2) # 1
AddsMatrix(g, meanings) ==
    \E id \in Operators(g) : /\ g.nodes[id].op.name = "Gemm"
                             /\ Numel(meanings[g.nodes[id].inputs[3]].dims) \notin {1, meanings[id].dims[2]}
HasDead(g) == Live(g) # DOMAIN g.nodes

\* Whatever is computed is what the file says, in every order; and it is computed.
ComputesMeanings(g, meanings, given) ==
    \A order \in Orders(g) :
        LET end == ComputeAll(g, order, given)
        IN  /\ \A id \in Operators(g) : IsTensor(end.values[id]) => end.values[id].at = meanings[id].at
            /\ AddsRows(g, meanings) \/ AddsMatrix(g, meanings) \/ HasDead(g) \/ end.ok

\* A graph with the input x is sorted soundly whatever the order of the sources, and the inferred
\* shapes are those of the values.
InfersShapes(g, orders, meanings) ==
    \A order \in orders :
        LET shapes == Infer(g, order)
        IN  /\ IsExtension(g, order) /\ ~InferenceFails(g, shapes)
            /\ \A id \in Operators(g) : shapes[id] = meanings[id].dims

GraphComputes(g, orders, graphs, meanings, x) ==
    /\ InfersShapes([g EXCEPT !.nodes[g.inputs[1]].shape = x.dims], orders, meanings)
    /\ \A h \in graphs : ComputesMeanings(h, meanings, <<x>>)

FileComputes(file, g, orders, graphs, xs) ==
    \A x \in xs : GraphComputes(g, orders, graphs, Meanings(file, x).list, x)

\* From a file's bytes to its values: every operator computes what ONNX says, before the passes and
\* after them.  ROWS bounds the rows of the input.
FilesCompute(ROWS) ==
    LET xs == {Make(<<rows, 2>>, LAMBDA o : Data(<<rows, 2>>, 3)[o + 1]) : rows \in 1 .. ROWS}
    IN  \A f \in DOMAIN Files :
            \A g \in {FromBytes(Files[f]).graph} : FileComputes(Files[f], g, Orders(g), {g} \cup Optimised(g), xs)

\* A graph with a cycle has no order.
CyclesAreErrors ==
    LET two == AddOp(AddOp(NewGraph, [name |-> "Add"], <<2, 2>>), [name |-> "Relu"], <<1>>)
    IN  Orders(two) = {NoOrder} /\ Orders(AddInput(two, <<1>>)) = {NoOrder}

\* The slices of the kernels are those of the coordinates, along every axis.
SlicesAreAxes ==
    \A dims \in {<<3>>, <<2, 3>>, <<2, 1, 3>>, <<2, 3, 2>>} :
        \A o \in 0 .. Numel(dims) - 1, axis \in -Len(dims) .. Len(dims) - 1 :
            LET ax == NormaliseAxis(axis, Len(dims))
                c == Coord(dims, o)
                line == {FlatIndex(dims, [c EXCEPT ![ax] = d]) : d \in 0 .. dims[ax] - 1}
                tail == {p \in 0 .. Numel(dims) - 1 : \A i \in 1 .. ax - 1 : Coord(dims, p)[i] = c[i]}
                soft == SoftmaxSlice(dims, axis, o)
                norm == NormSlice(dims, axis, o)
            IN  /\ {soft[d] : d \in DOMAIN soft} = line /\ soft[c[ax]] = o
                /\ {norm[i] : i \in DOMAIN norm} = tail
                /\ \A keep \in BOOLEAN, more \in {<<>>, <<0>>} :
                      LET axes == IF more = <<>> THEN <<axis>> ELSE <<0, axis>>
                          gone == NormaliseAxes(axes, Len(dims))
                          to == ReduceTarget(dims, gone, keep, o)
                      IN  {p \in 0 .. Numel(dims) - 1 : ReduceTarget(dims, gone, keep, p) = to}
                            = {p \in 0 .. Numel(dims) - 1 : \A i \in DOMAIN dims \ gone : Coord(dims, p)[i] = c[i]}

\* A convolution adds up, for each output place, the kernels of its group under their image elements.
ConvolvesInGroups ==
    \A groups \in 1 .. 2, pad \in 0 .. 1, stride \in 1 .. 2, dilation \in 1 .. 2 :
        LET xs == <<2, 2, 3, 4>>
            ws == <<2, 2 \div groups, 2, 2>>
            pads == <<pad, 0, 0, pad>>
            out == ConvDims(xs, ws, pads, <<stride, 1>>, <<1, dilation>>)
        IN  \A o \in 0 .. Numel(out) - 1 :
                LET c == Coord(out, o)
                    terms == {k \in (0 .. ws[2] - 1) \X (0 .. 1) \X (0 .. 1) :
                                 /\ c[3] * stride + k[2] - pad \in 0 .. xs[3] - 1
                                 /\ c[4] + k[3] * dilation \in 0 .. xs[4] - 1}
                IN  Conv2d(xs, ws, pads, <<stride, 1>>, <<1, dilation>>, groups, o) =
                      {<<FlatIndex(ws, <<c[2], k[1], k[2], k[3]>>),
                         FlatIndex(xs, <<c[1], (c[2] \div (2 \div groups)) * ws[2] + k[1],
                                         c[3] * stride + k[2] - pad, c[4] + k[3] * dilation>>)>> : k \in terms}

\* A batch holds every request's own elements, in its row.
BatchesKeepRows ==
    \A n \in 1 .. 3, m \in 1 .. 3 :
        LET t(k, seed) == Make(<<k>>, LAMBDA o : Data(<<k>>, seed)[o + 1])
            merged == MergeInputs(<<t(n, 1), t(m, 2), t(n, 3)>>)
        IN  /\ merged.dims = <<3, n>>
            /\ \A o \in 0 .. n - 1 : merged.at[o] = t(n, 1).at[o] /\ merged.at[2 * n + o] = t(n, 3).at[o]
            /\ \A o \in 0 .. n - 1 :
                  merged.at[n + o] = IF o - (n - m) \in 0 .. m - 1 THEN t(m, 2).at[o - (n - m)] ELSE 0

\* A batched product multiplies every entry with its own matrix; one matrix for all is read past
\* its end.
ProductsByBatch ==
    LET t(dims, seed) == Make(dims, LAMBDA o : Data(dims, seed)[o + 1])
        a == t(<<2, 2, 3>>, 1)
        entry(x, rows, cols, i) == Make(<<rows, cols>>, LAMBDA o : x.at[i * rows * cols + o])
    IN  /\ matmul(a, t(<<2, 3, 2>>, 2)).dims = <<2, 2, 2>>
        /\ \A i \in 0 .. 1 : entry(matmul(a, t(<<2, 3, 2>>, 2)), 2, 2, i)
                                 = Product(entry(a, 2, 3, i), entry(t(<<2, 3, 2>>, 2), 3, 2, i))
        /\ matmul(a, t(<<3, 2>>, 2)) = Garbage

\* What a model file says is what the nodes of its graph compute, whatever order they run in.
GraphsAreComputed(ROWS) ==
    /\ FilesCompute(ROWS) /\ CyclesAreErrors /\ ProductsByBatch /\ SlicesAreAxes /\ ConvolvesInGroups /\ BatchesKeepRows
=============================================================================
