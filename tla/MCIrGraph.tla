------------------------------ MODULE MCIrGraph ------------------------------
(***************************************************************************)
(* The CPU backend executing the graph of a file, node by node.            *)
(***************************************************************************)
EXTENDS IrGraph
LOCAL INSTANCE SequencesExt

VARIABLES graph,   \* the graph, as imported or after the passes
          todo,    \* the nodes that are left of its order
          run      \* the values so far, and whether every operator succeeded

irVars == <<graph, todo, run>>

TwoRows == Make(<<2, 2>>, LAMBDA o : Data(<<2, 2>>, 3)[o + 1])

IrInit ==
    \E f \in {1, 4} : \E g \in {FromBytes(Files[f]).graph} \cup Optimised(FromBytes(Files[f]).graph) :
        /\ graph = g
        /\ todo \in Orders(g)
        /\ run = ComputeAll(g, <<>>, <<TwoRows>>)

Step ==
    /\ todo # <<>> /\ run.ok
    /\ run' = Compute(graph, run, Head(todo))
    /\ todo' = Tail(todo)
    /\ UNCHANGED graph

IrSpec == IrInit /\ [][Step]_irVars

\* "Execute the graph, returning output tensors in the order of graph.outputs": once every
\* operator has run, each output has the tensor of its source.
OutputsComputed ==
    todo = <<>> /\ run.ok =>
        \A i \in DOMAIN graph.outputs :
            run.values[graph.outputs[i]] = run.values[graph.nodes[graph.outputs[i]].inputs[1]]
=============================================================================
