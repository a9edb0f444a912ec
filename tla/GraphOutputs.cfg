SPECIFICATION IrSpec
INVARIANT OutputsComputed
CHECK_DEADLOCK FALSE
