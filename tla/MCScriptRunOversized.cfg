SPECIFICATION Safe
CONSTANT MaxFindings <- MCMaxFindings
INVARIANT OversizedRejected
