SPECIFICATION Safe
CONSTANT MaxFindings <- MCMaxFindings
INVARIANT OtherTextShown
