SPECIFICATION OperationSpec
CHECK_DEADLOCK FALSE
INVARIANT OnlyReceiptsProve
