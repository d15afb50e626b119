\* One request per behaviour: every operation x datatype x option x key.
\* A request ends once validated (and committed, for a created row), so
\* the final states are not deadlocks.
CONSTANTS
    Names <- MC_Names
    ValidNames <- MC_ValidNames
    AddrWidth = 8
SPECIFICATION Spec
CHECK_DEADLOCK FALSE
INVARIANTS
    TypeOK
    ValidatedKeyUsable
    AcceptedChangeGetsStatus
    ChildKeyRoundTrips
    RenameKeyMatchesOldRows
