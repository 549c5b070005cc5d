SPECIFICATION FairSpec
INVARIANTS AtMostOneVerdict ReasonBeforeCancel OutcomeReported SlotCoversStream
PROPERTIES TeardownCompletes ClientReclaimed
