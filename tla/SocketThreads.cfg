SPECIFICATION Spec
CHECK_DEADLOCK FALSE
INVARIANTS OneOperationAtATime
PROPERTIES UnbindReturns DestructorReturns ReadsGoOn ConnectRuns
