SPECIFICATION Spec
INVARIANT ObservedBeforeFirstEvent
