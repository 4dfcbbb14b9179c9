SPECIFICATION Spec
INVARIANT DecisionMatchesSpec
CHECK_DEADLOCK FALSE
