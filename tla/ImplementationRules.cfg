\* The operators the six rule files test, and Truncate, whose rule is named
\* after it.
CONSTANTS
    Operators = {"Project", "CreateTable", "Update", "Dummy", "DropTable", "Truncate"}
SPECIFICATION Spec
INVARIANT ImplementsOwnOperator
\* The implementation pass stops once every rule was tried.
CHECK_DEADLOCK FALSE
