SPECIFICATION BudgetSpec
CONSTANTS
    Budgets <- BudgetsChecked
    MaxSampled = 8
    DrainMax = 5
CHECK_DEADLOCK FALSE
INVARIANTS
    BudgetClosesOnce
