SPECIFICATION BudgetSpec
CONSTANTS
    Root = root
    Kids = {kid}
    Turns = {t1, t2, t3}
    Budget = 2
    Price = 1
    MaxOutput = 2
    MaxInput = 1
    Environments <- Courses
    Unset = unset
SYMMETRY Symmetry
INVARIANTS SpendWithinBudget AccountedFor
 
\* When every turn is taken and reported nothing is left to do.
CHECK_DEADLOCK FALSE
