\* The pool sees balances, never who holds them: one user stands for all.
SPECIFICATION Spec
CONSTANTS
    Account = {alice}
    Pair = Pair
    Dead = Dead
    MINIMUM_LIQUIDITY = 2
    InitialBalance = 12
    Amounts = {1, 3, 8}
INVARIANTS QuoteHonoured AmountInSuffices
PROPERTY ShareNeverFalls
CHECK_DEADLOCK FALSE
