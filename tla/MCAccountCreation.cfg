\* A payer with 4 left has the rent but not what keeps its own account alive.
CONSTANTS
    Payers = {"a", "b"}
    SPACE = 5
    HEADER_SIZE = 2
    RENT = 3
    RENT_EMPTY = 2
    FUNDS = 7
SPECIFICATION CreationSpec
INVARIANT WholeOrNothing
PROPERTY SignedAttemptSucceeds
