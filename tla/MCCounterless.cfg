\* A passkey without a signature counter (counter 0 in every assertion).
CONSTANTS
    MODULUS = 3
    WINDOW = 2
    MAX_ENTRIES = 2
    FIRST_SLOT = 0
    MAX_SLOT = 0
    p1 = p1
    p2 = p2
    r1 = r1
    r2 = r2
    PublicKeys = {p1}
    RpIds = {r1}
    RpIdOf <- MCRpIdOf
    Counting = {}
    Signers = {s1}
    UserPresence = {TRUE}
    Zero = Zero
    ClientParams = {c1}
    Instructions <- MCSimpleInstructions
    Expirations = {1}
    WORD = 16
    SESSION_KEY_EXPIRATION_LIMIT = 1
    MAX_SIGNATURES = 1
    MAX_TIME = 0
    MAX_ASSERTIONS = 2
    MAX_EFFECTS = 3
SPECIFICATION Spec
\* The bounds end every behaviour.
CHECK_DEADLOCK FALSE
INVARIANT
    SignaturesNotReused
