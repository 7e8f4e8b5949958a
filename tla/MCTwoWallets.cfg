\* Two passkeys, one without a counter, a foreign relying party, assertions
\* without user presence, and instruction lists that fail, re-enter, or assign
\* the execution account to the program.
CONSTANTS
    MODULUS = 3
    WINDOW = 2
    MAX_ENTRIES = 2
    FIRST_SLOT = 0
    MAX_SLOT = 0
    p1 = p1
    p2 = p2
    r1 = r1
    r2 = r2
    PublicKeys = {p1, p2}
    RpIds = {r1, r2}
    RpIdOf <- MCRpIdOf
    Counting = {p2}
    Signers = {s1}
    UserPresence = {TRUE, FALSE}
    Zero = Zero
    ClientParams = {c1}
    Instructions <- MCInstructions
    Expirations = {1}
    WORD = 16
    SESSION_KEY_EXPIRATION_LIMIT = 1
    MAX_SIGNATURES = 2
    MAX_TIME = 0
    MAX_ASSERTIONS = 2
    MAX_EFFECTS = 4
SPECIFICATION Spec
\* The bounds end every behaviour.
CHECK_DEADLOCK FALSE
INVARIANTS
    AccountIdentity
    ExecutesAsOwnAccount
