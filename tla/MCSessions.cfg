\* The u64 edges of session expirations on a 4-bit word: 1, the limit plus one
\* (rejected as a duration), and 15, which is -1 as an i64; enough ticks for the
\* clock to pass the limit.  A counterless passkey, so that refreshes can be
\* repeated and reordered; one Solana key: that a replaced key stops working is
\* MCWallet.cfg's.  No symmetry: it is unsound for liveness.
CONSTANTS
    MODULUS = 3
    WINDOW = 2
    MAX_ENTRIES = 2
    FIRST_SLOT = 0
    MAX_SLOT = 2
    p1 = p1
    p2 = p2
    r1 = r1
    r2 = r2
    PublicKeys = {p1}
    RpIds = {r1}
    RpIdOf <- MCRpIdOf
    Counting = {}
    Signers = {s1}
    UserPresence = {TRUE}
    Zero = Zero
    ClientParams = {c1}
    Instructions <- MCSimpleInstructions
    Expirations = {1, 2, 15}
    WORD = 16
    SESSION_KEY_EXPIRATION_LIMIT = 1
    MAX_SIGNATURES = 1
    MAX_TIME = 2
    MAX_ASSERTIONS = 2
    MAX_EFFECTS = 3
SPECIFICATION FairSpec
\* The bounds end every behaviour.
CHECK_DEADLOCK FALSE
INVARIANTS
    SessionAuthority
    SessionOrigin
PROPERTIES
    SessionsLapse
