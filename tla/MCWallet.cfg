\* One counting passkey, two Solana keys: payer, nonce signer and session key
\* may be the same or different, and one session key may replace another.
\* Slots 0..2 with a window of 2 let an approval expire; the clock stands still,
\* session expiry is MCSessions.cfg's.
CONSTANTS
    MODULUS = 3
    WINDOW = 2
    MAX_ENTRIES = 2
    FIRST_SLOT = 0
    MAX_SLOT = 2
    p1 = p1
    p2 = p2
    r1 = r1
    r2 = r2
    PublicKeys = {p1}
    RpIds = {r1}
    RpIdOf <- MCRpIdOf
    Counting = {p1}
    Signers = {s1, s2}
    UserPresence = {TRUE}
    Zero = Zero
    ClientParams = {c1}
    Instructions <- MCSimpleInstructions
    Expirations = {1}
    WORD = 16
    SESSION_KEY_EXPIRATION_LIMIT = 1
    MAX_SIGNATURES = 1
    MAX_TIME = 0
    MAX_ASSERTIONS = 2
    MAX_EFFECTS = 3
SYMMETRY Symmetry
SPECIFICATION Spec
\* The bounds end every behaviour.
CHECK_DEADLOCK FALSE
INVARIANTS
    TypeOK
    ApprovedByPasskey
    CounterOrder
    CounterMatchesEffects
    NextApprovalAccepted
    SessionAuthority
PROPERTIES
    CommittedIdentity
    KeepsPromise
