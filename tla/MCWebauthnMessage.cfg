\* A hash of two bytes, a counter of two.
CONSTANTS
    BASE = 3
    HASH_LENGTH = 2
    MAX_RP_ID = 3
    RpIds <- MCRpIds
    Challenges = {"c1", "c2"}
    Ceremonies <- MCCeremonies
    Flags <- MCFlags
    Ports = {"3000", "8080"}
SPECIFICATION MessageSpec
\* A ceremony ends.
CHECK_DEADLOCK FALSE
INVARIANTS
    AcceptedIsSigned
    HonestAccepted
