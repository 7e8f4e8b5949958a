CONSTANTS
    Keys = {"wallet", "execution", "signer", "other", "called", "program", "instructions", "slots"}
    PROGRAM_ID = "program"
    INSTRUCTIONS_SYSVAR = "instructions"
    SLOT_HASHES_ID = "slots"
    PASSKEY_ACCOUNT = "wallet"
    EXECUTION_ACCOUNT = "execution"
    SIGNER = "signer"
    RESERVED = {"instructions", "slots", "program"}
    MAX_INFOS = 6
    Datas = {"d"}
    Clients <- MCClients
    Requests <- MCRequests
SPECIFICATION SdkSpec
\* A request ends.
CHECK_DEADLOCK FALSE
INVARIANTS
    ChallengeMatches
