---------------------------- MODULE SdkExecution ----------------------------
(***************************************************************************)
(* The client's half of an execution composed with the program's loop.     *)
(* The SDKs (sdks/rust-sdk/src/instructions/execute.rs and                 *)
(* execute_sessioned.rs; sdks/ts-sdk does the same) compile the wanted     *)
(* instructions as a legacy message, recover the privileges of every key   *)
(* from the header counts, and append the keys to the accounts the handler *)
(* itself needs.  The runtime passes an account with the privileges of all *)
(* its mentions in the transaction merged, and a reserved account never    *)
(* writable.  Requests of other clients are those of InstructionLoop: any  *)
(* accounts, any indices.                                                  *)
(*                                                                         *)
(* PDAs cannot sign a transaction: callers clear is_signer on the wallet   *)
(* and its execution account first (tests/litesvm_integration.rs).         *)
(***************************************************************************)
EXTENDS InstructionLoop, SequencesExt

CONSTANTS
    INSTRUCTIONS_SYSVAR, SLOT_HASHES_ID,
    PASSKEY_ACCOUNT,    \* the wallet
    EXECUTION_ACCOUNT,  \* its execution account
    SIGNER,             \* the nonce signer, or the session signer
    RESERVED,           \* sysvars, built-in programs, the program called
    Clients             \* the wanted executions

VARIABLE client   \* what was asked of the SDK: {} without it, {c} with it

sdkVars == <<client, loopVars>>

\* An Instruction of solana_program: accounts are metas, not indices.
Instruction == [program_id : Keys, accounts : Seq(AccountInfo), data : Datas]

\* What a caller asks of the SDK.
Client ==
    [sessioned : BOOLEAN, scheme : SignerExecutionScheme, fee_payer : Keys,
     instructions : Seq(Instruction)]

ASSUME ClientsAssumption ==
    /\ Clients \subseteq Client
    /\ {PASSKEY_ACCOUNT, EXECUTION_ACCOUNT, SIGNER} \subseteq Keys
    /\ RESERVED \subseteq Keys \ {PASSKEY_ACCOUNT, EXECUTION_ACCOUNT, SIGNER}

\* A mention of an account with privileges: an AccountMeta of solana_program.
Mention(key, is_signer, is_writable) ==
    [key |-> key, is_signer |-> is_signer, is_writable |-> is_writable]

(***************************************************************************)
(* Message::new: the payer first, then the keys by privileges.             *)
(***************************************************************************)
Mentions(instructions) ==
    (UNION {ToSet(instructions[i].accounts) : i \in DOMAIN instructions})
        \cup {Mention(instructions[i].program_id, FALSE, FALSE) : i \in DOMAIN instructions}

\* The privileges of a key over all its mentions.
Merged(mentions, key) ==
    Mention(key, \E n \in mentions : n.key = key /\ n.is_signer,
                 \E n \in mentions : n.key = key /\ n.is_writable)

Message(instructions, payer) ==
    LET mentions == Mentions(instructions)
        Group(is_signer, is_writable) ==
            SetToSeq({k \in {n.key : n \in mentions} \ {payer} :
                        Merged(mentions, k) = Mention(k, is_signer, is_writable)})
        writable_signers == <<payer>> \o Group(TRUE, TRUE)
        readonly_signers == Group(TRUE, FALSE)
        readonly_others == Group(FALSE, FALSE)
    IN  [account_keys |-> writable_signers \o readonly_signers
                            \o Group(FALSE, TRUE) \o readonly_others,
         num_required_signatures |-> Len(writable_signers) + Len(readonly_signers),
         num_readonly_signed_accounts |-> Len(readonly_signers),
         num_readonly_unsigned_accounts |-> Len(readonly_others)]

(***************************************************************************)
(* The SDK.                                                                *)
(***************************************************************************)
Privileges(message, i, writable_signed_end, signed_end, writable_unsigned_end) ==
    Mention(message.account_keys[i], i <= signed_end,
            IF i <= signed_end THEN i <= writable_signed_end
            ELSE i <= writable_unsigned_end)

\* Mutants: the counts of read-only accounts are swapped; the key after the
\* signers counts as a signer.
account_meta_swapped(message, i) ==
    Privileges(message, i,
        message.num_required_signatures - message.num_readonly_unsigned_accounts,
        message.num_required_signatures,
        Len(message.account_keys) - message.num_readonly_signed_accounts)
account_meta_signed_end(message, i) ==
    Privileges(message, i,
        message.num_required_signatures - message.num_readonly_signed_accounts,
        message.num_required_signatures + 1,
        Len(message.account_keys) - message.num_readonly_unsigned_accounts)

\* The privileges of a key, from its position and the header.
account_meta(message, i) ==
    Privileges(message, i,
        message.num_required_signatures - message.num_readonly_signed_accounts,
        message.num_required_signatures,
        Len(message.account_keys) - message.num_readonly_unsigned_accounts)

\* The u8 index of a key in a compiled instruction, from 0.
account_index_from_one(message, key) ==  \* mutant
    CHOOSE i \in DOMAIN message.account_keys : message.account_keys[i] = key
account_index(message, key) ==
    (CHOOSE i \in DOMAIN message.account_keys : message.account_keys[i] = key) - 1

compile_instructions_for_execution(instructions, payer) ==
    LET message == Message(instructions, payer)
        Compile(wanted) ==
            [program_id_index |-> account_index(message, wanted.program_id),
             accounts_indices |-> [j \in DOMAIN wanted.accounts |->
                                    account_index(message, wanted.accounts[j].key)],
             data |-> wanted.data]
    IN  [account_metas |-> [i \in DOMAIN message.account_keys |-> account_meta(message, i)],
         instructions |-> [c \in DOMAIN instructions |-> Compile(instructions[c])]]

Compiled(c) == compile_instructions_for_execution(c.instructions, SIGNER)

\* The accounts in front of the compiled ones.
execute_instructions ==
    <<Mention(PASSKEY_ACCOUNT, FALSE, TRUE),
      Mention(INSTRUCTIONS_SYSVAR, FALSE, FALSE),
      Mention(SLOT_HASHES_ID, FALSE, FALSE),
      Mention(SIGNER, TRUE, TRUE)>>
execute_instructions_sessioned ==
    <<Mention(PASSKEY_ACCOUNT, FALSE, TRUE), Mention(SIGNER, TRUE, FALSE)>>

Leading(c) == IF c.sessioned THEN execute_instructions_sessioned
              ELSE execute_instructions

\* What the transaction adds to the privileges in the compiled list.
Outer(c) == ToSet(Leading(c)) \cup {Mention(c.fee_payer, TRUE, TRUE)}

\* What the runtime passes of a key: a reserved account is demoted.
Granted(mentions, key) ==
    LET merged == Merged(mentions, key)
    IN  Mention(key, merged.is_signer, merged.is_writable /\ key \notin RESERVED)

\* The request as the handler sees it.
Delivered(c) ==
    LET compiled == Compiled(c)
        metas == compiled.account_metas
        mentions == ToSet(metas) \cup Outer(c)
    IN  [accounts |-> [i \in DOMAIN metas |-> Granted(mentions, metas[i].key)],
         execution_account |-> IF c.scheme = "ExternalAccount" THEN PASSKEY_ACCOUNT
                               ELSE EXECUTION_ACCOUNT,
         scheme |-> c.scheme,
         instructions |-> compiled.instructions]

\* What the program hashes of the accounts and instructions, and what
\* createExecuteInstructionsChallenge does.
instruction_payload_granted ==  \* mutant: the metas of the CPIs
    [accounts |-> instruction_execution_account_metas, instructions |-> request.instructions]
instruction_payload ==
    [accounts |-> request.accounts, instructions |-> request.instructions]
createExecuteInstructionsChallenge(c) ==
    LET compiled == Compiled(c)
    IN  [accounts |-> compiled.account_metas, instructions |-> compiled.instructions]

SdkInit ==
    \/ \E c \in Clients : client = {c} /\ LoopStart(Delivered(c))
    \/ client = {} /\ LoopInit
SdkNext == LoopNext /\ UNCHANGED client
SdkSpec == SdkInit /\ [][SdkNext]_sdkVars

(***************************************************************************)
(* Properties                                                              *)
(***************************************************************************)

(***************************************************************************)
(* The CPIs are the instructions the caller wanted: compiling to indices,  *)
(* the header counts, the merge in the transaction and the loop lose no    *)
(* account and no privilege, except that a wallet that signs itself is     *)
(* read-only, and so is a reserved account; and the executing PDA signs    *)
(* wherever it is listed.                                                  *)
(***************************************************************************)
SdkRoundTrip ==
    \A asked \in client :
        /\ status = "done" => Len(invoked) = Len(asked.instructions)
        /\ \A c \in DOMAIN invoked :
              LET wanted == asked.instructions[c]
                  cpi == invoked[c]
              IN  /\ cpi.program_id = wanted.program_id /\ cpi.data = wanted.data
                  /\ DOMAIN cpi.metas = DOMAIN wanted.accounts
                  /\ \A j \in DOMAIN cpi.metas :
                        LET meta == cpi.metas[j]
                            executing == meta.key = request.execution_account
                        IN  /\ meta.key = wanted.accounts[j].key
                            /\ wanted.accounts[j].is_signer \/ executing => meta.is_signer
                            /\ wanted.accounts[j].is_writable =>
                                  \/ meta.is_writable
                                  \/ meta.key \in RESERVED
                                  \/ executing /\ asked.scheme = "ExternalAccount"

(***************************************************************************)
(* Nothing is added either: an account that signs or is writable in a CPI  *)
(* was wanted so in one of the instructions, or is the PDA, the signer,    *)
(* the fee payer, or the wallet, which the handler needs writable.         *)
(***************************************************************************)
NothingAdded ==
    \A asked \in client : \A c \in DOMAIN invoked :
        \A j \in DOMAIN invoked[c].metas :
            LET meta == invoked[c].metas[j]
                wanted == Merged(Mentions(asked.instructions), meta.key)
            IN  meta.key \notin {SIGNER, asked.fee_payer} =>
                  /\ meta.is_signer =>
                        wanted.is_signer \/ meta.key = request.execution_account
                  /\ meta.is_writable =>
                        wanted.is_writable \/ meta.key = PASSKEY_ACCOUNT

(***************************************************************************)
(* A list the SDK made, of at most MAX_INFOS keys and without the program  *)
(* itself, never runs into a panic of the loop: every index it holds stays *)
(* within the accounts and within seen_indices, and none leads back to the *)
(* program.                                                                *)
(***************************************************************************)
SdkListsNeverPanic ==
    \A asked \in client :
        /\ Looping /\ Len(request.accounts) <= MAX_INFOS
        /\ \A i \in DOMAIN asked.instructions : asked.instructions[i].program_id # PROGRAM_ID
        =>
        /\ instruction.program_id_index < Len(request.accounts)
        /\ request.accounts[instruction.program_id_index + 1].key # PROGRAM_ID
        /\ Collecting => in_bounds(index)

(***************************************************************************)
(* The SDK promises a "matching challenge" with the wrapper it builds      *)
(* (sdks/ts-sdk/src/instructions.ts): the hash the passkey signs is the    *)
(* hash the program computes.                                              *)
(***************************************************************************)
ChallengeMatches ==
    \A c \in client :
        ~c.sessioned => createExecuteInstructionsChallenge(c) = instruction_payload

(***************************************************************************)
(* It does match when the transaction changes no privilege of a compiled   *)
(* account: no leading account nor the fee payer has more than it has      *)
(* among the wanted instructions, if it is there, and no reserved account  *)
(* is wanted writable.                                                     *)
(***************************************************************************)
ChallengeMatchesUnlessChanged ==
    (\A c \in client : \A meta \in ToSet(Compiled(c).account_metas) :
        /\ meta.is_writable => meta.key \notin RESERVED
        /\ \A n \in Outer(c) : n.key = meta.key =>
              (n.is_signer => meta.is_signer) /\ (n.is_writable => meta.is_writable))
        => ChallengeMatches
=============================================================================
