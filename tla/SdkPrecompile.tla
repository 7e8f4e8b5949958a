--------------------------- MODULE SdkPrecompile ----------------------------
(***************************************************************************)
(* The precompile instruction that the SDKs build, in the transaction that *)
(* carries it: create_secp256r1_instruction lays out key, signature and    *)
(* message and writes the table that points to them; the precompile        *)
(* (external) and then the program read that table.                        *)
(*                                                                         *)
(* A signature is a pair of numbers.  With (r, s) also (r, ORDER - s) is   *)
(* a signature of the same message; WebAuthn authenticators produce either *)
(* one, the precompile accepts only the one with the lower s.              *)
(*                                                                         *)
(* Transactions that are not made with the SDK are there too: those of     *)
(* PrecompileParser.                                                       *)
(***************************************************************************)
EXTENDS PrecompileParser

CONSTANTS
    ORDER,      \* of the curve
    FIELD_MAX,  \* the largest number of FIELD_SIZE bytes
    Clients     \* what callers ask of the SDK

ASSUME CurveAssumption ==
    /\ ORDER \in Nat /\ ORDER % 2 = 1
    /\ FIELD_MAX \in Nat /\ ORDER <= FIELD_MAX

(* `message` is a length; `key` is {} or where the caller has the key: an  *)
(* instruction and an offset; `before` and `between` are the numbers of    *)
(* other instructions in front of the precompile's and after it.           *)
Client(r, s, message, key, before, between) ==
    [r |-> r, s |-> s, message |-> message, key |-> key, before |-> before,
     between |-> between]

HALF_ORDER == (ORDER - 1) \div 2

VARIABLES
    client,   \* the caller's request: {} without the SDK, {c} with it
    compact   \* the signature as it was put into the instruction

sdkVars == <<client, compact>>

-----------------------------------------------------------------------------
(* parse_der_signature_to_compact: both numbers must fit their 32 bytes; a *)
(* high s is replaced by the distance to the order.                        *)
low_s_kept(s) == s  \* mutant
low_s(s) == IF s > HALF_ORDER THEN (IF s > ORDER THEN s - ORDER ELSE ORDER - s) ELSE s

parse_der_signature_to_compact(r, s) ==
    IF r > FIELD_MAX \/ s > FIELD_MAX THEN {} ELSE {[r |-> r, s |-> low_s(s)]}

AS_U16 == U16_MAX + 1

(* DATA_START of the precompile's crate lies behind the first entry.       *)
SDK_DATA_START == DATA_START + SIGNATURE_OFFSETS_SIZE

signature_offset(c) == IF c.key = {} THEN SDK_DATA_START + PUBLIC_KEY_SIZE ELSE SDK_DATA_START

Secp256r1SignatureOffsets(c) ==
    [signature_offset |-> signature_offset(c) % AS_U16,
     signature_instruction_index |-> U16_MAX,
     public_key_offset |->
         IF c.key = {} THEN SDK_DATA_START ELSE (CHOOSE k \in c.key : TRUE).offset,
     public_key_instruction_index |->
         IF c.key = {} THEN U16_MAX ELSE (CHOOSE k \in c.key : TRUE).index,
     message_data_offset |-> (signature_offset(c) + SIGNATURE_SIZE) % AS_U16,
     message_data_size |-> c.message % AS_U16,
     message_instruction_index |-> U16_MAX]

(* What is appended after the table, in this order: the key if it is not   *)
(* elsewhere, the signature, the message.                                  *)
Appended(c) ==
    LET key == IF c.key = {} THEN PUBLIC_KEY_SIZE ELSE 0
    IN [key |-> SDK_DATA_START, signature |-> SDK_DATA_START + key,
        message |-> SDK_DATA_START + key + SIGNATURE_SIZE,
        len |-> SDK_DATA_START + key + SIGNATURE_SIZE + c.message]

create_secp256r1_instruction(c) ==
    IF c.message > U16_MAX \/ parse_der_signature_to_compact(c.r, c.s) = {} THEN {}
    ELSE {[program_id |-> "secp256r1", accounts |-> 0, len |-> Appended(c).len, num |-> 1,
           table |-> <<Secp256r1SignatureOffsets(c)>>]}

-----------------------------------------------------------------------------
Plain(c, program, len) ==
    [program_id |-> program, accounts |-> 0, len |-> len, num |-> 0,
     table |-> <<Secp256r1SignatureOffsets(c)>>]

(* The transaction the caller assembles: the wallet instruction last, with *)
(* the key among its data.                                                 *)
Assembled(c, precompile) ==
    [i \in 1..c.before |-> Plain(c, "other", 0)] \o <<precompile>>
        \o [i \in 1..c.between |-> Plain(c, "other", 0)]
        \o <<Plain(c, "wallet", SDK_DATA_START + PUBLIC_KEY_SIZE)>>

SdkInit ==
    /\ compact = {}
    /\ \/ /\ client \in {{c} : c \in Clients}
          /\ instructions = <<>> /\ current = 0 /\ status = "building"
          /\ verified = {} /\ accepted = {}
       \/ client = {} /\ ParserInit

CreateInstruction ==
    /\ status = "building"
    /\ \E c \in client :
          IF create_secp256r1_instruction(c) = {}
          THEN status' = "refused" /\ UNCHANGED <<instructions, compact>>
          ELSE /\ compact' = parse_der_signature_to_compact(c.r, c.s)
               /\ \E p \in create_secp256r1_instruction(c) :
                      instructions' = Assembled(c, p)
               /\ status' = "running"
    /\ UNCHANGED <<client, current, verified, accepted>>

(* The precompile's check of the signature itself (external): the message  *)
(* and the key are the right ones only where the table points to what was  *)
(* appended.  A transaction without the SDK may have any signatures.       *)
Genuine ==
    \A c \in client :
        LET placed == Appended(c)
            entry == instructions[c.before + 1].table[1]
        IN  /\ \E g \in compact :
                   /\ g.r \in 1..(ORDER - 1) /\ g.s \in 1..HALF_ORDER
                   /\ g.r = c.r /\ (g.s = c.s \/ g.s = ORDER - c.s)
            /\ entry.signature_offset = placed.signature
            /\ entry.message_data_offset = placed.message
            /\ entry.message_data_size = c.message
            /\ c.key = {} => entry.public_key_offset = placed.key

RunSdkPrecompile == RunPrecompile /\ Genuine /\ UNCHANGED sdkVars
RunSdkWallet == RunWallet /\ UNCHANGED sdkVars
RunSdkOther == RunOther /\ UNCHANGED sdkVars
SdkFail ==
    /\ Fail
    /\ client # {} =>
          /\ ~Running("other")
          /\ Running("secp256r1") => ~(PrecompileAccepts(current) /\ Genuine)
    /\ UNCHANGED sdkVars
SdkCommit == CommitTransaction /\ UNCHANGED sdkVars

SdkNext ==
    CreateInstruction \/ RunSdkPrecompile \/ RunSdkWallet \/ RunSdkOther \/ SdkFail \/ SdkCommit

SdkSpec ==
    /\ SdkInit
    /\ [][SdkNext]_<<parserVars, sdkVars>>
    /\ WF_<<parserVars, sdkVars>>(SdkNext)

-----------------------------------------------------------------------------
(* The authenticator's signature is a pair of numbers below the order.     *)
FromAuthenticator(c) == c.r \in 1..(ORDER - 1) /\ c.s \in 1..(ORDER - 1)

(* create_secp256r1_instruction: every signature an authenticator may      *)
(* produce, with a low or a high s, the key in this instruction or in      *)
(* another and a message of any length up to the limit, is accepted by     *)
(* precompile and program when the instruction is the first of its         *)
(* transaction, and what the program relies on then is the signature and   *)
(* the message that were appended.  Behind any other instruction it is     *)
(* worthless: the transaction fails, however good the signature.           *)
SdkSignatureAccepted ==
    /\ (\E c \in client : FromAuthenticator(c) /\ c.message <= U16_MAX /\ c.before = 0)
           => <>(/\ status = "committed" /\ accepted # {}
                 /\ \A c \in client, p \in accepted :
                        /\ p.message = Slice(0, Appended(c).message, c.message)
                        /\ p.signature = Slice(0, Appended(c).signature, SIGNATURE_SIZE))
    /\ (\E c \in client : c.before > 0)
           => <>[](status \in {"refused", "failed"} /\ accepted = {})
=============================================================================
