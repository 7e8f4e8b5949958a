-------------------------- MODULE PrecompileParser --------------------------
(***************************************************************************)
(* How the program finds the signature that the secp256r1 precompile has   *)
(* verified (src/utils/precompiles.rs).  The precompile and the program    *)
(* each interpret the same table of offsets, which may point into the data *)
(* of any instruction of the transaction, and the program reads other      *)
(* instructions without a bounds check.  The instructions of a transaction *)
(* run in order; the transaction fails as a whole when one of them fails.  *)
(*                                                                         *)
(* Bytes do not matter, only where they are read: a slice is its place.    *)
(* A Result is a set with at most one element, {} for every Err or panic.  *)
(***************************************************************************)
EXTENDS Integers, Sequences

CONSTANTS
    SIGNATURE_SIZE,          \* 64
    PUBLIC_KEY_SIZE,         \* 33
    SIGNATURE_OFFSETS_SIZE,  \* 14
    DATA_START,              \* 2, SECP256R1_NUM_SIGNATURES_SERIALIZED_SIZE
    U16_MAX,                 \* 2^16 - 1, the instruction itself
    MAX_SIGNATURES,          \* 8, the limit of the precompile
    Transactions             \* the instruction lists that are submitted

SignatureOffsets ==
    [signature_offset : 0..U16_MAX, signature_instruction_index : 0..U16_MAX,
     public_key_offset : 0..U16_MAX, public_key_instruction_index : 0..U16_MAX,
     message_data_offset : 0..U16_MAX, message_data_size : 0..U16_MAX,
     message_instruction_index : 0..U16_MAX]

\* The data of an instruction: its length, its byte 0, and the entries that
\* the bytes from DATA_START on decode to.  "wallet" is an instruction of this
\* program that verifies a payload.
Instruction ==
    [program_id : {"secp256r1", "wallet", "other"}, accounts : Nat, len : Nat,
     num : Nat, table : Seq(SignatureOffsets)]

ASSUME ParserAssumption ==
    /\ SIGNATURE_SIZE \in Nat /\ PUBLIC_KEY_SIZE \in Nat
    /\ SIGNATURE_OFFSETS_SIZE \in Nat /\ DATA_START \in Nat \ {0}
    /\ U16_MAX \in Nat /\ MAX_SIGNATURES \in Nat
    /\ Transactions \subseteq Seq(Instruction)
    /\ \A ixs \in Transactions :
          /\ Len(ixs) <= U16_MAX
          /\ \A k \in DOMAIN ixs :
                ixs[k].len >= DATA_START + SIGNATURE_OFFSETS_SIZE =>
                    1 \in DOMAIN ixs[k].table

VARIABLES
    instructions,  \* the instructions of the transaction, as in the sysvar
    current,       \* the number of instructions that have succeeded
    status,        \* of the transaction
    verified,      \* the payloads that the precompile has verified
    accepted       \* the payloads that wallet instructions have relied on

parserVars == <<instructions, current, status, verified, accepted>>

\* The place of a slice.  Instructions count from 0 in the sysvar.
Slice(index, offset, size) == [index |-> index, offset |-> offset, size |-> size]
InBounds(slice) ==
    /\ slice.index < Len(instructions)
    /\ slice.offset + slice.size <= instructions[slice.index + 1].len

SignaturePayload(signature, public_key, message) ==
    [signature |-> signature, public_key |-> public_key, message |-> message]

(***************************************************************************)
(* The precompile (external: the runtime).  It checks every bound.         *)
(***************************************************************************)
RuntimeSlice(own, index, offset, size) ==
    {s \in {Slice(IF index = U16_MAX THEN own ELSE index, offset, size)} :
        InBounds(s)}

RuntimePayloads(own, entry) ==
    {SignaturePayload(s, p, m) :
        s \in RuntimeSlice(own, entry.signature_instruction_index,
                           entry.signature_offset, SIGNATURE_SIZE),
        p \in RuntimeSlice(own, entry.public_key_instruction_index,
                           entry.public_key_offset, PUBLIC_KEY_SIZE),
        m \in RuntimeSlice(own, entry.message_instruction_index,
                           entry.message_data_offset, entry.message_data_size)}

\* Well formed, so that only the signatures themselves remain to be checked.
PrecompileAccepts(own) ==
    LET ix == instructions[own + 1]
    IN  /\ ix.num \in 1..MAX_SIGNATURES
        /\ ix.len >= DATA_START + ix.num * SIGNATURE_OFFSETS_SIZE
        /\ \A i \in 1..ix.num :
              i \in DOMAIN ix.table /\ RuntimePayloads(own, ix.table[i]) # {}

(***************************************************************************)
(* The sysvar (external: pinocchio and the runtime).  Before the data of   *)
(* instruction 0 come an even number of bytes and 33 for each account.     *)
(***************************************************************************)
load_instruction_at(index) == {k \in {index} : k < Len(instructions)}
DataIsAligned(index) == index = 0 /\ instructions[1].accounts % 2 = 0

(***************************************************************************)
(* PrecompileParser<Secp256r1Precompile>.  The parser is the index of its  *)
(* instruction.                                                            *)
(***************************************************************************)
new_any_program(index) == {index}  \* mutant: the id is not compared
new(index) == {k \in {index} : instructions[k + 1].program_id = "secp256r1"}

num_signatures(parser) ==
    {n \in {instructions[parser + 1].num} : instructions[parser + 1].len > 0}

get_data_slice_strict(index, offset, size) ==  \* mutant: < for <=
    {s \in {Slice(index, offset, size)} :
        offset + size < instructions[index + 1].len}
get_data_slice(index, offset, size) ==
    {s \in {Slice(index, offset, size)} :
        offset + size <= instructions[index + 1].len}

get_data_slice_raw(index, offset, size) == {Slice(index, offset, size)}

\* The match on the instruction index, once for each of the three slices.
slice_at_off_by_one(parser, index, offset, size) ==  \* mutant: counts from 1
    IF index = U16_MAX THEN get_data_slice(parser, offset, size)
    ELSE UNION {get_data_slice_raw(k, offset, size) :
                    k \in load_instruction_at(index + 1)}
slice_at(parser, index, offset, size) ==
    IF index = U16_MAX THEN get_data_slice(parser, offset, size)
    ELSE UNION {get_data_slice_raw(k, offset, size) :
                    k \in load_instruction_at(index)}

\* The table entry of signature `index`, which counts from 0.
entry_at(parser, index) ==
    {instructions[parser + 1].table[i] :
        i \in {k \in {index + 1} :
                 /\ DATA_START + SIGNATURE_OFFSETS_SIZE * k
                        <= instructions[parser + 1].len
                 /\ DataIsAligned(parser)}}

get_signature_payload(parser, index) ==
    UNION {{SignaturePayload(s, p, m) :
        s \in slice_at(parser, e.signature_instruction_index,
                       e.signature_offset, SIGNATURE_SIZE),
        p \in slice_at(parser, e.public_key_instruction_index,
                       e.public_key_offset, PUBLIC_KEY_SIZE),
        m \in slice_at(parser, e.message_instruction_index,
                       e.message_data_offset, e.message_data_size)} :
        e \in {t \in entry_at(parser, index) :
                 \E n \in num_signatures(parser) : index < n}}

\* The head of verify_payload: exactly one signature, in instruction 0.
precompile_payload ==
    UNION {get_signature_payload(p, 0) :
             p \in {q \in UNION {new(k) : k \in load_instruction_at(0)} :
                      num_signatures(q) = {1}}}

(***************************************************************************)
(* The transaction                                                         *)
(***************************************************************************)
Running(program_id) ==
    /\ status = "running" /\ current < Len(instructions)
    /\ instructions[current + 1].program_id = program_id

Advance == current' = current + 1 /\ UNCHANGED <<instructions, status>>

RunPrecompile ==
    /\ Running("secp256r1") /\ PrecompileAccepts(current)
    /\ verified' = verified \cup
         UNION {RuntimePayloads(current, instructions[current + 1].table[i]) :
                  i \in 1..instructions[current + 1].num}
    /\ Advance /\ UNCHANGED accepted

RunWallet ==
    /\ Running("wallet")
    /\ \E payload \in precompile_payload : accepted' = accepted \cup {payload}
    /\ Advance /\ UNCHANGED verified

RunOther == Running("other") /\ Advance /\ UNCHANGED <<verified, accepted>>

\* An instruction fails: a forged signature, a malformed table, a payload the
\* parser rejects, or another program for reasons of its own.  What a wallet
\* instruction rejects after it has its payload is in ExternalSignature.
Fail ==
    /\ \/ Running("secp256r1") \/ Running("other")
       \/ Running("wallet") /\ precompile_payload = {}
    /\ status' = "failed"
    /\ UNCHANGED <<instructions, current, verified, accepted>>

CommitTransaction ==
    /\ status = "running" /\ current = Len(instructions)
    /\ status' = "committed"
    /\ UNCHANGED <<instructions, current, verified, accepted>>

ParserInit ==
    /\ instructions \in Transactions
    /\ current = 0
    /\ status = "running"
    /\ verified = {}
    /\ accepted = {}

ParserNext ==
    RunPrecompile \/ RunWallet \/ RunOther \/ Fail \/ CommitTransaction

ParserSpec == ParserInit /\ [][ParserNext]_parserVars

(***************************************************************************)
(* Properties                                                              *)
(***************************************************************************)
\* PrecompileParser: the signature, key and message a wallet instruction
\* relies on are the very bytes that the precompile has verified together,
\* wherever the table makes the two of them look.
PayloadVerified == accepted \subseteq verified

\* get_data_slice_raw: no bounds are checked, and none are crossed, because
\* the precompile has run before on the same table.
RawSlicesInBounds ==
    \A p \in accepted :
        InBounds(p.signature) /\ InBounds(p.public_key) /\ InBounds(p.message)

\* get_signature_payload rejects nothing that the precompile has accepted: a
\* wallet instruction behind a precompile instruction of one signature always
\* gets its payload, unless an odd number of accounts is listed for that
\* instruction (the SDKs list none), which leaves its table at an odd address.
ParserComplete ==
    status = "failed" /\ instructions[current + 1].program_id = "wallet" =>
        ~ /\ instructions[1].program_id = "secp256r1"
          /\ instructions[1].accounts % 2 = 0
          /\ instructions[1].num = 1

=============================================================================
