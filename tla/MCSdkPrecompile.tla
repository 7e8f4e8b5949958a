-------------------------- MODULE MCSdkPrecompile ---------------------------
(***************************************************************************)
(* All signatures over a curve of order 7, in fields of four bits, with    *)
(* messages from empty to one byte too long; up to one other instruction   *)
(* in front of and after the precompile's.                                 *)
(*                                                                         *)
(* Without the SDK, transactions of two instructions.  The first may be a  *)
(* precompile or another program's instruction with the same data; its     *)
(* table points inside, to the last byte of, or one past either            *)
(* instruction, or to an instruction that does not exist.                  *)
(***************************************************************************)
EXTENDS SdkPrecompile

KeyInWallet(before, between) ==
    {[index |-> before + between + 1, offset |-> o] : o \in {0, SDK_DATA_START}}

MCClients ==
    UNION {{Client(r, s, m, k, b, t) :
               r \in {1, 6, 8, FIELD_MAX + 1}, s \in 0..(FIELD_MAX + 1),
               m \in {0, 1, 5, U16_MAX, U16_MAX + 1},
               k \in {{}} \cup {{w} : w \in KeyInWallet(b, t)}}
           : b \in 0..1, t \in 0..1}

Indices == {0, 1, 2, U16_MAX}

Offsets(s, si, p, pi, size, mi) ==
    [signature_offset |-> s, signature_instruction_index |-> si,
     public_key_offset |-> p, public_key_instruction_index |-> pi,
     message_data_offset |-> 5, message_data_size |-> size,
     message_instruction_index |-> mi]

\* An entry that points inside any instruction of at least 8 bytes.
Inside == Offsets(5, U16_MAX, 7, U16_MAX, 1, U16_MAX)

MCTables ==
    {<<Offsets(s, si, p, pi, size, mi), Inside>> :
        s \in 6..7, p \in 7..8, size \in 3..4,
        si \in Indices, pi \in Indices, mi \in Indices}

FirstInstructions ==
    [program_id : {"secp256r1", "wallet", "other"}, accounts : {0},
     len : {0, 5, 8}, num : 0..2, table : MCTables]
        \cup [program_id : {"secp256r1"}, accounts : {1, 2}, len : {8},
              num : {1}, table : {<<Inside, Inside>>}]

SecondInstructions ==
    [program_id : {"wallet", "secp256r1"}, accounts : {0}, len : {0, 8},
     num : {1}, table : {<<Inside, Inside>>}]

MCTransactions == {<<a, b>> : a \in FirstInstructions, b \in SecondInstructions}
=============================================================================
