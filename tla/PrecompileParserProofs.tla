----------------------- MODULE PrecompileParserProofs -----------------------
(***************************************************************************)
(* The program and the precompile agree on every transaction, of any       *)
(* number of instructions, with any table and any sizes.                   *)
(*                                                                         *)
(* The invariant carries what the order of instructions gives: once a      *)
(* wallet instruction runs, a precompile at index 0 has been accepted, so  *)
(* its slices are in bounds, and where the precompile finds a slice in     *)
(* bounds the parser's two ways of slicing find the same one.              *)
(***************************************************************************)
EXTENDS PrecompileParser, TLAPS

TxTypeOK ==
    /\ instructions \in Transactions
    /\ current \in 0..Len(instructions)

\* A precompile at index 0 has verified its payloads before the others run.
FirstAccepted ==
    current > 0 /\ instructions[1].program_id = "secp256r1" =>
        /\ PrecompileAccepts(0)
        /\ \A i \in 1..instructions[1].num :
              RuntimePayloads(0, instructions[1].table[i]) \subseteq verified

VerifiedInBounds ==
    \A p \in verified :
        InBounds(p.signature) /\ InBounds(p.public_key) /\ InBounds(p.message)

\* A wallet instruction has failed in the parser.
FailedInParser ==
    status = "failed" =>
        /\ current < Len(instructions)
        /\ instructions[current + 1].program_id = "wallet" =>
               precompile_payload = {}

ParserInv ==
    TxTypeOK /\ FirstAccepted /\ VerifiedInBounds /\ PayloadVerified
        /\ FailedInParser

LEMMA InstructionFacts ==
    ASSUME TxTypeOK, NEW k \in 1..Len(instructions)
    PROVE  /\ instructions \in Seq(Instruction) /\ Len(instructions) \in Nat
           /\ Len(instructions) <= U16_MAX /\ U16_MAX \in Nat
           /\ instructions[k] \in Instruction
           /\ instructions[k].len \in Nat /\ instructions[k].num \in Nat
           /\ \A i \in DOMAIN instructions[k].table :
                 instructions[k].table[i] \in SignatureOffsets
PROOF
<1>1. instructions \in Seq(Instruction) /\ Len(instructions) <= U16_MAX
  BY ParserAssumption DEF TxTypeOK
<1>2. instructions[k] \in Instruction
  BY <1>1
<1>3. \A i \in DOMAIN instructions[k].table :
          instructions[k].table[i] \in SignatureOffsets
  BY <1>2 DEF Instruction
<1> QED
  BY <1>1, <1>2, <1>3, ParserAssumption DEF Instruction

\* slice_at: a slice that the precompile finds is the one the parser finds.
LEMMA SlicesAgree ==
    ASSUME TxTypeOK, NEW index \in 0..U16_MAX, NEW offset, NEW size,
           RuntimeSlice(0, index, offset, size) # {}
    PROVE  slice_at(0, index, offset, size) = RuntimeSlice(0, index, offset, size)
PROOF
<1>1. CASE index = U16_MAX
  <2>1. RuntimeSlice(0, index, offset, size) = {Slice(0, offset, size)}
        /\ InBounds(Slice(0, offset, size))
    BY <1>1 DEF RuntimeSlice
  <2>2. Slice(0, offset, size).index = 0 /\ Slice(0, offset, size).offset = offset
        /\ Slice(0, offset, size).size = size
    BY DEF Slice
  <2>3. offset + size <= instructions[0 + 1].len
    BY <2>1, <2>2 DEF InBounds
  <2>4. slice_at(0, index, offset, size) = {Slice(0, offset, size)}
    BY <1>1, <2>3 DEF slice_at, get_data_slice
  <2> QED
    BY <2>1, <2>4
<1>2. CASE index # U16_MAX
  <2>1. RuntimeSlice(0, index, offset, size) = {Slice(index, offset, size)}
        /\ InBounds(Slice(index, offset, size))
    BY <1>2 DEF RuntimeSlice
  <2>2. Slice(index, offset, size).index = index
    BY DEF Slice
  <2>3. index < Len(instructions)
    BY <2>1, <2>2 DEF InBounds
  <2>4. load_instruction_at(index) = {index}
    BY <2>3 DEF load_instruction_at
  <2>5. slice_at(0, index, offset, size) = {Slice(index, offset, size)}
    BY <1>2, <2>4 DEF slice_at, get_data_slice_raw
  <2> QED
    BY <2>1, <2>5
<1> QED
  BY <1>1, <1>2

\* get_signature_payload, once the precompile has accepted: its payload and no
\* other, unless the table is not aligned.
LEMMA PayloadsAgree ==
    ASSUME TxTypeOK, Len(instructions) > 0, PrecompileAccepts(0),
           instructions[1].num = 1
    PROVE  get_signature_payload(0, 0) =
             IF DataIsAligned(0)
             THEN RuntimePayloads(0, instructions[1].table[1]) ELSE {}
PROOF
<1> DEFINE e == instructions[1].table[1]
<1>1. 1 \in 1..Len(instructions)
  BY ParserAssumption DEF TxTypeOK
<1>2. /\ 1 \in DOMAIN instructions[1].table
      /\ RuntimePayloads(0, e) # {}
      /\ instructions[1].len >= DATA_START + SIGNATURE_OFFSETS_SIZE
  <2>1. instructions[0 + 1] = instructions[1]
    OBVIOUS
  <2> QED
    BY <2>1, ParserAssumption DEF PrecompileAccepts
<1>3. e \in SignatureOffsets /\ instructions[1].len \in Nat
  BY <1>1, <1>2, InstructionFacts
<1>4. /\ RuntimeSlice(0, e.signature_instruction_index, e.signature_offset,
                      SIGNATURE_SIZE) # {}
      /\ RuntimeSlice(0, e.public_key_instruction_index, e.public_key_offset,
                      PUBLIC_KEY_SIZE) # {}
      /\ RuntimeSlice(0, e.message_instruction_index, e.message_data_offset,
                      e.message_data_size) # {}
  <2> HIDE DEF e
  <2> QED
    BY <1>2 DEF RuntimePayloads
<1>5. /\ e.signature_instruction_index \in 0..U16_MAX
      /\ e.public_key_instruction_index \in 0..U16_MAX
      /\ e.message_instruction_index \in 0..U16_MAX
  <2> HIDE DEF e
  <2> QED
    BY <1>3 DEF SignatureOffsets
<1>6. num_signatures(0) = {1}
  <2>1. instructions[1].len > 0
    BY <1>2, <1>3, ParserAssumption
  <2> QED
    BY <2>1 DEF num_signatures
<1>7. entry_at(0, 0) = IF DataIsAligned(0) THEN {e} ELSE {}
  <2>1. DATA_START + SIGNATURE_OFFSETS_SIZE * 1 <= instructions[1].len
    BY <1>2, ParserAssumption
  <2> QED
    BY <2>1 DEF entry_at
<1> HIDE DEF e
<1>8. CASE DataIsAligned(0)
  <2>1. {t \in entry_at(0, 0) : \E n \in num_signatures(0) : 0 < n} = {e}
    <3>1. \E n \in num_signatures(0) : 0 < n
      <4>1. 1 \in num_signatures(0) /\ 0 < 1
        BY <1>6
      <4> QED
        BY <4>1, Zenon
    <3>2. entry_at(0, 0) = {e}
      BY <1>7, <1>8
    <3> QED
      BY <3>1, <3>2
  <2>2. /\ slice_at(0, e.signature_instruction_index, e.signature_offset,
                    SIGNATURE_SIZE)
             = RuntimeSlice(0, e.signature_instruction_index,
                            e.signature_offset, SIGNATURE_SIZE)
        /\ slice_at(0, e.public_key_instruction_index, e.public_key_offset,
                    PUBLIC_KEY_SIZE)
             = RuntimeSlice(0, e.public_key_instruction_index,
                            e.public_key_offset, PUBLIC_KEY_SIZE)
        /\ slice_at(0, e.message_instruction_index, e.message_data_offset,
                    e.message_data_size)
             = RuntimeSlice(0, e.message_instruction_index,
                            e.message_data_offset, e.message_data_size)
    BY <1>4, <1>5, SlicesAgree
  <2>3. get_signature_payload(0, 0) = RuntimePayloads(0, e)
    BY <2>1, <2>2 DEF get_signature_payload, RuntimePayloads
  <2> QED
    BY <1>8, <2>3 DEF e
<1>9. CASE ~DataIsAligned(0)
  <2>1. entry_at(0, 0) = {}
    BY <1>7, <1>9
  <2> QED
    BY <2>1, <1>9 DEF get_signature_payload
<1> QED
  BY <1>8, <1>9

\* verify_payload gets a payload only from one signature of a precompile at 0.
LEMMA PayloadOrigin ==
    ASSUME NEW payload \in precompile_payload
    PROVE  /\ 0 < Len(instructions) /\ instructions[1].program_id = "secp256r1"
           /\ instructions[1].num = 1
           /\ payload \in get_signature_payload(0, 0)
PROOF
<1>1. PICK q \in UNION {new(k) : k \in load_instruction_at(0)} :
          num_signatures(q) = {1} /\ payload \in get_signature_payload(q, 0)
  BY DEF precompile_payload
<1>2. PICK k \in load_instruction_at(0) : q \in new(k)
  BY <1>1
<1>3. k = 0 /\ 0 < Len(instructions)
  BY <1>2 DEF load_instruction_at
<1>4. q = 0 /\ instructions[0 + 1].program_id = "secp256r1"
  BY <1>2, <1>3 DEF new
<1>5. instructions[0 + 1].num = 1
  BY <1>1, <1>4 DEF num_signatures
<1> QED
  BY <1>1, <1>3, <1>4, <1>5

(***************************************************************************)
(* The invariant                                                           *)
(***************************************************************************)
LEMMA InitParserInv == ParserInit => ParserInv
PROOF
<1> SUFFICES ASSUME ParserInit PROVE ParserInv
  OBVIOUS
<1>1. Len(instructions) \in Nat
  BY ParserAssumption DEF ParserInit
<1>2. TxTypeOK
  BY <1>1 DEF ParserInit, TxTypeOK
<1>3. FirstAccepted
  BY DEF ParserInit, FirstAccepted
<1>4. VerifiedInBounds /\ PayloadVerified /\ FailedInParser
  BY DEF ParserInit, VerifiedInBounds, PayloadVerified, FailedInParser
<1> QED
  BY <1>2, <1>3, <1>4 DEF ParserInv

\* What the precompile verifies lies inside the instructions.
LEMMA RuntimeInBounds ==
    ASSUME NEW own, NEW entry, NEW p \in RuntimePayloads(own, entry)
    PROVE  InBounds(p.signature) /\ InBounds(p.public_key) /\ InBounds(p.message)
PROOF
<1>1. \A index, offset, size :
          \A s \in RuntimeSlice(own, index, offset, size) : InBounds(s)
  BY DEF RuntimeSlice
<1>2. PICK s \in RuntimeSlice(own, entry.signature_instruction_index,
                              entry.signature_offset, SIGNATURE_SIZE),
           k \in RuntimeSlice(own, entry.public_key_instruction_index,
                              entry.public_key_offset, PUBLIC_KEY_SIZE),
           m \in RuntimeSlice(own, entry.message_instruction_index,
                              entry.message_data_offset,
                              entry.message_data_size) :
             p = SignaturePayload(s, k, m)
  BY DEF RuntimePayloads
<1>3. p.signature = s /\ p.public_key = k /\ p.message = m
  BY <1>2 DEF SignaturePayload
<1> QED
  BY <1>1, <1>3

\* The precompile instruction and the ones in between.
LEMMA PrecompilePreserves == ASSUME ParserInv, RunPrecompile PROVE ParserInv'
PROOF
<1> DEFINE new_payloads ==
        UNION {RuntimePayloads(current, instructions[current + 1].table[i]) :
                 i \in 1..instructions[current + 1].num}
<1>1. /\ status = "running" /\ status' = status /\ current < Len(instructions)
      /\ current' = current + 1 /\ instructions' = instructions
      /\ verified' = verified \cup new_payloads /\ accepted' = accepted
      /\ PrecompileAccepts(current)
  BY DEF RunPrecompile, Running, Advance
<1>2. Len(instructions) \in Nat /\ current \in Nat
  BY ParserAssumption DEF ParserInv, TxTypeOK
<1>3. TxTypeOK'
  BY <1>1, <1>2 DEF ParserInv, TxTypeOK
<1>4. FirstAccepted'
  <2> SUFFICES ASSUME instructions[1].program_id = "secp256r1"
               PROVE  /\ PrecompileAccepts(0)
                      /\ \A i \in 1..instructions[1].num :
                           RuntimePayloads(0, instructions[1].table[i])
                               \subseteq verified'
    BY <1>1 DEF FirstAccepted, PrecompileAccepts, RuntimePayloads, RuntimeSlice,
       InBounds
  <2>1. CASE current = 0
    BY <2>1, <1>1
  <2>2. CASE current > 0
    BY <2>2, <1>1 DEF ParserInv, FirstAccepted
  <2> QED
    BY <2>1, <2>2, <1>2
<1>5. VerifiedInBounds'
  <2>1. \A p \in new_payloads : InBounds(p.signature)
            /\ InBounds(p.public_key) /\ InBounds(p.message)
    BY RuntimeInBounds
  <2> QED
    BY <2>1, <1>1 DEF ParserInv, VerifiedInBounds, InBounds
<1>6. PayloadVerified' /\ FailedInParser'
  BY <1>1 DEF ParserInv, PayloadVerified, FailedInParser
<1> QED
  BY <1>3, <1>4, <1>5, <1>6 DEF ParserInv

LEMMA WalletPreserves == ASSUME ParserInv, RunWallet PROVE ParserInv'
PROOF
<1>1. PICK payload \in precompile_payload : accepted' = accepted \cup {payload}
  BY DEF RunWallet
<1>2. /\ status = "running" /\ status' = status /\ current < Len(instructions)
      /\ instructions[current + 1].program_id = "wallet"
      /\ current' = current + 1 /\ instructions' = instructions
      /\ verified' = verified
  BY DEF RunWallet, Running, Advance
<1>3. Len(instructions) \in Nat /\ current \in Nat
  BY ParserAssumption DEF ParserInv, TxTypeOK
<1>4. /\ 0 < Len(instructions) /\ instructions[1].program_id = "secp256r1"
      /\ instructions[1].num = 1 /\ payload \in get_signature_payload(0, 0)
  BY PayloadOrigin
<1>5. current > 0
  BY <1>2, <1>3, <1>4
<1>6. /\ PrecompileAccepts(0)
      /\ RuntimePayloads(0, instructions[1].table[1]) \subseteq verified
  BY <1>4, <1>5 DEF ParserInv, FirstAccepted
<1>7. payload \in verified
  <2>1. get_signature_payload(0, 0) =
          IF DataIsAligned(0)
          THEN RuntimePayloads(0, instructions[1].table[1]) ELSE {}
    BY <1>3, <1>4, <1>6, PayloadsAgree DEF ParserInv
  <2> QED
    BY <2>1, <1>4, <1>6
<1>8. TxTypeOK'
  BY <1>2, <1>3 DEF ParserInv, TxTypeOK
<1>9. FirstAccepted'
  BY <1>2, <1>5 DEF ParserInv, FirstAccepted, PrecompileAccepts, RuntimePayloads,
     RuntimeSlice, InBounds
<1>10. VerifiedInBounds'
  BY <1>2 DEF ParserInv, VerifiedInBounds, InBounds
<1>11. PayloadVerified' /\ FailedInParser'
  BY <1>1, <1>2, <1>7 DEF ParserInv, PayloadVerified, FailedInParser
<1> QED
  BY <1>8, <1>9, <1>10, <1>11 DEF ParserInv

LEMMA OtherPreserves == ASSUME ParserInv, RunOther PROVE ParserInv'
PROOF
<1>1. /\ status = "running" /\ status' = status /\ current < Len(instructions)
      /\ instructions[current + 1].program_id = "other"
      /\ current' = current + 1 /\ instructions' = instructions
      /\ verified' = verified /\ accepted' = accepted
  BY DEF RunOther, Running, Advance
<1>2. Len(instructions) \in Nat /\ current \in Nat
  BY ParserAssumption DEF ParserInv, TxTypeOK
<1>3. instructions[1].program_id = "secp256r1" => current > 0
  BY <1>1, <1>2
<1>4. TxTypeOK'
  BY <1>1, <1>2 DEF ParserInv, TxTypeOK
<1>5. FirstAccepted'
  BY <1>1, <1>3 DEF ParserInv, FirstAccepted, PrecompileAccepts, RuntimePayloads,
     RuntimeSlice, InBounds
<1>6. VerifiedInBounds' /\ PayloadVerified' /\ FailedInParser'
  BY <1>1 DEF ParserInv, VerifiedInBounds, InBounds, PayloadVerified,
     FailedInParser
<1> QED
  BY <1>4, <1>5, <1>6 DEF ParserInv

LEMMA StatusPreserves ==
    ASSUME ParserInv, Fail \/ CommitTransaction \/ UNCHANGED parserVars
    PROVE  ParserInv'
PROOF
<1>1. UNCHANGED <<instructions, current, verified, accepted>>
  BY DEF Fail, CommitTransaction, parserVars
<1>2. TxTypeOK' /\ VerifiedInBounds' /\ PayloadVerified'
  BY <1>1 DEF ParserInv, TxTypeOK, VerifiedInBounds, InBounds, PayloadVerified
<1>3. FirstAccepted'
  BY <1>1 DEF ParserInv, FirstAccepted, PrecompileAccepts, RuntimePayloads,
     RuntimeSlice, InBounds
<1>4. precompile_payload' = precompile_payload
  BY <1>1 DEF precompile_payload, get_signature_payload, slice_at, entry_at,
     num_signatures, new, load_instruction_at, get_data_slice,
     get_data_slice_raw, DataIsAligned
<1>5. FailedInParser'
  <2>1. CASE Fail
    <3>1. current < Len(instructions)
      BY <2>1 DEF Fail, Running
    <3>2. instructions[current + 1].program_id = "wallet" =>
              precompile_payload = {}
      BY <2>1 DEF Fail, Running
    <3> QED
      BY <3>1, <3>2, <1>1, <1>4 DEF FailedInParser
  <2>2. CASE CommitTransaction
    BY <2>2 DEF CommitTransaction, FailedInParser
  <2>3. CASE UNCHANGED parserVars
    <3>1. status' = status
      BY <2>3 DEF parserVars
    <3> QED
      BY <3>1, <1>1, <1>4 DEF ParserInv, FailedInParser
  <2> QED
    BY <2>1, <2>2, <2>3
<1> QED
  BY <1>2, <1>3, <1>5 DEF ParserInv

LEMMA NextParserInv == ParserInv /\ [ParserNext]_parserVars => ParserInv'
BY PrecompilePreserves, WalletPreserves, OtherPreserves, StatusPreserves
   DEF ParserNext

\* PrecompileParser: every payload a wallet instruction relies on has been
\* verified by the precompile, in every transaction.
THEOREM PayloadVerifiedHolds == ParserSpec => []PayloadVerified
PROOF
<1>1. ParserInv => PayloadVerified
  BY DEF ParserInv
<1> QED
  BY <1>1, InitParserInv, NextParserInv, PTL DEF ParserSpec

\* get_data_slice_raw stays inside the data of the instruction it reads.
THEOREM RawSlicesInBoundsHolds == ParserSpec => []RawSlicesInBounds
PROOF
<1>1. ParserInv => RawSlicesInBounds
  BY DEF ParserInv, PayloadVerified, VerifiedInBounds, RawSlicesInBounds
<1> QED
  BY <1>1, InitParserInv, NextParserInv, PTL DEF ParserSpec

\* get_signature_payload finds its payload behind every precompile instruction
\* of one signature whose table is aligned.
THEOREM ParserCompleteHolds == ParserSpec => []ParserComplete
PROOF
<1>1. ParserInv => ParserComplete
  <2> SUFFICES ASSUME ParserInv, status = "failed",
                      instructions[current + 1].program_id = "wallet",
                      instructions[1].program_id = "secp256r1",
                      instructions[1].accounts % 2 = 0, instructions[1].num = 1
               PROVE  FALSE
    BY DEF ParserComplete
  <2>1. /\ current < Len(instructions) /\ precompile_payload = {}
        /\ current \in Nat /\ Len(instructions) \in Nat
    BY ParserAssumption DEF ParserInv, FailedInParser, TxTypeOK
  <2>2. current > 0 /\ Len(instructions) > 0
    BY <2>1
  <2>3. PrecompileAccepts(0)
    BY <2>2 DEF ParserInv, FirstAccepted
  <2>4. /\ RuntimePayloads(0, instructions[1].table[1]) # {}
        /\ instructions[1].len >= DATA_START + SIGNATURE_OFFSETS_SIZE
    <3>1. instructions[0 + 1] = instructions[1]
      OBVIOUS
    <3> QED
      BY <3>1, <2>3, ParserAssumption DEF PrecompileAccepts
  <2>5. DataIsAligned(0)
    BY DEF DataIsAligned
  <2>6. get_signature_payload(0, 0) # {}
    BY <2>2, <2>3, <2>4, <2>5, PayloadsAgree DEF ParserInv
  <2>7. load_instruction_at(0) = {0} /\ new(0) = {0}
    BY <2>2 DEF load_instruction_at, new
  <2>8. num_signatures(0) = {1}
    <3>1. instructions[1].len \in Nat
      BY <2>1, <2>2, InstructionFacts DEF ParserInv
    <3>2. instructions[1].len > 0
      BY <3>1, <2>4, ParserAssumption
    <3> QED
      BY <3>2 DEF num_signatures
  <2>9. {q \in UNION {new(k) : k \in load_instruction_at(0)} :
             num_signatures(q) = {1}} = {0}
    BY <2>7, <2>8
  <2>10. precompile_payload = get_signature_payload(0, 0)
    BY <2>9 DEF precompile_payload
  <2> QED
    BY <2>1, <2>6, <2>10
<1> QED
  BY <1>1, InitParserInv, NextParserInv, PTL DEF ParserSpec

=============================================================================
