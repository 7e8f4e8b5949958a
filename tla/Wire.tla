-------------------------------- MODULE Wire --------------------------------
(***************************************************************************)
(* The bytes between a client and the program: the arguments of the four   *)
(* instructions (Borsh, with SmallVec for the vectors) as a client writes  *)
(* them and as the program's readers take them apart, and the bytes that   *)
(* are hashed into the challenge a passkey signs.                          *)
(*                                                                         *)
(* A byte is a number below BASE.  A Solana key, a slot hash and the two   *)
(* small enumerations take one byte, a u16 and the u64 expiration two, and *)
(* the domain strings "execute_instructions", "refresh_session_key" and    *)
(* "initialize_passkey" are represented by their first byte, in which they *)
(* differ.  A Result is a set with at most one element.                    *)
(*                                                                         *)
(* The transaction is put together by a relayer nobody trusts: it may      *)
(* forward what the client built, damage a byte, cut or add one, or send   *)
(* the data and the account list of another operation altogether.  The     *)
(* runtime then passes every account with the privileges of all its        *)
(* mentions in the transaction, those outside of this instruction (the fee *)
(* payer, other instructions) included.                                    *)
(***************************************************************************)
EXTENDS Integers, Sequences, SequencesExt

CONSTANTS
    BASE,             \* number of values of a byte
    MAX_LISTED,       \* accounts that can follow the fixed ones
    Operations,       \* what the user may want done
    Recent,           \* truncated slots that validate_nonce resolves
    Elsewhere         \* accounts mentioned in the rest of a transaction

ASSUME BaseAssumption == BASE \in Nat /\ BASE > 4
\* With more, `len() as u8` in get_instruction_payload_hash would wrap.
ASSUME AccountsAssumption ==
    /\ MAX_LISTED \in Nat /\ MAX_LISTED < BASE
    /\ \A o \in Operations : Len(o.listed) <= MAX_LISTED

Byte == 0..(BASE - 1)
Word == 0..(BASE * BASE - 1)

CompiledInstruction == [program_id_index : Byte, accounts_indices : Seq(Byte), data : Seq(Byte)]
SessionKey == [key : Byte, expiration : Word]
AccountInfo == [key : Byte, is_signer : {0, 1}, is_writable : {0, 1}]

(* What a user wants: the discriminator says which of the instructions.    *)
INITIALIZE == 0
EXECUTE == 1
REFRESH == 2
SESSIONED == 3

(* The fields an instruction does not have are empty, or zero.             *)
IsOperation(o) ==
    /\ o \in [kind : {INITIALIZE, EXECUTE, REFRESH, SESSIONED}, slothash : Word,
              signer : Byte, session : SUBSET SessionKey, listed : Seq(AccountInfo),
              instructions : Seq(CompiledInstruction)]
    /\ \A s, t \in o.session : s = t
    /\ o.kind = REFRESH => o.session # {}
    /\ o.kind = SESSIONED => o.slothash = 0
    /\ IF o.kind \in {EXECUTE, SESSIONED} THEN o.session = {}
       ELSE o.listed = <<>> /\ o.instructions = <<>>

(* The keys every client knows; the payer or signer is `o.signer`.         *)
PASSKEY_ACCOUNT == 0
INSTRUCTIONS_SYSVAR == 2
SLOT_HASHES == 3
SYSTEM_PROGRAM == 4

(* Sysvars and built-in programs: they sign nothing.                       *)
Reserved == {INSTRUCTIONS_SYSVAR, SLOT_HASHES, SYSTEM_PROGRAM}

ASSUME OperationsAssumption ==
    \A o \in Operations : IsOperation(o) /\ o.signer \notin Reserved
ASSUME ElsewhereAssumption == Elsewhere \subseteq SUBSET AccountInfo

(* `session` is an Option<SessionKey>: a set with at most one element.     *)
Operation(kind, slot, signer, session, listed, instructions) ==
    [kind |-> kind, slothash |-> slot, signer |-> signer, session |-> session,
     listed |-> listed, instructions |-> instructions]

-----------------------------------------------------------------------------
(* Writing.                                                                *)

(* TryFrom<Vec<T>>: the length must fit the length type L.                 *)
fits_small_vec(length, capacity) == length < capacity

Fits(o) ==
    /\ fits_small_vec(Len(o.instructions), BASE)
    /\ \A i \in DOMAIN o.instructions :
           /\ fits_small_vec(Len(o.instructions[i].accounts_indices), BASE)
           /\ fits_small_vec(Len(o.instructions[i].data), BASE * BASE)

to_le_bytes(n) == <<n % BASE, n \div BASE>>

(* serialize repeats the check of TryFrom, so it cannot fail here.         *)
serialize_u8(v) == <<Len(v)>> \o v
serialize_u16(v) == to_le_bytes(Len(v)) \o v

\* Mutant: big endian.
serialize_session_key_be(s) == <<s.key, s.expiration \div BASE, s.expiration % BASE>>
serialize_session_key(s) == <<s.key>> \o to_le_bytes(s.expiration)
serialize_option(session) ==
    IF session = {} THEN <<0>> ELSE <<1>> \o serialize_session_key(CHOOSE s \in session : TRUE)

serialize_instruction(i) ==
    <<i.program_id_index>> \o serialize_u8(i.accounts_indices) \o serialize_u16(i.data)

(* SmallVec<u8, CompiledInstruction>: the count, then serialize_slice; in  *)
(* the challenge the count is `len() as u8`, the same for what fits.       *)
serialize_instructions(s) ==
    <<Len(s) % BASE>> \o FlattenSeq([i \in DOMAIN s |-> serialize_instruction(s[i])])

Writable(key, signer) == [key |-> key, is_signer |-> signer, is_writable |-> 1]
Readonly(key, signer) == [key |-> key, is_signer |-> signer, is_writable |-> 0]

(* The SDK's builders: discriminator and arguments, with signature scheme  *)
(* 0 and scheme specific data `extra`, and the accounts.                   *)
Built(data, accounts) == [data |-> data, accounts |-> accounts]

initialize_accounts(o) ==
    <<Writable(PASSKEY_ACCOUNT, 0), Writable(o.signer, 1), Readonly(INSTRUCTIONS_SYSVAR, 0),
      Readonly(SLOT_HASHES, 0), Readonly(SYSTEM_PROGRAM, 0)>>

initialize_passkey_account(o, extra) ==
    Built(<<INITIALIZE>> \o to_le_bytes(o.slothash) \o <<0>> \o serialize_u8(extra) \o <<0>>,
          initialize_accounts(o))

initialize_passkey_account_with_session(o, extra) ==
    Built(<<INITIALIZE>> \o to_le_bytes(o.slothash) \o <<0>> \o serialize_u8(extra)
              \o serialize_option(o.session),
          initialize_accounts(o))

execute_instructions(o, scheme, extra) ==
    Built(<<EXECUTE, 0, scheme>> \o to_le_bytes(o.slothash) \o serialize_u8(extra)
              \o serialize_instructions(o.instructions),
          <<Writable(PASSKEY_ACCOUNT, 0), Readonly(INSTRUCTIONS_SYSVAR, 0),
            Readonly(SLOT_HASHES, 0), Writable(o.signer, 1)>> \o o.listed)

\* Mutant: the payer second, as in an initialisation.
refresh_accounts_payer_second(o) ==
    <<Writable(PASSKEY_ACCOUNT, 0), Writable(o.signer, 1), Readonly(INSTRUCTIONS_SYSVAR, 0),
      Readonly(SLOT_HASHES, 0)>>
refresh_accounts(o) ==
    <<Writable(PASSKEY_ACCOUNT, 0), Readonly(INSTRUCTIONS_SYSVAR, 0),
      Readonly(SLOT_HASHES, 0), Writable(o.signer, 1)>>

refresh_session_key(o, extra) ==
    Built(<<REFRESH>> \o to_le_bytes(o.slothash) \o <<0>> \o serialize_u8(extra)
              \o serialize_session_key(CHOOSE s \in o.session : TRUE),
          refresh_accounts(o))

execute_instructions_sessioned(o, scheme) ==
    Built(<<SESSIONED, 0, scheme>> \o serialize_instructions(o.instructions),
          <<Writable(PASSKEY_ACCOUNT, 0), Readonly(o.signer, 1)>> \o o.listed)

Instruction(o, scheme, extra) ==
    CASE o.kind = INITIALIZE /\ o.session = {} -> initialize_passkey_account(o, extra)
      [] o.kind = INITIALIZE /\ o.session # {} -> initialize_passkey_account_with_session(o, extra)
      [] o.kind = EXECUTE -> execute_instructions(o, scheme, extra)
      [] o.kind = REFRESH -> refresh_session_key(o, extra)
      [] o.kind = SESSIONED -> execute_instructions_sessioned(o, scheme)

-----------------------------------------------------------------------------
(* The challenge.  Only the hash is signed; it is its preimage here.       *)

Domain(kind) ==
    CASE kind = EXECUTE -> <<0>> [] kind = REFRESH -> <<1>> [] kind = INITIALIZE -> <<2>>

serialize_account(a) == <<a.key, a.is_signer, a.is_writable>>
serialize_accounts(s) == FlattenSeq([i \in DOMAIN s |-> serialize_account(s[i])])

get_initialization_payload(o) ==
    IF o.session = {} THEN <<>> ELSE serialize_session_key(CHOOSE s \in o.session : TRUE)

\* Mutant: the number of accounts is not hashed.
get_instruction_payload_uncounted(o) ==
    serialize_accounts(o.listed) \o serialize_instructions(o.instructions)
get_instruction_payload(o) ==
    <<Len(o.listed) % BASE>> \o serialize_accounts(o.listed)
        \o serialize_instructions(o.instructions)

get_refresh_session_key_payload(o) ==
    serialize_session_key(CHOOSE s \in o.session : TRUE)

Payload(o) ==
    <<o.slothash, o.signer>> \o Domain(o.kind) \o
    CASE o.kind = INITIALIZE -> get_initialization_payload(o)
      [] o.kind = EXECUTE -> get_instruction_payload(o)
      [] o.kind = REFRESH -> get_refresh_session_key_payload(o)

-----------------------------------------------------------------------------
(* Reading: each reader maps bytes and a position to {} (the bytes end too *)
(* early, or a tag is unknown) or to the value and the position after it.  *)

Read(value, at) == {[value |-> value, at |-> at]}

read_u8(b, at) == IF at > Len(b) THEN {} ELSE Read(b[at], at + 1)
read_u16(b, at) == IF at + 1 > Len(b) THEN {} ELSE Read(b[at] + BASE * b[at + 1], at + 2)

(* vec_from_reader for u8: `length` bytes or an error.                     *)
vec_from_reader(b, at, length) ==
    IF at + length - 1 > Len(b) THEN {} ELSE Read(SubSeq(b, at, at + length - 1), at + length)

\* Mutant: of a vector that is too long, what is left is taken.
read_small_vec_u8_short(b, at) ==
    UNION {IF l.at + l.value - 1 > Len(b) THEN Read(SubSeq(b, l.at, Len(b)), l.at + l.value)
           ELSE vec_from_reader(b, l.at, l.value) : l \in read_u8(b, at)}
read_small_vec_u8(b, at) ==
    UNION {vec_from_reader(b, l.at, l.value) : l \in read_u8(b, at)}
read_small_vec_u16(b, at) ==
    UNION {vec_from_reader(b, l.at, l.value) : l \in read_u16(b, at)}

read_session_key(b, at) ==
    UNION {{[value |-> {[key |-> k.value, expiration |-> e.value]}, at |-> e.at]
               : e \in read_u16(b, k.at)} : k \in read_u8(b, at)}

read_option(b, at) ==
    UNION {CASE t.value = 0 -> Read({}, t.at)
             [] t.value = 1 -> read_session_key(b, t.at)
             [] OTHER -> {} : t \in read_u8(b, at)}

read_instruction(b, at) ==
    UNION {UNION {{[value |-> [program_id_index |-> p.value, accounts_indices |-> a.value,
                               data |-> d.value],
                    at |-> d.at] : d \in read_small_vec_u16(b, a.at)}
               : a \in read_small_vec_u8(b, p.at)} : p \in read_u8(b, at)}

(* The fields before the instructions or the session key.  The signature   *)
(* scheme is an enumeration with the one value 0 and the signer execution  *)
(* scheme one with two; the code looks them up after all has been read,    *)
(* which makes no difference to the outcome.                               *)
Fields(slot, at) == [value |-> slot, at |-> at]

read_execute_head(b, at) ==
    IF at + 1 > Len(b) \/ b[at] # 0 \/ b[at + 1] \notin {0, 1} THEN {}
    ELSE UNION {{Fields({s.value}, v.at) : v \in read_small_vec_u8(b, s.at)}
                   : s \in read_u16(b, at + 2)}

read_sessioned_head(b, at) ==
    IF at + 1 > Len(b) \/ b[at] # 0 \/ b[at + 1] \notin {0, 1} THEN {}
    ELSE {Fields({}, at + 2)}

(* InitializeAccountArgs and RefreshSessionKeyArgs begin alike.            *)
read_keyed_head(b, at) ==
    UNION {{Fields({s.value}, v.at) : v \in IF s.at <= Len(b) /\ b[s.at] = 0
                                          THEN read_small_vec_u8(b, s.at + 1) ELSE {}}
               : s \in read_u16(b, at)}

read_head(b, at, kind) ==
    CASE kind = EXECUTE -> read_execute_head(b, at)
      [] kind = SESSIONED -> read_sessioned_head(b, at)
      [] OTHER -> read_keyed_head(b, at)

-----------------------------------------------------------------------------
(* The runtime (external): an account has the privileges of all its        *)
(* mentions, but a reserved one is never writable.                         *)
Flag(b) == IF b THEN 1 ELSE 0

Granted(list, elsewhere) ==
    LET mentions == ToSet(list) \cup elsewhere
    IN  [i \in DOMAIN list |->
            [key |-> list[i].key,
             is_signer |-> Flag(\E n \in mentions : n.key = list[i].key /\ n.is_signer = 1),
             is_writable |-> Flag(/\ list[i].key \notin Reserved
                                  /\ \E n \in mentions :
                                         n.key = list[i].key /\ n.is_writable = 1)]]

-----------------------------------------------------------------------------
(* The four load functions: how many accounts are fixed, what must hold of *)
(* them, and who signs.  A fixed account that is not writable makes the    *)
(* first write to it fail, at the latest when the transaction ends.        *)

fixed(kind) == CASE kind = INITIALIZE -> 5 [] kind = SESSIONED -> 2 [] OTHER -> 4

load_initialize(a) ==
    /\ a[1].key = PASSKEY_ACCOUNT /\ a[1].is_writable = 1
    /\ a[2].is_signer = 1 /\ a[2].is_writable = 1
    /\ a[3].key = INSTRUCTIONS_SYSVAR /\ a[4].key = SLOT_HASHES /\ a[5].key = SYSTEM_PROGRAM

load_execute(a) ==
    /\ a[1].key = PASSKEY_ACCOUNT /\ a[1].is_writable = 1
    /\ a[2].key = INSTRUCTIONS_SYSVAR /\ a[3].key = SLOT_HASHES
    /\ a[4].is_signer = 1

load_refresh(a) ==
    /\ a[1].key = PASSKEY_ACCOUNT /\ a[1].is_writable = 1
    /\ a[2].key = INSTRUCTIONS_SYSVAR /\ a[3].key = SLOT_HASHES
    /\ a[4].is_signer = 1

(* The address is not checked: any account of the program would do, and    *)
(* PASSKEY_ACCOUNT is the only one here that ExternallySignedAccount::load *)
(* and data_ref find owned by the program and with a header.               *)
load_sessioned(a) == a[1].key = PASSKEY_ACCOUNT /\ a[2].is_signer = 1

load(kind, a) ==
    /\ Len(a) >= fixed(kind)
    /\ CASE kind = INITIALIZE -> load_initialize(a)
         [] kind = EXECUTE -> load_execute(a)
         [] kind = REFRESH -> load_refresh(a)
         [] kind = SESSIONED -> load_sessioned(a)

signer_of(kind, a) == IF kind \in {INITIALIZE, SESSIONED} THEN a[2].key ELSE a[4].key

(* Only an execution looks at the accounts after the fixed ones.           *)
listed_of(kind, a) ==
    IF kind \in {EXECUTE, SESSIONED} THEN SubSeq(a, fixed(kind) + 1, Len(a)) ELSE <<>>

-----------------------------------------------------------------------------
VARIABLES
    wanted,   \* the operation the user wants, and signed unless sessioned
    phase,    \* build, refused, sent, delivered, head, reading, read, loaded,
              \* failed, accepted
    sent,     \* instruction data and accounts as the client built them
    data,     \* instruction data of the transaction
    accounts, \* accounts of the instruction: as written, and once delivered
              \* with the privileges the runtime passes them with
    args,     \* arguments as far as they are read
    at,       \* position of the reader
    left      \* instructions still to read

wireVars == <<wanted, phase, sent, data, accounts, args, at, left>>

NoArgs == Operation(INITIALIZE, 0, 0, {}, <<>>, <<>>)

WireInit ==
    /\ wanted \in Operations
    /\ phase = "build"
    /\ sent = Built(<<>>, <<>>) /\ data = <<>> /\ accounts = <<>>
    /\ args = NoArgs /\ at = 1 /\ left = 0

(* The client builds its vectors with try_from and serialises.             *)
Build ==
    /\ phase = "build"
    /\ IF Fits(wanted)
       THEN /\ \E scheme \in {0, 1}, extra \in {<<>>, <<1>>} :
                   sent' = Instruction(wanted, scheme, extra)
            /\ data' = sent'.data /\ accounts' = sent'.accounts
            /\ phase' = "sent"
       ELSE /\ phase' = "refused"
            /\ UNCHANGED <<sent, data, accounts>>
    /\ UNCHANGED <<wanted, args, at, left>>

Deliver(list) ==
    /\ phase = "sent"
    /\ phase' = "delivered"
    /\ \E m \in Elsewhere : accounts' = Granted(list, m)
    /\ UNCHANGED <<wanted, sent, args, at, left>>

Forward == Deliver(accounts) /\ UNCHANGED data

Damage ==
    /\ Deliver(accounts)
    /\ \/ data' = SubSeq(data, 1, Len(data) - 1)
       \/ \E b \in Byte : data' = Append(data, b)
       \/ \E i \in DOMAIN data, b \in Byte : data' = [data EXCEPT ![i] = b]

Relist ==
    /\ \/ Deliver(SubSeq(accounts, 1, Len(accounts) - 1))
       \/ \E i \in DOMAIN accounts :
              \/ Deliver([accounts EXCEPT ![i].is_writable = 1 - @])
              \/ Deliver([accounts EXCEPT ![i].is_signer = 1 - @])
    /\ UNCHANGED data

Swap ==
    \E o \in {p \in Operations : Fits(p)} :
        /\ Deliver(Instruction(o, 0, <<>>).accounts)
        /\ data' = Instruction(o, 0, <<>>).data

Fail ==
    /\ phase' = "failed"
    /\ UNCHANGED <<wanted, sent, data, accounts, args, at, left>>

(* process_instruction: split_first, the match on the discriminator, and   *)
(* the fields up to the instructions or the session key.                   *)
Dispatch ==
    /\ phase = "delivered"
    /\ IF data = <<>> \/ data[1] \notin {INITIALIZE, EXECUTE, REFRESH, SESSIONED}
       THEN Fail
       ELSE LET head == read_head(data, 2, data[1]) IN
            IF head = {} THEN Fail
            ELSE \E h \in head :
                 /\ args' = [NoArgs EXCEPT !.kind = data[1],
                                           !.slothash = IF h.value = {} THEN 0
                                                        ELSE CHOOSE s \in h.value : TRUE]
                 /\ at' = h.at
                 /\ phase' = "head"
                 /\ UNCHANGED <<wanted, sent, data, accounts, left>>

(* SmallVec<u8, CompiledInstruction>::deserialize_reader: the count ...    *)
ReadCount ==
    /\ phase = "head"
    /\ args.kind \in {EXECUTE, SESSIONED}
    /\ IF read_u8(data, at) = {} THEN Fail
       ELSE \E r \in read_u8(data, at) :
            /\ left' = r.value
            /\ at' = r.at
            /\ phase' = "reading"
            /\ UNCHANGED <<wanted, sent, data, accounts, args>>

(* ... and one round of its loop.                                          *)
ReadInstruction ==
    /\ phase = "reading"
    /\ left > 0
    /\ IF read_instruction(data, at) = {} THEN Fail
       ELSE \E r \in read_instruction(data, at) :
            /\ args' = [args EXCEPT !.instructions = Append(@, r.value)]
            /\ at' = r.at
            /\ left' = left - 1
            /\ UNCHANGED <<wanted, phase, sent, data, accounts>>

(* The session key of a refresh, or the optional one of an initialisation. *)
ReadSession ==
    /\ phase = "head"
    /\ args.kind \in {INITIALIZE, REFRESH}
    /\ LET session == IF args.kind = REFRESH THEN read_session_key(data, at)
                      ELSE read_option(data, at) IN
       IF session = {} THEN Fail
       ELSE \E r \in session :
            /\ args' = [args EXCEPT !.session = r.value]
            /\ at' = r.at
            /\ phase' = "reading"
            /\ UNCHANGED <<wanted, sent, data, accounts, left>>

(* try_from_slice: all the bytes must have been used.                      *)
all_read(b, p) == p = Len(b) + 1

\* Mutant: deserialize in place of try_from_slice.
FinishUnchecked ==
    /\ phase = "reading"
    /\ left = 0
    /\ phase' = "read" /\ UNCHANGED <<wanted, sent, data, accounts, args, at, left>>
Finish ==
    /\ phase = "reading"
    /\ left = 0
    /\ IF all_read(data, at)
       THEN phase' = "read" /\ UNCHANGED <<wanted, sent, data, accounts, args, at, left>>
       ELSE Fail

LoadAccounts ==
    /\ phase = "read"
    /\ IF load(args.kind, accounts)
       THEN /\ args' = [args EXCEPT !.signer = signer_of(args.kind, accounts),
                                    !.listed = listed_of(args.kind, accounts)]
            /\ phase' = "loaded"
            /\ UNCHANGED <<wanted, sent, data, accounts, at, left>>
       ELSE Fail

(* The nonce is resolved, and the challenge recomputed from the arguments  *)
(* and the accounts is compared with the signed one.  A sessioned          *)
(* execution has no challenge: the session key signs the transaction.      *)
Verify ==
    /\ phase = "loaded"
    /\ phase' = IF \/ args.kind = SESSIONED
                   \/ /\ wanted.kind # SESSIONED
                      /\ args.slothash \in Recent
                      /\ Payload(args) = Payload(wanted)
                THEN "accepted" ELSE "failed"
    /\ UNCHANGED <<wanted, sent, data, accounts, args, at, left>>

WireNext ==
    \/ Build \/ Forward \/ Damage \/ Relist \/ Swap
    \/ Dispatch \/ ReadCount \/ ReadInstruction \/ ReadSession \/ Finish
    \/ LoadAccounts \/ Verify

WireSpec == WireInit /\ [][WireNext]_wireVars

-----------------------------------------------------------------------------
(* The bytes and the accounts are the client's; the privileges are what    *)
(* the whole transaction makes of them.                                    *)
Untouched ==
    data = sent.data /\ \E m \in Elsewhere : accounts = Granted(sent.accounts, m)

(* What the client sent and nobody touched is what the program takes it    *)
(* for, to the last account, instruction, index and byte of data: neither  *)
(* a vector at the capacity of its length type nor the byte order loses    *)
(* anything, and what does not fit is refused by the client and not cut.   *)
(* The accounts are the listed ones in their order, and none has lost a    *)
(* privilege, but for the writability no reserved account can have.        *)
RoundTrip ==
    phase = "loaded" /\ Untouched =>
        /\ args = [wanted EXCEPT !.listed = args.listed]
        /\ Len(args.listed) = Len(wanted.listed)
        /\ \A i \in DOMAIN wanted.listed :
               LET asked == wanted.listed[i] passed == args.listed[i]
               IN  /\ passed.key = asked.key
                   /\ asked.is_signer = 1 => passed.is_signer = 1
                   /\ asked.is_writable = 1 /\ asked.key \notin Reserved
                          => passed.is_writable = 1

(* The SDK's builders and the program's handlers agree: an instruction     *)
(* that arrives as it was built is accepted exactly when its slot is       *)
(* recent and the rest of the transaction leaves the listed accounts the   *)
(* privileges that were signed; in a sessioned execution nothing is.       *)
HonestDelivered ==
    phase \in {"accepted", "failed"} /\ Untouched =>
        (phase = "accepted" <=>
            \/ wanted.kind = SESSIONED
            \/ /\ wanted.slothash \in Recent
               /\ listed_of(wanted.kind, accounts) = wanted.listed)

(* An operation accepted by its challenge is the one the passkey signed:   *)
(* the same kind, nonce, session key, accounts with the same privileges,   *)
(* and instructions, whatever bytes and account list the relayer chose.    *)
ApprovalBinds ==
    phase = "accepted" /\ args.kind # SESSIONED => args = wanted

(* There is one encoding: data the program accepts is, but for the signer  *)
(* execution scheme and the verification data, the encoding of what it     *)
(* reads, so no bytes hide behind or between the arguments.                *)
OneEncoding ==
    phase \in {"read", "loaded", "accepted"} =>
        \E scheme \in {0, 1}, extra \in SeqOf(Byte, BASE - 1) :
            data = Instruction(args, scheme, extra).data

(* Types of the reader's state; it never reads past the end.               *)
WireTypeOK ==
    /\ args.kind \in {INITIALIZE, EXECUTE, REFRESH, SESSIONED}
    /\ args.instructions \in Seq(CompiledInstruction)
    /\ args.session \in SUBSET SessionKey
    /\ left \in Byte
    /\ at \in 1..(Len(data) + 1)
=============================================================================
