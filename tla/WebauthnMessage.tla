-------------------------- MODULE WebauthnMessage ---------------------------
(***************************************************************************)
(* From the browser's ceremony to the program's verdict.  A browser and an *)
(* authenticator answer a challenge with the signed message                *)
(* authData || sha256(clientDataJSON).  The JSON itself does not fit into  *)
(* a transaction, so a client sends one byte of flags and a port, from     *)
(* which the program rebuilds the text; whoever assembles the transaction  *)
(* may send any other flags and port as well.  The relying party that the  *)
(* program puts into the text is the one stored when the account was       *)
(* initialised.                                                            *)
(*                                                                         *)
(* A text is a sequence of tokens, a hash its preimage spread over         *)
(* HASH_LENGTH bytes.  A Result is a set with at most one element, a panic *)
(* is an Err.                                                              *)
(***************************************************************************)
EXTENDS Integers, Sequences, SequencesExt

CONSTANTS
    BASE,         \* number of values of a byte of the counter
    HASH_LENGTH,  \* bytes of a hash
    MAX_RP_ID,    \* tokens of a relying party id that an account can hold
    RpIds,        \* relying party ids an initialisation may name
    Challenges,   \* challenges a page may ask for
    Ceremonies,   \* what browsers and authenticators answer
    Flags,        \* flag bytes a transaction may carry
    Ports         \* ports a transaction may carry, as tokens

ASSUME LengthsAssumption ==
    /\ HASH_LENGTH \in Nat \ {0}
    /\ BASE \in Nat \ {0, 1}
    /\ Flags \subseteq 0..255

\* A relying party id is any text, a port is decimal digits.
ASSUME TokensAssumption ==
    /\ MAX_RP_ID \in Nat
    /\ \A r \in RpIds : r \in Seq(ToSet(r))
    /\ "quote" \notin Ports

hash(text) == [i \in 1..HASH_LENGTH |-> <<text, i>>]

QUOTE == "quote"
COLON == "colon"

(* Option<u16>: a set with at most one port.                               *)
PortOption == {{}} \cup {{p} : p \in Ports}

-----------------------------------------------------------------------------
(* ClientDataJsonReconstructionParams: the type in the high four bits, one *)
(* flag in each of the low ones.                                           *)

TYPE_CREATE == 0
TYPE_GET == 16
FLAG_CROSS_ORIGIN == 1
FLAG_HTTP_ORIGIN == 2
FLAG_GOOGLE_EXTRA == 4
FLAG_OMIT_CROSS_ORIGIN == 8

Set(flag, on) == IF on THEN flag ELSE 0
IsSet(byte, flag) == (byte \div flag) % 2 = 1

(* new_with_optional_cross_origin: the bits are disjoint, so | is +.       *)
pack(create, cross, has_cross, http, extra) ==
    (IF create THEN TYPE_CREATE ELSE TYPE_GET) + Set(FLAG_CROSS_ORIGIN, cross)
        + Set(FLAG_HTTP_ORIGIN, http) + Set(FLAG_GOOGLE_EXTRA, extra)
        + Set(FLAG_OMIT_CROSS_ORIGIN, ~has_cross)

auth_type(flags) == IF (flags \div 16) * 16 = TYPE_GET THEN "webauthn.get" ELSE "webauthn.create"

(* The text of a client data JSON; `extra` is what follows crossOrigin.    *)
Text(type, challenge, origin, cross, extra) ==
    <<"type", type, "challenge", challenge, "origin">> \o origin \o <<QUOTE>> \o cross \o extra

GOOGLE_EXTRA == <<"other_keys_can_be_added_here">>

Origin(prefix, host, port) ==
    <<prefix>> \o host \o (IF port = {} THEN <<>> ELSE <<COLON, CHOOSE p \in port : TRUE>>)

reconstruct_client_data_json(flags, port, rp_id, challenge) ==
    Text(auth_type(flags), challenge,
         Origin(IF IsSet(flags, FLAG_HTTP_ORIGIN) THEN "http" ELSE "https", rp_id, port),
         IF IsSet(flags, FLAG_OMIT_CROSS_ORIGIN) THEN <<>>
         ELSE <<"crossOrigin", IF IsSet(flags, FLAG_CROSS_ORIGIN) THEN "true" ELSE "false">>,
         IF IsSet(flags, FLAG_GOOGLE_EXTRA) THEN GOOGLE_EXTRA ELSE <<>>)

-----------------------------------------------------------------------------
(* The browser and the authenticator (external).  A ceremony says what the *)
(* page is and how the two behave: `cross` is the list of values of the    *)
(* crossOrigin field (none if it is left out), `extra` what else is in the *)
(* JSON, `flags` and `counter` are authenticator data, `extensions` bytes  *)
(* may follow them.                                                        *)

(* The host and the port of an origin hold no quote, a browser writes      *)
(* crossOrigin once at most, and a counter fits its bytes.                 *)
ASSUME CeremoniesAssumption ==
    \A c \in Ceremonies :
        /\ c.type \in {"webauthn.get", "webauthn.create"}
        /\ c.scheme \in {"http", "https"}
        /\ c.host \in Seq(ToSet(c.host)) /\ QUOTE \notin ToSet(c.host)
        /\ c.port = {} \/ \E p \in c.port : c.port = {p} /\ p # QUOTE
        /\ c.cross \in {<<>>, <<"true">>, <<"false">>}
        /\ c.extra \in Seq(ToSet(c.extra)) /\ "crossOrigin" \notin ToSet(c.extra)
        /\ c.counter \in 0..(BASE * BASE - 1)
        /\ c.extensions \in Nat

clientDataJSON(c, challenge) ==
    Text(c.type, challenge, Origin(c.scheme, c.host, c.port),
         IF c.cross = <<>> THEN <<>> ELSE <<"crossOrigin", c.cross[1]>>, c.extra)

authenticatorData(c) ==
    hash(c.rp_id) \o <<c.flags, c.counter \div BASE, c.counter % BASE>>
        \o [i \in 1..c.extensions |-> 0]

Message(c, challenge) == authenticatorData(c) \o hash(clientDataJSON(c, challenge))

-----------------------------------------------------------------------------
(* The clients.  The TypeScript SDK reads the flags off the JSON and       *)
(* refuses one with a foreign value for the extra field; fields it does    *)
(* not know are not looked at.  The Rust SDK has them from its caller and  *)
(* always declares crossOrigin present.                                    *)

Params(flags, port) == [flags |-> flags, port |-> port]

parseClientDataJsonReconstructionParams(c) ==
    IF c.extra = <<"foreign">> THEN {}
    ELSE {Params(pack(c.type = "webauthn.create", c.cross = <<"true">>, c.cross # <<>>,
                      c.scheme = "http", c.extra = GOOGLE_EXTRA),
                 c.port)}

WebAuthnData_new(c) ==
    {Params(pack(c.type = "webauthn.create", c.cross = <<"true">>, TRUE,
                 c.scheme = "http", c.extra = GOOGLE_EXTRA),
            c.port)}

-----------------------------------------------------------------------------
(* The account: P256ParsedInitializationData::try_from and RpIdInformation *)
(* (a fixed array, zero padded, and a length).                             *)

PADDING == "zero"

RpIdInformation(rp_id) ==
    [rp_id_len |-> Len(rp_id),
     rp_id |-> [i \in 1..MAX_RP_ID |-> IF i <= Len(rp_id) THEN rp_id[i] ELSE PADDING],
     rp_id_hash |-> hash(rp_id)]

parsed_initialization_data(rp_id) ==
    IF Len(rp_id) > MAX_RP_ID \/ QUOTE \in ToSet(rp_id) THEN {} ELSE {RpIdInformation(rp_id)}

-----------------------------------------------------------------------------
(* AuthDataParser on the signed message, and verify_payload.               *)

\* Mutant: the client data hash follows the counter.
split_after_counter(message) == HASH_LENGTH + 3
split_at(message) == Len(message) - HASH_LENGTH

rp_id_hash(auth_data) == SubSeq(auth_data, 1, HASH_LENGTH)
\* Present in the code, but not called: the mutant of the line after it.
is_user_verified(auth_data) == IsSet(auth_data[HASH_LENGTH + 1], 4)
is_user_present(auth_data) == IsSet(auth_data[HASH_LENGTH + 1], 1)
get_counter(auth_data) ==
    auth_data[HASH_LENGTH + 2] * BASE + auth_data[HASH_LENGTH + 3]

(* The verdict on a message: {} or the counter, with the JSON the program  *)
(* takes to have been signed.                                              *)
verify_payload(info, message, params, challenge) ==
    LET auth_data == SubSeq(message, 1, split_at(message))
        client_data_hash == SubSeq(message, split_at(message) + 1, Len(message))
        rp_id == SubSeq(info.rp_id, 1, info.rp_id_len)
        json == reconstruct_client_data_json(params.flags, params.port, rp_id, challenge)
    IN IF /\ is_user_present(auth_data)
          /\ info.rp_id_hash = rp_id_hash(auth_data)
          /\ hash(json) = client_data_hash
       THEN {get_counter(auth_data)} ELSE {}

-----------------------------------------------------------------------------
VARIABLES
    step,      \* initialize, ask, sign, pack, send, verify, done
    account,   \* RpIdInformation of the account, as an option
    named,     \* the relying party id the initialisation named
    ceremony,  \* how the browser answers
    challenge, \* what the page asks to be signed
    message,   \* what the authenticator signed
    packed,    \* parameters as an SDK packs them, as an option
    by,        \* who packed them: an SDK, or someone else
    payload,   \* the challenge the program computes from the transaction
    verdict    \* counter read by the program, as an option

messageVars ==
    <<step, account, named, ceremony, challenge, message, packed, by, payload, verdict>>

MessageInit ==
    /\ step = "initialize"
    /\ account = {} /\ named \in RpIds
    /\ ceremony \in Ceremonies
    /\ challenge \in Challenges /\ payload = challenge
    /\ message = <<>> /\ packed = {} /\ by = "none" /\ verdict = {}

(* initialize_external_account: a relying party id that is too long or     *)
(* holds a quote is refused.                                               *)
Register ==
    /\ step = "initialize"
    /\ account' = parsed_initialization_data(named)
    /\ step' = IF account' = {} THEN "done" ELSE "sign"
    /\ UNCHANGED <<named, ceremony, challenge, message, packed, by, payload, verdict>>

(* The user approves on the authenticator (external).                      *)
Approve ==
    /\ step = "sign"
    /\ message' = Message(ceremony, challenge)
    /\ step' = "pack"
    /\ UNCHANGED <<account, named, ceremony, challenge, packed, by, payload, verdict>>

PackTypescript ==
    /\ step = "pack"
    /\ packed' = parseClientDataJsonReconstructionParams(ceremony)
    /\ by' = "typescript"
    /\ step' = IF packed' = {} THEN "done" ELSE "verify"
    /\ UNCHANGED <<account, named, ceremony, challenge, message, payload, verdict>>

PackRust ==
    /\ step = "pack"
    /\ packed' = WebAuthnData_new(ceremony)
    /\ by' = "rust"
    /\ step' = "verify"
    /\ UNCHANGED <<account, named, ceremony, challenge, message, payload, verdict>>

(* Anyone may put the signed message into a transaction of their own, for  *)
(* an operation with another challenge.                                    *)
PackOther ==
    /\ step = "pack"
    /\ \E f \in Flags, p \in PortOption : packed' = {Params(f, p)}
    /\ payload' \in Challenges
    /\ by' = "other"
    /\ step' = "verify"
    /\ UNCHANGED <<account, named, ceremony, challenge, message, verdict>>

VerifyMessage ==
    /\ step = "verify"
    /\ \E info \in account, params \in packed :
           verdict' = verify_payload(info, message, params, payload)
    /\ step' = "done"
    /\ UNCHANGED <<account, named, ceremony, challenge, message, packed, by, payload>>

MessageNext ==
    Register \/ Approve \/ PackTypescript \/ PackRust \/ PackOther \/ VerifyMessage

MessageSpec == MessageInit /\ [][MessageNext]_messageVars

-----------------------------------------------------------------------------
(* Whatever flags, port and operation a transaction carries, a message     *)
(* passes only for the challenge that was signed, with the user present,   *)
(* on a page of the account's relying party, whose origin is that relying  *)
(* party but for scheme and port, and from a browser that added no fields  *)
(* of its own; the program takes the authenticator's own counter from it.  *)
AcceptedIsSigned ==
    verdict # {} =>
        /\ payload = challenge
        /\ ceremony.rp_id = named
        /\ IsSet(ceremony.flags, 1)
        /\ \E p \in packed :
               Origin(ceremony.scheme, ceremony.host, ceremony.port)
                   = Origin(ceremony.scheme, named, p.port)
        /\ ceremony.extra \in {<<>>, GOOGLE_EXTRA}
        /\ verdict = {ceremony.counter}

(* What the SDKs send is accepted: for a page whose host is the relying    *)
(* party id and a JSON with no fields but the known ones, on any port,     *)
(* with or without extensions in the authenticator data, the flags packed  *)
(* by the TypeScript SDK make the program rebuild the browser's very text; *)
(* those of the Rust SDK if the browser sent crossOrigin.                  *)
HonestAccepted ==
    /\ step = "done" /\ account # {} /\ by \in {"typescript", "rust"}
    /\ ceremony.rp_id = named /\ ceremony.host = named
    /\ IsSet(ceremony.flags, 1)
    /\ ceremony.extra \in {<<>>, GOOGLE_EXTRA}
    /\ by = "rust" => ceremony.cross # <<>>
    => verdict = {ceremony.counter}
=============================================================================
