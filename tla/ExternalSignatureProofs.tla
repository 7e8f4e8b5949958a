----------------------- MODULE ExternalSignatureProofs -----------------------
(***************************************************************************)
(* Invariants of the program for any number of passkeys, Solana keys,      *)
(* instruction lists and transactions.                                     *)
(***************************************************************************)
EXTENDS ExternalSignature, SlotHashesProofs

-----------------------------------------------------------------------------
(* Types of the values the handlers build                                  *)

LEMMA WordType ==
    /\ WORD \in Nat /\ WORD > 0
    /\ \A n \in Nat : n % WORD \in 0..(WORD - 1)
<1>1. WORD \in Nat /\ WORD > 0
    BY WordAssumption
<1> QED
    BY <1>1, Z3

LEMMA SessionKeyType ==
    /\ None \in SessionKey
    /\ SessionKeyArgs \subseteq SessionKey
    /\ \A k \in SessionKeyArgs, x \in 0..(WORD - 1) :
            [k EXCEPT !.expiration = x] \in SessionKey
<1>1. 0 \in 0..(WORD - 1)
    BY WordType
<1>2. Expirations \subseteq 0..(WORD - 1)
    BY WordAssumption
<1> QED
    BY <1>1, <1>2 DEF None, ZeroSessionKey, SessionKey, SessionKeyArgs

LEMMA PayloadType ==
    ASSUME NEW tag \in {"initialize_passkey", "execute_instructions",
                        "refresh_session_key"},
           NEW slothash \in {"bank hash"} \X Nat, NEW signer \in Signers,
           NEW k \in SessionKey, NEW instructions \in Seq(Cpis)
    PROVE  Payload(tag, slothash, signer, k, instructions) \in Challenge
BY DEF Payload, Challenge

\* An account record is determined by its fields.
LEMMA AccountFields ==
    ASSUME NEW d \in AccountData
    PROVE  /\ d.owner \in {"system", "program"} /\ d.version \in 0..1
           /\ d.public_key \in PublicKeys \cup {Zero}
           /\ d.rp_id \in RpIds \cup {Zero}
           /\ d.session_key \in SessionKey /\ d.counter \in Nat
BY DEF AccountData

-----------------------------------------------------------------------------
(* What the steps of the handlers return                                   *)

LEMMA InitializeAccountResult ==
    ASSUME NEW data \in AccountData, NEW public_key \in PublicKeys,
           NEW rp_id \in RpIds, NEW k \in SessionKey,
           NEW d \in initialize_account(data, public_key, rp_id, k)
    PROVE  /\ d \in AccountData
           /\ d.owner = data.owner /\ d.version = 1
           /\ d.public_key = public_key /\ d.rp_id = rp_id
           /\ d.session_key = k /\ d.counter = 0
           /\ k = None \/ within_limit(k.expiration)
<1>1. /\ d = [data EXCEPT !.version = 1, !.public_key = public_key,
                           !.rp_id = rp_id, !.counter = 0, !.session_key = k]
      /\ k = None \/ within_limit(k.expiration)
    BY DEF initialize_account
<1>2. d = [owner |-> data.owner, version |-> 1, public_key |-> public_key,
           rp_id |-> rp_id, session_key |-> k, counter |-> 0]
    BY <1>1 DEF AccountData
<1>3. d \in AccountData
    BY <1>2, AccountFields DEF AccountData
<1> QED
    BY <1>1, <1>2, <1>3

LEMMA VerifyPayloadResult ==
    ASSUME NEW data \in AccountData, NEW precompile \in SUBSET Assertion,
           NEW params, NEW challenge,
           NEW d \in verify_payload(data, precompile, params, challenge)
    PROVE  /\ d \in AccountData
           /\ d.owner = data.owner /\ d.version = data.version
           /\ d.public_key = data.public_key /\ d.rp_id = data.rp_id
           /\ d.session_key = data.session_key
           /\ \E a \in precompile :
                /\ precompile = {a}
                /\ a.public_key = data.public_key
                /\ a.user_present
                /\ a.rp_id = data.rp_id
                /\ a.client_data =
                     reconstruct_client_data_json(params, data.rp_id, challenge)
                /\ counter_accepted(data, a.counter)
                /\ d.counter = next_counter(data, a.counter)
<1>1. PICK a \in precompile :
        /\ precompile = {a} /\ a.public_key = data.public_key
        /\ a.user_present /\ a.rp_id = data.rp_id
        /\ reconstruct_client_data_json(params, data.rp_id, challenge)
             = a.client_data
        /\ counter_accepted(data, a.counter)
        /\ d = [data EXCEPT !.counter = next_counter(data, a.counter)]
    BY DEF verify_payload
<1>2. next_counter(data, a.counter) \in Nat
    BY AccountFields DEF next_counter, Assertion
<1>3. d \in AccountData
    BY <1>1, <1>2 DEF AccountData
<1>4. /\ d.owner = data.owner /\ d.version = data.version
      /\ d.public_key = data.public_key /\ d.rp_id = data.rp_id
      /\ d.session_key = data.session_key
      /\ d.counter = next_counter(data, a.counter)
    BY <1>1 DEF AccountData
<1> QED
    BY <1>1, <1>3, <1>4

LEMMA UpdateSessionKeyResult ==
    ASSUME NEW data \in AccountData, NEW k \in SessionKey,
           NEW d \in update_session_key(data, k)
    PROVE  /\ d \in AccountData
           /\ d.owner = data.owner /\ d.version = data.version
           /\ d.public_key = data.public_key /\ d.rp_id = data.rp_id
           /\ d.session_key = k /\ d.counter = data.counter
           /\ within_limit(k.expiration)
BY DEF update_session_key, AccountData

\* The CPIs change nothing of an account but, at most, its owner.
LEMMA InvokeResult ==
    ASSUME NEW accts \in [Addresses -> AccountData], NEW signer,
           NEW instructions,
           NEW r \in invoke_instructions(accts, signer, instructions)
    PROVE  /\ r \in [Addresses -> AccountData]
           /\ \A a \in Addresses :
                /\ r[a].version = accts[a].version
                /\ r[a].public_key = accts[a].public_key
                /\ r[a].rp_id = accts[a].rp_id
                /\ r[a].session_key = accts[a].session_key
                /\ r[a].counter = accts[a].counter
                /\ r[a].owner \in {accts[a].owner, "program"}
<1> DEFINE given(a) == [accts[a] EXCEPT !.owner = "program"]
           assigns == {i \in DOMAIN instructions : instructions[i] = "assign"}
<1>1. r = [a \in Addresses |-> IF a = signer /\ assigns # {}
                               THEN given(a) ELSE accts[a]]
    BY DEF invoke_instructions
<1>2. ASSUME NEW a \in Addresses
      PROVE  /\ given(a) \in AccountData
             /\ given(a).version = accts[a].version
             /\ given(a).public_key = accts[a].public_key
             /\ given(a).rp_id = accts[a].rp_id
             /\ given(a).session_key = accts[a].session_key
             /\ given(a).counter = accts[a].counter
             /\ given(a).owner = "program"
  <2>1. accts[a] \in AccountData
      OBVIOUS
  <2> QED
      BY <2>1 DEF AccountData
<1> HIDE DEF given, assigns
<1> QED
    BY <1>1, <1>2

\* A nonce is only accepted from a signer, and with a recent block's hash.
LEMMA ValidateNonceResult ==
    ASSUME NEW slot \in 0..MODULUS, NEW stack_height \in 1..2, NEW is_signer,
           NEW x \in validate_nonce(slot_hashes, slot, stack_height, is_signer)
    PROVE  is_signer /\ x \in AcceptedHashes
<1>1. is_signer /\ stack_height = 1
    BY DEF validate_nonce
<1>2. validate_nonce(slot_hashes, slot, stack_height, is_signer)
        = validate_nonce(slot_hashes, slot, 1, TRUE)
    BY <1>1, Zenon DEF validate_nonce
<1> QED
    BY <1>1, <1>2 DEF AcceptedHashes, Accepted

-----------------------------------------------------------------------------
(* The inductive invariant                                                 *)

\* Authenticators sign for their own relying party only.
AssertionsGenuine == \A a \in assertions : a.rp_id = RpIdOf[a.public_key]

\* An account without a header is still blank.
Blank(accts) ==
    \A a \in Addresses :
        accts[a].version = 0 => /\ accts[a].counter = 0
                                /\ accts[a].session_key = ZeroSessionKey

\* What the first theorems need of the accounts and of the committed copy.
AccountsOK(accts) == Identified(accts) /\ Blank(accts)

CoreInv ==
    /\ TypeOK
    /\ SysvarInv
    /\ AssertionsGenuine
    /\ AccountsOK(accounts)
    /\ AccountsOK(committed.accounts)

(***************************************************************************)
(* What a successful instruction does, whichever handler ran: it acts on   *)
(* one passkey account, which it leaves identified, and records an effect. *)
(***************************************************************************)
\* The effect e was approved by a passkey assertion whose counter takes the
\* account from counter `before` to counter `after`.
Approval(e, before, after) ==
    \E a \in assertions :
        /\ e.by = {a} /\ a.user_present
        /\ e.account = derive_account(a.public_key)
        /\ \E x \in AcceptedHashes :
             a.client_data.challenge =
                Payload(e.tag, x, e.signer, e.session_key, e.instructions)
        /\ a.counter # 0 => a.counter > before
        /\ after = IF a.counter # 0 THEN a.counter ELSE before

Initialized(e, old, new) ==
    /\ e.tag = "initialize_passkey"
    /\ old.owner = "system"
    /\ Approval(e, 0, new.counter)
    /\ new.session_key = e.session_key
    /\ e.session_key = None \/ within_limit(e.session_key.expiration)

Executed(e, old, new) ==
    /\ e.tag = "execute_instructions"
    /\ old.version = 1
    /\ Approval(e, old.counter, new.counter)
    /\ e.session_key = None /\ new.session_key = old.session_key

Refreshed(e, old, new) ==
    /\ e.tag = "refresh_session_key"
    /\ old.version = 1
    /\ Approval(e, old.counter, new.counter)
    /\ e.session_key \in SessionKeyArgs
    /\ new.session_key =
         [key |-> e.session_key.key,
          expiration |-> (unix_timestamp + e.session_key.expiration) % WORD]
    /\ within_limit(new.session_key.expiration)

ExecutedSessioned(e, old, new) ==
    /\ e.tag = "execute_instructions_sessioned"
    /\ old.version = 1
    /\ e.by = {} /\ e.session_key = None
    /\ new.session_key = old.session_key /\ new.counter = old.counter
    /\ old.session_key.key = e.signer
    /\ old.session_key.expiration >= unix_timestamp

Outcome(account, e) ==
    /\ account \in PasskeyAddresses
    /\ e \in EffectRecord
    /\ e.account = account
    /\ e.executing \in {account, execution_address(account)}
    /\ e.signed /\ e.head = head /\ e.time = unix_timestamp
    /\ effects' = Append(effects, e)
    /\ accounts' \in [Addresses -> AccountData]
    /\ \A a \in Addresses \ {account} :
         /\ accounts'[a].version = accounts[a].version
         /\ accounts'[a].public_key = accounts[a].public_key
         /\ accounts'[a].rp_id = accounts[a].rp_id
         /\ accounts'[a].session_key = accounts[a].session_key
         /\ accounts'[a].counter = accounts[a].counter
         /\ accounts'[a].owner \in {accounts[a].owner, "program"}
    /\ accounts'[account].version = 1
    /\ accounts'[account].owner = "program"
    /\ accounts'[account].public_key \in PublicKeys
    /\ account = derive_account(accounts'[account].public_key)
    /\ accounts'[account].rp_id = RpIdOf[accounts'[account].public_key]
    /\ accounts[account].version = 1 =>
         /\ accounts'[account].public_key = accounts[account].public_key
         /\ accounts'[account].rp_id = accounts[account].rp_id
    /\ \/ Initialized(e, accounts[account], accounts'[account])
       \/ Executed(e, accounts[account], accounts'[account])
       \/ Refreshed(e, accounts[account], accounts'[account])
       \/ ExecutedSessioned(e, accounts[account], accounts'[account])
    /\ UNCHANGED <<slot_hashes, produced, unix_timestamp, assertions, counters,
                   tx, committed>>

LEMMA AddressFacts ==
    /\ \A p \in PublicKeys : /\ derive_account(p) \in PasskeyAddresses
                             /\ derive_account(p) \in Addresses
    /\ \A a \in PasskeyAddresses : a \in Addresses
                                   /\ execution_address(a) \in Addresses
BY DEF PasskeyAddresses, Addresses

LEMMA ClockType ==
    ASSUME CoreInv
    PROVE  head \in Nat /\ unix_timestamp \in Nat
<1>1. 1 \in 1..Len(slot_hashes)
    BY EntriesAssumption DEF CoreInv, SysvarInv, SysvarTypeOK
<1>2. head \in Nat
    BY <1>1, HeightType DEF CoreInv, SysvarInv, head
<1> QED
    BY <1>2, WordAssumption DEF CoreInv, TypeOK

LEMMA PrecompileType ==
    ASSUME CoreInv
    PROVE  /\ tx.precompile \in SUBSET Assertion
           /\ \A a \in tx.precompile : a \in assertions
BY DEF CoreInv, TypeOK

\* The assertion in the precompile is the approval the effect records.
LEMMA ApprovalByPrecompile ==
    ASSUME CoreInv,
           NEW data \in AccountData, NEW params, NEW d, NEW e, NEW x \in AcceptedHashes,
           d \in verify_payload(data, tx.precompile, params,
                   Payload(e.tag, x, e.signer, e.session_key, e.instructions)),
           e.by = tx.precompile, e.account = derive_account(data.public_key)
    PROVE  Approval(e, data.counter, d.counter)
<1>1. PICK a \in tx.precompile :
        /\ tx.precompile = {a} /\ a.public_key = data.public_key
        /\ a.user_present
        /\ a.client_data = reconstruct_client_data_json(params, data.rp_id,
             Payload(e.tag, x, e.signer, e.session_key, e.instructions))
        /\ counter_accepted(data, a.counter)
        /\ d.counter = next_counter(data, a.counter)
    BY PrecompileType, VerifyPayloadResult
<1>2. a.client_data.challenge =
        Payload(e.tag, x, e.signer, e.session_key, e.instructions)
    BY <1>1 DEF reconstruct_client_data_json
<1>3. a \in assertions
    BY PrecompileType
<1> QED
    BY <1>1, <1>2, <1>3 DEF Approval, counter_accepted, next_counter

LEMMA InitializeOutcome ==
    ASSUME CoreInv,
           NEW account \in Addresses, NEW rent_payer \in Signers,
           NEW slot \in 0..MODULUS, NEW stack_height \in 1..2,
           NEW public_key \in PublicKeys, NEW rp_id \in RpIds,
           NEW params \in ClientParams, NEW k \in SessionKeyArgs \cup {None},
           process_initialize_external_account(account, rent_payer, slot,
               stack_height, public_key, rp_id, params, k)
    PROVE  \E e : Outcome(account, e)
<1> DEFINE fresh == [accounts[account] EXCEPT !.owner = "program"]
           e == Effect("initialize_passkey", account, account, k, <<>>,
                       tx.precompile, rent_payer)
<1>1. accounts \in [Addresses -> AccountData] /\ accounts[account] \in AccountData
    BY DEF CoreInv, TypeOK
<1>2. fresh \in AccountData /\ fresh.owner = "program"
    BY <1>1 DEF AccountData
<1>3. k \in SessionKey
    BY SessionKeyType
<1>4. /\ accounts[account].owner = "system"
      /\ account = derive_account(public_key)
    BY DEF process_initialize_external_account, load_initialization,
           check_account_uninitialized, key_matches
<1> HIDE DEF fresh, e
<1>5. PICK x \in validate_nonce(slot_hashes, slot, stack_height,
                                rent_payer \in tx.signers) :
      \E written \in initialize_account(fresh, public_key, rp_id, k) :
      \E data \in verify_payload(written, tx.precompile, params,
                    get_initialization_payload_hash(x, rent_payer, k)) :
         Succeed([accounts EXCEPT ![account] = data], e)
    BY DEF process_initialize_external_account, load_initialization,
           create_and_allocate_externally_signed_account, fresh, e
<1>6. PICK written \in initialize_account(fresh, public_key, rp_id, k) :
      \E data \in verify_payload(written, tx.precompile, params,
                    get_initialization_payload_hash(x, rent_payer, k)) :
         Succeed([accounts EXCEPT ![account] = data], e)
    BY <1>5
<1>7. PICK data \in verify_payload(written, tx.precompile, params,
                      get_initialization_payload_hash(x, rent_payer, k)) :
         Succeed([accounts EXCEPT ![account] = data], e)
    BY <1>6
<1>8. /\ written \in AccountData
      /\ written.owner = "program" /\ written.version = 1
      /\ written.public_key = public_key /\ written.rp_id = rp_id
      /\ written.session_key = k /\ written.counter = 0
      /\ k = None \/ within_limit(k.expiration)
    BY <1>2, <1>3, InitializeAccountResult
<1>9. /\ data \in AccountData
      /\ data.owner = "program" /\ data.version = 1
      /\ data.public_key = public_key /\ data.rp_id = rp_id
      /\ data.session_key = k
      /\ \E a \in tx.precompile : a.public_key = public_key /\ a.rp_id = rp_id
    BY <1>8, PrecompileType, VerifyPayloadResult
<1>10. rp_id = RpIdOf[public_key]
    BY <1>9, PrecompileType DEF CoreInv, AssertionsGenuine
<1>11. rent_payer \in tx.signers /\ x \in AcceptedHashes
    BY ValidateNonceResult
<1>12. /\ e \in EffectRecord
       /\ e.tag = "initialize_passkey" /\ e.account = account
       /\ e.executing = account /\ e.session_key = k /\ e.instructions = <<>>
       /\ e.by = tx.precompile /\ e.signer = rent_payer /\ e.signed
       /\ e.head = head /\ e.time = unix_timestamp
  <2>1. <<>> \in Seq(Cpis) /\ tx.precompile \in SUBSET Assertion
      BY PrecompileType
  <2>2. /\ e \in EffectRecord
        /\ e.tag = "initialize_passkey" /\ e.account = account
        /\ e.executing = account /\ e.session_key = k /\ e.instructions = <<>>
        /\ e.by = tx.precompile /\ e.signer = rent_payer
        /\ e.signed = (rent_payer \in tx.signers)
        /\ e.head = head /\ e.time = unix_timestamp
      BY <2>1, <1>3, ClockType DEF e, Effect, EffectRecord
  <2> QED
      BY <2>2, <1>11
<1>13. Approval(e, 0, data.counter)
  <2>1. get_initialization_payload_hash(x, rent_payer, k)
          = Payload(e.tag, x, e.signer, e.session_key, e.instructions)
      BY <1>12 DEF get_initialization_payload_hash
  <2>2. e.account = derive_account(written.public_key)
      BY <1>4, <1>8, <1>12
  <2>3. Approval(e, written.counter, data.counter)
      BY <1>7, <1>8, <1>11, <1>12, <2>1, <2>2, ApprovalByPrecompile
  <2> QED
      BY <2>3, <1>8
<1>14. /\ accounts' = [accounts EXCEPT ![account] = data]
       /\ effects' = Append(effects, e)
       /\ UNCHANGED <<slot_hashes, produced, unix_timestamp, assertions,
                      counters, tx, committed>>
    BY <1>7 DEF Succeed, clockVars, deviceVars
<1>15. /\ accounts' \in [Addresses -> AccountData]
       /\ accounts'[account] = data
       /\ \A a \in Addresses \ {account} : accounts'[a] = accounts[a]
    BY <1>1, <1>9, <1>14
<1>16. Initialized(e, accounts[account], accounts'[account])
    BY <1>4, <1>8, <1>9, <1>12, <1>13, <1>15 DEF Initialized
<1>17. account \in PasskeyAddresses
    BY <1>4, AddressFacts
<1>18. accounts[account].version # 1
    BY <1>4 DEF CoreInv, AccountsOK, Identified
<1> QED
    BY <1>4, <1>9, <1>10, <1>12, <1>14, <1>15, <1>16, <1>17, <1>18 DEF Outcome

\* An account that passes load() and data_ref() is an initialized one.
LEMMA LoadedAccount ==
    ASSUME CoreInv, NEW account \in Addresses,
           NEW loaded \in data_ref(accounts[account])
    PROVE  /\ loaded = accounts[account] /\ loaded \in AccountData
           /\ loaded.owner = "program" /\ loaded.version = 1
           /\ loaded.public_key \in PublicKeys
           /\ account = derive_account(loaded.public_key)
           /\ loaded.rp_id = RpIdOf[loaded.public_key]
           /\ account \in PasskeyAddresses
<1>1. loaded = accounts[account] /\ loaded.owner = "program"
      /\ loaded.version = 1
    BY DEF data_ref
<1>2. accounts[account] \in AccountData
    BY DEF CoreInv, TypeOK
<1>3. /\ loaded.public_key \in PublicKeys
      /\ account = derive_account(loaded.public_key)
      /\ loaded.rp_id = RpIdOf[loaded.public_key]
    BY <1>1 DEF CoreInv, AccountsOK, Identified
<1> QED
    BY <1>1, <1>2, <1>3, AddressFacts

\* The signing PDA of an initialized account is its own.
LEMMA ExecutingAccount ==
    ASSUME CoreInv, NEW account \in Addresses,
           NEW loaded \in data_ref(accounts[account]),
           NEW scheme \in SignerExecutionScheme
    PROVE  /\ get_execution_account(account, loaded, scheme)
                \in {account, execution_address(account)}
           /\ get_execution_account(account, loaded, scheme) \in Addresses
BY LoadedAccount, AddressFacts DEF get_execution_account

LEMMA ExecuteOutcome ==
    ASSUME CoreInv,
           NEW account \in Addresses, NEW is_writable \in BOOLEAN,
           NEW nonce_signer \in Signers, NEW slot \in 0..MODULUS,
           NEW stack_height \in 1..2, NEW public_key \in PublicKeys,
           NEW params \in ClientParams, NEW scheme \in SignerExecutionScheme,
           NEW instructions \in Instructions,
           process_execute_instructions(account, is_writable, nonce_signer,
               slot, stack_height, public_key, params, scheme, instructions)
    PROVE  \E e : Outcome(account, e)
<1>1. PICK loaded \in data_ref(accounts[account]) :
      \E x \in validate_nonce(slot_hashes, slot, stack_height,
                              nonce_signer \in tx.signers) :
      \E data \in verify_payload(loaded, tx.precompile, params,
                    get_instruction_payload_hash(x, nonce_signer, instructions)) :
      \E accts \in invoke_instructions([accounts EXCEPT ![account] = data],
                     get_execution_account(account, loaded, scheme),
                     instructions) :
         Succeed(accts, Effect("execute_instructions", account,
                               get_execution_account(account, loaded, scheme),
                               None, instructions, tx.precompile, nonce_signer))
    BY DEF process_execute_instructions
<1> DEFINE executing == get_execution_account(account, loaded, scheme)
           e == Effect("execute_instructions", account, executing, None,
                       instructions, tx.precompile, nonce_signer)
<1>2. PICK x \in validate_nonce(slot_hashes, slot, stack_height,
                                nonce_signer \in tx.signers) :
      \E data \in verify_payload(loaded, tx.precompile, params,
                    get_instruction_payload_hash(x, nonce_signer, instructions)) :
      \E accts \in invoke_instructions([accounts EXCEPT ![account] = data],
                     executing, instructions) : Succeed(accts, e)
    BY <1>1
<1>3. PICK data \in verify_payload(loaded, tx.precompile, params,
                    get_instruction_payload_hash(x, nonce_signer, instructions)) :
      \E accts \in invoke_instructions([accounts EXCEPT ![account] = data],
                     executing, instructions) : Succeed(accts, e)
    BY <1>2
<1>4. PICK accts \in invoke_instructions([accounts EXCEPT ![account] = data],
                       executing, instructions) : Succeed(accts, e)
    BY <1>3
<1>5. accounts \in [Addresses -> AccountData]
    BY DEF CoreInv, TypeOK
<1>6. /\ loaded = accounts[account] /\ loaded \in AccountData
      /\ loaded.owner = "program" /\ loaded.version = 1
      /\ loaded.public_key \in PublicKeys
      /\ account = derive_account(loaded.public_key)
      /\ loaded.rp_id = RpIdOf[loaded.public_key]
      /\ account \in PasskeyAddresses
    BY LoadedAccount
<1>7. executing \in {account, execution_address(account)} /\ executing \in Addresses
    BY ExecutingAccount
<1> HIDE DEF executing, e
<1>8. /\ data \in AccountData
      /\ data.owner = "program" /\ data.version = 1
      /\ data.public_key = loaded.public_key /\ data.rp_id = loaded.rp_id
      /\ data.session_key = loaded.session_key
    BY <1>6, PrecompileType, VerifyPayloadResult
<1>9. nonce_signer \in tx.signers /\ x \in AcceptedHashes
    BY ValidateNonceResult
<1>10. /\ e \in EffectRecord
       /\ e.tag = "execute_instructions" /\ e.account = account
       /\ e.executing = executing /\ e.session_key = None
       /\ e.instructions = instructions
       /\ e.by = tx.precompile /\ e.signer = nonce_signer /\ e.signed
       /\ e.head = head /\ e.time = unix_timestamp
  <2>1. /\ instructions \in Seq(Cpis) /\ None \in SessionKey
        /\ tx.precompile \in SUBSET Assertion
      BY InstructionsAssumption, SessionKeyType, PrecompileType
  <2>2. /\ e \in EffectRecord
        /\ e.tag = "execute_instructions" /\ e.account = account
        /\ e.executing = executing /\ e.session_key = None
        /\ e.instructions = instructions
        /\ e.by = tx.precompile /\ e.signer = nonce_signer
        /\ e.signed = (nonce_signer \in tx.signers)
        /\ e.head = head /\ e.time = unix_timestamp
      BY <2>1, <1>7, ClockType DEF e, Effect, EffectRecord
  <2> QED
      BY <2>2, <1>9
<1>11. Approval(e, loaded.counter, data.counter)
  <2>1. get_instruction_payload_hash(x, nonce_signer, instructions)
          = Payload(e.tag, x, e.signer, e.session_key, e.instructions)
      BY <1>10 DEF get_instruction_payload_hash
  <2> QED
      BY <1>6, <1>9, <1>10, <2>1, ApprovalByPrecompile
<1> DEFINE mid == [accounts EXCEPT ![account] = data]
<1>12. /\ mid \in [Addresses -> AccountData] /\ mid[account] = data
       /\ \A a \in Addresses \ {account} : mid[a] = accounts[a]
    BY <1>5, <1>8
<1>13. /\ accounts' = accts /\ effects' = Append(effects, e)
       /\ UNCHANGED <<slot_hashes, produced, unix_timestamp, assertions,
                      counters, tx, committed>>
    BY <1>4 DEF Succeed, clockVars, deviceVars
<1> HIDE DEF mid
<1>14. /\ accts \in [Addresses -> AccountData]
       /\ \A a \in Addresses :
                /\ accts[a].version = mid[a].version
                /\ accts[a].public_key = mid[a].public_key
                /\ accts[a].rp_id = mid[a].rp_id
                /\ accts[a].session_key = mid[a].session_key
                /\ accts[a].counter = mid[a].counter
                /\ accts[a].owner \in {mid[a].owner, "program"}
    BY <1>4, <1>12, InvokeResult DEF mid
<1>15. /\ accts[account].version = 1 /\ accts[account].owner = "program"
       /\ accts[account].public_key = loaded.public_key
       /\ accts[account].rp_id = loaded.rp_id
       /\ accts[account].session_key = loaded.session_key
       /\ accts[account].counter = data.counter
    BY <1>8, <1>12, <1>14
<1>16. Executed(e, accounts[account], accounts'[account])
    BY <1>6, <1>10, <1>11, <1>13, <1>15 DEF Executed
<1>17. /\ accounts' \in [Addresses -> AccountData]
       /\ \A a \in Addresses \ {account} :
            /\ accounts'[a].version = accounts[a].version
            /\ accounts'[a].public_key = accounts[a].public_key
            /\ accounts'[a].rp_id = accounts[a].rp_id
            /\ accounts'[a].session_key = accounts[a].session_key
            /\ accounts'[a].counter = accounts[a].counter
            /\ accounts'[a].owner \in {accounts[a].owner, "program"}
    BY <1>12, <1>13, <1>14
<1>18. /\ accounts'[account].version = 1
       /\ accounts'[account].owner = "program"
       /\ accounts'[account].public_key = loaded.public_key
       /\ accounts'[account].rp_id = loaded.rp_id
    BY <1>13, <1>15
<1>19. e.executing \in {account, execution_address(account)}
    BY <1>7, <1>10
<1>20. Outcome(account, e)
    BY <1>6, <1>10, <1>13, <1>16, <1>17, <1>18, <1>19 DEF Outcome
<1> QED
    BY <1>20

LEMMA RefreshOutcome ==
    ASSUME CoreInv,
           NEW account \in Addresses, NEW is_writable \in BOOLEAN,
           NEW nonce_signer \in Signers, NEW slot \in 0..MODULUS,
           NEW stack_height \in 1..2, NEW public_key \in PublicKeys,
           NEW params \in ClientParams, NEW k \in SessionKeyArgs,
           process_refresh_session_key(account, is_writable, nonce_signer,
               slot, stack_height, public_key, params, k)
    PROVE  \E e : Outcome(account, e)
<1> DEFINE e == Effect("refresh_session_key", account, account, k, <<>>,
                       tx.precompile, nonce_signer)
           stored == [k EXCEPT !.expiration =
                        (unix_timestamp + k.expiration) % WORD]
<1>1. PICK loaded \in data_ref(accounts[account]) :
      \E x \in validate_nonce(slot_hashes, slot, stack_height,
                              nonce_signer \in tx.signers) :
      \E verified \in verify_payload(loaded, tx.precompile, params,
            get_refresh_session_key_payload_hash(x, nonce_signer, k)) :
      \E data \in update_session_key(verified, stored) :
         Succeed([accounts EXCEPT ![account] = data], e)
    BY DEF process_refresh_session_key
<1>2. k \in SessionKey /\ stored \in SessionKey
      /\ stored = [key |-> k.key,
                   expiration |-> (unix_timestamp + k.expiration) % WORD]
  <2>1. k.expiration \in Nat
    <3>1. k.expiration \in Expirations
        BY DEF SessionKeyArgs
    <3>2. k.expiration \in 0..(WORD - 1)
        BY <3>1, WordAssumption
    <3> QED
        BY <3>2
  <2>2. unix_timestamp + k.expiration \in Nat
      BY <2>1, ClockType
  <2>3. (unix_timestamp + k.expiration) % WORD \in 0..(WORD - 1)
      BY <2>2, WordType
  <2>4. stored \in SessionKey
      BY <2>3, SessionKeyType
  <2>5. stored = [key |-> k.key,
                  expiration |-> (unix_timestamp + k.expiration) % WORD]
      BY DEF SessionKeyArgs
  <2> QED
      BY <2>4, <2>5, SessionKeyType
<1> HIDE DEF e, stored
<1>3. PICK x \in validate_nonce(slot_hashes, slot, stack_height,
                                nonce_signer \in tx.signers) :
      \E verified \in verify_payload(loaded, tx.precompile, params,
            get_refresh_session_key_payload_hash(x, nonce_signer, k)) :
      \E data \in update_session_key(verified, stored) :
         Succeed([accounts EXCEPT ![account] = data], e)
    BY <1>1
<1>4. PICK verified \in verify_payload(loaded, tx.precompile, params,
            get_refresh_session_key_payload_hash(x, nonce_signer, k)) :
      \E data \in update_session_key(verified, stored) :
         Succeed([accounts EXCEPT ![account] = data], e)
    BY <1>3
<1>5. PICK data \in update_session_key(verified, stored) :
         Succeed([accounts EXCEPT ![account] = data], e)
    BY <1>4
<1>6. /\ loaded = accounts[account] /\ loaded \in AccountData
      /\ loaded.owner = "program" /\ loaded.version = 1
      /\ loaded.public_key \in PublicKeys
      /\ account = derive_account(loaded.public_key)
      /\ loaded.rp_id = RpIdOf[loaded.public_key]
      /\ account \in PasskeyAddresses
    BY LoadedAccount
<1>7. /\ verified \in AccountData
      /\ verified.owner = "program" /\ verified.version = 1
      /\ verified.public_key = loaded.public_key
      /\ verified.rp_id = loaded.rp_id
    BY <1>6, PrecompileType, VerifyPayloadResult
<1>8. /\ data \in AccountData
      /\ data.owner = "program" /\ data.version = 1
      /\ data.public_key = loaded.public_key /\ data.rp_id = loaded.rp_id
      /\ data.session_key = stored /\ data.counter = verified.counter
      /\ within_limit(stored.expiration)
    BY <1>2, <1>7, UpdateSessionKeyResult
<1>9. nonce_signer \in tx.signers /\ x \in AcceptedHashes
    BY ValidateNonceResult
<1>10. /\ e \in EffectRecord
       /\ e.tag = "refresh_session_key" /\ e.account = account
       /\ e.executing = account /\ e.session_key = k
       /\ e.instructions = <<>>
       /\ e.by = tx.precompile /\ e.signer = nonce_signer /\ e.signed
       /\ e.head = head /\ e.time = unix_timestamp
  <2>1. <<>> \in Seq(Cpis) /\ tx.precompile \in SUBSET Assertion
      BY PrecompileType
  <2>2. /\ e \in EffectRecord
        /\ e.tag = "refresh_session_key" /\ e.account = account
        /\ e.executing = account /\ e.session_key = k
        /\ e.instructions = <<>>
        /\ e.by = tx.precompile /\ e.signer = nonce_signer
        /\ e.signed = (nonce_signer \in tx.signers)
        /\ e.head = head /\ e.time = unix_timestamp
      BY <2>1, <1>2, ClockType DEF e, Effect, EffectRecord
  <2> QED
      BY <2>2, <1>9
<1>11. Approval(e, loaded.counter, data.counter)
  <2>1. get_refresh_session_key_payload_hash(x, nonce_signer, k)
          = Payload(e.tag, x, e.signer, e.session_key, e.instructions)
      BY <1>10 DEF get_refresh_session_key_payload_hash
  <2>2. Approval(e, loaded.counter, verified.counter)
      BY <1>6, <1>9, <1>10, <2>1, ApprovalByPrecompile
  <2> QED
      BY <2>2, <1>8
<1>12. /\ accounts' = [accounts EXCEPT ![account] = data]
       /\ effects' = Append(effects, e)
       /\ UNCHANGED <<slot_hashes, produced, unix_timestamp, assertions,
                      counters, tx, committed>>
    BY <1>5 DEF Succeed, clockVars, deviceVars
<1>13. /\ accounts' \in [Addresses -> AccountData]
       /\ accounts'[account] = data
       /\ \A a \in Addresses \ {account} : accounts'[a] = accounts[a]
    BY <1>8, <1>12 DEF CoreInv, TypeOK
<1>14. Refreshed(e, accounts[account], accounts'[account])
    BY <1>2, <1>6, <1>8, <1>10, <1>11, <1>13 DEF Refreshed
<1>15. Outcome(account, e)
    BY <1>6, <1>8, <1>10, <1>12, <1>13, <1>14 DEF Outcome
<1> QED
    BY <1>15

LEMMA SessionedOutcome ==
    ASSUME CoreInv,
           NEW account \in Addresses, NEW session_signer \in Signers,
           NEW scheme \in SignerExecutionScheme,
           NEW instructions \in Instructions,
           process_execute_instructions_sessioned(account, session_signer,
               scheme, instructions)
    PROVE  \E e : Outcome(account, e)
<1>1. PICK loaded \in data_ref(accounts[account]) :
        /\ is_valid_session_key(loaded, session_signer,
                                session_signer \in tx.signers)
        /\ \E accts \in invoke_instructions(accounts,
                          get_execution_account(account, loaded, scheme),
                          instructions) :
             Succeed(accts, Effect("execute_instructions_sessioned", account,
                                   get_execution_account(account, loaded, scheme),
                                   None, instructions, {}, session_signer))
    BY DEF process_execute_instructions_sessioned
<1> DEFINE executing == get_execution_account(account, loaded, scheme)
           e == Effect("execute_instructions_sessioned", account, executing,
                       None, instructions, {}, session_signer)
<1>2. PICK accts \in invoke_instructions(accounts, executing, instructions) :
        Succeed(accts, e)
    BY <1>1
<1>3. accounts \in [Addresses -> AccountData]
    BY DEF CoreInv, TypeOK
<1>4. /\ loaded = accounts[account] /\ loaded \in AccountData
      /\ loaded.owner = "program" /\ loaded.version = 1
      /\ loaded.public_key \in PublicKeys
      /\ account = derive_account(loaded.public_key)
      /\ loaded.rp_id = RpIdOf[loaded.public_key]
      /\ account \in PasskeyAddresses
    BY LoadedAccount
<1>5. executing \in {account, execution_address(account)} /\ executing \in Addresses
    BY ExecutingAccount
<1>6. /\ session_signer \in tx.signers
      /\ loaded.session_key.key = session_signer
      /\ loaded.session_key.expiration >= unix_timestamp
    BY <1>1 DEF is_valid_session_key
<1> HIDE DEF executing, e
<1>7. /\ e \in EffectRecord
      /\ e.tag = "execute_instructions_sessioned" /\ e.account = account
      /\ e.executing = executing /\ e.session_key = None
      /\ e.by = {} /\ e.signer = session_signer /\ e.signed
      /\ e.head = head /\ e.time = unix_timestamp
  <2>1. instructions \in Seq(Cpis) /\ None \in SessionKey
      BY InstructionsAssumption, SessionKeyType
  <2>2. /\ e \in EffectRecord
        /\ e.tag = "execute_instructions_sessioned" /\ e.account = account
        /\ e.executing = executing /\ e.session_key = None
        /\ e.by = {} /\ e.signer = session_signer
        /\ e.signed = (session_signer \in tx.signers)
        /\ e.head = head /\ e.time = unix_timestamp
      BY <2>1, <1>5, ClockType DEF e, Effect, EffectRecord
  <2> QED
      BY <2>2, <1>6
<1>8. /\ accounts' = accts /\ effects' = Append(effects, e)
      /\ UNCHANGED <<slot_hashes, produced, unix_timestamp, assertions,
                     counters, tx, committed>>
    BY <1>2 DEF Succeed, clockVars, deviceVars
<1>9. /\ accts \in [Addresses -> AccountData]
      /\ \A a \in Addresses :
           /\ accts[a].version = accounts[a].version
           /\ accts[a].public_key = accounts[a].public_key
           /\ accts[a].rp_id = accounts[a].rp_id
           /\ accts[a].session_key = accounts[a].session_key
           /\ accts[a].counter = accounts[a].counter
           /\ accts[a].owner \in {accounts[a].owner, "program"}
    BY <1>2, <1>3, InvokeResult
<1>10. /\ accounts' \in [Addresses -> AccountData]
       /\ \A a \in Addresses :
            /\ accounts'[a].version = accounts[a].version
            /\ accounts'[a].public_key = accounts[a].public_key
            /\ accounts'[a].rp_id = accounts[a].rp_id
            /\ accounts'[a].session_key = accounts[a].session_key
            /\ accounts'[a].counter = accounts[a].counter
            /\ accounts'[a].owner \in {accounts[a].owner, "program"}
    BY <1>8, <1>9
<1>11. /\ accounts'[account].version = 1
       /\ accounts'[account].owner = "program"
       /\ accounts'[account].public_key = loaded.public_key
       /\ accounts'[account].rp_id = loaded.rp_id
       /\ accounts'[account].session_key = accounts[account].session_key
       /\ accounts'[account].counter = accounts[account].counter
    BY <1>4, <1>10
<1>12. ExecutedSessioned(e, accounts[account], accounts'[account])
    BY <1>4, <1>6, <1>7, <1>11 DEF ExecutedSessioned
<1>13. e.executing \in {account, execution_address(account)}
    BY <1>5, <1>7
<1>14. Outcome(account, e)
    BY <1>4, <1>7, <1>8, <1>10, <1>11, <1>12, <1>13 DEF Outcome
<1> QED
    BY <1>14

-----------------------------------------------------------------------------
(* The invariant is inductive                                              *)

LEMMA CoreInit == Init => CoreInv
<1> SUFFICES ASSUME Init PROVE CoreInv
    OBVIOUS
<1>1. SysvarInv
    BY SysvarInitInv DEF Init
<1>2. SysvarTypeOK
    BY <1>1 DEF SysvarInv
<1>3. EmptyAccount \in AccountData
    BY SessionKeyType DEF EmptyAccount, AccountData, None
<1>4. /\ accounts \in [Addresses -> AccountData]
      /\ \A a \in Addresses : accounts[a] = EmptyAccount
    BY <1>3 DEF Init
<1>5. effects \in Seq(EffectRecord) /\ committed.accounts = accounts
    BY DEF Init
<1>6. committed \in [accounts : [Addresses -> AccountData],
                     effects : Seq(EffectRecord)]
    BY <1>4, <1>5 DEF Init
<1>7. TypeOK
    BY <1>2, <1>4, <1>5, <1>6, WordAssumption DEF Init, TypeOK, Idle
<1>8. AssertionsGenuine
    BY DEF Init, AssertionsGenuine
<1>9. AccountsOK(accounts)
    BY <1>4 DEF AccountsOK, Identified, Blank, EmptyAccount
<1> QED
    BY <1>1, <1>5, <1>7, <1>8, <1>9 DEF CoreInv

\* No step but Tick touches the sysvar.
LEMMA SysvarUnchanged ==
    ASSUME SysvarInv, UNCHANGED <<slot_hashes, produced>>
    PROVE  SysvarInv'
BY DEF SysvarInv, SysvarTypeOK, EntriesIntact, BankHash, EntriesDescend,
       EntriesOrdered, ProducedKept, EntriesProduced, head

\* A successful instruction preserves the invariant.
LEMMA CoreOutcome ==
    ASSUME CoreInv, NEW account, NEW e, Outcome(account, e)
    PROVE  CoreInv'
<1>1. /\ account \in Addresses /\ e \in EffectRecord
      /\ effects' = Append(effects, e)
      /\ accounts' \in [Addresses -> AccountData]
      /\ UNCHANGED <<slot_hashes, produced, unix_timestamp, assertions,
                     counters, tx, committed>>
    BY AddressFacts DEF Outcome
<1>2. SysvarInv'
    BY <1>1, SysvarUnchanged DEF CoreInv
<1>3. effects' \in Seq(EffectRecord)
    BY <1>1 DEF CoreInv, TypeOK
<1>4. TypeOK'
    BY <1>1, <1>2, <1>3 DEF CoreInv, TypeOK, SysvarInv
<1>5. AssertionsGenuine' /\ AccountsOK(committed.accounts)'
    BY <1>1 DEF CoreInv, AssertionsGenuine, AccountsOK, Identified, Blank
<1>6. ASSUME NEW a \in Addresses, a # account
      PROVE  /\ accounts'[a].version = accounts[a].version
             /\ accounts'[a].public_key = accounts[a].public_key
             /\ accounts'[a].rp_id = accounts[a].rp_id
             /\ accounts'[a].session_key = accounts[a].session_key
             /\ accounts'[a].counter = accounts[a].counter
             /\ accounts'[a].owner \in {accounts[a].owner, "program"}
    BY <1>6 DEF Outcome
<1>7. Identified(accounts')
  <2> SUFFICES ASSUME NEW a \in Addresses, accounts'[a].version = 1
               PROVE  /\ accounts'[a].owner = "program"
                      /\ accounts'[a].public_key \in PublicKeys
                      /\ a = derive_account(accounts'[a].public_key)
                      /\ accounts'[a].rp_id = RpIdOf[accounts'[a].public_key]
      BY DEF Identified
  <2>1. CASE a = account
      BY <2>1 DEF Outcome
  <2>2. CASE a # account
      BY <2>2, <1>6 DEF CoreInv, AccountsOK, Identified
  <2> QED
      BY <2>1, <2>2
<1>8. Blank(accounts')
  <2> SUFFICES ASSUME NEW a \in Addresses, accounts'[a].version = 0
               PROVE  /\ accounts'[a].counter = 0
                      /\ accounts'[a].session_key = ZeroSessionKey
      BY DEF Blank
  <2>1. a # account
      BY DEF Outcome
  <2> QED
      BY <2>1, <1>6 DEF CoreInv, AccountsOK, Blank
<1>9. AccountsOK(accounts)'
    BY <1>7, <1>8 DEF AccountsOK, Identified, Blank
<1> QED
    BY <1>2, <1>4, <1>5, <1>9 DEF CoreInv

\* The instruction handlers' steps, by what they achieve.
LEMMA HandlerOutcome ==
    ASSUME CoreInv, Initialize \/ Execute \/ Refresh \/ ExecuteSessioned
    PROVE  \E account \in Addresses : \E e : Outcome(account, e)
<1>1. CASE Initialize
    BY <1>1, InitializeOutcome DEF Initialize
<1>2. CASE Execute
    BY <1>2, ExecuteOutcome DEF Execute
<1>3. CASE Refresh
    BY <1>3, RefreshOutcome DEF Refresh
<1>4. CASE ExecuteSessioned
    BY <1>4, SessionedOutcome DEF ExecuteSessioned
<1> QED
    BY <1>1, <1>2, <1>3, <1>4

\* Every challenge a client builds is a well-formed one.
LEMMA ChallengesType ==
    ASSUME CoreInv
    PROVE  \A c \in Challenges : c \in Challenge
<1>1. slot_hashes[1].hash \in {"bank hash"} \X Nat
  <2>1. slot_hashes \in Seq(SlotHashEntry) /\ 1 \in 1..Len(slot_hashes)
      BY EntriesAssumption DEF CoreInv, SysvarInv, SysvarTypeOK
  <2>2. slot_hashes[1] \in SlotHashEntry
      BY <2>1
  <2> QED
      BY <2>2 DEF SlotHashEntry
<1> DEFINE x == slot_hashes[1].hash
<1>2. <<>> \in Seq(Cpis) /\ \A i \in Instructions : i \in Seq(Cpis)
    BY InstructionsAssumption
<1>3. ASSUME NEW s \in Signers, NEW k \in SessionKeyArgs \cup {None}
      PROVE  get_initialization_payload_hash(x, s, k) \in Challenge
    BY <1>1, <1>2, SessionKeyType, PayloadType
       DEF get_initialization_payload_hash
<1>4. ASSUME NEW s \in Signers, NEW i \in Instructions
      PROVE  get_instruction_payload_hash(x, s, i) \in Challenge
    BY <1>1, <1>2, SessionKeyType, PayloadType
       DEF get_instruction_payload_hash
<1>5. ASSUME NEW s \in Signers, NEW k \in SessionKeyArgs
      PROVE  get_refresh_session_key_payload_hash(x, s, k) \in Challenge
    BY <1>1, <1>2, SessionKeyType, PayloadType
       DEF get_refresh_session_key_payload_hash
<1> QED
    BY <1>3, <1>4, <1>5 DEF Challenges

\* An authenticator makes well-formed assertions for its own relying party.
LEMMA SignResult ==
    ASSUME CoreInv, Sign
    PROVE  /\ counters' \in [PublicKeys -> Nat]
           /\ \E a : /\ assertions' = assertions \cup {a}
                     /\ a \in Assertion
                     /\ a.rp_id = RpIdOf[a.public_key]
           /\ UNCHANGED <<slot_hashes, produced, unix_timestamp, accounts,
                          effects, tx, committed>>
<1>1. PICK public_key \in PublicKeys, user_present \in UserPresence,
           params \in ClientParams, challenge \in Challenges :
             SignAssertion(public_key, user_present, params, challenge)
    BY DEF Sign
<1> DEFINE counter == IF public_key \in Counting THEN counters[public_key] + 1
                      ELSE 0
           data == reconstruct_client_data_json(params, RpIdOf[public_key],
                                                challenge)
           a == [public_key |-> public_key, rp_id |-> RpIdOf[public_key],
                 user_present |-> user_present, counter |-> counter,
                 client_data |-> data]
<1>2. /\ counters' = [counters EXCEPT ![public_key] = counter]
      /\ assertions' = assertions \cup {a}
      /\ UNCHANGED <<slot_hashes, produced, unix_timestamp, accounts, effects,
                     tx, committed>>
    BY <1>1 DEF SignAssertion, NewAssertion, clockVars
<1>3. counters \in [PublicKeys -> Nat]
    BY DEF CoreInv, TypeOK
<1>4. counter \in Nat
    BY <1>3
<1>5. /\ RpIdOf[public_key] \in RpIds /\ user_present \in BOOLEAN
      /\ challenge \in Challenge
    BY KeysAssumption, ChallengesType
<1>6. data \in ClientData
    BY <1>5 DEF ClientData, reconstruct_client_data_json
<1> HIDE DEF counter, data
<1>7. a \in Assertion /\ a.rp_id = RpIdOf[a.public_key]
    BY <1>4, <1>5, <1>6 DEF Assertion
<1>8. counters' \in [PublicKeys -> Nat]
    BY <1>2, <1>3, <1>4
<1> QED
    BY <1>2, <1>7, <1>8

LEMMA CoreStep == CoreInv /\ [Next]_vars => CoreInv'
<1> SUFFICES ASSUME CoreInv, [Next]_vars PROVE CoreInv'
    OBVIOUS
<1>1. ASSUME Initialize \/ Execute \/ Refresh \/ ExecuteSessioned
      PROVE  CoreInv'
    BY <1>1, HandlerOutcome, CoreOutcome
<1>2. ASSUME Begin PROVE CoreInv'
  <2>1. PICK signers \in SUBSET Signers, precompile \in SUBSET assertions :
          BeginTransaction(signers, precompile)
      BY <1>2 DEF Begin
  <2>2. /\ tx' = [running |-> TRUE, signers |-> signers,
                  precompile |-> precompile]
        /\ UNCHANGED <<slot_hashes, produced, unix_timestamp, assertions,
                       counters, accounts, effects, committed>>
      BY <2>1 DEF BeginTransaction, clockVars, deviceVars
  <2>3. TypeOK'
      BY <2>2 DEF CoreInv, TypeOK, SysvarTypeOK
  <2> QED
      BY <2>2, <2>3, SysvarUnchanged
         DEF CoreInv, AssertionsGenuine, AccountsOK, Identified, Blank
<1>3. ASSUME Commit PROVE CoreInv'
  <2>1. /\ tx' = Idle
        /\ committed' = [accounts |-> accounts, effects |-> effects]
        /\ UNCHANGED <<slot_hashes, produced, unix_timestamp, assertions,
                       counters, accounts, effects>>
      BY <1>3 DEF Commit, clockVars, deviceVars
  <2>2. TypeOK'
      BY <2>1 DEF CoreInv, TypeOK, SysvarTypeOK, Idle
  <2>3. committed'.accounts = accounts
      BY <2>1
  <2>4. AccountsOK(accounts)' /\ AccountsOK(committed.accounts)'
      BY <2>1, <2>3 DEF CoreInv, AccountsOK, Identified, Blank
  <2> QED
      BY <2>1, <2>2, <2>4, SysvarUnchanged DEF CoreInv, AssertionsGenuine
<1>4. ASSUME Rollback PROVE CoreInv'
  <2>1. /\ tx' = Idle
        /\ accounts' = committed.accounts /\ effects' = committed.effects
        /\ UNCHANGED <<slot_hashes, produced, unix_timestamp, assertions,
                       counters, committed>>
      BY <1>4 DEF Rollback, clockVars, deviceVars
  <2>2. TypeOK'
      BY <2>1 DEF CoreInv, TypeOK, SysvarTypeOK, Idle
  <2>3. AccountsOK(accounts)' /\ AccountsOK(committed.accounts)'
      BY <2>1 DEF CoreInv, AccountsOK, Identified, Blank
  <2> QED
      BY <2>1, <2>2, <2>3, SysvarUnchanged DEF CoreInv, AssertionsGenuine
<1>5. ASSUME Tick PROVE CoreInv'
  <2>1. PICK height \in FIRST_SLOT..MAX_SLOT : AdvanceSlot(height)
      BY <1>5 DEF Tick
  <2>2. /\ unix_timestamp' \in unix_timestamp..MAX_TIME
        /\ UNCHANGED <<assertions, counters, accounts, effects, tx, committed>>
      BY <1>5 DEF Tick, deviceVars
  <2>3. SysvarInv'
      BY <2>1, SlotAssumption, SysvarStepInv DEF CoreInv
  <2>4. unix_timestamp' \in 0..MAX_TIME
      BY <2>2, WordAssumption DEF CoreInv, TypeOK
  <2>5. TypeOK'
      BY <2>2, <2>3, <2>4 DEF CoreInv, TypeOK, SysvarInv
  <2> QED
      BY <2>2, <2>3, <2>5
         DEF CoreInv, AssertionsGenuine, AccountsOK, Identified, Blank
<1>6. ASSUME Sign PROVE CoreInv'
  <2>1. /\ counters' \in [PublicKeys -> Nat]
        /\ UNCHANGED <<slot_hashes, produced, unix_timestamp, accounts,
                       effects, tx, committed>>
      BY <1>6, SignResult
  <2>2. PICK a : /\ assertions' = assertions \cup {a}
                 /\ a \in Assertion
                 /\ a.rp_id = RpIdOf[a.public_key]
      BY <1>6, SignResult
  <2>3. assertions \subseteq assertions' /\ assertions' \subseteq Assertion
      BY <2>2 DEF CoreInv, TypeOK
  <2>4. tx' \in [running : BOOLEAN, signers : SUBSET Signers,
                 precompile : SUBSET assertions']
      BY <2>1, <2>3 DEF CoreInv, TypeOK
  <2>5. TypeOK'
      BY <2>1, <2>3, <2>4 DEF CoreInv, TypeOK, SysvarTypeOK
  <2>6. AssertionsGenuine'
      BY <2>2 DEF CoreInv, AssertionsGenuine
  <2> QED
      BY <2>1, <2>5, <2>6, SysvarUnchanged
         DEF CoreInv, AccountsOK, Identified, Blank
<1>7. ASSUME UNCHANGED vars PROVE CoreInv'
  <2>1. UNCHANGED <<slot_hashes, produced, unix_timestamp, assertions,
                    counters, accounts, effects, tx, committed>>
      BY <1>7 DEF vars
  <2> QED
      BY <2>1, SysvarUnchanged
         DEF CoreInv, TypeOK, SysvarTypeOK, AssertionsGenuine, AccountsOK,
             Identified, Blank
<1> QED
    BY <1>1, <1>2, <1>3, <1>4, <1>5, <1>6, <1>7 DEF Next

LEMMA CoreInvariant == Spec => []CoreInv
BY CoreInit, CoreStep, PTL DEF Spec

\* Every state of the program and its environment is well typed.
THEOREM TypeCorrect == Spec => []TypeOK
<1>1. CoreInv => TypeOK
    BY DEF CoreInv
<1> QED
    BY <1>1, CoreInvariant, PTL

\* An initialized account is always the one derived from its passkey, with
\* that passkey's relying party.
THEOREM IdentityHolds == Spec => []AccountIdentity
<1>1. CoreInv => AccountIdentity
    BY DEF CoreInv, AccountsOK, AccountIdentity
<1> QED
    BY <1>1, CoreInvariant, PTL

=============================================================================
