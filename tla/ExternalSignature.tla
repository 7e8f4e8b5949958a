-------------------------- MODULE ExternalSignature --------------------------
(***************************************************************************)
(* The external signature program: its four instruction handlers over the  *)
(* accounts they own, inside the transactions of the Solana runtime, with  *)
(* the passkeys that sign and the clock and SlotHashes sysvars they read.  *)
(*                                                                         *)
(* A transaction carries the signatures of some Solana keys and, in its    *)
(* instruction 0, the passkey signatures the secp256r1 precompile has      *)
(* verified.  Its instructions run one after the other on `accounts`; the  *)
(* transaction then commits, or an instruction fails and everything is     *)
(* rolled back to `committed`.  Anyone may build any transaction at any    *)
(* time from the passkey signatures made so far: late, repeatedly, out of  *)
(* order, several program instructions in one transaction.                 *)
(*                                                                         *)
(* A hash is its preimage: SHA-256 and PDA derivation are collision free.  *)
(* A Result is a set with at most one element, {} for every Err or panic.  *)
(***************************************************************************)
EXTENDS SlotHashes, FiniteSets

CONSTANTS
    PublicKeys,    \* P-256 passkeys
    RpIds,         \* relying parties
    RpIdOf,        \* the relying party each passkey was created for
    Counting,      \* the passkeys whose authenticator keeps a signature counter
    Signers,       \* Solana keypairs: payers, nonce signers, session keys
    Zero,          \* the value of a field that is still all zero bytes
    UserPresence,  \* the user-present flags that assertions come with
    ClientParams,  \* clientDataJSON reconstruction parameters
    Instructions,  \* the instruction lists clients ask to execute
    Expirations,   \* the u64 expiration fields clients send
    WORD,          \* 2^64
    SESSION_KEY_EXPIRATION_LIMIT,  \* three months of seconds
    MAX_SIGNATURES,  \* bound: signatures in one precompile instruction
    MAX_TIME,        \* bound: the last unix timestamp
    MAX_ASSERTIONS,  \* bound: passkey signatures made in one behaviour
    MAX_EFFECTS      \* bound: instructions that succeed in one behaviour

ASSUME KeysAssumption ==
    /\ Zero \notin PublicKeys \cup RpIds \cup Signers
    /\ RpIdOf \in [PublicKeys -> RpIds]
    /\ Counting \subseteq PublicKeys
    /\ UserPresence \subseteq BOOLEAN

ASSUME WordAssumption ==
    /\ WORD \in Nat /\ SESSION_KEY_EXPIRATION_LIMIT \in Nat /\ MAX_TIME \in Nat
    /\ 2 * (MAX_TIME + SESSION_KEY_EXPIRATION_LIMIT) < WORD
    /\ Expirations \subseteq 0..(WORD - 1)

\* What one compiled instruction of an instruction list makes its CPI do:
\*   "call"    another program succeeds and touches no account of ours
\*   "fail"    another program returns an error
\*   "self"    its program_id is this program
\*   "assign"  the system program allocates the signing account and assigns
\*             it to this program
Cpis == {"call", "fail", "self", "assign"}

ASSUME InstructionsAssumption == Instructions \subseteq Seq(Cpis)

VARIABLES
    unix_timestamp,  \* the Clock sysvar
    assertions,      \* every passkey signature made so far
    counters,        \* the signature counter inside each authenticator
    accounts,        \* the accounts, as the running transaction sees them
    effects,         \* history: the instructions that succeeded, in order
    tx,              \* the running transaction
    committed        \* accounts and effects after the last transaction

vars == <<slot_hashes, produced, unix_timestamp, assertions, counters,
          accounts, effects, tx, committed>>

clockVars  == <<slot_hashes, produced, unix_timestamp>>
deviceVars == <<assertions, counters>>

(***************************************************************************)
(* Addresses and account data                                              *)
(***************************************************************************)
derive_account(public_key) == <<"passkey", public_key>>
execution_address(account) == <<"execution_account", account>>

PasskeyAddresses == {derive_account(p) : p \in PublicKeys}
Addresses == PasskeyAddresses \cup {execution_address(a) : a \in PasskeyAddresses}

SignerExecutionScheme == {"ExecutionAccount", "ExternalAccount"}

SessionKey == [key : Signers \cup {Zero}, expiration : 0..(WORD - 1)]
ZeroSessionKey == [key |-> Zero, expiration |-> 0]

\* Option<SessionKey>: the zero key, which nobody holds, stands for None.
SessionKeyArgs == [key : Signers, expiration : Expirations]
None == ZeroSessionKey

\* version is the header's; 0 is an account without a header.
AccountData ==
    [owner : {"system", "program"}, version : 0..1,
     public_key : PublicKeys \cup {Zero}, rp_id : RpIds \cup {Zero},
     session_key : SessionKey, counter : Nat]

EmptyAccount ==
    [owner |-> "system", version |-> 0, public_key |-> Zero, rp_id |-> Zero,
     session_key |-> ZeroSessionKey, counter |-> 0]

\* The code also asks that the data be empty.  Here that follows: nothing but
\* initialize allocates data, and it assigns the owner in the same step
\* (AccountCreation has the steps apart, and both tests).
check_account_uninitialized_skipped(data) == TRUE  \* mutant: no check
check_account_uninitialized(data) == data.owner = "system"

\* ExternallySignedAccount::load followed by data() or data_ref().
data_ref(data) == {d \in {data} : d.owner = "program" /\ d.version = 1}

(***************************************************************************)
(* The payloads a passkey signs the hash of                                *)
(***************************************************************************)
Payload(tag, slothash, nonce_signer, session_key, instructions) ==
    [tag |-> tag, slothash |-> slothash, nonce_signer |-> nonce_signer,
     session_key |-> session_key, instructions |-> instructions]

get_initialization_payload_hash(slothash, rent_payer, session_key) ==
    Payload("initialize_passkey", slothash, rent_payer, session_key, <<>>)

get_instruction_payload_hash(slothash, nonce_signer, instructions) ==
    Payload("execute_instructions", slothash, nonce_signer, None, instructions)

get_refresh_session_key_payload_hash(slothash, nonce_signer, session_key) ==
    Payload("refresh_session_key", slothash, nonce_signer, session_key, <<>>)

reconstruct_client_data_json(params, rp_id, challenge) ==
    [params |-> params, rp_id |-> rp_id, challenge |-> challenge]

(***************************************************************************)
(* P256WebauthnAccountData                                                 *)
(***************************************************************************)
\* The session key may not outlive the limit.
within_limit_unchecked(expiration) == TRUE  \* mutant: no limit
within_limit(expiration) ==
    expiration <= (unix_timestamp + SESSION_KEY_EXPIRATION_LIMIT) % WORD

initialize_account(data, public_key, rp_id, session_key) ==
    {[data EXCEPT !.version = 1, !.public_key = public_key, !.rp_id = rp_id,
                  !.counter = 0, !.session_key = s] :
        s \in {k \in {session_key} : k = None \/ within_limit(k.expiration)}}

\* The address passed in is the one derived from the key in the arguments.
key_matches_any(account, public_key) == TRUE  \* mutant: not compared
key_matches(account, public_key) == account = derive_account(public_key)

check_account(account, is_writable, public_key) ==
    is_writable /\ key_matches(account, public_key)

\* The counter check: 0 is neither compared nor stored.
counter_accepted_equal(data, counter) ==  \* mutant: off by one
    counter # 0 => counter >= data.counter
counter_accepted(data, counter) == counter # 0 => counter > data.counter

next_counter_unstored(data, counter) == data.counter  \* mutant: not stored
next_counter_ahead(data, counter) ==  \* mutant: the next counter expected
    IF counter # 0 THEN counter + 1 ELSE data.counter
next_counter(data, counter) == IF counter # 0 THEN counter ELSE data.counter

\* Mutant: the reconstructed client data is not compared.
verify_payload_any_challenge(data, precompile, params, challenge) ==
    {[data EXCEPT !.counter = next_counter(data, a.counter)] :
        a \in {b \in precompile :
                 /\ precompile = {b} /\ b.public_key = data.public_key
                 /\ b.user_present /\ b.rp_id = data.rp_id
                 /\ counter_accepted(data, b.counter)}}

verify_payload(data, precompile, params, challenge) ==
    {[data EXCEPT !.counter = next_counter(data, a.counter)] :
        a \in {b \in precompile :
                 /\ precompile = {b}
                 /\ b.public_key = data.public_key
                 /\ b.user_present
                 /\ b.rp_id = data.rp_id
                 /\ reconstruct_client_data_json(params, data.rp_id, challenge)
                        = b.client_data
                 /\ counter_accepted(data, b.counter)}}

is_valid_session_key_unexpiring(data, signer, is_signer) ==  \* mutant
    is_signer /\ data.session_key.key = signer
is_valid_session_key(data, signer, is_signer) ==
    /\ is_signer
    /\ data.session_key.key = signer
    /\ data.session_key.expiration >= unix_timestamp

update_session_key_kept(data, session_key) ==  \* mutant: the old key stays
    {[data EXCEPT !.session_key.expiration = e] :
        e \in {t \in {session_key.expiration} : within_limit(t)}}
update_session_key_unlimited(data, session_key) ==  \* mutant: no limit
    {[data EXCEPT !.session_key = session_key]}
update_session_key(data, session_key) ==
    {[data EXCEPT !.session_key = s] :
        s \in {k \in {session_key} : within_limit(k.expiration)}}

\* Mutant: the stored key itself in place of the address derived from it.
get_execution_account_underived(account, data, scheme) ==
    IF scheme = "ExecutionAccount" THEN execution_address(account)
    ELSE data.public_key
get_execution_account(account, data, scheme) ==
    IF scheme = "ExecutionAccount" THEN execution_address(account)
    ELSE derive_account(data.public_key)

(***************************************************************************)
(* The CPIs of an instruction list, signed by the given PDA.  The list     *)
(* fails as a whole when one of its instructions names this program        *)
(* (re-entrancy), when another program fails, or when the system program   *)
(* is asked to assign an account it no longer owns.                        *)
(***************************************************************************)
invoke_instructions(accts, signer, instructions) ==
    LET assigns == {i \in DOMAIN instructions : instructions[i] = "assign"}
        ok == /\ \A i \in DOMAIN instructions :
                    instructions[i] \notin {"self", "fail"}
              /\ \A i, j \in assigns : i = j
              /\ assigns # {} => accts[signer].owner = "system"
    IN  IF ok THEN {[a \in DOMAIN accts |->
                        IF a = signer /\ assigns # {}
                        THEN [accts[a] EXCEPT !.owner = "program"]
                        ELSE accts[a]]}
        ELSE {}

(***************************************************************************)
(* Transactions (external: the runtime)                                    *)
(***************************************************************************)
Idle == [running |-> FALSE, signers |-> {}, precompile |-> {}]

\* A transaction starts.  The precompile accepts only genuine signatures.
BeginTransaction(signers, precompile) ==
    /\ ~tx.running /\ Len(effects) < MAX_EFFECTS
    /\ tx' = [running |-> TRUE, signers |-> signers, precompile |-> precompile]
    /\ UNCHANGED <<clockVars, deviceVars, accounts, effects, committed>>

Commit ==
    /\ tx.running
    /\ tx' = Idle
    /\ committed' = [accounts |-> accounts, effects |-> effects]
    /\ UNCHANGED <<clockVars, deviceVars, accounts, effects>>

\* An instruction returns an error or panics, in whichever of its steps.
Rollback ==
    /\ tx.running
    /\ tx' = Idle
    /\ accounts' = committed.accounts
    /\ effects' = committed.effects
    /\ UNCHANGED <<clockVars, deviceVars, committed>>

\* The history entry of an instruction of the running transaction.
Effect(tag, account, executing, session_key, instructions, by, signer) ==
    [tag |-> tag, account |-> account, executing |-> executing,
     session_key |-> session_key, instructions |-> instructions, by |-> by,
     signer |-> signer, signed |-> signer \in tx.signers, head |-> head,
     time |-> unix_timestamp]

\* An instruction of the running transaction succeeds.
Succeed(accts, effect) ==
    /\ Len(effects) < MAX_EFFECTS
    /\ accounts' = accts
    /\ effects' = Append(effects, effect)
    /\ UNCHANGED <<clockVars, deviceVars, tx, committed>>

(***************************************************************************)
(* The instruction handlers.  stack_height is 2 when another program calls *)
(* this one by CPI.                                                        *)
(***************************************************************************)
\* The slot hash of the context that load checks.
load_initialization(account, rent_payer, slot, stack_height, public_key) ==
    {slothash \in validate_nonce(slot_hashes, slot, stack_height,
                                 rent_payer \in tx.signers) :
        /\ check_account_uninitialized(accounts[account])
        /\ key_matches(account, public_key)}

create_and_allocate_externally_signed_account(data) ==
    [data EXCEPT !.owner = "program"]

\* The account is created, filled and only then verified against its own
\* contents; a verification that fails undoes the writes by Rollback.
process_initialize_external_account(account, rent_payer, slot, stack_height, public_key, rp_id, params, session_key) ==
    \E slothash \in load_initialization(account, rent_payer, slot, stack_height,
                                        public_key) :
    \E written \in initialize_account(
                     create_and_allocate_externally_signed_account(
                         accounts[account]),
                     public_key, rp_id, session_key) :
    \E data \in verify_payload(written, tx.precompile, params,
                     get_initialization_payload_hash(slothash, rent_payer,
                                                     session_key)) :
       Succeed([accounts EXCEPT ![account] = data],
               Effect("initialize_passkey", account, account, session_key,
                      <<>>, tx.precompile, rent_payer))

process_execute_instructions(account, is_writable, nonce_signer, slot, stack_height, public_key, params, scheme, instructions) ==
    \E loaded \in data_ref(accounts[account]) :
       /\ check_account(account, is_writable, public_key)
       /\ \E slothash \in validate_nonce(slot_hashes, slot, stack_height,
                                         nonce_signer \in tx.signers) :
          \E data \in verify_payload(loaded, tx.precompile, params,
                        get_instruction_payload_hash(slothash, nonce_signer,
                                                     instructions)) :
          LET executing == get_execution_account(account, loaded, scheme)
          IN  \E accts \in invoke_instructions(
                             [accounts EXCEPT ![account] = data],
                             executing, instructions) :
                 Succeed(accts, Effect("execute_instructions", account,
                                       executing, None, instructions,
                                       tx.precompile, nonce_signer))

\* The expiration argument is a duration; the sum wraps like the i64 it is.
process_refresh_session_key(account, is_writable, nonce_signer, slot, stack_height, public_key, params, session_key) ==
    \E loaded \in data_ref(accounts[account]) :
       /\ check_account(account, is_writable, public_key)
       /\ \E slothash \in validate_nonce(slot_hashes, slot, stack_height,
                                         nonce_signer \in tx.signers) :
          \E verified \in verify_payload(loaded, tx.precompile, params,
                        get_refresh_session_key_payload_hash(slothash,
                            nonce_signer, session_key)) :
          \E data \in update_session_key(verified,
                        [session_key EXCEPT !.expiration =
                            (unix_timestamp + session_key.expiration) % WORD]) :
             Succeed([accounts EXCEPT ![account] = data],
                     Effect("refresh_session_key", account, account,
                            session_key, <<>>, tx.precompile, nonce_signer))

\* Neither the derivation of the account nor the stack height is checked.
process_execute_instructions_sessioned(account, session_signer, scheme, instructions) ==
    \E loaded \in data_ref(accounts[account]) :
       /\ is_valid_session_key(loaded, session_signer,
                               session_signer \in tx.signers)
       /\ LET executing == get_execution_account(account, loaded, scheme)
          IN  \E accts \in invoke_instructions(accounts, executing,
                                               instructions) :
                 Succeed(accts, Effect("execute_instructions_sessioned",
                                       account, executing, None, instructions,
                                       {}, session_signer))

(***************************************************************************)
(* The environment (external)                                              *)
(***************************************************************************)
\* A block is produced; unix_timestamp never runs backwards.
Tick ==
    /\ ~tx.running
    /\ \E height \in FIRST_SLOT..MAX_SLOT : AdvanceSlot(height)
    /\ unix_timestamp' \in unix_timestamp..MAX_TIME
    /\ UNCHANGED <<deviceVars, accounts, effects, tx, committed>>

\* The assertion an authenticator makes.  A counting one increments its
\* counter with every signature, the others always send 0.
NewAssertion(public_key, user_present, params, challenge) ==
    [public_key |-> public_key, rp_id |-> RpIdOf[public_key],
     user_present |-> user_present,
     counter |-> IF public_key \in Counting THEN counters[public_key] + 1 ELSE 0,
     client_data |-> reconstruct_client_data_json(params, RpIdOf[public_key], challenge)]

\* The user approves a challenge on the authenticator.
SignAssertion(public_key, user_present, params, challenge) ==
    LET assertion == NewAssertion(public_key, user_present, params, challenge)
    IN  /\ ~tx.running /\ Cardinality(assertions) < MAX_ASSERTIONS
        /\ counters' = [counters EXCEPT ![public_key] = assertion.counter]
        /\ assertions' = assertions \cup {assertion}
        /\ UNCHANGED <<clockVars, accounts, effects, tx, committed>>

\* The challenges a client builds from the newest slot hash.
Challenges ==
    LET slothash == slot_hashes[1].hash
    IN  {get_initialization_payload_hash(slothash, s, k) :
            s \in Signers, k \in SessionKeyArgs \cup {None}}
        \cup {get_instruction_payload_hash(slothash, s, i) :
            s \in Signers, i \in Instructions}
        \cup {get_refresh_session_key_payload_hash(slothash, s, k) :
            s \in Signers, k \in SessionKeyArgs}

(***************************************************************************)
(* The specification                                                       *)
(***************************************************************************)
Init ==
    /\ SysvarInit
    /\ unix_timestamp = 0
    /\ assertions = {}
    /\ counters = [p \in PublicKeys |-> 0]
    /\ accounts = [a \in Addresses |-> EmptyAccount]
    /\ effects = <<>>
    /\ tx = Idle
    /\ committed = [accounts |-> accounts, effects |-> effects]

Initialize ==
    /\ tx.running
    /\ \E account \in Addresses, rent_payer \in Signers, slot \in 0..MODULUS,
          stack_height \in 1..2, public_key \in PublicKeys, rp_id \in RpIds,
          params \in ClientParams, session_key \in SessionKeyArgs \cup {None} :
             process_initialize_external_account(account, rent_payer, slot,
                 stack_height, public_key, rp_id, params, session_key)

Execute ==
    /\ tx.running
    /\ \E account \in Addresses, is_writable \in BOOLEAN, nonce_signer \in Signers,
          slot \in 0..MODULUS, stack_height \in 1..2, public_key \in PublicKeys,
          params \in ClientParams, scheme \in SignerExecutionScheme,
          instructions \in Instructions :
             process_execute_instructions(account, is_writable, nonce_signer, slot,
                 stack_height, public_key, params, scheme, instructions)

Refresh ==
    /\ tx.running
    /\ \E account \in Addresses, is_writable \in BOOLEAN, nonce_signer \in Signers,
          slot \in 0..MODULUS, stack_height \in 1..2, public_key \in PublicKeys,
          params \in ClientParams, session_key \in SessionKeyArgs :
             process_refresh_session_key(account, is_writable, nonce_signer, slot,
                 stack_height, public_key, params, session_key)

ExecuteSessioned ==
    /\ tx.running
    /\ \E account \in Addresses, session_signer \in Signers,
          scheme \in SignerExecutionScheme, instructions \in Instructions :
             process_execute_instructions_sessioned(account, session_signer,
                 scheme, instructions)

Begin ==
    \E signers \in SUBSET Signers \ {{}}, precompile \in SUBSET assertions :
        /\ Cardinality(precompile) <= MAX_SIGNATURES
        /\ BeginTransaction(signers, precompile)

Sign ==
    \E public_key \in PublicKeys, user_present \in UserPresence,
       params \in ClientParams, challenge \in Challenges :
          SignAssertion(public_key, user_present, params, challenge)

Next ==
    \/ Initialize \/ Execute \/ Refresh \/ ExecuteSessioned
    \/ Begin \/ Commit \/ Rollback
    \/ Tick \/ Sign

Spec == Init /\ [][Next]_vars

\* The runtime ends every transaction, by its compute budget if nothing else,
\* and the clock goes on: however many transactions there are, they are
\* inside blocks, so that the ticks between them cannot be put off for ever.
FairSpec == /\ Spec
            /\ WF_vars(Commit \/ Rollback)
            /\ SF_vars(Tick /\ unix_timestamp' > unix_timestamp)

(***************************************************************************)
(* Properties                                                              *)
(***************************************************************************)
Challenge ==
    [tag : {"initialize_passkey", "execute_instructions", "refresh_session_key"},
     slothash : {"bank hash"} \X Nat, nonce_signer : Signers,
     session_key : SessionKey, instructions : Seq(Cpis)]

ClientData == [params : ClientParams, rp_id : RpIds, challenge : Challenge]

Assertion ==
    [public_key : PublicKeys, rp_id : RpIds, user_present : BOOLEAN,
     counter : Nat, client_data : ClientData]

EffectRecord ==
    [tag : {"initialize_passkey", "execute_instructions",
            "refresh_session_key", "execute_instructions_sessioned"},
     account : Addresses, executing : Addresses, session_key : SessionKey,
     instructions : Seq(Cpis), by : SUBSET Assertion, signer : Signers,
     signed : BOOLEAN, head : Nat, time : Nat]

TypeOK ==
    /\ SysvarTypeOK
    /\ unix_timestamp \in 0..MAX_TIME
    /\ assertions \subseteq Assertion
    /\ counters \in [PublicKeys -> Nat]
    /\ accounts \in [Addresses -> AccountData]
    /\ effects \in Seq(EffectRecord)
    /\ tx \in [running : BOOLEAN, signers : SUBSET Signers,
               precompile : SUBSET assertions]
    /\ committed \in [accounts : [Addresses -> AccountData],
                      effects : Seq(EffectRecord)]

Identified(accts) ==
    \A a \in Addresses :
        accts[a].version = 1 =>
            /\ accts[a].owner = "program"
            /\ accts[a].public_key \in PublicKeys
            /\ a = derive_account(accts[a].public_key)
            /\ accts[a].rp_id = RpIdOf[accts[a].public_key]

(***************************************************************************)
(* An initialized account sits at the address derived from the passkey     *)
(* stored in it and carries the relying party of that passkey.  Initialize *)
(* writes the data before it verifies, and the sessioned handler checks    *)
(* neither address nor key, so everything below depends on it; an          *)
(* execution account that its owner assigns to the program must not pass   *)
(* for an initialized account.                                             *)
(***************************************************************************)
AccountIdentity == Identified(accounts)

(***************************************************************************)
(* Every initialize, execute and refresh that succeeds was approved, as    *)
(* it is, by the passkey of the account it acts on: a genuine user-present *)
(* assertion over this very operation and its arguments, over a block of   *)
(* the last WINDOW slots, and over a nonce signer that signed the          *)
(* transaction.                                                            *)
(***************************************************************************)
ApprovedByPasskey ==
    \A i \in DOMAIN effects :
        LET e == effects[i]
        IN  e.tag # "execute_instructions_sessioned" =>
              /\ e.signed
              /\ \E a \in assertions :
                   /\ e.by = {a}
                   /\ a.user_present
                   /\ e.account = derive_account(a.public_key)
                   /\ \E h \in produced :
                        /\ h <= e.head /\ e.head - h < WINDOW
                        /\ a.client_data.challenge =
                             Payload(e.tag, BankHash(h), e.signer,
                                     e.session_key, e.instructions)

(***************************************************************************)
(* The assertions of a counting authenticator take effect in the order in  *)
(* which it made them, and each at most once, however the transactions     *)
(* that carry them are repeated, delayed or reordered.                     *)
(***************************************************************************)
CounterOrder ==
    \A i, j \in DOMAIN effects :
        i < j => \A a \in effects[i].by, b \in effects[j].by :
                    /\ a.public_key = b.public_key
                    /\ a.counter # 0 /\ b.counter # 0
                    => a.counter < b.counter

UsedCounters(effs, account) ==
    UNION {{s.counter : s \in effs[i].by} :
             i \in {j \in DOMAIN effs : effs[j].account = account}}

(***************************************************************************)
(* The stored counter is the largest counter among the effects on the      *)
(* account: an instruction that fails after verification never leaves its  *)
(* counter behind, and a counterless assertion never resets it.            *)
(***************************************************************************)
CounterMatchesEffects ==
    \A a \in Addresses :
        /\ accounts[a].counter \in {0} \cup UsedCounters(effects, a)
        /\ \A c \in UsedCounters(effects, a) : c <= accounts[a].counter

\* The instruction recorded in e installs a session key on the account.
Installs(e, account) == e.account = account /\ e.session_key # None

\* The absolute expiration it stores: initialize takes a timestamp, refresh
\* a duration.
StoredExpiration(e) ==
    IF e.tag = "initialize_passkey" THEN e.session_key.expiration
    ELSE (e.time + e.session_key.expiration) % WORD

(***************************************************************************)
(* A sessioned execution is signed by the session key that the latest      *)
(* passkey-approved installation on that account named (not by a           *)
(* superseded one), no later than the expiration it asked for and no later *)
(* than the three-month limit after it.                                    *)
(***************************************************************************)
SessionAuthority ==
    \A i \in DOMAIN effects :
        LET e == effects[i]
        IN  e.tag = "execute_instructions_sessioned" =>
              /\ e.signed
              /\ \E j \in 1..(i - 1) :
                   /\ Installs(effects[j], e.account)
                   /\ \A k \in (j + 1)..(i - 1) :
                        ~Installs(effects[k], e.account)
                   /\ effects[j].session_key.key = e.signer
                   /\ e.time <= StoredExpiration(effects[j])
                   /\ e.time <= effects[j].time + SESSION_KEY_EXPIRATION_LIMIT

(***************************************************************************)
(* The session key stored in an account is the one of the latest           *)
(* installation among the effects on it, its expiration the one asked for  *)
(* there, and never beyond the limit, although expirations are unchecked   *)
(* u64 values that wrap when a refresh adds them to the clock.             *)
(***************************************************************************)
SessionOrigin ==
    \A a \in Addresses :
        accounts[a].session_key # ZeroSessionKey =>
            \E j \in DOMAIN effects :
                /\ Installs(effects[j], a)
                /\ \A k \in (j + 1)..Len(effects) : ~Installs(effects[k], a)
                /\ accounts[a].session_key =
                     [key |-> effects[j].session_key.key,
                      expiration |-> StoredExpiration(effects[j])]
                /\ accounts[a].session_key.expiration
                     <= effects[j].time + SESSION_KEY_EXPIRATION_LIMIT

(***************************************************************************)
(* The CPIs of an instruction are signed by the account it was approved    *)
(* for or by that account's execution account, never by another wallet's,  *)
(* and the account had been initialized exactly once before.               *)
(***************************************************************************)
ExecutesAsOwnAccount ==
    \A i \in DOMAIN effects :
        LET e == effects[i]
        IN  /\ e.executing \in {e.account, execution_address(e.account)}
            /\ \E j \in 1..i :
                 \A k \in 1..i :
                    (k = j) <=> (effects[k].tag = "initialize_passkey"
                                    /\ effects[k].account = e.account)

(***************************************************************************)
(* A committed account keeps its passkey and relying party for ever and    *)
(* its counter never goes back, whatever later transactions do.            *)
(***************************************************************************)
CommittedIdentity ==
    [][\A a \in Addresses :
         committed.accounts[a].version = 1 =>
            /\ committed'.accounts[a].version = 1
            /\ committed'.accounts[a].public_key = committed.accounts[a].public_key
            /\ committed'.accounts[a].rp_id = committed.accounts[a].rp_id
            /\ committed'.accounts[a].counter >= committed.accounts[a].counter
      ]_vars

(***************************************************************************)
(* The program keeps the promise of Wallet: what is committed is an        *)
(* append-only log of legal events.  Transactions that fail half way,      *)
(* assertions repeated or reordered and several instructions verified      *)
(* against one assertion add nothing else to it.                           *)
(***************************************************************************)
Promise == INSTANCE Wallet WITH
    log <- committed.effects, NoKey <- None, Window <- WINDOW,
    Limit <- SESSION_KEY_EXPIRATION_LIMIT, Word <- WORD
KeepsPromise == Promise!WalletSpec

(***************************************************************************)
(* No owner is locked out: whatever was signed, submitted, repeated, lost  *)
(* or rolled back before, the next assertion of the passkey over a         *)
(* challenge built now is accepted by verify_payload, and the slot hash in *)
(* it by validate_nonce.                                                   *)
(***************************************************************************)
NextApprovalAccepted ==
    \A p \in PublicKeys :
        accounts[derive_account(p)].version = 1 =>
            \A params \in ClientParams, challenge \in Challenges :
                /\ \E slot \in 0..(MODULUS - 1) :
                      challenge.slothash \in validate_nonce(slot_hashes, slot, 1, TRUE)
                /\ verify_payload(accounts[derive_account(p)],
                        {NewAssertion(p, TRUE, params, challenge)}, params, challenge) # {}

\* The key of a session installed at the given time is still good.
InSession(account, time) ==
    /\ committed.accounts[account].session_key.expiration >= unix_timestamp
    /\ \E j \in DOMAIN committed.effects :
          /\ Installs(committed.effects[j], account)
          /\ committed.effects[j].time = time
          /\ \A k \in (j + 1)..Len(committed.effects) :
                ~Installs(committed.effects[k], account)

(***************************************************************************)
(* Every session lapses: unless it is renewed, the session key of an       *)
(* account stops working, for any expiration word that was accepted.  The  *)
(* sessions considered are those whose limit falls within MAX_TIME, in     *)
(* behaviours whose blocks are not used up before that time.               *)
(***************************************************************************)
SessionsLapse ==
    \A account \in PasskeyAddresses :
        \A time \in 0..(MAX_TIME - SESSION_KEY_EXPIRATION_LIMIT - 1) :
            InSession(account, time) ~>
                \/ ~InSession(account, time)
                \/ head = MAX_SLOT /\ unix_timestamp < MAX_TIME

(***************************************************************************)
(* What the WebAuthn document promises of the counter: no signature is     *)
(* used again.                                                             *)
(***************************************************************************)
SignaturesNotReused ==
    \A i, j \in DOMAIN effects :
        i # j => effects[i].by \cap effects[j].by = {}
=============================================================================
