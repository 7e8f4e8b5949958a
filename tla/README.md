# External signature program: TLA+ specification

A TLA+ development kept beside the Solana program in `src/`. It models the
program's instruction handlers inside the transactions that run them, checks
them with TLC on small instances, and proves the central facts with TLAPS for
every value of the constants. Paths below are relative to the repository
(`src/...` is the program crate; in `PROJECT.json` they carry one more `src/`
in front).

## 1. The system

The program gives a WebAuthn passkey (a P-256 key that cannot sign Solana
transactions) a Solana wallet. The passkey signs, off chain, a challenge that
commits to a recent slot hash, to a Solana key (the *nonce signer*) and to the
operation; a transaction carries that signature in a secp256r1 precompile
instruction at index 0 and an instruction of this program that checks that what
was signed is what it is about to do.

| component | state | operations | interacts with |
|---|---|---|---|
| Entrypoint (`entrypoint.rs`) | none | dispatch on the first byte | the four handlers |
| Initialize (`instructions/initialize_external_account.rs`) | creates an account | check empty, check address, nonce, create, write, verify | account layer, nonce, precompile |
| Execute (`instructions/execute_instructions.rs`) | counter | check account, nonce, verify, CPI loop | account layer, nonce, precompile, any program by CPI |
| Refresh session key (`instructions/refresh_session_key.rs`) | counter, session key | check account, nonce, verify, store key | account layer, nonce, Clock |
| Execute sessioned (`instructions/execute_instructions_sessioned.rs`) | none | check session key, CPI loop | account layer, Clock, any program |
| Account layer (`state/externally_signed_account/`) | header, owner | load, data access, execution account | the scheme |
| P256 WebAuthn scheme (`state/p256_webauthn/`) | relying party, public key, session key, counter | initialize, derive, verify payload, session keys | precompile, Clock |
| Nonce (`utils/nonce.rs`, `utils/slothashes.rs`) | reads SlotHashes | validate_nonce and its lookup | sysvar, stack height |
| Precompile parser (`utils/precompiles.rs`) | reads instruction 0 | offsets to slices | instructions sysvar |
| Authenticator data, client data JSON (`utils/signatures/`) | none | parse, reconstruct | the scheme |
| Compiled instructions, SmallVec (`utils/instructions.rs`, `utils/small_vec.rs`) | none | account metas, (de)serialisation | execute handlers |
| Bump allocator (`allocator.rs`) | heap position | alloc | everything that allocates |
| SDKs (`sdks/rust-sdk/`, `sdks/ts-sdk/`) | none | build challenges, arguments, account lists, precompile instructions | clients, and by convention every reader of the program |
| Web app, IDL (`examples/`, `codama/`) | none | user interface, code generation | the SDKs |

What is hard about it:

* **Delivery.** Anyone who holds a passkey signature can put it in a
  transaction: twice, late, out of order, several program instructions against
  the one precompile instruction. What keeps an assertion from taking effect
  again is the counter (only for authenticators that count), the slot window
  and the nonce signer's own signature.
* **Order of effects.** Initialize writes the account and then verifies it
  against its own contents; execute stores the counter before the CPIs, any of
  which may fail. Both rely on the transaction being atomic.
* **Arithmetic.** Slots are truncated to three digits and recovered on a
  circle; slots may be skipped, so positions and slot distances differ.
  Expirations are unchecked `u64` values, cast to `i64`, added and cast back.
* **Trust by construction.** The sessioned handler checks neither address nor
  passkey of the account it is given; it relies on how program-owned accounts
  come into being.

* **Two readers of the same bytes.** Client and program, and precompile and
  program, each have their own code for the same layout: the table of offsets,
  the arguments, the account list, the hashed payload, the JSON text. They agree
  only by convention.
* **Containers across iterations.** The CPI loop reuses its vectors, and indexes
  two arrays of different length with bytes from the request.

What makes it correct: nothing happens without the approval of the passkey (or
of its current, unexpired session key) for that very operation; an assertion of
a counting authenticator takes effect at most once and in order; an account
never changes its identity; a wallet never signs for another one; the nonce
lookup accepts exactly the recent slots.

## 2. Modules

| module | models |
|---|---|
| `Nonce` | `TruncatedSlot`, the lookup and `validate_nonce`, as constant operators |
| `SlotHashes` | the SlotHashes sysvar over time (external) and what the program accepts from it |
| `ExternalSignature` | the four handlers, the account data, transactions, clock and authenticators |
| `Wallet` | what the program promises to a passkey's owner: an abstract, append-only log of legal events |
| `AccountCreation` | the creation of an account step by step, with lamports, the system program's calls, and the failure of each step |
| `InstructionLoop` | the loop of both execute handlers: indices, metas, `seen_indices`, the reused containers |
| `ApprovedExecution` | what executing an approved list means, without containers and indices to go wrong |
| `SdkExecution` | the SDKs' compilation of instructions and challenges, composed with `InstructionLoop` |
| `PrecompileParser` | the parser of the precompile's table of offsets against the precompile's own reading of it |
| `SdkPrecompile` | the SDKs' precompile instruction, composed with `PrecompileParser` |
| `Wire` | the bytes of arguments, account lists and hashed payloads, from the Rust SDK's builders over an untrusted relayer to the program's readers |
| `WebauthnMessage` | client data JSON and authenticator data, from the browser's ceremony to `verify_payload` |
| `BumpAllocator` | the global allocator |
| `MC...` | constants for TLC |
| `SlotHashesProofs`, `ExternalSignatureProofs`, `WalletProofs` | theorems about `SlotHashes` and `ExternalSignature`, and the refinement of `Wallet` |
| `InstructionLoopProofs` | theorems about `InstructionLoop` and `SdkExecution`, and the refinement of `ApprovedExecution` |
| `WireProofs`, `WebauthnMessageProofs`, `PrecompileParserProofs` | theorems about the module of that name |
| `SupportProofs` | theorems about `AccountCreation` and `BumpAllocator` |

How they fit together: `ExternalSignature` extends `SlotHashes`, which extends
`Nonce`. The other modules open up what `ExternalSignature` does in one step or
takes for granted:

* `AccountCreation`: that `Initialize` may be one step, because a half-made
  account never survives its transaction;
* `InstructionLoop`: that the CPIs of `Execute` and `ExecuteSessioned` are the
  approved ones;
* `PrecompileParser`: that the payload `verify_payload` digs out of the
  instruction data is one the precompile has verified (there, a transaction just
  carries the set of verified assertions);
* `WebauthnMessage`: that an assertion may be treated as a record of relying
  party, presence, counter and challenge;
* `Wire`: that arguments arrive as they were meant, and that two different
  operations never have the same payload, so a hash may be its preimage's fields.

`ExternalSignature` implements `Wallet` under the mapping that shows the log as
`committed.effects`; `InstructionLoop` implements `ApprovedExecution` under the
mapping that shows the CPIs made without the account infos. Both refinements are
checked by TLC and proved.

### State and actions of `ExternalSignature`

A `Result` is a set with at most one element: `Ok(v)` is `{v}`, and every `Err`
and every panic is `{}`. A hash is its preimage, and a program derived address
is its seeds: SHA-256 and address derivation are taken as collision free.

`accounts` holds the account of every passkey and its execution account, as the
running transaction sees them; `committed` is what the last transaction left.
`tx` is the running transaction: its signers and the assertions the precompile
accepted. `effects` is a history variable: one record per successful
instruction, with what it did, the slot and time at which it did it, and the
assertions it was verified against. `assertions` and `counters` belong to the
authenticators, `slot_hashes`, `produced` and `unix_timestamp` to the runtime.

| action | code |
|---|---|
| `Initialize` | discriminator 0: `load`, create, `initialize_account`, `verify_initialization_payload` |
| `Execute` | discriminator 1: `load`, `verify_payload`, the CPI loop |
| `Refresh` | discriminator 2: `load`, `verify_payload`, `update_session_key` |
| `ExecuteSessioned` | discriminator 3: `load`, `is_valid_session_key`, the CPI loop |
| `Begin`, `Commit`, `Rollback` | the runtime's transaction (external) |
| `Tick` | a block is produced, the clock moves (external) |
| `Sign` | the user approves a challenge on the authenticator (external) |

A handler is one action: within a transaction the accounts it uses are locked,
so nothing else runs between its steps. A handler that fails in any of its
steps is `Rollback`: the whole transaction is undone, the instructions that
succeeded before included. A transaction may contain any number of program
instructions.

The instruction list of an execution is abstracted to what its CPIs do to the
accounts of the model (`Cpis`): nothing, fail, re-enter, or have the system
program assign the signing account to this program. Only the execution account
can be assigned in that way, and it then is an account the program owns that
has no header.

The operation an assertion approves does not include the choice of the signing
PDA (`signer_execution_scheme` is not part of `get_instruction_payload_hash`),
so `ApprovedByPasskey` says nothing about it; `ExecutesAsOwnAccount` says that
either choice is an account of the same wallet.

### Creating an account

`AccountCreation` has one action per step of `process_initialize_external_account`:
`Load`, `TransferRent`, `AllocateSpace`, `AssignOwner`, `Reload`,
`InitializeHeader`, `InitializeContents`, `SetSessionKey`,
`VerifyInitialization`, and the runtime's `CommitCreation` and `Abort`. An
attempt says whether the checks of `load` pass that do not depend on the account
(the other accounts and sysvars, the nonce, the parsing of the initialization
data, the derived address: one flag, since each fails before anything is
written), whether the passkey signed it, and whether its session key, if it has
one, expires beyond the limit, which `initialize_account` refuses only after it
has written the other fields. `slice` is the length of the data as the
wrapper sees it: 0 until the `Reload`. `Donate` sends lamports to the address
from outside. Rent, balances and the rule that no account may be left below its
rent are there, because they decide whether a creation can be blocked.

### The instruction loop and the SDK

`InstructionLoop` is `CollectAccount` (one iteration of the inner loop),
`Invoke` (the CPI and the clearing of the containers), `Abort` and `Return`. An
access out of bounds is a panic, that is `Abort`. `SdkExecution` puts the
client in front of it: `Message` (external, `solana_program`) orders the keys by
privilege, `account_meta` recovers the privileges from the header's counts,
`Delivered` is the request as the runtime passes it: the privileges of all
mentions of an account merged, and a reserved account (`RESERVED`: sysvars,
built-in programs, the program called) never writable. Its initial states are the requests an SDK makes and
those of any other client.

### The wire

A byte has `BASE` values; a key takes one byte, a `u16` and the expiration two,
and the three domain strings are told apart by their first byte, which is
possible because they differ there. `Build` is an SDK builder with all the
checks of `SmallVec`; `Forward`, `Damage`, `Relist` and `Swap` are what a
relayer may do, in a transaction that mentions accounts elsewhere too (one set of
`Elsewhere`). `Granted` is what the runtime makes of the account list: every
account has the privileges of all its mentions, and a reserved one is never
writable. A listed account may so arrive with other privileges than it was
listed and signed with. `Dispatch`, `ReadCount`, `ReadInstruction`, `ReadSession` and
`Finish` are the readers, `LoadAccounts` the positional accounts of the four
`load` functions, `Verify` the comparison with the signed payload. `MAX_LISTED`
is below `BASE` as in the program: `len() as u8` would wrap at 256 accounts, and
pinocchio's entrypoint passes at most 254.

### The WebAuthn message

A text is a sequence of tokens and a hash is its preimage, spread over
`HASH_LENGTH` bytes so that cutting a message at the wrong place shows. `Approve`
is the ceremony (external): browsers differ in scheme, port, `crossOrigin` and
extra fields, authenticators in flags, counter and extensions. `PackTypescript`
and `PackRust` are the SDKs' flag bytes, `PackOther` any other byte and port;
`VerifyMessage` rebuilds the text and compares.

### The precompile parser and its client

The precompile and the program interpret the same table, each on its own. An
entry says where signature, key and message are: in the instruction itself
(`u16::MAX`) or in any other one. `PrecompileParser` runs the instructions of a
transaction in order; `RunPrecompile` is the runtime's reading, with all bounds
checked, `RunWallet` the program's, where slices of other instructions are not
checked at all. Only the place of a slice is kept, not its bytes, so equal
slices are equal places. The entry is cast in place (`bytemuck`), which needs an
even address; in the layout of the instructions sysvar the data of instruction 0
begins at an even address exactly when that instruction lists an even number of
accounts (`DataIsAligned`). The SDKs list none.

`SdkPrecompile` adds the SDK's `create_secp256r1_instruction`: the compact
signature with its low `s`, the table and the appended parts, in a transaction
with other instructions around it. A signature is a pair of numbers over a small
order; `Genuine` is the curve's check (external). Transactions that are not made
with the SDK are initial states too, with any table.

### The allocator

`BumpAllocator` is `alloc` with its two outcomes; `dealloc` does nothing.
`blocks` and `demand` are history variables. The heap is cleared at the start of
every instruction, so a behaviour is one instruction.

## 3. Runs

| run | question | bounds |
|---|---|---|
| `slot_hashes` | is the nonce lookup exact under skipped slots and wraparound, is expiry final, and does every approval expire? | modulus 7, window 4, 5 entries, slots 1 to 15: two wraparounds, entries dropped, every pattern of skipped slots |
| `wallet` | approval, counter order, rollback, no lock-out, replaced session keys, and the refinement of `Wallet`, for one counting passkey | two assertions, three effects, slots 0 to 2 with a window of 2 (approvals expire), two Solana keys, symmetric; a session key of one may be replaced by one of the other |
| `sessions` | session keys at the edges of the expiration word; does every session end? | 4-bit word, limit 1, expirations 1, 2 and 15 (-1 as an `i64`), times 0 to 2, two assertions of a counterless passkey, three effects |
| `two_wallets` | do wallets stay apart? | two passkeys (one counting), a foreign relying party, absent users, two signatures in the precompile instruction, all kinds of instruction lists, two assertions, four effects |
| `precompile` | does the program read what the precompile verified, within bounds, and all of it? is what the SDK builds accepted? | two instructions of 0, 5 or 8 bytes, tables of up to two entries that point inside, to the last byte, one past the end and to a missing instruction, an odd and an even account list, a foreign program at index 0; from the SDK all `s` of a 4-bit field over order 7, messages from empty to one byte too long, the key inside or in another instruction, up to one other instruction before and after |
| `execution` | are the CPIs the approved ones, and the ones the SDK's caller wanted? does the SDK's challenge match? | up to three accounts and two instructions of up to three indices, repeated or out of range, and a list longer than `seen_indices`; from the SDK up to two instructions of up to two accounts among wallet, execution account, signer, another key and a sysvar wanted writable |
| `sdk_challenge` | does the SDK build a "matching challenge", as `sdks/ts-sdk/src/instructions.ts` says? | as `execution`; **violated** |
| `wire` | is what arrives what was meant, and what is accepted what was signed? | bytes of six values, every vector from empty to its capacity and one element more, two different instructions, the wallet, the signer, a sysvar and another account among the listed ones, with the privileges the rest of the transaction gives them or fewer, any single damaged, missing or added byte, any changed account flag, any other operation's instruction |
| `webauthn_message` | does the rebuilt text admit exactly the honest ceremonies? | all combinations of type, scheme, port, `crossOrigin` and extra fields on two relying parties and a subdomain, all flag bytes 0 to 31 and two with an unknown type; flags, counters and extensions of authenticators |
| `account_creation` | can a half-made account survive, can anyone block a creation? | two payers, each with lamports for a creation and a gift, gifts of either rent; attempts that load or do not, signed or not, without a session key, with one, with one beyond the limit |
| `allocator` | are blocks disjoint, aligned and inside the heap and the frame? | a heap of 40 bytes, sizes 1, 3, 8 and one beyond the heap, alignments 1, 2 and 8, four allocations |
| `counterless_reuse` | does the counter prevent the reuse of signatures, as `docs/p256_webauthn_implementation.md` says? | one passkey that reports counter 0; **violated** |

Deadlock checking is on in `account_creation`, where something can always
happen, and off elsewhere because the bounds (`MAX_SLOT`, `MAX_TIME`,
`MAX_ASSERTIONS`, `MAX_EFFECTS`, `MAX_BLOCKS`), or the end of the transaction or
ceremony, end every behaviour.

Each property has a mutant in `PROJECT.json`: a plausible slip in the code (a
dropped check, an off-by-one, a counter not stored) under which TLC finds it
violated. The mutated definitions stand next to the originals.

Why the bounds are enough: each property of `ExternalSignature` relates at most
two effects and an installation before them; three effects (four with two
wallets) and two assertions cover initialize, refresh or execute, and one more
use. In the loop, two instructions are what a leak from one iteration to the
next needs. Formats are checked at both ends of every length. The theorems below
remove the bounds for the properties they name.

### Fairness

* `FairSysvarSpec` (`ApprovalsLapse`): weak fairness of block production. The
  cluster goes on; while it does not, no transaction runs either.
* `FairSpec` (`SessionsLapse`): weak fairness of `Commit \/ Rollback`, since the
  compute budget ends every transaction, and strong fairness of clock ticks that
  advance the time, since transactions run inside blocks: they disable `Tick`
  again and again, but cannot put it off for ever. Nothing is assumed of users,
  signers or handlers.
* `SdkSpec` of `SdkPrecompile` (`SdkSignatureAccepted`): weak fairness of the
  steps of the one transaction.
* `CreationSpec` (`SignedAttemptSucceeds`): weak fairness of `Steps`, the
  handler's and the runtime's steps in a transaction that has begun. Nothing is
  assumed of `Donate` or `Begin`.

### Where code and documents disagree

`counterless_reuse`: `verify_payload` skips the counter when it is 0, so an
assertion of such a passkey is accepted again while its slot is in the window.
The document's lines 121 to 123 promise otherwise. In the deployed system the
repetition is limited by the slot window and needs the nonce signer to sign
another transaction (or two instructions in the same transaction).

`sdk_challenge`: the program hashes the privileges of the listed accounts as the
runtime passes them, merged over the whole transaction; the SDK hashes those of
the inner message. They differ when the wallet is listed read-only in a wanted
instruction, or the fee payer with fewer privileges than a fee payer has: the
signed challenge is then rejected. The nonce signer never makes a difference as
such: it is the payer of the inner message and a writable signer there already.
`ChallengeMatchesUnlessChanged` shows that there is only one other case, a
reserved account wanted writable, which the runtime passes read-only.
`HonestDelivered` says the same of the whole path over the wire, with an exact
condition: an untouched instruction is accepted if and only if its slot is recent
and the listed accounts arrive with the privileges that were signed.

`SdkSignatureAccepted` says both that a signature in the first instruction of its
transaction is accepted and that one behind another instruction never is, because
`verify_payload` looks at index 0. The comment in
`sdks/ts-sdk/src/instructions.ts` line 89 ("Include this immediately before
authenticated program instructions.") does not say so.

## 4. Theorems

Assumptions: those named in the modules (`ModulusAssumption`,
`WindowAssumption`, `EntriesAssumption`, `SlotAssumption`, `KeysAssumption`,
`WordAssumption`, `InstructionsAssumption`, `ParserAssumption`,
`HeapAssumption`, `RequestAssumption`, `CreationAssumption`,
`ClientsAssumption`, `BaseAssumption`, `AccountsAssumption`,
`OperationsAssumption`, `ElsewhereAssumption`, `TokensAssumption`, `CeremoniesAssumption`). They hold of
the code's 1000, 150, 512, 64 and 2^64: the window is at most the modulus and at
most the sysvar's length, twice the clock plus the limit stays below the word,
and the runtime hands out one `AccountInfo` for all occurrences of an account.
`ClientsAssumption` and `OperationsAssumption` are the types of what is asked of
the SDKs, and that no reserved account (a sysvar, a built-in program) is asked to
sign or is a wallet; `ElsewhereAssumption` is the type of what else a transaction
mentions; `AccountsAssumption` keeps the listed accounts below 256, a limit of
the runtime, without which `len() as u8` would wrap in the challenge;
`CeremoniesAssumption` says what a browser writes: no quote in the host or the
port of an origin, `crossOrigin` at most once.

* `SysvarInvariant`, `NonceLookupExact`, `NonceExpiryFinal`
  (`SlotHashesProofs`). `NonceExact` speaks of all blocks ever produced, so it
  needs to know what the sysvar retains. `SysvarInv` adds: entries hold their
  own slot's hash, are strictly descending, the entry at index `i` is at least
  `i` slots behind the head (why the search need only look at newer entries),
  and a produced block is in the sysvar or at least `MAX_ENTRIES` slots behind.
  `IndexDifference` shows that the circular difference is the true age of every
  slot in the window.
* `TypeCorrect`, `IdentityHolds` (`ExternalSignatureProofs`). `CoreInv` adds to
  the types that assertions carry their passkey's relying party, that accounts
  without a header are blank, and that all of this also holds of `committed`,
  to which a rollback returns. The lemmas `InitializeOutcome`,
  `ExecuteOutcome`, `RefreshOutcome` and `SessionedOutcome` state once, as
  `Outcome`, what each handler achieves when it succeeds; the invariants are
  then shown for `Outcome` instead of for each handler.
* `ApprovalHolds`, `CounterOrderHolds`, `CounterMatchHolds`,
  `SessionAuthorityHolds`, `SessionOriginHolds`, `OwnAccountHolds`,
  `CommittedIdentityHolds` (`WalletProofs`). `HistoryInv` says what a history
  of effects and the accounts it led to have to do with each other: the stored
  counter has caught up with every assertion used on the account and comes from
  one of them (so an accepted counter is larger than all earlier ones, which is
  `CounterOrder`); a stored session key was put there by the latest
  installation (from which `SessionAuthority` follows for the next sessioned
  execution); an account is initialized exactly when one effect, and only one,
  created it; accounts only move forward from their committed state. It holds
  of the running transaction's view and of the committed one, so a rollback
  preserves it. `ApprovalHolds` uses `NonceExact` to turn the accepted slot
  hash into a block of the window.

* `PayloadVerifiedHolds`, `RawSlicesInBoundsHolds`, `ParserCompleteHolds`
  (`PrecompileParserProofs`). That what was accepted was verified is not
  inductive: `ParserInv` adds that a precompile at index 0 has accepted its
  table before any later instruction runs (`FirstAccepted`) and that verified
  slices are in bounds. `SlicesAgree` and `PayloadsAgree` then show that the
  parser's two ways of slicing agree with the precompile wherever it is
  satisfied.
* `AllocatorTypeCorrect`, `BlocksDisjointHolds`, `BlocksUsableHolds`,
  `FitsHeapFrameHolds` (`SupportProofs`).
  `AllocatorInv` adds that every block ends below the cursor and that the
  cursor stays inside the heap and within the demand so far; `AlignUpFacts` is
  the arithmetic of rounding up. Neither uses that alignments are powers of two
  (`align_up` is the mask's value for those).

* `PromiseKept`, `NobodyLockedOut` (`WalletProofs`). `PromiseKept` is the
  refinement: every step of `ExternalSignature` is a step of `Wallet` or leaves
  the log alone. Only `Commit` changes the log, and it may append several events
  at once, so `WalletInv` adds to `HistoryInv` that the running transaction's
  effects extend the committed ones; `EffectLegal` turns the history invariant
  into the legality of every single event at the time it happened.
  `NobodyLockedOut` needs the converse of `CounterOrder`: no stored counter, nor
  a committed one, is ever ahead of its authenticator (`DeviceAhead`), which
  rollbacks and unused assertions only make easier; and the newest block is
  always accepted (`HeadAccepted`).
* `WholeOrNothingHolds` (`SupportProofs`). `CreationInv` says what each
  step has achieved so far (`Progress`), and that what a failure returns to was
  whole or absent; from `transfer` on the checks of `load` have passed, and from
  the verification on the session key is the attempt's and within the limit.
* `InfosMatchMetasHolds`, `PrivilegesHeldHolds`, `LoopCarriesOutApproved`
  (`InstructionLoopProofs`). `LoopInv` describes the containers in the middle of
  an iteration (`InContainers`: the metas of the indices read so far, each index
  seen exactly when it was read, the infos those indices once each) and the CPIs
  already made (`InCpis`). `LoopCarriesOutApproved` is the refinement of
  `ApprovedExecution`: `MadeIsMeant` shows that a full container is the CPI that
  the instruction stands for, whatever earlier iterations left.
* `SdkRoundTripHolds`, `NothingAddedHolds`, `SdkListsNeverPanicHolds`,
  `ChallengeMatchesHolds`, `SdkCarriesOut` (`InstructionLoopProofs`), for lists
  of instructions of any length over any keys. `SdkInv` is `LoopInv` for the
  request that was delivered, plus that the loop ends only at the end of its
  list. The work is in what the request is. `MessageMetas`: the four groups of
  keys list every mentioned key and the payer, and the header counts cut the
  list exactly between the groups, so that the privileges found from a position
  are the merged privileges of its key. `CompileFaithful`: every index points at
  the key it was compiled from. `DeliveredPassed`: merging the transaction's
  other mentions and demoting reserved accounts gives a request the runtime can
  pass, to which `LoopInv` applies; `GrantedFields` says what it grants and
  `OuterRaises` names the few keys whose privileges it can raise.
* `WireTypes`, `WireRoundTrip`, `WireHonestDelivered`, `WireApprovalBinds`,
  `WireOneEncoding` (`WireProofs`), for every number of byte values above four
  and vectors and lists of every length. For each reader one lemma (`ReadU16`,
  `ReadSmallVecU8`, `ReadInstructionBack`, `ReadOption`, `ReadHead`, ...) says
  that it returns a value and the position behind it exactly when the data holds
  (`Holds`) the encoding of that value there; both directions are needed, one
  for the round trip and one for the single encoding. Lists are written with
  `FlattenSeq`; by induction on their length, bytes hold at most one list of a
  given length if the codes of its members are prefix free (`FlatUnique`), which
  those of instructions and accounts are. `PayloadInjective` follows: equal
  hashed bytes are of equal operations, since each list is preceded by its
  length and the domains differ. `WireInv` says that the data up to the reader is
  a head and the encoding of the arguments so far, and that an untouched
  instruction has failed only for its slot or for privileges that arrived
  changed (`Refusable`). `GrantedPasses` shows why the `load` functions accept
  what the runtime makes of a builder's list: merging takes no privilege away,
  and the accounts that must be writable are not reserved.
* `AcceptedMessages`, `HonestMessages` (`WebauthnMessageProofs`), for relying
  party ids, ceremonies, ports and extensions of any length. The program never
  parses the JSON, it rebuilds it and compares hashes; so the proofs show what
  equality of two texts implies: the challenge sits at a fixed token, and the
  origin ends at the first quote, which neither a relying party id nor a host or
  port can hold. `MessageInv` says what was registered, who packed and what was
  decided.

TLC checks everything on small instances first, which also shows that the
interesting states are reached and, by the mutants, that each property depends
on the code. These properties are TLC's alone:

* the liveness properties `ApprovalsLapse`, `SessionsLapse`,
  `SdkSignatureAccepted` and `SignedAttemptSucceeds`: fairness is out of the
  prover's reach;
* the violated `SignaturesNotReused` and `ChallengeMatches`;
* the parser's properties for the transactions that the SDK assembles: the
  theorems are about `ParserSpec`, the run also about `SdkPrecompile`'s
  specification.

No proof uses the library's induction theorems, which take an operator. Where a
list is counted (`WireProofs`, `MentionsFinite`), a set of naturals with 0 and
with the successors of its members is shown to be `Nat` from the
well-foundedness of `<` (`LeastNatural`).

## 5. Not modelled

* The byte layout of account data and raw pointers: `AccountCreation` keeps the
  length a pointer is good for, the fields are a record.
* Base64 and the escaping of JSON text: a challenge is a token, a text is the
  sequence of its tokens.
* `utils/initialize_account.rs`: no code calls it; it repeats the creation in
  the handler.
* The legacy secp256k1 offsets of the parser: no code reaches them.
* The sessioned handler does not check the address of the account it is given.
  `Wire` has one account with a header, so its `load_sessioned` names it;
  `ExternalSignature` has several, and no such check.
* Error codes (`errors.rs`): every `Err` and every panic is the failure of the
  transaction. SHA-256 and address derivation are collision free.
* `sdks/rust-sdk/src/pda.rs` repeats the seeds of `derive_account`. The
  TypeScript SDK's builders repeat the Rust SDK's; its attestation parsing is
  client-side only and leads to no state of the program.
* The runtime's status cache of transaction signatures: the model lets equal
  transactions run again, which is the worse case. Compute limits only end
  transactions.
* Web app and IDL generator: no state of the protocol is kept there.

## 6. Plan

Done, in this order: `Nonce` and `SlotHashes`; `ExternalSignature`;
`PrecompileParser` and `BumpAllocator`; `InstructionLoop` with
`ApprovedExecution` and `SdkExecution`; `Wallet` and the refinement; liveness of
sessions and approvals; `Wire`, `WebauthnMessage`, `SdkPrecompile`;
`AccountCreation`. Each with its run, and with proofs where section 4 names them.

Left:

1. Theorems about `SdkPrecompile`: the parser's properties for assembled
   transactions, that the table's entries are the places of the appended parts
   for all sizes, and that the low `s` is at most half the order; with it the
   safety half of `SdkSignatureAccepted`.
2. The safety half of `SignedAttemptSucceeds`, under its full precondition.
3. `ReplayProtection`: status cache and blockhash window of the runtime around a
   counterless authenticator's assertion.
