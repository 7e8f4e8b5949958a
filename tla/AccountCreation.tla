--------------------------- MODULE AccountCreation --------------------------
(***************************************************************************)
(* The creation of a wallet's account, step by step: the checks, the three *)
(* calls of the system program (Transfer, Allocate, Assign), the reload of *)
(* the wrapper's view of the data, the header, the contents, the session   *)
(* key if one is given, and last the verification of the passkey's         *)
(* signature against what was written.  A step may fail; the transaction   *)
(* then leaves nothing behind.                                             *)
(*                                                                         *)
(* The address is known before the account exists, so anyone may have sent *)
(* lamports to it.  ExternalSignature has all this as one step.            *)
(***************************************************************************)
EXTENDS Integers

CONSTANTS
    Payers,       \* keys that pay for creations, or give lamports away
    SPACE,        \* size of the account data, T::size()
    HEADER_SIZE,  \* AccountHeader::size()
    RENT,         \* lamports that exempt SPACE bytes from rent
    RENT_EMPTY,   \* lamports that exempt an account without data
    FUNDS         \* lamports of a payer at the start

ASSUME CreationAssumption ==
    /\ SPACE \in Nat /\ HEADER_SIZE \in 1..SPACE
    /\ RENT_EMPTY \in Nat \ {0} /\ RENT \in Nat /\ RENT > RENT_EMPTY
    /\ FUNDS \in Nat

VARIABLES
    account,   \* at the address: lamports, owner, len, header, contents, session
    balance,   \* lamports of the payers
    before,    \* account and balance when the transaction began
    pc,        \* next step of the handler, "idle" between transactions
    attempt,   \* the instruction of the transaction, see Attempts
    slice      \* length of the data as the wrapper sees it

creationVars == <<account, balance, before, pc, attempt, slice>>

(* An instruction: who pays, whether the passkey signed this very attempt, *)
(* whether the other checks of load pass (the accounts and sysvars are     *)
(* there, the nonce is valid, the initialization data parse, the account   *)
(* is the one they derive), and its session key: none, one that expires    *)
(* within the limit, one that expires beyond it.                           *)
Attempts ==
    [payer : Payers, signed : BOOLEAN, loads : BOOLEAN,
     session : {"none", "within", "beyond"}]

EmptyAccount ==
    [lamports |-> 0, owner |-> "system", len |-> 0, header |-> FALSE,
     contents |-> {}, session |-> "none"]

Snapshot == [account |-> account, balance |-> balance]

CreationInit ==
    /\ account = EmptyAccount
    /\ balance = [p \in Payers |-> FUNDS]
    /\ before = Snapshot
    /\ pc = "idle"
    /\ attempt \in {a \in Attempts : ~a.signed /\ ~a.loads /\ a.session = "none"}
    /\ slice = 0

-----------------------------------------------------------------------------
(* The runtime and the system program (external).                          *)

(* No account may be left with fewer lamports than its size needs.         *)
RentState(lamports, len) ==
    lamports = 0 \/ lamports >= (IF len = 0 THEN RENT_EMPTY ELSE RENT)

Donate(p) ==
    /\ pc = "idle"
    /\ \E amount \in {RENT_EMPTY, RENT} :
           /\ RentState(balance[p] - amount, 0) /\ balance[p] >= amount
           /\ balance' = [balance EXCEPT ![p] = @ - amount]
           /\ account' = [account EXCEPT !.lamports = @ + amount]
    /\ UNCHANGED <<before, pc, attempt, slice>>

Begin(p) ==
    /\ pc = "idle"
    /\ before' = Snapshot
    /\ attempt' \in {a \in Attempts : a.payer = p}
    /\ pc' = "load"
    /\ UNCHANGED <<account, balance, slice>>

(* A step of the handler, which ends the transaction if it is not allowed. *)
Go(from, to, allowed) ==
    pc = from /\ allowed /\ pc' = to /\ UNCHANGED <<before, attempt>>

Transferable == balance[attempt.payer] >= RENT
Allocatable == account.owner = "system" /\ account.len = 0
Assignable == account.owner = "system"

(* The end of the transaction.                                             *)
RentStates == RentState(account.lamports, account.len) /\ RentState(balance[attempt.payer], 0)

-----------------------------------------------------------------------------
(* initialize_external_account.                                            *)

\* Mutant: an address with lamports counts as taken.
check_account_uninitialized_unfunded ==
    account.owner = "system" /\ account.len = 0 /\ account.lamports = 0
check_account_uninitialized == account.owner = "system" /\ account.len = 0

(* load: the wrapper keeps the data as it is now.                          *)
Loadable == check_account_uninitialized /\ attempt.loads

Load ==
    /\ Go("load", "transfer", Loadable)
    /\ slice' = account.len
    /\ UNCHANGED <<account, balance>>

(* The full rent is transferred, whatever the address already holds.       *)
TransferRent ==
    /\ Go("transfer", "allocate", Transferable)
    /\ balance' = [balance EXCEPT ![attempt.payer] = @ - RENT]
    /\ account' = [account EXCEPT !.lamports = @ + RENT]
    /\ UNCHANGED slice

AllocateSpace ==
    /\ Go("allocate", "assign", Allocatable)
    /\ account' = [account EXCEPT !.len = SPACE]
    /\ UNCHANGED <<balance, slice>>

AssignOwner ==
    /\ Go("assign", "reload", Assignable)
    /\ account' = [account EXCEPT !.owner = "program"]
    /\ UNCHANGED <<balance, slice>>

Reload ==
    /\ Go("reload", "header", TRUE)
    /\ slice' = account.len
    /\ UNCHANGED <<account, balance>>

(* initialize_header indexes the slice and panics when it is too short.    *)
HeaderAccessible == slice >= HEADER_SIZE

InitializeHeader ==
    /\ Go("header", "contents", HeaderAccessible)
    /\ account' = [account EXCEPT !.header = TRUE]
    /\ UNCHANGED <<balance, slice>>

(* data() checks header and length, then the scheme fills its fields (the  *)
(* relying party, the public key and the counter); they are told apart     *)
(* here by the attempt that wrote them.                                    *)
DataAccessible == HeaderAccessible /\ account.header /\ slice >= SPACE

InitializeContents ==
    /\ Go("contents", "session", DataAccessible)
    /\ account' = [account EXCEPT !.contents = {attempt}]
    /\ UNCHANGED <<balance, slice>>

(* A session key beyond the limit is refused after those fields are        *)
(* written; without one the field stays as it was allocated.               *)
WithinLimit == attempt.session # "beyond"

SetSessionKey ==
    /\ Go("session", "verify", WithinLimit)
    /\ account' = [account EXCEPT !.session =
                       IF attempt.session = "none" THEN @ ELSE attempt.session]
    /\ UNCHANGED <<balance, slice>>

VerifiedAnyhow == DataAccessible  \* mutant
Verified == DataAccessible /\ attempt.signed

VerifyInitialization ==
    Go("verify", "commit", Verified) /\ UNCHANGED <<account, balance, slice>>

CommitCreation ==
    Go("commit", "idle", RentStates) /\ UNCHANGED <<account, balance, slice>>

(* An Err or a panic of any step: the runtime undoes the transaction.      *)
Blocked ==
    CASE pc = "load" -> ~Loadable
      [] pc = "transfer" -> ~Transferable
      [] pc = "allocate" -> ~Allocatable
      [] pc = "assign" -> ~Assignable
      [] pc = "header" -> ~HeaderAccessible
      [] pc = "contents" -> ~DataAccessible
      [] pc = "session" -> ~WithinLimit
      [] pc = "verify" -> ~Verified
      [] pc = "commit" -> ~RentStates
      [] OTHER -> FALSE

Abort ==
    /\ Blocked
    /\ account' = before.account
    /\ balance' = before.balance
    /\ pc' = "idle"
    /\ UNCHANGED <<before, attempt, slice>>

Steps ==
    \/ Load \/ TransferRent \/ AllocateSpace \/ AssignOwner \/ Reload
    \/ InitializeHeader \/ InitializeContents \/ SetSessionKey
    \/ VerifyInitialization \/ CommitCreation \/ Abort

CreationNext == (\E p \in Payers : Donate(p) \/ Begin(p)) \/ Steps

(* The runtime finishes every transaction it has begun.                    *)
CreationSpec ==
    CreationInit /\ [][CreationNext]_creationVars /\ WF_creationVars(Steps)

-----------------------------------------------------------------------------
Absent(a) ==
    a.owner = "system" /\ a.len = 0 /\ ~a.header /\ a.contents = {} /\ a.session = "none"
Whole(a) ==
    /\ a.owner = "program" /\ a.len = SPACE /\ a.header /\ a.lamports >= RENT
    /\ \E c \in a.contents :
           c.signed /\ c.loads /\ a.session = c.session /\ a.session # "beyond"

(* Between transactions the account is whole or not there at all: it is    *)
(* the program's exactly when it has its size, its header, its rent, and   *)
(* the contents and the session key, none beyond the limit, of one attempt *)
(* that passed every check of load and that the passkey signed.  The       *)
(* handler writes first and verifies last, so this rests on every failure  *)
(* undoing everything.                                                     *)
WholeOrNothing == pc = "idle" => Absent(account) \/ Whole(account)

(* What a payer needs: the rent, and what keeps its own account alive.     *)
Funded(p) == balance[p] >= RENT /\ RentState(balance[p] - RENT, 0)

(* create_and_allocate_externally_signed_account: nobody can stand in the  *)
(* way of a creation by sending lamports to the address first.  An attempt *)
(* that passes the checks of load, that the passkey signed, whose session  *)
(* key (if any) expires within the limit and whose payer has the rent      *)
(* creates the account, however much is there already.                     *)
SignedAttemptSucceeds ==
    (/\ pc = "load" /\ account.owner = "system"
     /\ attempt.loads /\ attempt.signed /\ attempt.session # "beyond"
     /\ Funded(attempt.payer))
        ~> (pc = "idle" /\ account.owner = "program")
=============================================================================
