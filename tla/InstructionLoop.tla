--------------------------- MODULE InstructionLoop ---------------------------
(***************************************************************************)
(* The loop that turns the compiled instructions of an execute request     *)
(* into CPIs: src/instructions/execute_instructions.rs and, with the same  *)
(* body, execute_instructions_sessioned.rs.  The containers live across    *)
(* iterations; indices are u8 values taken from the request and are used   *)
(* to index two arrays of different length.                                *)
(*                                                                         *)
(* Indices count from 0, as in the code; position i + 1 is index i.        *)
(***************************************************************************)
EXTENDS Integers, Sequences, FiniteSets

CONSTANTS
    Keys,        \* account addresses
    PROGRAM_ID,  \* crate::ID
    MAX_INFOS,   \* 64: the length of seen_indices
    Datas,       \* instruction data
    Requests     \* the execute requests that are made

SignerExecutionScheme == {"ExecutionAccount", "ExternalAccount"}

AccountInfo == [key : Keys, is_signer : BOOLEAN, is_writable : BOOLEAN]

CompiledInstruction ==
    [program_id_index : Nat, accounts_indices : Seq(Nat), data : Datas]

Request ==
    [accounts : Seq(AccountInfo), execution_account : Keys,
     scheme : SignerExecutionScheme, instructions : Seq(CompiledInstruction)]

\* The runtime hands out one AccountInfo for all occurrences of an account.
ASSUME RequestAssumption ==
    /\ MAX_INFOS \in Nat
    /\ \A r \in Requests :
          /\ r \in Request
          /\ \A i, j \in DOMAIN r.accounts :
                r.accounts[i].key = r.accounts[j].key =>
                    r.accounts[i] = r.accounts[j]

VARIABLES
    request,               \* the accounts and arguments of the instruction
    current,               \* iterations of the outer loop completed
    position,              \* iterations of the inner loop completed
    account_metas,         \* container
    account_info_indices,  \* container
    seen_indices,          \* the indices whose flag is set
    invoked,               \* history: the CPIs made
    status                 \* "running", "done" or "failed"

loopVars == <<request, current, position, account_metas, account_info_indices,
              seen_indices, invoked, status>>

AccountMeta(key, is_writable, is_signer) ==
    [key |-> key, is_writable |-> is_writable, is_signer |-> is_signer]

\* Mutant: the wallet stays writable when it signs itself.
metas_writable(accounts, execution_account, scheme) ==
    [i \in DOMAIN accounts |->
        AccountMeta(accounts[i].key, accounts[i].is_writable,
                    accounts[i].is_signer
                        \/ accounts[i].key = execution_account)]

create_instruction_execution_account_metas(accounts, execution_account, scheme) ==
    [i \in DOMAIN accounts |->
        IF accounts[i].key = execution_account
        THEN AccountMeta(accounts[i].key,
                         scheme = "ExecutionAccount" /\ accounts[i].is_writable,
                         TRUE)
        ELSE AccountMeta(accounts[i].key, accounts[i].is_writable,
                         accounts[i].is_signer)]

instruction_execution_account_metas ==
    create_instruction_execution_account_metas(
        request.accounts, request.execution_account, request.scheme)

instruction == request.instructions[current + 1]
Looping == status = "running" /\ current < Len(request.instructions)
Collecting == Looping /\ position < Len(instruction.accounts_indices)
Collected == Looping /\ position = Len(instruction.accounts_indices)
index == instruction.accounts_indices[position + 1]

\* Both arrays are indexed; the first access out of bounds panics.
in_bounds_metas_only(i) == i < Len(request.accounts)  \* mutant
in_bounds(i) == i < Len(request.accounts) /\ i < MAX_INFOS

\* One iteration of the inner loop.
CollectAccount ==
    /\ Collecting /\ in_bounds(index)
    /\ account_metas' = Append(account_metas,
                               instruction_execution_account_metas[index + 1])
    /\ account_info_indices' = IF index \in seen_indices THEN account_info_indices
                               ELSE Append(account_info_indices, index)
    /\ seen_indices' = seen_indices \cup {index}
    /\ position' = position + 1
    /\ UNCHANGED <<request, current, invoked, status>>

\* What slice_invoke_signed is called with.
Cpi ==
    [program_id |-> request.accounts[instruction.program_id_index + 1].key,
     data |-> instruction.data,
     metas |-> account_metas,
     infos |-> account_info_indices]

\* The end of an iteration, and the fresh seen_indices of the next one.
kept_seen_indices ==  \* mutant: seen_indices is declared outside of the loop
    /\ account_metas' = <<>> /\ account_info_indices' = <<>>
    /\ UNCHANGED seen_indices
clear_containers ==
    /\ account_metas' = <<>> /\ account_info_indices' = <<>>
    /\ seen_indices' = {}

\* The CPI is made and succeeds.
Invoke ==
    /\ Collected
    /\ instruction.program_id_index < Len(request.accounts)
    /\ Cpi.program_id # PROGRAM_ID
    /\ invoked' = Append(invoked, Cpi)
    /\ clear_containers
    /\ current' = current + 1 /\ position' = 0
    /\ UNCHANGED <<request, status>>

\* An index is out of bounds, the program names itself, or the CPI fails.
Abort ==
    /\ Collected \/ (Collecting /\ ~in_bounds(index))
    /\ status' = "failed"
    /\ UNCHANGED <<request, current, position, account_metas,
                   account_info_indices, seen_indices, invoked>>

Return ==
    /\ status = "running" /\ current = Len(request.instructions)
    /\ status' = "done"
    /\ UNCHANGED <<request, current, position, account_metas,
                   account_info_indices, seen_indices, invoked>>

LoopStart(r) ==
    /\ request = r
    /\ current = 0 /\ position = 0
    /\ account_metas = <<>> /\ account_info_indices = <<>>
    /\ seen_indices = {}
    /\ invoked = <<>> /\ status = "running"

LoopInit == \E r \in Requests : LoopStart(r)
LoopNext == CollectAccount \/ Invoke \/ Abort \/ Return
LoopSpec == LoopInit /\ [][LoopNext]_loopVars

(***************************************************************************)
(* Properties                                                              *)
(***************************************************************************)
Approved == INSTANCE ApprovedExecution WITH
    approved <- request,
    performed <- [i \in DOMAIN invoked |->
                    [program_id |-> invoked[i].program_id,
                     data |-> invoked[i].data, metas |-> invoked[i].metas]],
    outcome <- status

(***************************************************************************)
(* The loop carries out exactly the approved list: nothing of an iteration *)
(* leaks into the next through the reused containers, an index beyond the  *)
(* accounts or beyond seen_indices ends the transaction before a CPI with  *)
(* other accounts is made, and the program never calls itself.             *)
(***************************************************************************)
CarriesOutApproved == Approved!ExecutionSpec

(***************************************************************************)
(* The account infos of a CPI are the accounts of its metas, each once,    *)
(* however often the instruction repeats an index and whatever earlier     *)
(* instructions used.  The runtime rejects a CPI with a missing account.   *)
(***************************************************************************)
InfosMatchMetas ==
    \A c \in DOMAIN invoked :
        LET infos == invoked[c].infos
            named == request.instructions[c].accounts_indices
        IN  /\ {infos[i] : i \in DOMAIN infos} = {named[j] : j \in DOMAIN named}
            /\ \A i, j \in DOMAIN infos : i # j => infos[i] # infos[j]
            /\ \A i \in DOMAIN infos : infos[i] < MAX_INFOS

(***************************************************************************)
(* A CPI asks for no privilege the transaction does not have: an account   *)
(* is writable or signs only if it was passed so, the signature of the     *)
(* executing PDA excepted; and a wallet that signs itself is never         *)
(* writable, under any of the positions it is listed at.                   *)
(***************************************************************************)
PrivilegesHeld ==
    \A c \in DOMAIN invoked :
        \A j \in DOMAIN invoked[c].metas :
            LET meta == invoked[c].metas[j]
            IN  \E i \in DOMAIN request.accounts :
                  /\ request.accounts[i].key = meta.key
                  /\ meta.is_writable => request.accounts[i].is_writable
                  /\ meta.is_signer => \/ request.accounts[i].is_signer
                                       \/ meta.key = request.execution_account
                  /\ request.scheme = "ExternalAccount"
                        /\ meta.key = request.execution_account
                     => meta.is_signer /\ ~meta.is_writable
=============================================================================
