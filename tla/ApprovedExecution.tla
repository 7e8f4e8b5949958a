-------------------------- MODULE ApprovedExecution --------------------------
(***************************************************************************)
(* What executing an approved instruction list means: the CPIs are the     *)
(* approved instructions, one for each, in order, with the accounts their  *)
(* indices name and the privileges these accounts were passed with; the    *)
(* list is carried out completely or the transaction fails.                *)
(*                                                                         *)
(* A request is what the passkey (or the session key) approved: the        *)
(* accounts as they were passed, the instructions as lists of indices into *)
(* them, counted from 0, and the PDA that signs.                           *)
(***************************************************************************)
EXTENDS Integers, Sequences

CONSTANTS
    PROGRAM_ID,  \* crate::ID
    MAX_INFOS    \* 64, the account infos the runtime allows in one CPI

VARIABLES
    approved,    \* the request
    performed,   \* the CPIs that were made
    outcome      \* "running", "done" or "failed"

executionVars == <<approved, performed, outcome>>

\* The account an index names, and the privileges a CPI gets on it: those it
\* was passed with, except that the signing PDA signs, and that a wallet
\* that signs itself is read-only.
Granted(request, index) ==
    LET account == request.accounts[index + 1]
        signs == account.key = request.execution_account
    IN  [key |-> account.key,
         is_writable |-> account.is_writable
                            /\ ~(signs /\ request.scheme = "ExternalAccount"),
         is_signer |-> account.is_signer \/ signs]

WellFormed(request, instruction) ==
    /\ instruction.program_id_index < Len(request.accounts)
    /\ request.accounts[instruction.program_id_index + 1].key # PROGRAM_ID
    /\ \A j \in DOMAIN instruction.accounts_indices :
          /\ instruction.accounts_indices[j] < Len(request.accounts)
          /\ instruction.accounts_indices[j] < MAX_INFOS

\* The CPI that an instruction of the request stands for.
Meant(request, instruction) ==
    [program_id |-> request.accounts[instruction.program_id_index + 1].key,
     data |-> instruction.data,
     metas |-> [j \in DOMAIN instruction.accounts_indices |->
                    Granted(request, instruction.accounts_indices[j])]]

Perform ==
    /\ outcome = "running" /\ Len(performed) < Len(approved.instructions)
    /\ LET instruction == approved.instructions[Len(performed) + 1]
       IN  /\ WellFormed(approved, instruction)
           /\ performed' = Append(performed, Meant(approved, instruction))
    /\ UNCHANGED <<approved, outcome>>

Finish ==
    /\ outcome = "running" /\ Len(performed) = Len(approved.instructions)
    /\ outcome' = "done"
    /\ UNCHANGED <<approved, performed>>

\* Another program fails, or the next instruction is not well formed.
Fail ==
    /\ outcome = "running" /\ Len(performed) < Len(approved.instructions)
    /\ outcome' = "failed"
    /\ UNCHANGED <<approved, performed>>

ExecutionInit == performed = <<>> /\ outcome = "running"
ExecutionNext == Perform \/ Finish \/ Fail
ExecutionSpec == ExecutionInit /\ [][ExecutionNext]_executionVars
=============================================================================
