------------------------ MODULE InstructionLoopProofs ------------------------
(***************************************************************************)
(* Proofs about InstructionLoop and SdkExecution: for every set of         *)
(* requests the loop implements ApprovedExecution, the account infos of    *)
(* its CPIs are the accounts of their metas, and no CPI asks for a         *)
(* privilege the transaction does not have; and for every list of          *)
(* instructions compiled by the SDK the CPIs are those instructions, with  *)
(* nothing lost and nothing added.                                         *)
(*                                                                         *)
(* The invariant of the loop says what the containers hold in the middle   *)
(* of an iteration: the metas of the first `position` indices, and each of *)
(* these indices once; and what a CPI was made with.                       *)
(*                                                                         *)
(* About the SDK it is shown that the message lists every mentioned key,   *)
(* in the order the header counts stand for, so that the privileges found  *)
(* from a position are the merged ones (MessageMetas), and that every      *)
(* index points at its key (CompileFaithful).                              *)
(***************************************************************************)
EXTENDS SdkExecution, SequenceTheorems, FiniteSetTheorems, WellFoundedInduction, TLAPS

\* The requests the runtime can pass: every mention of an account is the same.
PassedRequests ==
    {r \in Request : \A i, j \in DOMAIN r.accounts :
        r.accounts[i].key = r.accounts[j].key => r.accounts[i] = r.accounts[j]}

\* The parts of a request r: the indices and the program of instruction c,
\* the metas of its accounts, the indices the loop can use.
Indices(r, c) == r.instructions[c].accounts_indices
Program(r, c) == r.accounts[r.instructions[c].program_id_index + 1].key
Metas(r) ==
    create_instruction_execution_account_metas(r.accounts, r.execution_account, r.scheme)
InBounds(r, i) == i < Len(r.accounts) /\ i < MAX_INFOS

\* metas are those of the first n indices of instruction c.
Resolved(r, c, n, metas) ==
    /\ metas = [j \in 1..n |-> Metas(r)[Indices(r, c)[j] + 1]]
    /\ \A j \in 1..n : InBounds(r, Indices(r, c)[j])

\* infos are the first n indices of instruction c, each once.
Gathered(r, c, n, infos) ==
    /\ infos \in Seq(Nat)
    /\ {infos[i] : i \in DOMAIN infos} = {Indices(r, c)[j] : j \in 1..n}
    /\ \A i, j \in DOMAIN infos : i # j => infos[i] # infos[j]

\* cpi is what instruction c calls for, and the loop had no reason to stop.
Made(r, c, cpi) ==
    /\ r.instructions[c].program_id_index < Len(r.accounts)
    /\ Program(r, c) # PROGRAM_ID
    /\ cpi.program_id = Program(r, c)
    /\ cpi.data = r.instructions[c].data
    /\ Resolved(r, c, Len(Indices(r, c)), cpi.metas)
    /\ Gathered(r, c, Len(Indices(r, c)), cpi.infos)

\* The types of a meta and of a CPI.
MetaType == [key : Keys, is_writable : BOOLEAN, is_signer : BOOLEAN]
CpiType == [program_id : Keys, data : Datas, metas : Seq(MetaType), infos : Seq(Nat)]

\* The CPIs made are those of the instructions completed.
InCpis == /\ invoked \in Seq(CpiType) /\ Len(invoked) = current
          /\ \A c \in 1..current : Made(request, c, invoked[c])

\* The containers after n iterations of the inner loop of instruction c.
Containers(r, c, n, metas, infos, seen) ==
    /\ n \in 0..Len(Indices(r, c))
    /\ Resolved(r, c, n, metas)
    /\ Gathered(r, c, n, infos)
    /\ seen = {Indices(r, c)[j] : j \in 1..n}

\* The containers of the iteration that is going on.
InContainers ==
    current < Len(request.instructions) =>
        Containers(request, current + 1, position,
                   account_metas, account_info_indices, seen_indices)

\* The inductive invariant.
LoopInv ==
    /\ request \in PassedRequests
    /\ current \in 0..Len(request.instructions)
    /\ InCpis
    /\ InContainers

-----------------------------------------------------------------------------

\* What the assumption gives for a request.
LEMMA RequestType ==
    ASSUME NEW r \in PassedRequests
    PROVE  /\ r.accounts \in Seq(AccountInfo)
           /\ r.execution_account \in Keys
           /\ r.scheme \in SignerExecutionScheme
           /\ r.instructions \in Seq(CompiledInstruction)
           /\ \A c \in 1..Len(r.instructions) :
                /\ r.instructions[c].program_id_index \in Nat
                /\ r.instructions[c].accounts_indices \in Seq(Nat)
                /\ r.instructions[c].data \in Datas
<1>1. r \in Request
  BY DEF PassedRequests
<1>2. r.instructions \in Seq(CompiledInstruction)
  BY <1>1 DEF Request
<1>3. \A c \in 1..Len(r.instructions) : r.instructions[c] \in CompiledInstruction
  BY <1>2
<1> QED
  BY <1>1, <1>2, <1>3 DEF Request, CompiledInstruction

\* The metas are typed, one for each account.
LEMMA MetasType ==
    ASSUME NEW r \in PassedRequests, NEW i \in 1..Len(r.accounts)
    PROVE  Metas(r)[i] \in MetaType
<1>1. r.accounts \in Seq(AccountInfo)
  BY RequestType
<1>2. r.accounts[i] \in AccountInfo /\ i \in DOMAIN r.accounts
  BY <1>1
<1> QED
  BY <1>2 DEF Metas, AccountMeta, MetaType,
              create_instruction_execution_account_metas, AccountInfo

\* The metas of in-bounds indices are a sequence.
LEMMA ResolvedType ==
    ASSUME NEW r \in PassedRequests, NEW c \in 1..Len(r.instructions),
           NEW n \in 0..Len(Indices(r, c)), NEW metas, Resolved(r, c, n, metas)
    PROVE  metas \in Seq(MetaType) /\ Len(metas) = n
<1>1. Indices(r, c) \in Seq(Nat)
  BY RequestType DEF Indices
<1>2. \A j \in 1..n : Metas(r)[Indices(r, c)[j] + 1] \in MetaType
  <2> TAKE j \in 1..n
  <2>1. Indices(r, c)[j] \in Nat
    BY <1>1
  <2>2. Indices(r, c)[j] < Len(r.accounts) /\ Len(r.accounts) \in Nat
    BY RequestType DEF Resolved, InBounds
  <2>3. Indices(r, c)[j] + 1 \in 1..Len(r.accounts)
    BY <2>1, <2>2
  <2> QED
    BY <2>3, MetasType
<1>3. n \in Nat
  BY <1>1
<1> QED
  BY <1>2, <1>3 DEF Resolved

\* Empty containers are those of an iteration that has not begun.
LEMMA EmptyContainers ==
    ASSUME NEW r \in PassedRequests, NEW c \in 1..Len(r.instructions)
    PROVE  Containers(r, c, 0, <<>>, <<>>, {})
<1>1. Indices(r, c) \in Seq(Nat)
  BY RequestType DEF Indices
<1> QED
  BY <1>1 DEF Containers, Resolved, Gathered

\* One more index: its meta is appended, and the index unless it was seen.
LEMMA CollectOne ==
    ASSUME NEW r \in PassedRequests, NEW c \in 1..Len(r.instructions),
           NEW n, NEW metas, NEW infos, NEW seen,
           Containers(r, c, n, metas, infos, seen), n < Len(Indices(r, c)),
           NEW i, i = Indices(r, c)[n + 1], InBounds(r, i)
    PROVE  Containers(r, c, n + 1, Append(metas, Metas(r)[i + 1]),
                      IF i \in seen THEN infos ELSE Append(infos, i),
                      seen \cup {i})
<1>1. /\ Indices(r, c) \in Seq(Nat) /\ n \in Nat /\ n + 1 \in 1..Len(Indices(r, c))
      /\ i \in Nat
  BY RequestType DEF Indices, Containers
<1>2. metas \in Seq(MetaType) /\ Len(metas) = n
  BY ResolvedType DEF Containers
<1>3. 1..(n + 1) = (1..n) \cup {n + 1}
  BY <1>1
<1>4. seen \cup {i} = {Indices(r, c)[j] : j \in 1..(n + 1)}
  BY <1>3 DEF Containers
<1>5. Resolved(r, c, n + 1, Append(metas, Metas(r)[i + 1]))
  <2> DEFINE more == Append(metas, Metas(r)[i + 1])
  <2>1. more = [j \in 1..(n + 1) |-> Metas(r)[Indices(r, c)[j] + 1]]
    BY <1>1, <1>2 DEF Resolved, Containers
  <2>2. \A j \in 1..(n + 1) : InBounds(r, Indices(r, c)[j])
    BY <1>3 DEF Resolved, Containers
  <2> QED
    BY <2>1, <2>2 DEF Resolved
<1>0. n + 1 \in 0..Len(Indices(r, c))
  BY <1>1
<1>6. CASE i \in seen
  <2>1. {Indices(r, c)[j] : j \in 1..n} = {Indices(r, c)[j] : j \in 1..(n + 1)}
    BY <1>4, <1>6 DEF Containers
  <2>2. Gathered(r, c, n + 1, infos)
    BY <2>1 DEF Gathered, Containers
  <2> QED
    BY <1>0, <1>4, <1>5, <1>6, <2>2, Zenon DEF Containers
<1>7. CASE i \notin seen
  <2> DEFINE more == Append(infos, i)
  <2>1. infos \in Seq(Nat) /\ more \in Seq(Nat)
    BY <1>1 DEF Gathered, Containers
  <2>2. /\ DOMAIN more = (DOMAIN infos) \cup {Len(infos) + 1}
        /\ Len(infos) + 1 \notin DOMAIN infos
        /\ more[Len(infos) + 1] = i
        /\ \A k \in DOMAIN infos : more[k] = infos[k]
    <3>1. /\ Len(infos) \in Nat /\ Len(more) = Len(infos) + 1
          /\ more[Len(infos) + 1] = i
          /\ \A k \in 1..Len(infos) : more[k] = infos[k]
      BY <2>1, <1>1, AppendProperties
    <3>2. DOMAIN infos = 1..Len(infos) /\ DOMAIN more = 1..Len(more)
      BY <2>1
    <3> HIDE DEF more
    <3> QED
      BY <3>1, <3>2
  <2> HIDE DEF more
  <2>3. {more[k] : k \in DOMAIN more} = {infos[k] : k \in DOMAIN infos} \cup {i}
    BY <2>2
  <2>4. {more[k] : k \in DOMAIN more} = {Indices(r, c)[j] : j \in 1..(n + 1)}
    BY <2>3, <1>4 DEF Gathered, Containers
  <2>5. \A k \in DOMAIN infos : infos[k] # i
    BY <1>7 DEF Gathered, Containers
  <2>6. \A k, j \in DOMAIN more : k # j => more[k] # more[j]
    BY <2>2, <2>5 DEF Gathered, Containers
  <2>7. Gathered(r, c, n + 1, more)
    BY <2>1, <2>4, <2>6 DEF Gathered
  <2> QED
    BY <1>0, <1>4, <1>5, <1>7, <2>7, Zenon DEF more, Containers
<1> QED
  BY <1>6, <1>7

-----------------------------------------------------------------------------

\* The loop starts with empty containers and no CPI.
LEMMA LoopStart_Inv ==
    ASSUME NEW r \in PassedRequests, LoopStart(r)
    PROVE  LoopInv
<1> USE DEF LoopStart
<1>1. request \in PassedRequests
  OBVIOUS
<1>2. current \in 0..Len(request.instructions)
  BY <1>1, RequestType
<1>3. InCpis
  BY DEF InCpis
<1>4. InContainers
  <2> SUFFICES ASSUME current < Len(request.instructions) PROVE InContainers
    BY DEF InContainers
  <2>1. 1 \in 1..Len(request.instructions)
    BY <1>1, RequestType
  <2> QED
    BY <1>1, <2>1, EmptyContainers DEF InContainers
<1> QED
  BY <1>1, <1>2, <1>3, <1>4 DEF LoopInv

\* Every request that is made without the SDK is one the runtime can pass.
LEMMA LoopInit_Inv == LoopInit => LoopInv
<1>1. \A r \in Requests : r \in PassedRequests
  BY RequestAssumption DEF PassedRequests
<1> QED
  BY <1>1, LoopStart_Inv DEF LoopInit

\* Every step of the loop keeps the invariant.
LEMMA LoopNext_Inv == LoopInv /\ [LoopNext]_loopVars => LoopInv'
<1> SUFFICES ASSUME LoopInv, [LoopNext]_loopVars PROVE LoopInv'
  OBVIOUS
<1>1. /\ request \in PassedRequests /\ Len(request.instructions) \in Nat
      /\ current \in 0..Len(request.instructions) /\ current \in Nat
  BY RequestType DEF LoopInv
<1>2. CASE UNCHANGED loopVars
  BY <1>2 DEF LoopInv, InCpis, InContainers, loopVars
<1>3. CASE CollectAccount
  <2> DEFINE c == current + 1
  <2>1. /\ c \in 1..Len(request.instructions) /\ current < Len(request.instructions)
        /\ instruction.accounts_indices = Indices(request, c)
    BY <1>1, <1>3 DEF CollectAccount, Collecting, Looping, instruction, Indices
  <2> HIDE DEF c
  <2>2. /\ Containers(request, c, position, account_metas, account_info_indices, seen_indices)
        /\ position < Len(Indices(request, c))
    BY <1>3, <2>1 DEF LoopInv, InContainers, CollectAccount, Collecting, c
  <2>3. index = Indices(request, c)[position + 1] /\ InBounds(request, index)
    BY <1>3, <2>1 DEF CollectAccount, index, in_bounds, InBounds, c
  <2>4. /\ account_metas' = Append(account_metas, Metas(request)[index + 1])
        /\ account_info_indices' = IF index \in seen_indices THEN account_info_indices
                                   ELSE Append(account_info_indices, index)
        /\ seen_indices' = seen_indices \cup {index}
        /\ position' = position + 1
        /\ UNCHANGED <<request, current, invoked>>
    BY <1>3 DEF CollectAccount, instruction_execution_account_metas, Metas
  <2>5. Containers(request, c, position', account_metas', account_info_indices', seen_indices')
    BY <1>1, <2>1, <2>2, <2>3, <2>4, CollectOne, Zenon
  <2>6. InContainers'
    BY <2>4, <2>5 DEF InContainers, c
  <2> QED
    BY <2>4, <2>6 DEF LoopInv, InCpis
<1>4. CASE Invoke
  <2> DEFINE c == current + 1
  <2>1. /\ c \in 1..Len(request.instructions) /\ current < Len(request.instructions)
        /\ instruction = request.instructions[c]
        /\ position = Len(Indices(request, c))
    BY <1>1, <1>4 DEF Invoke, Collected, Looping, instruction, Indices
  <2>2. /\ UNCHANGED request /\ current' = c /\ position' = 0
        /\ account_metas' = <<>> /\ account_info_indices' = <<>> /\ seen_indices' = {}
        /\ invoked' = Append(invoked, Cpi)
    BY <1>4 DEF Invoke, clear_containers
  <2> HIDE DEF c
  <2>3. /\ Resolved(request, c, Len(Indices(request, c)), account_metas)
        /\ Gathered(request, c, Len(Indices(request, c)), account_info_indices)
        /\ Len(Indices(request, c)) \in 0..Len(Indices(request, c))
    BY <2>1 DEF LoopInv, InContainers, Containers, c
  <2>4. Made(request, c, Cpi)
    BY <1>4, <2>1, <2>3 DEF Invoke, Cpi, Made, Program
  <2>5. Cpi \in CpiType
    <3>1. account_metas \in Seq(MetaType)
      BY <1>1, <2>1, <2>3, ResolvedType
    <3>2. account_info_indices \in Seq(Nat)
      BY <2>3 DEF Gathered
    <3>3. /\ instruction.data \in Datas
          /\ instruction.program_id_index + 1 \in 1..Len(request.accounts)
      BY <1>1, <1>4, <2>1, RequestType DEF Invoke
    <3>4. request.accounts[instruction.program_id_index + 1] \in AccountInfo
      BY <1>1, <3>3, RequestType
    <3> QED
      BY <3>1, <3>2, <3>3, <3>4 DEF Cpi, CpiType, AccountInfo
  <2>6. InCpis'
    <3>1. /\ invoked \in Seq(CpiType) /\ Len(invoked) = current
          /\ \A d \in 1..current : Made(request, d, invoked[d])
      BY DEF LoopInv, InCpis
    <3>2. /\ invoked' \in Seq(CpiType) /\ Len(invoked') = c
          /\ invoked'[c] = Cpi /\ \A d \in 1..current : invoked'[d] = invoked[d]
      BY <2>2, <2>5, <3>1 DEF c
    <3>3. 1..c = (1..current) \cup {c}
      BY <1>1 DEF c
    <3>4. \A d \in 1..c : Made(request, d, invoked'[d])
      BY <2>4, <3>1, <3>2, <3>3
    <3> QED
      BY <2>2, <3>2, <3>4 DEF InCpis
  <2>7. InContainers'
    <3> SUFFICES ASSUME c < Len(request.instructions) PROVE InContainers'
      BY <2>2 DEF InContainers
    <3>1. c + 1 \in 1..Len(request.instructions)
      BY <1>1, <2>1
    <3> QED
      BY <1>1, <2>2, <3>1, EmptyContainers DEF InContainers
  <2>8. c \in 0..Len(request.instructions)
    BY <2>1
  <2> QED
    BY <1>1, <2>2, <2>6, <2>7, <2>8 DEF LoopInv
<1>5. CASE Abort \/ Return
  BY <1>5 DEF LoopInv, InCpis, InContainers, Abort, Return
<1> QED
  BY <1>2, <1>3, <1>4, <1>5 DEF LoopNext

\* The containers and the CPIs are always those the request calls for.
THEOREM LoopInvariant == LoopSpec => []LoopInv
<1> QED
  BY LoopInit_Inv, LoopNext_Inv, PTL DEF LoopSpec

-----------------------------------------------------------------------------
\* The invariant gives the account infos of the CPIs.
LEMMA Inv_Infos == LoopInv => InfosMatchMetas
<1> SUFFICES ASSUME LoopInv, NEW c \in DOMAIN invoked
             PROVE  LET infos == invoked[c].infos
                        named == request.instructions[c].accounts_indices
                    IN  /\ {infos[i] : i \in DOMAIN infos} = {named[j] : j \in DOMAIN named}
                        /\ \A i, j \in DOMAIN infos : i # j => infos[i] # infos[j]
                        /\ \A i \in DOMAIN infos : infos[i] < MAX_INFOS
  BY DEF InfosMatchMetas
<1> DEFINE infos == invoked[c].infos
           named == Indices(request, c)
<1>1. /\ request \in PassedRequests /\ c \in 1..current /\ Made(request, c, invoked[c])
      /\ c \in 1..Len(request.instructions)
  BY RequestType DEF LoopInv, InCpis
<1>2. named \in Seq(Nat)
  BY <1>1, RequestType DEF Indices
<1>3. DOMAIN named = 1..Len(named)
  BY <1>2
<1>4. Gathered(request, c, Len(named), infos)
  BY <1>1 DEF Made
<1>5. \A j \in 1..Len(named) : InBounds(request, named[j])
  BY <1>1 DEF Made, Resolved
<1>6. {infos[i] : i \in DOMAIN infos} = {named[j] : j \in 1..Len(named)}
  BY <1>4 DEF Gathered
<1>7. \A i \in DOMAIN infos : \E j \in 1..Len(named) : infos[i] = named[j]
  BY <1>6
<1>8. \A i \in DOMAIN infos : infos[i] < MAX_INFOS
  BY <1>5, <1>7 DEF InBounds
<1>9. \A i, j \in DOMAIN infos : i # j => infos[i] # infos[j]
  BY <1>4 DEF Gathered
<1> QED
  BY <1>3, <1>6, <1>8, <1>9 DEF Indices

(***************************************************************************)
(* The account infos of every CPI are the accounts of its metas, each      *)
(* once, for any number of accounts, instructions and repeated indices.    *)
(***************************************************************************)
THEOREM InfosMatchMetasHolds == LoopSpec => []InfosMatchMetas
<1> QED
  BY Inv_Infos, LoopInvariant, PTL

\* The privileges of the meta of one account.
LEMMA MetaPrivileges ==
    ASSUME NEW r \in PassedRequests, NEW i \in 1..Len(r.accounts)
    PROVE  LET meta == Metas(r)[i] IN
           /\ r.accounts[i].key = meta.key
           /\ meta.is_writable => r.accounts[i].is_writable
           /\ meta.is_signer => \/ r.accounts[i].is_signer
                                \/ meta.key = r.execution_account
           /\ r.scheme = "ExternalAccount" /\ meta.key = r.execution_account
                => meta.is_signer /\ ~meta.is_writable
<1>1. i \in DOMAIN r.accounts
  BY RequestType
<1>2. CASE r.accounts[i].key = r.execution_account
  <2>1. Metas(r)[i] = AccountMeta(r.accounts[i].key,
            r.scheme = "ExecutionAccount" /\ r.accounts[i].is_writable, TRUE)
    BY <1>1, <1>2 DEF Metas, create_instruction_execution_account_metas
  <2>2. /\ Metas(r)[i].key = r.accounts[i].key /\ Metas(r)[i].is_signer
        /\ Metas(r)[i].is_writable
              = (r.scheme = "ExecutionAccount" /\ r.accounts[i].is_writable)
    BY <2>1 DEF AccountMeta
  <2> QED
    BY <1>2, <2>2
<1>3. CASE r.accounts[i].key # r.execution_account
  <2>1. Metas(r)[i] = AccountMeta(r.accounts[i].key, r.accounts[i].is_writable,
                                  r.accounts[i].is_signer)
    BY <1>1, <1>3 DEF Metas, create_instruction_execution_account_metas
  <2> QED
    BY <1>3, <2>1 DEF AccountMeta
<1> QED
  BY <1>2, <1>3

\* The invariant gives the privileges of the CPIs.
LEMMA Inv_Privileges == LoopInv => PrivilegesHeld
<1> SUFFICES ASSUME LoopInv, NEW c \in DOMAIN invoked, NEW j \in DOMAIN invoked[c].metas
             PROVE  LET meta == invoked[c].metas[j]
                    IN  \E i \in DOMAIN request.accounts :
                        /\ request.accounts[i].key = meta.key
                        /\ meta.is_writable => request.accounts[i].is_writable
                        /\ meta.is_signer => \/ request.accounts[i].is_signer
                                             \/ meta.key = request.execution_account
                        /\ request.scheme = "ExternalAccount"
                              /\ meta.key = request.execution_account
                           => meta.is_signer /\ ~meta.is_writable
  BY DEF PrivilegesHeld
<1> DEFINE named == Indices(request, c)
           i == named[j] + 1
<1>1. /\ request \in PassedRequests /\ c \in 1..current /\ Made(request, c, invoked[c])
      /\ c \in 1..Len(request.instructions)
  BY RequestType DEF LoopInv, InCpis
<1>2. named \in Seq(Nat)
  BY <1>1, RequestType DEF Indices
<1>3. /\ invoked[c].metas = [k \in 1..Len(named) |-> Metas(request)[named[k] + 1]]
      /\ \A k \in 1..Len(named) : InBounds(request, named[k])
  BY <1>1 DEF Made, Resolved
<1>4. j \in 1..Len(named) /\ invoked[c].metas[j] = Metas(request)[i]
  BY <1>3
<1>5. named[j] \in Nat /\ named[j] < Len(request.accounts)
  BY <1>2, <1>3, <1>4 DEF InBounds
<1>6. Len(request.accounts) \in Nat /\ DOMAIN request.accounts = 1..Len(request.accounts)
  BY <1>1, RequestType
<1>7. i \in 1..Len(request.accounts)
  BY <1>5, <1>6
<1> HIDE DEF i
<1> QED
  BY <1>1, <1>4, <1>6, <1>7, MetaPrivileges

(***************************************************************************)
(* No CPI asks for a privilege the transaction does not have, and a wallet *)
(* that signs itself is never writable.                                    *)
(***************************************************************************)
THEOREM PrivilegesHeldHolds == LoopSpec => []PrivilegesHeld
<1> QED
  BY Inv_Privileges, LoopInvariant, PTL

-----------------------------------------------------------------------------
\* The abstract view of a CPI, and of the CPIs made.
View(cpi) == [program_id |-> cpi.program_id, data |-> cpi.data, metas |-> cpi.metas]
Viewed(cpis) == [i \in DOMAIN cpis |-> View(cpis[i])]

\* Sequences with the same members in the same places are the same.
LEMMA SameSequence ==
    ASSUME NEW S, NEW s \in Seq(S), NEW t \in Seq(S), Len(s) = Len(t),
           \A i \in 1..Len(s) : s[i] = t[i]
    PROVE  s = t
  OBVIOUS

\* The view of one more CPI is one more entry.
LEMMA ViewedAppend ==
    ASSUME NEW cpis \in Seq(CpiType), NEW cpi \in CpiType
    PROVE  /\ Len(Viewed(cpis)) = Len(cpis)
           /\ Viewed(Append(cpis, cpi)) = Append(Viewed(cpis), View(cpi))
<1> DEFINE V == [program_id : Keys, data : Datas, metas : Seq(MetaType)]
<1>1. \A x \in CpiType : View(x) \in V
  BY DEF View, CpiType
<1> HIDE DEF V
<1>2. Viewed(cpis) \in Seq(V) /\ Len(Viewed(cpis)) = Len(cpis)
  BY <1>1 DEF Viewed
<1> DEFINE left == Viewed(Append(cpis, cpi))
           right == Append(Viewed(cpis), View(cpi))
<1>3. /\ Append(cpis, cpi) \in Seq(CpiType) /\ Len(Append(cpis, cpi)) = Len(cpis) + 1
      /\ \A i \in 1..Len(cpis) : Append(cpis, cpi)[i] = cpis[i]
      /\ Append(cpis, cpi)[Len(cpis) + 1] = cpi
  OBVIOUS
<1>4. /\ left \in Seq(V) /\ Len(left) = Len(cpis) + 1
      /\ \A i \in 1..(Len(cpis) + 1) : left[i] = View(Append(cpis, cpi)[i])
  BY <1>1, <1>3 DEF Viewed
<1>5. /\ right \in Seq(V) /\ Len(right) = Len(cpis) + 1
      /\ \A i \in 1..Len(cpis) : right[i] = View(cpis[i])
      /\ right[Len(cpis) + 1] = View(cpi)
  BY <1>1, <1>2 DEF Viewed
<1>6. \A i \in 1..(Len(cpis) + 1) : i \in 1..Len(cpis) \/ i = Len(cpis) + 1
  OBVIOUS
<1> HIDE DEF left, right
<1>7. \A i \in 1..Len(left) : left[i] = right[i]
  BY <1>3, <1>4, <1>5, <1>6
<1>8. left = right
  BY <1>4, <1>5, <1>7, SameSequence
<1> QED
  BY <1>2, <1>8 DEF left, right

\* The meta of an account is the privilege the abstract specification grants.
LEMMA MetaIsGranted ==
    ASSUME NEW r \in PassedRequests, NEW i \in Nat, i < Len(r.accounts)
    PROVE  Metas(r)[i + 1] = Approved!Granted(r, i)
<1> DEFINE a == r.accounts[i + 1]
<1>1. /\ i + 1 \in DOMAIN r.accounts /\ a \in AccountInfo
      /\ r.scheme \in {"ExecutionAccount", "ExternalAccount"}
  BY RequestType DEF SignerExecutionScheme
<1>2. a.is_writable \in BOOLEAN /\ a.is_signer \in BOOLEAN
  BY <1>1 DEF AccountInfo
<1>3. CASE a.key = r.execution_account
  <2>1. Metas(r)[i + 1] = AccountMeta(a.key, r.scheme = "ExecutionAccount" /\ a.is_writable, TRUE)
    BY <1>1, <1>3 DEF Metas, create_instruction_execution_account_metas
  <2>2. (r.scheme = "ExecutionAccount") = ~(r.scheme = "ExternalAccount")
    BY <1>1
  <2>3. Approved!Granted(r, i)
          = [key |-> a.key, is_writable |-> a.is_writable /\ ~(r.scheme = "ExternalAccount"),
             is_signer |-> TRUE]
    BY <1>2, <1>3 DEF Approved!Granted
  <2>4. (r.scheme = "ExecutionAccount" /\ a.is_writable)
          = (a.is_writable /\ ~(r.scheme = "ExternalAccount"))
    BY <2>2
  <2> QED
    BY <2>1, <2>3, <2>4 DEF AccountMeta
<1>4. CASE a.key # r.execution_account
  <2>1. Metas(r)[i + 1] = AccountMeta(a.key, a.is_writable, a.is_signer)
    BY <1>1, <1>4 DEF Metas, create_instruction_execution_account_metas
  <2>2. Approved!Granted(r, i)
          = [key |-> a.key, is_writable |-> a.is_writable, is_signer |-> a.is_signer]
    BY <1>2, <1>4 DEF Approved!Granted
  <2> QED
    BY <2>1, <2>2 DEF AccountMeta
<1> QED
  BY <1>3, <1>4

\* A CPI the loop makes is the one its instruction means.
LEMMA MadeIsMeant ==
    ASSUME NEW r \in PassedRequests, NEW c \in 1..Len(r.instructions),
           NEW cpi \in CpiType, Made(r, c, cpi)
    PROVE  /\ Approved!WellFormed(r, r.instructions[c])
           /\ View(cpi) = Approved!Meant(r, r.instructions[c])
<1> DEFINE named == Indices(r, c)
<1>1. named \in Seq(Nat) /\ DOMAIN named = 1..Len(named)
  BY RequestType DEF Indices
<1>2. /\ cpi.metas = [j \in 1..Len(named) |-> Metas(r)[named[j] + 1]]
      /\ \A j \in 1..Len(named) : named[j] < Len(r.accounts) /\ named[j] < MAX_INFOS
  BY DEF Made, Resolved, InBounds
<1>3. \A j \in 1..Len(named) : Metas(r)[named[j] + 1] = Approved!Granted(r, named[j])
  <2> TAKE j \in 1..Len(named)
  <2>1. named[j] \in Nat /\ named[j] < Len(r.accounts)
    BY <1>1, <1>2
  <2> HIDE DEF named
  <2> QED
    BY <2>1, MetaIsGranted
<1>4. cpi.metas = [j \in DOMAIN named |-> Approved!Granted(r, named[j])]
  BY <1>1, <1>2, <1>3
<1>5. Approved!WellFormed(r, r.instructions[c])
  BY <1>1, <1>2 DEF Approved!WellFormed, Made, Program, Indices
<1> QED
  BY <1>4, <1>5 DEF View, Approved!Meant, Made, Program, Indices

\* A step of the loop is a step of the approved execution, or none.
LEMMA LoopNext_Approved ==
    LoopInv /\ [LoopNext]_loopVars => [Approved!ExecutionNext]_(Approved!executionVars)
<1> SUFFICES ASSUME LoopInv, [LoopNext]_loopVars
             PROVE  [Approved!ExecutionNext]_(Approved!executionVars)
  OBVIOUS
<1>1. /\ request \in PassedRequests /\ Len(request.instructions) \in Nat
      /\ current \in 0..Len(request.instructions)
      /\ invoked \in Seq(CpiType) /\ Len(invoked) = current
  BY RequestType DEF LoopInv, InCpis
<1>2. Len(Viewed(invoked)) = current
  BY <1>1 DEF Viewed
<1>3. CASE UNCHANGED loopVars \/ CollectAccount
  BY <1>3 DEF loopVars, CollectAccount, Approved!executionVars
<1>4. CASE Invoke
  <2> DEFINE c == current + 1
  <2>1. LoopInv'
    BY <1>4, LoopNext_Inv DEF LoopNext
  <2>2. /\ c \in 1..Len(request.instructions) /\ current < Len(request.instructions)
        /\ status = "running" /\ UNCHANGED <<request, status>>
        /\ current' = c /\ invoked' = Append(invoked, Cpi)
    BY <1>1, <1>4 DEF Invoke, Collected, Looping
  <2>3. invoked' \in Seq(CpiType) /\ Len(invoked') = c
    BY <2>1, <2>2 DEF LoopInv, InCpis
  <2>4. invoked'[c] = Cpi
    BY <1>1, <2>2
  <2>5. Cpi \in CpiType
    BY <1>1, <2>3, <2>4
  <2>6. Made(request, c, Cpi)
    BY <2>1, <2>2, <2>4 DEF LoopInv, InCpis
  <2>7. /\ Approved!WellFormed(request, request.instructions[c])
        /\ View(Cpi) = Approved!Meant(request, request.instructions[c])
    BY <1>1, <2>2, <2>5, <2>6, MadeIsMeant
  <2>8. Viewed(invoked') = Append(Viewed(invoked), View(Cpi))
    BY <1>1, <2>2, <2>5, ViewedAppend
  <2>9. Approved!Perform
    BY <1>2, <2>2, <2>7, <2>8 DEF Approved!Perform, Viewed, View
  <2> QED
    BY <2>9 DEF Approved!ExecutionNext
<1>5. CASE Abort
  <2>1. /\ status = "running" /\ current < Len(request.instructions)
        /\ status' = "failed" /\ UNCHANGED <<request, invoked>>
    BY <1>5 DEF Abort, Collected, Collecting, Looping
  <2>2. Approved!Fail
    BY <1>2, <2>1 DEF Approved!Fail, Viewed, View
  <2> QED
    BY <2>2 DEF Approved!ExecutionNext
<1>6. CASE Return
  <2>1. Approved!Finish
    BY <1>2, <1>6 DEF Return, Approved!Finish, Viewed, View
  <2> QED
    BY <2>1 DEF Approved!ExecutionNext
<1> QED
  BY <1>3, <1>4, <1>5, <1>6 DEF LoopNext

(***************************************************************************)
(* The loop implements ApprovedExecution: its CPIs are the approved        *)
(* instructions in order, with the accounts and privileges they were       *)
(* approved with, and an index out of bounds or a call of the program      *)
(* itself ends the transaction before its CPI.                             *)
(***************************************************************************)
THEOREM LoopCarriesOutApproved == LoopSpec => CarriesOutApproved
<1>1. LoopInit => Approved!ExecutionInit
  BY DEF LoopInit, LoopStart, Approved!ExecutionInit
<1> QED
  BY <1>1, LoopNext_Approved, LoopInvariant, PTL DEF LoopSpec, CarriesOutApproved, Approved!ExecutionSpec

-----------------------------------------------------------------------------
(***************************************************************************)
(* The SDK: a set of keys as a list                                        *)
(***************************************************************************)

\* SetToSeq lists a finite set: nothing is lost, nothing added.
LEMMA SetListed ==
    ASSUME NEW S, IsFiniteSet(S)
    PROVE  /\ SetToSeq(S) \in Seq(S)
           /\ ToSet(SetToSeq(S)) = S
<1> DEFINE n == Cardinality(S)
           s == SetToSeq(S)
<1>1. n \in Nat /\ ExistsBijection(1..n, S)
  BY FS_CardinalityType
<1>2. PICK f \in [1..n -> S] : IsInjective(f)
  BY <1>1 DEF ExistsBijection, Bijection, Injection
<1>3. s \in [1..n -> S] /\ IsInjective(s)
  BY <1>2 DEF SetToSeq
<1> HIDE DEF s, n
<1>4. s \in Injection(1..n, S)
  BY <1>3 DEF Injection
<1>5. Cardinality(1..n) = Cardinality(S)
  BY <1>1, FS_Interval DEF n
<1>6. s \in Surjection(1..n, S)
  BY <1>4, <1>5, FS_Injection
<1>7. \A t \in S : \E i \in 1..n : s[i] = t
  BY <1>6 DEF Surjection
<1>8. s \in Seq(S) /\ DOMAIN s = 1..n
  BY <1>1, <1>3
<1>9. ToSet(s) = S
  BY <1>3, <1>7, <1>8 DEF ToSet
<1> QED
  BY <1>8, <1>9 DEF s

\* The elements of a sequence are finitely many.
LEMMA ListedFinite ==
    ASSUME NEW S, NEW s \in Seq(S)
    PROVE  IsFiniteSet(ToSet(s)) /\ ToSet(s) \subseteq S
<1>1. DOMAIN s = 1..Len(s) /\ Len(s) \in Nat /\ \A i \in 1..Len(s) : s[i] \in S
  BY ElementOfSeq, LenProperties
<1>2. IsFiniteSet(1..Len(s))
  BY <1>1, FS_Interval
<1>3. s \in [1..Len(s) -> ToSet(s)] /\ \A t \in ToSet(s) : \E i \in 1..Len(s) : s[i] = t
  BY <1>1 DEF ToSet
<1>4. s \in Surjection(1..Len(s), ToSet(s))
  BY <1>3 DEF Surjection
<1>5. ToSet(s) \subseteq S
  BY <1>1 DEF ToSet
<1> QED
  BY <1>2, <1>4, <1>5, FS_Surjection

\* A set of naturals that is not empty has a least element.
LEMMA LeastNatural ==
    ASSUME NEW T \in SUBSET Nat, T # {}
    PROVE  \E x \in T : \A y \in T : x <= y
<1> DEFINE R == OpToRel(<, Nat)
<1>1. IsWellFoundedOn(R, Nat)
  BY NatLessThanWellFounded
<1>2. \A y, x \in Nat : y < x => <<y, x>> \in R
  BY DEF OpToRel
<1> HIDE DEF R
<1>3. PICK x \in T : \A y \in T : ~(<<y, x>> \in R)
  BY <1>1, WFMin
<1>4. ASSUME NEW y \in T PROVE x <= y
  <2>1. x \in Nat /\ y \in Nat /\ ~(<<y, x>> \in R)
    BY <1>3
  <2>2. ~(y < x)
    BY <2>1, <1>2
  <2>. QED  BY <2>1, <2>2
<1>. QED
  BY <1>4

\* A set of naturals that holds 0 and the successors of its members is all of them.
LEMMA NaturalInduction ==
    ASSUME NEW T \in SUBSET Nat, 0 \in T, \A n \in T : n + 1 \in T
    PROVE  T = Nat
<1> SUFFICES ASSUME T # Nat PROVE FALSE
  OBVIOUS
<1> DEFINE C == Nat \ T
<1>1. C \in SUBSET Nat /\ C # {}
  OBVIOUS
<1>2. PICK x \in C : \A y \in C : x <= y
  BY <1>1, LeastNatural
<1>3. x # 0 /\ x - 1 \in Nat /\ x - 1 \notin C
  BY <1>2
<1>. QED
  BY <1>3

\* The keys and privileges a list of instructions mentions are finitely many.
LEMMA MentionsFinite ==
    ASSUME NEW s \in Seq(Instruction)
    PROVE  IsFiniteSet(Mentions(s)) /\ Mentions(s) \subseteq AccountInfo
<1> DEFINE A(i) == ToSet(s[i].accounts) \cup {Mention(s[i].program_id, FALSE, FALSE)}
           U(n) == UNION {A(i) : i \in 1..n}
           N == {n \in Nat : n <= Len(s) => IsFiniteSet(U(n))}
<1>1. Len(s) \in Nat /\ DOMAIN s = 1..Len(s) /\ \A i \in 1..Len(s) : s[i] \in Instruction
  BY ElementOfSeq, LenProperties
<1>2. ASSUME NEW i \in 1..Len(s) PROVE IsFiniteSet(A(i)) /\ A(i) \subseteq AccountInfo
  <2>1. s[i].accounts \in Seq(AccountInfo) /\ s[i].program_id \in Keys
    BY <1>1 DEF Instruction
  <2>2. IsFiniteSet(ToSet(s[i].accounts)) /\ ToSet(s[i].accounts) \subseteq AccountInfo
    BY <2>1, ListedFinite
  <2>3. Mention(s[i].program_id, FALSE, FALSE) \in AccountInfo
    BY <2>1 DEF Mention, AccountInfo
  <2> QED
    BY <2>2, <2>3, FS_AddElement
<1>3. Mentions(s) = U(Len(s))
  <2>1. \A x : x \in Mentions(s) <=> \E i \in 1..Len(s) : x \in A(i)
    <3> DEFINE B(i) == ToSet(s[i].accounts)
               C(i) == Mention(s[i].program_id, FALSE, FALSE)
               P == UNION {B(i) : i \in DOMAIN s}
               Q == {C(i) : i \in DOMAIN s}
    <3>1. Mentions(s) = P \cup Q
      BY Zenon DEF Mentions
    <3>2. \A i : A(i) = B(i) \cup {C(i)}
      BY Zenon
    <3> HIDE DEF A, B, C
    <3>3. \A x : x \in Mentions(s) <=> (\E i \in DOMAIN s : x \in B(i))
                                         \/ (\E i \in DOMAIN s : x = C(i))
      <4>1. \A x : x \in P <=> \E i \in DOMAIN s : x \in B(i)
        BY Zenon
      <4>2. \A x : x \in Q <=> \E i \in DOMAIN s : x = C(i)
        BY Zenon
      <4> HIDE DEF P, Q
      <4>4. \A x : x \in Mentions(s) <=> x \in P \/ x \in Q
        BY <3>1
      <4> QED
        BY <4>1, <4>2, <4>4, Zenon
    <3>4. \A x, i : x \in A(i) <=> x \in B(i) \/ x = C(i)
      BY <3>2
    <3> QED
      BY <1>1, <3>3, <3>4, Zenon
  <2>2. \A x : x \in U(Len(s)) <=> \E i \in 1..Len(s) : x \in A(i)
    <3> HIDE DEF A
    <3> QED
      BY Zenon
  <2> HIDE DEF A, U
  <2> QED
    BY <2>1, <2>2, Zenon
<1> HIDE DEF A
<1>4. U(Len(s)) \subseteq AccountInfo
  BY <1>2
<1>5. 0 \in N
  <2>1. U(0) = {}
    OBVIOUS
  <2> HIDE DEF U
  <2> QED
    BY <2>1, FS_EmptySet
<1>6. ASSUME NEW n \in N PROVE n + 1 \in N
  <2>1. n \in Nat /\ U(n + 1) = U(n) \cup A(n + 1)
    <3>1. n \in Nat /\ 1..(n + 1) = (1..n) \cup {n + 1}
      OBVIOUS
    <3> QED
      BY <3>1
  <2> SUFFICES ASSUME n + 1 <= Len(s) PROVE IsFiniteSet(U(n + 1))
    BY <2>1
  <2>2. n <= Len(s) /\ n + 1 \in 1..Len(s)
    BY <1>1, <2>1
  <2> DEFINE X == U(n)
             Y == A(n + 1)
  <2>3. IsFiniteSet(X) /\ IsFiniteSet(Y)
    BY <1>2, <2>2
  <2> HIDE DEF X, Y
  <2>4. IsFiniteSet(X \cup Y)
    BY <2>3, FS_Union
  <2> HIDE DEF U
  <2> QED
    BY <2>1, <2>4, Zenon DEF X, Y
<1>7. N = Nat
  <2> HIDE DEF N
  <2>1. N \in SUBSET Nat
    BY DEF N
  <2> QED
    BY <1>5, <1>6, <2>1, NaturalInduction
<1>8. IsFiniteSet(U(Len(s)))
  <2> HIDE DEF U, N
  <2>1. Len(s) \in N
    BY <1>1, <1>7, Zenon
  <2>2. Len(s) <= Len(s)
    BY <1>1
  <2> QED
    BY <2>1, <2>2, Zenon DEF N
<1> QED
  BY <1>3, <1>4, <1>8

-----------------------------------------------------------------------------
(***************************************************************************)
(* The SDK: the order of the keys in a message                             *)
(***************************************************************************)

\* The keys other than the payer that are mentioned with these privileges, as
\* Message lists them.
KeysWith(M, payer, is_signer, is_writable) ==
    {k \in {n.key : n \in M} \ {payer} :
        Merged(M, k) = Mention(k, is_signer, is_writable)}
GroupOf(M, payer, is_signer, is_writable) ==
    SetToSeq(KeysWith(M, payer, is_signer, is_writable))

\* g lists the keys other than the payer mentioned with these privileges.
Lists(g, M, payer, is_signer, is_writable) ==
    /\ g \in Seq(Keys)
    /\ \A i \in 1..Len(g) :
         g[i] # payer /\ Merged(M, g[i]) = Mention(g[i], is_signer, is_writable)
    /\ \A n \in M : n.key # payer
                     /\ Merged(M, n.key) = Mention(n.key, is_signer, is_writable)
         => \E i \in 1..Len(g) : g[i] = n.key

\* The keys of finitely many mentions are finitely many.
LEMMA KeysFinite ==
    ASSUME NEW M \in SUBSET AccountInfo, IsFiniteSet(M)
    PROVE  IsFiniteSet({n.key : n \in M}) /\ {n.key : n \in M} \subseteq Keys
<1> DEFINE K == {n.key : n \in M}
           f == [n \in M |-> n.key]
<1>1. f \in [M -> K] /\ \A k \in K : \E n \in M : f[n] = k
  OBVIOUS
<1>2. f \in Surjection(M, K)
  BY <1>1 DEF Surjection
<1>3. K \subseteq Keys
  BY DEF AccountInfo
<1> HIDE DEF f, K
<1>4. IsFiniteSet(K)
  BY <1>2, FS_Surjection
<1> QED
  BY <1>3, <1>4 DEF K

\* A group lists exactly the keys with its privileges.
LEMMA GroupListed ==
    ASSUME NEW M \in SUBSET AccountInfo, IsFiniteSet(M), NEW payer,
           NEW is_signer \in BOOLEAN, NEW is_writable \in BOOLEAN
    PROVE  Lists(GroupOf(M, payer, is_signer, is_writable), M, payer, is_signer, is_writable)
<1> DEFINE K == {n.key : n \in M}
           S == KeysWith(M, payer, is_signer, is_writable)
           g == GroupOf(M, payer, is_signer, is_writable)
<1>1. IsFiniteSet(K) /\ K \subseteq Keys
  BY KeysFinite
<1>2. S \subseteq K
  BY DEF KeysWith
<1>3. IsFiniteSet(S)
  <2> HIDE DEF K, S
  <2> QED
    BY <1>1, <1>2, FS_Subset
<1>4. \A k \in S : k # payer /\ Merged(M, k) = Mention(k, is_signer, is_writable)
  BY DEF KeysWith
<1>5. \A n \in M : n.key # payer
                    /\ Merged(M, n.key) = Mention(n.key, is_signer, is_writable)
        => n.key \in S
  BY DEF KeysWith
<1>6. S \subseteq Keys
  BY <1>1, <1>2
<1> HIDE DEF K, S
<1>7. g \in Seq(S) /\ ToSet(g) = S
  BY <1>3, SetListed DEF GroupOf, S
<1> HIDE DEF g
<1>8. DOMAIN g = 1..Len(g) /\ \A i \in 1..Len(g) : g[i] \in S
  BY <1>7, ElementOfSeq, LenProperties
<1>9. \A k \in S : \E i \in 1..Len(g) : g[i] = k
  BY <1>7, <1>8 DEF ToSet
<1>10. g \in Seq(Keys)
  BY <1>6, <1>7
<1>11. \A i \in 1..Len(g) :
          g[i] # payer /\ Merged(M, g[i]) = Mention(g[i], is_signer, is_writable)
  BY <1>4, <1>8
<1>12. \A n \in M : n.key # payer
                     /\ Merged(M, n.key) = Mention(n.key, is_signer, is_writable)
         => \E i \in 1..Len(g) : g[i] = n.key
  BY <1>5, <1>9
<1> QED
  BY <1>10, <1>11, <1>12 DEF g, Lists

\* Where the elements of two lists are in their concatenation.
LEMMA TwoParts ==
    ASSUME NEW S, NEW a \in Seq(S), NEW b \in Seq(S)
    PROVE  /\ a \o b \in Seq(S) /\ Len(a \o b) = Len(a) + Len(b)
           /\ \A i \in 1..Len(a) : (a \o b)[i] = a[i]
           /\ \A i \in 1..Len(b) : (a \o b)[Len(a) + i] = b[i]
  OBVIOUS

\* t is four lists, one after the other.
Joined(t, a, b, c, d, S) ==
    /\ t \in Seq(S) /\ Len(t) = Len(a) + Len(b) + Len(c) + Len(d)
    /\ \A i \in 1..Len(a) : t[i] = a[i]
    /\ \A i \in 1..Len(b) : t[Len(a) + i] = b[i]
    /\ \A i \in 1..Len(c) : t[Len(a) + Len(b) + i] = c[i]
    /\ \A i \in 1..Len(d) : t[Len(a) + Len(b) + Len(c) + i] = d[i]

\* Where the elements of four lists are in their concatenation.
LEMMA FourParts ==
    ASSUME NEW S, NEW a \in Seq(S), NEW b \in Seq(S), NEW c \in Seq(S), NEW d \in Seq(S)
    PROVE  Joined(a \o b \o c \o d, a, b, c, d, S)
<1> DEFINE u == a \o b
           v == u \o c
           t == v \o d
<1>0. Len(a) \in Nat /\ Len(b) \in Nat /\ Len(c) \in Nat /\ Len(d) \in Nat
  OBVIOUS
<1>1. /\ u \in Seq(S) /\ Len(u) = Len(a) + Len(b)
      /\ \A i \in 1..Len(a) : u[i] = a[i]
      /\ \A i \in 1..Len(b) : u[Len(a) + i] = b[i]
  BY TwoParts
<1> HIDE DEF u
<1>2. /\ v \in Seq(S) /\ Len(v) = Len(u) + Len(c)
      /\ \A i \in 1..Len(u) : v[i] = u[i]
      /\ \A i \in 1..Len(c) : v[Len(u) + i] = c[i]
  <2>1. u \in Seq(S)
    BY <1>1
  <2> QED
    BY <2>1, SMT
<1> HIDE DEF v
<1>3. /\ t \in Seq(S) /\ Len(t) = Len(v) + Len(d)
      /\ \A i \in 1..Len(v) : t[i] = v[i]
      /\ \A i \in 1..Len(d) : t[Len(v) + i] = d[i]
  <2>1. v \in Seq(S)
    BY <1>2
  <2> QED
    BY <2>1, SMT
<1> HIDE DEF t
<1>4. t = a \o b \o c \o d
  BY DEF t, u, v
<1>5. \A i \in 1..Len(a) : t[i] = a[i]
  BY <1>0, <1>1, <1>2, <1>3
<1>6. \A i \in 1..Len(b) : t[Len(a) + i] = b[i]
  <2> TAKE i \in 1..Len(b)
  <2>1. Len(a) + i \in 1..Len(u) /\ Len(a) + i \in 1..Len(v)
    BY <1>0, <1>1, <1>2
  <2> QED
    BY <1>1, <1>2, <1>3, <2>1
<1>7. \A i \in 1..Len(c) : t[Len(u) + i] = c[i]
  <2> TAKE i \in 1..Len(c)
  <2>1. Len(u) + i \in 1..Len(v)
    BY <1>0, <1>1, <1>2
  <2> QED
    BY <1>2, <1>3, <2>1
<1>8. Len(v) = Len(a) + Len(b) + Len(c)
  BY <1>1, <1>2
<1>9. Len(t) = Len(a) + Len(b) + Len(c) + Len(d)
  BY <1>3, <1>8
<1>10. /\ \A i \in 1..Len(c) : t[Len(a) + Len(b) + i] = c[i]
       /\ \A i \in 1..Len(d) : t[Len(a) + Len(b) + Len(c) + i] = d[i]
  BY <1>1, <1>3, <1>7, <1>8
<1> QED
  BY <1>3, <1>4, <1>5, <1>6, <1>9, <1>10, Zenon DEF Joined

\* The privileges the SDK finds for a key: the payer has both, any other key
\* those of all its mentions.
MetaOf(M, payer, k) == IF k = payer THEN Mention(payer, TRUE, TRUE) ELSE Merged(M, k)

\* The keys in front: the payer and the writable signers.
FrontKeys(M, payer) == <<payer>> \o GroupOf(M, payer, TRUE, TRUE)

\* A message is its four lists of keys and their lengths.
LEMMA MessageParts ==
    ASSUME NEW s, NEW payer
    PROVE  LET M == Mentions(s)
               a == FrontKeys(M, payer)
               b == GroupOf(M, payer, TRUE, FALSE)
               c == GroupOf(M, payer, FALSE, TRUE)
               d == GroupOf(M, payer, FALSE, FALSE)
               message == Message(s, payer)
           IN  /\ message.account_keys = a \o b \o c \o d
               /\ message.num_required_signatures = Len(a) + Len(b)
               /\ message.num_readonly_signed_accounts = Len(b)
               /\ message.num_readonly_unsigned_accounts = Len(d)
  BY Zenon DEF Message, FrontKeys, GroupOf, KeysWith

\* The privileges of a key are either of four.
LEMMA FourPrivileges ==
    ASSUME NEW M, NEW k
    PROVE  \E s, w \in BOOLEAN : Merged(M, k) = Mention(k, s, w)
  BY DEF Merged

\* The keys in front are the payer and the keys mentioned as writable signers.
LEMMA FrontListed ==
    ASSUME NEW M \in SUBSET AccountInfo, IsFiniteSet(M), NEW payer \in Keys
    PROVE  LET a == FrontKeys(M, payer) IN
           /\ a \in Seq(Keys) /\ 1 \in 1..Len(a) /\ a[1] = payer
           /\ \A i \in 1..Len(a) : MetaOf(M, payer, a[i]) = Mention(a[i], TRUE, TRUE)
           /\ \A n \in M : n.key # payer
                            /\ Merged(M, n.key) = Mention(n.key, TRUE, TRUE)
                => \E i \in 1..Len(a) : a[i] = n.key
<1> DEFINE g == GroupOf(M, payer, TRUE, TRUE)
           p == <<payer>>
           a == FrontKeys(M, payer)
<1>1. /\ g \in Seq(Keys)
      /\ \A i \in 1..Len(g) : g[i] # payer /\ Merged(M, g[i]) = Mention(g[i], TRUE, TRUE)
      /\ \A n \in M : n.key # payer /\ Merged(M, n.key) = Mention(n.key, TRUE, TRUE)
            => \E i \in 1..Len(g) : g[i] = n.key
  <2>1. TRUE \in BOOLEAN
    OBVIOUS
  <2>2. Lists(g, M, payer, TRUE, TRUE)
    BY <2>1, GroupListed, Zenon
  <2> QED
    BY <2>2, Zenon DEF Lists
<1>2. p \in Seq(Keys) /\ Len(p) = 1 /\ p[1] = payer
  OBVIOUS
<1> HIDE DEF g, p
<1>3. /\ a \in Seq(Keys) /\ Len(a) = 1 + Len(g)
      /\ a[1] = payer /\ \A i \in 1..Len(g) : a[1 + i] = g[i]
  <2>1. a = p \o g
    BY DEF FrontKeys, p, g
  <2>2. /\ p \o g \in Seq(Keys) /\ Len(p \o g) = Len(p) + Len(g)
        /\ \A i \in 1..Len(p) : (p \o g)[i] = p[i]
        /\ \A i \in 1..Len(g) : (p \o g)[Len(p) + i] = g[i]
    BY <1>1, <1>2, TwoParts
  <2> HIDE DEF a
  <2>3. /\ a \in Seq(Keys) /\ Len(a) = Len(p) + Len(g)
        /\ \A i \in 1..Len(p) : a[i] = p[i]
        /\ \A i \in 1..Len(g) : a[Len(p) + i] = g[i]
    BY <2>1, <2>2, Zenon
  <2> QED
    BY <1>2, <2>3
<1> HIDE DEF a
<1>4. Len(g) \in Nat
  BY <1>1
<1>5. \A i \in 1..Len(a) : a[i] = payer \/ \E j \in 1..Len(g) : a[i] = g[j]
  <2> TAKE i \in 1..Len(a)
  <2>1. i = 1 \/ (i - 1 \in 1..Len(g) /\ i = 1 + (i - 1))
    BY <1>3, <1>4
  <2> QED
    BY <1>3, <2>1
<1>6. ASSUME NEW i \in 1..Len(a) PROVE MetaOf(M, payer, a[i]) = Mention(a[i], TRUE, TRUE)
  <2>1. CASE a[i] = payer
    BY <2>1 DEF MetaOf
  <2>2. ASSUME NEW j \in 1..Len(g), a[i] = g[j]
        PROVE  MetaOf(M, payer, a[i]) = Mention(a[i], TRUE, TRUE)
    BY <1>1, <2>2 DEF MetaOf
  <2> QED
    BY <1>5, <2>1, <2>2
<1>7. \A j \in 1..Len(g) : \E i \in 1..Len(a) : a[i] = g[j]
  <2> TAKE j \in 1..Len(g)
  <2>1. 1 + j \in 1..Len(a)
    BY <1>3, <1>4
  <2> QED
    BY <1>3, <2>1
<1>8. 1 \in 1..Len(a)
  BY <1>3, <1>4
<1>9. \A n \in M : n.key # payer /\ Merged(M, n.key) = Mention(n.key, TRUE, TRUE)
        => \E i \in 1..Len(a) : a[i] = n.key
  BY <1>1, <1>7
<1> QED
  BY <1>3, <1>6, <1>8, <1>9 DEF a

(***************************************************************************)
(* The message lists the payer and every mentioned key, and the header     *)
(* counts give each its privileges back.                                   *)
(***************************************************************************)
LEMMA MessageMetas ==
    ASSUME NEW s \in Seq(Instruction), NEW payer \in Keys
    PROVE  LET M == Mentions(s)
               message == Message(s, payer)
               keys == message.account_keys
           IN  /\ keys \in Seq(Keys)
               /\ \A i \in 1..Len(keys) : account_meta(message, i) = MetaOf(M, payer, keys[i])
               /\ \E i \in 1..Len(keys) : keys[i] = payer
               /\ \A n \in M : \E i \in 1..Len(keys) : keys[i] = n.key
<1> DEFINE M == Mentions(s)
           a == FrontKeys(M, payer)
           b == GroupOf(M, payer, TRUE, FALSE)
           c == GroupOf(M, payer, FALSE, TRUE)
           d == GroupOf(M, payer, FALSE, FALSE)
           message == Message(s, payer)
           keys == message.account_keys
           In(x, k) == \E i \in 1..Len(x) : x[i] = k
<1>1. M \in SUBSET AccountInfo /\ IsFiniteSet(M)
  BY MentionsFinite
<1>2. /\ keys = a \o b \o c \o d
      /\ message.num_required_signatures = Len(a) + Len(b)
      /\ message.num_readonly_signed_accounts = Len(b)
      /\ message.num_readonly_unsigned_accounts = Len(d)
  BY MessageParts
<1> HIDE DEF M
<1>3. /\ a \in Seq(Keys) /\ In(a, payer)
      /\ \A i \in 1..Len(a) : MetaOf(M, payer, a[i]) = Mention(a[i], TRUE, TRUE)
      /\ \A n \in M : n.key # payer /\ Merged(M, n.key) = Mention(n.key, TRUE, TRUE)
            => In(a, n.key)
  BY <1>1, FrontListed
<1>4. /\ b \in Seq(Keys)
      /\ \A i \in 1..Len(b) : MetaOf(M, payer, b[i]) = Mention(b[i], TRUE, FALSE)
      /\ \A n \in M : n.key # payer /\ Merged(M, n.key) = Mention(n.key, TRUE, FALSE)
            => In(b, n.key)
  <2>1. /\ b \in Seq(Keys)
        /\ \A i \in 1..Len(b) : b[i] # payer /\ Merged(M, b[i]) = Mention(b[i], TRUE, FALSE)
        /\ \A n \in M : n.key # payer /\ Merged(M, n.key) = Mention(n.key, TRUE, FALSE)
              => In(b, n.key)
    <3>1. TRUE \in BOOLEAN /\ FALSE \in BOOLEAN
      OBVIOUS
    <3>2. Lists(b, M, payer, TRUE, FALSE)
      BY <1>1, <3>1, GroupListed, Zenon
    <3> QED
      BY <3>2, Zenon DEF Lists
  <2> QED
    BY <2>1 DEF MetaOf
<1>5. /\ c \in Seq(Keys)
      /\ \A i \in 1..Len(c) : MetaOf(M, payer, c[i]) = Mention(c[i], FALSE, TRUE)
      /\ \A n \in M : n.key # payer /\ Merged(M, n.key) = Mention(n.key, FALSE, TRUE)
            => In(c, n.key)
  <2>1. /\ c \in Seq(Keys)
        /\ \A i \in 1..Len(c) : c[i] # payer /\ Merged(M, c[i]) = Mention(c[i], FALSE, TRUE)
        /\ \A n \in M : n.key # payer /\ Merged(M, n.key) = Mention(n.key, FALSE, TRUE)
              => In(c, n.key)
    <3>1. TRUE \in BOOLEAN /\ FALSE \in BOOLEAN
      OBVIOUS
    <3>2. Lists(c, M, payer, FALSE, TRUE)
      BY <1>1, <3>1, GroupListed, Zenon
    <3> QED
      BY <3>2, Zenon DEF Lists
  <2> QED
    BY <2>1 DEF MetaOf
<1>6. /\ d \in Seq(Keys)
      /\ \A i \in 1..Len(d) : MetaOf(M, payer, d[i]) = Mention(d[i], FALSE, FALSE)
      /\ \A n \in M : n.key # payer /\ Merged(M, n.key) = Mention(n.key, FALSE, FALSE)
            => In(d, n.key)
  <2>1. /\ d \in Seq(Keys)
        /\ \A i \in 1..Len(d) : d[i] # payer /\ Merged(M, d[i]) = Mention(d[i], FALSE, FALSE)
        /\ \A n \in M : n.key # payer /\ Merged(M, n.key) = Mention(n.key, FALSE, FALSE)
              => In(d, n.key)
    <3>1. TRUE \in BOOLEAN /\ FALSE \in BOOLEAN
      OBVIOUS
    <3>2. Lists(d, M, payer, FALSE, FALSE)
      BY <1>1, <3>1, GroupListed, Zenon
    <3> QED
      BY <3>2, Zenon DEF Lists
  <2> QED
    BY <2>1 DEF MetaOf
<1> HIDE DEF a, b, c, d
<1> DEFINE na == Len(a)
           nb == Len(a) + Len(b)
           nc == Len(a) + Len(b) + Len(c)
<1>7. /\ keys \in Seq(Keys) /\ Len(keys) = Len(a) + Len(b) + Len(c) + Len(d)
      /\ \A i \in 1..Len(a) : keys[i] = a[i]
      /\ \A i \in 1..Len(b) : keys[na + i] = b[i]
      /\ \A i \in 1..Len(c) : keys[nb + i] = c[i]
      /\ \A i \in 1..Len(d) : keys[nc + i] = d[i]
  <2> DEFINE t == a \o b \o c \o d
  <2>1. /\ t \in Seq(Keys) /\ Len(t) = Len(a) + Len(b) + Len(c) + Len(d)
        /\ \A i \in 1..Len(a) : t[i] = a[i]
        /\ \A i \in 1..Len(b) : t[na + i] = b[i]
        /\ \A i \in 1..Len(c) : t[nb + i] = c[i]
        /\ \A i \in 1..Len(d) : t[nc + i] = d[i]
    <3>1. a \in Seq(Keys) /\ b \in Seq(Keys) /\ c \in Seq(Keys) /\ d \in Seq(Keys)
      BY <1>3, <1>4, <1>5, <1>6, Zenon
    <3>2. Joined(t, a, b, c, d, Keys)
      BY <3>1, FourParts, Zenon
    <3> QED
      BY <3>2, Zenon DEF Joined
  <2>2. keys = t
    BY <1>2, Zenon
  <2> HIDE DEF t, keys
  <2> QED
    BY <2>1, <2>2, Zenon
<1>8. Len(a) \in Nat /\ Len(b) \in Nat /\ Len(c) \in Nat /\ Len(d) \in Nat
  BY <1>3, <1>4, <1>5, <1>6
<1> HIDE DEF keys
<1>9. /\ \A k : In(a, k) => In(keys, k)
      /\ \A k : In(b, k) => In(keys, k)
      /\ \A k : In(c, k) => In(keys, k)
      /\ \A k : In(d, k) => In(keys, k)
  <2>1. \A i \in 1..Len(a) : i \in 1..Len(keys)
    BY <1>7, <1>8
  <2>2. \A i \in 1..Len(b) : na + i \in 1..Len(keys)
    BY <1>7, <1>8
  <2>3. \A i \in 1..Len(c) : nb + i \in 1..Len(keys)
    BY <1>7, <1>8
  <2>4. \A i \in 1..Len(d) : nc + i \in 1..Len(keys)
    BY <1>7, <1>8
  <2> HIDE DEF na, nb, nc
  <2> QED
    BY <1>7, <2>1, <2>2, <2>3, <2>4, Zenon
<1>10. ASSUME NEW n \in M PROVE In(keys, n.key)
  <2>1. n.key = payer \/ n.key # payer
    OBVIOUS
  <2>2. PICK x, y \in BOOLEAN : Merged(M, n.key) = Mention(n.key, x, y)
    BY FourPrivileges
  <2>3. x \in {TRUE, FALSE} /\ y \in {TRUE, FALSE}
    OBVIOUS
  <2> HIDE DEF In
  <2> QED
    BY <1>3, <1>4, <1>5, <1>6, <1>9, <2>2
<1>11. ASSUME NEW i \in 1..Len(keys)
       PROVE  account_meta(message, i) = MetaOf(M, payer, keys[i])
  <2>1. account_meta(message, i) =
            Mention(keys[i], i <= nb, IF i <= nb THEN i <= na ELSE i <= nc)
    <3>1. message.num_required_signatures - message.num_readonly_signed_accounts = na
      BY <1>2, <1>8
    <3>2. Len(keys) - message.num_readonly_unsigned_accounts = nc
      BY <1>2, <1>7, <1>8
    <3>3. message.num_required_signatures = nb
      BY <1>2
    <3> HIDE DEF na, nb, nc
    <3> QED
      BY <3>1, <3>2, <3>3, Zenon DEF account_meta, Privileges, keys
  <2>2. CASE i <= na
    <3>1. i \in 1..Len(a) /\ i <= nb
      BY <1>8, <2>2
    <3>2. MetaOf(M, payer, keys[i]) = Mention(keys[i], TRUE, TRUE)
      BY <1>3, <1>7, <3>1
    <3> QED
      BY <2>1, <2>2, <3>1, <3>2
  <2>3. CASE ~(i <= na) /\ i <= nb
    <3> DEFINE x == i - na
    <3>1. x \in 1..Len(b) /\ i = na + x
      BY <1>7, <1>8, <2>3
    <3> HIDE DEF x, na
    <3>2. MetaOf(M, payer, keys[i]) = Mention(keys[i], TRUE, FALSE)
      <4>1. keys[i] = b[x]
        BY <1>7, <3>1, Zenon
      <4>2. MetaOf(M, payer, b[x]) = Mention(b[x], TRUE, FALSE)
        BY <1>4, <3>1, Zenon
      <4> QED
        BY <4>1, <4>2, Zenon
    <3> USE DEF na
    <3>3. (i <= nb) = TRUE /\ (IF i <= nb THEN i <= na ELSE i <= nc) = FALSE
      BY <2>3
    <3> QED
      BY <2>1, <3>2, <3>3, Zenon
  <2>4. CASE ~(i <= nb) /\ i <= nc
    <3> DEFINE x == i - nb
    <3>1. x \in 1..Len(c) /\ i = nb + x
      BY <1>7, <1>8, <2>4
    <3> HIDE DEF x, nb
    <3>2. MetaOf(M, payer, keys[i]) = Mention(keys[i], FALSE, TRUE)
      <4>1. keys[i] = c[x]
        BY <1>7, <3>1, Zenon
      <4>2. MetaOf(M, payer, c[x]) = Mention(c[x], FALSE, TRUE)
        BY <1>5, <3>1, Zenon
      <4> QED
        BY <4>1, <4>2, Zenon
    <3> USE DEF nb
    <3>3. (i <= nb) = FALSE /\ (IF i <= nb THEN i <= na ELSE i <= nc) = TRUE
      BY <2>4
    <3> QED
      BY <2>1, <3>2, <3>3, Zenon
  <2>5. CASE ~(i <= nb) /\ ~(i <= nc)
    <3> DEFINE x == i - nc
    <3>1. x \in 1..Len(d) /\ i = nc + x
      BY <1>7, <1>8, <2>5
    <3> HIDE DEF x, nc
    <3>2. MetaOf(M, payer, keys[i]) = Mention(keys[i], FALSE, FALSE)
      <4>1. keys[i] = d[x]
        BY <1>7, <3>1, Zenon
      <4>2. MetaOf(M, payer, d[x]) = Mention(d[x], FALSE, FALSE)
        BY <1>6, <3>1, Zenon
      <4> QED
        BY <4>1, <4>2, Zenon
    <3> USE DEF nc
    <3>3. (i <= nb) = FALSE /\ (IF i <= nb THEN i <= na ELSE i <= nc) = FALSE
      BY <2>5
    <3> QED
      BY <2>1, <3>2, <3>3, Zenon
  <2>6. i <= na \/ (~(i <= na) /\ i <= nb) \/ (~(i <= nb) /\ i <= nc)
         \/ (~(i <= nb) /\ ~(i <= nc))
    OBVIOUS
  <2> QED
    BY <2>2, <2>3, <2>4, <2>5, <2>6
<1> QED
  BY <1>3, <1>7, <1>9, <1>10, <1>11 DEF keys, M

-----------------------------------------------------------------------------
(***************************************************************************)
(* The SDK: compiling, and the transaction                                 *)
(***************************************************************************)

\* The index the SDK writes for a listed key is the place of that key.
LEMMA KeyIndexed ==
    ASSUME NEW message, NEW keys \in Seq(Keys), message.account_keys = keys, NEW k,
           \E i \in 1..Len(keys) : keys[i] = k
    PROVE  /\ account_index(message, k) \in Nat
           /\ account_index(message, k) < Len(keys)
           /\ keys[account_index(message, k) + 1] = k
<1> DEFINE i == CHOOSE i \in DOMAIN keys : keys[i] = k
<1>1. account_index(message, k) = i - 1
  BY Zenon DEF account_index
<1>2. DOMAIN keys = 1..Len(keys) /\ Len(keys) \in Nat
  BY LenProperties
<1>3. i \in 1..Len(keys) /\ keys[i] = k
  BY <1>2
<1> HIDE DEF i
<1>4. i - 1 \in Nat /\ i - 1 < Len(keys) /\ (i - 1) + 1 = i
  BY <1>2, <1>3
<1> QED
  BY <1>1, <1>3, <1>4

\* compiled is the compiled form of one wanted instruction, over the metas.
CompiledFrom(compiled, wanted, metas) ==
    /\ compiled \in CompiledInstruction
    /\ compiled.data = wanted.data
    /\ compiled.program_id_index < Len(metas)
    /\ metas[compiled.program_id_index + 1].key = wanted.program_id
    /\ Len(compiled.accounts_indices) = Len(wanted.accounts)
    /\ \A j \in 1..Len(wanted.accounts) :
         /\ compiled.accounts_indices[j] \in Nat
         /\ compiled.accounts_indices[j] < Len(metas)
         /\ metas[compiled.accounts_indices[j] + 1].key = wanted.accounts[j].key

\* The instructions s and the list of accounts the SDK makes of them agree.
Faithful(compiled, s, payer) ==
    /\ compiled.account_metas \in Seq(AccountInfo)
    /\ \A i \in 1..Len(compiled.account_metas) :
         compiled.account_metas[i]
            = MetaOf(Mentions(s), payer, compiled.account_metas[i].key)
    /\ compiled.instructions \in Seq(CompiledInstruction)
    /\ Len(compiled.instructions) = Len(s)
    /\ \A c \in 1..Len(s) :
         CompiledFrom(compiled.instructions[c], s[c], compiled.account_metas)

\* The privileges found for a key are those of an account of that key.
LEMMA MetaOfType ==
    ASSUME NEW M, NEW payer \in Keys, NEW k \in Keys
    PROVE  /\ MetaOf(M, payer, k) \in AccountInfo /\ MetaOf(M, payer, k).key = k
           /\ Merged(M, k) \in AccountInfo /\ Merged(M, k).key = k
<1>1. \A x, y \in BOOLEAN : \A q \in Keys :
        Mention(q, x, y) \in AccountInfo /\ Mention(q, x, y).key = q
  BY DEF Mention, AccountInfo
<1>2. Merged(M, k) \in AccountInfo /\ Merged(M, k).key = k
  BY <1>1, FourPrivileges
<1>3. Mention(payer, TRUE, TRUE) \in AccountInfo /\ Mention(payer, TRUE, TRUE).key = payer
  BY DEF Mention, AccountInfo
<1> QED
  BY <1>2, <1>3 DEF MetaOf

(***************************************************************************)
(* Compiling keeps program, accounts and data: every index points at the   *)
(* key it stands for, and every key has its merged privileges.             *)
(***************************************************************************)
LEMMA CompileFaithful ==
    ASSUME NEW s \in Seq(Instruction), NEW payer \in Keys
    PROVE  Faithful(compile_instructions_for_execution(s, payer), s, payer)
<1> DEFINE message == Message(s, payer)
           keys == message.account_keys
           M == Mentions(s)
           compiled == compile_instructions_for_execution(s, payer)
           metas == compiled.account_metas
           Indexed(wanted) == [j \in DOMAIN wanted.accounts |->
                                account_index(message, wanted.accounts[j].key)]
           Compile(wanted) ==
            [program_id_index |-> account_index(message, wanted.program_id),
             accounts_indices |-> Indexed(wanted),
             data |-> wanted.data]
<1>1. /\ metas = [i \in DOMAIN keys |-> account_meta(message, i)]
      /\ compiled.instructions = [c \in DOMAIN s |-> Compile(s[c])]
  BY DEF compile_instructions_for_execution
<1>2. /\ keys \in Seq(Keys)
      /\ \A i \in 1..Len(keys) : account_meta(message, i) = MetaOf(M, payer, keys[i])
      /\ \A n \in M : \E i \in 1..Len(keys) : keys[i] = n.key
  BY MessageMetas
<1>3. /\ Len(s) \in Nat /\ DOMAIN s = 1..Len(s)
      /\ \A c \in 1..Len(s) : s[c] \in Instruction
  BY ElementOfSeq, LenProperties
<1>4. ASSUME NEW c \in 1..Len(s)
      PROVE  /\ \E i \in 1..Len(keys) : keys[i] = s[c].program_id
             /\ \A j \in 1..Len(s[c].accounts) :
                    \E i \in 1..Len(keys) : keys[i] = s[c].accounts[j].key
  <2>1. s[c].accounts \in Seq(AccountInfo)
    BY <1>3 DEF Instruction
  <2>2. DOMAIN s[c].accounts = 1..Len(s[c].accounts)
    BY <2>1, LenProperties
  <2>3. \A j \in 1..Len(s[c].accounts) : s[c].accounts[j] \in M
    <3> TAKE j \in 1..Len(s[c].accounts)
    <3>1. s[c].accounts[j] \in ToSet(s[c].accounts)
      BY <2>2 DEF ToSet
    <3> QED
      BY <1>3, <3>1 DEF Mentions
  <2>4. Mention(s[c].program_id, FALSE, FALSE) \in M
    BY <1>3 DEF Mentions
  <2>5. Mention(s[c].program_id, FALSE, FALSE).key = s[c].program_id
    BY DEF Mention
  <2> HIDE DEF M, keys
  <2> QED
    BY <1>2, <2>3, <2>4, <2>5
<1> HIDE DEF compiled, M, keys, message
<1>5. /\ metas \in Seq(AccountInfo) /\ Len(metas) = Len(keys)
      /\ \A i \in 1..Len(metas) : /\ metas[i] = MetaOf(M, payer, metas[i].key)
                                  /\ metas[i].key = keys[i]
  <2>1. DOMAIN keys = 1..Len(keys) /\ Len(keys) \in Nat /\ \A i \in 1..Len(keys) : keys[i] \in Keys
    BY <1>2, ElementOfSeq, LenProperties
  <2>2. \A i \in 1..Len(keys) : metas[i] = MetaOf(M, payer, keys[i])
    BY <1>1, <1>2, <2>1
  <2>3. \A i \in 1..Len(keys) : metas[i] \in AccountInfo /\ metas[i].key = keys[i]
    BY <2>1, <2>2, MetaOfType
  <2>4. metas = [i \in 1..Len(keys) |-> metas[i]]
    BY <1>1, <2>1
  <2> HIDE DEF metas
  <2>5. metas \in Seq(AccountInfo) /\ Len(metas) = Len(keys)
    BY <2>1, <2>3, <2>4
  <2> QED
    BY <2>2, <2>3, <2>5
<1>6. ASSUME NEW k, \E i \in 1..Len(keys) : keys[i] = k
      PROVE  /\ account_index(message, k) \in Nat
             /\ account_index(message, k) < Len(metas)
             /\ metas[account_index(message, k) + 1].key = k
  <2>1. /\ account_index(message, k) \in Nat
        /\ account_index(message, k) < Len(keys)
        /\ keys[account_index(message, k) + 1] = k
    BY <1>2, <1>6, KeyIndexed, Zenon DEF keys
  <2>2. Len(keys) \in Nat
    BY <1>2
  <2>3. account_index(message, k) + 1 \in 1..Len(metas)
    BY <1>5, <2>1, <2>2
  <2> QED
    BY <1>5, <2>1, <2>3
<1> HIDE DEF metas
<1>7. ASSUME NEW c \in 1..Len(s) PROVE CompiledFrom(Compile(s[c]), s[c], metas)
  <2> DEFINE w == s[c]
             x == Indexed(w)
  <2>1. w \in Instruction
    BY <1>3
  <2>2. w.accounts \in Seq(AccountInfo) /\ w.data \in Datas
    BY <2>1 DEF Instruction
  <2>3. DOMAIN w.accounts = 1..Len(w.accounts) /\ Len(w.accounts) \in Nat
    BY <2>2, LenProperties
  <2>4. /\ account_index(message, w.program_id) \in Nat
        /\ account_index(message, w.program_id) < Len(metas)
        /\ metas[account_index(message, w.program_id) + 1].key = w.program_id
    BY <1>4, <1>6
  <2>5. \A j \in 1..Len(w.accounts) :
            /\ account_index(message, w.accounts[j].key) \in Nat
            /\ account_index(message, w.accounts[j].key) < Len(metas)
            /\ metas[account_index(message, w.accounts[j].key) + 1].key = w.accounts[j].key
    BY <1>4, <1>6
  <2>6. /\ x = [j \in 1..Len(w.accounts) |-> x[j]]
        /\ \A j \in 1..Len(w.accounts) : x[j] = account_index(message, w.accounts[j].key)
    BY <2>3
  <2> HIDE DEF w, x
  <2>7. x \in Seq(Nat) /\ Len(x) = Len(w.accounts)
    <3> DEFINE n == Len(w.accounts)
    <3>1. \A j \in 1..n : x[j] \in Nat
      BY <2>5, <2>6
    <3>2. n \in Nat /\ x = [j \in 1..n |-> x[j]]
      BY <2>3, <2>6, Zenon
    <3> HIDE DEF n
    <3>3. x \in Seq(Nat) /\ Len(x) = n
      BY <3>1, <3>2
    <3> QED
      BY <3>3 DEF n
  <2> DEFINE y == [program_id_index |-> account_index(message, w.program_id),
                   accounts_indices |-> x, data |-> w.data]
  <2>8. /\ y \in CompiledInstruction /\ y.accounts_indices = x /\ y.data = w.data
        /\ y.program_id_index = account_index(message, w.program_id)
    BY <2>2, <2>4, <2>7 DEF CompiledInstruction
  <2>9. Compile(s[c]) = y
    BY Zenon DEF w, x
  <2> HIDE DEF y
  <2>10. \A j \in 1..Len(w.accounts) :
            /\ x[j] \in Nat /\ x[j] < Len(metas)
            /\ metas[x[j] + 1].key = w.accounts[j].key
    BY <2>5, <2>6
  <2>11. CompiledFrom(y, w, metas)
    BY <2>4, <2>7, <2>8, <2>10, Zenon DEF CompiledFrom
  <2> QED
    BY <2>9, <2>11, Zenon DEF w
<1> HIDE DEF Compile
<1>8. \A c \in 1..Len(s) : compiled.instructions[c] = Compile(s[c])
  BY <1>1, <1>3
<1>9. \A c \in 1..Len(s) : CompiledFrom(compiled.instructions[c], s[c], metas)
  BY <1>7, <1>8
<1>10. compiled.instructions \in Seq(CompiledInstruction) /\ Len(compiled.instructions) = Len(s)
  <2> DEFINE z == compiled.instructions
  <2>1. \A c \in 1..Len(s) : z[c] \in CompiledInstruction
    BY <1>9, Zenon DEF CompiledFrom
  <2>2. z = [c \in 1..Len(s) |-> z[c]]
    BY <1>1, <1>3
  <2> HIDE DEF z
  <2>3. z \in Seq(CompiledInstruction) /\ Len(z) = Len(s)
    BY <1>3, <2>1, <2>2
  <2> QED
    BY <2>3 DEF z
<1> QED
  BY <1>5, <1>9, <1>10, Zenon DEF Faithful, metas, compiled, M

\* What a mention or a merge grants, field by field.
LEMMA MergedFields ==
    ASSUME NEW M, NEW k
    PROVE  /\ Merged(M, k).is_signer <=> \E n \in M : n.key = k /\ n.is_signer
           /\ Merged(M, k).is_writable <=> \E n \in M : n.key = k /\ n.is_writable
           /\ Merged(M, k).key = k
<1> DEFINE x == \E n \in M : n.key = k /\ n.is_signer
           y == \E n \in M : n.key = k /\ n.is_writable
<1>1. Merged(M, k) = Mention(k, x, y)
  BY Zenon DEF Merged
<1> HIDE DEF x, y
<1>2. /\ Mention(k, x, y).is_signer = x /\ Mention(k, x, y).is_writable = y
      /\ Mention(k, x, y).key = k
  BY DEF Mention
<1>3. Merged(M, k).is_signer = x /\ Merged(M, k).is_writable = y /\ Merged(M, k).key = k
  BY <1>1, <1>2
<1> QED
  BY <1>3 DEF x, y

\* What the runtime grants, field by field.
LEMMA GrantedFields ==
    ASSUME NEW M, NEW k \in Keys
    PROVE  /\ Granted(M, k).is_signer <=> \E n \in M : n.key = k /\ n.is_signer
           /\ Granted(M, k).is_writable <=>
                  k \notin RESERVED /\ \E n \in M : n.key = k /\ n.is_writable
           /\ Granted(M, k).key = k
           /\ Granted(M, k) \in AccountInfo
<1> DEFINE x == Merged(M, k).is_signer
           y == Merged(M, k).is_writable /\ k \notin RESERVED
<1>1. Granted(M, k) = Mention(k, x, y)
  BY Zenon DEF Granted
<1>2. x \in BOOLEAN /\ y \in BOOLEAN
  BY MetaOfType DEF AccountInfo
<1>3. /\ x <=> \E n \in M : n.key = k /\ n.is_signer
      /\ y <=> k \notin RESERVED /\ \E n \in M : n.key = k /\ n.is_writable
  BY MergedFields
<1> HIDE DEF x, y
<1>4. /\ Mention(k, x, y).is_signer = x /\ Mention(k, x, y).is_writable = y
      /\ Mention(k, x, y).key = k /\ Mention(k, x, y) \in AccountInfo
  BY <1>2 DEF Mention, AccountInfo
<1> QED
  BY <1>1, <1>3, <1>4

\* What the handler sees of a client's request: the accounts the SDK listed,
\* each with the privileges the whole transaction gives it.
Passed(r, asked, metas) ==
    /\ r.scheme = asked.scheme
    /\ r.accounts \in Seq(AccountInfo) /\ Len(r.accounts) = Len(metas)
    /\ \A i \in 1..Len(metas) :
         r.accounts[i] = Granted(ToSet(metas) \cup Outer(asked), metas[i].key)

\* What a client asks is typed.
LEMMA ClientType ==
    ASSUME NEW asked \in Clients
    PROVE  /\ asked.instructions \in Seq(Instruction)
           /\ asked.scheme \in SignerExecutionScheme /\ SIGNER \in Keys
           /\ PASSKEY_ACCOUNT \in Keys /\ EXECUTION_ACCOUNT \in Keys
<1>1. asked \in Client
  BY ClientsAssumption
<1> QED
  BY <1>1, ClientsAssumption DEF Client

\* The SDK compiles what a client asks faithfully.
LEMMA CompiledFaithful ==
    ASSUME NEW asked \in Clients
    PROVE  Faithful(Compiled(asked), asked.instructions, SIGNER)
  BY ClientType, CompileFaithful, Zenon DEF Compiled

\* The accounts it lists have keys.
LEMMA CompiledKeys ==
    ASSUME NEW asked \in Clients
    PROVE  \A i \in 1..Len(Compiled(asked).account_metas) :
               Compiled(asked).account_metas[i].key \in Keys
<1> DEFINE metas == Compiled(asked).account_metas
<1>1. metas \in Seq(AccountInfo)
  BY CompiledFaithful, Zenon DEF Faithful
<1> HIDE DEF metas
<1>2. \A i \in 1..Len(metas) : metas[i] \in AccountInfo
  BY <1>1, ElementOfSeq
<1>3. \A i \in 1..Len(metas) : metas[i].key \in Keys
  BY <1>2 DEF AccountInfo
<1> QED
  BY <1>3 DEF metas

(***************************************************************************)
(* A request made with the SDK is one the runtime can pass.                *)
(***************************************************************************)
LEMMA DeliveredPassed ==
    ASSUME NEW asked \in Clients
    PROVE  /\ Delivered(asked) \in PassedRequests
           /\ Passed(Delivered(asked), asked, Compiled(asked).account_metas)
           /\ Delivered(asked).instructions = Compiled(asked).instructions
<1> DEFINE metas == Compiled(asked).account_metas
           D == ToSet(metas) \cup Outer(asked)
           accounts == [i \in DOMAIN metas |-> Granted(D, metas[i].key)]
           pda == IF asked.scheme = "ExternalAccount" THEN PASSKEY_ACCOUNT
                  ELSE EXECUTION_ACCOUNT
           r == [accounts |-> accounts, execution_account |-> pda,
                 scheme |-> asked.scheme, instructions |-> Compiled(asked).instructions]
<1>1. Delivered(asked) = r
  BY Zenon DEF Delivered
<1>2. metas \in Seq(AccountInfo) /\ Compiled(asked).instructions \in Seq(CompiledInstruction)
  BY CompiledFaithful DEF Faithful
<1>3. pda \in Keys /\ asked.scheme \in SignerExecutionScheme
  BY ClientType
<1> HIDE DEF D, metas, pda
<1>4. /\ DOMAIN metas = 1..Len(metas) /\ Len(metas) \in Nat
      /\ \A i \in 1..Len(metas) : metas[i] \in AccountInfo
  BY <1>2, ElementOfSeq, LenProperties
<1>5. \A i \in 1..Len(metas) : metas[i].key \in Keys
  BY <1>4 DEF AccountInfo
<1>6. \A i \in 1..Len(metas) : Granted(D, metas[i].key) \in AccountInfo
                                /\ Granted(D, metas[i].key).key = metas[i].key
  <2> TAKE i \in 1..Len(metas)
  <2>1. metas[i].key \in Keys
    BY <1>5
  <2> QED
    BY <2>1, GrantedFields
<1>7. /\ accounts = [i \in 1..Len(metas) |-> accounts[i]]
      /\ \A i \in 1..Len(metas) : accounts[i] = Granted(D, metas[i].key)
  BY <1>4
<1> HIDE DEF accounts
<1>8. \A i \in 1..Len(metas) : accounts[i] \in AccountInfo /\ accounts[i].key = metas[i].key
  BY <1>6, <1>7
<1>9. accounts \in Seq(AccountInfo) /\ Len(accounts) = Len(metas) /\ DOMAIN accounts = 1..Len(metas)
  BY <1>4, <1>7, <1>8
<1>10. r \in Request
  BY <1>2, <1>3, <1>9 DEF Request
<1>11. /\ r.accounts = accounts /\ r.scheme = asked.scheme
       /\ r.instructions = Compiled(asked).instructions
  OBVIOUS
<1> HIDE DEF r
<1>12. \A i, j \in DOMAIN r.accounts :
          r.accounts[i].key = r.accounts[j].key => r.accounts[i] = r.accounts[j]
  <2> TAKE i, j \in DOMAIN r.accounts
  <2> HAVE r.accounts[i].key = r.accounts[j].key
  <2>1. i \in 1..Len(metas) /\ j \in 1..Len(metas) /\ accounts[i].key = accounts[j].key
    BY <1>9, <1>11
  <2>2. metas[i].key = metas[j].key
    BY <1>8, <2>1
  <2> QED
    BY <1>7, <1>11, <2>1, <2>2
<1>13. r \in PassedRequests
  BY <1>10, <1>12, Zenon DEF PassedRequests
<1>14. Passed(r, asked, metas)
  BY <1>7, <1>9, <1>11, Zenon DEF Passed, D
<1> QED
  BY <1>1, <1>11, <1>13, <1>14 DEF metas

-----------------------------------------------------------------------------
(***************************************************************************)
(* The SDK: its requests in the loop                                       *)
(***************************************************************************)

\* The loop's invariant, whose request is the one the SDK made if it was used;
\* and the loop has come to the end of the list when it is done.
SdkInv ==
    /\ LoopInv
    /\ \A asked \in client : asked \in Clients /\ request = Delivered(asked)
    /\ status = "done" => current = Len(request.instructions)

\* Both kinds of requests start so.
LEMMA SdkInit_Inv == SdkInit => SdkInv
<1>1. ASSUME NEW asked \in Clients, client = {asked}, LoopStart(Delivered(asked))
      PROVE  SdkInv
  <2>1. LoopInv
    BY <1>1, DeliveredPassed, LoopStart_Inv
  <2>2. request = Delivered(asked) /\ status # "done"
    BY <1>1 DEF LoopStart
  <2> QED
    BY <1>1, <2>1, <2>2 DEF SdkInv
<1>2. ASSUME client = {}, LoopInit PROVE SdkInv
  <2>1. status # "done"
    BY <1>2 DEF LoopInit, LoopStart
  <2> QED
    BY <1>2, <2>1, LoopInit_Inv DEF SdkInv
<1> QED
  BY <1>1, <1>2 DEF SdkInit

\* A step of the loop changes neither the request nor what was asked.
LEMMA SdkNext_Inv == SdkInv /\ [SdkNext]_sdkVars => SdkInv'
<1> SUFFICES ASSUME SdkInv, [SdkNext]_sdkVars PROVE SdkInv'
  OBVIOUS
<1>1. [LoopNext]_loopVars /\ UNCHANGED client
  BY DEF SdkNext, sdkVars
<1>2. LoopInv'
  BY <1>1, LoopNext_Inv DEF SdkInv
<1>3. UNCHANGED request
  BY <1>1 DEF LoopNext, loopVars, CollectAccount, Invoke, Abort, Return
<1>4. status' = "done" => current' = Len(request.instructions)
  <2>1. CASE UNCHANGED loopVars
    BY <2>1 DEF SdkInv, loopVars
  <2>2. CASE CollectAccount \/ Invoke
    BY <2>2 DEF CollectAccount, Invoke, Collecting, Collected, Looping
  <2>3. CASE Abort \/ Return
    BY <2>3 DEF Abort, Return
  <2> QED
    BY <1>1, <2>1, <2>2, <2>3 DEF LoopNext
<1>5. \A asked \in client' : asked \in Clients /\ request' = Delivered(asked)
  BY <1>1, <1>3, Zenon DEF SdkInv
<1> QED
  BY <1>2, <1>3, <1>4, <1>5 DEF SdkInv

(***************************************************************************)
(* The inductive invariant of the SDK and the loop together.               *)
(***************************************************************************)
THEOREM SdkInvariance == SdkSpec => []SdkInv
<1> QED
  BY SdkInit_Inv, SdkNext_Inv, PTL DEF SdkSpec

\* The meta of one account keeps its privileges, but for the wallet that signs
\* itself; and the executing PDA signs.
LEMMA MetaKept ==
    ASSUME NEW r \in PassedRequests, NEW i \in 1..Len(r.accounts)
    PROVE  LET meta == Metas(r)[i] IN
           /\ meta.key = r.accounts[i].key
           /\ r.accounts[i].is_signer \/ meta.key = r.execution_account => meta.is_signer
           /\ r.accounts[i].is_writable =>
                \/ meta.is_writable
                \/ meta.key = r.execution_account /\ r.scheme = "ExternalAccount"
<1>1. i \in DOMAIN r.accounts /\ r.scheme \in {"ExecutionAccount", "ExternalAccount"}
  BY RequestType DEF SignerExecutionScheme
<1>2. CASE r.accounts[i].key = r.execution_account
  <2>1. Metas(r)[i] = AccountMeta(r.accounts[i].key,
            r.scheme = "ExecutionAccount" /\ r.accounts[i].is_writable, TRUE)
    BY <1>1, <1>2 DEF Metas, create_instruction_execution_account_metas
  <2>2. /\ Metas(r)[i].key = r.accounts[i].key /\ Metas(r)[i].is_signer
        /\ Metas(r)[i].is_writable
              = (r.scheme = "ExecutionAccount" /\ r.accounts[i].is_writable)
    BY <2>1 DEF AccountMeta
  <2> QED
    BY <1>1, <1>2, <2>2
<1>3. CASE r.accounts[i].key # r.execution_account
  <2>1. Metas(r)[i] = AccountMeta(r.accounts[i].key, r.accounts[i].is_writable,
                                  r.accounts[i].is_signer)
    BY <1>1, <1>3 DEF Metas, create_instruction_execution_account_metas
  <2>2. /\ Metas(r)[i].key = r.accounts[i].key
        /\ Metas(r)[i].is_signer = r.accounts[i].is_signer
        /\ Metas(r)[i].is_writable = r.accounts[i].is_writable
    BY <2>1 DEF AccountMeta
  <2> QED
    BY <1>3, <2>2
<1> QED
  BY <1>2, <1>3

\* The account a meta of a CPI comes from: the one the SDK listed for the
\* account of the wanted instruction, with its privileges in the transaction.
Source(asked, metas, wanted, meta, i) ==
    /\ i \in 1..Len(metas) /\ i \in 1..Len(request.accounts)
    /\ meta = Metas(request)[i]
    /\ metas[i].key = wanted.key
    /\ request.accounts[i] = Granted(ToSet(metas) \cup Outer(asked), wanted.key)

\* A CPI is the instruction the client asked for, account by account.
LEMMA AskedMade ==
    ASSUME SdkInv, NEW asked \in client, NEW c \in DOMAIN invoked
    PROVE  LET wanted == asked.instructions[c]
               cpi == invoked[c]
               metas == Compiled(asked).account_metas
           IN  /\ c \in 1..Len(asked.instructions) /\ asked \in Clients
               /\ cpi.program_id = wanted.program_id /\ cpi.data = wanted.data
               /\ DOMAIN cpi.metas = DOMAIN wanted.accounts
               /\ \A j \in DOMAIN cpi.metas : \E i :
                    Source(asked, metas, wanted.accounts[j], cpi.metas[j], i)
<1> DEFINE wanted == asked.instructions[c]
           cpi == invoked[c]
           metas == Compiled(asked).account_metas
           made == request.instructions[c]
           D == ToSet(metas) \cup Outer(asked)
<1>1. /\ asked \in Clients /\ request = Delivered(asked)
      /\ request \in PassedRequests /\ current \in 0..Len(request.instructions) /\ InCpis
  BY DEF SdkInv, LoopInv
<1>2. c \in 1..current /\ Made(request, c, cpi)
  BY <1>1 DEF InCpis
<1>3. /\ Passed(request, asked, metas)
      /\ request.instructions = Compiled(asked).instructions
  BY <1>1, DeliveredPassed, Zenon
<1>4. Faithful(Compiled(asked), asked.instructions, SIGNER)
  BY <1>1, CompiledFaithful
<1>5. Len(request.instructions) = Len(asked.instructions) /\ Len(request.instructions) \in Nat
  BY <1>1, <1>3, <1>4, RequestType DEF Faithful
<1>6. c \in 1..Len(asked.instructions) /\ c \in 1..Len(request.instructions)
  BY <1>1, <1>2, <1>5
<1>7. CompiledFrom(made, wanted, metas)
  BY <1>3, <1>4, <1>6, Zenon DEF Faithful
<1>8. wanted.accounts \in Seq(AccountInfo)
  <2>1. asked.instructions \in Seq(Instruction)
    BY <1>1, ClientType
  <2>2. wanted \in Instruction
    BY <1>6, <2>1
  <2> QED
    BY <2>2 DEF Instruction
<1>9. metas \in Seq(AccountInfo)
  BY <1>4, Zenon DEF Faithful
<1> HIDE DEF wanted, metas, made, cpi
<1>10. /\ cpi.program_id = request.accounts[made.program_id_index + 1].key
       /\ cpi.data = made.data
       /\ cpi.metas = [j \in 1..Len(made.accounts_indices)
                            |-> Metas(request)[made.accounts_indices[j] + 1]]
  BY <1>2 DEF Made, Program, Indices, Resolved, made
<1>11. Len(metas) \in Nat /\ \A i \in 1..Len(metas) : metas[i].key \in Keys
  <2>1. Len(metas) \in Nat /\ \A i \in 1..Len(metas) : metas[i] \in AccountInfo
    BY <1>9, ElementOfSeq, LenProperties
  <2> QED
    BY <2>1 DEF AccountInfo
<1>12. \A i \in 1..Len(metas) : /\ i \in 1..Len(request.accounts)
                                /\ request.accounts[i] = Granted(D, metas[i].key)
                                /\ request.accounts[i].key = metas[i].key
  <2> TAKE i \in 1..Len(metas)
  <2>1. Len(request.accounts) = Len(metas) /\ request.accounts[i] = Granted(D, metas[i].key)
    BY <1>3 DEF Passed
  <2>2. metas[i].key \in Keys /\ SIGNER \in Keys
    BY <1>1, <1>11, ClientType
  <2>3. Granted(D, metas[i].key).key = metas[i].key
    BY <2>2, GrantedFields
  <2> QED
    BY <2>1, <2>3
<1>13. cpi.program_id = wanted.program_id
  <2>1. /\ made.program_id_index \in Nat /\ made.program_id_index < Len(metas)
        /\ metas[made.program_id_index + 1].key = wanted.program_id
    BY <1>7 DEF CompiledFrom, CompiledInstruction
  <2>2. made.program_id_index + 1 \in 1..Len(metas)
    BY <1>11, <2>1
  <2> QED
    BY <1>10, <1>12, <2>1, <2>2
<1>14. /\ cpi.data = wanted.data
       /\ Len(made.accounts_indices) = Len(wanted.accounts)
       /\ \A j \in 1..Len(wanted.accounts) :
             /\ made.accounts_indices[j] \in Nat
             /\ made.accounts_indices[j] < Len(metas)
             /\ metas[made.accounts_indices[j] + 1].key = wanted.accounts[j].key
  BY <1>7, <1>10 DEF CompiledFrom
<1>15. DOMAIN cpi.metas = 1..Len(wanted.accounts) /\ DOMAIN wanted.accounts = 1..Len(wanted.accounts)
  BY <1>8, <1>10, <1>14
<1>16. ASSUME NEW j \in DOMAIN cpi.metas
       PROVE  \E i : Source(asked, metas, wanted.accounts[j], cpi.metas[j], i)
  <2> DEFINE i == made.accounts_indices[j] + 1
  <2>1. j \in 1..Len(wanted.accounts) /\ j \in 1..Len(made.accounts_indices)
    BY <1>14, <1>15
  <2>2. i \in 1..Len(metas) /\ metas[i].key = wanted.accounts[j].key
    BY <1>11, <1>14, <2>1
  <2>3. cpi.metas[j] = Metas(request)[i]
    BY <1>10, <2>1
  <2> HIDE DEF i
  <2>4. /\ i \in 1..Len(request.accounts)
        /\ request.accounts[i] = Granted(D, wanted.accounts[j].key)
    BY <1>12, <2>2
  <2>5. Source(asked, metas, wanted.accounts[j], cpi.metas[j], i)
    BY <2>2, <2>3, <2>4, Zenon DEF Source
  <2> QED
    BY <2>5
<1>17. /\ cpi.program_id = wanted.program_id /\ cpi.data = wanted.data
       /\ DOMAIN cpi.metas = DOMAIN wanted.accounts
  BY <1>13, <1>14, <1>15, Zenon
<1> QED
  BY <1>1, <1>6, <1>16, <1>17, Zenon DEF wanted, metas, cpi

\* A privilege the wanted instruction asks for is one of the account's.
LEMMA WantedHeld ==
    ASSUME NEW asked \in Clients, NEW c \in 1..Len(asked.instructions),
           NEW j \in DOMAIN asked.instructions[c].accounts,
           NEW i \in 1..Len(Compiled(asked).account_metas),
           Compiled(asked).account_metas[i].key = asked.instructions[c].accounts[j].key
    PROVE  LET wanted == asked.instructions[c].accounts[j]
               given == Compiled(asked).account_metas[i]
           IN  /\ wanted.is_signer => given.is_signer
               /\ wanted.is_writable => given.is_writable
<1> DEFINE s == asked.instructions
           wanted == s[c].accounts[j]
           metas == Compiled(asked).account_metas
           given == metas[i]
           M == Mentions(s)
<1>1. Faithful(Compiled(asked), s, SIGNER)
  BY CompiledFaithful
<1>2. given = MetaOf(M, SIGNER, wanted.key)
  BY <1>1, Zenon DEF Faithful
<1>3. wanted \in M
  <2>1. s \in Seq(Instruction)
    BY ClientType
  <2>2. DOMAIN s = 1..Len(s)
    BY <2>1, LenProperties
  <2>3. wanted \in ToSet(s[c].accounts)
    BY DEF ToSet
  <2> QED
    BY <2>2, <2>3 DEF Mentions
<1> HIDE DEF wanted, given, M
<1>4. /\ wanted.is_signer => Merged(M, wanted.key).is_signer
      /\ wanted.is_writable => Merged(M, wanted.key).is_writable
  BY <1>3, MergedFields
<1>5. Mention(SIGNER, TRUE, TRUE).is_signer /\ Mention(SIGNER, TRUE, TRUE).is_writable
  BY DEF Mention
<1> QED
  BY <1>2, <1>4, <1>5 DEF MetaOf, wanted, given

\* The invariant gives the round trip.
LEMMA Inv_SdkRoundTrip == SdkInv => SdkRoundTrip
<1> SUFFICES ASSUME SdkInv, NEW asked \in client
             PROVE  /\ status = "done" => Len(invoked) = Len(asked.instructions)
                    /\ \A c \in DOMAIN invoked :
                        LET wanted == asked.instructions[c]
                            cpi == invoked[c]
                        IN  /\ cpi.program_id = wanted.program_id /\ cpi.data = wanted.data
                            /\ DOMAIN cpi.metas = DOMAIN wanted.accounts
                            /\ \A j \in DOMAIN cpi.metas :
                                LET meta == cpi.metas[j]
                                    executing == meta.key = request.execution_account
                                IN  /\ meta.key = wanted.accounts[j].key
                                    /\ wanted.accounts[j].is_signer \/ executing => meta.is_signer
                                    /\ wanted.accounts[j].is_writable =>
                                          \/ meta.is_writable
                                          \/ meta.key \in RESERVED
                                          \/ executing /\ asked.scheme = "ExternalAccount"
  BY DEF SdkRoundTrip
<1>1. /\ asked \in Clients /\ request = Delivered(asked) /\ request \in PassedRequests
      /\ Len(invoked) = current
  BY DEF SdkInv, LoopInv, InCpis
<1>2. /\ Passed(request, asked, Compiled(asked).account_metas)
      /\ request.instructions = Compiled(asked).instructions
  BY <1>1, DeliveredPassed, Zenon
<1>3. Len(request.instructions) = Len(asked.instructions)
  BY <1>1, <1>2, CompiledFaithful DEF Faithful
<1>4. status = "done" => Len(invoked) = Len(asked.instructions)
  BY <1>1, <1>3 DEF SdkInv
<1>5. ASSUME NEW c \in DOMAIN invoked
      PROVE  LET wanted == asked.instructions[c]
                 cpi == invoked[c]
                 metas == Compiled(asked).account_metas
             IN  /\ c \in 1..Len(asked.instructions)
                 /\ cpi.program_id = wanted.program_id /\ cpi.data = wanted.data
                 /\ DOMAIN cpi.metas = DOMAIN wanted.accounts
                 /\ \A j \in DOMAIN cpi.metas : \E i :
                      Source(asked, metas, wanted.accounts[j], cpi.metas[j], i)
  BY AskedMade, Zenon
<1>6. ASSUME NEW c \in DOMAIN invoked, NEW j \in DOMAIN invoked[c].metas
      PROVE  LET wanted == asked.instructions[c].accounts[j]
                 meta == invoked[c].metas[j]
                 executing == meta.key = request.execution_account
             IN  /\ meta.key = wanted.key
                 /\ wanted.is_signer \/ executing => meta.is_signer
                 /\ wanted.is_writable =>
                       \/ meta.is_writable
                       \/ meta.key \in RESERVED
                       \/ executing /\ asked.scheme = "ExternalAccount"
  <2> DEFINE wanted == asked.instructions[c].accounts[j]
             meta == invoked[c].metas[j]
             metas == Compiled(asked).account_metas
             D == ToSet(metas) \cup Outer(asked)
  <2>1. c \in 1..Len(asked.instructions) /\ j \in DOMAIN asked.instructions[c].accounts
    BY <1>5
  <2>2. PICK i : Source(asked, metas, wanted, meta, i)
    BY <1>5
  <2>3. /\ i \in 1..Len(metas) /\ i \in 1..Len(request.accounts)
        /\ meta = Metas(request)[i]
        /\ metas[i].key = wanted.key
        /\ request.accounts[i] = Granted(D, wanted.key)
    BY <2>2, Zenon DEF Source
  <2>4. /\ wanted.is_signer => metas[i].is_signer
        /\ wanted.is_writable => metas[i].is_writable
    BY <1>1, <2>1, <2>3, WantedHeld, Zenon
  <2>5. metas[i] \in ToSet(metas)
    <3>1. metas \in Seq(AccountInfo)
      BY <1>1, CompiledFaithful, Zenon DEF Faithful
    <3> HIDE DEF metas
    <3> QED
      BY <2>3, <3>1, LenProperties DEF ToSet
  <2>6. metas[i] \in D
    BY <2>5
  <2> HIDE DEF D, metas, wanted, meta
  <2>7. /\ metas[i].is_signer => Granted(D, wanted.key).is_signer
        /\ metas[i].is_writable =>
              Granted(D, wanted.key).is_writable \/ wanted.key \in RESERVED
        /\ Granted(D, wanted.key).key = wanted.key
    <3>1. wanted.key \in Keys
      BY <1>1, <2>3, CompiledKeys DEF metas
    <3> QED
      BY <2>3, <2>6, <3>1, GrantedFields
  <2>8. /\ meta.key = request.accounts[i].key
        /\ request.accounts[i].is_signer \/ meta.key = request.execution_account
              => meta.is_signer
        /\ request.accounts[i].is_writable =>
              \/ meta.is_writable
              \/ meta.key = request.execution_account /\ request.scheme = "ExternalAccount"
    BY <1>1, <2>3, MetaKept
  <2>9. request.scheme = asked.scheme
    BY <1>2 DEF Passed
  <2>10. /\ meta.key = wanted.key
         /\ wanted.is_signer \/ meta.key = request.execution_account => meta.is_signer
         /\ wanted.is_writable =>
               \/ meta.is_writable
               \/ meta.key \in RESERVED
               \/ meta.key = request.execution_account /\ asked.scheme = "ExternalAccount"
    BY <2>3, <2>4, <2>7, <2>8, <2>9
  <2> QED
    BY <2>10 DEF wanted, meta
<1> QED
  BY <1>4, <1>5, <1>6, Zenon

(***************************************************************************)
(* The CPIs are the instructions a client of the SDK wanted.               *)
(***************************************************************************)
THEOREM SdkRoundTripHolds == SdkSpec => []SdkRoundTrip
<1> QED
  BY SdkInvariance, Inv_SdkRoundTrip, PTL

\* What the transaction raises: the signer, the fee payer, the wallet's data.
LEMMA OuterRaises ==
    ASSUME NEW asked \in Clients, NEW n \in Outer(asked),
           n.key \notin {SIGNER, asked.fee_payer}
    PROVE  ~n.is_signer /\ (n.is_writable => n.key = PASSKEY_ACCOUNT)
<1>1. n \in ToSet(Leading(asked)) \/ n = Mention(asked.fee_payer, TRUE, TRUE)
  BY DEF Outer
<1>2. n # Mention(asked.fee_payer, TRUE, TRUE)
  BY DEF Mention
<1>3. CASE n \in ToSet(execute_instructions)
  <2>1. DOMAIN execute_instructions = {1, 2, 3, 4}
    BY DEF execute_instructions
  <2>2. PICK i \in {1, 2, 3, 4} : n = execute_instructions[i]
    BY <1>3, <2>1 DEF ToSet
  <2>3. \/ n = Mention(PASSKEY_ACCOUNT, FALSE, TRUE)
        \/ n = Mention(INSTRUCTIONS_SYSVAR, FALSE, FALSE)
        \/ n = Mention(SLOT_HASHES_ID, FALSE, FALSE)
        \/ n = Mention(SIGNER, TRUE, TRUE)
    <3> DEFINE m1 == Mention(PASSKEY_ACCOUNT, FALSE, TRUE)
               m2 == Mention(INSTRUCTIONS_SYSVAR, FALSE, FALSE)
               m3 == Mention(SLOT_HASHES_ID, FALSE, FALSE)
               m4 == Mention(SIGNER, TRUE, TRUE)
    <3>1. execute_instructions = <<m1, m2, m3, m4>>
      BY Zenon DEF execute_instructions
    <3> HIDE DEF m1, m2, m3, m4
    <3>2. n = m1 \/ n = m2 \/ n = m3 \/ n = m4
      BY <2>2, <3>1
    <3> QED
      BY <3>2 DEF m1, m2, m3, m4
  <2> QED
    BY <2>3 DEF Mention
<1>4. CASE n \in ToSet(execute_instructions_sessioned)
  <2>1. DOMAIN execute_instructions_sessioned = {1, 2}
    BY DEF execute_instructions_sessioned
  <2>2. PICK i \in {1, 2} : n = execute_instructions_sessioned[i]
    BY <1>4, <2>1 DEF ToSet
  <2>3. n = Mention(PASSKEY_ACCOUNT, FALSE, TRUE) \/ n = Mention(SIGNER, TRUE, FALSE)
    <3> DEFINE m1 == Mention(PASSKEY_ACCOUNT, FALSE, TRUE)
               m2 == Mention(SIGNER, TRUE, FALSE)
    <3>1. execute_instructions_sessioned = <<m1, m2>>
      BY Zenon DEF execute_instructions_sessioned
    <3> HIDE DEF m1, m2
    <3>2. n = m1 \/ n = m2
      BY <2>2, <3>1
    <3> QED
      BY <3>2 DEF m1, m2
  <2> QED
    BY <2>3 DEF Mention
<1> QED
  BY <1>1, <1>2, <1>3, <1>4 DEF Leading

\* The invariant leaves no privilege that nobody asked for.
LEMMA Inv_NothingAdded == SdkInv => NothingAdded
<1> SUFFICES ASSUME SdkInv, NEW asked \in client, NEW c \in DOMAIN invoked,
                    NEW j \in DOMAIN invoked[c].metas,
                    invoked[c].metas[j].key \notin {SIGNER, asked.fee_payer}
             PROVE  LET meta == invoked[c].metas[j]
                        wanted == Merged(Mentions(asked.instructions), meta.key)
                    IN  /\ meta.is_signer =>
                              wanted.is_signer \/ meta.key = request.execution_account
                        /\ meta.is_writable =>
                              wanted.is_writable \/ meta.key = PASSKEY_ACCOUNT
  BY Zenon DEF NothingAdded
<1> DEFINE meta == invoked[c].metas[j]
           k == meta.key
           metas == Compiled(asked).account_metas
           M == Mentions(asked.instructions)
           D == ToSet(metas) \cup Outer(asked)
<1>1. asked \in Clients /\ request \in PassedRequests
  BY DEF SdkInv, LoopInv
<1>2. PICK i : Source(asked, metas, asked.instructions[c].accounts[j], meta, i)
  BY AskedMade, Zenon
<1>3. /\ i \in 1..Len(metas) /\ i \in 1..Len(request.accounts)
      /\ meta = Metas(request)[i]
      /\ metas[i].key = asked.instructions[c].accounts[j].key
      /\ request.accounts[i] = Granted(D, asked.instructions[c].accounts[j].key)
  BY <1>2, Zenon DEF Source
<1>4. Faithful(Compiled(asked), asked.instructions, SIGNER)
  BY <1>1, CompiledFaithful
<1>5. /\ metas \in Seq(AccountInfo)
      /\ \A x \in 1..Len(metas) : metas[x] = MetaOf(M, SIGNER, metas[x].key)
  BY <1>4, Zenon DEF Faithful
<1> HIDE DEF D, metas, M, meta
<1>6. /\ request.accounts[i].key = k
      /\ meta.is_writable => request.accounts[i].is_writable
      /\ meta.is_signer => request.accounts[i].is_signer \/ k = request.execution_account
  BY <1>1, <1>3, MetaPrivileges
<1>7. request.accounts[i] = Granted(D, k) /\ k \in Keys
  <2>1. asked.instructions[c].accounts[j].key \in Keys
    BY <1>1, <1>3, CompiledKeys DEF metas
  <2>2. Granted(D, asked.instructions[c].accounts[j].key).key
            = asked.instructions[c].accounts[j].key
    BY <2>1, GrantedFields
  <2> QED
    BY <1>3, <1>6, <2>1, <2>2
<1>8. ASSUME NEW n \in ToSet(metas), n.key = k PROVE n = Merged(M, k)
  <2>1. PICK x \in 1..Len(metas) : n = metas[x]
    BY <1>5, LenProperties DEF ToSet
  <2>2. n = MetaOf(M, SIGNER, k)
    BY <1>5, <1>8, <2>1
  <2>3. k # SIGNER
    BY DEF meta
  <2> QED
    BY <2>2, <2>3 DEF MetaOf
<1>9. ASSUME NEW n \in Outer(asked), n.key = k
      PROVE  ~n.is_signer /\ (n.is_writable => k = PASSKEY_ACCOUNT)
  <2>1. n.key \notin {SIGNER, asked.fee_payer}
    BY <1>9 DEF meta
  <2> QED
    BY <1>1, <1>9, <2>1, OuterRaises
<1>10. \A n \in D : n \in ToSet(metas) \/ n \in Outer(asked)
  BY DEF D
<1>11. /\ request.accounts[i].is_signer => Merged(M, k).is_signer
       /\ request.accounts[i].is_writable => Merged(M, k).is_writable \/ k = PASSKEY_ACCOUNT
  <2>1. /\ Granted(D, k).is_signer => \E n \in D : n.key = k /\ n.is_signer
        /\ Granted(D, k).is_writable => \E n \in D : n.key = k /\ n.is_writable
    BY <1>7, GrantedFields
  <2>2. Granted(D, k).is_signer => Merged(M, k).is_signer
    BY <1>8, <1>9, <1>10, <2>1, Zenon
  <2>3. Granted(D, k).is_writable => Merged(M, k).is_writable \/ k = PASSKEY_ACCOUNT
    BY <1>8, <1>9, <1>10, <2>1, Zenon
  <2> QED
    BY <1>7, <2>2, <2>3
<1> QED
  BY <1>6, <1>11 DEF meta, M

(***************************************************************************)
(* Nothing is added to what a client of the SDK wanted.                    *)
(***************************************************************************)
THEOREM NothingAddedHolds == SdkSpec => []NothingAdded
<1> QED
  BY SdkInvariance, Inv_NothingAdded, PTL

\* The invariant keeps the SDK's indices in bounds.
LEMMA Inv_NeverPanic == SdkInv => SdkListsNeverPanic
<1> SUFFICES ASSUME SdkInv, NEW asked \in client, Looping,
                    Len(request.accounts) <= MAX_INFOS,
                    \A i \in DOMAIN asked.instructions :
                        asked.instructions[i].program_id # PROGRAM_ID
             PROVE  /\ instruction.program_id_index < Len(request.accounts)
                    /\ request.accounts[instruction.program_id_index + 1].key # PROGRAM_ID
                    /\ Collecting => in_bounds(index)
  BY DEF SdkListsNeverPanic
<1> DEFINE s == asked.instructions
           metas == Compiled(asked).account_metas
           c == current + 1
           wanted == s[c]
<1>1. /\ asked \in Clients /\ request = Delivered(asked) /\ request \in PassedRequests
      /\ current \in 0..Len(request.instructions) /\ InContainers
  BY DEF SdkInv, LoopInv
<1>2. /\ Passed(request, asked, metas)
      /\ request.instructions = Compiled(asked).instructions
  BY <1>1, DeliveredPassed, Zenon
<1>3. Faithful(Compiled(asked), s, SIGNER)
  BY <1>1, CompiledFaithful
<1>4. /\ Len(request.instructions) = Len(s) /\ Len(s) \in Nat /\ DOMAIN s = 1..Len(s)
      /\ s \in Seq(Instruction)
  BY <1>1, <1>2, <1>3, ClientType, LenProperties DEF Faithful
<1>5. c \in 1..Len(s)
  BY <1>1, <1>4 DEF Looping
<1>6. CompiledFrom(instruction, wanted, metas)
  BY <1>2, <1>3, <1>5, Zenon DEF Faithful, instruction
<1>7. wanted.program_id # PROGRAM_ID
  BY <1>4, <1>5
<1>8. Len(metas) = Len(request.accounts) /\ Len(metas) \in Nat /\ metas \in Seq(AccountInfo)
  BY <1>2, <1>3 DEF Passed, Faithful
<1> HIDE DEF metas, wanted
<1>9. /\ instruction.program_id_index \in Nat
      /\ instruction.program_id_index < Len(metas)
      /\ metas[instruction.program_id_index + 1].key = wanted.program_id
  BY <1>6 DEF CompiledFrom, CompiledInstruction
<1>10. instruction.program_id_index + 1 \in 1..Len(metas)
  BY <1>8, <1>9
<1>11. request.accounts[instruction.program_id_index + 1].key = wanted.program_id
  <2>1. metas[instruction.program_id_index + 1].key \in Keys
    BY <1>1, <1>10, CompiledKeys DEF metas
  <2> QED
    BY <1>2, <1>9, <1>10, <2>1, GrantedFields DEF Passed
<1>12. ASSUME Collecting PROVE in_bounds(index)
  <2>1. /\ instruction.accounts_indices \in Seq(Nat)
        /\ Len(instruction.accounts_indices) = Len(wanted.accounts)
        /\ \A j \in 1..Len(wanted.accounts) :
              /\ instruction.accounts_indices[j] \in Nat
              /\ instruction.accounts_indices[j] < Len(metas)
    BY <1>6 DEF CompiledFrom, CompiledInstruction
  <2>2. position \in 0..Len(instruction.accounts_indices)
    BY <1>1 DEF Looping, InContainers, Containers, Indices, instruction
  <2>3. position + 1 \in 1..Len(wanted.accounts)
    BY <1>12, <2>1, <2>2 DEF Collecting
  <2>4. index \in Nat /\ index < Len(metas)
    BY <2>1, <2>3 DEF index
  <2>5. MAX_INFOS \in Nat
    BY RequestAssumption
  <2> QED
    BY <1>8, <2>4, <2>5 DEF in_bounds
<1> QED
  BY <1>7, <1>8, <1>9, <1>11, <1>12

(***************************************************************************)
(* A list the SDK made never runs into a panic of the loop.                *)
(***************************************************************************)
THEOREM SdkListsNeverPanicHolds == SdkSpec => []SdkListsNeverPanic
<1> QED
  BY SdkInvariance, Inv_NeverPanic, PTL

\* The invariant makes the two hashed values equal when nothing is changed.
LEMMA Inv_Challenge == SdkInv => ChallengeMatchesUnlessChanged
<1> SUFFICES ASSUME SdkInv, NEW asked \in client,
                    \A meta \in ToSet(Compiled(asked).account_metas) :
                        /\ meta.is_writable => meta.key \notin RESERVED
                        /\ \A n \in Outer(asked) : n.key = meta.key =>
                              /\ n.is_signer => meta.is_signer
                              /\ n.is_writable => meta.is_writable
             PROVE  createExecuteInstructionsChallenge(asked) = instruction_payload
  BY Zenon DEF ChallengeMatchesUnlessChanged, ChallengeMatches
<1> DEFINE metas == Compiled(asked).account_metas
           M == Mentions(asked.instructions)
           D == ToSet(metas) \cup Outer(asked)
<1>1. asked \in Clients /\ request = Delivered(asked)
  BY DEF SdkInv
<1>2. /\ Passed(request, asked, metas)
      /\ request.instructions = Compiled(asked).instructions
  BY <1>1, DeliveredPassed, Zenon
<1>3. /\ metas \in Seq(AccountInfo)
      /\ \A i \in 1..Len(metas) : metas[i] = MetaOf(M, SIGNER, metas[i].key)
  BY <1>1, CompiledFaithful, Zenon DEF Faithful
<1>4. /\ request.accounts \in Seq(AccountInfo) /\ Len(request.accounts) = Len(metas)
      /\ \A i \in 1..Len(metas) : request.accounts[i] = Granted(D, metas[i].key)
  BY <1>2, Zenon DEF Passed
<1>5. \A meta \in ToSet(metas) :
        /\ meta.is_writable => meta.key \notin RESERVED
        /\ \A n \in Outer(asked) : n.key = meta.key =>
              /\ n.is_signer => meta.is_signer
              /\ n.is_writable => meta.is_writable
  OBVIOUS
<1>6. \A n \in D : n \in ToSet(metas) \/ n \in Outer(asked)
  OBVIOUS
<1>7. \A n \in ToSet(metas) : n \in D
  OBVIOUS
<1> HIDE DEF metas, M, D
<1>8. DOMAIN metas = 1..Len(metas) /\ Len(metas) \in Nat /\ \A i \in 1..Len(metas) : metas[i] \in AccountInfo
  BY <1>3, ElementOfSeq, LenProperties
<1>9. ASSUME NEW i \in 1..Len(metas) PROVE request.accounts[i] = metas[i]
  <2> DEFINE k == metas[i].key
             given == metas[i]
  <2>1. given \in ToSet(metas)
    BY <1>8 DEF ToSet
  <2>2. ASSUME NEW n \in ToSet(metas), n.key = k PROVE n = given
    <3>1. PICK x \in 1..Len(metas) : n = metas[x]
      BY <1>8 DEF ToSet
    <3> QED
      BY <1>3, <2>2, <3>1
  <2> HIDE DEF k, given
  <2>3. k = given.key /\ given \in AccountInfo /\ k \in Keys
    <3>1. given \in AccountInfo
      BY <1>8 DEF given
    <3> QED
      BY <3>1 DEF k, given, AccountInfo
  <2>4. /\ Granted(D, k).is_signer <=> \E n \in D : n.key = k /\ n.is_signer
        /\ Granted(D, k).is_writable <=>
              k \notin RESERVED /\ \E n \in D : n.key = k /\ n.is_writable
        /\ Granted(D, k).key = k /\ Granted(D, k) \in AccountInfo
    BY <2>3, GrantedFields
  <2>5. Granted(D, k).is_signer <=> given.is_signer
    BY <1>5, <1>6, <1>7, <2>1, <2>2, <2>3, <2>4, Zenon
  <2>6. Granted(D, k).is_writable <=> given.is_writable
    BY <1>5, <1>6, <1>7, <2>1, <2>2, <2>3, <2>4, Zenon
  <2>7. Granted(D, k) = given
    BY <2>3, <2>4, <2>5, <2>6 DEF AccountInfo
  <2> QED
    BY <1>4, <2>7 DEF k, given
<1>10. request.accounts = metas
  BY <1>3, <1>4, <1>9
<1> QED
  BY <1>2, <1>10, Zenon DEF createExecuteInstructionsChallenge, instruction_payload, metas

(***************************************************************************)
(* The challenge of the SDK is the hash the program computes, when the     *)
(* transaction raises no privilege of a compiled account and no reserved   *)
(* account is wanted writable.                                             *)
(***************************************************************************)
THEOREM ChallengeMatchesHolds == SdkSpec => []ChallengeMatchesUnlessChanged
<1> QED
  BY SdkInvariance, Inv_Challenge, PTL

(***************************************************************************)
(* What holds of the loop holds of it together with the SDK: the CPIs are  *)
(* the approved ones, with their infos and without new privileges.         *)
(***************************************************************************)
THEOREM SdkCarriesOut ==
    SdkSpec => CarriesOutApproved /\ []InfosMatchMetas /\ []PrivilegesHeld
<1>1. SdkInit => Approved!ExecutionInit
  BY DEF SdkInit, LoopInit, LoopStart, Approved!ExecutionInit
<1>2. SdkInv /\ [SdkNext]_sdkVars => [Approved!ExecutionNext]_(Approved!executionVars)
  <2>1. [SdkNext]_sdkVars => [LoopNext]_loopVars
    BY DEF SdkNext, sdkVars
  <2>2. SdkInv => LoopInv
    BY DEF SdkInv
  <2> QED
    BY <2>1, <2>2, LoopNext_Approved
<1>3. SdkInv => InfosMatchMetas /\ PrivilegesHeld
  BY Inv_Infos, Inv_Privileges DEF SdkInv
<1> QED
  BY <1>1, <1>2, <1>3, SdkInvariance, PTL
     DEF SdkSpec, CarriesOutApproved, Approved!ExecutionSpec
=============================================================================
