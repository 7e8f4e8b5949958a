------------------------------- MODULE MCWire -------------------------------
(***************************************************************************)
(* Executions of up to two instructions with up to BASE bytes of data and  *)
(* up to MAX_LISTED listed accounts, ones just short enough and ones too   *)
(* long for a SmallVec, and initialisations and refreshes with session     *)
(* keys.                                                                   *)
(*                                                                         *)
(* Key 1 is the signer, key 5 another account; either pays the fee.  The   *)
(* listed accounts are such as keep their privileges in any transaction,   *)
(* gain some (the wallet read-only, a fee payer), or lose one (a sysvar    *)
(* that is wanted writable).                                               *)
(***************************************************************************)
EXTENDS Wire

Instr(program, indices, bytes) ==
    [program_id_index |-> program, accounts_indices |-> indices, data |-> bytes]
Zeros(n) == [i \in 1..n |-> 0]

Singles ==
    {Instr(p, a, d) : p \in {0, 2}, a \in {<<>>, <<1>>, <<1, 0>>},
                      d \in {<<>>, Zeros(2), Zeros(BASE)}}
Lists ==
    {<<>>} \cup {<<i>> : i \in Singles}
        \cup {<<i, Instr(0, <<>>, <<>>)>> : i \in {j \in Singles : j.program_id_index = 2}}
TooLarge ==
    {<<Instr(0, Zeros(BASE), <<>>)>>, <<Instr(0, <<>>, Zeros(BASE * BASE))>>,
     [i \in 1..BASE |-> Instr(0, <<>>, <<>>)]}

\* The longest vectors that fit.
Largest ==
    {<<Instr(0, Zeros(BASE - 1), <<>>)>>, <<Instr(0, <<>>, Zeros(BASE * BASE - 1))>>,
     [i \in 1..(BASE - 1) |-> Instr(0, <<>>, <<>>)]}

Account(k, s, w) == [key |-> k, is_signer |-> s, is_writable |-> w]
Raisable == {<<Account(0, 0, 0)>>, <<Account(5, 0, 0)>>, <<Account(5, 0, 1)>>, <<Account(2, 0, 1)>>}
Kept == {<<>>, <<Account(0, 0, 1)>>, <<Account(1, 1, 1)>>}
Full == {[i \in 1..MAX_LISTED |-> Account(IF i = 1 THEN 5 ELSE 0, 0, 1)]}

FeePayer(k) == Account(k, 1, 1)
MCElsewhere == {{FeePayer(1)}, {FeePayer(5)}, {FeePayer(1), Account(5, 0, 1)}}

Session(k, e) == {[key |-> k, expiration |-> e]}
Sessions == {Session(k, e) : k \in {0, 1}, e \in {0, 1, BASE}}

\* Accounts and instructions with the same bytes, but for the count of accounts.
Alike ==
    {Operation(EXECUTE, 1, 5, {}, <<Account(1, 0, 0), Account(2, 0, 0)>>, <<>>),
     Operation(EXECUTE, 1, 5, {}, <<>>, <<Instr(0, <<>>, Zeros(2))>>)}

MCOperations ==
    {Operation(EXECUTE, 1, 1, {}, l, i) : l \in Kept, i \in Lists}
        \cup {Operation(EXECUTE, 1, 1, {}, l, i) :
                  l \in Raisable \cup Full, i \in {<<>>, <<Instr(2, <<1>>, Zeros(2))>>}}
        \cup Alike
        \cup {Operation(EXECUTE, 1, 1, {}, <<>>, i) : i \in Largest \cup TooLarge}
        \cup {Operation(SESSIONED, 0, 1, {}, <<>>, i) : i \in Lists}
        \cup {Operation(REFRESH, s, 1, k, <<>>, <<>>) : s \in {1, 2}, k \in Sessions}
        \cup {Operation(INITIALIZE, 1, 1, k, <<>>, <<>>) : k \in Sessions \cup {{}}}
=============================================================================
