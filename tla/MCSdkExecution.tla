--------------------------- MODULE MCSdkExecution ---------------------------
(***************************************************************************)
(* Up to two wanted instructions with up to two accounts each: the wallet, *)
(* its execution account, the nonce or session signer, another key and a   *)
(* sysvar (nobody can write it, but a caller can ask), in the privileges a *)
(* caller can ask for; paid by the signer or by a third key that may also  *)
(* be one of the accounts.                                                 *)
(*                                                                         *)
(* Without the SDK, requests of up to three account infos over three keys  *)
(* (the wallet, the program itself, another account) and up to two         *)
(* instructions of up to three indices, which may repeat or lie beyond the *)
(* accounts; and one of more accounts than seen_indices has flags.         *)
(***************************************************************************)
EXTENDS SdkExecution

Wantable ==
    {Mention("wallet", FALSE, w) : w \in BOOLEAN}
        \cup {Mention("execution", FALSE, TRUE), Mention("signer", FALSE, FALSE)}
        \cup {Mention("other", TRUE, FALSE), Mention("other", FALSE, TRUE),
               Mention("instructions", FALSE, TRUE)}

MCInstructions ==
    [program_id : {"called"}, accounts : SeqOf(Wantable, 2), data : Datas]

MCClients ==
    [sessioned : BOOLEAN, scheme : SignerExecutionScheme, fee_payer : {"signer", "other"},
     instructions : SeqOf(MCInstructions, 2)]

Infos ==
    {Mention("wallet", FALSE, w) : w \in BOOLEAN}
        \cup {Mention("other", s, FALSE) : s \in BOOLEAN}
        \cup {Mention("program", FALSE, FALSE)}

MCAccounts ==
    {a \in SeqOf(Infos, 3) :
        \A i, j \in DOMAIN a : a[i].key = a[j].key => a[i] = a[j]}

MCCompiled(indices) ==
    [program_id_index : {1, 3}, accounts_indices : indices, data : Datas]

MCRequest(accounts, indices) ==
    [accounts : accounts, execution_account : {"wallet"},
     scheme : SignerExecutionScheme, instructions : SeqOf(MCCompiled(indices), 2)]

ManyAccounts == [i \in 1..(MAX_INFOS + 1) |-> Mention("other", FALSE, FALSE)]

MCRequests ==
    MCRequest(MCAccounts, SeqOf(0..2, 2) \cup {<<1, 0, 1>>})
        \cup MCRequest({ManyAccounts}, SeqOf((MAX_INFOS - 1)..(MAX_INFOS + 1), 2))
=============================================================================
