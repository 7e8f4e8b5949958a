---------------------------- MODULE WalletProofs ----------------------------
(***************************************************************************)
(* What the history of successful instructions can look like, for any      *)
(* number of passkeys, Solana keys, instruction lists, transactions and    *)
(* failures: approvals, counters, session keys and the identity of         *)
(* accounts; and that ExternalSignature implements Wallet and locks nobody *)
(* out.                                                                    *)
(*                                                                         *)
(* To the invariant of the history, the second part adds that the running  *)
(* transaction only ever appends to the committed log, and that the        *)
(* counters in the accounts never run ahead of the authenticators'.        *)
(***************************************************************************)
EXTENDS ExternalSignatureProofs

-----------------------------------------------------------------------------
(* The invariant, for a set of accounts and the effects that led to it      *)

\* ApprovedByPasskey of any history.
Approved(effs) ==
    \A i \in DOMAIN effs :
        effs[i].tag # "execute_instructions_sessioned" =>
          /\ effs[i].signed
          /\ \E a \in assertions :
               /\ effs[i].by = {a}
               /\ a.user_present
               /\ effs[i].account = derive_account(a.public_key)
               /\ \E h \in produced :
                    /\ h <= effs[i].head /\ effs[i].head - h < WINDOW
                    /\ a.client_data.challenge =
                         Payload(effs[i].tag, BankHash(h), effs[i].signer,
                                 effs[i].session_key, effs[i].instructions)

\* Every assertion used on an account is its passkey's, and the stored
\* counter has caught up with it.
CountersCaughtUp(accts, effs) ==
    \A i \in DOMAIN effs : \A s \in effs[i].by :
        /\ s.counter \in Nat
        /\ effs[i].account = derive_account(s.public_key)
        /\ s.counter <= accts[effs[i].account].counter

\* The stored counter comes from one of them.
CounterUsed(accts, effs) ==
    \A a \in Addresses :
        accts[a].counter # 0 =>
            \E i \in DOMAIN effs : /\ effs[i].account = a
                                   /\ \E s \in effs[i].by :
                                        s.counter = accts[a].counter

CountersOrdered(effs) ==
    \A i, j \in DOMAIN effs :
        i < j => \A a \in effs[i].by, b \in effs[j].by :
                    /\ a.public_key = b.public_key
                    /\ a.counter # 0 /\ b.counter # 0
                    => a.counter < b.counter

\* The effect j is the latest installation of a session key on the account
\* before position n, and stored the given key.
InstalledBy(effs, j, n, account, session_key) ==
    /\ Installs(effs[j], account)
    /\ \A k \in (j + 1)..n : ~Installs(effs[k], account)
    /\ session_key = [key |-> effs[j].session_key.key,
                      expiration |-> StoredExpiration(effs[j])]
    /\ session_key.expiration <= effs[j].time + SESSION_KEY_EXPIRATION_LIMIT

SessionsInstalled(accts, effs) ==
    \A a \in Addresses :
        accts[a].session_key # ZeroSessionKey =>
            \E j \in DOMAIN effs :
                InstalledBy(effs, j, Len(effs), a, accts[a].session_key)

SessionsAuthorised(effs) ==
    \A i \in DOMAIN effs :
        effs[i].tag = "execute_instructions_sessioned" =>
          /\ effs[i].signed
          /\ \E j \in 1..(i - 1) :
               /\ Installs(effs[j], effs[i].account)
               /\ \A k \in (j + 1)..(i - 1) : ~Installs(effs[k], effs[i].account)
               /\ effs[j].session_key.key = effs[i].signer
               /\ effs[i].time <= StoredExpiration(effs[j])
               /\ effs[i].time <= effs[j].time + SESSION_KEY_EXPIRATION_LIMIT

Creates(e, account) == e.tag = "initialize_passkey" /\ e.account = account

\* An account is initialized by exactly one effect.
CreatedOnce(accts, effs) ==
    /\ \A a \in Addresses :
         accts[a].version = 1 <=> \E j \in DOMAIN effs : Creates(effs[j], a)
    /\ \A i, j \in DOMAIN effs :
         \A a \in Addresses :
            Creates(effs[i], a) /\ Creates(effs[j], a) => i = j

\* Its effects come after that one and sign for its own wallet.
OwnAccounts(effs) ==
    \A i \in DOMAIN effs :
        /\ effs[i].executing \in {effs[i].account,
                                  execution_address(effs[i].account)}
        /\ \E j \in 1..i : Creates(effs[j], effs[i].account)

History(accts, effs) ==
    /\ Approved(effs)
    /\ CountersCaughtUp(accts, effs)
    /\ CounterUsed(accts, effs)
    /\ CountersOrdered(effs)
    /\ SessionsInstalled(accts, effs)
    /\ SessionsAuthorised(effs)
    /\ CreatedOnce(accts, effs)
    /\ OwnAccounts(effs)

\* The running transaction only ever moves committed accounts forward.
Forward(old, new) ==
    \A a \in Addresses :
        old[a].version = 1 =>
            /\ new[a].version = 1
            /\ new[a].public_key = old[a].public_key
            /\ new[a].rp_id = old[a].rp_id
            /\ new[a].counter >= old[a].counter

HistoryInv ==
    /\ CoreInv
    /\ History(accounts, effects)
    /\ History(committed.accounts, committed.effects)
    /\ Forward(committed.accounts, accounts)

-----------------------------------------------------------------------------
(* A successful instruction                                                *)

LEMMA EffectTypes ==
    ASSUME NEW effs \in Seq(EffectRecord), NEW i \in DOMAIN effs
    PROVE  /\ effs[i] \in EffectRecord
           /\ effs[i].account \in Addresses
           /\ effs[i].by \in SUBSET Assertion
           /\ effs[i].time \in Nat
<1>1. effs[i] \in EffectRecord
    OBVIOUS
<1> QED
    BY <1>1 DEF EffectRecord

\* The shape of the history after one more effect.
LEMMA Appended ==
    ASSUME CoreInv, NEW account, NEW e, Outcome(account, e)
    PROVE  /\ Len(effects) \in Nat
           /\ DOMAIN effects = 1..Len(effects)
           /\ Len(effects') = Len(effects) + 1
           /\ DOMAIN effects' = 1..(Len(effects) + 1)
           /\ \A i \in 1..Len(effects) : effects'[i] = effects[i]
           /\ effects'[Len(effects) + 1] = e
<1>1. effects \in Seq(EffectRecord) /\ e \in EffectRecord
      /\ effects' = Append(effects, e)
    BY DEF CoreInv, TypeOK, Outcome
<1> QED
    BY <1>1

\* The accounts the instruction does not act on keep everything but, at most,
\* their owner.
LEMMA Untouched ==
    ASSUME NEW account, NEW e, Outcome(account, e),
           NEW a \in Addresses, a # account
    PROVE  /\ accounts'[a].version = accounts[a].version
           /\ accounts'[a].public_key = accounts[a].public_key
           /\ accounts'[a].rp_id = accounts[a].rp_id
           /\ accounts'[a].session_key = accounts[a].session_key
           /\ accounts'[a].counter = accounts[a].counter
BY DEF Outcome

\* A fresh account starts from nothing.
LEMMA FreshAccount ==
    ASSUME CoreInv, NEW account \in Addresses, accounts[account].owner = "system"
    PROVE  /\ accounts[account].version = 0
           /\ accounts[account].counter = 0
           /\ accounts[account].session_key = ZeroSessionKey
<1>1. accounts[account] \in AccountData
    BY DEF CoreInv, TypeOK
<1>2. accounts[account].version \in 0..1
    BY <1>1, AccountFields
<1>3. accounts[account].version # 1
    BY DEF CoreInv, AccountsOK, Identified
<1>4. accounts[account].version = 0
    BY <1>2, <1>3
<1> QED
    BY <1>4 DEF CoreInv, AccountsOK, Blank

\* Whatever the handler, the new effect is approved by a passkey, whose
\* counter moves the account forward, or is sessioned and uses no assertion.
LEMMA OutcomeApproval ==
    ASSUME CoreInv, NEW account \in Addresses, NEW e, Outcome(account, e)
    PROVE  \/ /\ e.tag # "execute_instructions_sessioned"
              /\ Approval(e, accounts[account].counter,
                          accounts'[account].counter)
           \/ /\ e.tag = "execute_instructions_sessioned"
              /\ e.by = {}
              /\ accounts'[account].counter = accounts[account].counter
<1>1. CASE Initialized(e, accounts[account], accounts'[account])
  <2>1. accounts[account].counter = 0
      BY <1>1, FreshAccount DEF Initialized
  <2> QED
      BY <1>1, <2>1 DEF Initialized
<1>2. CASE Executed(e, accounts[account], accounts'[account])
    BY <1>2 DEF Executed
<1>3. CASE Refreshed(e, accounts[account], accounts'[account])
    BY <1>3 DEF Refreshed
<1>4. CASE ExecutedSessioned(e, accounts[account], accounts'[account])
    BY <1>4 DEF ExecutedSessioned
<1> QED
    BY <1>1, <1>2, <1>3, <1>4 DEF Outcome

LEMMA CounterTypes ==
    ASSUME CoreInv, NEW account \in Addresses, NEW e, Outcome(account, e)
    PROVE  accounts[account].counter \in Nat /\ accounts'[account].counter \in Nat
<1>1. accounts[account] \in AccountData /\ accounts'[account] \in AccountData
    BY DEF CoreInv, TypeOK, Outcome
<1> QED
    BY <1>1, AccountFields

\* The stored counter never goes back.
LEMMA CounterForward ==
    ASSUME CoreInv, NEW account \in Addresses, NEW e, Outcome(account, e)
    PROVE  accounts'[account].counter >= accounts[account].counter
<1>1. CASE Approval(e, accounts[account].counter, accounts'[account].counter)
  <2>1. PICK a \in assertions :
          /\ a.counter # 0 => a.counter > accounts[account].counter
          /\ accounts'[account].counter =
               IF a.counter # 0 THEN a.counter ELSE accounts[account].counter
      BY <1>1 DEF Approval
  <2>2. a.counter \in Nat
      BY DEF CoreInv, TypeOK, Assertion
  <2> QED
      BY <2>1, <2>2, CounterTypes
<1>2. CASE accounts'[account].counter = accounts[account].counter
    BY <1>2, CounterTypes
<1> QED
    BY <1>1, <1>2, OutcomeApproval

LEMMA ApprovedOutcome ==
    ASSUME CoreInv, Approved(effects), NEW account \in Addresses, NEW e,
           Outcome(account, e)
    PROVE  Approved(effects)'
<1> SUFFICES ASSUME NEW i \in DOMAIN effects',
                    effects'[i].tag # "execute_instructions_sessioned"
             PROVE  /\ effects'[i].signed
                    /\ \E a \in assertions :
                         /\ effects'[i].by = {a}
                         /\ a.user_present
                         /\ effects'[i].account = derive_account(a.public_key)
                         /\ \E h \in produced :
                              /\ h <= effects'[i].head
                              /\ effects'[i].head - h < WINDOW
                              /\ a.client_data.challenge =
                                   Payload(effects'[i].tag, BankHash(h),
                                           effects'[i].signer,
                                           effects'[i].session_key,
                                           effects'[i].instructions)
  <2>1. assertions' = assertions /\ produced' = produced
      BY DEF Outcome
  <2> QED
      BY <2>1 DEF Approved, BankHash, Payload, derive_account
<1>1. CASE i \in 1..Len(effects)
    BY <1>1, Appended DEF Approved
<1>2. CASE i = Len(effects) + 1
  <2>1. effects'[i] = e
      BY <1>2, Appended
  <2>2. e.signed /\ e.head = head
      BY DEF Outcome
  <2>3. PICK a \in assertions :
          /\ e.by = {a} /\ a.user_present
          /\ e.account = derive_account(a.public_key)
          /\ \E x \in AcceptedHashes :
               a.client_data.challenge =
                 Payload(e.tag, x, e.signer, e.session_key, e.instructions)
      BY <2>1, OutcomeApproval DEF Approval
  <2>4. PICK x \in AcceptedHashes :
               a.client_data.challenge =
                 Payload(e.tag, x, e.signer, e.session_key, e.instructions)
      BY <2>3
  <2>5. PICK h \in Recent : x = BankHash(h)
      BY NonceExactInv DEF CoreInv, NonceExact, AcceptedHashes
  <2>6. h \in produced /\ head - h < WINDOW /\ h <= head
      BY <2>5 DEF Recent, CoreInv, SysvarInv, ProducedKept
  <2> QED
      BY <2>1, <2>2, <2>3, <2>4, <2>5, <2>6
<1> QED
    BY <1>1, <1>2, Appended

LEMMA CountersOutcome ==
    ASSUME CoreInv, NEW account \in Addresses, NEW e, Outcome(account, e),
           CountersCaughtUp(accounts, effects), CounterUsed(accounts, effects),
           CountersOrdered(effects)
    PROVE  /\ CountersCaughtUp(accounts', effects')
           /\ CounterUsed(accounts', effects')
           /\ CountersOrdered(effects')
<1> DEFINE n == Len(effects)
<1>1. /\ n \in Nat /\ DOMAIN effects = 1..n /\ DOMAIN effects' = 1..(n + 1)
      /\ \A i \in 1..n : effects'[i] = effects[i]
      /\ effects'[n + 1] = e
    BY Appended
<1>2. /\ accounts[account].counter \in Nat /\ accounts'[account].counter \in Nat
      /\ accounts'[account].counter >= accounts[account].counter
    BY CounterTypes, CounterForward
<1>3. e.account = account
    BY DEF Outcome
<1> HIDE DEF n
\* A new assertion is the account's own; it leaves the counter alone or
\* overtakes it.
<1>4. ASSUME NEW s \in e.by
      PROVE  /\ s.counter \in Nat
             /\ account = derive_account(s.public_key)
             /\ s.counter <= accounts'[account].counter
             /\ s.counter # 0 => s.counter > accounts[account].counter
  <2>1. Approval(e, accounts[account].counter, accounts'[account].counter)
      BY <1>4, OutcomeApproval
  <2>2. PICK a \in assertions :
          /\ e.by = {a}
          /\ e.account = derive_account(a.public_key)
          /\ a.counter # 0 => a.counter > accounts[account].counter
          /\ accounts'[account].counter =
               IF a.counter # 0 THEN a.counter ELSE accounts[account].counter
      BY <2>1 DEF Approval
  <2>3. s = a
      BY <1>4, <2>2
  <2>4. a.counter \in Nat
      BY DEF CoreInv, TypeOK, Assertion
  <2> QED
      BY <1>2, <1>3, <2>2, <2>3, <2>4
<1>5. ASSUME NEW a \in Addresses
      PROVE  /\ a # account => accounts'[a].counter = accounts[a].counter
             /\ accounts[a].counter \in Nat
             /\ accounts'[a].counter \in Nat
             /\ accounts'[a].counter >= accounts[a].counter
  <2>1. accounts[a] \in AccountData
      BY DEF CoreInv, TypeOK
  <2>2. accounts[a].counter \in Nat
      BY <2>1, AccountFields
  <2>3. a # account => accounts'[a].counter = accounts[a].counter
      BY Untouched
  <2> QED
      BY <1>2, <2>2, <2>3
<1>6. ASSUME NEW i \in 1..n PROVE effects[i].account \in Addresses
  <2>1. effects \in Seq(EffectRecord) /\ i \in DOMAIN effects
      BY <1>1 DEF CoreInv, TypeOK
  <2> QED
      BY <2>1, EffectTypes
<1>7. CountersCaughtUp(accounts', effects')
  <2> SUFFICES ASSUME NEW i \in 1..(n + 1), NEW s \in effects'[i].by
               PROVE  /\ s.counter \in Nat
                      /\ effects'[i].account = derive_account(s.public_key)
                      /\ s.counter <= accounts'[effects'[i].account].counter
      BY <1>1 DEF CountersCaughtUp
  <2>1. CASE i \in 1..n
    <3>1. /\ effects'[i] = effects[i] /\ s \in effects[i].by
          /\ s.counter \in Nat
          /\ effects[i].account = derive_account(s.public_key)
          /\ s.counter <= accounts[effects[i].account].counter
        BY <1>1, <2>1 DEF CountersCaughtUp
    <3>2. /\ accounts'[effects[i].account].counter
               >= accounts[effects[i].account].counter
          /\ accounts[effects[i].account].counter \in Nat
          /\ accounts'[effects[i].account].counter \in Nat
        BY <2>1, <1>5, <1>6
    <3>3. s.counter <= accounts'[effects[i].account].counter
        BY <3>1, <3>2
    <3> QED
        BY <3>1, <3>3
  <2>2. CASE i = n + 1
      BY <1>1, <1>3, <1>4, <2>2
  <2> QED
      BY <1>1, <2>1, <2>2
<1>8. CounterUsed(accounts', effects')
  <2> SUFFICES ASSUME NEW a \in Addresses, accounts'[a].counter # 0
               PROVE  \E i \in 1..(n + 1) :
                        /\ effects'[i].account = a
                        /\ \E s \in effects'[i].by :
                             s.counter = accounts'[a].counter
      BY <1>1 DEF CounterUsed
  <2>1. CASE accounts'[a].counter = accounts[a].counter
    <3>1. PICK i \in 1..n : /\ effects[i].account = a
                            /\ \E s \in effects[i].by :
                                 s.counter = accounts[a].counter
        BY <1>1, <2>1 DEF CounterUsed
    <3>2. i \in 1..(n + 1) /\ effects'[i] = effects[i]
        BY <1>1
    <3> QED
        BY <2>1, <3>1, <3>2
  <2>2. CASE accounts'[a].counter # accounts[a].counter
    <3>1. a = account
        BY <1>5, <2>2
    <3>2. Approval(e, accounts[account].counter, accounts'[account].counter)
        BY <2>2, <3>1, OutcomeApproval
    <3>3. \E s \in e.by : s.counter = accounts'[account].counter
        BY <2>2, <3>1, <3>2 DEF Approval
    <3>4. n + 1 \in 1..(n + 1)
        BY <1>1
    <3> QED
        BY <1>1, <1>3, <3>1, <3>3, <3>4
  <2> QED
      BY <2>1, <2>2
<1>9. CountersOrdered(effects')
  <2> SUFFICES ASSUME NEW i \in 1..(n + 1), NEW j \in 1..(n + 1), i < j,
                      NEW a \in effects'[i].by, NEW b \in effects'[j].by,
                      a.public_key = b.public_key, a.counter # 0, b.counter # 0
               PROVE  a.counter < b.counter
      BY <1>1 DEF CountersOrdered
  <2>1. i \in 1..n /\ effects'[i] = effects[i] /\ i \in DOMAIN effects
      BY <1>1
  <2>2. CASE j \in 1..n
    <3>1. j \in DOMAIN effects /\ effects'[j] = effects[j]
        BY <1>1, <2>2
    <3> QED
        BY <2>1, <3>1 DEF CountersOrdered
  <2>3. CASE j = n + 1
    <3>1. /\ b.counter \in Nat /\ account = derive_account(b.public_key)
          /\ b.counter > accounts[account].counter
        BY <1>1, <1>4, <2>3
    <3>2. /\ a.counter \in Nat
          /\ effects[i].account = derive_account(a.public_key)
          /\ a.counter <= accounts[effects[i].account].counter
        BY <2>1 DEF CountersCaughtUp
    <3>3. effects[i].account = account
        BY <3>1, <3>2
    <3>4. a.counter <= accounts[account].counter
        BY <3>2, <3>3
    <3> QED
        BY <1>2, <3>1, <3>2, <3>4
  <2> QED
      BY <1>1, <2>2, <2>3
<1> QED
    BY <1>7, <1>8, <1>9

LEMMA CreatedOutcome ==
    ASSUME CoreInv, NEW account \in Addresses, NEW e, Outcome(account, e),
           CreatedOnce(accounts, effects), OwnAccounts(effects)
    PROVE  CreatedOnce(accounts', effects') /\ OwnAccounts(effects')
<1> DEFINE n == Len(effects)
<1>1. /\ n \in Nat /\ DOMAIN effects = 1..n /\ DOMAIN effects' = 1..(n + 1)
      /\ \A i \in 1..n : effects'[i] = effects[i]
      /\ effects'[n + 1] = e
    BY Appended
<1>2. e.account = account /\ accounts'[account].version = 1
      /\ e.executing \in {account, execution_address(account)}
    BY DEF Outcome
<1> HIDE DEF n
<1>3. n + 1 \in 1..(n + 1) /\ \A i \in 1..n : i \in 1..(n + 1)
    BY <1>1
<1>4. \/ e.tag = "initialize_passkey" /\ accounts[account].version = 0
      \/ e.tag # "initialize_passkey" /\ accounts[account].version = 1
  <2>1. CASE Initialized(e, accounts[account], accounts'[account])
      BY <2>1, FreshAccount DEF Initialized
  <2>2. CASE Executed(e, accounts[account], accounts'[account])
      BY <2>2 DEF Executed
  <2>3. CASE Refreshed(e, accounts[account], accounts'[account])
      BY <2>3 DEF Refreshed
  <2>4. CASE ExecutedSessioned(e, accounts[account], accounts'[account])
      BY <2>4 DEF ExecutedSessioned
  <2> QED
      BY <2>1, <2>2, <2>3, <2>4 DEF Outcome
<1>5. \A a \in Addresses :
        accounts[a].version = 1 <=> \E j \in 1..n : Creates(effects[j], a)
    BY <1>1 DEF CreatedOnce
<1>6. \E j \in 1..(n + 1) : Creates(effects'[j], account)
  <2>1. CASE e.tag = "initialize_passkey"
      BY <1>1, <1>2, <1>3, <2>1 DEF Creates
  <2>2. CASE accounts[account].version = 1
      BY <1>1, <1>3, <1>5, <2>2
  <2> QED
      BY <1>4, <2>1, <2>2
<1>7. \A a \in Addresses :
        accounts'[a].version = 1 <=> \E j \in 1..(n + 1) : Creates(effects'[j], a)
  <2> SUFFICES ASSUME NEW a \in Addresses, a # account
               PROVE  accounts'[a].version = 1
                        <=> \E j \in 1..(n + 1) : Creates(effects'[j], a)
      BY <1>2, <1>6
  <2>1. accounts'[a].version = accounts[a].version
      BY Untouched
  <2>2. ~Creates(e, a)
      BY <1>2 DEF Creates
  <2>3. ASSUME NEW j \in 1..(n + 1), Creates(effects'[j], a)
        PROVE  j \in 1..n /\ Creates(effects[j], a)
      BY <1>1, <2>2, <2>3
  <2> QED
      BY <1>1, <1>3, <1>5, <2>1, <2>3
<1>8. ASSUME NEW i \in 1..(n + 1), NEW j \in 1..(n + 1), NEW a \in Addresses,
             Creates(effects'[i], a), Creates(effects'[j], a)
      PROVE  i = j
  <2>1. CASE i \in 1..n /\ j \in 1..n
      BY <1>1, <1>8, <2>1 DEF CreatedOnce
  <2>2. ASSUME NEW k \in 1..n, Creates(effects'[k], a), Creates(e, a)
        PROVE  FALSE
    <3>1. a = account /\ e.tag = "initialize_passkey"
        BY <1>2, <2>2 DEF Creates
    <3>2. Creates(effects[k], account)
        BY <1>1, <2>2, <3>1
    <3>3. accounts[account].version = 1
        BY <1>5, <3>2
    <3> QED
        BY <1>4, <3>1, <3>3
  <2>3. i \in 1..n \/ i = n + 1
      BY <1>1
  <2>4. j \in 1..n \/ j = n + 1
      BY <1>1
  <2> QED
      BY <1>1, <1>8, <2>1, <2>2, <2>3, <2>4
<1>9. CreatedOnce(accounts', effects')
    BY <1>1, <1>7, <1>8 DEF CreatedOnce
<1>10. OwnAccounts(effects')
  <2> SUFFICES ASSUME NEW i \in 1..(n + 1)
               PROVE  /\ effects'[i].executing \in
                           {effects'[i].account,
                            execution_address(effects'[i].account)}
                      /\ \E j \in 1..i : Creates(effects'[j], effects'[i].account)
      BY <1>1 DEF OwnAccounts
  <2>1. CASE i \in 1..n
    <3>1. i \in DOMAIN effects /\ effects'[i] = effects[i]
        BY <1>1, <2>1
    <3>2. /\ effects[i].executing \in {effects[i].account,
                                       execution_address(effects[i].account)}
          /\ \E j \in 1..i : Creates(effects[j], effects[i].account)
        BY <3>1 DEF OwnAccounts
    <3>3. \A j \in 1..i : effects'[j] = effects[j]
        BY <1>1, <2>1
    <3> QED
        BY <3>1, <3>2, <3>3
  <2>2. CASE i = n + 1
      BY <1>1, <1>2, <1>6, <2>2
  <2> QED
      BY <1>1, <2>1, <2>2
<1> QED
    BY <1>9, <1>10

LEMMA ForwardOutcome ==
    ASSUME CoreInv, NEW account \in Addresses, NEW e, Outcome(account, e),
           Forward(committed.accounts, accounts)
    PROVE  Forward(committed.accounts, accounts')
<1> DEFINE old == committed.accounts
<1>1. old \in [Addresses -> AccountData] /\ accounts \in [Addresses -> AccountData]
    BY DEF CoreInv, TypeOK
<1> HIDE DEF old
<1> SUFFICES ASSUME NEW a \in Addresses, old[a].version = 1
             PROVE  /\ accounts'[a].version = 1
                    /\ accounts'[a].public_key = old[a].public_key
                    /\ accounts'[a].rp_id = old[a].rp_id
                    /\ accounts'[a].counter >= old[a].counter
    BY DEF Forward, old
<1>2. /\ accounts[a].version = 1
      /\ accounts[a].public_key = old[a].public_key
      /\ accounts[a].rp_id = old[a].rp_id
      /\ accounts[a].counter >= old[a].counter
    BY DEF Forward, old
<1>3. CASE a # account
    BY <1>2, <1>3, Untouched
<1>4. CASE a = account
  <2>1. /\ accounts'[a].version = 1
        /\ accounts'[a].public_key = accounts[a].public_key
        /\ accounts'[a].rp_id = accounts[a].rp_id
      BY <1>2, <1>4 DEF Outcome
  <2>2. /\ accounts'[a].counter >= accounts[a].counter
        /\ accounts'[a].counter \in Nat /\ accounts[a].counter \in Nat
      BY <1>4, CounterForward, CounterTypes
  <2>3. old[a].counter \in Nat
      BY <1>1, AccountFields
  <2> QED
      BY <1>2, <2>1, <2>2, <2>3
<1> QED
    BY <1>3, <1>4

\* An expiration that passes the check lies within the limit.
LEMMA LimitBound ==
    ASSUME CoreInv, NEW expiration \in Nat, within_limit(expiration)
    PROVE  expiration <= unix_timestamp + SESSION_KEY_EXPIRATION_LIMIT
<1> DEFINE n == unix_timestamp + SESSION_KEY_EXPIRATION_LIMIT
<1>1. /\ n \in Nat /\ WORD \in Nat /\ WORD > 0
      /\ unix_timestamp \in Nat /\ SESSION_KEY_EXPIRATION_LIMIT \in Nat
    BY ClockType, WordType, WordAssumption
<1>2. expiration <= n % WORD
    BY DEF within_limit
<1> HIDE DEF n
<1>3. n % WORD <= n /\ n % WORD \in Nat
    BY <1>1, Z3
<1>4. expiration <= n
    BY <1>1, <1>2, <1>3
<1> QED
    BY <1>4 DEF n

\* What a successful instruction does to the session key of its account.
LEMMA OutcomeSession ==
    ASSUME CoreInv, NEW account \in Addresses, NEW e, Outcome(account, e)
    PROVE  \/ /\ e.session_key = None
              /\ accounts'[account].session_key \in
                   {accounts[account].session_key, ZeroSessionKey}
              /\ e.tag = "execute_instructions_sessioned" =>
                   /\ accounts[account].session_key.key = e.signer
                   /\ accounts[account].session_key.expiration >= e.time
           \/ /\ e.session_key # None
              /\ e.tag # "execute_instructions_sessioned"
              /\ accounts'[account].session_key =
                   [key |-> e.session_key.key, expiration |-> StoredExpiration(e)]
              /\ accounts'[account].session_key.expiration
                   <= e.time + SESSION_KEY_EXPIRATION_LIMIT
<1>1. /\ e \in EffectRecord /\ e.time = unix_timestamp
      /\ accounts'[account] \in AccountData
    BY DEF Outcome
<1>2. /\ e.session_key \in SessionKey
      /\ accounts'[account].session_key \in SessionKey
      /\ e.session_key.expiration \in Nat
      /\ accounts'[account].session_key.expiration \in Nat
  <2>1. e.session_key \in SessionKey /\ accounts'[account].session_key \in SessionKey
      BY <1>1, AccountFields DEF EffectRecord
  <2>2. \A k \in SessionKey : k.expiration \in Nat
      BY DEF SessionKey
  <2> QED
      BY <2>1, <2>2
<1>3. CASE Initialized(e, accounts[account], accounts'[account])
  <2>1. e.tag = "initialize_passkey" /\ accounts'[account].session_key = e.session_key
      BY <1>3 DEF Initialized
  <2>2. CASE e.session_key = None
      BY <2>1, <2>2 DEF None
  <2>3. CASE e.session_key # None
    <3>1. within_limit(e.session_key.expiration)
        BY <1>3, <2>3 DEF Initialized
    <3>2. e.session_key.expiration <= e.time + SESSION_KEY_EXPIRATION_LIMIT
        BY <1>1, <1>2, <3>1, LimitBound
    <3>3. e.session_key = [key |-> e.session_key.key,
                           expiration |-> e.session_key.expiration]
        BY <1>2 DEF SessionKey
    <3> QED
        BY <2>1, <2>3, <3>2, <3>3 DEF StoredExpiration
  <2> QED
      BY <2>2, <2>3
<1>4. CASE Executed(e, accounts[account], accounts'[account])
    BY <1>4 DEF Executed
<1>5. CASE Refreshed(e, accounts[account], accounts'[account])
  <2>1. /\ e.tag = "refresh_session_key" /\ e.session_key \in SessionKeyArgs
        /\ accounts'[account].session_key =
             [key |-> e.session_key.key,
              expiration |-> (unix_timestamp + e.session_key.expiration) % WORD]
        /\ within_limit(accounts'[account].session_key.expiration)
      BY <1>5 DEF Refreshed
  <2>2. e.session_key # None
      BY <2>1, KeysAssumption DEF SessionKeyArgs, None, ZeroSessionKey
  <2>3. StoredExpiration(e) = (unix_timestamp + e.session_key.expiration) % WORD
      BY <1>1, <2>1 DEF StoredExpiration
  <2>4. accounts'[account].session_key.expiration
          <= e.time + SESSION_KEY_EXPIRATION_LIMIT
      BY <1>1, <1>2, <2>1, LimitBound
  <2> QED
      BY <2>1, <2>2, <2>3, <2>4
<1>6. CASE ExecutedSessioned(e, accounts[account], accounts'[account])
    BY <1>1, <1>6 DEF ExecutedSessioned
<1> QED
    BY <1>3, <1>4, <1>5, <1>6 DEF Outcome

LEMMA SessionsOutcome ==
    ASSUME CoreInv, NEW account \in Addresses, NEW e, Outcome(account, e),
           SessionsInstalled(accounts, effects), SessionsAuthorised(effects)
    PROVE  /\ SessionsInstalled(accounts', effects')
           /\ SessionsAuthorised(effects')
<1> DEFINE n == Len(effects)
<1>1. /\ n \in Nat /\ DOMAIN effects = 1..n /\ DOMAIN effects' = 1..(n + 1)
      /\ Len(effects') = n + 1
      /\ \A i \in 1..n : effects'[i] = effects[i]
      /\ effects'[n + 1] = e
    BY Appended
<1>2. /\ e.account = account /\ e.signed /\ e \in EffectRecord
    BY DEF Outcome
<1> HIDE DEF n
\* An installation stays the latest one unless the new effect installs.
<1>3. ASSUME NEW a \in Addresses, NEW k, NEW j \in 1..n,
             InstalledBy(effects, j, n, a, k), ~Installs(e, a)
      PROVE  InstalledBy(effects', j, n + 1, a, k)
  <2>1. effects'[j] = effects[j]
      BY <1>1
  <2>2. \A i \in (j + 1)..n : ~Installs(effects[i], a)
      BY <1>3 DEF InstalledBy
  <2>3. ASSUME NEW i \in (j + 1)..(n + 1) PROVE ~Installs(effects'[i], a)
    <3>1. CASE i = n + 1
        BY <1>1, <1>3, <3>1
    <3>2. CASE i # n + 1
      <4>1. i \in (j + 1)..n /\ i \in 1..n
          BY <1>1, <3>2
      <4> QED
          BY <1>1, <2>2, <4>1
    <3> QED
        BY <3>1, <3>2
  <2> QED
      BY <1>3, <2>1, <2>3 DEF InstalledBy
<1>4. ASSUME NEW a \in Addresses, accounts[a].session_key # ZeroSessionKey,
             accounts'[a].session_key = accounts[a].session_key, ~Installs(e, a)
      PROVE  \E j \in 1..(n + 1) :
               InstalledBy(effects', j, n + 1, a, accounts'[a].session_key)
  <2>1. PICK j \in 1..n : InstalledBy(effects, j, n, a, accounts[a].session_key)
      BY <1>1, <1>4 DEF SessionsInstalled, n
  <2>2. InstalledBy(effects', j, n + 1, a, accounts[a].session_key)
      BY <1>3, <1>4, <2>1
  <2>3. j \in 1..(n + 1)
      BY <1>1
  <2> QED
      BY <1>4, <2>2, <2>3
<1>5. ASSUME NEW a \in Addresses, accounts'[a].session_key # ZeroSessionKey
      PROVE  \E j \in 1..(n + 1) :
               InstalledBy(effects', j, n + 1, a, accounts'[a].session_key)
  <2>1. CASE a # account
    <3>1. accounts'[a].session_key = accounts[a].session_key /\ ~Installs(e, a)
        BY <1>2, <2>1, Untouched DEF Installs
    <3> QED
        BY <1>4, <1>5, <3>1
  <2>2. CASE a = account /\ e.session_key = None
    <3>1. accounts'[a].session_key = accounts[a].session_key /\ ~Installs(e, a)
        BY <1>5, <2>2, OutcomeSession DEF Installs
    <3> QED
        BY <1>4, <1>5, <3>1
  <2>3. CASE a = account /\ e.session_key # None
    <3>1. /\ accounts'[a].session_key =
               [key |-> e.session_key.key, expiration |-> StoredExpiration(e)]
          /\ accounts'[a].session_key.expiration
               <= e.time + SESSION_KEY_EXPIRATION_LIMIT
        BY <2>3, OutcomeSession
    <3>2. Installs(e, a)
        BY <1>2, <2>3 DEF Installs
    <3>3. n + 1 \in 1..(n + 1) /\ ((n + 1) + 1)..(n + 1) = {}
        BY <1>1
    <3>4. InstalledBy(effects', n + 1, n + 1, a, accounts'[a].session_key)
        BY <1>1, <3>1, <3>2, <3>3 DEF InstalledBy
    <3> QED
        BY <3>3, <3>4
  <2> QED
      BY <2>1, <2>2, <2>3
<1>6. SessionsInstalled(accounts', effects')
    BY <1>1, <1>5 DEF SessionsInstalled
<1>7. ASSUME NEW i \in 1..(n + 1),
             effects'[i].tag = "execute_instructions_sessioned"
      PROVE  /\ effects'[i].signed
             /\ \E j \in 1..(i - 1) :
                  /\ Installs(effects'[j], effects'[i].account)
                  /\ \A k \in (j + 1)..(i - 1) :
                       ~Installs(effects'[k], effects'[i].account)
                  /\ effects'[j].session_key.key = effects'[i].signer
                  /\ effects'[i].time <= StoredExpiration(effects'[j])
                  /\ effects'[i].time
                       <= effects'[j].time + SESSION_KEY_EXPIRATION_LIMIT
  <2>1. CASE i \in 1..n
    <3>1. \A j \in 1..i : effects'[j] = effects[j]
        BY <1>1, <2>1
    <3>2. effects'[i] = effects[i] /\ i \in DOMAIN effects
        BY <1>1, <2>1
    <3>3. effects[i].signed
        BY <1>7, <3>2 DEF SessionsAuthorised
    <3>4. PICK j \in 1..(i - 1) :
            /\ Installs(effects[j], effects[i].account)
            /\ \A k \in (j + 1)..(i - 1) : ~Installs(effects[k], effects[i].account)
            /\ effects[j].session_key.key = effects[i].signer
            /\ effects[i].time <= StoredExpiration(effects[j])
            /\ effects[i].time <= effects[j].time + SESSION_KEY_EXPIRATION_LIMIT
        BY <1>7, <3>2 DEF SessionsAuthorised
    <3>5. effects'[j] = effects[j]
        BY <2>1, <3>1
    <3>6. \A k \in (j + 1)..(i - 1) : effects'[k] = effects[k]
        BY <2>1, <3>1
    <3> QED
        BY <3>2, <3>3, <3>4, <3>5, <3>6
  <2>2. CASE i = n + 1
    <3>1. /\ effects'[i] = e /\ e.tag = "execute_instructions_sessioned"
        BY <1>1, <1>7, <2>2
    <3>2. /\ accounts[account].session_key.key = e.signer
          /\ accounts[account].session_key.expiration >= e.time
        BY <3>1, OutcomeSession
    <3>3. accounts[account].session_key # ZeroSessionKey
      <4>1. e.signer \in Signers
          BY <1>2 DEF EffectRecord
      <4> QED
          BY <3>2, <4>1, KeysAssumption DEF ZeroSessionKey
    <3>4. PICK j \in 1..n :
            InstalledBy(effects, j, n, account, accounts[account].session_key)
        BY <1>1, <3>3 DEF SessionsInstalled, n
    <3>5. /\ Installs(effects[j], account)
          /\ \A k \in (j + 1)..n : ~Installs(effects[k], account)
          /\ effects[j].session_key.key = accounts[account].session_key.key
          /\ StoredExpiration(effects[j]) = accounts[account].session_key.expiration
          /\ accounts[account].session_key.expiration
               <= effects[j].time + SESSION_KEY_EXPIRATION_LIMIT
        BY <3>4 DEF InstalledBy
    <3>6. /\ accounts[account].session_key.expiration \in Nat
          /\ e.time \in Nat
          /\ effects[j].time + SESSION_KEY_EXPIRATION_LIMIT \in Nat
      <4>1. accounts[account] \in AccountData
          BY DEF CoreInv, TypeOK
      <4>2. accounts[account].session_key \in SessionKey
          BY <4>1, AccountFields
      <4>3. accounts[account].session_key.expiration \in Nat
          BY <4>2 DEF SessionKey
      <4>4. e.time \in Nat
          BY <1>2 DEF EffectRecord
      <4>5. effects \in Seq(EffectRecord) /\ j \in DOMAIN effects
          BY <1>1 DEF CoreInv, TypeOK
      <4>6. effects[j].time \in Nat
          BY <4>5, EffectTypes
      <4> QED
          BY <4>3, <4>4, <4>6, WordAssumption
    <3>7. e.time <= StoredExpiration(effects[j])
          /\ e.time <= effects[j].time + SESSION_KEY_EXPIRATION_LIMIT
        BY <3>2, <3>5, <3>6
    <3>8. i - 1 = n /\ effects'[j] = effects[j]
          /\ \A k \in (j + 1)..n : effects'[k] = effects[k]
        BY <1>1, <2>2
    <3> QED
        BY <1>2, <3>1, <3>2, <3>5, <3>7, <3>8
  <2> QED
      BY <1>1, <2>1, <2>2
<1>8. SessionsAuthorised(effects')
    BY <1>1, <1>7 DEF SessionsAuthorised
<1> QED
    BY <1>6, <1>8

LEMMA HistoryOutcome ==
    ASSUME HistoryInv, NEW account \in Addresses, NEW e, Outcome(account, e)
    PROVE  HistoryInv'
<1>1. /\ CoreInv /\ History(accounts, effects)
      /\ History(committed.accounts, committed.effects)
      /\ Forward(committed.accounts, accounts)
    BY DEF HistoryInv
<1>2. /\ committed' = committed /\ assertions' = assertions
      /\ produced' = produced
    BY DEF Outcome
<1>3. CoreInv'
    BY <1>1, CoreOutcome
<1>4. Approved(effects)'
    BY <1>1, ApprovedOutcome DEF History
<1>5. /\ CountersCaughtUp(accounts, effects)'
      /\ CounterUsed(accounts, effects)'
      /\ CountersOrdered(effects)'
  <2>1. /\ CountersCaughtUp(accounts', effects')
        /\ CounterUsed(accounts', effects')
        /\ CountersOrdered(effects')
      BY <1>1, CountersOutcome DEF History
  <2> QED
      BY <2>1
<1>6. SessionsInstalled(accounts, effects)' /\ SessionsAuthorised(effects)'
  <2>1. SessionsInstalled(accounts', effects') /\ SessionsAuthorised(effects')
      BY <1>1, SessionsOutcome DEF History
  <2> QED
      BY <2>1
<1>7. CreatedOnce(accounts, effects)' /\ OwnAccounts(effects)'
  <2>1. CreatedOnce(accounts', effects') /\ OwnAccounts(effects')
      BY <1>1, CreatedOutcome DEF History
  <2> QED
      BY <2>1
<1>8. History(accounts, effects)'
    BY <1>4, <1>5, <1>6, <1>7 DEF History
<1>9. History(committed.accounts, committed.effects)'
    BY <1>1, <1>2 DEF History, Approved
<1>10. Forward(committed.accounts, accounts)'
    BY <1>1, <1>2, ForwardOutcome
<1> QED
    BY <1>3, <1>8, <1>9, <1>10 DEF HistoryInv

-----------------------------------------------------------------------------
(* The invariant is inductive                                              *)

LEMMA HistoryInit == Init => HistoryInv
<1> SUFFICES ASSUME Init PROVE HistoryInv
    OBVIOUS
<1>1. CoreInv
    BY CoreInit
<1>2. /\ effects = <<>> /\ committed.accounts = accounts
      /\ committed.effects = effects
      /\ \A a \in Addresses : accounts[a] = EmptyAccount
    BY DEF Init
<1>3. DOMAIN effects = {} /\ Len(effects) = 0
    BY <1>2
<1>4. \A a \in Addresses : /\ accounts[a].version = 0 /\ accounts[a].counter = 0
                           /\ accounts[a].session_key = ZeroSessionKey
    BY <1>2 DEF EmptyAccount
<1>5. History(accounts, effects)
    BY <1>3, <1>4 DEF History, Approved, CountersCaughtUp, CounterUsed,
       CountersOrdered, SessionsInstalled, SessionsAuthorised, CreatedOnce,
       OwnAccounts
<1>6. Forward(committed.accounts, accounts)
    BY <1>2, <1>4 DEF Forward
<1> QED
    BY <1>1, <1>2, <1>5, <1>6 DEF HistoryInv

LEMMA HistoryStep == HistoryInv /\ [Next]_vars => HistoryInv'
<1> SUFFICES ASSUME HistoryInv, [Next]_vars PROVE HistoryInv'
    OBVIOUS
<1>1. /\ CoreInv /\ History(accounts, effects)
      /\ History(committed.accounts, committed.effects)
      /\ Forward(committed.accounts, accounts)
    BY DEF HistoryInv
<1>2. CoreInv'
    BY <1>1, CoreStep
\* Steps other than the handlers' that leave the history alone.
<1>3. ASSUME UNCHANGED <<accounts, effects, committed>>,
             assertions \subseteq assertions', produced \subseteq produced'
      PROVE  HistoryInv'
  <2>1. Approved(effects)'
      BY <1>1, <1>3 DEF History, Approved
  <2>2. Approved(committed.effects)'
      BY <1>1, <1>3 DEF History, Approved
  <2>3. History(accounts, effects)'
      BY <1>1, <1>3, <2>1 DEF History
  <2>4. History(committed.accounts, committed.effects)'
      BY <1>1, <1>3, <2>2 DEF History
  <2> QED
      BY <1>1, <1>2, <1>3, <2>3, <2>4 DEF HistoryInv
<1>4. ASSUME Initialize \/ Execute \/ Refresh \/ ExecuteSessioned
      PROVE  HistoryInv'
    BY <1>1, <1>4, HandlerOutcome, HistoryOutcome
<1>5. ASSUME Begin PROVE HistoryInv'
    BY <1>3, <1>5 DEF Begin, BeginTransaction, clockVars, deviceVars
<1>6. ASSUME Commit PROVE HistoryInv'
  <2>1. /\ committed' = [accounts |-> accounts, effects |-> effects]
        /\ UNCHANGED <<accounts, effects, assertions, produced>>
      BY <1>6 DEF Commit, clockVars, deviceVars
  <2>2. committed'.accounts = accounts /\ committed'.effects = effects
      BY <2>1
  <2>3. History(accounts, effects)'
      BY <1>1, <2>1 DEF History, Approved
  <2>4. History(committed.accounts, committed.effects)'
      BY <2>1, <2>2, <2>3 DEF History, Approved
  <2>5. Forward(accounts, accounts)
    <3>1. ASSUME NEW a \in Addresses PROVE accounts[a].counter >= accounts[a].counter
      <4>1. accounts[a] \in AccountData
          BY <1>1 DEF CoreInv, TypeOK
      <4> QED
          BY <4>1, AccountFields
    <3> QED
        BY <3>1 DEF Forward
  <2> QED
      BY <1>2, <2>1, <2>2, <2>3, <2>4, <2>5 DEF HistoryInv
<1>7. ASSUME Rollback PROVE HistoryInv'
  <2>1. /\ accounts' = committed.accounts /\ effects' = committed.effects
        /\ UNCHANGED <<committed, assertions, produced>>
      BY <1>7 DEF Rollback, clockVars, deviceVars
  <2>2. History(committed.accounts, committed.effects)'
      BY <1>1, <2>1 DEF History, Approved
  <2>3. History(accounts, effects)'
      BY <2>1, <2>2 DEF History, Approved
  <2>4. Forward(committed.accounts, committed.accounts)
    <3>1. ASSUME NEW a \in Addresses
          PROVE  committed.accounts[a].counter >= committed.accounts[a].counter
      <4>1. committed.accounts[a] \in AccountData
          BY <1>1 DEF CoreInv, TypeOK
      <4> QED
          BY <4>1, AccountFields
    <3> QED
        BY <3>1 DEF Forward
  <2> QED
      BY <1>2, <2>1, <2>2, <2>3, <2>4 DEF HistoryInv
<1>8. ASSUME Tick PROVE HistoryInv'
  <2>1. UNCHANGED <<assertions, accounts, effects, committed>>
      BY <1>8 DEF Tick, deviceVars
  <2>2. produced \subseteq produced'
      BY <1>8 DEF Tick, AdvanceSlot
  <2> QED
      BY <1>3, <2>1, <2>2
<1>9. ASSUME Sign PROVE HistoryInv'
  <2>1. UNCHANGED <<produced, accounts, effects, committed>>
      BY <1>1, <1>9, SignResult
  <2>2. assertions \subseteq assertions'
      BY <1>1, <1>9, SignResult
  <2> QED
      BY <1>3, <2>1, <2>2
<1>10. ASSUME UNCHANGED vars PROVE HistoryInv'
    BY <1>3, <1>10 DEF vars
<1> QED
    BY <1>4, <1>5, <1>6, <1>7, <1>8, <1>9, <1>10 DEF Next

LEMMA HistoryInvariant == Spec => []HistoryInv
BY HistoryInit, HistoryStep, PTL DEF Spec

-----------------------------------------------------------------------------
(* Theorems                                                                *)

\* Every initialize, execute and refresh was approved, as it is, by the
\* passkey of its account over a recent block.
THEOREM ApprovalHolds == Spec => []ApprovedByPasskey
<1>1. HistoryInv => ApprovedByPasskey
    BY DEF HistoryInv, History, Approved, ApprovedByPasskey
<1> QED
    BY <1>1, HistoryInvariant, PTL

\* Assertions of a counting authenticator take effect once and in order.
THEOREM CounterOrderHolds == Spec => []CounterOrder
<1>1. HistoryInv => CounterOrder
    BY DEF HistoryInv, History, CountersOrdered, CounterOrder
<1> QED
    BY <1>1, HistoryInvariant, PTL

\* The stored counter is the largest one used on the account.
THEOREM CounterMatchHolds == Spec => []CounterMatchesEffects
<1>1. HistoryInv => CounterMatchesEffects
  <2> SUFFICES ASSUME HistoryInv, NEW a \in Addresses
               PROVE  /\ accounts[a].counter \in {0} \cup UsedCounters(effects, a)
                      /\ \A c \in UsedCounters(effects, a) :
                            c <= accounts[a].counter
      BY DEF CounterMatchesEffects
  <2>1. /\ CountersCaughtUp(accounts, effects)
        /\ CounterUsed(accounts, effects)
      BY DEF HistoryInv, History
  <2>2. accounts[a].counter \in {0} \cup UsedCounters(effects, a)
      BY <2>1 DEF CounterUsed, UsedCounters
  <2>3. ASSUME NEW c \in UsedCounters(effects, a)
        PROVE  c <= accounts[a].counter
    <3>1. PICK i \in DOMAIN effects : /\ effects[i].account = a
                                      /\ \E s \in effects[i].by : c = s.counter
        BY <2>3 DEF UsedCounters
    <3> QED
        BY <2>1, <3>1 DEF CountersCaughtUp
  <2> QED
      BY <2>2, <2>3
<1> QED
    BY <1>1, HistoryInvariant, PTL

\* A sessioned execution is signed by the current session key in its time.
THEOREM SessionAuthorityHolds == Spec => []SessionAuthority
<1>1. HistoryInv => SessionAuthority
    BY DEF HistoryInv, History, SessionsAuthorised, SessionAuthority
<1> QED
    BY <1>1, HistoryInvariant, PTL

\* A stored session key is the latest one a passkey asked for, within the
\* limit.
THEOREM SessionOriginHolds == Spec => []SessionOrigin
<1>1. HistoryInv => SessionOrigin
    BY DEF HistoryInv, History, SessionsInstalled, InstalledBy, SessionOrigin
<1> QED
    BY <1>1, HistoryInvariant, PTL

\* Instructions sign for the wallet they belong to, which was created once.
THEOREM OwnAccountHolds == Spec => []ExecutesAsOwnAccount
<1>1. HistoryInv => ExecutesAsOwnAccount
  <2> SUFFICES ASSUME HistoryInv, NEW i \in DOMAIN effects
               PROVE  /\ effects[i].executing \in
                           {effects[i].account,
                            execution_address(effects[i].account)}
                      /\ \E j \in 1..i :
                           \A k \in 1..i :
                              (k = j) <=> Creates(effects[k], effects[i].account)
      BY DEF ExecutesAsOwnAccount, Creates
  <2>1. OwnAccounts(effects) /\ CreatedOnce(accounts, effects)
      BY DEF HistoryInv, History
  <2>2. effects \in Seq(EffectRecord) /\ DOMAIN effects = 1..Len(effects)
        /\ Len(effects) \in Nat
      BY DEF HistoryInv, CoreInv, TypeOK
  <2>3. effects[i].account \in Addresses
      BY <2>2, EffectTypes
  <2>4. PICK j \in 1..i : Creates(effects[j], effects[i].account)
      BY <2>1 DEF OwnAccounts
  <2>5. ASSUME NEW k \in 1..i, Creates(effects[k], effects[i].account)
        PROVE  k = j
    <3>1. k \in DOMAIN effects /\ j \in DOMAIN effects
        BY <2>2
    <3> QED
        BY <2>1, <2>3, <2>4, <2>5, <3>1 DEF CreatedOnce
  <2> QED
      BY <2>1, <2>4, <2>5 DEF OwnAccounts
<1> QED
    BY <1>1, HistoryInvariant, PTL

\* A committed account keeps its passkey and relying party, and its counter
\* never goes back.
THEOREM CommittedIdentityHolds == Spec => CommittedIdentity
<1> DEFINE Keeps == Forward(committed.accounts, committed'.accounts)
<1>1. HistoryInv /\ [Next]_vars => [Keeps]_vars
  <2> SUFFICES ASSUME HistoryInv, Next PROVE Keeps
      OBVIOUS
  <2>1. CASE Commit
    <3>1. committed'.accounts = accounts
        BY <2>1 DEF Commit
    <3> QED
        BY <3>1 DEF HistoryInv
  <2>2. CASE ~Commit
    <3>1. committed' = committed
      <4>1. CASE Initialize \/ Execute \/ Refresh \/ ExecuteSessioned
          BY <4>1, HandlerOutcome DEF HistoryInv, Outcome
      <4>2. CASE Begin \/ Rollback \/ Tick \/ Sign
          BY <4>2 DEF Begin, BeginTransaction, Rollback, Tick, Sign,
                      SignAssertion
      <4> QED
          BY <2>2, <4>1, <4>2 DEF Next
    <3>2. Forward(committed.accounts, committed.accounts)
      <4>1. ASSUME NEW a \in Addresses
            PROVE  committed.accounts[a].counter >= committed.accounts[a].counter
        <5>1. committed.accounts[a] \in AccountData
            BY DEF HistoryInv, CoreInv, TypeOK
        <5> QED
            BY <5>1, AccountFields
      <4> QED
          BY <4>1 DEF Forward
    <3> QED
        BY <3>1, <3>2
  <2> QED
      BY <2>1, <2>2
<1>2. Spec => [][Keeps]_vars
    BY <1>1, HistoryInvariant, PTL DEF Spec
<1> QED
    BY <1>2 DEF CommittedIdentity, Forward

-----------------------------------------------------------------------------
(* The promise of a wallet, and the counters of the authenticators         *)

\* The counters of the assertions made, and those of the accounts, come from
\* the authenticators; one without a counter stays at 0.
AssertionsCounted ==
    /\ \A a \in assertions : a.counter <= counters[a.public_key]
    /\ \A p \in PublicKeys \ Counting : counters[p] = 0

DeviceAhead(accts) ==
    \A p \in PublicKeys : accts[derive_account(p)].counter <= counters[p]

WalletInv ==
    /\ HistoryInv
    /\ AssertionsCounted
    /\ DeviceAhead(accounts)
    /\ DeviceAhead(committed.accounts)
    /\ Promise!Extends(effects, committed.effects)

-----------------------------------------------------------------------------

LEMMA AddressInjective ==
    ASSUME NEW p, NEW q, derive_account(p) = derive_account(q)
    PROVE  p = q
BY DEF derive_account

LEMMA ExtendsRefl == ASSUME NEW s, Len(s) \in Nat PROVE Promise!Extends(s, s)
BY DEF Promise!Extends

LEMMA ExtendsAppend ==
    ASSUME NEW S, NEW s \in Seq(S), NEW old \in Seq(S), NEW e \in S,
           Promise!Extends(s, old)
    PROVE  Promise!Extends(Append(s, e), old)
BY DEF Promise!Extends

\* An authenticator's counter only grows, and the new assertion carries it.
LEMMA SignCounters ==
    ASSUME CoreInv, AssertionsCounted, Sign
    PROVE  /\ AssertionsCounted'
           /\ \A p \in PublicKeys : counters[p] <= counters'[p]
<1>1. PICK public_key \in PublicKeys, user_present \in UserPresence,
           params \in ClientParams, challenge \in Challenges :
             SignAssertion(public_key, user_present, params, challenge)
    BY DEF Sign
<1> DEFINE a == NewAssertion(public_key, user_present, params, challenge)
<1>2. /\ counters' = [counters EXCEPT ![public_key] = a.counter]
      /\ assertions' = assertions \cup {a}
    BY <1>1 DEF SignAssertion
<1>3. /\ a.public_key = public_key
      /\ a.counter = IF public_key \in Counting THEN counters[public_key] + 1 ELSE 0
    BY DEF NewAssertion
<1> HIDE DEF a
<1>4. counters \in [PublicKeys -> Nat] /\ assertions \subseteq Assertion
    BY DEF CoreInv, TypeOK
<1>5. /\ a.counter \in Nat /\ counters[public_key] <= a.counter
      /\ public_key \notin Counting => a.counter = 0
    BY <1>3, <1>4 DEF AssertionsCounted
<1>6. counters'[public_key] = a.counter
      /\ \A p \in PublicKeys \ {public_key} : counters'[p] = counters[p]
    BY <1>2, <1>4
<1>7. \A p \in PublicKeys : counters[p] <= counters'[p] /\ counters'[p] \in Nat
    BY <1>4, <1>5, <1>6
<1>8. \A b \in assertions : b.public_key \in PublicKeys /\ b.counter \in Nat
    BY <1>4 DEF Assertion
<1>9. \A b \in assertions : b.counter <= counters'[b.public_key]
  <2> TAKE b \in assertions
  <2>1. b.counter <= counters[b.public_key]
      BY DEF AssertionsCounted
  <2>2. counters[b.public_key] <= counters'[b.public_key]
      BY <1>7, <1>8
  <2> QED
      BY <1>4, <1>7, <1>8, <2>1, <2>2
<1>10. a.counter <= counters'[a.public_key]
    BY <1>3, <1>5, <1>6
<1>11. \A p \in PublicKeys \ Counting : counters'[p] = 0
    BY <1>5, <1>6 DEF AssertionsCounted
<1> QED
    BY <1>2, <1>7, <1>9, <1>10, <1>11 DEF AssertionsCounted

LEMMA AheadTypes ==
    ASSUME CoreInv
    PROVE  /\ counters \in [PublicKeys -> Nat]
           /\ \A p \in PublicKeys : /\ accounts[derive_account(p)].counter \in Nat
                                    /\ committed.accounts[derive_account(p)].counter \in Nat
<1>1. ASSUME NEW p \in PublicKeys
      PROVE  /\ accounts[derive_account(p)].counter \in Nat
             /\ committed.accounts[derive_account(p)].counter \in Nat
  <2>1. derive_account(p) \in Addresses
      BY AddressFacts
  <2>2. /\ accounts[derive_account(p)] \in AccountData
        /\ committed.accounts[derive_account(p)] \in AccountData
      BY <2>1 DEF CoreInv, TypeOK
  <2> QED
      BY <2>2, AccountFields
<1> QED
    BY <1>1 DEF CoreInv, TypeOK

\* A handler stores no counter but that of an assertion of the same passkey.
LEMMA OutcomeAhead ==
    ASSUME WalletInv, NEW account \in Addresses, NEW e, Outcome(account, e)
    PROVE  DeviceAhead(accounts)'
<1>1. CoreInv /\ UNCHANGED counters
    BY DEF WalletInv, HistoryInv, Outcome
<1> SUFFICES ASSUME NEW p \in PublicKeys
             PROVE  accounts'[derive_account(p)].counter <= counters[p]
    BY <1>1 DEF DeviceAhead
<1>2. accounts[derive_account(p)].counter <= counters[p]
    BY DEF WalletInv, DeviceAhead
<1>3. derive_account(p) \in Addresses
    BY AddressFacts
<1>4. CASE derive_account(p) # account
    BY <1>2, <1>3, <1>4, Untouched
<1>5. CASE derive_account(p) = account
  <2>1. CASE accounts'[account].counter = accounts[account].counter
      BY <1>2, <1>5, <2>1
  <2>2. CASE accounts'[account].counter # accounts[account].counter
    <3>1. Approval(e, accounts[account].counter, accounts'[account].counter)
        BY <1>1, <2>2, OutcomeApproval
    <3>2. PICK a \in assertions :
            /\ e.account = derive_account(a.public_key)
            /\ accounts'[account].counter
                 = IF a.counter # 0 THEN a.counter ELSE accounts[account].counter
        BY <3>1 DEF Approval
    <3>3. a.public_key = p
        BY <1>5, <3>2, AddressInjective DEF Outcome
    <3>4. a.counter <= counters[p]
        BY <3>3 DEF WalletInv, AssertionsCounted
    <3> QED
        BY <1>5, <2>2, <3>2, <3>4
  <2> QED
      BY <2>1, <2>2
<1> QED
    BY <1>4, <1>5

LEMMA WalletInit == Init => WalletInv
<1> SUFFICES ASSUME Init PROVE WalletInv
    OBVIOUS
<1>1. HistoryInv
    BY HistoryInit
<1>2. /\ assertions = {} /\ counters = [p \in PublicKeys |-> 0]
      /\ accounts = [a \in Addresses |-> EmptyAccount]
      /\ effects = <<>> /\ committed.accounts = accounts /\ committed.effects = effects
    BY DEF Init
<1>3. AssertionsCounted
    BY <1>2 DEF AssertionsCounted
<1>4. DeviceAhead(accounts)
  <2> SUFFICES ASSUME NEW p \in PublicKeys
               PROVE  accounts[derive_account(p)].counter <= counters[p]
      BY DEF DeviceAhead
  <2>1. derive_account(p) \in Addresses
      BY AddressFacts
  <2> QED
      BY <1>2, <2>1 DEF EmptyAccount
<1>5. Promise!Extends(effects, committed.effects)
    BY <1>2 DEF Promise!Extends
<1> QED
    BY <1>1, <1>2, <1>3, <1>4, <1>5 DEF WalletInv

LEMMA WalletStep == WalletInv /\ [Next]_vars => WalletInv'
<1> SUFFICES ASSUME WalletInv, [Next]_vars PROVE WalletInv'
    OBVIOUS
<1>1. HistoryInv /\ CoreInv
    BY DEF WalletInv, HistoryInv
<1>2. HistoryInv'
    BY <1>1, HistoryStep
<1>3. effects \in Seq(EffectRecord) /\ committed.effects \in Seq(EffectRecord)
    BY <1>1 DEF CoreInv, TypeOK
<1>4. ASSUME UNCHANGED <<accounts, effects, committed, assertions, counters>>
      PROVE  WalletInv'
    BY <1>2, <1>4 DEF WalletInv, AssertionsCounted, DeviceAhead, Promise!Extends
<1>5. ASSUME Initialize \/ Execute \/ Refresh \/ ExecuteSessioned PROVE WalletInv'
  <2>1. PICK account \in Addresses : \E e : Outcome(account, e)
      BY <1>1, <1>5, HandlerOutcome
  <2>2. PICK e : Outcome(account, e)
      BY <2>1
  <2>3. /\ e \in EffectRecord /\ effects' = Append(effects, e)
        /\ UNCHANGED <<assertions, counters, committed>>
      BY <2>2 DEF Outcome
  <2>4. DeviceAhead(accounts)'
      BY <2>2, OutcomeAhead
  <2>5. Promise!Extends(effects', committed.effects)
      BY <1>3, <2>3, ExtendsAppend DEF WalletInv
  <2>6. AssertionsCounted' /\ DeviceAhead(committed.accounts)'
      BY <2>3 DEF WalletInv, AssertionsCounted, DeviceAhead
  <2> QED
      BY <1>2, <2>3, <2>4, <2>5, <2>6 DEF WalletInv, Promise!Extends
<1>6. ASSUME Begin PROVE WalletInv'
    BY <1>4, <1>6 DEF Begin, BeginTransaction, deviceVars
<1>7. ASSUME Commit PROVE WalletInv'
  <2>1. /\ committed'.accounts = accounts /\ committed'.effects = effects
        /\ UNCHANGED <<accounts, effects, assertions, counters>>
      BY <1>7 DEF Commit, deviceVars
  <2>2. Len(effects) \in Nat
      BY <1>3
  <2>3. Promise!Extends(effects, effects)
      BY <2>2, ExtendsRefl
  <2>4. Promise!Extends(effects, committed.effects)'
      BY <2>1, <2>3 DEF Promise!Extends
  <2> QED
      BY <1>2, <2>1, <2>4 DEF WalletInv, AssertionsCounted, DeviceAhead
<1>8. ASSUME Rollback PROVE WalletInv'
  <2>1. /\ accounts' = committed.accounts /\ effects' = committed.effects
        /\ UNCHANGED <<committed, assertions, counters>>
      BY <1>8 DEF Rollback, deviceVars
  <2>2. Len(committed.effects) \in Nat
      BY <1>3
  <2>3. Promise!Extends(committed.effects, committed.effects)
      BY <2>2, ExtendsRefl
  <2>4. Promise!Extends(effects, committed.effects)'
      BY <2>1, <2>3 DEF Promise!Extends
  <2> QED
      BY <1>2, <2>1, <2>4 DEF WalletInv, AssertionsCounted, DeviceAhead
<1>9. ASSUME Tick PROVE WalletInv'
    BY <1>4, <1>9 DEF Tick, deviceVars
<1>10. ASSUME Sign PROVE WalletInv'
  <2>1. UNCHANGED <<accounts, effects, committed>>
      BY <1>1, <1>10, SignResult
  <2>2. AssertionsCounted' /\ \A p \in PublicKeys : counters[p] <= counters'[p]
      BY <1>1, <1>10, SignCounters DEF WalletInv
  <2>3. counters' \in [PublicKeys -> Nat]
      BY <1>1, <1>10, SignResult
  <2>4. DeviceAhead(accounts)' /\ DeviceAhead(committed.accounts)'
    <3> SUFFICES ASSUME NEW p \in PublicKeys
                 PROVE  /\ accounts[derive_account(p)].counter <= counters'[p]
                        /\ committed.accounts[derive_account(p)].counter <= counters'[p]
        BY <2>1 DEF DeviceAhead
    <3>1. /\ accounts[derive_account(p)].counter <= counters[p]
          /\ committed.accounts[derive_account(p)].counter <= counters[p]
        BY DEF WalletInv, DeviceAhead
    <3>2. /\ counters[p] <= counters'[p] /\ counters[p] \in Nat /\ counters'[p] \in Nat
          /\ accounts[derive_account(p)].counter \in Nat
          /\ committed.accounts[derive_account(p)].counter \in Nat
        BY <1>1, <2>2, <2>3, AheadTypes
    <3> QED
        BY <3>1, <3>2
  <2> QED
      BY <1>2, <2>1, <2>2, <2>4 DEF WalletInv, Promise!Extends
<1>11. ASSUME UNCHANGED vars PROVE WalletInv'
    BY <1>4, <1>11 DEF vars
<1> QED
    BY <1>5, <1>6, <1>7, <1>8, <1>9, <1>10, <1>11 DEF Next

LEMMA WalletInvariant == Spec => []WalletInv
BY WalletInit, WalletStep, PTL DEF Spec

-----------------------------------------------------------------------------
(* The refinement                                                          *)

LEMMA PayloadFields ==
    ASSUME NEW tag, NEW slothash, NEW signer, NEW session_key, NEW instructions,
           NEW c, c = Payload(tag, slothash, signer, session_key, instructions)
    PROVE  /\ c.tag = tag /\ c.slothash = slothash /\ c.nonce_signer = signer
           /\ c.session_key = session_key /\ c.instructions = instructions
BY DEF Payload

\* An approved effect is an approved event.
LEMMA EffectApproved ==
    ASSUME HistoryInv, NEW i \in DOMAIN effects,
           effects[i].tag # "execute_instructions_sessioned"
    PROVE  effects[i].signed /\ Promise!ApprovedEvent(effects, i)
<1>1. CoreInv /\ Approved(effects) /\ CountersOrdered(effects)
    BY DEF HistoryInv, History
<1>2. effects \in Seq(EffectRecord) /\ produced \subseteq Nat
    BY <1>1 DEF CoreInv, TypeOK, SysvarTypeOK
<1>3. effects[i] \in EffectRecord /\ DOMAIN effects = 1..Len(effects) /\ Len(effects) \in Nat
    BY <1>2
<1>4. effects[i].head \in Nat
    BY <1>3 DEF EffectRecord
<1>5. effects[i].signed
    BY <1>1 DEF Approved
<1>6. PICK a \in assertions :
        /\ effects[i].by = {a}
        /\ a.user_present
        /\ effects[i].account = derive_account(a.public_key)
        /\ \E h \in produced :
             /\ h <= effects[i].head /\ effects[i].head - h < WINDOW
             /\ a.client_data.challenge =
                  Payload(effects[i].tag, BankHash(h), effects[i].signer,
                          effects[i].session_key, effects[i].instructions)
    BY <1>1 DEF Approved
<1>7. PICK h \in produced :
        /\ h <= effects[i].head /\ effects[i].head - h < WINDOW
        /\ a.client_data.challenge =
             Payload(effects[i].tag, BankHash(h), effects[i].signer,
                     effects[i].session_key, effects[i].instructions)
    BY <1>6
<1>8. h \in 0..effects[i].head
    BY <1>2, <1>4, <1>7
<1>9. /\ a.client_data.challenge.tag = effects[i].tag
      /\ a.client_data.challenge.nonce_signer = effects[i].signer
      /\ a.client_data.challenge.session_key = effects[i].session_key
      /\ a.client_data.challenge.instructions = effects[i].instructions
      /\ a.client_data.challenge.slothash = <<"bank hash", h>>
  <2> DEFINE c == a.client_data.challenge
             e == effects[i]
  <2>1. c = Payload(e.tag, BankHash(h), e.signer, e.session_key, e.instructions)
      BY <1>7
  <2> HIDE DEF c, e
  <2>2. /\ c.tag = e.tag /\ c.slothash = BankHash(h) /\ c.nonce_signer = e.signer
        /\ c.session_key = e.session_key /\ c.instructions = e.instructions
      BY <2>1, PayloadFields
  <2> QED
      BY <2>2 DEF c, e, BankHash
<1>10. Promise!Approves(a, effects[i])
    BY <1>6, <1>7, <1>8, <1>9 DEF Promise!Approves, Promise!Address, derive_account
<1>11. ASSUME NEW k \in 1..(i - 1), NEW b \in effects[k].by, b.public_key = a.public_key
       PROVE  Promise!Later(b, a)
  <2>1. k \in DOMAIN effects /\ k < i
      BY <1>3
  <2>2. a \in effects[i].by
      BY <1>6
  <2> QED
      BY <1>1, <1>11, <2>1, <2>2 DEF CountersOrdered, Promise!Later
<1> QED
    BY <1>5, <1>6, <1>10, <1>11 DEF Promise!ApprovedEvent

\* Every effect is a legal event.
LEMMA EffectLegal ==
    ASSUME HistoryInv, NEW i \in DOMAIN effects
    PROVE  Promise!Legal(effects, i)
<1>1. /\ CoreInv /\ SessionsAuthorised(effects) /\ OwnAccounts(effects)
      /\ CreatedOnce(accounts, effects)
    BY DEF HistoryInv, History
<1>2. effects \in Seq(EffectRecord)
    BY <1>1 DEF CoreInv, TypeOK
<1>3. effects[i].account \in Addresses /\ DOMAIN effects = 1..Len(effects) /\ Len(effects) \in Nat
    BY <1>2, EffectTypes
<1>4. effects[i].executing \in {effects[i].account, Promise!ExecutionAddress(effects[i].account)}
    BY <1>1 DEF OwnAccounts, Promise!ExecutionAddress, execution_address
<1>5. Promise!OpenedOnce(effects, i)
  <2>1. \E j \in 1..i : Creates(effects[j], effects[i].account)
      BY <1>1 DEF OwnAccounts
  <2>2. \A j \in 1..i : j \in DOMAIN effects
      BY <1>3
  <2>3. \A j, k \in 1..i : Creates(effects[j], effects[i].account)
                            /\ Creates(effects[k], effects[i].account) => j = k
      BY <1>1, <1>3, <2>2 DEF CreatedOnce
  <2> QED
      BY <2>1, <2>3 DEF Promise!OpenedOnce, Promise!Opens, Creates
<1>6. CASE effects[i].tag = "execute_instructions_sessioned"
  <2>1. effects[i].signed /\ Promise!SessionEvent(effects, i)
      BY <1>1, <1>6 DEF SessionsAuthorised, Promise!SessionEvent, Promise!InstallsOn,
                        Promise!ValidUntil, Installs, StoredExpiration
  <2> QED
      BY <1>4, <1>5, <1>6, <2>1 DEF Promise!Legal
<1>7. CASE effects[i].tag # "execute_instructions_sessioned"
    BY <1>4, <1>5, <1>7, EffectApproved DEF Promise!Legal
<1> QED
    BY <1>6, <1>7

(***************************************************************************)
(* The program implements Wallet: what is committed is an append-only log  *)
(* in which every event is legal after those before it.                    *)
(***************************************************************************)
THEOREM PromiseKept == Spec => KeepsPromise
<1>1. Init => committed.effects = <<>>
    BY DEF Init
<1>2. WalletInv /\ [Next]_vars => [Promise!RecordEvents]_(committed.effects)
  <2> SUFFICES ASSUME WalletInv, [Next]_vars
               PROVE  [Promise!RecordEvents]_(committed.effects)
      OBVIOUS
  <2>1. HistoryInv /\ CoreInv
      BY DEF WalletInv, HistoryInv
  <2>2. CASE Commit
    <3>1. committed'.effects = effects
        BY <2>2 DEF Commit
    <3>2. effects \in Seq(EffectRecord) /\ committed.effects \in Seq(EffectRecord)
        BY <2>1 DEF CoreInv, TypeOK
    <3>3. \A i \in (Len(committed.effects) + 1)..Len(effects) : i \in DOMAIN effects
        BY <3>2
    <3>4. \A i \in (Len(committed.effects) + 1)..Len(effects) : Promise!Legal(effects, i)
        BY <2>1, <3>3, EffectLegal
    <3>5. Promise!Extends(effects, committed.effects)
        BY DEF WalletInv
    <3> QED
        BY <3>1, <3>4, <3>5 DEF Promise!RecordEvents
  <2>3. CASE Initialize \/ Execute \/ Refresh \/ ExecuteSessioned
      BY <2>1, <2>3, HandlerOutcome DEF Outcome
  <2>4. CASE Begin \/ Rollback \/ Tick \/ Sign \/ UNCHANGED vars
      BY <2>4 DEF Begin, BeginTransaction, Rollback, Tick, Sign, SignAssertion, vars
  <2> QED
      BY <2>2, <2>3, <2>4 DEF Next
<1> QED
    BY <1>1, <1>2, WalletInvariant, PTL DEF Spec, KeepsPromise, Promise!WalletSpec

-----------------------------------------------------------------------------
\* The hash of the newest block is accepted.
LEMMA HeadAccepted ==
    ASSUME CoreInv
    PROVE  \E slot \in 0..(MODULUS - 1) :
              slot_hashes[1].hash \in validate_nonce(slot_hashes, slot, 1, TRUE)
<1>1. SysvarInv /\ NonceExact
    BY NonceExactInv DEF CoreInv
<1>2. 1 \in 1..Len(slot_hashes)
    BY <1>1, EntriesAssumption DEF SysvarInv, SysvarTypeOK
<1>3. head \in Nat /\ head \in produced /\ slot_hashes[1].hash = BankHash(head)
  <2>1. slot_hashes[1].hash = BankHash(head)
      BY <1>1, <1>2 DEF SysvarInv, EntriesIntact, head
  <2>2. head \in produced
      BY <1>1, <1>2 DEF SysvarInv, EntriesProduced, head
  <2> QED
      BY <2>1, <2>2, ClockType
<1> DEFINE slot == TruncatedSlot(head)
<1>4. slot \in 0..(MODULUS - 1)
    BY <1>3, ModulusAssumption, Z3 DEF TruncatedSlot
<1>5. slot \in 0..MODULUS
    BY <1>4, ModulusAssumption
<1>6. head - head < WINDOW
    BY <1>3, WindowAssumption, ModulusAssumption
<1>7. head \in {r \in Recent : TruncatedSlot(r) = slot}
    BY <1>3, <1>6 DEF Recent
<1> HIDE DEF slot
<1>8. BankHash(head) \in Accepted(slot)
    BY <1>1, <1>5, <1>7 DEF NonceExact
<1> QED
    BY <1>3, <1>4, <1>8 DEF Accepted

LEMMA ChallengeIsRecent ==
    ASSUME NEW challenge \in Challenges
    PROVE  challenge.slothash = slot_hashes[1].hash
BY PayloadFields DEF Challenges, get_initialization_payload_hash,
       get_instruction_payload_hash, get_refresh_session_key_payload_hash

(***************************************************************************)
(* No owner is ever locked out: the next assertion of the passkey of an    *)
(* initialized account is accepted.                                        *)
(***************************************************************************)
THEOREM NobodyLockedOut == Spec => []NextApprovalAccepted
<1>1. WalletInv => NextApprovalAccepted
  <2> SUFFICES ASSUME WalletInv, NEW p \in PublicKeys,
                      accounts[derive_account(p)].version = 1,
                      NEW params \in ClientParams, NEW challenge \in Challenges
               PROVE  /\ \E slot \in 0..(MODULUS - 1) :
                          challenge.slothash \in validate_nonce(slot_hashes, slot, 1, TRUE)
                      /\ verify_payload(accounts[derive_account(p)],
                            {NewAssertion(p, TRUE, params, challenge)},
                            params, challenge) # {}
      BY DEF NextApprovalAccepted
  <2> DEFINE data == accounts[derive_account(p)]
             a == NewAssertion(p, TRUE, params, challenge)
  <2>1. CoreInv
      BY DEF WalletInv, HistoryInv
  <2>2. \E slot \in 0..(MODULUS - 1) :
          challenge.slothash \in validate_nonce(slot_hashes, slot, 1, TRUE)
      BY <2>1, HeadAccepted, ChallengeIsRecent
  <2>3. derive_account(p) \in Addresses
      BY AddressFacts
  <2>4. /\ data.public_key \in PublicKeys
        /\ derive_account(p) = derive_account(data.public_key)
        /\ data.rp_id = RpIdOf[data.public_key]
      BY <2>1, <2>3 DEF CoreInv, AccountsOK, Identified
  <2>5. data.public_key = p /\ data.rp_id = RpIdOf[p]
      BY <2>4, AddressInjective
  <2>6. /\ a.public_key = p /\ a.rp_id = RpIdOf[p] /\ a.user_present
        /\ a.counter = IF p \in Counting THEN counters[p] + 1 ELSE 0
        /\ a.client_data = reconstruct_client_data_json(params, RpIdOf[p], challenge)
      BY DEF NewAssertion
  <2> HIDE DEF a
  <2>7. counter_accepted(data, a.counter)
    <3>1. data.counter <= counters[p] /\ data.counter \in Nat /\ counters[p] \in Nat
        BY <2>1, AheadTypes DEF WalletInv, DeviceAhead
    <3> QED
        BY <2>6, <3>1 DEF counter_accepted
  <2>8. a \in {b \in {a} :
                 /\ {a} = {b}
                 /\ b.public_key = data.public_key
                 /\ b.user_present
                 /\ b.rp_id = data.rp_id
                 /\ reconstruct_client_data_json(params, data.rp_id, challenge)
                        = b.client_data
                 /\ counter_accepted(data, b.counter)}
      BY <2>5, <2>6, <2>7, Zenon
  <2>9. [data EXCEPT !.counter = next_counter(data, a.counter)]
          \in verify_payload(data, {a}, params, challenge)
      BY <2>8 DEF verify_payload
  <2> QED
      BY <2>2, <2>9 DEF a
<1> QED
    BY <1>1, WalletInvariant, PTL
=============================================================================
