-------------------------------- MODULE Wallet --------------------------------
(***************************************************************************)
(* What the program promises to the owner of a passkey, without accounts,  *)
(* counters, slots to look up or transactions that fail: an append-only    *)
(* log of events on wallets, in which every event is legal after the ones  *)
(* before it.  A transaction appends all its events at once, or none.      *)
(***************************************************************************)
EXTENDS Integers, Sequences

CONSTANTS
    NoKey,    \* the session key of an event that installs none
    Window,   \* slots an approval is good for
    Limit,    \* seconds a session key may be good for
    Word      \* durations wrap at this value

VARIABLE log

Address(public_key) == <<"passkey", public_key>>
ExecutionAddress(account) == <<"execution_account", account>>

\* The passkey of the account, its user being present, has seen the event.
Approves(assertion, e) ==
    LET challenge == assertion.client_data.challenge
    IN  /\ assertion.user_present
        /\ e.account = Address(assertion.public_key)
        /\ challenge.tag = e.tag
        /\ challenge.nonce_signer = e.signer
        /\ challenge.session_key = e.session_key
        /\ challenge.instructions = e.instructions
        /\ \E slot \in 0..e.head : /\ challenge.slothash = <<"bank hash", slot>>
                                   /\ e.head - slot < Window

\* Counters order the assertions of a passkey; 0 stands for no counter.
Later(a, b) == a.counter # 0 /\ b.counter # 0 => a.counter < b.counter

ApprovedEvent(history, i) ==
    \E a \in history[i].by :
        /\ history[i].by = {a}
        /\ Approves(a, history[i])
        /\ \A k \in 1..(i - 1) : \A b \in history[k].by :
              b.public_key = a.public_key => Later(b, a)

InstallsOn(e, account) == e.account = account /\ e.session_key # NoKey

\* initialize names a time, refresh a duration from now.
ValidUntil(e) ==
    IF e.tag = "initialize_passkey" THEN e.session_key.expiration
    ELSE (e.time + e.session_key.expiration) % Word

\* The signer is the latest session key of the account, and in time.
SessionEvent(history, i) ==
    \E j \in 1..(i - 1) :
        /\ InstallsOn(history[j], history[i].account)
        /\ \A k \in (j + 1)..(i - 1) : ~InstallsOn(history[k], history[i].account)
        /\ history[j].session_key.key = history[i].signer
        /\ history[i].time <= ValidUntil(history[j])
        /\ history[i].time <= history[j].time + Limit

Opens(e, account) == e.tag = "initialize_passkey" /\ e.account = account

\* A wallet is opened once, before anything else happens to it.
OpenedOnce(history, i) ==
    /\ \E j \in 1..i : Opens(history[j], history[i].account)
    /\ \A j, k \in 1..i :
          Opens(history[j], history[i].account) /\ Opens(history[k], history[i].account)
            => j = k

Legal(history, i) ==
    LET e == history[i]
    IN  /\ e.signed
        /\ e.executing \in {e.account, ExecutionAddress(e.account)}
        /\ OpenedOnce(history, i)
        /\ IF e.tag = "execute_instructions_sessioned" THEN SessionEvent(history, i)
           ELSE ApprovedEvent(history, i)

Extends(history, old) ==
    /\ Len(old) <= Len(history)
    /\ \A i \in 1..Len(old) : history[i] = old[i]

RecordEvents ==
    /\ Extends(log', log)
    /\ \A i \in (Len(log) + 1)..Len(log') : Legal(log', i)

WalletSpec == log = <<>> /\ [][RecordEvents]_log
=============================================================================
