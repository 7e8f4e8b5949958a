------------------------- MODULE MCWebauthnMessage --------------------------
(***************************************************************************)
(* Every shape of client data JSON with a plain authenticator, and every   *)
(* shape of authenticator data with a plain JSON.                          *)
(***************************************************************************)
EXTENDS WebauthnMessage

Example == <<"example">>
\* A relying party id that ends like a port.
Ported == <<"example", COLON, "8080">>

MCRpIds == {Example, Ported, <<"example", QUOTE>>, <<"a", "b", "c", "d">>}

Ceremony(rp, host, type, scheme, port, cross, extra, flags, counter, extensions) ==
    [rp_id |-> rp, host |-> host, type |-> type, scheme |-> scheme, port |-> port,
     cross |-> cross, extra |-> extra, flags |-> flags, counter |-> counter,
     extensions |-> extensions]

Pages ==
    {Ceremony(rp, h, t, s, p, x, e, 5, 1, 0) :
        rp \in {Example, Ported}, h \in {Example, <<"login", ".", "example">>},
        t \in {"webauthn.get", "webauthn.create"}, s \in {"http", "https"},
        p \in {{}, {"3000"}, {"8080"}}, x \in {<<>>, <<"true">>, <<"false">>},
        e \in {<<>>, GOOGLE_EXTRA, <<"foreign">>, <<"topOrigin">>}}

Authenticators ==
    {Ceremony(Example, Example, "webauthn.get", "https", {}, <<"false">>, <<>>, f, c, e) :
        f \in {0, 1, 4, 5, 129, 132}, c \in {0, 1, BASE, BASE * BASE - 1}, e \in 0..3}

MCCeremonies == Pages \cup Authenticators

\* Both types with all flags, and a high half that is neither.
MCFlags == 0..31 \cup {32, 40}
=============================================================================
