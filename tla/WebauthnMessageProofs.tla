----------------------- MODULE WebauthnMessageProofs ------------------------
(***************************************************************************)
(* Proofs about WebauthnMessage, for relying party ids, ceremonies, flags  *)
(* and ports of any number and length.  The text of a client data JSON is  *)
(* read back from its tokens: the challenge by its position, the origin by *)
(* the quote that ends it and that no relying party id, host or port may   *)
(* hold.  A message is read back from its end, where the hash is, and from *)
(* its beginning, where the authenticator data has a fixed layout.         *)
(***************************************************************************)
EXTENDS WebauthnMessage, SequenceTheorems, TLAPS

(***************************************************************************)
(* Sequences                                                               *)
(***************************************************************************)

(* A function on 1..n is a sequence of length n: the shape in which the    *)
(* model writes the fixed arrays of the code.                              *)
LEMMA ArrayIsSeq ==
    ASSUME NEW S, NEW n \in Nat, NEW f \in [1..n -> S]
    PROVE  f \in Seq(S) /\ Len(f) = n
OBVIOUS

(* The parts of a concatenation, element by element and as subsequences.   *)
LEMMA Parts ==
    ASSUME NEW S, NEW u \in Seq(S), NEW v \in Seq(S)
    PROVE  /\ u \o v \in Seq(S) /\ Len(u) \in Nat /\ Len(v) \in Nat
           /\ Len(u \o v) = Len(u) + Len(v)
           /\ \A i \in 1..Len(u) : (u \o v)[i] = u[i]
           /\ \A i \in 1..Len(v) : (u \o v)[Len(u) + i] = v[i]
           /\ SubSeq(u \o v, 1, Len(u)) = u
           /\ SubSeq(u \o v, Len(u) + 1, Len(u \o v)) = v
<1> DEFINE c == u \o v
           p == SubSeq(c, 1, Len(u))
           q == SubSeq(c, Len(u) + 1, Len(c))
<1>1. /\ c \in Seq(S) /\ Len(c) = Len(u) + Len(v) /\ Len(u) \in Nat /\ Len(v) \in Nat
      /\ \A i \in 1..(Len(u) + Len(v)) : c[i] = IF i <= Len(u) THEN u[i] ELSE v[i - Len(u)]
  BY ConcatProperties, LenProperties
<1> HIDE DEF c
<1>2. \A i \in 1..Len(u) : c[i] = u[i]
  BY <1>1
<1>3. ASSUME NEW i \in 1..Len(v) PROVE c[Len(u) + i] = v[i]
  <2>1. Len(u) + i \in 1..(Len(u) + Len(v)) /\ ~(Len(u) + i <= Len(u)) /\ (Len(u) + i) - Len(u) = i
    BY <1>1
  <2>. QED  BY <1>1, <2>1
<1>4. p \in Seq(S) /\ Len(p) = Len(u) /\ \A i \in 1..Len(u) : p[i] = c[i]
  BY <1>1
<1>5. q \in Seq(S) /\ Len(q) = Len(v) /\ \A i \in 1..Len(v) : q[i] = c[Len(u) + i]
  BY <1>1
<1> HIDE DEF p, q
<1>6. p = u
  BY <1>2, <1>4, SeqEqual
<1>7. q = v
  BY <1>3, <1>5, SeqEqual
<1>. QED  BY <1>1, <1>2, <1>3, <1>6, <1>7 DEF c, p, q

(* Two texts with first parts of the same length that are equal have equal *)
(* parts: how a part of fixed length is read back.                         *)
LEMMA SameParts ==
    ASSUME NEW S, NEW u \in Seq(S), NEW v \in Seq(S), NEW w \in Seq(S), NEW x \in Seq(S),
           Len(u) = Len(w), u \o v = w \o x
    PROVE  u = w /\ v = x
<1>1. /\ Len(u) \in Nat /\ Len(v) \in Nat /\ Len(x) \in Nat
      /\ Len(u \o v) = Len(u) + Len(v) /\ Len(w \o x) = Len(w) + Len(x)
  BY LenProperties, ConcatProperties
<1>2. Len(v) = Len(x)
  BY <1>1
<1>3. u = SubSeq(u \o v, 1, Len(u)) /\ w = SubSeq(w \o x, 1, Len(w))
  BY SubSeqOfConcat1, SubSeqFull, <1>1
<1>4. v = SubSeq(u \o v, Len(u) + 1, Len(u) + Len(v))
      /\ x = SubSeq(w \o x, Len(w) + 1, Len(w) + Len(x))
  BY SubSeqOfConcat2, SubSeqFull, <1>1
<1>. QED  BY <1>2, <1>3, <1>4

\* Concatenation under a name, for the provers to leave unexpanded.
Cat(s, t) == s \o t

(* A delimiter that neither first part holds ends both of them at the same *)
(* place: how the program's refusal of quotes in a relying party id makes  *)
(* the origin of the JSON readable.                                        *)
LEMMA Delimited ==
    ASSUME NEW S, NEW q \in S
    PROVE  \A u, w \in Seq(S \ {q}) : \A v, x \in Seq(S) :
               Cat(u, Cat(<<q>>, v)) = Cat(w, Cat(<<q>>, x)) => u = w /\ v = x
<1>0. SUFFICES ASSUME NEW u \in Seq(S \ {q}), NEW v \in Seq(S), NEW w \in Seq(S \ {q}),
                      NEW x \in Seq(S), Cat(u, Cat(<<q>>, v)) = Cat(w, Cat(<<q>>, x))
               PROVE  u = w /\ v = x
  BY Zenon
<1> DEFINE a == <<q>> \o v
           b == <<q>> \o x
<1>1. a \in Seq(S) /\ b \in Seq(S) /\ Len(a) \in Nat /\ Len(b) \in Nat /\ Len(a) > 0 /\ Len(b) > 0
      /\ a[1] = q /\ b[1] = q
  <2>1. <<q>> \in Seq(S) /\ Len(<<q>>) = 1 /\ <<q>>[1] = q
    OBVIOUS
  <2>. QED  BY <2>1, ConcatProperties, LenProperties
<1>2. /\ u \in Seq(S) /\ w \in Seq(S) /\ Len(u) \in Nat /\ Len(w) \in Nat
      /\ \A i \in 1..Len(u) : u[i] # q
      /\ \A i \in 1..Len(w) : w[i] # q
  BY LenProperties, ElementOfSeq, SeqMonotonic
<1> HIDE DEF a, b
<1>3. u \o a = w \o b
  BY <1>0, Zenon DEF a, b, Cat
<1>4. /\ \A i \in 1..(Len(u) + Len(a)) : (u \o a)[i] = IF i <= Len(u) THEN u[i] ELSE a[i - Len(u)]
      /\ \A i \in 1..(Len(w) + Len(b)) : (w \o b)[i] = IF i <= Len(w) THEN w[i] ELSE b[i - Len(w)]
      /\ Len(u) + Len(a) = Len(w) + Len(b)
  BY <1>1, <1>2, <1>3, ConcatProperties
<1>5. ~ Len(u) < Len(w)
  <2>1. SUFFICES ASSUME Len(u) < Len(w) PROVE FALSE
    OBVIOUS
  <2> DEFINE i == Len(u) + 1
  <2>2. i \in 1..(Len(u) + Len(a)) /\ ~ (i <= Len(u)) /\ i - Len(u) = 1 /\ i \in 1..Len(w) /\ i <= Len(w)
        /\ i \in 1..(Len(w) + Len(b))
    BY <2>1, <1>1, <1>2
  <2>. QED  BY <2>2, <1>1, <1>2, <1>3, <1>4
<1>6. ~ Len(w) < Len(u)
  <2>1. SUFFICES ASSUME Len(w) < Len(u) PROVE FALSE
    OBVIOUS
  <2> DEFINE i == Len(w) + 1
  <2>2. i \in 1..(Len(w) + Len(b)) /\ ~ (i <= Len(w)) /\ i - Len(w) = 1 /\ i \in 1..Len(u) /\ i <= Len(u)
        /\ i \in 1..(Len(u) + Len(a))
    BY <2>1, <1>1, <1>2
  <2>. QED  BY <2>2, <1>1, <1>2, <1>3, <1>4
<1>7. Len(u) = Len(w)
  BY <1>2, <1>5, <1>6
<1>8. u = w /\ a = b
  BY <1>1, <1>2, <1>3, <1>7, SameParts
<1>9. v = x
  <2>1. <<q>> \in Seq(S)
    OBVIOUS
  <2>. QED  BY <1>8, <2>1, SameParts DEF a, b
<1>. QED  BY <1>8, <1>9

-----------------------------------------------------------------------------
(***************************************************************************)
(* The message: authData || sha256(clientDataJSON)                         *)
(***************************************************************************)

(* Hashes of the same text are the same, of different texts different: the *)
(* model's SHA-256 has no collisions.                                      *)
LEMMA HashInjective ==
    ASSUME NEW a, NEW b, hash(a) = hash(b)
    PROVE  a = b
<1>1. 1 \in 1..HASH_LENGTH
  BY LengthsAssumption
<1>2. hash(a)[1] = <<a, 1>> /\ hash(b)[1] = <<b, 1>>
  BY <1>1 DEF hash
<1>. QED  BY <1>2

(* A hash has HASH_LENGTH bytes.                                           *)
LEMMA HashIsSeq ==
    ASSUME NEW text, NEW U, \A i \in Nat : <<text, i>> \in U
    PROVE  hash(text) \in Seq(U) /\ Len(hash(text)) = HASH_LENGTH
<1>1. hash(text) \in [1..HASH_LENGTH -> U]
  BY LengthsAssumption DEF hash
<1>. QED  BY <1>1, ArrayIsSeq, LengthsAssumption

(* A counter is put together again from its big-endian bytes, as           *)
(* AuthDataParser::get_counter does.                                       *)
LEMMA CounterBytes ==
    ASSUME NEW n \in 0..(BASE * BASE - 1)
    PROVE  (n \div BASE) * BASE + (n % BASE) = n
BY LengthsAssumption

(* The program finds in a signed message what the authenticator put there, *)
(* whatever the number of extension bytes: the hash of the relying party   *)
(* id, the flags and the counter at their offsets, the hash of the client  *)
(* data JSON at the end.                                                   *)
LEMMA MessageLayout ==
    ASSUME NEW c \in Ceremonies, NEW ch
    PROVE  LET m == Message(c, ch)
               d == SubSeq(m, 1, split_at(m))
           IN  /\ SubSeq(m, split_at(m) + 1, Len(m)) = hash(clientDataJSON(c, ch))
               /\ rp_id_hash(d) = hash(c.rp_id)
               /\ is_user_present(d) = IsSet(c.flags, 1)
               /\ get_counter(d) = c.counter
<1> DEFINE text == clientDataJSON(c, ch)
           pairs == {<<x, i>> : x \in {text, c.rp_id}, i \in Nat}
           U == pairs \cup {c.flags} \cup Nat
           h == hash(c.rp_id)
           f == <<c.flags, c.counter \div BASE, c.counter % BASE>>
           z == [i \in 1..c.extensions |-> 0]
           t == hash(text)
           n == HASH_LENGTH
<1>1. c.counter \in 0..(BASE * BASE - 1) /\ c.extensions \in Nat
  BY CeremoniesAssumption
<1>2. \A i \in Nat : <<text, i>> \in U /\ <<c.rp_id, i>> \in U
  OBVIOUS
<1>3. h \in Seq(U) /\ Len(h) = n /\ t \in Seq(U) /\ Len(t) = n
  BY <1>2, HashIsSeq
<1>4. n \in Nat \ {0}
  BY LengthsAssumption
<1>5. f \in Seq(U) /\ Len(f) = 3 /\ f[1] = c.flags /\ f[2] = c.counter \div BASE /\ f[3] = c.counter % BASE
  <2>1. c.counter \div BASE \in Nat /\ c.counter % BASE \in Nat
    BY <1>1, LengthsAssumption
  <2>2. c.flags \in U /\ c.counter \div BASE \in U /\ c.counter % BASE \in U
    BY <2>1
  <2> HIDE DEF U
  <2>. QED  BY <2>2
<1>6. z \in Seq(U) /\ Len(z) \in Nat
  <2>1. z \in [1..c.extensions -> U]
    OBVIOUS
  <2> HIDE DEF z, U
  <2>. QED  BY <1>1, <2>1, ArrayIsSeq
<1>7. Message(c, ch) = ((h \o f) \o z) \o t
  BY DEF Message, authenticatorData
<1> HIDE DEF U, h, f, z, t, n
<1> DEFINE d == (h \o f) \o z
           m == d \o t
<1>8. /\ h \o f \in Seq(U) /\ Len(h \o f) = n + 3
      /\ \A i \in 1..n : (h \o f)[i] = h[i]
      /\ \A i \in 1..3 : (h \o f)[n + i] = f[i]
  <2>1. /\ h \o f \in Seq(U) /\ Len(h \o f) = Len(h) + Len(f)
        /\ \A i \in 1..Len(h) : (h \o f)[i] = h[i]
        /\ \A i \in 1..Len(f) : (h \o f)[Len(h) + i] = f[i]
    <3>1. h \in Seq(U) /\ f \in Seq(U)
      BY <1>3, <1>5, Zenon
    <3>. QED  BY <3>1, Parts
  <2>. QED  BY <1>3, <1>5, <2>1
<1>9. /\ d \in Seq(U) /\ Len(d) \in Nat /\ \A i \in 1..(n + 3) : d[i] = (h \o f)[i]
  <2>1. /\ d \in Seq(U) /\ \A i \in 1..Len(h \o f) : d[i] = (h \o f)[i]
    BY <1>6, <1>8, Parts, Zenon
  <2>. QED  BY <1>8, <2>1, LenProperties
<1> HIDE DEF d
<1>10. /\ d[n + 1] = c.flags /\ d[n + 2] = c.counter \div BASE /\ d[n + 3] = c.counter % BASE
       /\ \A i \in 1..n : d[i] = h[i]
  <2>1. /\ n + 1 \in 1..(n + 3) /\ n + 2 \in 1..(n + 3) /\ n + 3 \in 1..(n + 3)
        /\ \A i \in 1..n : i \in 1..(n + 3)
    BY <1>4
  <2>2. 1 \in 1..3 /\ 2 \in 1..3 /\ 3 \in 1..3
    OBVIOUS
  <2>. QED  BY <1>5, <1>8, <1>9, <2>1, <2>2, Zenon
<1>11. /\ Len(m) = Len(d) + n
       /\ SubSeq(m, 1, Len(d)) = d
       /\ SubSeq(m, Len(d) + 1, Len(m)) = t
  <2>1. /\ Len(m) = Len(d) + Len(t)
        /\ SubSeq(m, 1, Len(d)) = d
        /\ SubSeq(m, Len(d) + 1, Len(m)) = t
    <3>1. d \in Seq(U) /\ t \in Seq(U)
      BY <1>3, <1>9, Zenon
    <3>. QED  BY <3>1, Parts
  <2>. QED  BY <1>3, <2>1
<1> HIDE DEF m
<1>12. split_at(m) = Len(d)
  BY <1>4, <1>9, <1>11 DEF split_at, n
<1>14. rp_id_hash(d) = h
  <2>1. \A i \in 1..n : d[i] = h[i] /\ d[i] \in U
    BY <1>3, <1>10, <1>4, ElementOfSeq
  <2>2. /\ SubSeq(d, 1, n) \in Seq(U) /\ Len(SubSeq(d, 1, n)) = n
        /\ \A i \in 1..n : SubSeq(d, 1, n)[i] = d[i]
    BY <2>1, <1>4, SubSeqProperties
  <2>3. SubSeq(d, 1, n) = h
    BY <2>1, <2>2, <1>3, SeqEqual
  <2>. QED  BY <2>3 DEF rp_id_hash, n
<1>15. is_user_present(d) = IsSet(c.flags, 1)
  BY <1>10, Zenon DEF is_user_present, n
<1>16. get_counter(d) = c.counter
  <2>1. get_counter(d) = (c.counter \div BASE) * BASE + (c.counter % BASE)
    BY <1>10, Zenon DEF get_counter, n
  <2>. QED  BY <2>1, <1>1, CounterBytes, Zenon
<1>17. Message(c, ch) = m
  BY <1>7 DEF d, m
<1>. QED  BY <1>11, <1>12, <1>14, <1>15, <1>16, <1>17, Zenon DEF h, t

-----------------------------------------------------------------------------
(***************************************************************************)
(* The text: type, challenge, origin, quote, the rest                      *)
(***************************************************************************)

(* The zero padded array with its length gives the relying party id back.  *)
LEMMA RpIdBack ==
    ASSUME NEW S, NEW n \in Seq(S), Len(n) <= MAX_RP_ID
    PROVE  LET info == RpIdInformation(n)
           IN  /\ SubSeq(info.rp_id, 1, info.rp_id_len) = n
               /\ info.rp_id_hash = hash(n)
<1> DEFINE a == [i \in 1..MAX_RP_ID |-> IF i <= Len(n) THEN n[i] ELSE PADDING]
           s == SubSeq(a, 1, Len(n))
<1>1. Len(n) \in Nat /\ MAX_RP_ID \in Nat
  BY LenProperties, TokensAssumption
<1>2. \A i \in 1..Len(n) : a[i] = n[i] /\ a[i] \in S
  BY <1>1, ElementOfSeq
<1> HIDE DEF a
<1>3. s \in Seq(S) /\ Len(s) = Len(n) /\ \A i \in 1..Len(n) : s[i] = a[i]
  BY <1>1, <1>2, SubSeqProperties
<1>4. s = n
  BY <1>2, <1>3, SeqEqual
<1>5. /\ RpIdInformation(n).rp_id = a /\ RpIdInformation(n).rp_id_len = Len(n)
      /\ RpIdInformation(n).rp_id_hash = hash(n)
  BY DEF RpIdInformation, a
<1>. QED  BY <1>4, <1>5

(* An origin is a scheme, a host and an optional port without quotes.      *)
LEMMA OriginType ==
    ASSUME NEW S, {"http", "https", COLON} \subseteq S,
           NEW prefix \in {"http", "https"}, NEW host \in Seq(S \ {QUOTE}), NEW port,
           port = {} \/ \E p \in port : port = {p} /\ p \in (S \ {QUOTE})
    PROVE  /\ Origin(prefix, host, port) \in Seq(S \ {QUOTE})
           /\ Origin(prefix, host, port)[1] = prefix
           /\ Len(Origin(prefix, host, port)) \in Nat /\ Len(Origin(prefix, host, port)) > 0
<1> DEFINE a == <<prefix>>
           t == IF port = {} THEN <<>> ELSE <<COLON, CHOOSE p \in port : TRUE>>
<1>1. a \in Seq(S \ {QUOTE}) /\ Len(a) = 1 /\ a[1] = prefix
  BY DEF QUOTE
<1>2. t \in Seq(S \ {QUOTE})
  <2>1. CASE port = {}
    BY <2>1
  <2>2. CASE port # {}
    <3>1. PICK p \in port : port = {p} /\ p \in (S \ {QUOTE})
      BY <2>2
    <3>2. (CHOOSE x \in port : TRUE) \in (S \ {QUOTE})
      BY <3>1
    <3>3. COLON \in (S \ {QUOTE})
      BY DEF COLON, QUOTE
    <3>. QED  BY <2>2, <3>2, <3>3
  <2>. QED  BY <2>1, <2>2
<1>3. Origin(prefix, host, port) = (a \o host) \o t
  BY DEF Origin
<1> HIDE DEF a, t
<1>4. a \o host \in Seq(S \ {QUOTE}) /\ Len(a \o host) = 1 + Len(host) /\ (a \o host)[1] = prefix
      /\ Len(host) \in Nat
  <2>1. a \o host \in Seq(S \ {QUOTE}) /\ Len(a \o host) = Len(a) + Len(host) /\ Len(host) \in Nat
        /\ \A i \in 1..Len(a) : (a \o host)[i] = a[i]
    BY <1>1, Parts
  <2>. QED  BY <1>1, <2>1
<1> DEFINE b == a \o host
<1> HIDE DEF b
<1>5. b \o t \in Seq(S \ {QUOTE}) /\ (b \o t)[1] = prefix /\ Len(b \o t) \in Nat /\ Len(b \o t) > 0
  BY <1>2, <1>4, Parts, LenProperties DEF b
<1>. QED  BY <1>3, <1>5 DEF b

(* Concatenation yields sequences and is associative.                      *)
LEMMA CatAssociative ==
    ASSUME NEW U
    PROVE  \A r, s, t \in Seq(U) :
               Cat(r, s) \in Seq(U) /\ Cat(Cat(r, s), t) = Cat(r, Cat(s, t))
<1>1. \A r, s \in Seq(U) : Cat(r, s) \in Seq(U)
  BY ConcatProperties DEF Cat
<1>2. \A r, s, t \in Seq(U) : Cat(Cat(r, s), t) = Cat(r, Cat(s, t))
  BY ConcatAssociative DEF Cat
<1>. QED  BY <1>1, <1>2, Zenon

(* The five parts of a text may be grouped from the right.                 *)
LEMMA Regrouped ==
    ASSUME NEW U, NEW h \in Seq(U), NEW o \in Seq(U), NEW q \in Seq(U), NEW x \in Seq(U),
           NEW e \in Seq(U)
    PROVE  /\ Cat(Cat(Cat(Cat(h, o), q), x), e) = Cat(h, Cat(o, Cat(q, Cat(x, e))))
           /\ Cat(o, Cat(q, Cat(x, e))) \in Seq(U)
<1>1. Cat(h, o) \in Seq(U) /\ Cat(x, e) \in Seq(U)
  BY CatAssociative, Zenon
<1>2. Cat(Cat(h, o), q) \in Seq(U) /\ Cat(q, Cat(x, e)) \in Seq(U)
  BY <1>1, CatAssociative, Zenon
<1>3. Cat(o, Cat(q, Cat(x, e))) \in Seq(U)
  BY <1>2, CatAssociative, Zenon
<1>4. Cat(Cat(Cat(Cat(h, o), q), x), e) = Cat(Cat(Cat(h, o), q), Cat(x, e))
  BY <1>2, CatAssociative, SMT
<1>5. Cat(Cat(Cat(h, o), q), Cat(x, e)) = Cat(Cat(h, o), Cat(q, Cat(x, e)))
  BY <1>1, CatAssociative, SMT
<1>6. Cat(Cat(h, o), Cat(q, Cat(x, e))) = Cat(h, Cat(o, Cat(q, Cat(x, e))))
  BY <1>2, CatAssociative, SMT
<1>. QED  BY <1>3, <1>4, <1>5, <1>6, Zenon

\* The parts of a text over S whose origin is over T can be told apart.
Readable(S, T) ==
    \A o1, o2 \in Seq(T) : \A x1, e1, x2, e2 \in Seq(S) : \A t1, c1, t2, c2 :
        Text(t1, c1, o1, x1, e1) = Text(t2, c2, o2, x2, e2)
            => c1 = c2 /\ o1 = o2 /\ Cat(x1, e1) = Cat(x2, e2)

(* Two texts are the same only if they agree in type, challenge, origin    *)
(* and in what follows: the challenge cannot be moved into the origin, nor *)
(* the origin into the fields after it.                                    *)
LEMMA TextParts ==
    ASSUME NEW S, QUOTE \in S
    PROVE  Readable(S, S \ {QUOTE})
<1> DEFINE T == S \ {QUOTE}
<1>q. \A u, w \in Seq(T) : \A v, x \in Seq(S) :
          Cat(u, Cat(<<QUOTE>>, v)) = Cat(w, Cat(<<QUOTE>>, x)) => u = w /\ v = x
  BY Delimited
<1>s. T \subseteq S
  OBVIOUS
<1> HIDE DEF T
<1>0. SUFFICES ASSUME NEW o1 \in Seq(T), NEW o2 \in Seq(T),
                      NEW x1 \in Seq(S), NEW e1 \in Seq(S), NEW x2 \in Seq(S), NEW e2 \in Seq(S),
                      NEW t1, NEW c1, NEW t2, NEW c2,
                      Text(t1, c1, o1, x1, e1) = Text(t2, c2, o2, x2, e2)
               PROVE  c1 = c2 /\ o1 = o2 /\ Cat(x1, e1) = Cat(x2, e2)
  BY Zenon DEF Readable, T
<1> DEFINE U == S \cup {t1, t2, c1, c2, "type", "challenge", "origin"}
           h1 == <<"type", t1, "challenge", c1, "origin">>
           h2 == <<"type", t2, "challenge", c2, "origin">>
           q == <<QUOTE>>
           r1 == Cat(o1, Cat(q, Cat(x1, e1)))
           r2 == Cat(o2, Cat(q, Cat(x2, e2)))
<1>1. h1 \in Seq(U) /\ h2 \in Seq(U) /\ Len(h1) = 5 /\ Len(h2) = 5
  OBVIOUS
<1>2. QUOTE \in S /\ q \in Seq(S)
  OBVIOUS
<1>3. x1 \o e1 \in Seq(S) /\ x2 \o e2 \in Seq(S)
  BY ConcatProperties
<1>4. S \subseteq U /\ T \subseteq S
  BY <1>s
<1>5. /\ o1 \in Seq(S) /\ o2 \in Seq(S)
      /\ o1 \in Seq(U) /\ o2 \in Seq(U) /\ q \in Seq(U) /\ x1 \in Seq(U) /\ x2 \in Seq(U)
      /\ e1 \in Seq(U) /\ e2 \in Seq(U)
  <2> HIDE DEF U, q
  <2>. QED  BY <1>2, <1>4, SeqMonotonic
<1> HIDE DEF U, h1, h2, q
<1>7. /\ Text(t1, c1, o1, x1, e1) = Cat(h1, r1) /\ r1 \in Seq(U)
      /\ Text(t2, c2, o2, x2, e2) = Cat(h2, r2) /\ r2 \in Seq(U)
  <2>1. h1 \in Seq(U) /\ h2 \in Seq(U)
    BY <1>1, Zenon
  <2>2. /\ Cat(Cat(Cat(Cat(h1, o1), q), x1), e1) = Cat(h1, r1) /\ r1 \in Seq(U)
        /\ Cat(Cat(Cat(Cat(h2, o2), q), x2), e2) = Cat(h2, r2) /\ r2 \in Seq(U)
    BY <1>5, <2>1, Regrouped
  <2>3. /\ Text(t1, c1, o1, x1, e1) = Cat(Cat(Cat(Cat(h1, o1), q), x1), e1)
        /\ Text(t2, c2, o2, x2, e2) = Cat(Cat(Cat(Cat(h2, o2), q), x2), e2)
    BY Zenon DEF Text, Cat, h1, h2, q
  <2>. QED  BY <2>2, <2>3, Zenon
<1> HIDE DEF r1, r2
<1>8. h1 = h2 /\ r1 = r2
  BY <1>0, <1>1, <1>7, SameParts DEF Cat
<1>9. c1 = c2
  BY <1>8 DEF h1, h2
<1>10. o1 = o2 /\ Cat(x1, e1) = Cat(x2, e2)
  <2> DEFINE y1 == x1 \o e1
             y2 == x2 \o e2
  <2>1. Cat(o1, Cat(q, y1)) = Cat(o2, Cat(q, y2))
    BY <1>8, Zenon DEF r1, r2, Cat
  <2>2. y1 \in Seq(S) /\ y2 \in Seq(S)
    BY <1>3
  <2>3. \A u, w \in Seq(T) : \A v, x \in Seq(S) :
            Cat(u, Cat(q, v)) = Cat(w, Cat(q, x)) => u = w /\ v = x
    BY <1>q, Zenon DEF q
  <2> HIDE DEF y1, y2
  <2>6. \A v, x \in Seq(S) : Cat(o1, Cat(q, v)) = Cat(o2, Cat(q, x)) => o1 = o2 /\ v = x
    BY <2>3
  <2>4. o1 = o2 /\ y1 = y2
    BY <2>1, <2>2, <2>6, Zenon
  <2>. QED  BY <2>4, Zenon DEF y1, y2, Cat
<1>. QED  BY <1>9, <1>10

(* What follows the quote: if it is the same in two texts and the fields   *)
(* after crossOrigin in the browser's text are not named crossOrigin, then *)
(* these fields are the ones the program writes.                           *)
LEMMA TailParts ==
    ASSUME NEW S, NEW a \in S, NEW b \in S, "crossOrigin" \in S, GOOGLE_EXTRA \in Seq(S),
           NEW x1, NEW e1, NEW x2, NEW e2
    PROVE  /\ x1 \in {<<>>, <<"crossOrigin", a>>} /\ e1 \in {<<>>, GOOGLE_EXTRA}
           /\ x2 \in {<<>>, <<"crossOrigin", b>>} /\ e2 \in Seq(S \ {"crossOrigin"})
           /\ Cat(x1, e1) = Cat(x2, e2)
           => e2 = e1
<1>0. SUFFICES ASSUME x1 \in {<<>>, <<"crossOrigin", a>>}, e1 \in {<<>>, GOOGLE_EXTRA},
                      x2 \in {<<>>, <<"crossOrigin", b>>}, e2 \in Seq(S \ {"crossOrigin"}),
                      x1 \o e1 = x2 \o e2
               PROVE  e2 = e1
  BY Zenon DEF Cat
<1>1. x1 \in Seq(S) /\ x2 \in Seq(S) /\ e1 \in Seq(S)
  <2>1. <<>> \in Seq(S) /\ <<"crossOrigin", a>> \in Seq(S) /\ <<"crossOrigin", b>> \in Seq(S)
    OBVIOUS
  <2>. QED  BY <1>0, <2>1, Zenon
<1>2. e2 \in Seq(S) /\ Len(e2) \in Nat /\ \A i \in 1..Len(e2) : e2[i] # "crossOrigin"
  BY <1>0, LenProperties, ElementOfSeq
<1>3. Len(GOOGLE_EXTRA) = 1 /\ GOOGLE_EXTRA[1] # "crossOrigin"
  BY DEF GOOGLE_EXTRA
<1>4. CASE x1 = <<>> /\ x2 = <<>>
  <2>1. x1 \o e1 = e1 /\ x2 \o e2 = e2
    BY <1>1, <1>2, <1>4, ConcatEmptySeq
  <2>. QED  BY <1>0, <2>1
<1>5. CASE x1 = <<>> /\ x2 = <<"crossOrigin", b>>
  <2>1. x1 \o e1 = e1
    BY <1>1, <1>5, ConcatEmptySeq
  <2>2. Len(x2) = 2 /\ x2[1] = "crossOrigin"
    BY <1>5
  <2>3. Len(x2 \o e2) >= 2
    <3>1. Len(x2 \o e2) = Len(x2) + Len(e2)
      BY <1>1, <1>2, Parts
    <3>. QED  BY <1>2, <2>2, <3>1
  <2>4. Len(e1) <= 1
    BY <1>0, <1>3
  <2>5. Len(e1) \in Nat
    BY <1>1, LenProperties
  <2>. QED  BY <1>0, <2>1, <2>3, <2>4, <2>5
<1>6. CASE x1 = <<"crossOrigin", a>> /\ x2 = <<>>
  <2>1. x2 \o e2 = e2
    BY <1>2, <1>6, ConcatEmptySeq
  <2>2. Len(x1) = 2 /\ x1[1] = "crossOrigin"
    BY <1>6
  <2>3. Len(x1 \o e1) >= 2 /\ (x1 \o e1)[1] = "crossOrigin"
    <3>1. Len(x1 \o e1) = Len(x1) + Len(e1) /\ Len(e1) \in Nat /\ \A i \in 1..Len(x1) : (x1 \o e1)[i] = x1[i]
      BY <1>1, Parts
    <3>. QED  BY <2>2, <3>1
  <2>. QED  BY <1>0, <1>2, <2>1, <2>3
<1>7. CASE x1 = <<"crossOrigin", a>> /\ x2 = <<"crossOrigin", b>>
  <2>1. Len(x1) = Len(x2)
    BY <1>7
  <2>. QED  BY <1>0, <1>1, <1>2, <2>1, SameParts
<1>. QED  BY <1>0, <1>4, <1>5, <1>6, <1>7

(* The program rebuilds the text that was signed only with the challenge   *)
(* that was signed, for an origin that is the relying party id but for the *)
(* scheme, and only if the browser wrote no fields of its own.             *)
LEMMA RebuiltIsSigned ==
    ASSUME NEW c \in Ceremonies, NEW ch, NEW n \in RpIds, QUOTE \notin ToSet(n),
           NEW flags, NEW port, port = {} \/ \E p \in port : port = {p} /\ p # QUOTE, NEW asked,
           reconstruct_client_data_json(flags, port, n, asked) = clientDataJSON(c, ch)
    PROVE  /\ asked = ch
           /\ Origin(c.scheme, c.host, c.port) = Origin(c.scheme, n, port)
           /\ c.extra \in {<<>>, GOOGLE_EXTRA}
<1> DEFINE S == ToSet(n) \cup ToSet(c.host) \cup ToSet(c.extra) \cup port \cup c.port
                  \cup {QUOTE, COLON, "http", "https", "crossOrigin", "true", "false",
                        "other_keys_can_be_added_here"}
           T == S \ {QUOTE}
           prefix == IF IsSet(flags, FLAG_HTTP_ORIGIN) THEN "http" ELSE "https"
           o1 == Origin(prefix, n, port)
           o2 == Origin(c.scheme, c.host, c.port)
           a == IF IsSet(flags, FLAG_CROSS_ORIGIN) THEN "true" ELSE "false"
           x1 == IF IsSet(flags, FLAG_OMIT_CROSS_ORIGIN) THEN <<>> ELSE <<"crossOrigin", a>>
           x2 == IF c.cross = <<>> THEN <<>> ELSE <<"crossOrigin", c.cross[1]>>
           e1 == IF IsSet(flags, FLAG_GOOGLE_EXTRA) THEN GOOGLE_EXTRA ELSE <<>>
           e2 == c.extra
<1>1. /\ c.scheme \in {"http", "https"}
      /\ c.host \in Seq(ToSet(c.host)) /\ QUOTE \notin ToSet(c.host)
      /\ c.port = {} \/ \E p \in c.port : c.port = {p} /\ p # QUOTE
      /\ c.cross \in {<<>>, <<"true">>, <<"false">>}
      /\ c.extra \in Seq(ToSet(c.extra)) /\ "crossOrigin" \notin ToSet(c.extra)
      /\ n \in Seq(ToSet(n))
  BY CeremoniesAssumption, TokensAssumption
<1>2. /\ ToSet(n) \subseteq T /\ ToSet(c.host) \subseteq T /\ ToSet(c.extra) \subseteq S \ {"crossOrigin"}
      /\ {"http", "https", COLON} \subseteq S
      /\ port = {} \/ \E p \in port : port = {p} /\ p \in T
      /\ c.port = {} \/ \E p \in c.port : c.port = {p} /\ p \in T
  BY <1>1
<1>3. /\ {QUOTE, "crossOrigin", "true", "false", "other_keys_can_be_added_here"} \subseteq S
  OBVIOUS
<1>4. GOOGLE_EXTRA \in Seq(S)
  <2> HIDE DEF S
  <2>. QED  BY <1>3 DEF GOOGLE_EXTRA
<1> HIDE DEF S
<1>5. n \in Seq(T) /\ c.host \in Seq(T) /\ e2 \in Seq(S \ {"crossOrigin"}) /\ e2 \in Seq(S)
  <2> HIDE DEF T
  <2>. QED  BY <1>1, <1>2, SeqMonotonic
<1>6. prefix \in {"http", "https"} /\ a \in {"true", "false"} /\ a \in S
  BY <1>3
<1>7. o1 \in Seq(T) /\ o1[1] = prefix
  <2> HIDE DEF prefix
  <2>. QED  BY <1>2, <1>5, <1>6, OriginType
<1>8. o2 \in Seq(T) /\ o2[1] = c.scheme
  BY <1>1, <1>2, <1>5, OriginType
<1>9. PICK b \in S : x2 \in {<<>>, <<"crossOrigin", b>>}
  BY <1>1, <1>3
<1>10. /\ x1 \in {<<>>, <<"crossOrigin", a>>} /\ e1 \in {<<>>, GOOGLE_EXTRA}
       /\ x1 \in Seq(S) /\ x2 \in Seq(S) /\ e1 \in Seq(S)
  <2>1. x1 \in {<<>>, <<"crossOrigin", a>>} /\ e1 \in {<<>>, GOOGLE_EXTRA}
    BY Zenon
  <2> HIDE DEF x1, x2, e1, a
  <2>2. <<>> \in Seq(S) /\ <<"crossOrigin", a>> \in Seq(S) /\ <<"crossOrigin", b>> \in Seq(S)
    BY <1>3, <1>6
  <2>. QED  BY <1>4, <1>9, <2>1, <2>2, Zenon
<1>11. /\ reconstruct_client_data_json(flags, port, n, asked) = Text(auth_type(flags), asked, o1, x1, e1)
       /\ clientDataJSON(c, ch) = Text(c.type, ch, o2, x2, e2)
  BY Zenon DEF reconstruct_client_data_json, clientDataJSON
<1> HIDE DEF o1, o2, x1, x2, e1, e2, a, prefix
<1>12. asked = ch /\ o1 = o2 /\ Cat(x1, e1) = Cat(x2, e2)
  <2>1. Text(auth_type(flags), asked, o1, x1, e1) = Text(c.type, ch, o2, x2, e2)
    BY <1>11
  <2>2. Readable(S, T)
    BY <1>3, TextParts
  <2> HIDE DEF T
  <2>3. o1 \in Seq(T) /\ o2 \in Seq(T)
    BY <1>7, <1>8, Zenon
  <2>4. \A y1, f1, y2, f2 \in Seq(S) : \A t1, c1, t2, c2 :
            Text(t1, c1, o1, y1, f1) = Text(t2, c2, o2, y2, f2)
                => c1 = c2 /\ o1 = o2 /\ Cat(y1, f1) = Cat(y2, f2)
    BY <2>2, <2>3 DEF Readable
  <2>5. x1 \in Seq(S) /\ e1 \in Seq(S) /\ x2 \in Seq(S) /\ e2 \in Seq(S)
    BY <1>5, <1>10, Zenon
  <2>6. \A t1, c1, t2, c2 :
            Text(t1, c1, o1, x1, e1) = Text(t2, c2, o2, x2, e2)
                => c1 = c2 /\ o1 = o2 /\ Cat(x1, e1) = Cat(x2, e2)
    BY <2>4, <2>5
  <2>. QED  BY <2>1, <2>6, Zenon
<1>13. e2 = e1
  <2>1. a \in S /\ b \in S /\ "crossOrigin" \in S /\ GOOGLE_EXTRA \in Seq(S)
    BY <1>3, <1>4, <1>6
  <2>2. /\ x1 \in {<<>>, <<"crossOrigin", a>>} /\ e1 \in {<<>>, GOOGLE_EXTRA}
        /\ x2 \in {<<>>, <<"crossOrigin", b>>} /\ e2 \in Seq(S \ {"crossOrigin"})
        /\ Cat(x1, e1) = Cat(x2, e2)
    BY <1>5, <1>9, <1>10, <1>12, Zenon
  <2>. QED  BY <2>1, <2>2, TailParts
<1>14. o2 = Origin(c.scheme, n, port)
  <2>1. prefix = c.scheme
    BY <1>7, <1>8, <1>12
  <2>. QED  BY <1>12, <2>1 DEF o1
<1>. QED  BY <1>10, <1>12, <1>13, <1>14 DEF o2, e2

(* The verdict in terms of the ceremony: the user was present, the relying *)
(* party ids are the same, and the program rebuilt the browser's text.     *)
LEMMA VerdictIs ==
    ASSUME NEW c \in Ceremonies, NEW ch, NEW n \in RpIds, Len(n) <= MAX_RP_ID, NEW params, NEW asked
    PROVE  verify_payload(RpIdInformation(n), Message(c, ch), params, asked) =
               IF /\ IsSet(c.flags, 1)
                  /\ n = c.rp_id
                  /\ reconstruct_client_data_json(params.flags, params.port, n, asked)
                         = clientDataJSON(c, ch)
               THEN {c.counter} ELSE {}
<1> DEFINE info == RpIdInformation(n)
           m == Message(c, ch)
           d == SubSeq(m, 1, split_at(m))
           t == SubSeq(m, split_at(m) + 1, Len(m))
           r == SubSeq(info.rp_id, 1, info.rp_id_len)
           J(rp) == reconstruct_client_data_json(params.flags, params.port, rp, asked)
           text == clientDataJSON(c, ch)
<1>1. t = hash(text) /\ rp_id_hash(d) = hash(c.rp_id) /\ is_user_present(d) = IsSet(c.flags, 1)
      /\ get_counter(d) = c.counter
  BY MessageLayout, Zenon
<1>2. r = n /\ info.rp_id_hash = hash(n)
  <2>1. n \in Seq(ToSet(n))
    BY TokensAssumption
  <2>. QED  BY <2>1, RpIdBack, Zenon
<1>3. verify_payload(info, m, params, asked) =
          IF is_user_present(d) /\ info.rp_id_hash = rp_id_hash(d) /\ hash(J(r)) = t
          THEN {get_counter(d)} ELSE {}
  BY Zenon DEF verify_payload
<1> HIDE DEF info, m, d, t, r, J, text
<1>4. info.rp_id_hash = rp_id_hash(d) <=> n = c.rp_id
  BY <1>1, <1>2, HashInjective, Zenon
<1>5. hash(J(r)) = t <=> J(n) = text
  BY <1>1, <1>2, HashInjective, Zenon
<1>6. verify_payload(info, m, params, asked) =
          IF IsSet(c.flags, 1) /\ n = c.rp_id /\ J(n) = text THEN {c.counter} ELSE {}
  BY <1>1, <1>3, <1>4, <1>5, Zenon
<1>. QED  BY <1>6, Zenon DEF info, m, J, text

-----------------------------------------------------------------------------
(***************************************************************************)
(* The flags                                                               *)
(***************************************************************************)

\* What the program reads from a byte of flags.
Reads(flags, create, cross, has_cross, http, extra) ==
    /\ auth_type(flags) = IF create THEN "webauthn.create" ELSE "webauthn.get"
    /\ IsSet(flags, FLAG_CROSS_ORIGIN) <=> cross
    /\ IsSet(flags, FLAG_HTTP_ORIGIN) <=> http
    /\ IsSet(flags, FLAG_GOOGLE_EXTRA) <=> extra
    /\ IsSet(flags, FLAG_OMIT_CROSS_ORIGIN) <=> ~ has_cross

(* Every flag of the byte the clients pack is read back by the program.    *)
LEMMA PackedBits ==
    ASSUME NEW create \in BOOLEAN, NEW cross \in BOOLEAN, NEW has_cross \in BOOLEAN,
           NEW http \in BOOLEAN, NEW extra \in BOOLEAN
    PROVE  Reads(pack(create, cross, has_cross, http, extra),
                 create, cross, has_cross, http, extra)
<1> DEFINE t == IF create THEN 0 ELSE 16
           a == IF cross THEN 1 ELSE 0
           h == IF http THEN 2 ELSE 0
           g == IF extra THEN 4 ELSE 0
           o == IF has_cross THEN 0 ELSE 8
           flags == t + a + h + g + o
<1>1. pack(create, cross, has_cross, http, extra) = flags
  BY DEF pack, Set, TYPE_CREATE, TYPE_GET, FLAG_CROSS_ORIGIN, FLAG_HTTP_ORIGIN,
         FLAG_GOOGLE_EXTRA, FLAG_OMIT_CROSS_ORIGIN
<1>2. /\ t \in {0, 16} /\ a \in {0, 1} /\ h \in {0, 2} /\ g \in {0, 4} /\ o \in {0, 8}
      /\ (t = 0 <=> create) /\ (a = 1 <=> cross) /\ (h = 2 <=> http) /\ (g = 4 <=> extra)
      /\ (o = 8 <=> ~ has_cross)
  OBVIOUS
<1> HIDE DEF t, a, h, g, o
<1>3. (flags \div 16) * 16 = 16 <=> t = 16
  BY <1>2
<1>4. (flags \div 1) % 2 = 1 <=> a = 1
  BY <1>2
<1>5. (flags \div 2) % 2 = 1 <=> h = 2
  BY <1>2
<1>6. (flags \div 4) % 2 = 1 <=> g = 4
  BY <1>2
<1>7. (flags \div 8) % 2 = 1 <=> o = 8
  BY <1>2
<1> HIDE DEF flags
<1>8. auth_type(flags) = IF create THEN "webauthn.create" ELSE "webauthn.get"
  BY <1>2, <1>3 DEF auth_type, TYPE_GET
<1>. QED  BY <1>1, <1>2, <1>4, <1>5, <1>6, <1>7, <1>8
          DEF Reads, IsSet, FLAG_CROSS_ORIGIN, FLAG_HTTP_ORIGIN, FLAG_GOOGLE_EXTRA, FLAG_OMIT_CROSS_ORIGIN

\* The flags a client packs for a ceremony.
ClientFlags(c) ==
    pack(c.type = "webauthn.create", c.cross = <<"true">>, c.cross # <<>>,
         c.scheme = "http", c.extra = GOOGLE_EXTRA)

(* From the flags and the port of a ceremony without fields of its own the *)
(* program rebuilds the very text the browser wrote, if the page's host is *)
(* the relying party id.                                                   *)
LEMMA HonestRebuilt ==
    ASSUME NEW c \in Ceremonies, NEW ch, c.extra \in {<<>>, GOOGLE_EXTRA}
    PROVE  reconstruct_client_data_json(ClientFlags(c), c.port, c.host, ch) = clientDataJSON(c, ch)
<1> DEFINE f == ClientFlags(c)
<1>1. /\ auth_type(f) = IF c.type = "webauthn.create" THEN "webauthn.create" ELSE "webauthn.get"
      /\ IsSet(f, FLAG_CROSS_ORIGIN) <=> c.cross = <<"true">>
      /\ IsSet(f, FLAG_HTTP_ORIGIN) <=> c.scheme = "http"
      /\ IsSet(f, FLAG_GOOGLE_EXTRA) <=> c.extra = GOOGLE_EXTRA
      /\ IsSet(f, FLAG_OMIT_CROSS_ORIGIN) <=> c.cross = <<>>
  <2> DEFINE p == c.type = "webauthn.create"
             q == c.cross = <<"true">>
             r == c.cross # <<>>
             s == c.scheme = "http"
             t == c.extra = GOOGLE_EXTRA
  <2>1. p \in BOOLEAN /\ q \in BOOLEAN /\ r \in BOOLEAN /\ s \in BOOLEAN /\ t \in BOOLEAN
    OBVIOUS
  <2>2. f = pack(p, q, r, s, t) /\ (~ r <=> c.cross = <<>>)
    BY Zenon DEF ClientFlags
  <2> HIDE DEF f
  <2>3. Reads(f, p, q, r, s, t)
    <3> HIDE DEF p, q, r, s, t
    <3>. QED  BY <2>1, <2>2, PackedBits, Zenon
  <2>. QED  BY <2>2, <2>3, Zenon DEF Reads
<1> HIDE DEF f
<1>2. /\ c.type \in {"webauthn.get", "webauthn.create"} /\ c.scheme \in {"http", "https"}
      /\ c.cross \in {<<>>, <<"true">>, <<"false">>}
  BY CeremoniesAssumption
<1>3. auth_type(f) = c.type
  BY <1>1, <1>2
<1>4. (IF IsSet(f, FLAG_HTTP_ORIGIN) THEN "http" ELSE "https") = c.scheme
  BY <1>1, <1>2
<1>5. (IF IsSet(f, FLAG_OMIT_CROSS_ORIGIN) THEN <<>>
       ELSE <<"crossOrigin", IF IsSet(f, FLAG_CROSS_ORIGIN) THEN "true" ELSE "false">>)
      = (IF c.cross = <<>> THEN <<>> ELSE <<"crossOrigin", c.cross[1]>>)
  <2>1. CASE c.cross = <<>>
    BY <1>1, <2>1
  <2>2. CASE c.cross = <<"true">>
    BY <1>1, <2>2
  <2>3. CASE c.cross = <<"false">>
    BY <1>1, <2>3
  <2>. QED  BY <1>2, <2>1, <2>2, <2>3
<1>6. (IF IsSet(f, FLAG_GOOGLE_EXTRA) THEN GOOGLE_EXTRA ELSE <<>>) = c.extra
  BY <1>1
<1>. QED  BY <1>3, <1>4, <1>5, <1>6, Zenon DEF reconstruct_client_data_json, clientDataJSON, f

-----------------------------------------------------------------------------
(***************************************************************************)
(* The inductive invariant                                                 *)
(***************************************************************************)

\* The account, if there is one, holds the relying party id that was named.
Registered ==
    /\ named \in RpIds /\ ceremony \in Ceremonies
    /\ account # {} => /\ account = {RpIdInformation(named)}
                       /\ Len(named) <= MAX_RP_ID /\ QUOTE \notin ToSet(named)
    /\ step \in {"sign", "pack", "verify"} => account # {}

\* What was packed is what the packer makes of the ceremony; only someone
\* else asks for another challenge.
PackedBy ==
    /\ by \in {"none", "typescript", "rust", "other"}
    /\ by = "none" => packed = {}
    /\ by # "none" => message = Message(ceremony, challenge)
    /\ by = "typescript" => packed = parseClientDataJsonReconstructionParams(ceremony)
    /\ by = "rust" => packed = WebAuthnData_new(ceremony)
    /\ by = "other" => \E f \in Flags, p \in PortOption : packed = {Params(f, p)}
    /\ by # "other" => payload = challenge

\* There is a verdict at the end only, and it is verify_payload's, unless the
\* account was refused or there is nothing to send.
Decided ==
    /\ step # "done" => verdict = {}
    /\ step = "done" =>
           \/ account = {} /\ verdict = {}
           \/ packed = {} /\ verdict = {}
           \/ \E info \in account, params \in packed :
                  verdict = verify_payload(info, message, params, payload)

MessageInv ==
    /\ Registered /\ PackedBy /\ Decided
    /\ step \in {"initialize", "sign", "pack"} => by = "none"
    /\ step = "pack" => message = Message(ceremony, challenge)
    /\ step = "verify" => by # "none"

(* Every step keeps the invariant: what is signed, packed and decided is   *)
(* determined by the ceremony, the account and the packer.                 *)
LEMMA MessageStep ==
    MessageInv /\ [MessageNext]_messageVars => MessageInv'
<1>. SUFFICES ASSUME MessageInv, [MessageNext]_messageVars PROVE MessageInv'
  OBVIOUS
<1>. USE DEF MessageInv, Registered, PackedBy, Decided
<1>1. CASE Register
  <2>1. account' # {} => account' = {RpIdInformation(named)} /\ ~(Len(named) > MAX_RP_ID)
                         /\ QUOTE \notin ToSet(named)
    BY <1>1 DEF Register, parsed_initialization_data
  <2>2. named \in RpIds /\ (account' # {} => Len(named) <= MAX_RP_ID)
    <3>1. named \in RpIds
      OBVIOUS
    <3>2. Len(named) \in Nat /\ MAX_RP_ID \in Nat
      BY <3>1, TokensAssumption, LenProperties
    <3>. QED  BY <2>1, <3>1, <3>2
  <2>. QED  BY <1>1, <2>1, <2>2 DEF Register
<1>2. CASE Approve
  BY <1>2 DEF Approve
<1>3. CASE PackTypescript
  BY <1>3 DEF PackTypescript
<1>4. CASE PackRust
  BY <1>4 DEF PackRust
<1>5. CASE PackOther
  BY <1>5 DEF PackOther
<1>6. CASE VerifyMessage
  BY <1>6 DEF VerifyMessage
<1>7. CASE UNCHANGED messageVars
  BY <1>7 DEF messageVars
<1>. QED  BY <1>1, <1>2, <1>3, <1>4, <1>5, <1>6, <1>7 DEF MessageNext

(* The invariant holds of every behaviour.                                 *)
THEOREM MessageInvariance == MessageSpec => []MessageInv
<1>1. MessageInit => MessageInv
  BY DEF MessageInit, MessageInv, Registered, PackedBy, Decided
<1>. QED  BY <1>1, MessageStep, PTL DEF MessageSpec

-----------------------------------------------------------------------------
(* Whatever flags, port and challenge a transaction carries, the program   *)
(* accepts a message only for the challenge that was signed, on a page of  *)
(* the account's relying party, with the user present, and reads the       *)
(* authenticator's own counter from it.                                    *)
THEOREM AcceptedMessages == MessageSpec => []AcceptedIsSigned
<1>1. ASSUME MessageInv PROVE AcceptedIsSigned
  <2>1. SUFFICES ASSUME verdict # {}
                 PROVE  /\ payload = challenge
                        /\ ceremony.rp_id = named
                        /\ IsSet(ceremony.flags, 1)
                        /\ \E p \in packed :
                               Origin(ceremony.scheme, ceremony.host, ceremony.port)
                                   = Origin(ceremony.scheme, named, p.port)
                        /\ ceremony.extra \in {<<>>, GOOGLE_EXTRA}
                        /\ verdict = {ceremony.counter}
    BY DEF AcceptedIsSigned
  <2>2. Registered /\ PackedBy
    BY <1>1 DEF MessageInv
  <2>3. PICK info \in account, params \in packed :
            verdict = verify_payload(info, message, params, payload)
    BY <1>1, <2>1 DEF MessageInv, Decided
  <2>4. /\ info = RpIdInformation(named) /\ named \in RpIds /\ ceremony \in Ceremonies
        /\ Len(named) <= MAX_RP_ID /\ QUOTE \notin ToSet(named)
    BY <2>2, <2>3 DEF Registered
  <2>5. message = Message(ceremony, challenge)
    BY <2>2, <2>3 DEF PackedBy
  <2>6. params.port = {} \/ \E p \in params.port : params.port = {p} /\ p # QUOTE
    <3>1. CASE by \in {"typescript", "rust"}
      <4>1. params.port = ceremony.port
        <5>1. packed = parseClientDataJsonReconstructionParams(ceremony)
                \/ packed = WebAuthnData_new(ceremony)
          BY <2>2, <3>1 DEF PackedBy
        <5>2. \A q \in parseClientDataJsonReconstructionParams(ceremony) :
                  \E f : q = Params(f, ceremony.port)
          BY DEF parseClientDataJsonReconstructionParams
        <5>3. \A q \in WebAuthnData_new(ceremony) : \E f : q = Params(f, ceremony.port)
          BY DEF WebAuthnData_new
        <5>4. \E f : params = Params(f, ceremony.port)
          BY <2>3, <5>1, <5>2, <5>3
        <5>. QED  BY <5>4 DEF Params
      <4>. QED  BY <2>4, <4>1, CeremoniesAssumption
    <3>2. CASE by = "other"
      <4>1. params.port \in PortOption
        BY <2>2, <2>3, <3>2 DEF PackedBy, Params
      <4>. QED  BY <4>1, TokensAssumption DEF PortOption, QUOTE
    <3>. QED  BY <2>2, <2>3, <3>1, <3>2 DEF PackedBy
  <2> DEFINE json == reconstruct_client_data_json(params.flags, params.port, named, payload)
             text == clientDataJSON(ceremony, challenge)
  <2>7. verdict = IF IsSet(ceremony.flags, 1) /\ named = ceremony.rp_id /\ json = text
                  THEN {ceremony.counter} ELSE {}
    BY <2>3, <2>4, <2>5, VerdictIs
  <2>8. IsSet(ceremony.flags, 1) /\ named = ceremony.rp_id /\ json = text
        /\ verdict = {ceremony.counter}
    <3> HIDE DEF json, text
    <3>. QED  BY <2>1, <2>7
  <2>9. /\ payload = challenge
        /\ Origin(ceremony.scheme, ceremony.host, ceremony.port)
               = Origin(ceremony.scheme, named, params.port)
        /\ ceremony.extra \in {<<>>, GOOGLE_EXTRA}
    BY <2>4, <2>6, <2>8, RebuiltIsSigned
  <2>. QED  BY <2>3, <2>8, <2>9
<1>. QED  BY <1>1, MessageInvariance, PTL

(* What the SDKs send for a page of the account's relying party, with the  *)
(* user present and no fields but the known ones, is accepted.             *)
THEOREM HonestMessages == MessageSpec => []HonestAccepted
<1>1. ASSUME MessageInv PROVE HonestAccepted
  <2>1. SUFFICES ASSUME step = "done", account # {}, by \in {"typescript", "rust"},
                        ceremony.rp_id = named, ceremony.host = named,
                        IsSet(ceremony.flags, 1), ceremony.extra \in {<<>>, GOOGLE_EXTRA},
                        by = "rust" => ceremony.cross # <<>>
                 PROVE  verdict = {ceremony.counter}
    BY Zenon DEF HonestAccepted
  <2>2. Registered /\ PackedBy /\ Decided
    BY <1>1 DEF MessageInv
  <2>3. packed = {Params(ClientFlags(ceremony), ceremony.port)}
    <3>1. CASE by = "typescript"
      <4>1. ceremony.extra # <<"foreign">>
        BY <2>1 DEF GOOGLE_EXTRA
      <4>2. packed = parseClientDataJsonReconstructionParams(ceremony)
        BY <2>2, <3>1 DEF PackedBy
      <4>. QED  BY <4>1, <4>2, Zenon DEF parseClientDataJsonReconstructionParams, ClientFlags
    <3>2. CASE by = "rust"
      <4>1. packed = WebAuthnData_new(ceremony)
        BY <2>2, <3>2 DEF PackedBy
      <4>2. (ceremony.cross # <<>>) = TRUE
        BY <2>1, <3>2
      <4>. QED  BY <4>1, <4>2, Zenon DEF WebAuthnData_new, ClientFlags
    <3>. QED  BY <2>1, <3>1, <3>2
  <2>4. PICK info \in account, params \in packed :
            verdict = verify_payload(info, message, params, payload)
    BY <2>1, <2>2, <2>3 DEF Decided
  <2>5. /\ info = RpIdInformation(named) /\ named \in RpIds /\ ceremony \in Ceremonies
        /\ Len(named) <= MAX_RP_ID
    BY <2>2, <2>4 DEF Registered
  <2>6. message = Message(ceremony, challenge) /\ payload = challenge
    BY <2>1, <2>2 DEF PackedBy
  <2>7. params.flags = ClientFlags(ceremony) /\ params.port = ceremony.port
    BY <2>3, <2>4 DEF Params
  <2> DEFINE J(f, p, rp, ch) == reconstruct_client_data_json(f, p, rp, ch)
             text == clientDataJSON(ceremony, challenge)
  <2>8. J(ClientFlags(ceremony), ceremony.port, ceremony.host, challenge) = text
    BY <2>1, <2>5, HonestRebuilt
  <2>9. verdict = IF IsSet(ceremony.flags, 1) /\ named = ceremony.rp_id
                     /\ J(params.flags, params.port, named, payload) = text
                  THEN {ceremony.counter} ELSE {}
    BY <2>4, <2>5, <2>6, VerdictIs
  <2> HIDE DEF J, text
  <2>10. J(params.flags, params.port, named, payload) = text
    BY <2>1, <2>6, <2>7, <2>8
  <2>. QED  BY <2>1, <2>9, <2>10
<1>. QED  BY <1>1, MessageInvariance, PTL
=============================================================================
