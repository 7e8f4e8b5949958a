----------------------------- MODULE WireProofs -----------------------------
(***************************************************************************)
(* Proofs about Wire, for every BASE, all operations and lists and vectors *)
(* of every length: what the program reads is what the SDK wrote           *)
(* (WireRoundTrip, WireHonestDelivered), nothing else has the same bytes   *)
(* (WireOneEncoding), and a challenge is that of one operation only        *)
(* (WireApprovalBinds).                                                    *)
(*                                                                         *)
(* Each reader is shown to return x and the position behind it exactly     *)
(* when the bytes hold the encoding of x there. Lists need induction on    *)
(* their length: the codes of their members are prefix free, so bytes hold *)
(* at most one list of a given length. The invariant says that the bytes   *)
(* the reader has passed are a head and the encoding of the arguments read *)
(* so far.                                                                 *)
(***************************************************************************)
EXTENDS Wire, SequenceTheorems, WellFoundedInduction, TLAPS

\* A set of naturals that is not empty has a least element.
LEMMA LeastNatural ==
    ASSUME NEW T \in SUBSET Nat, T # {}
    PROVE  \E x \in T : \A y \in T : x <= y
<1> DEFINE R == OpToRel(<, Nat)
<1>1. IsWellFoundedOn(R, Nat)
  BY NatLessThanWellFounded
<1>2. \A y, x \in Nat : y < x => <<y, x>> \in R
  BY DEF OpToRel
<1> HIDE DEF R
<1>3. PICK x \in T : \A y \in T : ~(<<y, x>> \in R)
  BY <1>1, WFMin
<1>4. ASSUME NEW y \in T PROVE x <= y
  <2>1. x \in Nat /\ y \in Nat /\ ~(<<y, x>> \in R)
    BY <1>3
  <2>2. ~(y < x)
    BY <2>1, <1>2
  <2>. QED  BY <2>1, <2>2
<1>. QED
  BY <1>4

\* A set of naturals that holds 0 and the successors of its members is all
\* of them.  The lemmas below that count over a list or over bytes use it.
LEMMA Induction ==
    ASSUME NEW T \in SUBSET Nat, 0 \in T, \A n \in T : n + 1 \in T
    PROVE  T = Nat
<1> SUFFICES ASSUME T # Nat PROVE FALSE
  OBVIOUS
<1> DEFINE C == Nat \ T
<1>1. C \in SUBSET Nat /\ C # {}
  OBVIOUS
<1>2. PICK x \in C : \A y \in C : x <= y
  BY <1>1, LeastNatural
<1>3. x # 0 /\ x - 1 \in Nat /\ x - 1 \notin C
  BY <1>2
<1>. QED
  BY <1>3

\* f[i] is the concatenation of the first i members of s.
Running(f, s) ==
  f = [i \in 1..Len(s) |-> IF i = 1 THEN s[i] ELSE f[i - 1] \o s[i]]

\* FlattenSeq, in terms of the concatenations of the prefixes.
LEMMA FlattenIs == ASSUME NEW s, Len(s) # 0 PROVE FlattenSeq(s) = (CHOOSE f : Running(f, s))[Len(s)]
 BY Zenon DEF FlattenSeq, Running

\* One step of the prefixes: the next member is added behind.
LEMMA RunningAt ==
    ASSUME NEW s, NEW f, Running(f, s), NEW i \in 1..Len(s)
    PROVE  f[i] = IF i = 1 THEN s[i] ELSE f[i - 1] \o s[i]
<1> DEFINE h == [j \in 1..Len(s) |-> IF j = 1 THEN s[j] ELSE f[j - 1] \o s[j]]
<1>1. f = h
  BY Zenon DEF Running
<1>2. h[i] = IF i = 1 THEN s[i] ELSE f[i - 1] \o s[i]
  OBVIOUS
<1>. QED
  <2> HIDE DEF h
  <2>. QED  BY <1>1, <1>2, Zenon

\* The recursive function FlattenSeq is made of exists, for every list.
LEMMA RunningExists ==
    ASSUME NEW S, NEW s \in Seq(Seq(S))
    PROVE  \E f \in [1..Len(s) -> Seq(S)] : Running(f, s)
<1> DEFINE Rec(f, n) == \A i \in 1..n : f[i] = IF i = 1 THEN s[i] ELSE f[i - 1] \o s[i]
           Has(n) == \E f \in [1..n -> Seq(S)] : Rec(f, n)
           T == {n \in Nat : n <= Len(s) => Has(n)}
<1>1. 0 \in T
  <2> DEFINE f == [i \in 1..0 |-> <<>>]
  <2>1. f \in [1..0 -> Seq(S)] /\ Rec(f, 0)
    OBVIOUS
  <2> HIDE DEF f, Rec
  <2>2. Has(0)
    BY <2>1
  <2> HIDE DEF Has
  <2>. QED  BY <2>2
<1>2. ASSUME NEW n \in T PROVE n + 1 \in T
  <2> SUFFICES ASSUME n + 1 <= Len(s) PROVE Has(n + 1)
    <3> HIDE DEF Has
    <3>. QED  OBVIOUS
  <2>1. PICK f \in [1..n -> Seq(S)] : Rec(f, n)
    <3>1. n <= Len(s)
      BY LenProperties
    <3> HIDE DEF Rec
    <3>. QED  BY <3>1
  <2> DEFINE last == IF n = 0 THEN s[1] ELSE f[n] \o s[n + 1]
             g == [i \in 1..(n + 1) |-> IF i = n + 1 THEN last ELSE f[i]]
  <2>0. n \in Nat /\ Len(s) \in Nat
    BY LenProperties
  <2>2. last \in Seq(S)
    <3>1. s[n + 1] \in Seq(S)
      BY <2>0, ElementOfSeq
    <3>2. n # 0 => f[n] \in Seq(S)
      BY <2>0
    <3>. QED  BY <3>1, <3>2, <2>0, ConcatProperties
  <2> HIDE DEF last
  <2>3. g \in [1..(n + 1) -> Seq(S)]
    BY <2>0, <2>2
  <2>4. ASSUME NEW i \in 1..(n + 1)
        PROVE g[i] = IF i = 1 THEN s[i] ELSE g[i - 1] \o s[i]
    <3>1. CASE i = n + 1
      BY <3>1, <2>0 DEF last
    <3>2. CASE i # n + 1
      <4>1. i \in 1..n /\ g[i] = f[i] /\ (i # 1 => g[i - 1] = f[i - 1])
        BY <3>2, <2>0
      <4>. QED  BY <4>1, <2>1
    <3>. QED  BY <3>1, <3>2
  <2> HIDE DEF g
  <2>. QED  BY <2>3, <2>4
<1>3. T = Nat
  <2> HIDE DEF Has
  <2> T \in SUBSET Nat OBVIOUS
  <2> HIDE DEF T
  <2>. QED  BY <1>1, <1>2, Induction
<1>4. PICK f \in [1..Len(s) -> Seq(S)] : Rec(f, Len(s))
  <2>1. Len(s) \in T
    BY <1>3, LenProperties
  <2>. QED  BY <2>1, LenProperties
<1>5. Running(f, s)
  BY <1>4 DEF Running
<1>. QED  BY <1>5

\* Two functions have the same first n values.
Agree(f, g, n) == \A i \in 1..n : f[i] = g[i]

\* Lists that begin alike have the same concatenations of their prefixes.
LEMMA RunningUnique ==
    ASSUME NEW s, NEW t, NEW n \in Nat, n <= Len(s), n <= Len(t), Len(s) \in Nat, Len(t) \in Nat,
           Agree(s, t, n), NEW f, NEW g, Running(f, s), Running(g, t)
    PROVE  Agree(f, g, n)
<1> DEFINE T == {i \in Nat : i \in 1..n => f[i] = g[i]}
<1>0. ASSUME NEW i \in 1..n PROVE f[i] = IF i = 1 THEN s[i] ELSE f[i - 1] \o s[i]
  <2>1. i \in 1..Len(s)
    OBVIOUS
  <2>. QED  BY <2>1, RunningAt, Zenon
<1>1. ASSUME NEW i \in 1..n PROVE g[i] = IF i = 1 THEN t[i] ELSE g[i - 1] \o t[i]
  <2>1. i \in 1..Len(t)
    OBVIOUS
  <2>. QED  BY <2>1, RunningAt, Zenon
<1>2. 0 \in T
  OBVIOUS
<1>3. ASSUME NEW i \in T PROVE i + 1 \in T
  <2> SUFFICES ASSUME i + 1 \in 1..n PROVE f[i + 1] = g[i + 1]
    OBVIOUS
  <2>1. CASE i = 0
    BY <2>1, <1>0, <1>1 DEF Agree
  <2>2. CASE i # 0
    <3>1. i \in 1..n /\ f[i] = g[i]
      BY <2>2
    <3>2. (i + 1) - 1 = i /\ i + 1 # 1
      BY <2>2
    <3>3. f[i + 1] = f[i] \o s[i + 1]
      BY <1>0, <3>2, Zenon
    <3>4. g[i + 1] = g[i] \o t[i + 1]
      BY <1>1, <3>2, Zenon
    <3>5. s[i + 1] = t[i + 1]
      BY DEF Agree
    <3>. QED  BY <3>1, <3>3, <3>4, <3>5, Zenon
  <2>. QED  BY <2>1, <2>2
<1>4. T = Nat
  <2>1. T \in SUBSET Nat OBVIOUS
  <2> HIDE DEF T
  <2>. QED  BY <2>1, <1>2, <1>3, Induction
<1>. QED  BY <1>4 DEF Agree

\* FlattenSeq is the last of the concatenations of the prefixes.
LEMMA FlattenRuns ==
    ASSUME NEW S, NEW s \in Seq(Seq(S)), s # <<>>
    PROVE  \E f \in [1..Len(s) -> Seq(S)] : Running(f, s) /\ FlattenSeq(s) = f[Len(s)]
<1>1. Len(s) \in Nat /\ Len(s) # 0
  BY LenProperties, EmptySeq
<1> DEFINE f == CHOOSE g : Running(g, s)
<1>2. PICK h \in [1..Len(s) -> Seq(S)] : Running(h, s)
  BY RunningExists
<1>3. Running(f, s)
  BY <1>2
<1>4. FlattenSeq(s) = f[Len(s)]
  BY <1>1, FlattenIs
<1> HIDE DEF f
<1>5. \A i \in 1..Len(s) : f[i] = h[i]
  <2>1. Agree(s, s, Len(s)) /\ Len(s) <= Len(s)
    BY <1>1 DEF Agree
  <2>2. Agree(f, h, Len(s))
    BY <1>1, <1>2, <1>3, <2>1, RunningUnique
  <2>. QED  BY <2>2 DEF Agree
<1>6. f \in [1..Len(s) -> Seq(S)]
  <2>1. f = [i \in 1..Len(s) |-> IF i = 1 THEN s[i] ELSE f[i - 1] \o s[i]]
    BY <1>3 DEF Running
  <2> DEFINE e(i) == IF i = 1 THEN s[i] ELSE f[i - 1] \o s[i]
  <2>2. f = [i \in 1..Len(s) |-> e(i)]
    BY <2>1
  <2> HIDE DEF e
  <2>3. DOMAIN f = 1..Len(s) /\ f = [i \in 1..Len(s) |-> f[i]]
    BY <2>2
  <2>. QED  BY <2>3, <1>5, <1>2
<1>. QED  BY <1>3, <1>4, <1>6

\* Nothing flattened is nothing: serialize_slice of an empty vector.
LEMMA FlattenEmpty == FlattenSeq(<<>>) = <<>>
BY DEF FlattenSeq

\* A list of byte strings flattened is a byte string.
LEMMA FlattenType ==
    ASSUME NEW S, NEW s \in Seq(Seq(S))
    PROVE  FlattenSeq(s) \in Seq(S)
<1>1. CASE s = <<>>
  BY <1>1, FlattenEmpty, EmptySeq
<1>2. CASE s # <<>>
  <2>1. PICK f \in [1..Len(s) -> Seq(S)] : FlattenSeq(s) = f[Len(s)]
    BY <1>2, FlattenRuns
  <2>2. Len(s) \in 1..Len(s)
    BY <1>2, LenProperties, EmptySeq
  <2>. QED  BY <2>1, <2>2
<1>. QED  BY <1>1, <1>2

\* One more element of a vector is serialised behind the others.
LEMMA FlattenAppend ==
    ASSUME NEW S, NEW s \in Seq(Seq(S)), NEW x \in Seq(S)
    PROVE  FlattenSeq(Append(s, x)) = FlattenSeq(s) \o x
<1> DEFINE t == Append(s, x)
<1>1. /\ t \in Seq(Seq(S)) /\ t # <<>> /\ Len(t) = Len(s) + 1 /\ Len(s) \in Nat
      /\ t[Len(s) + 1] = x /\ \A i \in 1..Len(s) : t[i] = s[i]
  BY AppendProperties, LenProperties
<1> HIDE DEF t
<1>2. PICK g \in [1..Len(t) -> Seq(S)] : Running(g, t) /\ FlattenSeq(t) = g[Len(t)]
  BY <1>1, FlattenRuns
<1>3. g[Len(t)] = IF Len(t) = 1 THEN t[Len(t)] ELSE g[Len(t) - 1] \o t[Len(t)]
  <2>1. Len(t) \in 1..Len(t)
    BY <1>1
  <2>. QED  BY <1>2, <2>1, RunningAt, Zenon
<1>4. CASE s = <<>>
  <2>1. Len(s) = 0
    BY <1>4
  <2>. QED  BY <1>1, <1>2, <1>3, <1>4, <2>1, FlattenEmpty, ConcatEmptySeq DEF t
<1>5. CASE s # <<>>
  <2>1. PICK f \in [1..Len(s) -> Seq(S)] : Running(f, s) /\ FlattenSeq(s) = f[Len(s)]
    BY <1>5, FlattenRuns
  <2>2. Len(s) \in 1..Len(s)
    BY <1>5, LenProperties, EmptySeq
  <2>3. f[Len(s)] = g[Len(s)]
    <3>1. Len(s) <= Len(s) /\ Len(s) <= Len(t) /\ Len(t) \in Nat
      BY <1>1
    <3>2. Agree(s, t, Len(s))
      BY <1>1 DEF Agree
    <3>3. Agree(f, g, Len(s))
      BY <1>1, <1>2, <2>1, <3>1, <3>2, RunningUnique
    <3>. QED  BY <2>2, <3>3 DEF Agree
  <2>4. Len(t) # 1 /\ Len(t) - 1 = Len(s)
    BY <1>1, <2>2
  <2>5. FlattenSeq(t) = g[Len(s)] \o x
    BY <1>1, <1>2, <1>3, <2>4
  <2>. QED  BY <2>1, <2>3, <2>5 DEF t
<1>. QED  BY <1>4, <1>5

-----------------------------------------------------------------------------
\* The bytes b hold v from position p on.
Holds(b, p, v) ==
    /\ p + Len(v) - 1 <= Len(b)
    /\ \A k \in 1..Len(v) : b[p + k - 1] = v[k]

\* Bytes hold two strings one after the other when they hold the first, and
\* the second behind it: how every field of the arguments is taken apart.
LEMMA HoldsConcat ==
    ASSUME NEW b \in Seq(Byte), NEW p \in Nat \ {0}, NEW v \in Seq(Byte), NEW w \in Seq(Byte)
    PROVE  /\ Holds(b, p, v \o w) <=> Holds(b, p, v) /\ Holds(b, p + Len(v), w)
           /\ v \o w \in Seq(Byte) /\ Len(v \o w) = Len(v) + Len(w)
           /\ Len(v) \in Nat /\ Len(w) \in Nat
<1> DEFINE c == v \o w
<1>1. /\ c \in Seq(Byte) /\ Len(c) = Len(v) + Len(w)
      /\ \A i \in 1..(Len(v) + Len(w)) : c[i] = IF i <= Len(v) THEN v[i] ELSE w[i - Len(v)]
  BY ConcatProperties
<1>2. Len(v) \in Nat /\ Len(w) \in Nat /\ Len(b) \in Nat
  BY LenProperties
<1> HIDE DEF c
<1>3. ASSUME Holds(b, p, c) PROVE Holds(b, p, v) /\ Holds(b, p + Len(v), w)
  <2>1. Holds(b, p, v)
    <3>1. \A k \in 1..Len(v) : k \in 1..Len(c) /\ c[k] = v[k]
      BY <1>1, <1>2
    <3>2. \A k \in 1..Len(c) : b[p + k - 1] = c[k]
      BY <1>3 DEF Holds
    <3>3. p + Len(v) - 1 <= Len(b)
      BY <1>1, <1>2, <1>3 DEF Holds
    <3>. QED  BY <3>1, <3>2, <3>3 DEF Holds
  <2>2. p + Len(v) + Len(w) - 1 <= Len(b)
    BY <1>1, <1>2, <1>3 DEF Holds
  <2>3. ASSUME NEW k \in 1..Len(w) PROVE b[p + Len(v) + k - 1] = w[k]
    <3>1. Len(v) + k \in 1..Len(c) /\ ~(Len(v) + k <= Len(v)) /\ (Len(v) + k) - Len(v) = k
      BY <1>1, <1>2
    <3>2. c[Len(v) + k] = w[k]
      BY <1>1, <3>1
    <3>3. b[p + (Len(v) + k) - 1] = c[Len(v) + k]
      BY <1>3, <3>1 DEF Holds
    <3>. QED  BY <3>2, <3>3, <1>2
  <2>. QED  BY <2>1, <2>2, <2>3, <1>2 DEF Holds
<1>4. ASSUME Holds(b, p, v), Holds(b, p + Len(v), w) PROVE Holds(b, p, c)
  <2>1. p + Len(c) - 1 <= Len(b)
    BY <1>1, <1>2, <1>4 DEF Holds
  <2>2. ASSUME NEW k \in 1..Len(c) PROVE b[p + k - 1] = c[k]
    <3>1. CASE k <= Len(v)
      BY <1>1, <1>2, <1>4, <3>1 DEF Holds
    <3>2. CASE ~(k <= Len(v))
      <4>1. k - Len(v) \in 1..Len(w) /\ c[k] = w[k - Len(v)]
        BY <1>1, <1>2, <3>2
      <4>2. b[(p + Len(v)) + (k - Len(v)) - 1] = w[k - Len(v)]
        BY <1>4, <4>1 DEF Holds
      <4>3. (p + Len(v)) + (k - Len(v)) - 1 = p + k - 1
        BY <1>2
      <4>. QED  BY <4>1, <4>2, <4>3
    <3>. QED  BY <3>1, <3>2
  <2>. QED  BY <2>1, <2>2 DEF Holds
<1>. QED  BY <1>1, <1>2, <1>3, <1>4 DEF c

\* Bytes hold a single byte where it is.
LEMMA HoldsOne ==
    ASSUME NEW b \in Seq(Byte), NEW p \in Nat \ {0}, NEW x
    PROVE  Holds(b, p, <<x>>) <=> p <= Len(b) /\ b[p] = x
BY LenProperties DEF Holds

\* Bytes hold two bytes where they are, one behind the other.
LEMMA HoldsTwo ==
    ASSUME NEW b \in Seq(Byte), NEW p \in Nat \ {0}, NEW x, NEW y
    PROVE  Holds(b, p, <<x, y>>) <=> p + 1 <= Len(b) /\ b[p] = x /\ b[p + 1] = y
<1>1. Len(<<x, y>>) = 2 /\ <<x, y>>[1] = x /\ <<x, y>>[2] = y
  OBVIOUS
<1>2. Len(b) \in Nat
  BY LenProperties
<1> DEFINE v == <<x, y>>
<1> HIDE DEF v
<1>3. Len(v) = 2 /\ v[1] = x /\ v[2] = y
  BY <1>1 DEF v
<1>4. Holds(b, p, v) <=> p + 2 - 1 <= Len(b) /\ b[p + 1 - 1] = x /\ b[p + 2 - 1] = y
  BY <1>3 DEF Holds
<1>. QED  BY <1>2, <1>4 DEF v

\* The slice vec_from_reader takes is what the bytes hold there.
LEMMA HoldsVec ==
    ASSUME NEW b \in Seq(Byte), NEW p \in Nat \ {0}, NEW n \in Nat, p + n - 1 <= Len(b)
    PROVE  LET v == SubSeq(b, p, p + n - 1)
           IN  v \in Seq(Byte) /\ Len(v) = n /\ Holds(b, p, v)
<1> DEFINE v == SubSeq(b, p, p + n - 1)
<1>1. Len(b) \in Nat
  BY LenProperties
<1>2. v \in Seq(Byte) /\ Len(v) = n /\ \A i \in 1..n : v[i] = b[p + i - 1]
  BY <1>1
<1> HIDE DEF v
<1>3. Holds(b, p, v)
  BY <1>1, <1>2 DEF Holds
<1>. QED  BY <1>2, <1>3 DEF v

\* Bytes hold at most one string of a given length at a position.
LEMMA HoldsUnique ==
    ASSUME NEW b, NEW p \in Nat \ {0}, NEW v \in Seq(Byte), NEW w \in Seq(Byte),
           Len(v) = Len(w), Holds(b, p, v), Holds(b, p, w)
    PROVE  v = w
<1>1. \A k \in 1..Len(v) : v[k] = w[k]
  BY DEF Holds
<1>. QED  BY <1>1, SeqEqual

-----------------------------------------------------------------------------
\* A u16 is put together again from the bytes of to_le_bytes.
LEMMA LittleEndian ==
    ASSUME NEW n \in Word
    PROVE  /\ n % BASE \in Byte /\ n \div BASE \in Byte
           /\ (n % BASE) + BASE * (n \div BASE) = n
BY BaseAssumption DEF Byte, Word

\* Two bytes are those of the u16 they are read as.
LEMMA LittleEndianBack ==
    ASSUME NEW x \in Byte, NEW y \in Byte
    PROVE  /\ x + BASE * y \in Word
           /\ (x + BASE * y) % BASE = x /\ (x + BASE * y) \div BASE = y
BY BaseAssumption DEF Byte, Word

\* The result r of a reader at p: the value x, encoded as code, is there.
Decodes(r, b, p, x, code) == r = [value |-> x, at |-> p + Len(code)] /\ Holds(b, p, code)

\* A Result: no reader returns two values.
AtMostOne(set) == \A q, r \in set : q = r

\* The compiled instructions whose vectors fit their length types.
Fitting ==
    {i \in CompiledInstruction : Len(i.accounts_indices) \in Byte /\ Len(i.data) \in Word}

\* Bytes and words are numbers.
LEMMA Numbers == Byte \subseteq Nat /\ Word \subseteq Nat
BY BaseAssumption DEF Byte, Word

\* A word is written as two bytes.
LEMMA ToLeBytes ==
    ASSUME NEW n \in Word
    PROVE  to_le_bytes(n) \in Seq(Byte) /\ Len(to_le_bytes(n)) = 2
BY LittleEndian DEF to_le_bytes

\* read_u8 reads a byte, and only that.
LEMMA ReadU8 ==
    ASSUME NEW b \in Seq(Byte), NEW p \in Nat \ {0}
    PROVE  /\ \A r : r \in read_u8(b, p) <=> \E x \in Byte : Decodes(r, b, p, x, <<x>>)
           /\ AtMostOne(read_u8(b, p))
<1>0. Len(b) \in Nat /\ \A x : Len(<<x>>) = 1
  BY LenProperties
<1>1. ASSUME NEW r, r \in read_u8(b, p) PROVE \E x \in Byte : Decodes(r, b, p, x, <<x>>)
  <2>1. p <= Len(b) /\ b[p] \in Byte /\ r = [value |-> b[p], at |-> p + 1]
    BY <1>1, <1>0, ElementOfSeq DEF read_u8, Read
  <2>2. Holds(b, p, <<b[p]>>)
    BY <2>1, HoldsOne
  <2>. QED  BY <2>1, <2>2, <1>0 DEF Decodes
<1>2. ASSUME NEW r, NEW x \in Byte, Decodes(r, b, p, x, <<x>>) PROVE r \in read_u8(b, p)
  <2>1. p <= Len(b) /\ b[p] = x
    BY <1>2, HoldsOne DEF Decodes
  <2>. QED  BY <2>1, <1>0, <1>2 DEF Decodes, read_u8, Read
<1>. QED  BY <1>1, <1>2 DEF AtMostOne, read_u8, Read

\* read_u16 reads what to_le_bytes writes, and only that.
LEMMA ReadU16 ==
    ASSUME NEW b \in Seq(Byte), NEW p \in Nat \ {0}
    PROVE  /\ \A r : r \in read_u16(b, p) <=>
                  \E n \in Word : Decodes(r, b, p, n, to_le_bytes(n))
           /\ AtMostOne(read_u16(b, p))
<1>0. Len(b) \in Nat
  BY LenProperties
<1>1. ASSUME NEW r, r \in read_u16(b, p)
      PROVE  \E n \in Word : Decodes(r, b, p, n, to_le_bytes(n))
  <2>1. p + 1 <= Len(b) /\ b[p] \in Byte /\ b[p + 1] \in Byte
    BY <1>1, <1>0, ElementOfSeq DEF read_u16
  <2> DEFINE n == b[p] + BASE * b[p + 1]
  <2>2. r = [value |-> n, at |-> p + 2]
    BY <1>1, <2>1, <1>0 DEF read_u16, Read
  <2>3. n \in Word /\ to_le_bytes(n) = <<b[p], b[p + 1]>>
    BY <2>1, LittleEndianBack DEF to_le_bytes
  <2>4. Holds(b, p, <<b[p], b[p + 1]>>)
    BY <2>1, HoldsTwo
  <2> HIDE DEF n
  <2>5. Decodes(r, b, p, n, to_le_bytes(n))
    BY <2>2, <2>3, <2>4, ToLeBytes DEF Decodes
  <2>. QED  BY <2>3, <2>5
<1>2. ASSUME NEW r, NEW n \in Word, Decodes(r, b, p, n, to_le_bytes(n))
      PROVE  r \in read_u16(b, p)
  <2>1. p + 1 <= Len(b) /\ b[p] = n % BASE /\ b[p + 1] = n \div BASE
    BY <1>2, HoldsTwo DEF Decodes, to_le_bytes
  <2>2. b[p] + BASE * b[p + 1] = n
    BY <2>1, LittleEndian
  <2>3. r = [value |-> n, at |-> p + 2]
    BY <1>2, ToLeBytes DEF Decodes
  <2>. QED  BY <2>1, <2>2, <2>3, <1>0 DEF read_u16, Read
<1>. QED  BY <1>1, <1>2 DEF AtMostOne, read_u16, Read

\* vec_from_reader reads exactly the bytes asked for.
LEMMA VecFromReader ==
    ASSUME NEW b \in Seq(Byte), NEW p \in Nat \ {0}, NEW n \in Nat
    PROVE  /\ \A r : r \in vec_from_reader(b, p, n) <=>
                  \E v \in Seq(Byte) : Len(v) = n /\ Decodes(r, b, p, v, v)
           /\ AtMostOne(vec_from_reader(b, p, n))
<1>0. Len(b) \in Nat
  BY LenProperties
<1> DEFINE w == SubSeq(b, p, p + n - 1)
<1>1. ASSUME NEW r, r \in vec_from_reader(b, p, n)
      PROVE  \E v \in Seq(Byte) : Len(v) = n /\ Decodes(r, b, p, v, v)
  <2>1. p + n - 1 <= Len(b) /\ r = [value |-> w, at |-> p + n]
    BY <1>1, <1>0 DEF vec_from_reader, Read
  <2>2. w \in Seq(Byte) /\ Len(w) = n /\ Holds(b, p, w)
    BY <2>1, HoldsVec
  <2>. QED  BY <2>1, <2>2 DEF Decodes
<1>2. ASSUME NEW r, NEW v \in Seq(Byte), Len(v) = n, Decodes(r, b, p, v, v)
      PROVE  r \in vec_from_reader(b, p, n)
  <2>1. p + n - 1 <= Len(b)
    BY <1>2 DEF Decodes, Holds
  <2>2. w \in Seq(Byte) /\ Len(w) = n /\ Holds(b, p, w)
    BY <2>1, HoldsVec
  <2> HIDE DEF w
  <2>3. w = v
    BY <1>2, <2>2, HoldsUnique DEF Decodes
  <2>4. r = [value |-> w, at |-> p + n]
    BY <1>2, <2>3, Zenon DEF Decodes
  <2>5. ~ (p + n - 1 > Len(b))
    BY <1>0, <2>1
  <2>6. vec_from_reader(b, p, n) = Read(w, p + n)
    BY <2>5, Zenon DEF vec_from_reader, w
  <2>. QED  BY <2>4, <2>6, Zenon DEF Read
<1>. QED  BY <1>1, <1>2 DEF AtMostOne, vec_from_reader, Read


\* A SmallVec<u8, u8> is its length and its bytes.
LEMMA ReadSmallVecU8Code ==
    ASSUME NEW b \in Seq(Byte), NEW p \in Nat \ {0}, NEW v \in Seq(Byte), Len(v) \in Byte
    PROVE  /\ serialize_u8(v) \in Seq(Byte) /\ Len(serialize_u8(v)) = 1 + Len(v)
           /\ Holds(b, p, serialize_u8(v)) <=>
                  Holds(b, p, <<Len(v)>>) /\ Holds(b, p + 1, v)
<1> DEFINE c == <<Len(v)>>
<1>1. c \in Seq(Byte) /\ Len(c) = 1
  OBVIOUS
<1> HIDE DEF c
<1>2. serialize_u8(v) = c \o v
  BY DEF serialize_u8, c
<1>3. /\ c \o v \in Seq(Byte) /\ Len(c \o v) = Len(c) + Len(v)
      /\ Holds(b, p, c \o v) <=> Holds(b, p, c) /\ Holds(b, p + Len(c), v)
  BY <1>1, HoldsConcat, Zenon
<1>. QED  BY <1>1, <1>2, <1>3, Zenon DEF c

\* read_small_vec_u8 reads what serialize_u8 writes, and only that.
LEMMA ReadSmallVecU8 ==
    ASSUME NEW b \in Seq(Byte), NEW p \in Nat \ {0}
    PROVE  /\ \A r : r \in read_small_vec_u8(b, p) <=>
                  \E v \in Seq(Byte) : Len(v) \in Byte /\ Decodes(r, b, p, v, serialize_u8(v))
           /\ AtMostOne(read_small_vec_u8(b, p))
<1>1. ASSUME NEW v \in Seq(Byte), Len(v) \in Byte, NEW r
      PROVE  Decodes(r, b, p, v, serialize_u8(v)) <=>
                 Holds(b, p, <<Len(v)>>) /\ Decodes(r, b, p + 1, v, v)
  <2>1. Holds(b, p, serialize_u8(v)) <=> Holds(b, p, <<Len(v)>>) /\ Holds(b, p + 1, v)
    BY <1>1, ReadSmallVecU8Code
  <2>2. Len(serialize_u8(v)) = 1 + Len(v) /\ Len(v) \in Nat
    BY <1>1, ReadSmallVecU8Code, LenProperties
  <2>3. p + Len(serialize_u8(v)) = (p + 1) + Len(v)
    BY <2>2
  <2>. QED  BY <2>1, <2>3 DEF Decodes
<1>2. ASSUME NEW r, r \in read_small_vec_u8(b, p)
      PROVE  \E v \in Seq(Byte) : Len(v) \in Byte /\ Decodes(r, b, p, v, serialize_u8(v))
  <2>1. PICK l \in read_u8(b, p) : r \in vec_from_reader(b, l.at, l.value)
    BY <1>2 DEF read_small_vec_u8
  <2>2. PICK n \in Byte : Decodes(l, b, p, n, <<n>>)
    BY <2>1, ReadU8
  <2>3. l.value = n /\ l.at = p + 1 /\ Holds(b, p, <<n>>) /\ n \in Nat
    BY <2>2, Numbers DEF Decodes
  <2>4. PICK v \in Seq(Byte) : Len(v) = n /\ Decodes(r, b, p + 1, v, v)
    BY <2>1, <2>3, VecFromReader
  <2>. QED  BY <1>1, <2>3, <2>4
<1>3. ASSUME NEW r, NEW v \in Seq(Byte), Len(v) \in Byte, Decodes(r, b, p, v, serialize_u8(v))
      PROVE  r \in read_small_vec_u8(b, p)
  <2> DEFINE l == [value |-> Len(v), at |-> p + 1]
  <2>1. Decodes(l, b, p, Len(v), <<Len(v)>>)
    BY <1>1, <1>3 DEF Decodes
  <2>2. l \in read_u8(b, p)
    BY <1>3, <2>1, ReadU8
  <2>3. r \in vec_from_reader(b, p + 1, Len(v))
    <3>1. Decodes(r, b, p + 1, v, v)
      BY <1>1, <1>3, Zenon
    <3>2. Len(v) \in Nat /\ p + 1 \in Nat \ {0}
      BY LenProperties
    <3>. QED  BY <3>1, <3>2, VecFromReader
  <2>. QED  BY <2>2, <2>3 DEF read_small_vec_u8
<1>4. ASSUME NEW q \in read_small_vec_u8(b, p), NEW r \in read_small_vec_u8(b, p) PROVE q = r
  <2>1. PICK l \in read_u8(b, p) : q \in vec_from_reader(b, l.at, l.value)
    BY DEF read_small_vec_u8
  <2>2. PICK m \in read_u8(b, p) : r \in vec_from_reader(b, m.at, m.value)
    BY DEF read_small_vec_u8
  <2>3. l = m
    BY ReadU8 DEF AtMostOne
  <2>4. PICK n \in Byte : Decodes(l, b, p, n, <<n>>)
    BY ReadU8
  <2>5. l.value \in Nat /\ l.at \in Nat \ {0}
    BY <2>4, Numbers DEF Decodes
  <2>. QED  BY <2>1, <2>2, <2>3, <2>5, VecFromReader DEF AtMostOne
<1>. QED  BY <1>2, <1>3, <1>4 DEF AtMostOne

\* A SmallVec<u16, u8> is its length and its bytes.
LEMMA ReadSmallVecU16Code ==
    ASSUME NEW b \in Seq(Byte), NEW p \in Nat \ {0}, NEW v \in Seq(Byte), Len(v) \in Word
    PROVE  /\ serialize_u16(v) \in Seq(Byte) /\ Len(serialize_u16(v)) = 2 + Len(v)
           /\ Holds(b, p, serialize_u16(v)) <=>
                  Holds(b, p, to_le_bytes(Len(v))) /\ Holds(b, p + 2, v)
<1> DEFINE c == to_le_bytes(Len(v))
<1>1. c \in Seq(Byte) /\ Len(c) = 2
  BY ToLeBytes
<1> HIDE DEF c
<1>2. serialize_u16(v) = c \o v
  BY DEF serialize_u16, c
<1>3. /\ c \o v \in Seq(Byte) /\ Len(c \o v) = Len(c) + Len(v)
      /\ Holds(b, p, c \o v) <=> Holds(b, p, c) /\ Holds(b, p + Len(c), v)
  BY <1>1, HoldsConcat, Zenon
<1>. QED  BY <1>1, <1>2, <1>3, Zenon DEF c

\* read_small_vec_u16 reads what serialize_u16 writes, and only that.
LEMMA ReadSmallVecU16 ==
    ASSUME NEW b \in Seq(Byte), NEW p \in Nat \ {0}
    PROVE  /\ \A r : r \in read_small_vec_u16(b, p) <=>
                  \E v \in Seq(Byte) : Len(v) \in Word /\ Decodes(r, b, p, v, serialize_u16(v))
           /\ AtMostOne(read_small_vec_u16(b, p))
<1>1. ASSUME NEW v \in Seq(Byte), Len(v) \in Word, NEW r
      PROVE  Decodes(r, b, p, v, serialize_u16(v)) <=>
                 Holds(b, p, to_le_bytes(Len(v))) /\ Decodes(r, b, p + 2, v, v)
  <2>1. Holds(b, p, serialize_u16(v)) <=> Holds(b, p, to_le_bytes(Len(v))) /\ Holds(b, p + 2, v)
    BY <1>1, ReadSmallVecU16Code
  <2>2. Len(serialize_u16(v)) = 2 + Len(v) /\ Len(v) \in Nat
    BY <1>1, ReadSmallVecU16Code, LenProperties
  <2>3. p + Len(serialize_u16(v)) = (p + 2) + Len(v)
    BY <2>2
  <2>. QED  BY <2>1, <2>3 DEF Decodes
<1>2. ASSUME NEW r, r \in read_small_vec_u16(b, p)
      PROVE  \E v \in Seq(Byte) : Len(v) \in Word /\ Decodes(r, b, p, v, serialize_u16(v))
  <2>1. PICK l \in read_u16(b, p) : r \in vec_from_reader(b, l.at, l.value)
    BY <1>2 DEF read_small_vec_u16
  <2>2. PICK n \in Word : Decodes(l, b, p, n, to_le_bytes(n))
    BY <2>1, ReadU16
  <2>3. l.value = n /\ l.at = p + 2 /\ Holds(b, p, to_le_bytes(n)) /\ n \in Nat
    BY <2>2, Numbers, ToLeBytes DEF Decodes
  <2>4. PICK v \in Seq(Byte) : Len(v) = n /\ Decodes(r, b, p + 2, v, v)
    BY <2>1, <2>3, VecFromReader
  <2>. QED  BY <1>1, <2>3, <2>4
<1>3. ASSUME NEW r, NEW v \in Seq(Byte), Len(v) \in Word, Decodes(r, b, p, v, serialize_u16(v))
      PROVE  r \in read_small_vec_u16(b, p)
  <2> DEFINE l == [value |-> Len(v), at |-> p + 2]
  <2>1. Decodes(l, b, p, Len(v), to_le_bytes(Len(v)))
    BY <1>1, <1>3, ToLeBytes DEF Decodes
  <2>2. l \in read_u16(b, p)
    BY <1>3, <2>1, ReadU16
  <2>3. r \in vec_from_reader(b, p + 2, Len(v))
    <3>1. Decodes(r, b, p + 2, v, v)
      BY <1>1, <1>3, Zenon
    <3>2. Len(v) \in Nat /\ p + 2 \in Nat \ {0}
      BY LenProperties
    <3>. QED  BY <3>1, <3>2, VecFromReader
  <2>. QED  BY <2>2, <2>3 DEF read_small_vec_u16
<1>4. ASSUME NEW q \in read_small_vec_u16(b, p), NEW r \in read_small_vec_u16(b, p) PROVE q = r
  <2>1. PICK l \in read_u16(b, p) : q \in vec_from_reader(b, l.at, l.value)
    BY DEF read_small_vec_u16
  <2>2. PICK m \in read_u16(b, p) : r \in vec_from_reader(b, m.at, m.value)
    BY DEF read_small_vec_u16
  <2>3. l = m
    BY ReadU16 DEF AtMostOne
  <2>4. PICK n \in Word : Decodes(l, b, p, n, to_le_bytes(n))
    BY ReadU16
  <2>5. l.value \in Nat /\ l.at \in Nat \ {0}
    BY <2>4, Numbers, ToLeBytes DEF Decodes
  <2>. QED  BY <2>1, <2>2, <2>3, <2>5, VecFromReader DEF AtMostOne
<1>. QED  BY <1>2, <1>3, <1>4 DEF AtMostOne

\* A session key is its key and its expiration.
LEMMA SessionKeyCode ==
    ASSUME NEW s \in SessionKey, NEW b \in Seq(Byte), NEW p \in Nat \ {0}
    PROVE  /\ serialize_session_key(s) \in Seq(Byte) /\ Len(serialize_session_key(s)) = 3
           /\ Holds(b, p, serialize_session_key(s)) <=>
                  Holds(b, p, <<s.key>>) /\ Holds(b, p + 1, to_le_bytes(s.expiration))
<1> DEFINE c == <<s.key>>
           d == to_le_bytes(s.expiration)
<1>1. c \in Seq(Byte) /\ Len(c) = 1
  BY DEF SessionKey
<1>2. d \in Seq(Byte) /\ Len(d) = 2
  BY ToLeBytes DEF SessionKey
<1>3. serialize_session_key(s) = c \o d
  BY DEF serialize_session_key
<1> HIDE DEF c, d
<1>4. /\ c \o d \in Seq(Byte) /\ Len(c \o d) = Len(c) + Len(d)
      /\ Holds(b, p, c \o d) <=> Holds(b, p, c) /\ Holds(b, p + Len(c), d)
  BY <1>1, <1>2, HoldsConcat, Zenon
<1>5. Len(c) + Len(d) = 3
  BY <1>1, <1>2
<1>. QED  BY <1>1, <1>3, <1>4, <1>5, Zenon DEF c, d

\* read_session_key reads what serialize_session_key writes, and only that.
LEMMA ReadSessionKey ==
    ASSUME NEW b \in Seq(Byte), NEW p \in Nat \ {0}
    PROVE  /\ \A r : r \in read_session_key(b, p) <=>
                  \E s \in SessionKey : Decodes(r, b, p, {s}, serialize_session_key(s))
           /\ AtMostOne(read_session_key(b, p))
<1>1. ASSUME NEW r, r \in read_session_key(b, p)
      PROVE  \E s \in SessionKey : Decodes(r, b, p, {s}, serialize_session_key(s))
  <2>0. PICK k \in read_u8(b, p) : \E e \in read_u16(b, k.at) :
            r = [value |-> {[key |-> k.value, expiration |-> e.value]}, at |-> e.at]
    BY <1>1 DEF read_session_key
  <2>1. PICK e \in read_u16(b, k.at) :
            r = [value |-> {[key |-> k.value, expiration |-> e.value]}, at |-> e.at]
    BY <2>0
  <2>2. PICK x \in Byte : Decodes(k, b, p, x, <<x>>)
    BY ReadU8
  <2>3. k.value = x /\ k.at = p + 1 /\ Holds(b, p, <<x>>)
    BY <2>2 DEF Decodes
  <2>4. PICK n \in Word : Decodes(e, b, p + 1, n, to_le_bytes(n))
    BY <2>3, ReadU16
  <2>5. e.value = n /\ e.at = p + 3 /\ Holds(b, p + 1, to_le_bytes(n))
    <3>1. Len(to_le_bytes(n)) = 2
      BY ToLeBytes
    <3>2. (p + 1) + Len(to_le_bytes(n)) = p + 3
      BY <3>1
    <3>. QED  BY <2>4, <3>2 DEF Decodes
  <2> DEFINE s == [key |-> x, expiration |-> n]
  <2>6. s \in SessionKey /\ s.key = x /\ s.expiration = n
    BY DEF SessionKey
  <2> HIDE DEF s
  <2>7. r = [value |-> {s}, at |-> p + 3]
    BY <2>1, <2>3, <2>5 DEF s
  <2>8. Decodes(r, b, p, {s}, serialize_session_key(s))
    BY <2>3, <2>5, <2>6, <2>7, SessionKeyCode DEF Decodes
  <2>. QED  BY <2>6, <2>8
<1>2. ASSUME NEW r, NEW s \in SessionKey, Decodes(r, b, p, {s}, serialize_session_key(s))
      PROVE  r \in read_session_key(b, p)
  <2>1. /\ r = [value |-> {s}, at |-> p + 3]
        /\ Holds(b, p, <<s.key>>) /\ Holds(b, p + 1, to_le_bytes(s.expiration))
    BY <1>2, SessionKeyCode DEF Decodes
  <2>2. s = [key |-> s.key, expiration |-> s.expiration] /\ s.key \in Byte /\ s.expiration \in Word
    BY DEF SessionKey
  <2> DEFINE k == [value |-> s.key, at |-> p + 1]
             e == [value |-> s.expiration, at |-> p + 3]
  <2>3. k \in read_u8(b, p)
    <3>1. Decodes(k, b, p, s.key, <<s.key>>)
      BY <2>1 DEF Decodes
    <3>. QED  BY <3>1, <2>2, ReadU8
  <2>4. e \in read_u16(b, p + 1)
    <3>1. Decodes(e, b, p + 1, s.expiration, to_le_bytes(s.expiration))
      <4>1. Len(to_le_bytes(s.expiration)) = 2
        BY <2>2, ToLeBytes
      <4>2. (p + 1) + Len(to_le_bytes(s.expiration)) = p + 3
        BY <4>1
      <4>. QED  BY <2>1, <4>2 DEF Decodes
    <3>. QED  BY <3>1, <2>2, ReadU16
  <2>5. k.at = p + 1 /\ k.value = s.key /\ e.at = p + 3 /\ e.value = s.expiration
    OBVIOUS
  <2> HIDE DEF k, e
  <2>6. r = [value |-> {[key |-> k.value, expiration |-> e.value]}, at |-> e.at]
    BY <2>1, <2>2, <2>5
  <2>7. r \in {[value |-> {[key |-> k.value, expiration |-> f.value]}, at |-> f.at]
                  : f \in read_u16(b, k.at)}
    BY <2>4, <2>5, <2>6
  <2>. QED  BY <2>3, <2>7, Zenon DEF read_session_key
<1>3. ASSUME NEW q \in read_session_key(b, p), NEW r \in read_session_key(b, p) PROVE q = r
  <2>1. PICK k \in read_u8(b, p) : \E e \in read_u16(b, k.at) :
            q = [value |-> {[key |-> k.value, expiration |-> e.value]}, at |-> e.at]
    BY DEF read_session_key
  <2>2. PICK l \in read_u8(b, p) : \E f \in read_u16(b, l.at) :
            r = [value |-> {[key |-> l.value, expiration |-> f.value]}, at |-> f.at]
    BY DEF read_session_key
  <2>3. k = l
    BY ReadU8 DEF AtMostOne
  <2>4. k.at \in Nat \ {0}
    <3>1. PICK x \in Byte : Decodes(k, b, p, x, <<x>>)
      BY ReadU8
    <3>. QED  BY <3>1 DEF Decodes
  <2>5. AtMostOne(read_u16(b, k.at))
    BY <2>4, ReadU16
  <2>. QED  BY <2>1, <2>2, <2>3, <2>5 DEF AtMostOne
<1>. QED  BY <1>1, <1>2, <1>3 DEF AtMostOne

\* A compiled instruction is its program index and its two vectors.
LEMMA InstructionCode ==
    ASSUME NEW i \in Fitting, NEW b \in Seq(Byte), NEW p \in Nat \ {0}
    PROVE  /\ serialize_instruction(i) \in Seq(Byte)
           /\ Len(serialize_instruction(i)) = 4 + Len(i.accounts_indices) + Len(i.data)
           /\ Holds(b, p, serialize_instruction(i)) <=>
                  /\ Holds(b, p, <<i.program_id_index>>)
                  /\ Holds(b, p + 1, serialize_u8(i.accounts_indices))
                  /\ Holds(b, p + 2 + Len(i.accounts_indices), serialize_u16(i.data))
<1> DEFINE c == <<i.program_id_index>>
           d == serialize_u8(i.accounts_indices)
           e == serialize_u16(i.data)
           n == Len(i.accounts_indices)
           m == Len(i.data)
<1>0. /\ i.program_id_index \in Byte
      /\ i.accounts_indices \in Seq(Byte) /\ i.data \in Seq(Byte)
      /\ Len(i.accounts_indices) \in Byte /\ Len(i.data) \in Word
  BY DEF Fitting, CompiledInstruction
<1>1. c \in Seq(Byte) /\ Len(c) = 1
  BY <1>0
<1>2. d \in Seq(Byte) /\ Len(d) = 1 + n /\ n \in Nat
  BY <1>0, ReadSmallVecU8Code, LenProperties
<1>3. e \in Seq(Byte) /\ Len(e) = 2 + m /\ m \in Nat
  BY <1>0, ReadSmallVecU16Code, LenProperties
<1>4. serialize_instruction(i) = (c \o d) \o e
  BY DEF serialize_instruction
<1> HIDE DEF c, d, e, n, m
<1>5. /\ c \o d \in Seq(Byte) /\ Len(c \o d) = Len(c) + Len(d)
      /\ Holds(b, p, c \o d) <=> Holds(b, p, c) /\ Holds(b, p + Len(c), d)
  BY <1>1, <1>2, HoldsConcat, Zenon
<1> DEFINE f == c \o d
<1> HIDE DEF f
<1>6. /\ f \o e \in Seq(Byte) /\ Len(f \o e) = Len(f) + Len(e)
      /\ Holds(b, p, f \o e) <=> Holds(b, p, f) /\ Holds(b, p + Len(f), e)
  <2>1. f \in Seq(Byte)
    BY <1>5 DEF f
  <2>. QED  BY <2>1, <1>3, HoldsConcat, Zenon
<1>7. p + Len(f) = p + 2 + n /\ Len(f) + Len(e) = 4 + n + m
  BY <1>1, <1>2, <1>3, <1>5 DEF f
<1>8. /\ serialize_instruction(i) \in Seq(Byte)
      /\ Len(serialize_instruction(i)) = 4 + n + m
  BY <1>4, <1>6, <1>7 DEF f
<1>9. Holds(b, p, serialize_instruction(i)) <=> Holds(b, p, c) /\ Holds(b, p + 1, d) /\ Holds(b, p + 2 + n, e)
  BY <1>1, <1>4, <1>5, <1>6, <1>7, Zenon DEF f
<1>. QED  BY <1>8, <1>9 DEF c, d, e, n, m

\* read_instruction reads what serialize_instruction writes, and only that.
LEMMA ReadInstructionBack ==
    ASSUME NEW b \in Seq(Byte), NEW p \in Nat \ {0}
    PROVE  /\ \A r : r \in read_instruction(b, p) <=>
                  \E i \in Fitting : Decodes(r, b, p, i, serialize_instruction(i))
           /\ AtMostOne(read_instruction(b, p))
<1> DEFINE Instr(x, y, z) == [program_id_index |-> x, accounts_indices |-> y, data |-> z]
           From(x, a) == {[value |-> Instr(x.value, a.value, d.value), at |-> d.at]
                             : d \in read_small_vec_u16(b, a.at)}
           After(x) == UNION {From(x, a) : a \in read_small_vec_u8(b, x.at)}
<1>0. read_instruction(b, p) = UNION {After(x) : x \in read_u8(b, p)}
  BY DEF read_instruction
<1>1. ASSUME NEW r, r \in read_instruction(b, p)
      PROVE  \E i \in Fitting : Decodes(r, b, p, i, serialize_instruction(i))
  <2>1. PICK x \in read_u8(b, p) : r \in After(x)
    BY <1>0, <1>1
  <2>2. PICK a \in read_small_vec_u8(b, x.at) : r \in From(x, a)
    BY <2>1
  <2>3. PICK d \in read_small_vec_u16(b, a.at) : r = [value |-> Instr(x.value, a.value, d.value), at |-> d.at]
    BY <2>2
  <2>4. PICK g \in Byte : Decodes(x, b, p, g, <<g>>)
    BY ReadU8
  <2>5. x.value = g /\ x.at = p + 1 /\ Holds(b, p, <<g>>)
    BY <2>4 DEF Decodes
  <2>6. PICK v \in Seq(Byte) : Len(v) \in Byte /\ Decodes(a, b, p + 1, v, serialize_u8(v))
    BY <2>5, ReadSmallVecU8
  <2>7. Len(v) \in Nat /\ a.value = v /\ a.at = p + 2 + Len(v) /\ Holds(b, p + 1, serialize_u8(v))
    <3>1. Len(v) \in Nat /\ Len(serialize_u8(v)) = 1 + Len(v)
      BY <2>6, ReadSmallVecU8Code, LenProperties
    <3>2. (p + 1) + Len(serialize_u8(v)) = p + 2 + Len(v)
      BY <3>1
    <3>. QED  BY <2>6, <3>1, <3>2 DEF Decodes
  <2>8. a.at \in Nat \ {0}
    BY <2>7
  <2>9. PICK w \in Seq(Byte) : Len(w) \in Word /\ Decodes(d, b, a.at, w, serialize_u16(w))
    BY <2>8, ReadSmallVecU16
  <2>10. d.value = w /\ d.at = p + (4 + Len(v) + Len(w)) /\ Holds(b, p + 2 + Len(v), serialize_u16(w))
    <3>1. Len(w) \in Nat /\ Len(serialize_u16(w)) = 2 + Len(w)
      BY <2>9, <2>8, ReadSmallVecU16Code, LenProperties
    <3>2. a.at + Len(serialize_u16(w)) = p + (4 + Len(v) + Len(w))
      BY <3>1, <2>7
    <3>. QED  BY <2>7, <2>9, <3>1, <3>2 DEF Decodes
  <2> DEFINE i == Instr(g, v, w)
  <2>11. i \in Fitting /\ i.program_id_index = g /\ i.accounts_indices = v /\ i.data = w
    BY <2>6, <2>9 DEF Fitting, CompiledInstruction
  <2>12. r = [value |-> i, at |-> p + (4 + Len(v) + Len(w))]
    BY <2>3, <2>5, <2>7, <2>10
  <2> HIDE DEF i
  <2>13. Holds(b, p, serialize_instruction(i)) /\ Len(serialize_instruction(i)) = 4 + Len(v) + Len(w)
    BY <2>5, <2>7, <2>10, <2>11, InstructionCode
  <2>14. Decodes(r, b, p, i, serialize_instruction(i))
    BY <2>12, <2>13 DEF Decodes
  <2>. QED  BY <2>11, <2>14
<1>2. ASSUME NEW r, NEW i \in Fitting, Decodes(r, b, p, i, serialize_instruction(i))
      PROVE  r \in read_instruction(b, p)
  <2> DEFINE v == i.accounts_indices
             w == i.data
             x == [value |-> i.program_id_index, at |-> p + 1]
             a == [value |-> v, at |-> p + 2 + Len(v)]
             d == [value |-> w, at |-> p + (4 + Len(v) + Len(w))]
  <2>1. /\ i = Instr(i.program_id_index, v, w) /\ i.program_id_index \in Byte
        /\ v \in Seq(Byte) /\ w \in Seq(Byte) /\ Len(v) \in Byte /\ Len(w) \in Word
    BY DEF Fitting, CompiledInstruction
  <2>2. Len(v) \in Nat /\ Len(w) \in Nat
    BY <2>1, LenProperties
  <2>3. /\ Holds(b, p, <<i.program_id_index>>)
        /\ Holds(b, p + 1, serialize_u8(v)) /\ Holds(b, p + 2 + Len(v), serialize_u16(w))
        /\ r = [value |-> i, at |-> p + (4 + Len(v) + Len(w))]
    BY <1>2, InstructionCode DEF Decodes
  <2> HIDE DEF v, w
  <2>4. x \in read_u8(b, p)
    <3>1. Decodes(x, b, p, i.program_id_index, <<i.program_id_index>>)
      BY <2>3 DEF Decodes
    <3>. QED  BY <3>1, <2>1, ReadU8
  <2>5. a \in read_small_vec_u8(b, p + 1)
    <3>1. Len(serialize_u8(v)) = 1 + Len(v)
      BY <2>1, ReadSmallVecU8Code
    <3>2. (p + 1) + Len(serialize_u8(v)) = p + 2 + Len(v)
      BY <2>2, <3>1
    <3>3. Decodes(a, b, p + 1, v, serialize_u8(v))
      BY <2>3, <3>2 DEF Decodes
    <3>. QED  BY <3>3, <2>1, ReadSmallVecU8
  <2>6. d \in read_small_vec_u16(b, p + 2 + Len(v))
    <3>1. Len(serialize_u16(w)) = 2 + Len(w)
      BY <2>1, ReadSmallVecU16Code
    <3>2. (p + 2 + Len(v)) + Len(serialize_u16(w)) = p + (4 + Len(v) + Len(w))
      BY <2>2, <3>1
    <3>3. Decodes(d, b, p + 2 + Len(v), w, serialize_u16(w))
      BY <2>3, <3>2 DEF Decodes
    <3>4. p + 2 + Len(v) \in Nat \ {0}
      BY <2>2
    <3>. QED  BY <3>3, <3>4, <2>1, ReadSmallVecU16
  <2>7. /\ x.value = i.program_id_index /\ x.at = p + 1
        /\ a.value = v /\ a.at = p + 2 + Len(v)
        /\ d.value = w /\ d.at = p + (4 + Len(v) + Len(w))
    OBVIOUS
  <2> HIDE DEF x, a, d
  <2>8. r = [value |-> Instr(x.value, a.value, d.value), at |-> d.at]
    BY <2>1, <2>3, <2>7
  <2>9. r \in From(x, a)
    BY <2>6, <2>7, <2>8
  <2> HIDE DEF From
  <2>10. r \in After(x)
    BY <2>5, <2>7, <2>9
  <2> HIDE DEF After
  <2>. QED  BY <1>0, <2>4, <2>10
<1>3. ASSUME NEW q \in read_instruction(b, p), NEW r \in read_instruction(b, p) PROVE q = r
  <2>1. PICK x \in read_u8(b, p) : q \in After(x) /\ r \in After(x)
    BY <1>0, ReadU8 DEF AtMostOne
  <2>2. x.at \in Nat \ {0}
    <3>1. PICK g \in Byte : Decodes(x, b, p, g, <<g>>)
      BY ReadU8
    <3>. QED  BY <3>1 DEF Decodes
  <2>3. AtMostOne(read_small_vec_u8(b, x.at))
    BY <2>2, ReadSmallVecU8
  <2>4. PICK a \in read_small_vec_u8(b, x.at) : q \in From(x, a) /\ r \in From(x, a)
    BY <2>1, <2>3 DEF AtMostOne
  <2>5. a.at \in Nat \ {0}
    <3>1. PICK v \in Seq(Byte) : Len(v) \in Byte /\ Decodes(a, b, x.at, v, serialize_u8(v))
      BY <2>2, ReadSmallVecU8
    <3>2. Len(serialize_u8(v)) \in Nat
      BY <3>1, <2>2, ReadSmallVecU8Code, LenProperties
    <3>. QED  BY <2>2, <3>1, <3>2 DEF Decodes
  <2>6. AtMostOne(read_small_vec_u16(b, a.at))
    BY <2>5, ReadSmallVecU16
  <2>. QED  BY <2>4, <2>6 DEF AtMostOne
<1>. QED  BY <1>1, <1>2, <1>3 DEF AtMostOne

\* The values of an Option<SessionKey>.
Options == {{}} \cup {{s} : s \in SessionKey}

\* An optional session key is a tag, and the key behind the tag 1.
LEMMA OptionCode ==
    ASSUME NEW o \in Options, NEW b \in Seq(Byte), NEW p \in Nat \ {0}
    PROVE  /\ serialize_option(o) \in Seq(Byte)
           /\ o = {} => serialize_option(o) = <<0>>
           /\ \A s \in SessionKey : o = {s} =>
                 /\ serialize_option(o) = <<1>> \o serialize_session_key(s)
                 /\ Len(serialize_option(o)) = 4
                 /\ Holds(b, p, serialize_option(o)) <=>
                        Holds(b, p, <<1>>) /\ Holds(b, p + 1, serialize_session_key(s))
<1>0. <<0>> \in Seq(Byte) /\ <<1>> \in Seq(Byte) /\ Len(<<1>>) = 1
  BY BaseAssumption DEF Byte
<1>1. CASE o = {}
  BY <1>0, <1>1 DEF serialize_option
<1>2. ASSUME NEW s \in SessionKey, o = {s}
      PROVE  /\ serialize_option(o) \in Seq(Byte)
             /\ serialize_option(o) = <<1>> \o serialize_session_key(s)
             /\ Len(serialize_option(o)) = 4
             /\ Holds(b, p, serialize_option(o)) <=>
                    Holds(b, p, <<1>>) /\ Holds(b, p + 1, serialize_session_key(s))
  <2> DEFINE c == <<1>>
             d == serialize_session_key(s)
  <2>1. o # {} /\ (CHOOSE t \in o : TRUE) = s
    BY <1>2
  <2>2. serialize_option(o) = c \o d
    BY <2>1 DEF serialize_option
  <2>3. d \in Seq(Byte) /\ Len(d) = 3
    BY SessionKeyCode
  <2>4. c \in Seq(Byte) /\ Len(c) = 1
    BY <1>0
  <2> HIDE DEF c, d
  <2>5. /\ c \o d \in Seq(Byte) /\ Len(c \o d) = Len(c) + Len(d)
        /\ Holds(b, p, c \o d) <=> Holds(b, p, c) /\ Holds(b, p + Len(c), d)
    BY <2>3, <2>4, HoldsConcat, Zenon
  <2>6. Len(c) + Len(d) = 4
    BY <2>3, <2>4
  <2>. QED  BY <2>2, <2>4, <2>5, <2>6, Zenon DEF c, d
<1>3. o = {} \/ \E s \in SessionKey : o = {s}
  BY DEF Options
<1>4. serialize_option(o) \in Seq(Byte)
  BY <1>1, <1>2, <1>3
<1>5. o = {} => serialize_option(o) = <<0>>
  BY DEF serialize_option
<1>. QED  BY <1>2, <1>4, <1>5

\* read_option reads what serialize_option writes, and only that.
LEMMA ReadOption ==
    ASSUME NEW b \in Seq(Byte), NEW p \in Nat \ {0}
    PROVE  /\ \A r : r \in read_option(b, p) <=>
                  \E o \in Options : Decodes(r, b, p, o, serialize_option(o))
           /\ AtMostOne(read_option(b, p))
<1> DEFINE From(t) == CASE t.value = 0 -> Read({}, t.at)
                        [] t.value = 1 -> read_session_key(b, t.at)
                        [] OTHER -> {}
<1>0. read_option(b, p) = UNION {From(t) : t \in read_u8(b, p)}
  BY DEF read_option
<1>1. ASSUME NEW t \in read_u8(b, p)
      PROVE  \E x \in Byte : t.value = x /\ t.at = p + 1 /\ Holds(b, p, <<x>>)
  <2>1. PICK x \in Byte : Decodes(t, b, p, x, <<x>>)
    BY ReadU8
  <2>2. t.value = x /\ t.at = p + 1 /\ Holds(b, p, <<x>>)
    BY <2>1 DEF Decodes
  <2>. QED  BY <2>2
<1>p. p + 1 \in Nat \ {0}
  OBVIOUS
<1>2. ASSUME NEW r, r \in read_option(b, p)
      PROVE  \E o \in Options : Decodes(r, b, p, o, serialize_option(o))
  <2>1. PICK t \in read_u8(b, p) : r \in From(t)
    BY <1>0, <1>2
  <2>2. PICK x \in Byte : t.value = x /\ t.at = p + 1 /\ Holds(b, p, <<x>>)
    BY <1>1
  <2>3. CASE x = 0
    <3>1. r = [value |-> {}, at |-> p + 1]
      BY <2>1, <2>2, <2>3 DEF Read
    <3>2. {} \in Options /\ serialize_option({}) = <<0>> /\ Len(<<0>>) = 1
      BY DEF Options, serialize_option
    <3>3. Decodes(r, b, p, {}, serialize_option({}))
      BY <2>2, <2>3, <3>1, <3>2 DEF Decodes
    <3>. QED  BY <3>2, <3>3
  <2>4. CASE x = 1
    <3>1. r \in read_session_key(b, p + 1)
      BY <2>1, <2>2, <2>4
    <3>2. PICK s \in SessionKey : Decodes(r, b, p + 1, {s}, serialize_session_key(s))
      BY <3>1, <1>p, ReadSessionKey, Zenon
    <3>3. Len(serialize_session_key(s)) = 3
      BY SessionKeyCode
    <3>4. r = [value |-> {s}, at |-> p + 4] /\ Holds(b, p + 1, serialize_session_key(s))
      <4>1. (p + 1) + Len(serialize_session_key(s)) = p + 4
        BY <3>3
      <4>. QED  BY <3>2, <4>1 DEF Decodes
    <3>5. {s} \in Options
      BY DEF Options
    <3>6. Len(serialize_option({s})) = 4 /\ Holds(b, p, serialize_option({s}))
      BY <2>2, <2>4, <3>4, <3>5, OptionCode
    <3>7. Decodes(r, b, p, {s}, serialize_option({s}))
      BY <3>4, <3>6 DEF Decodes
    <3>. QED  BY <3>5, <3>7
  <2>5. CASE x # 0 /\ x # 1
    BY <2>1, <2>2, <2>5
  <2>. QED  BY <2>3, <2>4, <2>5
<1>3. ASSUME NEW r, NEW o \in Options, Decodes(r, b, p, o, serialize_option(o))
      PROVE  r \in read_option(b, p)
  <2>0. o = {} \/ \E s \in SessionKey : o = {s}
    BY DEF Options
  <2>1. CASE o = {}
    <3> DEFINE t == [value |-> 0, at |-> p + 1]
    <3>1. serialize_option(o) = <<0>> /\ Len(<<0>>) = 1 /\ 0 \in Byte
      BY <2>1, BaseAssumption DEF serialize_option, Byte
    <3>2. Decodes(t, b, p, 0, <<0>>) /\ r = [value |-> {}, at |-> p + 1]
      BY <1>3, <2>1, <3>1 DEF Decodes
    <3>3. t \in read_u8(b, p)
      BY <3>1, <3>2, ReadU8
    <3>4. r \in From(t)
      BY <3>2 DEF Read
    <3> HIDE DEF From
    <3>. QED  BY <1>0, <3>3, <3>4
  <2>2. ASSUME NEW s \in SessionKey, o = {s} PROVE r \in read_option(b, p)
    <3> DEFINE t == [value |-> 1, at |-> p + 1]
    <3>1. /\ Len(serialize_option(o)) = 4 /\ Len(<<1>>) = 1 /\ 1 \in Byte
          /\ Holds(b, p, <<1>>) /\ Holds(b, p + 1, serialize_session_key(s))
      BY <1>3, <2>2, OptionCode, BaseAssumption DEF Byte, Decodes
    <3>2. Decodes(t, b, p, 1, <<1>>)
      BY <3>1 DEF Decodes
    <3>3. t \in read_u8(b, p)
      BY <3>1, <3>2, ReadU8
    <3>4. Len(serialize_session_key(s)) = 3
      BY SessionKeyCode
    <3>5. (p + 1) + Len(serialize_session_key(s)) = p + 4
      BY <3>4
    <3>6. Decodes(r, b, p + 1, {s}, serialize_session_key(s))
      BY <1>3, <2>2, <3>1, <3>5 DEF Decodes
    <3>7. r \in read_session_key(b, p + 1)
      BY <3>6, <1>p, ReadSessionKey, Zenon
    <3>8. r \in From(t)
      BY <3>7
    <3> HIDE DEF From
    <3>. QED  BY <1>0, <3>3, <3>8
  <2>. QED  BY <2>0, <2>1, <2>2
<1>4. ASSUME NEW q \in read_option(b, p), NEW r \in read_option(b, p) PROVE q = r
  <2>1. PICK t \in read_u8(b, p) : q \in From(t) /\ r \in From(t)
    BY <1>0, ReadU8 DEF AtMostOne
  <2>2. AtMostOne(read_session_key(b, t.at))
    <3>1. t.at = p + 1
      BY <1>1
    <3>. QED  BY <1>p, <3>1, ReadSessionKey, Zenon
  <2>3. CASE t.value = 0
    <3>1. From(t) = Read({}, t.at)
      BY <2>3
    <3> HIDE DEF From
    <3>. QED  BY <2>1, <3>1 DEF Read
  <2>4. CASE t.value = 1
    BY <2>1, <2>2, <2>4 DEF AtMostOne
  <2>5. CASE t.value # 0 /\ t.value # 1
    BY <2>1, <2>5
  <2>. QED  BY <2>3, <2>4, <2>5
<1>. QED  BY <1>2, <1>3, <1>4 DEF AtMostOne

-----------------------------------------------------------------------------
\* The discriminators.
Kinds == {INITIALIZE, EXECUTE, REFRESH, SESSIONED}

\* The scheme specific data that fits its vector.
Extras == {v \in Seq(Byte) : Len(v) \in Byte}

\* The bytes before the instructions or the session key, by the builders.
execute_head(slot, scheme, extra) ==
    <<EXECUTE, 0, scheme>> \o to_le_bytes(slot) \o serialize_u8(extra)
keyed_head(kind, slot, extra) ==
    <<kind>> \o to_le_bytes(slot) \o <<0>> \o serialize_u8(extra)

Opening(kind, slot, scheme, extra) ==
    CASE kind = EXECUTE -> execute_head(slot, scheme, extra)
      [] kind = SESSIONED -> <<SESSIONED, 0, scheme>>
      [] OTHER -> keyed_head(kind, slot, extra)

\* Bytes hold three bytes at the beginning, one behind the other.
LEMMA HoldsThree ==
    ASSUME NEW b \in Seq(Byte), NEW x, NEW y, NEW z
    PROVE  Holds(b, 1, <<x, y, z>>) <=> 3 <= Len(b) /\ b[1] = x /\ b[2] = y /\ b[3] = z
<1> DEFINE v == <<x, y, z>>
<1>1. Len(v) = 3 /\ v[1] = x /\ v[2] = y /\ v[3] = z
  OBVIOUS
<1>2. Len(b) \in Nat
  BY LenProperties
<1> HIDE DEF v
<1>3. \A k : k \in 1..3 <=> k = 1 \/ k = 2 \/ k = 3
  OBVIOUS
<1>4. Holds(b, 1, v) <=> 1 + 3 - 1 <= Len(b) /\ b[1 + 1 - 1] = x /\ b[1 + 2 - 1] = y /\ b[1 + 3 - 1] = z
  BY <1>1, <1>3 DEF Holds
<1>. QED  BY <1>2, <1>4 DEF v

\* HoldsConcat at the first position.
LEMMA HoldsConcatFirst ==
    ASSUME NEW b \in Seq(Byte), NEW v \in Seq(Byte), NEW w \in Seq(Byte)
    PROVE  /\ Holds(b, 1, v \o w) <=> Holds(b, 1, v) /\ Holds(b, 1 + Len(v), w)
           /\ v \o w \in Seq(Byte) /\ Len(v \o w) = Len(v) + Len(w)
<1>1. PICK p \in Nat \ {0} : p = 1
  OBVIOUS
<1>2. /\ Holds(b, p, v \o w) <=> Holds(b, p, v) /\ Holds(b, p + Len(v), w)
      /\ v \o w \in Seq(Byte) /\ Len(v \o w) = Len(v) + Len(w)
  BY HoldsConcat, Zenon
<1>. QED  BY <1>1, <1>2, Zenon

\* The head of an execution is its bytes, the slot and the extra data.
LEMMA ExecuteHeadCode ==
    ASSUME NEW slot \in Word, NEW scheme \in {0, 1}, NEW extra \in Extras, NEW b \in Seq(Byte)
    PROVE  /\ execute_head(slot, scheme, extra) \in Seq(Byte)
           /\ Len(execute_head(slot, scheme, extra)) = 6 + Len(extra)
           /\ Holds(b, 1, execute_head(slot, scheme, extra)) <=>
                  /\ Holds(b, 1, <<EXECUTE, 0, scheme>>)
                  /\ Holds(b, 4, to_le_bytes(slot))
                  /\ Holds(b, 6, serialize_u8(extra))
<1> DEFINE c == <<EXECUTE, 0, scheme>>
           d == to_le_bytes(slot)
           e == serialize_u8(extra)
           f == c \o d
<1>1. c \in Seq(Byte) /\ Len(c) = 3
  BY BaseAssumption DEF Byte, EXECUTE
<1>2. d \in Seq(Byte) /\ Len(d) = 2
  BY ToLeBytes
<1>3. e \in Seq(Byte) /\ Len(e) = 1 + Len(extra) /\ Len(extra) \in Nat
  <2>1. extra \in Seq(Byte) /\ Len(extra) \in Byte
    BY DEF Extras
  <2>2. PICK p \in Nat \ {0} : p = 1
    OBVIOUS
  <2>3. e \in Seq(Byte) /\ Len(e) = 1 + Len(extra)
    BY <2>1, ReadSmallVecU8Code, Zenon
  <2>. QED  BY <2>1, <2>3, LenProperties
<1>4. execute_head(slot, scheme, extra) = f \o e
  BY DEF execute_head
<1> HIDE DEF c, d, e
<1>5. /\ f \in Seq(Byte) /\ Len(f) = Len(c) + Len(d)
      /\ Holds(b, 1, f) <=> Holds(b, 1, c) /\ Holds(b, 1 + Len(c), d)
  BY <1>1, <1>2, HoldsConcatFirst, Zenon
<1> HIDE DEF f
<1>6. /\ f \o e \in Seq(Byte) /\ Len(f \o e) = Len(f) + Len(e)
      /\ Holds(b, 1, f \o e) <=> Holds(b, 1, f) /\ Holds(b, 1 + Len(f), e)
  BY <1>3, <1>5, HoldsConcatFirst, Zenon
<1>7. 1 + Len(c) = 4 /\ 1 + Len(f) = 6 /\ Len(f) + Len(e) = 6 + Len(extra)
  BY <1>1, <1>2, <1>3, <1>5
<1>. QED  BY <1>4, <1>5, <1>6, <1>7, Zenon DEF c, d, e

\* The head of an initialisation or a refresh likewise.
LEMMA KeyedHeadCode ==
    ASSUME NEW kind \in Kinds, NEW slot \in Word, NEW extra \in Extras, NEW b \in Seq(Byte)
    PROVE  /\ keyed_head(kind, slot, extra) \in Seq(Byte)
           /\ Len(keyed_head(kind, slot, extra)) = 5 + Len(extra)
           /\ Holds(b, 1, keyed_head(kind, slot, extra)) <=>
                  /\ Holds(b, 1, <<kind>>) /\ Holds(b, 2, to_le_bytes(slot))
                  /\ Holds(b, 4, <<0>>) /\ Holds(b, 5, serialize_u8(extra))
<1> DEFINE c == <<kind>>
           d == to_le_bytes(slot)
           z == <<0>>
           e == serialize_u8(extra)
           f == c \o d
           g == f \o z
<1>1. c \in Seq(Byte) /\ Len(c) = 1 /\ z \in Seq(Byte) /\ Len(z) = 1
  BY BaseAssumption DEF Byte, Kinds, INITIALIZE, EXECUTE, REFRESH, SESSIONED
<1>2. d \in Seq(Byte) /\ Len(d) = 2
  BY ToLeBytes
<1>3. e \in Seq(Byte) /\ Len(e) = 1 + Len(extra) /\ Len(extra) \in Nat
  <2>1. extra \in Seq(Byte) /\ Len(extra) \in Byte
    BY DEF Extras
  <2>2. PICK p \in Nat \ {0} : p = 1
    OBVIOUS
  <2>3. e \in Seq(Byte) /\ Len(e) = 1 + Len(extra)
    BY <2>1, ReadSmallVecU8Code, Zenon
  <2>. QED  BY <2>1, <2>3, LenProperties
<1>4. keyed_head(kind, slot, extra) = g \o e
  BY DEF keyed_head
<1> HIDE DEF c, d, e, z
<1>5. /\ f \in Seq(Byte) /\ Len(f) = Len(c) + Len(d)
      /\ Holds(b, 1, f) <=> Holds(b, 1, c) /\ Holds(b, 1 + Len(c), d)
  BY <1>1, <1>2, HoldsConcatFirst, Zenon
<1> HIDE DEF f
<1>6. /\ g \in Seq(Byte) /\ Len(g) = Len(f) + Len(z)
      /\ Holds(b, 1, g) <=> Holds(b, 1, f) /\ Holds(b, 1 + Len(f), z)
  BY <1>1, <1>5, HoldsConcatFirst, Zenon
<1> HIDE DEF g
<1>7. /\ g \o e \in Seq(Byte) /\ Len(g \o e) = Len(g) + Len(e)
      /\ Holds(b, 1, g \o e) <=> Holds(b, 1, g) /\ Holds(b, 1 + Len(g), e)
  BY <1>3, <1>6, HoldsConcatFirst, Zenon
<1>8. /\ 1 + Len(c) = 2 /\ 1 + Len(f) = 4 /\ 1 + Len(g) = 5
      /\ Len(g) + Len(e) = 5 + Len(extra)
  BY <1>1, <1>2, <1>3, <1>5, <1>6
<1>. QED  BY <1>4, <1>5, <1>6, <1>7, <1>8, Zenon DEF c, d, e, z

\* read_execute_head reads what the builder writes, and only that.
LEMMA ReadExecuteHead ==
    ASSUME NEW b \in Seq(Byte), Len(b) >= 1, b[1] = EXECUTE
    PROVE  /\ \A h : h \in read_execute_head(b, 2) <=>
                  \E slot \in Word, scheme \in {0, 1}, extra \in Extras :
                      /\ h = Fields({slot}, 7 + Len(extra))
                      /\ Holds(b, 1, execute_head(slot, scheme, extra))
           /\ AtMostOne(read_execute_head(b, 2))
<1>0. Len(b) \in Nat /\ 4 \in Nat \ {0} /\ 6 \in Nat \ {0}
  BY LenProperties
<1> DEFINE From(t) == {Fields({t.value}, v.at) : v \in read_small_vec_u8(b, t.at)}
<1>1. read_execute_head(b, 2) = IF 3 > Len(b) \/ b[2] # 0 \/ b[3] \notin {0, 1} THEN {}
                                ELSE UNION {From(t) : t \in read_u16(b, 4)}
  BY DEF read_execute_head
<1> HIDE DEF From
<1>2. ASSUME NEW t \in read_u16(b, 4)
      PROVE  /\ t.value \in Word /\ t.at = 6 /\ Holds(b, 4, to_le_bytes(t.value))
  <2>1. PICK n \in Word : Decodes(t, b, 4, n, to_le_bytes(n))
    BY <1>0, ReadU16
  <2>2. Len(to_le_bytes(n)) = 2
    BY ToLeBytes
  <2>. QED  BY <2>1, <2>2 DEF Decodes
<1>3. ASSUME NEW v \in read_small_vec_u8(b, 6)
      PROVE  /\ v.value \in Extras /\ v.at = 7 + Len(v.value) /\ Holds(b, 6, serialize_u8(v.value))
  <2>1. PICK x \in Seq(Byte) : Len(x) \in Byte /\ Decodes(v, b, 6, x, serialize_u8(x))
    BY <1>0, ReadSmallVecU8
  <2>2. Len(serialize_u8(x)) = 1 + Len(x) /\ Len(x) \in Nat
    BY <1>0, <2>1, ReadSmallVecU8Code, LenProperties
  <2>3. 6 + Len(serialize_u8(x)) = 7 + Len(x)
    BY <2>2
  <2>. QED  BY <2>1, <2>3 DEF Decodes, Extras
<1>4. ASSUME NEW h, h \in read_execute_head(b, 2)
      PROVE  \E slot \in Word, scheme \in {0, 1}, extra \in Extras :
                 /\ h = Fields({slot}, 7 + Len(extra))
                 /\ Holds(b, 1, execute_head(slot, scheme, extra))
  <2>1. 3 <= Len(b) /\ b[2] = 0 /\ b[3] \in {0, 1}
    BY <1>0, <1>1, <1>4
  <2>2. PICK t \in read_u16(b, 4) : h \in From(t)
    BY <1>1, <1>4, <2>1
  <2>3. t.value \in Word /\ t.at = 6 /\ Holds(b, 4, to_le_bytes(t.value))
    BY <1>2
  <2>4. PICK v \in read_small_vec_u8(b, 6) : h = Fields({t.value}, v.at)
    BY <2>2, <2>3 DEF From
  <2>5. v.value \in Extras /\ v.at = 7 + Len(v.value) /\ Holds(b, 6, serialize_u8(v.value))
    BY <1>3
  <2>6. Holds(b, 1, <<EXECUTE, 0, b[3]>>)
    BY <2>1, HoldsThree
  <2>7. Holds(b, 1, execute_head(t.value, b[3], v.value))
    BY <2>1, <2>3, <2>5, <2>6, ExecuteHeadCode
  <2>. QED  BY <2>1, <2>3, <2>4, <2>5, <2>7
<1>5. ASSUME NEW h, NEW slot \in Word, NEW scheme \in {0, 1}, NEW extra \in Extras,
             h = Fields({slot}, 7 + Len(extra)), Holds(b, 1, execute_head(slot, scheme, extra))
      PROVE  h \in read_execute_head(b, 2)
  <2>1. /\ Holds(b, 1, <<EXECUTE, 0, scheme>>)
        /\ Holds(b, 4, to_le_bytes(slot)) /\ Holds(b, 6, serialize_u8(extra))
    BY <1>5, ExecuteHeadCode
  <2>2. ~(3 > Len(b)) /\ b[2] = 0 /\ b[3] \in {0, 1}
    BY <1>0, <2>1, HoldsThree
  <2> DEFINE t == [value |-> slot, at |-> 6]
             v == [value |-> extra, at |-> 7 + Len(extra)]
  <2>3. t \in read_u16(b, 4)
    <3>. Len(to_le_bytes(slot)) = 2
      BY ToLeBytes
    <3>0. 4 + Len(to_le_bytes(slot)) = 6
      OBVIOUS
    <3>1. Decodes(t, b, 4, slot, to_le_bytes(slot))
      BY <2>1, <3>0 DEF Decodes
    <3>. QED  BY <1>0, <3>1, ReadU16
  <2>4. v \in read_small_vec_u8(b, 6)
    <3>1. extra \in Seq(Byte) /\ Len(extra) \in Byte /\ Len(extra) \in Nat
      BY LenProperties DEF Extras
    <3>2. Len(serialize_u8(extra)) = 1 + Len(extra)
      BY <1>0, <3>1, ReadSmallVecU8Code
    <3>3. 6 + Len(serialize_u8(extra)) = 7 + Len(extra)
      BY <3>1, <3>2
    <3>4. Decodes(v, b, 6, extra, serialize_u8(extra))
      BY <2>1, <3>3 DEF Decodes
    <3>. QED  BY <1>0, <3>1, <3>4, ReadSmallVecU8
  <2>5. t.value = slot /\ t.at = 6 /\ v.at = 7 + Len(extra)
    OBVIOUS
  <2> HIDE DEF t, v
  <2>6. h \in From(t)
    BY <1>5, <2>4, <2>5 DEF From
  <2>. QED  BY <1>1, <2>2, <2>3, <2>6
<1>6. ASSUME NEW g \in read_execute_head(b, 2), NEW h \in read_execute_head(b, 2) PROVE g = h
  <2>1. AtMostOne(read_u16(b, 4)) /\ AtMostOne(read_small_vec_u8(b, 6))
    BY <1>0, ReadU16, ReadSmallVecU8
  <2>2. PICK t \in read_u16(b, 4) : g \in From(t) /\ h \in From(t)
    BY <1>1, <2>1 DEF AtMostOne
  <2>3. t.at = 6
    BY <1>2
  <2>4. PICK v \in read_small_vec_u8(b, 6) : g = Fields({t.value}, v.at)
    BY <2>2, <2>3 DEF From
  <2>5. PICK w \in read_small_vec_u8(b, 6) : h = Fields({t.value}, w.at)
    BY <2>2, <2>3 DEF From
  <2>. QED  BY <2>1, <2>4, <2>5 DEF AtMostOne
<1>. QED  BY <1>4, <1>5, <1>6 DEF AtMostOne

\* read_keyed_head reads what the builders write, and only that.
LEMMA ReadKeyedHead ==
    ASSUME NEW b \in Seq(Byte), Len(b) >= 1, NEW kind \in Kinds, b[1] = kind
    PROVE  /\ \A h : h \in read_keyed_head(b, 2) <=>
                  \E slot \in Word, extra \in Extras :
                      /\ h = Fields({slot}, 6 + Len(extra))
                      /\ Holds(b, 1, keyed_head(kind, slot, extra))
           /\ AtMostOne(read_keyed_head(b, 2))
<1>0. Len(b) \in Nat /\ 1 \in Nat \ {0} /\ 2 \in Nat \ {0} /\ 4 \in Nat \ {0} /\ 5 \in Nat \ {0}
  BY LenProperties
<1> DEFINE Vec(t) == IF t.at <= Len(b) /\ b[t.at] = 0 THEN read_small_vec_u8(b, t.at + 1) ELSE {}
           From(t) == {Fields({t.value}, v.at) : v \in Vec(t)}
<1>1. read_keyed_head(b, 2) = UNION {From(t) : t \in read_u16(b, 2)}
  BY DEF read_keyed_head
<1>2. ASSUME NEW t \in read_u16(b, 2)
      PROVE  /\ t.value \in Word /\ t.at = 4 /\ Holds(b, 2, to_le_bytes(t.value))
             /\ \A v : v \in Vec(t) <=> Holds(b, 4, <<0>>) /\ v \in read_small_vec_u8(b, 5)
  <2>1. PICK n \in Word : Decodes(t, b, 2, n, to_le_bytes(n))
    BY <1>0, ReadU16
  <2>2. Len(to_le_bytes(n)) = 2
    BY ToLeBytes
  <2>3. t.value \in Word /\ t.at = 4 /\ Holds(b, 2, to_le_bytes(t.value))
    BY <2>1, <2>2 DEF Decodes
  <2>4. Holds(b, 4, <<0>>) <=> 4 <= Len(b) /\ b[4] = 0
    BY <1>0, HoldsOne
  <2>. QED  BY <2>3, <2>4
<1> HIDE DEF Vec, From
<1>3. ASSUME NEW v \in read_small_vec_u8(b, 5)
      PROVE  /\ v.value \in Extras /\ v.at = 6 + Len(v.value) /\ Holds(b, 5, serialize_u8(v.value))
  <2>1. PICK x \in Seq(Byte) : Len(x) \in Byte /\ Decodes(v, b, 5, x, serialize_u8(x))
    BY <1>0, ReadSmallVecU8
  <2>2. Len(serialize_u8(x)) = 1 + Len(x) /\ Len(x) \in Nat
    BY <1>0, <2>1, ReadSmallVecU8Code, LenProperties
  <2>3. 5 + Len(serialize_u8(x)) = 6 + Len(x)
    BY <2>2
  <2>. QED  BY <2>1, <2>3 DEF Decodes, Extras
<1>k. Holds(b, 1, <<kind>>)
  BY <1>0, HoldsOne
<1>4. ASSUME NEW h, h \in read_keyed_head(b, 2)
      PROVE  \E slot \in Word, extra \in Extras :
                 /\ h = Fields({slot}, 6 + Len(extra))
                 /\ Holds(b, 1, keyed_head(kind, slot, extra))
  <2>1. PICK t \in read_u16(b, 2) : h \in From(t)
    BY <1>1, <1>4
  <2>2. t.value \in Word /\ t.at = 4 /\ Holds(b, 2, to_le_bytes(t.value))
    BY <1>2
  <2>3. PICK v \in Vec(t) : h = Fields({t.value}, v.at)
    BY <2>1 DEF From
  <2>4. v \in read_small_vec_u8(b, 5) /\ Holds(b, 4, <<0>>)
    BY <1>2
  <2>5. v.value \in Extras /\ v.at = 6 + Len(v.value) /\ Holds(b, 5, serialize_u8(v.value))
    BY <1>3, <2>4
  <2>6. Holds(b, 1, keyed_head(kind, t.value, v.value))
    BY <1>k, <2>2, <2>4, <2>5, KeyedHeadCode
  <2>. QED  BY <2>2, <2>3, <2>5, <2>6
<1>5. ASSUME NEW h, NEW slot \in Word, NEW extra \in Extras,
             h = Fields({slot}, 6 + Len(extra)), Holds(b, 1, keyed_head(kind, slot, extra))
      PROVE  h \in read_keyed_head(b, 2)
  <2>1. /\ Holds(b, 2, to_le_bytes(slot)) /\ Holds(b, 4, <<0>>)
        /\ Holds(b, 5, serialize_u8(extra))
    BY <1>5, KeyedHeadCode
  <2> DEFINE t == [value |-> slot, at |-> 4]
             v == [value |-> extra, at |-> 6 + Len(extra)]
  <2>3. t \in read_u16(b, 2)
    <3>. Len(to_le_bytes(slot)) = 2
      BY ToLeBytes
    <3>0. 2 + Len(to_le_bytes(slot)) = 4
      OBVIOUS
    <3>1. Decodes(t, b, 2, slot, to_le_bytes(slot))
      BY <2>1, <3>0 DEF Decodes
    <3>. QED  BY <1>0, <3>1, ReadU16
  <2>4. v \in read_small_vec_u8(b, 5)
    <3>1. extra \in Seq(Byte) /\ Len(extra) \in Byte /\ Len(extra) \in Nat
      BY LenProperties DEF Extras
    <3>2. Len(serialize_u8(extra)) = 1 + Len(extra)
      BY <1>0, <3>1, ReadSmallVecU8Code
    <3>3. 5 + Len(serialize_u8(extra)) = 6 + Len(extra)
      BY <3>1, <3>2
    <3>4. Decodes(v, b, 5, extra, serialize_u8(extra))
      BY <2>1, <3>3 DEF Decodes
    <3>. QED  BY <1>0, <3>1, <3>4, ReadSmallVecU8
  <2>5. t.value = slot /\ v.at = 6 + Len(extra)
    OBVIOUS
  <2> HIDE DEF t, v
  <2>6. v \in Vec(t)
    BY <1>2, <2>1, <2>3, <2>4
  <2>7. h \in From(t)
    BY <1>5, <2>5, <2>6 DEF From
  <2>. QED  BY <1>1, <2>3, <2>7
<1>6. ASSUME NEW g \in read_keyed_head(b, 2), NEW h \in read_keyed_head(b, 2) PROVE g = h
  <2>1. AtMostOne(read_u16(b, 2)) /\ AtMostOne(read_small_vec_u8(b, 5))
    BY <1>0, ReadU16, ReadSmallVecU8
  <2>2. PICK t \in read_u16(b, 2) : g \in From(t) /\ h \in From(t)
    BY <1>1, <2>1 DEF AtMostOne
  <2>3. PICK v \in Vec(t) : g = Fields({t.value}, v.at)
    BY <2>2 DEF From
  <2>4. PICK w \in Vec(t) : h = Fields({t.value}, w.at)
    BY <2>2 DEF From
  <2>5. v \in read_small_vec_u8(b, 5) /\ w \in read_small_vec_u8(b, 5)
    BY <1>2
  <2>. QED  BY <2>1, <2>3, <2>4, <2>5 DEF AtMostOne
<1>. QED  BY <1>4, <1>5, <1>6 DEF AtMostOne

\* Every head begins with its discriminator.
LEMMA OpeningCode ==
    ASSUME NEW kind \in Kinds, NEW slot \in Word, NEW scheme \in {0, 1}, NEW extra \in Extras
    PROVE  /\ Opening(kind, slot, scheme, extra) \in Seq(Byte)
           /\ Opening(kind, slot, scheme, extra) # <<>>
           /\ Opening(kind, slot, scheme, extra)[1] = kind
<1> DEFINE op == Opening(kind, slot, scheme, extra)
<1> HIDE DEF op
<1>1. op \in Seq(Byte) /\ Len(op) >= 1 /\ Len(op) \in Nat /\ op[1] = kind
  <2>0. Len(extra) \in Nat
    BY LenProperties DEF Extras
  <2>1. CASE kind = EXECUTE
    <3>1. op = execute_head(slot, scheme, extra)
      BY <2>1 DEF op, Opening, EXECUTE, SESSIONED
    <3>2. op \in Seq(Byte) /\ Len(op) = 6 + Len(extra)
      BY <3>1, ExecuteHeadCode, EmptySeq
    <3>3. Holds(op, 1, op)
      BY <3>2, LenProperties DEF Holds
    <3>4. Holds(op, 1, <<EXECUTE, 0, scheme>>)
      BY <3>1, <3>2, <3>3, ExecuteHeadCode
    <3>. QED  BY <2>0, <2>1, <3>2, <3>4, HoldsThree
  <2>2. CASE kind = SESSIONED
    <3>1. op = <<SESSIONED, 0, scheme>>
      BY <2>2 DEF op, Opening, EXECUTE, SESSIONED
    <3>. QED  BY <2>2, <3>1, BaseAssumption DEF Byte, SESSIONED
  <2>3. CASE kind # EXECUTE /\ kind # SESSIONED
    <3>1. op = keyed_head(kind, slot, extra)
      BY <2>3 DEF op, Opening
    <3>2. op \in Seq(Byte) /\ Len(op) = 5 + Len(extra)
      BY <3>1, KeyedHeadCode, EmptySeq
    <3>3. Holds(op, 1, op)
      BY <3>2, LenProperties DEF Holds
    <3>4. Holds(op, 1, <<kind>>)
      BY <3>1, <3>2, <3>3, KeyedHeadCode
    <3>. QED  BY <2>0, <3>2, <3>4, HoldsOne
  <2>. QED  BY <2>1, <2>2, <2>3
<1>. QED  BY <1>1 DEF op

\* read_head reads the head of its discriminator, and only that.
LEMMA ReadHead ==
    ASSUME NEW b \in Seq(Byte), Len(b) >= 1, NEW kind \in Kinds, b[1] = kind
    PROVE  /\ \A h : h \in read_head(b, 2, kind) <=>
                  \E slot \in Word, scheme \in {0, 1}, extra \in Extras :
                      /\ h = Fields(IF kind = SESSIONED THEN {} ELSE {slot},
                                    1 + Len(Opening(kind, slot, scheme, extra)))
                      /\ Holds(b, 1, Opening(kind, slot, scheme, extra))
           /\ AtMostOne(read_head(b, 2, kind))
<1>1. CASE kind = EXECUTE
  <2>1. read_head(b, 2, kind) = read_execute_head(b, 2) /\ kind # SESSIONED
    BY <1>1 DEF read_head, EXECUTE, SESSIONED
  <2>2. ASSUME NEW slot \in Word, NEW scheme \in {0, 1}, NEW extra \in Extras
        PROVE  /\ Opening(kind, slot, scheme, extra) = execute_head(slot, scheme, extra)
               /\ 1 + Len(Opening(kind, slot, scheme, extra)) = 7 + Len(extra)
    <3>1. Opening(kind, slot, scheme, extra) = execute_head(slot, scheme, extra)
      BY <1>1 DEF Opening, EXECUTE, SESSIONED
    <3>2. Len(extra) \in Nat /\ Len(execute_head(slot, scheme, extra)) = 6 + Len(extra)
      BY ExecuteHeadCode, LenProperties DEF Extras
    <3>. QED  BY <3>1, <3>2
  <2>3. ASSUME NEW h, h \in read_execute_head(b, 2)
        PROVE  \E slot \in Word, scheme \in {0, 1}, extra \in Extras :
                   /\ h = Fields({slot}, 1 + Len(Opening(kind, slot, scheme, extra)))
                   /\ Holds(b, 1, Opening(kind, slot, scheme, extra))
    <3>1. PICK slot \in Word, scheme \in {0, 1}, extra \in Extras :
              h = Fields({slot}, 7 + Len(extra)) /\ Holds(b, 1, execute_head(slot, scheme, extra))
      BY <1>1, <2>3, ReadExecuteHead
    <3>2. /\ h = Fields({slot}, 1 + Len(Opening(kind, slot, scheme, extra)))
          /\ Holds(b, 1, Opening(kind, slot, scheme, extra))
      BY <2>2, <3>1
    <3>. QED  BY <3>2
  <2>4. ASSUME NEW h, NEW slot \in Word, NEW scheme \in {0, 1}, NEW extra \in Extras,
               h = Fields({slot}, 1 + Len(Opening(kind, slot, scheme, extra))),
               Holds(b, 1, Opening(kind, slot, scheme, extra))
        PROVE  h \in read_execute_head(b, 2)
    <3>1. h = Fields({slot}, 7 + Len(extra)) /\ Holds(b, 1, execute_head(slot, scheme, extra))
      BY <2>2, <2>4
    <3>. QED  BY <1>1, <3>1, ReadExecuteHead
  <2>5. AtMostOne(read_execute_head(b, 2))
    BY <1>1, ReadExecuteHead
  <2>. QED  BY <1>1, <2>1, <2>3, <2>4, <2>5
<1>2. CASE kind = SESSIONED
  <2>1. read_head(b, 2, kind) = read_sessioned_head(b, 2)
    BY <1>2 DEF read_head, EXECUTE, SESSIONED
  <2>2. ASSUME NEW slot \in Word, NEW scheme \in {0, 1}, NEW extra \in Extras
        PROVE  /\ Opening(kind, slot, scheme, extra) = <<SESSIONED, 0, scheme>>
               /\ 1 + Len(Opening(kind, slot, scheme, extra)) = 4
    BY <1>2 DEF Opening, EXECUTE, SESSIONED
  <2>3. Len(b) \in Nat
    BY LenProperties
  <2>4. read_sessioned_head(b, 2) = IF 3 > Len(b) \/ b[2] # 0 \/ b[3] \notin {0, 1} THEN {}
                                    ELSE {Fields({}, 4)}
    BY DEF read_sessioned_head
  <2>5. ASSUME NEW h, h \in read_sessioned_head(b, 2)
        PROVE  h = Fields({}, 4) /\ \E scheme \in {0, 1} : Holds(b, 1, <<SESSIONED, 0, scheme>>)
    <3>1. 3 <= Len(b) /\ b[2] = 0 /\ b[3] \in {0, 1} /\ h = Fields({}, 4)
      BY <2>3, <2>4, <2>5
    <3>. QED  BY <1>2, <3>1, HoldsThree
  <2>6. ASSUME NEW scheme \in {0, 1}, Holds(b, 1, <<SESSIONED, 0, scheme>>)
        PROVE  Fields({}, 4) \in read_sessioned_head(b, 2)
    BY <2>3, <2>4, <2>6, HoldsThree
  <2>7. 0 \in Word /\ <<>> \in Extras
    BY BaseAssumption DEF Word, Extras, Byte
  <2>8. AtMostOne(read_sessioned_head(b, 2))
    BY <2>5 DEF AtMostOne
  <2>. QED  BY <1>2, <2>1, <2>2, <2>5, <2>6, <2>7, <2>8
<1>3. CASE kind # EXECUTE /\ kind # SESSIONED
  <2>1. read_head(b, 2, kind) = read_keyed_head(b, 2)
    BY <1>3 DEF read_head
  <2>2. ASSUME NEW slot \in Word, NEW scheme \in {0, 1}, NEW extra \in Extras
        PROVE  /\ Opening(kind, slot, scheme, extra) = keyed_head(kind, slot, extra)
               /\ 1 + Len(Opening(kind, slot, scheme, extra)) = 6 + Len(extra)
    <3>1. Opening(kind, slot, scheme, extra) = keyed_head(kind, slot, extra)
      BY <1>3 DEF Opening
    <3>2. Len(extra) \in Nat /\ Len(keyed_head(kind, slot, extra)) = 5 + Len(extra)
      BY KeyedHeadCode, LenProperties DEF Extras
    <3>. QED  BY <3>1, <3>2
  <2>3. ASSUME NEW h, h \in read_keyed_head(b, 2)
        PROVE  \E slot \in Word, scheme \in {0, 1}, extra \in Extras :
                   /\ h = Fields({slot}, 1 + Len(Opening(kind, slot, scheme, extra)))
                   /\ Holds(b, 1, Opening(kind, slot, scheme, extra))
    <3>1. PICK slot \in Word, extra \in Extras :
              h = Fields({slot}, 6 + Len(extra)) /\ Holds(b, 1, keyed_head(kind, slot, extra))
      BY <1>3, <2>3, ReadKeyedHead
    <3>2. /\ h = Fields({slot}, 1 + Len(Opening(kind, slot, 0, extra)))
          /\ Holds(b, 1, Opening(kind, slot, 0, extra))
      BY <2>2, <3>1
    <3>. QED  BY <3>2
  <2>4. ASSUME NEW h, NEW slot \in Word, NEW scheme \in {0, 1}, NEW extra \in Extras,
               h = Fields({slot}, 1 + Len(Opening(kind, slot, scheme, extra))),
               Holds(b, 1, Opening(kind, slot, scheme, extra))
        PROVE  h \in read_keyed_head(b, 2)
    <3>1. h = Fields({slot}, 6 + Len(extra)) /\ Holds(b, 1, keyed_head(kind, slot, extra))
      BY <2>2, <2>4
    <3>. QED  BY <1>3, <3>1, ReadKeyedHead
  <2>5. AtMostOne(read_keyed_head(b, 2))
    BY <1>3, ReadKeyedHead
  <2>. QED  BY <1>3, <2>1, <2>3, <2>4, <2>5
<1>. QED  BY <1>1, <1>2, <1>3

-----------------------------------------------------------------------------
\* No code of a value of X is the beginning of the code of another.
PrefixFree(c, X) ==
    \A b \in Seq(Byte), p \in Nat \ {0}, x, y \in X :
        Holds(b, p, c[x]) /\ Holds(b, p, c[y]) => x = y

\* The codes of the members of a list, one by one and in a row.
Codes(c, s) == [i \in DOMAIN s |-> c[s[i]]]
Flat(c, s) == FlattenSeq(Codes(c, s))

\* A function on 1..n is a sequence.
LEMMA FunctionIsSeq ==
    ASSUME NEW S, NEW n \in Nat, NEW f \in [1..n -> S]
    PROVE  f \in Seq(S) /\ Len(f) = n
OBVIOUS

\* There is one code for each member.
LEMMA CodesType ==
    ASSUME NEW X, NEW c \in [X -> Seq(Byte)], NEW s \in Seq(X)
    PROVE  Codes(c, s) \in Seq(Seq(Byte)) /\ Len(Codes(c, s)) = Len(s)
<1>1. Len(s) \in Nat /\ DOMAIN s = 1..Len(s) /\ \A i \in 1..Len(s) : s[i] \in X
  BY LenProperties, ElementOfSeq
<1>2. \A i \in 1..Len(s) : c[s[i]] \in Seq(Byte)
  BY <1>1
<1>3. Codes(c, s) \in [1..Len(s) -> Seq(Byte)]
  BY <1>1, <1>2 DEF Codes
<1> DEFINE v == Codes(c, s)
<1> HIDE DEF v
<1>4. v \in Seq(Seq(Byte)) /\ Len(v) = Len(s)
  <2>1. v \in [1..Len(s) -> Seq(Byte)]
    BY <1>3 DEF v
  <2>. QED  BY <1>1, <2>1, FunctionIsSeq, Zenon
<1>. QED  BY <1>4 DEF v

\* An empty list has an empty code.
LEMMA FlatEmpty ==
    ASSUME NEW c
    PROVE  Flat(c, <<>>) = <<>>
<1>1. Codes(c, <<>>) = <<>>
  BY DEF Codes
<1>. QED  BY <1>1, FlattenEmpty DEF Flat

\* The code of a list is a byte string.
LEMMA FlatType ==
    ASSUME NEW X, NEW c \in [X -> Seq(Byte)], NEW s \in Seq(X)
    PROVE  Flat(c, s) \in Seq(Byte) /\ Len(Flat(c, s)) \in Nat
BY CodesType, FlattenType, LenProperties DEF Flat

\* The code of a longer list continues that of the shorter.
LEMMA FlatAppend ==
    ASSUME NEW X, NEW c \in [X -> Seq(Byte)], NEW s \in Seq(X), NEW x \in X
    PROVE  Flat(c, Append(s, x)) = Flat(c, s) \o c[x]
<1> DEFINE t == Append(s, x)
           u == Codes(c, s)
           v == Codes(c, t)
           w == Append(u, c[x])
<1>1. /\ t \in Seq(X) /\ Len(t) = Len(s) + 1 /\ Len(s) \in Nat
      /\ t[Len(s) + 1] = x /\ \A i \in 1..Len(s) : t[i] = s[i]
  BY AppendProperties, LenProperties
<1>2. DOMAIN t = 1..(Len(s) + 1) /\ DOMAIN s = 1..Len(s)
  BY <1>1, LenProperties
<1> HIDE DEF t
<1>3. u \in Seq(Seq(Byte)) /\ Len(u) = Len(s) /\ \A i \in 1..Len(s) : u[i] = c[s[i]]
  BY <1>2, CodesType DEF Codes
<1>4. v \in Seq(Seq(Byte)) /\ Len(v) = Len(s) + 1 /\ \A i \in 1..(Len(s) + 1) : v[i] = c[t[i]]
  BY <1>1, <1>2, CodesType DEF Codes
<1> HIDE DEF u, v
<1>5. /\ w \in Seq(Seq(Byte)) /\ Len(w) = Len(s) + 1 /\ w[Len(s) + 1] = c[x]
      /\ \A i \in 1..Len(s) : w[i] = u[i]
  BY <1>3, AppendProperties
<1> HIDE DEF w
<1>6. ASSUME NEW i \in 1..(Len(s) + 1) PROVE v[i] = w[i]
  <2>1. CASE i = Len(s) + 1
    BY <1>1, <1>4, <1>5, <2>1
  <2>2. CASE i # Len(s) + 1
    <3>1. i \in 1..Len(s)
      BY <1>1, <2>2
    <3>. QED  BY <1>1, <1>3, <1>4, <1>5, <3>1
  <2>. QED  BY <2>1, <2>2
<1>7. v = w
  BY <1>4, <1>5, <1>6, SeqEqual
<1>8. FlattenSeq(w) = FlattenSeq(u) \o c[x]
  BY <1>3, FlattenAppend DEF w
<1>. QED  BY <1>7, <1>8 DEF Flat, t, u, v

\* The first k members of a list.
Upto(s, k) == SubSeq(s, 1, k)

\* What the first k members are, and how the next one continues them.
LEMMA UptoFacts ==
    ASSUME NEW S, NEW s \in Seq(S), NEW k \in 0..Len(s)
    PROVE  /\ Upto(s, k) \in Seq(S) /\ Len(Upto(s, k)) = k
           /\ \A i \in 1..k : Upto(s, k)[i] = s[i]
           /\ k < Len(s) => s[k + 1] \in S /\ Upto(s, k + 1) = Append(Upto(s, k), s[k + 1])
           /\ Upto(s, Len(s)) = s /\ Upto(s, 0) = <<>>
<1>0. Len(s) \in Nat /\ k \in Nat
  BY LenProperties
<1>1. /\ Upto(s, k) \in Seq(S) /\ Len(Upto(s, k)) = k /\ \A i \in 1..k : Upto(s, k)[i] = s[i]
  BY <1>0 DEF Upto
<1>2. ASSUME k < Len(s) PROVE s[k + 1] \in S /\ Upto(s, k + 1) = Append(Upto(s, k), s[k + 1])
  <2>1. s[k + 1] \in S
    BY <1>0, <1>2, ElementOfSeq
  <2>2. /\ Upto(s, k + 1) \in Seq(S) /\ Len(Upto(s, k + 1)) = k + 1
        /\ \A i \in 1..(k + 1) : Upto(s, k + 1)[i] = s[i]
    BY <1>0, <1>2 DEF Upto
  <2> DEFINE x == Upto(s, k + 1)
             u == Upto(s, k)
             y == Append(u, s[k + 1])
  <2> HIDE DEF u
  <2>3. /\ y \in Seq(S) /\ Len(y) = k + 1 /\ \A i \in 1..k : y[i] = u[i]
        /\ y[k + 1] = s[k + 1]
    BY <1>0, <1>1, <2>1, AppendProperties DEF u
  <2> HIDE DEF x, y
  <2>4. \A i \in 1..(k + 1) : x[i] = y[i]
    BY <1>0, <1>1, <2>2, <2>3 DEF u, x
  <2>5. x = y
    BY <2>2, <2>3, <2>4, SeqEqual DEF x
  <2>. QED  BY <2>1, <2>5 DEF x, y, u
<1>3. Upto(s, Len(s)) = s /\ Upto(s, 0) = <<>>
  BY <1>0, SubSeqFull, SubSeqEmpty DEF Upto
<1>. QED  BY <1>1, <1>2, <1>3

\* Bytes that hold a list hold its beginnings, and the next member behind.
LEMMA FlatPrefix ==
    ASSUME NEW X, NEW c \in [X -> Seq(Byte)], NEW s \in Seq(X), NEW b \in Seq(Byte),
           NEW p \in Nat \ {0}, Holds(b, p, Flat(c, s)), NEW k \in 0..Len(s)
    PROVE  /\ Holds(b, p, Flat(c, Upto(s, k)))
           /\ k < Len(s) => Holds(b, p + Len(Flat(c, Upto(s, k))), c[s[k + 1]])
<1>0. Len(s) \in Nat
  BY LenProperties
<1>1. ASSUME NEW m \in 0..Len(s), m < Len(s), Holds(b, p, Flat(c, Upto(s, m + 1)))
      PROVE  /\ Holds(b, p, Flat(c, Upto(s, m)))
             /\ Holds(b, p + Len(Flat(c, Upto(s, m))), c[s[m + 1]])
  <2> DEFINE u == Upto(s, m)
             f == Flat(c, u)
             x == s[m + 1]
             e == c[x]
  <2>1. u \in Seq(X) /\ x \in X /\ Upto(s, m + 1) = Append(u, x)
    BY <1>1, UptoFacts
  <2> HIDE DEF u, x
  <2>2. f \in Seq(Byte) /\ e \in Seq(Byte) /\ Flat(c, Append(u, x)) = f \o e
    BY <2>1, FlatType, FlatAppend
  <2> HIDE DEF f, e
  <2>3. Holds(b, p, f \o e)
    BY <1>1, <2>1, <2>2
  <2>4. Holds(b, p, f) /\ Holds(b, p + Len(f), e)
    BY <2>2, <2>3, HoldsConcat, Zenon
  <2>. QED  BY <2>4 DEF u, f, x, e
<1> DEFINE T == {j \in Nat : j <= Len(s) => Holds(b, p, Flat(c, Upto(s, Len(s) - j)))}
<1>2. 0 \in T
  <2>1. Len(s) - 0 = Len(s) /\ Len(s) \in 0..Len(s)
    BY <1>0
  <2>2. Upto(s, Len(s)) = s
    BY <2>1, UptoFacts
  <2>. QED  BY <2>1, <2>2
<1>3. ASSUME NEW j \in T PROVE j + 1 \in T
  <2> SUFFICES ASSUME j + 1 <= Len(s) PROVE Holds(b, p, Flat(c, Upto(s, Len(s) - (j + 1))))
    OBVIOUS
  <2> DEFINE m == Len(s) - (j + 1)
  <2>1. m \in 0..Len(s) /\ m < Len(s) /\ m + 1 = Len(s) - j /\ j <= Len(s)
    BY <1>0
  <2>2. Holds(b, p, Flat(c, Upto(s, m + 1)))
    BY <2>1
  <2> HIDE DEF m
  <2>3. Holds(b, p, Flat(c, Upto(s, m)))
    BY <1>1, <2>1, <2>2
  <2>. QED  BY <2>3 DEF m
<1>4. T = Nat
  <2>1. T \in SUBSET Nat
    OBVIOUS
  <2> HIDE DEF T
  <2>. QED  BY <2>1, <1>2, <1>3, Induction
<1>5. ASSUME NEW m \in 0..Len(s) PROVE Holds(b, p, Flat(c, Upto(s, m)))
  <2>1. Len(s) - m \in Nat /\ Len(s) - m <= Len(s) /\ Len(s) - (Len(s) - m) = m
    BY <1>0
  <2>2. Len(s) - m \in T
    BY <2>1, <1>4, Zenon
  <2>. QED  BY <2>1, <2>2
<1>6. k < Len(s) => k + 1 \in 0..Len(s)
  BY <1>0
<1>. QED  BY <1>1, <1>5, <1>6

\* With prefix free codes, two lists held at one position begin alike.
LEMMA FlatAgree ==
    ASSUME NEW X, NEW c \in [X -> Seq(Byte)], PrefixFree(c, X), NEW s \in Seq(X),
           NEW t \in Seq(X), Len(s) <= Len(t), NEW b \in Seq(Byte), NEW p \in Nat \ {0},
           Holds(b, p, Flat(c, s)), Holds(b, p, Flat(c, t))
    PROVE  s = Upto(t, Len(s))
<1>0. Len(s) \in Nat /\ Len(t) \in Nat
  BY LenProperties
<1> DEFINE T == {k \in Nat : k <= Len(s) => Upto(s, k) = Upto(t, k)}
<1>1. 0 \in T
  <2>1. 0 \in 0..Len(s) /\ 0 \in 0..Len(t)
    BY <1>0
  <2>2. Upto(s, 0) = <<>> /\ Upto(t, 0) = <<>>
    BY <2>1, UptoFacts
  <2>. QED  BY <2>2
<1>2. ASSUME NEW k \in T PROVE k + 1 \in T
  <2> SUFFICES ASSUME k + 1 <= Len(s) PROVE Upto(s, k + 1) = Upto(t, k + 1)
    OBVIOUS
  <2>1. k \in 0..Len(s) /\ k \in 0..Len(t) /\ k < Len(s) /\ k < Len(t)
    BY <1>0
  <2>2. Upto(s, k) = Upto(t, k)
    BY <1>0
  <2> DEFINE u == Upto(s, k)
             q == p + Len(Flat(c, u))
  <2>3. u \in Seq(X) /\ s[k + 1] \in X /\ t[k + 1] \in X
    BY <2>1, UptoFacts
  <2> HIDE DEF T
  <2>a. Upto(s, k + 1) = Append(Upto(s, k), s[k + 1])
    BY <2>1, UptoFacts
  <2>b. Upto(t, k + 1) = Append(Upto(t, k), t[k + 1])
    BY <2>1, UptoFacts
  <2>4. Upto(s, k + 1) = Append(u, s[k + 1]) /\ Upto(t, k + 1) = Append(u, t[k + 1])
    BY <2>a, <2>b, <2>2, Zenon
  <2>5. Holds(b, q, c[s[k + 1]]) /\ Holds(b, q, c[t[k + 1]])
    BY <2>1, <2>2, FlatPrefix
  <2>6. q \in Nat \ {0}
    BY <2>3, FlatType
  <2> HIDE DEF u, q
  <2>7. s[k + 1] = t[k + 1]
    BY <2>3, <2>5, <2>6, Zenon DEF PrefixFree
  <2>. QED  BY <2>4, <2>7
<1>3. T = Nat
  <2>1. T \in SUBSET Nat
    OBVIOUS
  <2> HIDE DEF T
  <2>. QED  BY <2>1, <1>1, <1>2, Induction
<1>4. Upto(s, Len(s)) = Upto(t, Len(s))
  <2>1. Len(s) \in T
    BY <1>0, <1>3, Zenon
  <2>. QED  BY <2>1, <1>0
<1>5. Len(s) \in 0..Len(s)
  BY <1>0
<1>6. Upto(s, Len(s)) = s
  BY <1>5, UptoFacts
<1>. QED  BY <1>4, <1>6

\* With prefix free codes, bytes hold one list of a given length.
LEMMA FlatUnique ==
    ASSUME NEW X, NEW c \in [X -> Seq(Byte)], PrefixFree(c, X), NEW s \in Seq(X),
           NEW t \in Seq(X), Len(s) = Len(t), NEW b \in Seq(Byte), NEW p \in Nat \ {0},
           Holds(b, p, Flat(c, s)), Holds(b, p, Flat(c, t))
    PROVE  s = t
<1>1. Len(s) \in Nat /\ Len(s) <= Len(t) /\ Len(s) \in 0..Len(t)
  BY LenProperties
<1>2. s = Upto(t, Len(t))
  BY <1>1, FlatAgree
<1>3. Upto(t, Len(t)) = t
  BY <1>1, UptoFacts
<1>. QED  BY <1>2, <1>3

-----------------------------------------------------------------------------
\* The codes of the instructions and of the accounts, as functions.
InstructionCodes == [i \in Fitting |-> serialize_instruction(i)]
AccountCodes == [a \in AccountInfo |-> serialize_account(a)]

\* The codes of instructions are prefix free: their readers find their ends.
LEMMA InstructionCodesType ==
    /\ InstructionCodes \in [Fitting -> Seq(Byte)]
    /\ PrefixFree(InstructionCodes, Fitting)
<1>1. ASSUME NEW i \in Fitting PROVE serialize_instruction(i) \in Seq(Byte)
  <2>1. <<>> \in Seq(Byte)
    OBVIOUS
  <2>2. PICK p \in Nat \ {0} : p = 1
    OBVIOUS
  <2>. QED  BY <2>1, <2>2, InstructionCode, Zenon
<1>2. ASSUME NEW b \in Seq(Byte), NEW p \in Nat \ {0}, NEW x \in Fitting, NEW y \in Fitting,
             Holds(b, p, InstructionCodes[x]), Holds(b, p, InstructionCodes[y])
      PROVE  x = y
  <2> DEFINE Taken(i) == [value |-> i, at |-> p + Len(serialize_instruction(i))]
  <2>1. Holds(b, p, serialize_instruction(x)) /\ Holds(b, p, serialize_instruction(y))
    BY <1>2 DEF InstructionCodes
  <2>2. /\ Decodes(Taken(x), b, p, x, serialize_instruction(x))
        /\ Decodes(Taken(y), b, p, y, serialize_instruction(y))
    BY <2>1 DEF Decodes
  <2>3. Taken(x).value = x /\ Taken(y).value = y
    OBVIOUS
  <2> HIDE DEF Taken
  <2>4. Taken(x) \in read_instruction(b, p) /\ Taken(y) \in read_instruction(b, p)
    BY <2>2, ReadInstructionBack, Zenon
  <2>5. Taken(x) = Taken(y)
    BY <2>4, ReadInstructionBack, Zenon DEF AtMostOne
  <2>. QED  BY <2>3, <2>5, Zenon
<1>3. InstructionCodes \in [Fitting -> Seq(Byte)]
  BY <1>1 DEF InstructionCodes
<1>4. PrefixFree(InstructionCodes, Fitting)
  BY <1>2, Zenon DEF PrefixFree
<1>. QED  BY <1>3, <1>4

\* The codes of accounts are prefix free: they all have three bytes.
LEMMA AccountCodesType ==
    /\ AccountCodes \in [AccountInfo -> Seq(Byte)]
    /\ PrefixFree(AccountCodes, AccountInfo)
    /\ \A a \in AccountInfo : Len(AccountCodes[a]) = 3
<1>1. ASSUME NEW a \in AccountInfo
      PROVE  serialize_account(a) \in Seq(Byte) /\ Len(serialize_account(a)) = 3
  <2>1. a.key \in Byte /\ a.is_signer \in Byte /\ a.is_writable \in Byte
    BY BaseAssumption DEF AccountInfo, Byte
  <2>. QED  BY <2>1 DEF serialize_account
<1>2. ASSUME NEW b \in Seq(Byte), NEW p \in Nat \ {0}, NEW x \in AccountInfo, NEW y \in AccountInfo,
             Holds(b, p, AccountCodes[x]), Holds(b, p, AccountCodes[y])
      PROVE  x = y
  <2>1. Holds(b, p, serialize_account(x)) /\ Holds(b, p, serialize_account(y))
    BY <1>2 DEF AccountCodes
  <2>2. serialize_account(x) = serialize_account(y)
    <3>1. Len(serialize_account(x)) = Len(serialize_account(y))
      BY <1>1
    <3>. QED  BY <1>1, <2>1, <3>1, HoldsUnique, Zenon
  <2>3. x.key = y.key /\ x.is_signer = y.is_signer /\ x.is_writable = y.is_writable
    BY <2>2 DEF serialize_account
  <2>. QED  BY <2>3 DEF AccountInfo
<1>3. /\ AccountCodes \in [AccountInfo -> Seq(Byte)]
      /\ \A a \in AccountInfo : Len(AccountCodes[a]) = 3
  BY <1>1 DEF AccountCodes
<1>4. PrefixFree(AccountCodes, AccountInfo)
  BY <1>2, Zenon DEF PrefixFree
<1>. QED  BY <1>3, <1>4

\* The instructions without their count.
Body(s) == Flat(InstructionCodes, s)

\* A list that fits is written with its own length, not wrapped.
LEMMA SerializeInstructions ==
    ASSUME NEW s \in Seq(Fitting), Len(s) \in Byte
    PROVE  serialize_instructions(s) = <<Len(s)>> \o Body(s)
<1>1. Len(s) % BASE = Len(s)
  BY BaseAssumption DEF Byte
<1>2. DOMAIN s = 1..Len(s) /\ \A i \in 1..Len(s) : s[i] \in Fitting
  BY LenProperties, ElementOfSeq
<1>3. [i \in DOMAIN s |-> serialize_instruction(s[i])] = Codes(InstructionCodes, s)
  BY <1>2 DEF Codes, InstructionCodes
<1>. QED  BY <1>1, <1>3 DEF serialize_instructions, Body, Flat

\* The hashed accounts are their codes in a row.
LEMMA SerializeAccounts ==
    ASSUME NEW s \in Seq(AccountInfo)
    PROVE  /\ serialize_accounts(s) = Flat(AccountCodes, s)
           /\ serialize_accounts(s) \in Seq(Byte)
           /\ Len(serialize_accounts(s)) = 3 * Len(s)
<1>0. Len(s) \in Nat /\ DOMAIN s = 1..Len(s) /\ \A i \in 1..Len(s) : s[i] \in AccountInfo
  BY LenProperties, ElementOfSeq
<1>1. [i \in DOMAIN s |-> serialize_account(s[i])] = Codes(AccountCodes, s)
  BY <1>0 DEF Codes, AccountCodes
<1>2. serialize_accounts(s) = Flat(AccountCodes, s)
  BY <1>1 DEF serialize_accounts, Flat
<1>3. ASSUME NEW u \in Seq(AccountInfo) PROVE Flat(AccountCodes, u) \in Seq(Byte)
  BY AccountCodesType, FlatType
<1> DEFINE T == {k \in Nat : k <= Len(s) => Len(Flat(AccountCodes, Upto(s, k))) = 3 * k}
<1>4. 0 \in T
  <2>1. 0 \in 0..Len(s)
    BY <1>0
  <2>2. Upto(s, 0) = <<>>
    BY <2>1, UptoFacts
  <2>. QED  BY <2>2, FlatEmpty
<1>5. ASSUME NEW k \in T PROVE k + 1 \in T
  <2> SUFFICES ASSUME k + 1 <= Len(s)
               PROVE  Len(Flat(AccountCodes, Upto(s, k + 1))) = 3 * (k + 1)
    OBVIOUS
  <2>1. k \in 0..Len(s) /\ k < Len(s) /\ k \in Nat
    BY <1>0
  <2>2. Len(Flat(AccountCodes, Upto(s, k))) = 3 * k
    BY <1>0, <2>1
  <2> HIDE DEF T
  <2> DEFINE u == Upto(s, k)
             x == s[k + 1]
             f == Flat(AccountCodes, u)
             e == AccountCodes[x]
  <2>3. u \in Seq(AccountInfo) /\ x \in AccountInfo /\ Upto(s, k + 1) = Append(u, x)
    BY <2>1, UptoFacts
  <2> HIDE DEF u, x
  <2>4. f \in Seq(Byte) /\ e \in Seq(Byte) /\ Len(e) = 3 /\ Flat(AccountCodes, Append(u, x)) = f \o e
    BY <2>3, <1>3, AccountCodesType, FlatAppend
  <2> HIDE DEF f, e
  <2>5. Len(f \o e) = Len(f) + Len(e)
    <3>1. f \in Seq(Byte) /\ e \in Seq(Byte)
      BY <2>4
    <3>. QED  BY <3>1, ConcatProperties
  <2>6. Len(f) = 3 * k
    BY <2>2 DEF f, u
  <2>7. Len(f \o e) = 3 * (k + 1)
    BY <2>1, <2>4, <2>5, <2>6
  <2>. QED  BY <2>3, <2>4, <2>7
<1>6. T = Nat
  <2>1. T \in SUBSET Nat
    OBVIOUS
  <2> HIDE DEF T
  <2>. QED  BY <2>1, <1>4, <1>5, Induction
<1>7. Len(s) \in T
  BY <1>0, <1>6, Zenon
<1>8. Upto(s, Len(s)) = s
  <2>1. Len(s) \in 0..Len(s)
    BY <1>0
  <2>. QED  BY <2>1, UptoFacts
<1>. QED  BY <1>0, <1>2, <1>3, <1>7, <1>8

\* Equal strings with beginnings of one length have the same parts.
LEMMA ConcatCancel ==
    ASSUME NEW S, NEW u \in Seq(S), NEW v \in Seq(S), NEW w \in Seq(S), NEW x \in Seq(S),
           Len(u) = Len(w), u \o v = w \o x
    PROVE  u = w /\ v = x
<1>1. /\ Len(u) \in Nat /\ Len(v) \in Nat /\ Len(x) \in Nat
      /\ Len(u \o v) = Len(u) + Len(v) /\ Len(w \o x) = Len(w) + Len(x)
  BY LenProperties, ConcatProperties
<1>2. Len(v) = Len(x)
  BY <1>1
<1>3. \A i \in 1..(Len(u) + Len(v)) : (u \o v)[i] = IF i <= Len(u) THEN u[i] ELSE v[i - Len(u)]
  BY ConcatProperties
<1>4. \A i \in 1..(Len(w) + Len(x)) : (w \o x)[i] = IF i <= Len(w) THEN w[i] ELSE x[i - Len(w)]
  BY ConcatProperties
<1>5. ASSUME NEW i \in 1..Len(u) PROVE u[i] = w[i]
  <2>1. i \in 1..(Len(u) + Len(v)) /\ i <= Len(u)
    BY <1>1
  <2>. QED  BY <1>2, <1>3, <1>4, <2>1
<1>6. ASSUME NEW i \in 1..Len(v) PROVE v[i] = x[i]
  <2>1. Len(u) + i \in 1..(Len(u) + Len(v)) /\ ~(Len(u) + i <= Len(u)) /\ (Len(u) + i) - Len(u) = i
    BY <1>1
  <2>2. (u \o v)[Len(u) + i] = v[i]
    BY <1>3, <2>1
  <2>3. (w \o x)[Len(u) + i] = x[i]
    BY <1>2, <1>4, <2>1
  <2>. QED  BY <2>2, <2>3
<1>7. u = w
  BY <1>5, SeqEqual
<1>8. v = x
  BY <1>2, <1>6, SeqEqual
<1>. QED  BY <1>7, <1>8

\* The listed accounts are what is behind the fixed ones.
LEMMA ConcatTail ==
    ASSUME NEW S, NEW f \in Seq(S), NEW l \in Seq(S)
    PROVE  /\ f \o l \in Seq(S) /\ Len(f \o l) = Len(f) + Len(l)
           /\ \A i \in 1..Len(f) : (f \o l)[i] = f[i]
           /\ SubSeq(f \o l, Len(f) + 1, Len(f \o l)) = l
<1> DEFINE c == f \o l
           t == SubSeq(c, Len(f) + 1, Len(c))
<1>1. /\ c \in Seq(S) /\ Len(c) = Len(f) + Len(l) /\ Len(f) \in Nat /\ Len(l) \in Nat
      /\ \A i \in 1..(Len(f) + Len(l)) : c[i] = IF i <= Len(f) THEN f[i] ELSE l[i - Len(f)]
  BY ConcatProperties, LenProperties
<1> HIDE DEF c
<1>2. t \in Seq(S) /\ Len(t) = Len(l) /\ \A i \in 1..Len(l) : t[i] = c[Len(f) + i]
  BY <1>1
<1> HIDE DEF t
<1>3. ASSUME NEW i \in 1..Len(l) PROVE t[i] = l[i]
  <2>1. Len(f) + i \in 1..(Len(f) + Len(l)) /\ ~(Len(f) + i <= Len(f)) /\ (Len(f) + i) - Len(f) = i
    BY <1>1
  <2>. QED  BY <1>1, <1>2, <2>1
<1>4. t = l
  BY <1>2, <1>3, SeqEqual
<1>5. \A i \in 1..Len(f) : c[i] = f[i]
  BY <1>1
<1>. QED  BY <1>1, <1>4, <1>5 DEF c, t

-----------------------------------------------------------------------------
\* An operation whose vectors fit.
Good(o) == IsOperation(o) /\ o.instructions \in Seq(Fitting) /\ Len(o.instructions) \in Byte

\* The bytes behind the head, by the builders.
Closing(o) ==
    IF o.kind \in {EXECUTE, SESSIONED} THEN serialize_instructions(o.instructions)
    ELSE IF o.kind = REFRESH THEN serialize_session_key(CHOOSE s \in o.session : TRUE)
    ELSE serialize_option(o.session)

\* What the client does not refuse fits.
LEMMA FittingOperation ==
    ASSUME NEW o, IsOperation(o), Fits(o)
    PROVE  Good(o)
<1> DEFINE s == o.instructions
<1>1. s \in Seq(CompiledInstruction) /\ Len(s) \in Nat /\ DOMAIN s = 1..Len(s)
  BY LenProperties DEF IsOperation
<1>2. ASSUME NEW i \in 1..Len(s) PROVE s[i] \in Fitting
  <2>1. s[i] \in CompiledInstruction
    BY <1>1, ElementOfSeq
  <2>2. Len(s[i].accounts_indices) \in Nat /\ Len(s[i].data) \in Nat
    BY <2>1, LenProperties DEF CompiledInstruction
  <2>3. Len(s[i].accounts_indices) < BASE /\ Len(s[i].data) < BASE * BASE
    BY <1>1 DEF Fits, fits_small_vec
  <2>4. Len(s[i].accounts_indices) \in Byte
    BY <2>2, <2>3, BaseAssumption DEF Byte
  <2>5. Len(s[i].data) \in Word
    <3>1. BASE * BASE \in Nat
      BY BaseAssumption
    <3>. QED  BY <2>2, <2>3, <3>1 DEF Word
  <2>. QED  BY <2>1, <2>4, <2>5 DEF Fitting
<1>3. Len(s) \in Byte
  BY <1>1, BaseAssumption DEF Fits, fits_small_vec, Byte
<1>4. s \in [1..Len(s) -> Fitting]
  BY <1>1, <1>2
<1>5. s \in Seq(Fitting)
  <2> HIDE DEF s
  <2>. QED  BY <1>1, <1>4, FunctionIsSeq
<1>. QED  BY <1>3, <1>5 DEF Good

\* The session of an operation is an Option, and CHOOSE takes its value.
LEMMA SessionOption ==
    ASSUME NEW o, IsOperation(o)
    PROVE  /\ o.session \in Options
           /\ o.session # {} => \E s \in SessionKey : o.session = {s} /\ (CHOOSE r \in o.session : TRUE) = s
<1>1. o.session \in SUBSET SessionKey /\ \A s, t \in o.session : s = t
  BY DEF IsOperation
<1>2. ASSUME o.session # {}
      PROVE \E s \in SessionKey : o.session = {s} /\ (CHOOSE r \in o.session : TRUE) = s
  <2>1. PICK s \in o.session : TRUE
    BY <1>2
  <2>2. o.session = {s} /\ s \in SessionKey
    BY <1>1, <2>1
  <2>3. (CHOOSE r \in o.session : TRUE) = s
    BY <2>2
  <2>. QED  BY <2>2, <2>3
<1>. QED  BY <1>2 DEF Options

\* Session keys and options are written as bytes.
LEMMA CodeTypes ==
    /\ \A s \in SessionKey : serialize_session_key(s) \in Seq(Byte) /\ Len(serialize_session_key(s)) = 3
    /\ \A o \in Options : serialize_option(o) \in Seq(Byte)
<1>1. <<>> \in Seq(Byte)
  OBVIOUS
<1>2. PICK p \in Nat \ {0} : p = 1
  OBVIOUS
<1>3. ASSUME NEW s \in SessionKey
      PROVE  serialize_session_key(s) \in Seq(Byte) /\ Len(serialize_session_key(s)) = 3
  BY <1>1, <1>2, SessionKeyCode, Zenon
<1>4. ASSUME NEW o \in Options PROVE serialize_option(o) \in Seq(Byte)
  BY <1>1, <1>2, OptionCode, Zenon
<1>. QED  BY <1>3, <1>4

\* Instructions are written as bytes.
LEMMA BodyType ==
    ASSUME NEW s \in Seq(Fitting)
    PROVE  Body(s) \in Seq(Byte) /\ Len(Body(s)) \in Nat
BY InstructionCodesType, FlatType DEF Body

\* The bytes behind the head are bytes.
LEMMA ClosingCode ==
    ASSUME NEW o, Good(o)
    PROVE  Closing(o) \in Seq(Byte)
<1>1. CASE o.kind \in {EXECUTE, SESSIONED}
  <2> DEFINE s == o.instructions
  <2>1. s \in Seq(Fitting) /\ Len(s) \in Byte
    BY DEF Good
  <2>2. serialize_instructions(s) = <<Len(s)>> \o Body(s) /\ Body(s) \in Seq(Byte)
    BY <2>1, SerializeInstructions, BodyType
  <2>3. <<Len(s)>> \in Seq(Byte)
    BY <2>1
  <2>. QED  BY <1>1, <2>2, <2>3, ConcatProperties DEF Closing
<1>2. CASE o.kind = REFRESH
  <2>1. o.session # {}
    BY <1>2 DEF Good, IsOperation
  <2>2. PICK s \in SessionKey : (CHOOSE r \in o.session : TRUE) = s
    BY <2>1, SessionOption DEF Good
  <2>3. Closing(o) = serialize_session_key(CHOOSE r \in o.session : TRUE)
    BY <1>2 DEF Closing, REFRESH, EXECUTE, SESSIONED
  <2>4. Closing(o) = serialize_session_key(s)
    BY <2>2, <2>3, Zenon
  <2>. QED  BY <2>4, CodeTypes
<1>3. CASE o.kind \notin {EXECUTE, SESSIONED, REFRESH}
  BY <1>3, SessionOption, CodeTypes DEF Closing, Good
<1>. QED  BY <1>1, <1>2, <1>3

\* The data of each builder is a head and what is behind it.
LEMMA InstructionData ==
    ASSUME NEW o, Good(o), NEW scheme, NEW extra
    PROVE  /\ Instruction(o, scheme, extra).data
                  = Opening(o.kind, o.slothash, scheme, extra) \o Closing(o)
           /\ o.kind \in Kinds /\ o.slothash \in Word
<1>0. o.kind \in Kinds /\ o.slothash \in Word
  BY DEF Good, IsOperation, Kinds
<1>1. CASE o.kind = INITIALIZE
  <2>1. Opening(o.kind, o.slothash, scheme, extra) = keyed_head(INITIALIZE, o.slothash, extra)
    BY <1>1 DEF Opening, INITIALIZE, EXECUTE, SESSIONED
  <2>2. Closing(o) = serialize_option(o.session)
    BY <1>1 DEF Closing, INITIALIZE, EXECUTE, SESSIONED, REFRESH
  <2>3. CASE o.session = {}
    <3>1. Instruction(o, scheme, extra) = initialize_passkey_account(o, extra)
      BY <1>1, <2>3 DEF Instruction, INITIALIZE, EXECUTE, SESSIONED, REFRESH
    <3>2. serialize_option(o.session) = <<0>>
      BY <2>3 DEF serialize_option
    <3>. QED  BY <1>0, <2>1, <2>2, <3>1, <3>2 DEF initialize_passkey_account, Built, keyed_head
  <2>4. CASE o.session # {}
    <3>1. Instruction(o, scheme, extra) = initialize_passkey_account_with_session(o, extra)
      BY <1>1, <2>4 DEF Instruction, INITIALIZE, EXECUTE, SESSIONED, REFRESH
    <3>. QED  BY <1>0, <2>1, <2>2, <3>1 DEF initialize_passkey_account_with_session, Built, keyed_head
  <2>. QED  BY <2>3, <2>4
<1>2. CASE o.kind = EXECUTE
  <2>1. Opening(o.kind, o.slothash, scheme, extra) = execute_head(o.slothash, scheme, extra)
    BY <1>2 DEF Opening, EXECUTE, SESSIONED
  <2>2. Closing(o) = serialize_instructions(o.instructions)
    BY <1>2 DEF Closing
  <2>3. Instruction(o, scheme, extra) = execute_instructions(o, scheme, extra)
    BY <1>2 DEF Instruction, INITIALIZE, EXECUTE, SESSIONED, REFRESH
  <2>. QED  BY <1>0, <2>1, <2>2, <2>3 DEF execute_instructions, Built, execute_head
<1>3. CASE o.kind = REFRESH
  <2>1. Opening(o.kind, o.slothash, scheme, extra) = keyed_head(REFRESH, o.slothash, extra)
    BY <1>3 DEF Opening, REFRESH, EXECUTE, SESSIONED
  <2>2. Closing(o) = serialize_session_key(CHOOSE s \in o.session : TRUE)
    BY <1>3 DEF Closing, EXECUTE, SESSIONED, REFRESH
  <2>3. Instruction(o, scheme, extra) = refresh_session_key(o, extra)
    BY <1>3 DEF Instruction, INITIALIZE, EXECUTE, SESSIONED, REFRESH
  <2>. QED  BY <1>0, <2>1, <2>2, <2>3 DEF refresh_session_key, Built, keyed_head
<1>4. CASE o.kind = SESSIONED
  <2>1. Opening(o.kind, o.slothash, scheme, extra) = <<SESSIONED, 0, scheme>>
    BY <1>4 DEF Opening, EXECUTE, SESSIONED
  <2>2. Closing(o) = serialize_instructions(o.instructions)
    BY <1>4 DEF Closing
  <2>3. Instruction(o, scheme, extra) = execute_instructions_sessioned(o, scheme)
    BY <1>4 DEF Instruction, INITIALIZE, EXECUTE, SESSIONED, REFRESH
  <2>. QED  BY <1>0, <2>1, <2>2, <2>3 DEF execute_instructions_sessioned, Built
<1>. QED  BY <1>0, <1>1, <1>2, <1>3, <1>4 DEF Kinds

\* The accounts of each builder satisfy the load function of its handler,
\* which finds the signer and the listed accounts where the builder put them.
LEMMA InstructionAccounts ==
    ASSUME NEW o, IsOperation(o), NEW scheme, NEW extra
    PROVE  LET a == Instruction(o, scheme, extra).accounts
           IN  /\ a \in Seq(AccountInfo)
               /\ Len(a) = fixed(o.kind) + Len(o.listed)
               /\ load(o.kind, a)
               /\ signer_of(o.kind, a) = o.signer
               /\ listed_of(o.kind, a) = o.listed
<1>0. /\ o.kind \in Kinds /\ o.signer \in Byte /\ o.listed \in Seq(AccountInfo)
      /\ (o.kind \notin {EXECUTE, SESSIONED} => o.listed = <<>>)
  BY DEF IsOperation, Kinds
<1>1. \A k \in Byte, g \in {0, 1} : Writable(k, g) \in AccountInfo /\ Readonly(k, g) \in AccountInfo
  BY DEF Writable, Readonly, AccountInfo
<1>2. /\ PASSKEY_ACCOUNT \in Byte /\ INSTRUCTIONS_SYSVAR \in Byte /\ SLOT_HASHES \in Byte
      /\ SYSTEM_PROGRAM \in Byte
  BY BaseAssumption DEF Byte, PASSKEY_ACCOUNT, INSTRUCTIONS_SYSVAR, SLOT_HASHES, SYSTEM_PROGRAM
<1>3. CASE o.kind = INITIALIZE
  <2> DEFINE a == <<Writable(PASSKEY_ACCOUNT, 0), Writable(o.signer, 1), Readonly(INSTRUCTIONS_SYSVAR, 0),
                    Readonly(SLOT_HASHES, 0), Readonly(SYSTEM_PROGRAM, 0)>>
  <2>1. Instruction(o, scheme, extra).accounts = a
    <3>1. \/ Instruction(o, scheme, extra) = initialize_passkey_account(o, extra)
          \/ Instruction(o, scheme, extra) = initialize_passkey_account_with_session(o, extra)
      BY <1>3 DEF Instruction, INITIALIZE, EXECUTE, SESSIONED, REFRESH
    <3>. QED  BY <3>1 DEF initialize_passkey_account, initialize_passkey_account_with_session,
                          initialize_accounts, Built
  <2>2. a \in Seq(AccountInfo) /\ Len(a) = 5
    BY <1>0, <1>1, <1>2
  <2>3. load_initialize(a) /\ a[2].key = o.signer
    BY DEF load_initialize, Writable, Readonly
  <2> HIDE DEF a
  <2>4. fixed(o.kind) = 5 /\ o.listed = <<>>
    BY <1>0, <1>3 DEF fixed, INITIALIZE, EXECUTE, SESSIONED
  <2>5. load(o.kind, a)
    BY <1>3, <2>2, <2>3, <2>4 DEF load, INITIALIZE, EXECUTE, SESSIONED, REFRESH
  <2>6. signer_of(o.kind, a) = o.signer /\ listed_of(o.kind, a) = o.listed
    BY <1>3, <2>3, <2>4 DEF signer_of, listed_of, INITIALIZE, EXECUTE, SESSIONED
  <2>. QED  BY <2>1, <2>2, <2>4, <2>5, <2>6
<1>4. CASE o.kind = REFRESH
  <2> DEFINE a == <<Writable(PASSKEY_ACCOUNT, 0), Readonly(INSTRUCTIONS_SYSVAR, 0),
                    Readonly(SLOT_HASHES, 0), Writable(o.signer, 1)>>
  <2>1. Instruction(o, scheme, extra).accounts = a
    <3>1. Instruction(o, scheme, extra) = refresh_session_key(o, extra)
      BY <1>4 DEF Instruction, INITIALIZE, EXECUTE, SESSIONED, REFRESH
    <3>. QED  BY <3>1 DEF refresh_session_key, refresh_accounts, Built
  <2>2. a \in Seq(AccountInfo) /\ Len(a) = 4
    BY <1>0, <1>1, <1>2
  <2>3. load_refresh(a) /\ a[4].key = o.signer
    BY DEF load_refresh, Writable, Readonly
  <2> HIDE DEF a
  <2>4. fixed(o.kind) = 4 /\ o.listed = <<>>
    BY <1>0, <1>4 DEF fixed, INITIALIZE, EXECUTE, SESSIONED, REFRESH
  <2>5. load(o.kind, a)
    BY <1>4, <2>2, <2>3, <2>4 DEF load, INITIALIZE, EXECUTE, SESSIONED, REFRESH
  <2>6. signer_of(o.kind, a) = o.signer /\ listed_of(o.kind, a) = o.listed
    BY <1>4, <2>3, <2>4 DEF signer_of, listed_of, INITIALIZE, EXECUTE, SESSIONED, REFRESH
  <2>. QED  BY <2>1, <2>2, <2>4, <2>5, <2>6
<1>5. CASE o.kind = EXECUTE
  <2> DEFINE f == <<Writable(PASSKEY_ACCOUNT, 0), Readonly(INSTRUCTIONS_SYSVAR, 0),
                    Readonly(SLOT_HASHES, 0), Writable(o.signer, 1)>>
             a == f \o o.listed
  <2>1. Instruction(o, scheme, extra).accounts = a
    <3>1. Instruction(o, scheme, extra) = execute_instructions(o, scheme, extra)
      BY <1>5 DEF Instruction, INITIALIZE, EXECUTE, SESSIONED, REFRESH
    <3>. QED  BY <3>1 DEF execute_instructions, Built
  <2>2. f \in Seq(AccountInfo) /\ Len(f) = 4
    BY <1>0, <1>1, <1>2
  <2>3. load_execute(f) /\ f[4].key = o.signer
    BY DEF load_execute, Writable, Readonly
  <2> HIDE DEF f
  <2>4. /\ a \in Seq(AccountInfo) /\ Len(a) = Len(f) + Len(o.listed) /\ \A i \in 1..Len(f) : a[i] = f[i]
        /\ SubSeq(a, Len(f) + 1, Len(a)) = o.listed
    BY <1>0, <2>2, ConcatTail, Zenon
  <2> HIDE DEF a
  <2>5. a[1] = f[1] /\ a[2] = f[2] /\ a[3] = f[3] /\ a[4] = f[4] /\ Len(a) >= 4
    BY <1>0, <2>2, <2>4, LenProperties
  <2>6. fixed(o.kind) = 4
    BY <1>5 DEF fixed, INITIALIZE, EXECUTE, SESSIONED
  <2>7. load(o.kind, a)
    BY <1>5, <2>3, <2>5, <2>6 DEF load, load_execute, INITIALIZE, EXECUTE, SESSIONED, REFRESH
  <2>8. signer_of(o.kind, a) = o.signer
    BY <1>5, <2>3, <2>5 DEF signer_of, INITIALIZE, EXECUTE, SESSIONED
  <2>9. listed_of(o.kind, a) = o.listed
    BY <1>5, <2>2, <2>4, <2>6 DEF listed_of
  <2>. QED  BY <2>1, <2>2, <2>4, <2>6, <2>7, <2>8, <2>9
<1>6. CASE o.kind = SESSIONED
  <2> DEFINE f == <<Writable(PASSKEY_ACCOUNT, 0), Readonly(o.signer, 1)>>
             a == f \o o.listed
  <2>1. Instruction(o, scheme, extra).accounts = a
    <3>1. Instruction(o, scheme, extra) = execute_instructions_sessioned(o, scheme)
      BY <1>6 DEF Instruction, INITIALIZE, EXECUTE, SESSIONED, REFRESH
    <3>. QED  BY <3>1 DEF execute_instructions_sessioned, Built
  <2>2. f \in Seq(AccountInfo) /\ Len(f) = 2
    BY <1>0, <1>1, <1>2
  <2>3. load_sessioned(f) /\ f[2].key = o.signer
    BY DEF load_sessioned, Writable, Readonly
  <2> HIDE DEF f
  <2>4. /\ a \in Seq(AccountInfo) /\ Len(a) = Len(f) + Len(o.listed) /\ \A i \in 1..Len(f) : a[i] = f[i]
        /\ SubSeq(a, Len(f) + 1, Len(a)) = o.listed
    BY <1>0, <2>2, ConcatTail, Zenon
  <2> HIDE DEF a
  <2>5. a[1] = f[1] /\ a[2] = f[2] /\ Len(a) >= 2
    BY <1>0, <2>2, <2>4, LenProperties
  <2>6. fixed(o.kind) = 2
    BY <1>6 DEF fixed, INITIALIZE, EXECUTE, SESSIONED
  <2>7. load(o.kind, a)
    BY <1>6, <2>3, <2>5, <2>6 DEF load, load_sessioned, INITIALIZE, EXECUTE, SESSIONED, REFRESH
  <2>8. signer_of(o.kind, a) = o.signer
    BY <1>6, <2>3, <2>5 DEF signer_of
  <2>9. listed_of(o.kind, a) = o.listed
    BY <1>6, <2>2, <2>4, <2>6 DEF listed_of
  <2>. QED  BY <2>1, <2>2, <2>4, <2>6, <2>7, <2>8, <2>9
<1>. QED  BY <1>0, <1>3, <1>4, <1>5, <1>6 DEF Kinds

-----------------------------------------------------------------------------
\* The two halves of the hashed bytes: what every challenge has, and the rest.
Preamble(o) == <<o.slothash, o.signer>> \o Domain(o.kind)
Rest(o) ==
    CASE o.kind = INITIALIZE -> get_initialization_payload(o)
      [] o.kind = EXECUTE -> get_instruction_payload(o)
      [] o.kind = REFRESH -> get_refresh_session_key_payload(o)

\* The operations that have a challenge.
Signed(o) == Good(o) /\ o.kind # SESSIONED /\ Len(o.listed) \in Byte

\* A byte is a word.
LEMMA WordCovers == Byte \subseteq Word
<1>1. BASE \in Nat /\ BASE * BASE \in Nat /\ BASE <= BASE * BASE
  BY BaseAssumption
<1>. QED  BY <1>1 DEF Byte, Word

\* Two entries and one are three.
LEMMA TwoAndOne ==
    ASSUME NEW x, NEW y, NEW z
    PROVE  <<x, y>> \o <<z>> = <<x, y, z>>
<1> DEFINE S == {x, y, z}
           u == <<x, y>>
           v == <<z>>
           w == <<x, y, z>>
<1>1. u \in Seq(S) /\ Len(u) = 2 /\ u[1] = x /\ u[2] = y
  OBVIOUS
<1>2. v \in Seq(S) /\ Len(v) = 1 /\ v[1] = z
  OBVIOUS
<1>3. w \in Seq(S) /\ Len(w) = 3 /\ w[1] = x /\ w[2] = y /\ w[3] = z
  OBVIOUS
<1> DEFINE c == u \o v
<1> HIDE DEF S, u, v, w
<1>4. /\ c \in Seq(S) /\ Len(c) = Len(u) + Len(v)
      /\ \A i \in 1..(Len(u) + Len(v)) : c[i] = IF i <= Len(u) THEN u[i] ELSE v[i - Len(u)]
  BY <1>1, <1>2, ConcatProperties, Zenon
<1> HIDE DEF c
<1>5. Len(c) = 3 /\ c[1] = x /\ c[2] = y /\ c[3] = z
  BY <1>1, <1>2, <1>4
<1>6. \A i \in 1..Len(c) : c[i] = w[i]
  BY <1>3, <1>5
<1>7. c = w
  BY <1>3, <1>4, <1>5, <1>6, SeqEqual
<1>. QED  BY <1>7 DEF c, u, v, w

\* A length that fits is not wrapped by `as u8`.
LEMMA ByteMod ==
    ASSUME NEW n \in Byte
    PROVE  n % BASE = n
BY BaseAssumption DEF Byte

\* The first half tells nonce, signer and kind: the domains differ.
LEMMA PreambleSplits ==
    ASSUME NEW o, Signed(o), NEW q, Signed(q), Preamble(o) = Preamble(q)
    PROVE  o.slothash = q.slothash /\ o.signer = q.signer /\ o.kind = q.kind
<1> DEFINE d(k) == IF k = EXECUTE THEN 0 ELSE IF k = REFRESH THEN 1 ELSE 2
<1>1. ASSUME NEW r, Signed(r)
      PROVE  r.kind \in {INITIALIZE, EXECUTE, REFRESH} /\ Preamble(r) = <<r.slothash, r.signer, d(r.kind)>>
  <2>1. r.kind \in {INITIALIZE, EXECUTE, REFRESH}
    BY <1>1 DEF Signed, Good, IsOperation
  <2>2. Domain(r.kind) = <<d(r.kind)>>
    BY <2>1 DEF Domain, INITIALIZE, EXECUTE, REFRESH
  <2>3. <<r.slothash, r.signer>> \o <<d(r.kind)>> = <<r.slothash, r.signer, d(r.kind)>>
    <3> HIDE DEF d
    <3>. QED  BY TwoAndOne, Zenon
  <2>. QED  BY <2>1, <2>2, <2>3, Zenon DEF Preamble
<1>2. \A k, l \in {INITIALIZE, EXECUTE, REFRESH} : d(k) = d(l) => k = l
  BY DEF INITIALIZE, EXECUTE, REFRESH
<1> HIDE DEF d
<1>3. <<o.slothash, o.signer, d(o.kind)>> = <<q.slothash, q.signer, d(q.kind)>>
  BY <1>1
<1>4. o.slothash = q.slothash /\ o.signer = q.signer /\ d(o.kind) = d(q.kind)
  BY <1>3
<1>. QED  BY <1>1, <1>2, <1>4

\* The first half has a fixed length.
LEMMA PreambleType ==
    ASSUME NEW o, Signed(o)
    PROVE  Preamble(o) \in Seq(Word) /\ Len(Preamble(o)) = 3
<1>1. o.slothash \in Word /\ o.signer \in Word /\ 0 \in Word /\ 1 \in Word /\ 2 \in Word
  BY WordCovers, BaseAssumption DEF Signed, Good, IsOperation, Byte
<1>2. \E d \in {0, 1, 2} : Domain(o.kind) = <<d>>
  BY DEF Domain, Signed, Good, IsOperation, INITIALIZE, EXECUTE, REFRESH
<1>3. PICK d \in {0, 1, 2} : Domain(o.kind) = <<d>>
  BY <1>2
<1>4. Preamble(o) = <<o.slothash, o.signer, d>>
  BY <1>3, TwoAndOne, Zenon DEF Preamble
<1>. QED  BY <1>1, <1>4

\* The second half of an execution: the counts, the accounts, the instructions.
LEMMA ExecutePayload ==
    ASSUME NEW o, Signed(o), o.kind = EXECUTE
    PROVE  LET n == <<Len(o.listed)>>
               a == serialize_accounts(o.listed)
               m == <<Len(o.instructions)>>
               i == Body(o.instructions)
           IN  /\ Rest(o) = (n \o a) \o (m \o i)
               /\ n \in Seq(Byte) /\ a \in Seq(Byte) /\ m \in Seq(Byte) /\ i \in Seq(Byte)
               /\ Len(n) = 1 /\ Len(m) = 1 /\ Len(a) = 3 * Len(o.listed)
               /\ n \o a \in Seq(Byte) /\ Len(n \o a) = 1 + Len(a)
               /\ m \o i \in Seq(Byte)
<1> DEFINE n == <<Len(o.listed)>>
           a == serialize_accounts(o.listed)
           m == <<Len(o.instructions)>>
           i == Body(o.instructions)
<1>1. /\ o.listed \in Seq(AccountInfo) /\ Len(o.listed) \in Byte
      /\ o.instructions \in Seq(Fitting) /\ Len(o.instructions) \in Byte
  BY DEF Signed, Good, IsOperation
<1>2. Len(o.listed) % BASE = Len(o.listed)
  BY <1>1, ByteMod, Zenon
<1>3. serialize_instructions(o.instructions) = m \o i
  BY <1>1, SerializeInstructions
<1>4. Rest(o) = <<Len(o.listed) % BASE>> \o a \o serialize_instructions(o.instructions)
  BY DEF Rest, get_instruction_payload, INITIALIZE, EXECUTE, REFRESH
<1>5. Rest(o) = (n \o a) \o (m \o i)
  BY <1>2, <1>3, <1>4
<1>6. n \in Seq(Byte) /\ m \in Seq(Byte) /\ Len(n) = 1 /\ Len(m) = 1
  BY <1>1
<1>7. a \in Seq(Byte) /\ Len(a) = 3 * Len(o.listed) /\ i \in Seq(Byte)
  BY <1>1, SerializeAccounts, BodyType
<1> HIDE DEF n, a, m, i
<1>8. n \o a \in Seq(Byte) /\ Len(n \o a) = 1 + Len(a) /\ m \o i \in Seq(Byte)
  <2>1. Len(n \o a) = Len(n) + Len(a) /\ n \o a \in Seq(Byte) /\ m \o i \in Seq(Byte)
    BY <1>6, <1>7, ConcatProperties
  <2>. QED  BY <1>6, <2>1
<1>. QED  BY <1>5, <1>6, <1>7, <1>8 DEF n, a, m, i

\* Operations of one kind with the same second half are the same there.
LEMMA RestSplits ==
    ASSUME NEW o, Signed(o), NEW q, Signed(q), o.kind = q.kind, Rest(o) = Rest(q)
    PROVE  o.session = q.session /\ o.listed = q.listed /\ o.instructions = q.instructions
<1>0. <<>> \in Seq(Byte)
  OBVIOUS
<1>p. PICK p \in Nat \ {0} : p = 1
  OBVIOUS
<1>1. ASSUME NEW s \in SessionKey, NEW t \in SessionKey,
             serialize_session_key(s) = serialize_session_key(t)
      PROVE  s = t
  <2> DEFINE b == serialize_session_key(s)
             r == [value |-> {s}, at |-> p + Len(b)]
             u == [value |-> {t}, at |-> p + Len(b)]
  <2>1. b \in Seq(Byte) /\ Len(b) = 3
    BY CodeTypes
  <2> HIDE DEF b
  <2>2. Holds(b, p, b)
    BY <1>p, <2>1 DEF Holds
  <2>3. /\ Decodes(r, b, p, {s}, serialize_session_key(s))
        /\ Decodes(u, b, p, {t}, serialize_session_key(t))
    BY <1>1, <2>2 DEF Decodes, b
  <2>4. r.value = {s} /\ u.value = {t}
    OBVIOUS
  <2> HIDE DEF r, u
  <2>5. r \in read_session_key(b, p) /\ u \in read_session_key(b, p)
    BY <2>1, <2>3, ReadSessionKey, Zenon
  <2>6. r = u
    BY <2>1, <2>5, ReadSessionKey, Zenon DEF AtMostOne
  <2>7. {s} = {t}
    BY <2>4, <2>6, Zenon
  <2>. QED  BY <2>7
<1>2. CASE o.kind = EXECUTE
  <2> DEFINE n(x) == <<Len(x.listed)>>
             a(x) == serialize_accounts(x.listed)
             m(x) == <<Len(x.instructions)>>
             i(x) == Body(x.instructions)
  <2>1. ASSUME NEW x, Signed(x), x.kind = EXECUTE
        PROVE  /\ Rest(x) = (n(x) \o a(x)) \o (m(x) \o i(x))
               /\ n(x) \in Seq(Byte) /\ a(x) \in Seq(Byte) /\ m(x) \in Seq(Byte) /\ i(x) \in Seq(Byte)
               /\ Len(n(x)) = 1 /\ Len(m(x)) = 1 /\ Len(a(x)) = 3 * Len(x.listed)
               /\ n(x) \o a(x) \in Seq(Byte) /\ Len(n(x) \o a(x)) = 1 + Len(a(x))
               /\ m(x) \o i(x) \in Seq(Byte)
    BY <2>1, ExecutePayload
  <2>2. ASSUME NEW x, Signed(x), x.kind = EXECUTE
        PROVE  Rest(x) = n(x) \o (a(x) \o (m(x) \o i(x))) /\ a(x) \o (m(x) \o i(x)) \in Seq(Byte)
    <3> HIDE DEF n, a, m, i
    <3> DEFINE w == m(x) \o i(x)
    <3>1. /\ n(x) \in Seq(Byte) /\ a(x) \in Seq(Byte) /\ w \in Seq(Byte)
          /\ Rest(x) = (n(x) \o a(x)) \o w
      BY <2>1, <2>2
    <3> HIDE DEF w
    <3>2. (n(x) \o a(x)) \o w = n(x) \o (a(x) \o w)
      BY <3>1
    <3>3. a(x) \o w \in Seq(Byte)
      BY <3>1, ConcatProperties
    <3>. QED  BY <3>1, <3>2, <3>3 DEF w
  <2>3. n(o) = n(q)
    <3> HIDE DEF n, a, m, i
    <3> DEFINE v == a(o) \o (m(o) \o i(o))
               w == a(q) \o (m(q) \o i(q))
    <3>1. /\ n(o) \in Seq(Byte) /\ n(q) \in Seq(Byte) /\ Len(n(o)) = Len(n(q))
          /\ v \in Seq(Byte) /\ w \in Seq(Byte) /\ n(o) \o v = n(q) \o w
      BY <1>2, <2>1, <2>2
    <3> HIDE DEF v, w
    <3>. QED  BY <3>1, ConcatCancel
  <2>4. Len(o.listed) = Len(q.listed)
    BY <2>3
  <2>5. n(o) \o a(o) = n(q) \o a(q) /\ m(o) \o i(o) = m(q) \o i(q)
    <3>1. Len(a(o)) = Len(a(q))
      BY <1>2, <2>1, <2>4
    <3> HIDE DEF n, a, m, i
    <3> DEFINE t == n(o) \o a(o)
               u == m(o) \o i(o)
               v == n(q) \o a(q)
               w == m(q) \o i(q)
    <3>2. /\ t \in Seq(Byte) /\ u \in Seq(Byte) /\ v \in Seq(Byte) /\ w \in Seq(Byte)
          /\ Len(t) = Len(v) /\ t \o u = v \o w
      BY <1>2, <2>1, <3>1
    <3> HIDE DEF t, u, v, w
    <3>3. t = v /\ u = w
      BY <3>2, ConcatCancel
    <3>. QED  BY <3>3 DEF t, u, v, w
  <2>6. a(o) = a(q) /\ m(o) = m(q) /\ i(o) = i(q)
    <3> HIDE DEF n, a, m, i
    <3>1. /\ n(o) \in Seq(Byte) /\ n(q) \in Seq(Byte) /\ Len(n(o)) = Len(n(q))
          /\ a(o) \in Seq(Byte) /\ a(q) \in Seq(Byte)
          /\ m(o) \in Seq(Byte) /\ m(q) \in Seq(Byte) /\ Len(m(o)) = Len(m(q))
          /\ i(o) \in Seq(Byte) /\ i(q) \in Seq(Byte)
      BY <1>2, <2>1
    <3>2. a(o) = a(q)
      BY <2>5, <3>1, ConcatCancel
    <3>3. m(o) = m(q) /\ i(o) = i(q)
      BY <2>5, <3>1, ConcatCancel
    <3>. QED  BY <3>2, <3>3
  <2>7. Len(o.instructions) = Len(q.instructions)
    BY <2>6
  <2>8. o.listed = q.listed
    <3> DEFINE b == a(o)
    <3>1. /\ o.listed \in Seq(AccountInfo) /\ q.listed \in Seq(AccountInfo)
      BY DEF Signed, Good, IsOperation
    <3>2. b = Flat(AccountCodes, o.listed) /\ b = Flat(AccountCodes, q.listed) /\ b \in Seq(Byte)
      BY <2>6, <3>1, SerializeAccounts
    <3> HIDE DEF b
    <3>3. Holds(b, p, b)
      BY <1>p, <3>2, LenProperties DEF Holds
    <3>4. Holds(b, p, Flat(AccountCodes, o.listed)) /\ Holds(b, p, Flat(AccountCodes, q.listed))
      BY <3>2, <3>3, Zenon
    <3>. QED  BY <2>4, <3>1, <3>2, <3>4, AccountCodesType, FlatUnique, Zenon
  <2>9. o.instructions = q.instructions
    <3> DEFINE b == i(o)
    <3>1. /\ o.instructions \in Seq(Fitting) /\ q.instructions \in Seq(Fitting)
      BY DEF Signed, Good
    <3>2. /\ b = Flat(InstructionCodes, o.instructions) /\ b = Flat(InstructionCodes, q.instructions)
          /\ b \in Seq(Byte)
      BY <2>6, <3>1, BodyType DEF Body
    <3> HIDE DEF b
    <3>3. Holds(b, p, b)
      BY <1>p, <3>2, LenProperties DEF Holds
    <3>4. Holds(b, p, Flat(InstructionCodes, o.instructions)) /\ Holds(b, p, Flat(InstructionCodes, q.instructions))
      BY <3>2, <3>3, Zenon
    <3>. QED  BY <2>7, <3>1, <3>2, <3>4, InstructionCodesType, FlatUnique, Zenon
  <2>10. o.session = {} /\ q.session = {}
    BY <1>2 DEF Signed, Good, IsOperation
  <2>. QED  BY <2>8, <2>9, <2>10
<1>3. CASE o.kind # EXECUTE
  <2>1. ASSUME NEW x, Signed(x), x.kind = o.kind
        PROVE  /\ x.listed = <<>> /\ x.instructions = <<>>
               /\ x.session = {} => Rest(x) = <<>>
               /\ \A s \in SessionKey : x.session = {s} => Rest(x) = serialize_session_key(s)
    <3>0. x.kind \in {INITIALIZE, REFRESH} /\ x.listed = <<>> /\ x.instructions = <<>>
      BY <1>3, <2>1 DEF Signed, Good, IsOperation
    <3>1. x.session = {} => Rest(x) = <<>>
      BY <3>0, <2>1 DEF Rest, get_initialization_payload, Signed, Good, IsOperation, INITIALIZE, EXECUTE, REFRESH
    <3>2. ASSUME NEW s \in SessionKey, x.session = {s}
          PROVE  Rest(x) = serialize_session_key(s)
      <4> DEFINE c == CHOOSE r \in x.session : TRUE
      <4>1. c = s
        BY <3>2
      <4>2. Rest(x) = serialize_session_key(c)
        <5>1. x.session # {}
          BY <3>2
        <5> HIDE DEF c
        <5>2. get_initialization_payload(x) = serialize_session_key(c)
          BY <5>1, Zenon DEF get_initialization_payload, c
        <5>3. get_refresh_session_key_payload(x) = serialize_session_key(c)
          BY Zenon DEF get_refresh_session_key_payload, c
        <5>. QED  BY <3>0, <5>2, <5>3 DEF Rest, INITIALIZE, EXECUTE, REFRESH
      <4>. QED  BY <4>1, <4>2, Zenon
    <3>. QED  BY <3>0, <3>1, <3>2
  <2>2. ASSUME NEW s \in SessionKey PROVE serialize_session_key(s) # <<>>
    BY CodeTypes
  <2>3. o.session \in Options /\ q.session \in Options
    BY SessionOption DEF Signed, Good
  <2>4. o.session = q.session
    <3>1. CASE o.session = {} /\ q.session = {}
      BY <3>1
    <3>2. CASE o.session # {} /\ q.session # {}
      <4>1. PICK s \in SessionKey : o.session = {s}
        BY <2>3, <3>2 DEF Options
      <4>2. PICK t \in SessionKey : q.session = {t}
        BY <2>3, <3>2 DEF Options
      <4>3. serialize_session_key(s) = serialize_session_key(t)
        BY <2>1, <4>1, <4>2
      <4>. QED  BY <1>1, <4>1, <4>2, <4>3
    <3>3. CASE o.session = {} /\ q.session # {}
      <4>2. PICK t \in SessionKey : q.session = {t}
        BY <2>3, <3>3 DEF Options
      <4>. QED  BY <2>1, <2>2, <3>3, <4>2
    <3>4. CASE o.session # {} /\ q.session = {}
      <4>2. PICK t \in SessionKey : o.session = {t}
        BY <2>3, <3>4 DEF Options
      <4>. QED  BY <2>1, <2>2, <3>4, <4>2
    <3>. QED  BY <3>1, <3>2, <3>3, <3>4
  <2>. QED  BY <2>1, <2>4
<1>. QED  BY <1>2, <1>3

\* The challenge is injective: two operations with the same hashed bytes are
\* the same, in every account, privilege, index and byte.
LEMMA PayloadInjective ==
    ASSUME NEW o, Signed(o), NEW q, Signed(q), Payload(o) = Payload(q)
    PROVE  o = q
<1>1. ASSUME NEW x, Signed(x)
      PROVE  /\ Payload(x) = Preamble(x) \o Rest(x)
             /\ Preamble(x) \in Seq(Word) /\ Len(Preamble(x)) = 3 /\ Rest(x) \in Seq(Word)
  <2>1. Payload(x) = Preamble(x) \o Rest(x)
    BY Zenon DEF Payload, Preamble, Rest
  <2>2. Rest(x) \in Seq(Byte)
    <3>1. x.kind \in {INITIALIZE, EXECUTE, REFRESH}
      BY <1>1 DEF Signed, Good, IsOperation
    <3>2. CASE x.kind = EXECUTE
      BY <1>1, <3>2, ExecutePayload, ConcatProperties
    <3>3. CASE x.kind # EXECUTE
      <4>1. CASE x.session = {}
        BY <1>1, <3>1, <3>3, <4>1 DEF Rest, get_initialization_payload, Signed, Good, IsOperation, INITIALIZE, EXECUTE, REFRESH
      <4>2. CASE x.session # {}
        <5>1. PICK s \in SessionKey : (CHOOSE r \in x.session : TRUE) = s
          BY <1>1, <4>2, SessionOption DEF Signed, Good
        <5>2. get_initialization_payload(x) = serialize_session_key(s)
          BY <4>2, <5>1, Zenon DEF get_initialization_payload
        <5>3. get_refresh_session_key_payload(x) = serialize_session_key(s)
          BY <5>1, Zenon DEF get_refresh_session_key_payload
        <5>4. Rest(x) = serialize_session_key(s)
          BY <3>1, <3>3, <5>2, <5>3 DEF Rest, INITIALIZE, EXECUTE, REFRESH
        <5>. QED  BY <5>4, CodeTypes
      <4>. QED  BY <4>1, <4>2
    <3>. QED  BY <3>2, <3>3
  <2>3. Rest(x) \in Seq(Word)
    BY <2>2, WordCovers, SeqMonotonic
  <2>. QED  BY <1>1, <2>1, <2>3, PreambleType
<1>2. Preamble(o) = Preamble(q) /\ Rest(o) = Rest(q)
  <2> DEFINE t == Preamble(o)
             u == Rest(o)
             v == Preamble(q)
             w == Rest(q)
  <2>1. /\ t \in Seq(Word) /\ u \in Seq(Word) /\ v \in Seq(Word) /\ w \in Seq(Word)
        /\ Len(t) = Len(v) /\ t \o u = v \o w
    BY <1>1
  <2> HIDE DEF t, u, v, w
  <2>2. t = v /\ u = w
    BY <2>1, ConcatCancel
  <2>. QED  BY <2>2 DEF t, u, v, w
<1>3. o.slothash = q.slothash /\ o.signer = q.signer /\ o.kind = q.kind
  BY <1>2, PreambleSplits
<1>4. o.session = q.session /\ o.listed = q.listed /\ o.instructions = q.instructions
  BY <1>2, <1>3, RestSplits
<1>. QED  BY <1>3, <1>4 DEF Signed, Good, IsOperation

-----------------------------------------------------------------------------
\* Bytes hold themselves.
LEMMA HoldsSelf ==
    ASSUME NEW b \in Seq(Byte)
    PROVE  Holds(b, 1, b)
BY LenProperties DEF Holds

\* The bytes begin with a head of this kind and slot, n bytes long.
Opens(b, kind, slot, n) ==
    \E scheme \in {0, 1}, extra \in Extras :
        /\ Holds(b, 1, Opening(kind, slot, scheme, extra))
        /\ n = Len(Opening(kind, slot, scheme, extra))

\* The reader of the head finds it.
LEMMA OpensFacts ==
    ASSUME NEW b \in Seq(Byte), NEW k \in Kinds, NEW s \in Word, NEW n, Opens(b, k, s, n)
    PROVE  /\ n \in Nat /\ n >= 1 /\ n <= Len(b) /\ Len(b) \in Nat /\ b[1] = k
           /\ Fields(IF k = SESSIONED THEN {} ELSE {s}, 1 + n) \in read_head(b, 2, k)
<1>1. PICK c \in {0, 1}, e \in Extras : Holds(b, 1, Opening(k, s, c, e)) /\ n = Len(Opening(k, s, c, e))
  BY DEF Opens
<1> DEFINE x == Opening(k, s, c, e)
<1>2. x \in Seq(Byte) /\ x # <<>> /\ x[1] = k
  BY OpeningCode, Zenon
<1>3. Holds(b, 1, x) /\ n = Len(x)
  BY <1>1
<1> HIDE DEF x
<1>4. n \in Nat /\ n >= 1 /\ Len(b) \in Nat
  <2>1. Len(x) \in Nat \ {0}
    BY <1>2, EmptySeq
  <2>. QED  BY <1>3, <2>1, LenProperties
<1>5. b[1] = k /\ n <= Len(b)
  BY <1>2, <1>3, <1>4 DEF Holds
<1>6. Len(b) >= 1
  BY <1>4, <1>5
<1>7. Fields(IF k = SESSIONED THEN {} ELSE {s}, 1 + Len(x)) \in read_head(b, 2, k)
  BY <1>3, <1>5, <1>6, ReadHead DEF x
<1>. QED  BY <1>3, <1>4, <1>5, <1>7

\* Bytes begin with at most one head.
LEMMA OpeningUnique ==
    ASSUME NEW b \in Seq(Byte), NEW k \in Kinds, NEW s \in Word, NEW n, Opens(b, k, s, n),
           NEW l \in Kinds, NEW t \in Word, NEW m, Opens(b, l, t, m)
    PROVE  k = l /\ n = m /\ (k # SESSIONED => s = t)
<1> DEFINE g == Fields(IF k = SESSIONED THEN {} ELSE {s}, 1 + n)
           h == Fields(IF l = SESSIONED THEN {} ELSE {t}, 1 + m)
<1>1. n \in Nat /\ n >= 1 /\ n <= Len(b) /\ Len(b) \in Nat /\ b[1] = k /\ g \in read_head(b, 2, k)
  BY OpensFacts
<1>2. m \in Nat /\ b[1] = l /\ h \in read_head(b, 2, l)
  BY OpensFacts
<1>3. k = l /\ Len(b) >= 1
  BY <1>1, <1>2
<1>4. g.at = 1 + n /\ h.at = 1 + m /\ (k # SESSIONED => g.value = {s} /\ h.value = {t})
  BY <1>3 DEF Fields
<1> HIDE DEF g, h
<1>5. AtMostOne(read_head(b, 2, k))
  BY <1>1, <1>3, ReadHead
<1>6. g = h
  BY <1>1, <1>2, <1>3, <1>5 DEF AtMostOne
<1>7. 1 + n = 1 + m /\ (k # SESSIONED => {s} = {t})
  BY <1>4, <1>6
<1>. QED  BY <1>1, <1>2, <1>3, <1>7

\* What a builder wrote begins with its head, followed by the rest.
LEMMA HonestOpening ==
    ASSUME NEW w, Good(w), NEW c \in {0, 1}, NEW e \in Extras,
           NEW b, b = Opening(w.kind, w.slothash, c, e) \o Closing(w)
    PROVE  /\ b \in Seq(Byte)
           /\ \E n \in Nat : /\ Opens(b, w.kind, w.slothash, n)
                             /\ Holds(b, 1 + n, Closing(w)) /\ Len(b) = n + Len(Closing(w))
<1> DEFINE x == Opening(w.kind, w.slothash, c, e)
           z == Closing(w)
<1>0. w.kind \in Kinds /\ w.slothash \in Word
  BY DEF Good, IsOperation, Kinds
<1>1. x \in Seq(Byte) /\ z \in Seq(Byte)
  BY <1>0, OpeningCode, ClosingCode
<1> HIDE DEF x, z
<1>2. b = x \o z
  BY DEF x, z
<1>3. b \in Seq(Byte) /\ Len(b) = Len(x) + Len(z) /\ Len(x) \in Nat
  BY <1>1, <1>2, ConcatProperties, LenProperties
<1>4. Holds(b, 1, x \o z)
  BY <1>2, <1>3, HoldsSelf
<1>5. Holds(b, 1, x) /\ Holds(b, 1 + Len(x), z)
  BY <1>1, <1>3, <1>4, HoldsConcatFirst
<1>6. Opens(b, w.kind, w.slothash, Len(x))
  BY <1>5 DEF Opens, x
<1>. QED  BY <1>3, <1>5, <1>6 DEF z

\* A reader in the middle of the instructions a client wrote has read the
\* first ones, and the next is in front of it.
LEMMA HonestInstructions ==
    ASSUME NEW b \in Seq(Byte), NEW p \in Nat \ {0}, NEW n \in Nat,
           NEW s \in Seq(Fitting), n + Len(s) \in Byte, NEW t \in Seq(Fitting), Len(t) \in Byte,
           Holds(b, p, <<n + Len(s)>> \o Body(s)), Holds(b, p, serialize_instructions(t))
    PROVE  /\ n + Len(s) = Len(t) /\ s = Upto(t, Len(s))
           /\ n > 0 => /\ t[Len(s) + 1] \in Fitting
                       /\ Holds(b, p + Len(<<n + Len(s)>> \o Body(s)),
                                serialize_instruction(t[Len(s) + 1]))
<1> DEFINE x == Body(s)
           y == Body(t)
           i == <<n + Len(s)>>
           j == <<Len(t)>>
<1>0. x \in Seq(Byte) /\ y \in Seq(Byte) /\ i \in Seq(Byte) /\ j \in Seq(Byte)
  BY BodyType
<1>1. Len(s) \in Nat /\ Len(t) \in Nat /\ Len(i) = 1 /\ Len(j) = 1 /\ p + 1 \in Nat \ {0} /\ Len(b) \in Nat
  BY LenProperties
<1>2. Holds(b, p, i \o x) /\ Holds(b, p, j \o y)
  BY SerializeInstructions
<1> HIDE DEF x, y, i, j
<1>3. Holds(b, p, i) /\ Holds(b, p + Len(i), x) /\ Len(i \o x) = Len(i) + Len(x) /\ Len(x) \in Nat
  BY <1>0, <1>2, HoldsConcat, Zenon
<1>4. Holds(b, p, j) /\ Holds(b, p + Len(j), y)
  BY <1>0, <1>2, HoldsConcat, Zenon
<1>5. n + Len(s) = Len(t)
  <2>1. b[p] = n + Len(s)
    BY <1>3, HoldsOne DEF i
  <2>2. b[p] = Len(t)
    BY <1>4, HoldsOne DEF j
  <2>. QED  BY <2>1, <2>2
<1>6. Len(s) <= Len(t) /\ Len(s) \in 0..Len(t) /\ (n > 0 => Len(s) < Len(t))
  BY <1>1, <1>5
<1>7. Holds(b, p + 1, Flat(InstructionCodes, s)) /\ Holds(b, p + 1, Flat(InstructionCodes, t))
  BY <1>1, <1>3, <1>4 DEF x, y, Body
<1>8. s = Upto(t, Len(s))
  <2> DEFINE q == p + 1
  <2>1. q \in Nat \ {0} /\ Holds(b, q, Flat(InstructionCodes, s)) /\ Holds(b, q, Flat(InstructionCodes, t))
    BY <1>1, <1>7
  <2> HIDE DEF q
  <2>. QED  BY <1>6, <2>1, InstructionCodesType, FlatAgree, Zenon
<1>9. ASSUME n > 0
      PROVE  /\ t[Len(s) + 1] \in Fitting
             /\ Holds(b, p + Len(i \o x), serialize_instruction(t[Len(s) + 1]))
  <2> DEFINE q == p + 1
             k == Len(s)
             u == t[k + 1]
  <2>1. q \in Nat \ {0} /\ Holds(b, q, Flat(InstructionCodes, t)) /\ k \in 0..Len(t) /\ k < Len(t)
    BY <1>1, <1>6, <1>7, <1>9
  <2>2. u \in Fitting
    BY <1>1, <2>1, ElementOfSeq
  <2>3. Flat(InstructionCodes, Upto(t, k)) = x
    BY <1>8 DEF x, Body
  <2> HIDE DEF q, k
  <2>4. Holds(b, q + Len(Flat(InstructionCodes, Upto(t, k))), InstructionCodes[t[k + 1]])
    BY <2>1, InstructionCodesType, FlatPrefix, Zenon
  <2>5. q + Len(x) = p + Len(i \o x)
    BY <1>1, <1>3 DEF q
  <2>6. InstructionCodes[u] = serialize_instruction(u)
    BY <2>2 DEF InstructionCodes
  <2>7. Holds(b, p + Len(i \o x), serialize_instruction(u))
    BY <2>3, <2>4, <2>5, <2>6
  <2>. QED  BY <2>2, <2>7 DEF k
<1>. QED  BY <1>5, <1>8, <1>9 DEF i, x

\* The session key read is the one that was written.
LEMMA HonestSession ==
    ASSUME NEW b \in Seq(Byte), NEW p \in Nat \ {0}, NEW a, Good(a), NEW w, Good(w),
           a.kind = w.kind, w.kind \in {INITIALIZE, REFRESH},
           Holds(b, p, Closing(a)), Holds(b, p, Closing(w))
    PROVE  a.session = w.session
<1>1. CASE w.kind = REFRESH
  <2>1. ASSUME NEW o, Good(o), o.kind = REFRESH, Holds(b, p, Closing(o))
        PROVE  \E r \in read_session_key(b, p) : r.value = o.session
    <3>1. o.session # {}
      BY <2>1 DEF Good, IsOperation
    <3>2. PICK s \in SessionKey : o.session = {s} /\ (CHOOSE r \in o.session : TRUE) = s
      BY <2>1, <3>1, SessionOption DEF Good
    <3>3. Closing(o) = serialize_session_key(CHOOSE r \in o.session : TRUE)
      BY <2>1 DEF Closing, REFRESH, EXECUTE, SESSIONED
    <3>4. Closing(o) = serialize_session_key(s)
      BY <3>2, <3>3, Zenon
    <3> DEFINE r == [value |-> {s}, at |-> p + Len(serialize_session_key(s))]
    <3>5. Decodes(r, b, p, {s}, serialize_session_key(s)) /\ r.value = o.session
      BY <2>1, <3>2, <3>4 DEF Decodes
    <3> HIDE DEF r
    <3>6. r \in read_session_key(b, p)
      BY <3>5, ReadSessionKey, Zenon
    <3>. QED  BY <3>5, <3>6
  <2>2. AtMostOne(read_session_key(b, p))
    BY ReadSessionKey
  <2>. QED  BY <1>1, <2>1, <2>2 DEF AtMostOne
<1>2. CASE w.kind = INITIALIZE
  <2>1. ASSUME NEW o, Good(o), o.kind = INITIALIZE, Holds(b, p, Closing(o))
        PROVE  \E r \in read_option(b, p) : r.value = o.session
    <3>1. Closing(o) = serialize_option(o.session)
      BY <2>1 DEF Closing, INITIALIZE, REFRESH, EXECUTE, SESSIONED
    <3>2. o.session \in Options
      BY <2>1, SessionOption DEF Good
    <3> DEFINE r == [value |-> o.session, at |-> p + Len(serialize_option(o.session))]
    <3>3. Decodes(r, b, p, o.session, serialize_option(o.session)) /\ r.value = o.session
      BY <2>1, <3>1 DEF Decodes
    <3> HIDE DEF r
    <3>4. r \in read_option(b, p)
      BY <3>2, <3>3, ReadOption, Zenon
    <3>. QED  BY <3>3, <3>4
  <2>2. AtMostOne(read_option(b, p))
    BY ReadOption
  <2>. QED  BY <1>2, <2>1, <2>2 DEF AtMostOne
<1>. QED  BY <1>1, <1>2

-----------------------------------------------------------------------------
\* The types of the arguments as far as they are read.
Arguments(a) ==
    /\ a \in [kind : Kinds, slothash : Word, signer : Byte, session : SUBSET SessionKey,
              listed : Seq(AccountInfo), instructions : Seq(Fitting)]
    /\ a.session \in Options
    /\ a.kind = SESSIONED => a.slothash = 0
    /\ IF a.kind \in {EXECUTE, SESSIONED} THEN a.session = {}
       ELSE a.listed = <<>> /\ a.instructions = <<>>

\* The bytes behind the head that the arguments stand for, n instructions
\* still to be read.
Held(a, n) ==
    IF a.kind \in {EXECUTE, SESSIONED} THEN <<n + Len(a.instructions)>> \o Body(a.instructions)
    ELSE Closing(a)

\* The bytes behind the head that are read.
Taken == IF phase = "head" THEN <<>> ELSE Held(args, left)

\* The reader is at p, behind a head and the bytes t.
Reaches(b, kind, slot, p, t) ==
    \E n \in 1..Len(b) : Opens(b, kind, slot, n) /\ Holds(b, 1 + n, t) /\ p = 1 + n + Len(t)

Reached == Reaches(data, args.kind, args.slothash, at, Taken)

\* What was sent is what a builder made of a wanted operation that fits.
SentByClient ==
    /\ Fits(wanted)
    /\ \E scheme \in {0, 1}, extra \in Extras : sent = Instruction(wanted, scheme, extra)

\* The types of the state.
Typed ==
    /\ wanted \in Operations
    /\ phase \in {"build", "refused", "sent", "delivered", "head", "reading", "read", "loaded",
                  "failed", "accepted"}
    /\ data \in Seq(Byte)
    /\ accounts \in Seq(AccountInfo) /\ Len(accounts) < BASE + 4
    /\ Arguments(args)
    /\ left \in Byte /\ left + Len(args.instructions) \in Byte
    /\ args.kind \notin {EXECUTE, SESSIONED} => left = 0
    /\ at \in 1..(Len(data) + 1)

\* The reader has not begun.
NothingRead == args = NoArgs /\ at = 1 /\ left = 0

\* Why an instruction that arrives as it was built may fail.
Refusable ==
    /\ wanted.kind # SESSIONED
    /\ wanted.slothash \notin Recent \/ listed_of(wanted.kind, accounts) # wanted.listed
HonestFailure == phase = "failed" /\ Untouched => Refusable

\* The inductive invariant: the bytes up to the reader are the encoding of the
\* arguments so far; and what the later phases have checked.
WireInv ==
    /\ Typed
    /\ phase \in {"build", "refused", "sent", "delivered"} => NothingRead
    /\ phase \notin {"build", "refused"} => SentByClient
    /\ phase \in {"head", "reading", "read", "loaded", "accepted"} => Reached
    /\ phase = "head" => args.session = {} /\ args.instructions = <<>> /\ left = 0
    /\ phase \in {"reading", "read", "loaded", "accepted"} /\ args.kind = REFRESH => args.session # {}
    /\ phase \in {"read", "loaded", "accepted"} => left = 0 /\ at = Len(data) + 1
    /\ phase \in {"loaded", "accepted"} =>
           args.signer = signer_of(args.kind, accounts) /\ args.listed = listed_of(args.kind, accounts)
    /\ phase = "accepted" /\ args.kind # SESSIONED =>
           wanted.kind # SESSIONED /\ args.slothash \in Recent /\ Payload(args) = Payload(wanted)
    /\ HonestFailure

\* The reader stays within the data.
LEMMA ReachesBounds ==
    ASSUME NEW b \in Seq(Byte), NEW k \in Kinds, NEW s \in Word, NEW p, NEW t \in Seq(Byte),
           Reaches(b, k, s, p, t)
    PROVE  p \in 1..(Len(b) + 1) /\ p \in Nat \ {0} /\ Len(b) \in Nat
<1>1. PICK n \in 1..Len(b) : Holds(b, 1 + n, t) /\ p = 1 + n + Len(t)
  BY DEF Reaches
<1>2. Len(b) \in Nat /\ Len(t) \in Nat
  BY LenProperties
<1>. QED  BY <1>1, <1>2 DEF Holds

\* The reader passes the next string.
LEMMA ReachesMore ==
    ASSUME NEW b \in Seq(Byte), NEW k \in Kinds, NEW s \in Word, NEW p, NEW t \in Seq(Byte),
           NEW u \in Seq(Byte), Reaches(b, k, s, p, t), Holds(b, p, u)
    PROVE  Reaches(b, k, s, p + Len(u), t \o u)
<1>1. PICK n \in 1..Len(b) : Opens(b, k, s, n) /\ Holds(b, 1 + n, t) /\ p = 1 + n + Len(t)
  BY DEF Reaches
<1>2. Len(b) \in Nat /\ Len(t) \in Nat /\ Len(u) \in Nat
  BY LenProperties
<1> DEFINE q == 1 + n
<1>3. q \in Nat \ {0} /\ Holds(b, q, t) /\ p = q + Len(t)
  BY <1>1, <1>2
<1> HIDE DEF q
<1>4. Holds(b, q, t \o u) /\ Len(t \o u) = Len(t) + Len(u)
  BY <1>3, HoldsConcat, Zenon
<1>5. p + Len(u) = q + Len(t \o u)
  BY <1>2, <1>3, <1>4
<1>. QED  BY <1>1, <1>4, <1>5 DEF Reaches, q

\* The arguments are an operation that fits, and their bytes its encoding.
LEMMA HeldType ==
    ASSUME NEW a, Arguments(a), NEW n \in Byte, n + Len(a.instructions) \in Byte,
           a.kind = REFRESH => a.session # {}
    PROVE  /\ Held(a, n) \in Seq(Byte)
           /\ IsOperation(a) /\ Good(a)
           /\ n = 0 => Held(a, n) = Closing(a)
<1>1. a.instructions \in Seq(Fitting) /\ Len(a.instructions) \in Nat
  BY LenProperties DEF Arguments
<1>2. a.instructions \in Seq(CompiledInstruction)
  <2>1. Fitting \subseteq CompiledInstruction
    BY DEF Fitting
  <2>. QED  BY <1>1, <2>1, SeqMonotonic
<1>3. IsOperation(a)
  <2>1. \A s, t \in a.session : s = t
    BY DEF Arguments, Options
  <2>. QED  BY <1>2, <2>1 DEF Arguments, IsOperation, Kinds
<1>4. Len(a.instructions) \in Byte
  BY <1>1, BaseAssumption DEF Byte
<1>5. Good(a)
  BY <1>1, <1>3, <1>4 DEF Good
<1>6. CASE a.kind \in {EXECUTE, SESSIONED}
  <2>1. Held(a, n) = <<n + Len(a.instructions)>> \o Body(a.instructions)
    BY <1>6 DEF Held
  <2>2. <<n + Len(a.instructions)>> \in Seq(Byte) /\ Body(a.instructions) \in Seq(Byte)
    BY <1>1, BodyType
  <2>3. Held(a, n) \in Seq(Byte)
    BY <2>1, <2>2, ConcatProperties
  <2>4. ASSUME n = 0 PROVE Held(a, n) = Closing(a)
    <3>1. n + Len(a.instructions) = Len(a.instructions)
      BY <1>1, <2>4
    <3>2. Closing(a) = serialize_instructions(a.instructions)
      BY <1>6 DEF Closing
    <3>3. serialize_instructions(a.instructions) = <<Len(a.instructions)>> \o Body(a.instructions)
      BY <1>1, <1>4, SerializeInstructions
    <3>. QED  BY <2>1, <3>1, <3>2, <3>3
  <2>. QED  BY <1>3, <1>5, <2>3, <2>4
<1>7. CASE a.kind \notin {EXECUTE, SESSIONED}
  BY <1>3, <1>5, <1>7, ClosingCode DEF Held
<1>. QED  BY <1>6, <1>7

\* The empty arguments are typed.
LEMMA NoArgsType == Arguments(NoArgs) /\ NoArgs.instructions = <<>> /\ Len(<<>>) = 0 /\ 0 \in Byte
<1>1. 0 \in Word /\ 0 \in Byte
  BY BaseAssumption, WordCovers DEF Byte
<1>2. {} \in Options /\ {} \in SUBSET SessionKey
  BY DEF Options
<1>. QED  BY <1>1, <1>2 DEF NoArgs, Operation, Arguments, Kinds, INITIALIZE, EXECUTE, SESSIONED

\* What a builder made is typed, begins with its head and can be loaded.
LEMMA SentTypes ==
    ASSUME NEW o \in Operations, Fits(o), NEW scheme \in {0, 1}, NEW extra \in Extras
    PROVE  LET i == Instruction(o, scheme, extra)
           IN  /\ Good(o)
               /\ i.data \in Seq(Byte) /\ i.accounts \in Seq(AccountInfo) /\ Len(i.accounts) < BASE + 4
               /\ \E n \in Nat : /\ Opens(i.data, o.kind, o.slothash, n)
                                 /\ Holds(i.data, 1 + n, Closing(o))
                                 /\ Len(i.data) = n + Len(Closing(o))
               /\ load(o.kind, i.accounts) /\ signer_of(o.kind, i.accounts) = o.signer
               /\ listed_of(o.kind, i.accounts) = o.listed
<1> DEFINE i == Instruction(o, scheme, extra)
<1>1. IsOperation(o) /\ Good(o)
  BY OperationsAssumption, FittingOperation
<1>2. i.data = Opening(o.kind, o.slothash, scheme, extra) \o Closing(o)
  BY <1>1, InstructionData
<1>3. /\ i.accounts \in Seq(AccountInfo) /\ Len(i.accounts) = fixed(o.kind) + Len(o.listed)
      /\ load(o.kind, i.accounts) /\ signer_of(o.kind, i.accounts) = o.signer
      /\ listed_of(o.kind, i.accounts) = o.listed
  BY <1>1, InstructionAccounts
<1> HIDE DEF i
<1>4. /\ i.data \in Seq(Byte)
      /\ \E n \in Nat : /\ Opens(i.data, o.kind, o.slothash, n)
                        /\ Holds(i.data, 1 + n, Closing(o))
                        /\ Len(i.data) = n + Len(Closing(o))
  BY <1>1, <1>2, HonestOpening
<1>5. Len(i.accounts) < BASE + 4
  <2>1. o.listed \in Seq(AccountInfo) /\ Len(o.listed) \in Nat /\ Len(o.listed) <= MAX_LISTED
    BY <1>1, AccountsAssumption, LenProperties DEF IsOperation
  <2>2. CASE o.kind = INITIALIZE
    <3>1. fixed(o.kind) = 5 /\ Len(o.listed) = 0
      BY <1>1, <2>2 DEF fixed, IsOperation, INITIALIZE, EXECUTE, SESSIONED
    <3>. QED  BY <1>3, <3>1, BaseAssumption
  <2>3. CASE o.kind # INITIALIZE
    <3>1. fixed(o.kind) \in {2, 4}
      BY <2>3 DEF fixed
    <3>. QED  BY <1>3, <2>1, <3>1, BaseAssumption, AccountsAssumption
  <2>. QED  BY <2>2, <2>3
<1>. QED  BY <1>1, <1>3, <1>4, <1>5 DEF i

\* What becomes of a list of accounts when only privileges are added, or taken
\* from reserved accounts.
Passed(asked, passed) ==
    /\ Len(passed) = Len(asked)
    /\ \A i \in 1..Len(asked) :
           /\ passed[i].key = asked[i].key
           /\ asked[i].is_signer = 1 => passed[i].is_signer = 1
           /\ asked[i].is_writable = 1 /\ asked[i].key \notin Reserved => passed[i].is_writable = 1

\* The runtime passes the accounts in their order, whatever is mentioned
\* elsewhere.
LEMMA GrantedPasses ==
    ASSUME NEW a \in Seq(AccountInfo), NEW m
    PROVE  Granted(a, m) \in Seq(AccountInfo) /\ Passed(a, Granted(a, m))
<1> DEFINE g == Granted(a, m)
           signs(k) == \E n \in ToSet(a) \cup m : n.key = k /\ n.is_signer = 1
           writes(k) == \E n \in ToSet(a) \cup m : n.key = k /\ n.is_writable = 1
<1>0. Len(a) \in Nat /\ DOMAIN a = 1..Len(a)
  BY LenProperties
<1>1. g = [i \in 1..Len(a) |-> [key |-> a[i].key, is_signer |-> Flag(signs(a[i].key)),
                                is_writable |-> Flag(a[i].key \notin Reserved /\ writes(a[i].key))]]
  BY <1>0, Zenon DEF Granted
<1>2. \A i \in 1..Len(a) : a[i] \in AccountInfo /\ a[i] \in ToSet(a)
  BY <1>0, ElementOfSeq DEF ToSet
<1>3. \A i \in 1..Len(a) : /\ a[i].is_signer = 1 => signs(a[i].key)
                           /\ a[i].is_writable = 1 => writes(a[i].key)
  BY <1>2
<1> HIDE DEF signs, writes
<1>4. \A b \in BOOLEAN : Flag(b) \in {0, 1} /\ (b => Flag(b) = 1)
  BY DEF Flag
<1>5. \A k : signs(k) \in BOOLEAN /\ (k \notin Reserved /\ writes(k)) \in BOOLEAN
  BY DEF signs, writes
<1> HIDE DEF g
<1>6. \A i \in 1..Len(a) : /\ g[i] \in AccountInfo /\ g[i].key = a[i].key
                           /\ g[i].is_signer = Flag(signs(a[i].key))
                           /\ g[i].is_writable = Flag(a[i].key \notin Reserved /\ writes(a[i].key))
  BY <1>1, <1>2, <1>4, <1>5 DEF AccountInfo
<1>7. g \in [1..Len(a) -> AccountInfo]
  <2>1. g = [i \in 1..Len(a) |-> g[i]]
    BY <1>1
  <2>. QED  BY <1>6, <2>1
<1>8. g \in Seq(AccountInfo) /\ Len(g) = Len(a)
  BY <1>0, <1>7, FunctionIsSeq
<1>9. Passed(a, g)
  BY <1>3, <1>4, <1>5, <1>6, <1>8 DEF Passed
<1>. QED  BY <1>8, <1>9 DEF g

\* The handlers load them, find the same signer, and the listed ones passed on.
LEMMA GrantedLoad ==
    ASSUME NEW k \in Kinds, NEW a \in Seq(AccountInfo), NEW m, load(k, a),
           signer_of(k, a) \notin Reserved
    PROVE  LET g == Granted(a, m)
           IN  /\ load(k, g) /\ signer_of(k, g) = signer_of(k, a)
               /\ Passed(listed_of(k, a), listed_of(k, g))
<1> DEFINE g == Granted(a, m)
<1>1. g \in Seq(AccountInfo) /\ Passed(a, g)
  BY GrantedPasses
<1> HIDE DEF g
<1>2. /\ Len(a) \in Nat /\ Len(g) = Len(a) /\ fixed(k) \in {2, 4, 5} /\ Len(a) >= fixed(k)
  BY <1>1, LenProperties DEF fixed, load, Passed
<1>3. PASSKEY_ACCOUNT \notin Reserved
  BY DEF PASSKEY_ACCOUNT, Reserved, INSTRUCTIONS_SYSVAR, SLOT_HASHES, SYSTEM_PROGRAM
<1>4. load(k, g) /\ signer_of(k, g) = signer_of(k, a)
  <2>1. CASE k = INITIALIZE
    <3>1. fixed(k) = 5 /\ load_initialize(a)
      BY <2>1 DEF fixed, load, INITIALIZE, EXECUTE, SESSIONED, REFRESH
    <3>2. 1 \in 1..Len(a) /\ 2 \in 1..Len(a) /\ 3 \in 1..Len(a) /\ 4 \in 1..Len(a) /\ 5 \in 1..Len(a)
      BY <1>2, <3>1
    <3>3. signer_of(k, a) = a[2].key /\ signer_of(k, g) = g[2].key
      BY <2>1 DEF signer_of
    <3>4. load_initialize(g) /\ g[2].key = a[2].key
      BY <1>1, <1>3, <3>1, <3>2, <3>3 DEF Passed, load_initialize
    <3>. QED  BY <1>2, <2>1, <3>1, <3>3, <3>4 DEF load, INITIALIZE, EXECUTE, SESSIONED, REFRESH
  <2>2. CASE k = SESSIONED
    <3>1. fixed(k) = 2 /\ load_sessioned(a)
      BY <2>2 DEF fixed, load, INITIALIZE, EXECUTE, SESSIONED, REFRESH
    <3>2. 1 \in 1..Len(a) /\ 2 \in 1..Len(a)
      BY <1>2, <3>1
    <3>3. signer_of(k, a) = a[2].key /\ signer_of(k, g) = g[2].key
      BY <2>2 DEF signer_of
    <3>4. load_sessioned(g) /\ g[2].key = a[2].key
      BY <1>1, <3>1, <3>2 DEF Passed, load_sessioned
    <3>. QED  BY <1>2, <2>2, <3>1, <3>3, <3>4 DEF load, INITIALIZE, EXECUTE, SESSIONED, REFRESH
  <2>3. CASE k \in {EXECUTE, REFRESH}
    <3>0. /\ fixed(k) = 4
          /\ \A x : load(k, x) <=> Len(x) >= 4 /\ load_execute(x)
      <4>1. CASE k = EXECUTE
        BY <4>1 DEF fixed, load, INITIALIZE, EXECUTE, SESSIONED, REFRESH
      <4>2. CASE k = REFRESH
        BY <4>2 DEF fixed, load, load_execute, load_refresh, INITIALIZE, EXECUTE, SESSIONED, REFRESH
      <4>. QED  BY <2>3, <4>1, <4>2
    <3>1. fixed(k) = 4 /\ load_execute(a)
      BY <3>0
    <3>2. 1 \in 1..Len(a) /\ 2 \in 1..Len(a) /\ 3 \in 1..Len(a) /\ 4 \in 1..Len(a)
      BY <1>2, <3>1
    <3>3. signer_of(k, a) = a[4].key /\ signer_of(k, g) = g[4].key
      BY <2>3 DEF signer_of, INITIALIZE, EXECUTE, SESSIONED, REFRESH
    <3>4. load_execute(g) /\ g[4].key = a[4].key
      BY <1>1, <1>3, <3>1, <3>2 DEF Passed, load_execute
    <3>. QED  BY <1>2, <3>0, <3>1, <3>3, <3>4
  <2>. QED  BY <2>1, <2>2, <2>3 DEF Kinds
<1>5. Passed(listed_of(k, a), listed_of(k, g))
  <2>1. CASE k \notin {EXECUTE, SESSIONED}
    BY <2>1 DEF listed_of, Passed
  <2>2. CASE k \in {EXECUTE, SESSIONED}
    <3> DEFINE f == fixed(k)
               s == SubSeq(a, f + 1, Len(a))
               t == SubSeq(g, f + 1, Len(a))
    <3>1. listed_of(k, a) = s /\ listed_of(k, g) = t
      BY <1>2, <2>2 DEF listed_of
    <3>2. f \in Nat /\ f <= Len(a)
      BY <1>2
    <3> HIDE DEF f
    <3>3. /\ Len(s) = Len(a) - f /\ Len(t) = Len(a) - f
          /\ \A i \in 1..(Len(a) - f) : s[i] = a[f + i] /\ t[i] = g[f + i]
      BY <1>1, <1>2, <3>2
    <3> HIDE DEF s, t
    <3>4. \A i \in 1..Len(s) : f + i \in 1..Len(a)
      BY <1>2, <3>2, <3>3
    <3>5. Passed(s, t)
      BY <1>1, <3>3, <3>4 DEF Passed
    <3>. QED  BY <3>1, <3>5
  <2>. QED  BY <2>1, <2>2
<1>. QED  BY <1>4, <1>5 DEF g

\* Data nobody touched is that of the wanted operation.
LEMMA HonestSent ==
    ASSUME WireInv, phase \notin {"build", "refused"}, Untouched
    PROVE  /\ Good(wanted)
           /\ \E n \in Nat : /\ Opens(data, wanted.kind, wanted.slothash, n)
                             /\ Holds(data, 1 + n, Closing(wanted))
                             /\ Len(data) = n + Len(Closing(wanted))
           /\ load(wanted.kind, accounts) /\ signer_of(wanted.kind, accounts) = wanted.signer
           /\ Passed(wanted.listed, listed_of(wanted.kind, accounts))
<1>1. wanted \in Operations /\ Fits(wanted)
  BY DEF WireInv, Typed, SentByClient
<1>2. PICK scheme \in {0, 1}, extra \in Extras : sent = Instruction(wanted, scheme, extra)
  BY DEF WireInv, SentByClient
<1>3. PICK m \in Elsewhere : data = sent.data /\ accounts = Granted(sent.accounts, m)
  BY DEF Untouched
<1> DEFINE i == Instruction(wanted, scheme, extra)
<1>4. /\ Good(wanted)
      /\ \E n \in Nat : /\ Opens(i.data, wanted.kind, wanted.slothash, n)
                        /\ Holds(i.data, 1 + n, Closing(wanted))
                        /\ Len(i.data) = n + Len(Closing(wanted))
      /\ i.accounts \in Seq(AccountInfo)
      /\ load(wanted.kind, i.accounts) /\ signer_of(wanted.kind, i.accounts) = wanted.signer
      /\ listed_of(wanted.kind, i.accounts) = wanted.listed
  BY <1>1, SentTypes
<1>5. i.data = data /\ accounts = Granted(i.accounts, m)
  BY <1>2, <1>3
<1> HIDE DEF i
<1>6. wanted.kind \in Kinds /\ wanted.signer \notin Reserved
  BY <1>1, <1>4, OperationsAssumption DEF Good, IsOperation, Kinds
<1>7. /\ load(wanted.kind, accounts) /\ signer_of(wanted.kind, accounts) = wanted.signer
      /\ Passed(wanted.listed, listed_of(wanted.kind, accounts))
  BY <1>4, <1>5, <1>6, GrantedLoad
<1>. QED  BY <1>4, <1>5, <1>7

\* A reader of data nobody touched has the kind and the slot right, and stands
\* in the encoding of the wanted operation.
LEMMA HonestReached ==
    ASSUME WireInv, phase \in {"head", "reading", "read", "loaded", "accepted"},
           Untouched
    PROVE  /\ Good(wanted) /\ args.kind = wanted.kind /\ args.slothash = wanted.slothash
           /\ \E n \in Nat : /\ Holds(data, 1 + n, Taken) /\ at = 1 + n + Len(Taken)
                             /\ Holds(data, 1 + n, Closing(wanted))
                             /\ Len(data) = n + Len(Closing(wanted))
           /\ load(wanted.kind, accounts) /\ signer_of(wanted.kind, accounts) = wanted.signer
           /\ Passed(wanted.listed, listed_of(wanted.kind, accounts))
<1>1. phase \notin {"build", "refused"} /\ Reached /\ Typed
  BY DEF WireInv
<1>2. /\ Good(wanted)
      /\ load(wanted.kind, accounts) /\ signer_of(wanted.kind, accounts) = wanted.signer
      /\ Passed(wanted.listed, listed_of(wanted.kind, accounts))
  BY <1>1, HonestSent
<1>3. PICK n \in Nat : /\ Opens(data, wanted.kind, wanted.slothash, n)
                       /\ Holds(data, 1 + n, Closing(wanted))
                       /\ Len(data) = n + Len(Closing(wanted))
  BY <1>1, HonestSent
<1>4. PICK m \in 1..Len(data) : /\ Opens(data, args.kind, args.slothash, m)
                                /\ Holds(data, 1 + m, Taken) /\ at = 1 + m + Len(Taken)
  BY <1>1 DEF Reached, Reaches
<1>5. /\ data \in Seq(Byte) /\ args.kind \in Kinds /\ args.slothash \in Word
      /\ wanted.kind \in Kinds /\ wanted.slothash \in Word
      /\ (args.kind = SESSIONED => args.slothash = 0) /\ (wanted.kind = SESSIONED => wanted.slothash = 0)
  BY <1>1, <1>2 DEF Typed, Arguments, Good, IsOperation, Kinds
<1>6. args.kind = wanted.kind /\ m = n /\ (args.kind # SESSIONED => args.slothash = wanted.slothash)
  BY <1>3, <1>4, <1>5, OpeningUnique
<1>7. args.slothash = wanted.slothash
  BY <1>5, <1>6
<1>. QED  BY <1>2, <1>3, <1>4, <1>6, <1>7

\* Nothing left to read: the arguments are those of the wanted operation, and
\* all the bytes are used.
LEMMA HonestArguments ==
    ASSUME WireInv, phase \in {"reading", "read", "loaded", "accepted"}, left = 0,
           Untouched
    PROVE  /\ args.kind = wanted.kind /\ args.slothash = wanted.slothash
           /\ args.session = wanted.session /\ args.instructions = wanted.instructions
           /\ at = Len(data) + 1
<1>0. phase \in {"head", "reading", "read", "loaded", "accepted"} /\ phase # "head"
  OBVIOUS
<1>1. Good(wanted) /\ args.kind = wanted.kind /\ args.slothash = wanted.slothash
  BY <1>0, HonestReached
<1>2. PICK n \in Nat : /\ Holds(data, 1 + n, Taken) /\ at = 1 + n + Len(Taken)
                       /\ Holds(data, 1 + n, Closing(wanted))
                       /\ Len(data) = n + Len(Closing(wanted))
  BY <1>0, HonestReached
<1>3. /\ Arguments(args) /\ left \in Byte /\ left + Len(args.instructions) \in Byte
      /\ (args.kind = REFRESH => args.session # {}) /\ data \in Seq(Byte)
  BY DEF WireInv, Typed
<1>4. Good(args) /\ Held(args, left) = Closing(args) /\ Closing(args) \in Seq(Byte)
  BY <1>3, HeldType
<1>5. Taken = Closing(args)
  BY <1>0, <1>4 DEF Taken
<1> DEFINE p == 1 + n
<1>6. p \in Nat \ {0} /\ Holds(data, p, Closing(args)) /\ Holds(data, p, Closing(wanted))
  BY <1>2, <1>5
<1> HIDE DEF p
<1>7. args.session = wanted.session /\ args.instructions = wanted.instructions
  <2>1. CASE wanted.kind \in {INITIALIZE, REFRESH}
    <3>1. args.session = wanted.session
      BY <1>1, <1>3, <1>4, <1>6, <2>1, HonestSession
    <3>2. args.instructions = <<>> /\ wanted.instructions = <<>>
      BY <1>1, <1>4, <2>1 DEF Good, IsOperation, INITIALIZE, REFRESH, EXECUTE, SESSIONED
    <3>. QED  BY <3>1, <3>2
  <2>2. CASE wanted.kind \in {EXECUTE, SESSIONED}
    <3>1. args.session = {} /\ wanted.session = {}
      BY <1>1, <1>4, <2>2 DEF Good, IsOperation
    <3> DEFINE s == args.instructions
               t == wanted.instructions
    <3>2. s \in Seq(Fitting) /\ Len(s) \in Byte /\ t \in Seq(Fitting) /\ Len(t) \in Byte /\ Len(s) \in Nat /\ Len(t) \in Nat
      BY <1>1, <1>4, LenProperties DEF Good
    <3>3. Closing(wanted) = serialize_instructions(t) /\ Closing(args) = serialize_instructions(s)
      BY <1>1, <2>2 DEF Closing
    <3> HIDE DEF s, t
    <3>4. left + Len(s) = Len(s) /\ left + Len(s) \in Byte /\ left \in Nat
      BY <3>2
    <3>5. Holds(data, p, <<left + Len(s)>> \o Body(s)) /\ Holds(data, p, serialize_instructions(t))
      BY <1>6, <3>2, <3>3, <3>4, SerializeInstructions
    <3>6. left + Len(s) = Len(t) /\ s = Upto(t, Len(s))
      <4> DEFINE z == left
                 b == data
      <4>1. /\ z \in Nat /\ z + Len(s) \in Byte /\ b \in Seq(Byte)
            /\ Holds(b, p, <<z + Len(s)>> \o Body(s)) /\ Holds(b, p, serialize_instructions(t))
        BY <1>3, <3>4, <3>5
      <4> HIDE DEF z, b
      <4>2. z + Len(s) = Len(t) /\ s = Upto(t, Len(s))
        BY <1>6, <3>2, <4>1, HonestInstructions
      <4>. QED  BY <4>2 DEF z
    <3>7. Len(s) = Len(t) /\ Len(t) \in 0..Len(t)
      BY <3>2, <3>4, <3>6
    <3>8. Upto(t, Len(t)) = t
      BY <3>2, <3>7, UptoFacts
    <3>9. s = t
      BY <3>6, <3>7, <3>8
    <3>. QED  BY <3>1, <3>9 DEF s, t
  <2>. QED  BY <1>1, <2>1, <2>2 DEF Good, IsOperation
<1>8. Closing(args) = Closing(wanted)
  <2> DEFINE C(k, e, i) == IF k \in {EXECUTE, SESSIONED} THEN serialize_instructions(i)
                           ELSE IF k = REFRESH THEN serialize_session_key(CHOOSE s \in e : TRUE)
                           ELSE serialize_option(e)
  <2>1. /\ Closing(args) = C(args.kind, args.session, args.instructions)
        /\ Closing(wanted) = C(wanted.kind, wanted.session, wanted.instructions)
    BY Zenon DEF Closing
  <2> HIDE DEF C
  <2>. QED  BY <1>1, <1>7, <2>1, Zenon
<1>9. at = Len(data) + 1
  <2>1. Len(Closing(args)) \in Nat
    BY <1>4, LenProperties
  <2>. QED  BY <1>2, <1>5, <1>8, <2>1
<1>. QED  BY <1>1, <1>7, <1>9

\* A failure keeps the invariant unless it hits an honest instruction.
LEMMA FailStep ==
    ASSUME WireInv, Fail, phase \notin {"build", "refused"},
           Untouched => Refusable
    PROVE  WireInv'
<1>1. Typed'
  BY DEF WireInv, Typed, Fail
<1>2. SentByClient'
  BY DEF WireInv, SentByClient, Fail
<1>3. phase' = "failed" /\ HonestFailure'
  BY DEF Fail, HonestFailure, Untouched, Refusable
<1>. QED  BY <1>1, <1>2, <1>3 DEF WireInv

\* Whatever the relayer sends, if it is bytes and accounts.
LEMMA DeliverStep ==
    ASSUME WireInv, NEW list \in Seq(AccountInfo), Len(list) < BASE + 4, Deliver(list),
           data' \in Seq(Byte)
    PROVE  WireInv'
<1>a. accounts' \in Seq(AccountInfo) /\ Len(accounts') < BASE + 4
  <2>1. PICK m \in Elsewhere : accounts' = Granted(list, m)
    BY DEF Deliver
  <2>. QED  BY <2>1, GrantedPasses DEF Passed
<1>0. phase = "sent" /\ phase' = "delivered" /\ NothingRead /\ Typed /\ SentByClient
  BY DEF WireInv, Deliver
<1>1. NothingRead'
  BY <1>0 DEF Deliver, NothingRead
<1>2. SentByClient'
  BY <1>0 DEF SentByClient, Deliver
<1>3. Typed'
  <2>1. at' = 1 /\ Len(data') \in Nat
    BY <1>1, LenProperties DEF NothingRead
  <2>2. at' \in 1..(Len(data') + 1)
    BY <2>1
  <2>. QED  BY <1>0, <1>a, <2>2 DEF Typed, Deliver
<1>4. HonestFailure'
  BY <1>0 DEF HonestFailure
<1>. QED  BY <1>0, <1>1, <1>2, <1>3, <1>4 DEF WireInv

\* In the first state nothing is built, sent or read.
LEMMA InitStep == WireInit => WireInv
<1> SUFFICES ASSUME WireInit PROVE WireInv
  OBVIOUS
<1>1. Typed
  <2>1. Arguments(args) /\ args.instructions = <<>> /\ Len(args.instructions) = 0 /\ 0 \in Byte
    BY NoArgsType DEF WireInit
  <2>2. data = <<>> /\ accounts = <<>> /\ at = 1 /\ left = 0
    BY DEF WireInit
  <2>. QED  BY <2>1, <2>2, BaseAssumption DEF WireInit, Typed
<1>. QED  BY <1>1 DEF WireInit, WireInv, NothingRead, HonestFailure

\* Building keeps the invariant: what is sent is what a builder made.
LEMMA BuildStep == WireInv /\ Build => WireInv'
<1> SUFFICES ASSUME WireInv, Build PROVE WireInv'
  OBVIOUS
<1>0. phase = "build" /\ NothingRead /\ Typed /\ UNCHANGED <<wanted, args, at, left>>
  BY DEF WireInv, Build
<1>1. NothingRead'
  BY <1>0 DEF NothingRead
<1>2. CASE ~Fits(wanted)
  <2>1. phase' = "refused" /\ UNCHANGED <<sent, data, accounts>>
    BY <1>2 DEF Build
  <2>2. Typed'
    BY <1>0, <2>1 DEF Typed
  <2>. QED  BY <1>1, <2>1, <2>2 DEF WireInv, HonestFailure
<1>3. CASE Fits(wanted)
  <2>0. <<>> \in Extras /\ <<1>> \in Extras
    BY BaseAssumption DEF Extras, Byte
  <2>1. PICK scheme \in {0, 1}, extra \in {<<>>, <<1>>} : sent' = Instruction(wanted, scheme, extra)
    BY <1>3 DEF Build
  <2>2. data' = sent'.data /\ accounts' = sent'.accounts /\ phase' = "sent"
    BY <1>3 DEF Build
  <2>3. extra \in Extras /\ wanted \in Operations
    BY <1>0, <2>0 DEF Typed
  <2>4. data' \in Seq(Byte) /\ accounts' \in Seq(AccountInfo) /\ Len(accounts') < BASE + 4
    BY <1>3, <2>1, <2>2, <2>3, SentTypes
  <2>5. SentByClient'
    <3>1. Fits(wanted')
      BY <1>0, <1>3
    <3>2. \E c \in {0, 1}, e \in Extras : sent' = Instruction(wanted', c, e)
      BY <1>0, <2>1, <2>3
    <3>. QED  BY <3>1, <3>2 DEF SentByClient
  <2>6. Typed'
    <3>1. at' = 1 /\ Len(data') \in Nat
      BY <1>1, <2>4, LenProperties DEF NothingRead
    <3>2. at' \in 1..(Len(data') + 1)
      BY <3>1
    <3>. QED  BY <1>0, <2>2, <2>4, <3>2 DEF Typed
  <2>. QED  BY <1>1, <2>2, <2>5, <2>6 DEF WireInv, HonestFailure
<1>. QED  BY <1>2, <1>3

\* Forwarding, damaging, relisting and swapping keep the invariant.
LEMMA RelayStep == WireInv /\ (Forward \/ Damage \/ Relist \/ Swap) => WireInv'
<1> SUFFICES ASSUME WireInv, Forward \/ Damage \/ Relist \/ Swap PROVE WireInv'
  OBVIOUS
<1>0. data \in Seq(Byte) /\ accounts \in Seq(AccountInfo) /\ Len(accounts) < BASE + 4
      /\ Len(data) \in Nat /\ Len(accounts) \in Nat
  BY LenProperties DEF WireInv, Typed
<1>1. CASE Forward
  BY <1>0, <1>1, DeliverStep DEF Forward
<1>2. CASE Damage
  <2>1. data' \in Seq(Byte)
    <3>1. CASE data' = SubSeq(data, 1, Len(data) - 1)
      BY <1>0, <3>1
    <3>2. CASE \E b \in Byte : data' = Append(data, b)
      BY <1>0, <3>2, AppendProperties
    <3>3. CASE \E i \in DOMAIN data, b \in Byte : data' = [data EXCEPT ![i] = b]
      <4>1. PICK i \in DOMAIN data, b \in Byte : data' = [data EXCEPT ![i] = b]
        BY <3>3
      <4>2. i \in 1..Len(data)
        BY <1>0, LenProperties
      <4>. QED  BY <1>0, <4>1, <4>2, ExceptSeq
    <3>. QED  BY <1>2, <3>1, <3>2, <3>3 DEF Damage
  <2>2. Deliver(accounts)
    BY <1>2 DEF Damage
  <2>. QED  BY <1>0, <2>1, <2>2, DeliverStep
<1>3. CASE Relist
  <2>1. PICK list : /\ Deliver(list)
                    /\ \/ list = SubSeq(accounts, 1, Len(accounts) - 1)
                       \/ \E i \in DOMAIN accounts :
                              \/ list = [accounts EXCEPT ![i].is_writable = 1 - @]
                              \/ list = [accounts EXCEPT ![i].is_signer = 1 - @]
    BY <1>3 DEF Relist
  <2>2. list \in Seq(AccountInfo) /\ Len(list) < BASE + 4
    <3>1. CASE list = SubSeq(accounts, 1, Len(accounts) - 1)
      <4>1. list \in Seq(AccountInfo) /\ Len(list) <= Len(accounts) /\ Len(list) \in Nat
        BY <1>0, <3>1
      <4>. QED  BY <1>0, <4>1, BaseAssumption
    <3>2. CASE \E i \in DOMAIN accounts :
                   \/ list = [accounts EXCEPT ![i].is_writable = 1 - @]
                   \/ list = [accounts EXCEPT ![i].is_signer = 1 - @]
      <4>1. PICK i \in DOMAIN accounts :
                   \/ list = [accounts EXCEPT ![i].is_writable = 1 - @]
                   \/ list = [accounts EXCEPT ![i].is_signer = 1 - @]
        BY <3>2
      <4>2. i \in 1..Len(accounts) /\ accounts[i] \in AccountInfo
        BY <1>0, LenProperties, ElementOfSeq
      <4> DEFINE v == [accounts[i] EXCEPT !.is_writable = 1 - @]
                 w == [accounts[i] EXCEPT !.is_signer = 1 - @]
      <4>3. v \in AccountInfo /\ w \in AccountInfo
        BY <4>2 DEF AccountInfo
      <4>4. \E x \in AccountInfo : list = [accounts EXCEPT ![i] = x]
        BY <4>1, <4>3
      <4>. QED  BY <1>0, <4>2, <4>4, ExceptSeq
    <3>. QED  BY <2>1, <3>1, <3>2
  <2>3. data' = data
    BY <1>3 DEF Relist
  <2>. QED  BY <1>0, <2>1, <2>2, <2>3, DeliverStep
<1>4. CASE Swap
  <2>1. PICK o \in {q \in Operations : Fits(q)} : /\ Deliver(Instruction(o, 0, <<>>).accounts)
                                                  /\ data' = Instruction(o, 0, <<>>).data
    BY <1>4 DEF Swap
  <2>2. o \in Operations /\ Fits(o) /\ <<>> \in Extras /\ 0 \in {0, 1}
    BY <2>1, BaseAssumption DEF Extras, Byte
  <2> DEFINE list == Instruction(o, 0, <<>>).accounts
  <2>3. data' \in Seq(Byte) /\ list \in Seq(AccountInfo) /\ Len(list) < BASE + 4
    BY <2>1, <2>2, SentTypes
  <2>4. Deliver(list)
    BY <2>1
  <2> HIDE DEF list
  <2>. QED  BY <2>3, <2>4, DeliverStep
<1>. QED  BY <1>1, <1>2, <1>3, <1>4

\* Dispatching keeps the invariant: behind the head nothing is read, and a
\* head the SDK wrote is never refused.
LEMMA DispatchStep == WireInv /\ Dispatch => WireInv'
<1> SUFFICES ASSUME WireInv, Dispatch PROVE WireInv'
  OBVIOUS
<1>0. phase = "delivered" /\ NothingRead /\ Typed /\ SentByClient
  BY DEF WireInv, Dispatch
<1>1. data \in Seq(Byte) /\ Len(data) \in Nat
  BY <1>0, LenProperties DEF Typed
<1>2. ASSUME Untouched
      PROVE  data # <<>> /\ data[1] \in Kinds /\ read_head(data, 2, data[1]) # {}
  <2>1. /\ Good(wanted)
        /\ \E n \in Nat : Opens(data, wanted.kind, wanted.slothash, n)
    BY <1>0, <1>2, HonestSent
  <2>2. wanted.kind \in Kinds /\ wanted.slothash \in Word
    BY <2>1 DEF Good, IsOperation, Kinds
  <2>3. Len(data) >= 1 /\ data[1] = wanted.kind /\ read_head(data, 2, wanted.kind) # {}
    <3>1. PICK n \in Nat : Opens(data, wanted.kind, wanted.slothash, n)
      BY <2>1
    <3>2. /\ n \in Nat /\ n >= 1 /\ n <= Len(data) /\ data[1] = wanted.kind
          /\ Fields(IF wanted.kind = SESSIONED THEN {} ELSE {wanted.slothash}, 1 + n)
                 \in read_head(data, 2, wanted.kind)
      BY <1>1, <2>2, <3>1, OpensFacts, Zenon
    <3>3. Len(data) >= 1
      BY <1>1, <3>2
    <3>. QED  BY <3>2, <3>3, Zenon
  <2>. QED  BY <1>1, <2>2, <2>3
<1>3. CASE data = <<>> \/ data[1] \notin Kinds
  <2>1. Fail
    BY <1>3 DEF Dispatch, Kinds
  <2>. QED  BY <1>0, <1>2, <1>3, <2>1, FailStep
<1>4. CASE data # <<>> /\ data[1] \in Kinds /\ read_head(data, 2, data[1]) = {}
  <2>1. Fail
    BY <1>4 DEF Dispatch, Kinds
  <2>. QED  BY <1>0, <1>2, <1>4, <2>1, FailStep
<1>5. CASE data # <<>> /\ data[1] \in Kinds /\ read_head(data, 2, data[1]) # {}
  <2> DEFINE k == data[1]
             slot(h) == IF h.value = {} THEN 0 ELSE CHOOSE s \in h.value : TRUE
  <2>1. PICK h \in read_head(data, 2, k) :
            /\ args' = [NoArgs EXCEPT !.kind = k, !.slothash = slot(h)]
            /\ at' = h.at
    BY <1>5 DEF Dispatch, Kinds
  <2>2. phase' = "head" /\ UNCHANGED <<wanted, sent, data, accounts, left>>
    BY <1>5 DEF Dispatch, Kinds
  <2>3. Len(data) >= 1 /\ k \in Kinds
    BY <1>1, <1>5, EmptySeq
  <2>4. PICK s \in Word, scheme \in {0, 1}, extra \in Extras :
            /\ h = Fields(IF k = SESSIONED THEN {} ELSE {s}, 1 + Len(Opening(k, s, scheme, extra)))
            /\ Holds(data, 1, Opening(k, s, scheme, extra))
    BY <1>1, <2>1, <2>3, ReadHead
  <2> DEFINE n == Len(Opening(k, s, scheme, extra))
  <2>5. Opens(data, k, s, n)
    BY <2>4 DEF Opens
  <2>6. n \in 1..Len(data) /\ n \in Nat
    <3> HIDE DEF n
    <3>1. n \in Nat /\ n >= 1 /\ n <= Len(data)
      BY <1>1, <2>3, <2>5, OpensFacts, Zenon
    <3>. QED  BY <1>1, <3>1
  <2>7. slot(h) \in Word /\ Opens(data, k, slot(h), n) /\ (k = SESSIONED => slot(h) = 0) /\ h.at = 1 + n
    <3>1. CASE k = SESSIONED
      <4>1. h.value = {} /\ h.at = 1 + n /\ slot(h) = 0
        BY <2>4, <3>1 DEF Fields
      <4>2. 0 \in Word
        BY BaseAssumption, WordCovers DEF Byte
      <4>3. Opening(k, 0, scheme, extra) = Opening(k, s, scheme, extra)
        BY <3>1 DEF Opening, EXECUTE, SESSIONED
      <4> HIDE DEF n
      <4>4. Opens(data, k, 0, n)
        BY <2>4, <4>3 DEF Opens, n
      <4>. QED  BY <3>1, <4>1, <4>2, <4>4
    <3>2. CASE k # SESSIONED
      <4>1. h.value = {s} /\ h.at = 1 + n
        BY <2>4, <3>2 DEF Fields
      <4>2. slot(h) = s
        BY <4>1
      <4> HIDE DEF slot, n
      <4>. QED  BY <2>5, <3>2, <4>1, <4>2
    <3>. QED  BY <3>1, <3>2
  <2> HIDE DEF slot, n
  <2>8. /\ args'.kind = k /\ args'.slothash = slot(h) /\ args'.session = {}
        /\ args'.instructions = <<>> /\ args'.listed = <<>> /\ Arguments(args')
    <3>1. /\ args'.kind = k /\ args'.slothash = slot(h) /\ args'.session = {}
          /\ args'.instructions = <<>> /\ args'.listed = <<>>
      BY <2>1 DEF NoArgs, Operation
    <3>2. args' \in [kind : Kinds, slothash : Word, signer : Byte, session : SUBSET SessionKey,
                     listed : Seq(AccountInfo), instructions : Seq(Fitting)]
      <4>1. NoArgs \in [kind : Kinds, slothash : Word, signer : Byte, session : SUBSET SessionKey,
                        listed : Seq(AccountInfo), instructions : Seq(Fitting)]
        BY NoArgsType DEF Arguments
      <4>. QED  BY <2>1, <2>3, <2>7, <4>1
    <3>. QED  BY <2>7, <3>1, <3>2 DEF Arguments, Options
  <2>9. Reached'
    <3>1. Taken' = <<>>
      BY <2>2 DEF Taken
    <3>2. Holds(data, 1 + n, <<>>) /\ at' = 1 + n + 0
      BY <1>1, <2>1, <2>6, <2>7 DEF Holds
    <3>3. Len(<<>>) = 0
      OBVIOUS
    <3>4. Reaches(data, k, slot(h), at', <<>>)
      BY <2>6, <2>7, <3>2, <3>3 DEF Reaches
    <3>. QED  BY <2>2, <2>8, <3>1, <3>4 DEF Reached
  <2>10. Typed'
    <3>1. at' \in 1..(Len(data') + 1)
      BY <1>1, <2>1, <2>2, <2>6, <2>7
    <3>2. left = 0 /\ Len(args'.instructions) = 0 /\ 0 \in Byte
      BY <1>0, <2>8, NoArgsType DEF NothingRead
    <3>. QED  BY <1>0, <2>2, <2>8, <3>1, <3>2 DEF Typed
  <2>11. SentByClient' /\ left' = 0
    BY <1>0, <2>2 DEF SentByClient, NothingRead
  <2>. QED  BY <2>2, <2>8, <2>9, <2>10, <2>11 DEF WireInv, HonestFailure
<1>. QED  BY <1>3, <1>4, <1>5

\* Reading the count of instructions keeps the invariant.
LEMMA ReadCountStep == WireInv /\ ReadCount => WireInv'
<1> SUFFICES ASSUME WireInv, ReadCount PROVE WireInv'
  OBVIOUS
<1>0. /\ phase = "head" /\ Typed /\ SentByClient /\ Reached /\ args.kind \in {EXECUTE, SESSIONED}
      /\ args.session = {} /\ args.instructions = <<>> /\ left = 0
  BY DEF WireInv, ReadCount
<1>1. data \in Seq(Byte) /\ Len(data) \in Nat /\ args.kind \in Kinds /\ args.slothash \in Word
  BY <1>0, LenProperties DEF Typed, Arguments
<1>2. Taken = <<>> /\ <<>> \in Seq(Byte) /\ Reaches(data, args.kind, args.slothash, at, <<>>)
  BY <1>0 DEF Taken, Reached
<1>3. at \in Nat \ {0}
  BY <1>1, <1>2, ReachesBounds
<1>4. ASSUME Untouched PROVE read_u8(data, at) # {}
  <2>1. Good(wanted) /\ args.kind = wanted.kind
    BY <1>0, <1>4, HonestReached
  <2>2. PICK n \in Nat : /\ at = 1 + n + Len(Taken) /\ Holds(data, 1 + n, Closing(wanted))
    BY <1>0, <1>4, HonestReached
  <2> DEFINE s == wanted.instructions
             i == <<Len(s)>>
             x == Body(s)
  <2>3. s \in Seq(Fitting) /\ Len(s) \in Byte
    BY <2>1 DEF Good
  <2>4. Closing(wanted) = i \o x /\ i \in Seq(Byte) /\ x \in Seq(Byte)
    BY <1>0, <2>1, <2>3, SerializeInstructions, BodyType DEF Closing
  <2>5. at = 1 + n
    BY <1>2, <2>2
  <2> HIDE DEF i, x
  <2>6. Holds(data, at, i \o x)
    BY <2>2, <2>4, <2>5
  <2>7. Holds(data, at, i)
    BY <1>1, <1>3, <2>4, <2>6, HoldsConcat, Zenon
  <2>8. at <= Len(data)
    BY <1>1, <1>3, <2>7, HoldsOne DEF i
  <2>9. read_u8(data, at) = Read(data[at], at + 1)
    BY <1>1, <1>3, <2>8 DEF read_u8
  <2>10. [value |-> data[at], at |-> at + 1] \in Read(data[at], at + 1)
    BY Zenon DEF Read
  <2>. QED  BY <2>9, <2>10, Zenon
<1>5. CASE read_u8(data, at) = {}
  <2>1. Fail
    BY <1>5 DEF ReadCount
  <2>. QED  BY <1>0, <1>4, <1>5, <2>1, FailStep
<1>6. CASE read_u8(data, at) # {}
  <2>1. PICK r \in read_u8(data, at) : left' = r.value /\ at' = r.at
    BY <1>6 DEF ReadCount
  <2>2. phase' = "reading" /\ UNCHANGED <<wanted, sent, data, accounts, args>>
    BY <1>6 DEF ReadCount
  <2>3. PICK x \in Byte : Decodes(r, data, at, x, <<x>>)
    BY <1>1, <1>3, <2>1, ReadU8
  <2>4. left' = x /\ at' = at + Len(<<x>>) /\ Holds(data, at, <<x>>)
    BY <2>1, <2>3 DEF Decodes
  <2>5. <<x>> \in Seq(Byte) /\ <<>> \o <<x>> = <<x>>
    OBVIOUS
  <2>6. Reaches(data, args.kind, args.slothash, at + Len(<<x>>), <<>> \o <<x>>)
    BY <1>1, <1>2, <2>4, <2>5, ReachesMore
  <2>7. Taken' = <<x>>
    <3>1. Taken' = <<left' + Len(<<>>)>> \o Body(<<>>)
      BY <1>0, <2>2 DEF Taken, Held
    <3>2. left' + Len(<<>>) = x
      BY <2>4, Numbers
    <3>3. Body(<<>>) = <<>>
      BY FlatEmpty DEF Body
    <3>4. <<x>> \o <<>> = <<x>>
      BY <2>5, ConcatEmptySeq
    <3>. QED  BY <3>1, <3>2, <3>3, <3>4
  <2>8. Reached'
    BY <2>2, <2>4, <2>5, <2>6, <2>7 DEF Reached
  <2>9. Typed'
    <3>1. at' \in 1..(Len(data') + 1)
      BY <1>1, <2>2, <2>4, <2>5, <2>6, ReachesBounds
    <3>2. left' + Len(args'.instructions) = x
      BY <1>0, <2>2, <2>4, Numbers
    <3>. QED  BY <1>0, <2>2, <2>4, <3>1, <3>2 DEF Typed
  <2>10. SentByClient' /\ args'.kind # REFRESH
    BY <1>0, <2>2 DEF SentByClient, REFRESH, EXECUTE, SESSIONED
  <2>. QED  BY <2>2, <2>8, <2>9, <2>10 DEF WireInv, HonestFailure
<1>. QED  BY <1>5, <1>6

\* One more instruction is written behind the others.
LEMMA BodyAppend ==
    ASSUME NEW s \in Seq(Fitting), NEW i \in Fitting
    PROVE  /\ Body(Append(s, i)) = Body(s) \o serialize_instruction(i)
           /\ Body(s) \in Seq(Byte) /\ serialize_instruction(i) \in Seq(Byte)
<1>1. InstructionCodes[i] = serialize_instruction(i) /\ InstructionCodes[i] \in Seq(Byte)
  BY InstructionCodesType DEF InstructionCodes
<1>2. Flat(InstructionCodes, Append(s, i)) = Flat(InstructionCodes, s) \o InstructionCodes[i]
  BY InstructionCodesType, FlatAppend
<1>. QED  BY <1>1, <1>2, BodyType DEF Body

\* One round of the loop over the instructions keeps the invariant.
LEMMA ReadInstructionStep == WireInv /\ ReadInstruction => WireInv'
<1> SUFFICES ASSUME WireInv, ReadInstruction PROVE WireInv'
  OBVIOUS
<1>0. phase = "reading" /\ Typed /\ SentByClient /\ Reached /\ left > 0
      /\ (args.kind = REFRESH => args.session # {})
  BY DEF WireInv, ReadInstruction
<1>1. /\ data \in Seq(Byte) /\ Len(data) \in Nat /\ args.kind \in Kinds /\ args.slothash \in Word
      /\ Arguments(args) /\ left \in Byte /\ left + Len(args.instructions) \in Byte
      /\ left \in Nat /\ args.instructions \in Seq(Fitting) /\ Len(args.instructions) \in Nat
  BY <1>0, LenProperties, Numbers DEF Typed, Arguments
<1>2. Taken = Held(args, left) /\ Held(args, left) \in Seq(Byte)
  BY <1>0, <1>1, HeldType DEF Taken
<1>3. Reaches(data, args.kind, args.slothash, at, Held(args, left)) /\ at \in Nat \ {0}
  <2>1. Reaches(data, args.kind, args.slothash, at, Held(args, left))
    BY <1>0, <1>2 DEF Reached
  <2>. QED  BY <1>1, <1>2, <2>1, ReachesBounds
<1>4. ASSUME Untouched PROVE read_instruction(data, at) # {}
  <2>1. Good(wanted) /\ args.kind = wanted.kind
    BY <1>0, <1>4, HonestReached
  <2>2. PICK n \in Nat : /\ Holds(data, 1 + n, Held(args, left)) /\ at = 1 + n + Len(Held(args, left))
                         /\ Holds(data, 1 + n, Closing(wanted))
    BY <1>0, <1>2, <1>4, HonestReached
  <2>3. args.kind \in {EXECUTE, SESSIONED}
    BY <1>0 DEF Typed
  <2> DEFINE p == 1 + n
             b == data
             z == left
             s == args.instructions
             t == wanted.instructions
  <2>4. t \in Seq(Fitting) /\ Len(t) \in Byte
    BY <2>1 DEF Good
  <2>5. /\ Held(args, left) = <<z + Len(s)>> \o Body(s)
        /\ Closing(wanted) = serialize_instructions(t)
    BY <2>1, <2>3 DEF Held, Closing
  <2>6. /\ p \in Nat \ {0} /\ z \in Nat /\ z > 0 /\ b \in Seq(Byte) /\ s \in Seq(Fitting)
        /\ z + Len(s) \in Byte /\ Holds(b, p, <<z + Len(s)>> \o Body(s))
        /\ Holds(b, p, serialize_instructions(t))
    BY <1>0, <1>1, <2>2, <2>5
  <2>7. at = p + Len(<<z + Len(s)>> \o Body(s))
    BY <2>2, <2>5
  <2> HIDE DEF p, b, z, s, t
  <2>8. /\ t[Len(s) + 1] \in Fitting
        /\ Holds(b, p + Len(<<z + Len(s)>> \o Body(s)), serialize_instruction(t[Len(s) + 1]))
    BY <2>4, <2>6, HonestInstructions
  <2> DEFINE i == t[Len(s) + 1]
             r == [value |-> i, at |-> at + Len(serialize_instruction(i))]
  <2>9. i \in Fitting /\ Decodes(r, data, at, i, serialize_instruction(i))
    BY <2>7, <2>8 DEF Decodes, b
  <2> HIDE DEF i, r
  <2>10. r \in read_instruction(data, at)
    BY <1>1, <1>3, <2>9, ReadInstructionBack, Zenon
  <2>. QED  BY <2>10
<1>5. CASE read_instruction(data, at) = {}
  <2>1. Fail
    BY <1>5 DEF ReadInstruction
  <2>. QED  BY <1>0, <1>4, <1>5, <2>1, FailStep
<1>6. CASE read_instruction(data, at) # {}
  <2>1. PICK r \in read_instruction(data, at) :
            /\ args' = [args EXCEPT !.instructions = Append(@, r.value)]
            /\ at' = r.at
    BY <1>6 DEF ReadInstruction
  <2>2. left' = left - 1 /\ UNCHANGED <<wanted, phase, sent, data, accounts>>
    BY <1>6 DEF ReadInstruction
  <2>3. PICK i \in Fitting : Decodes(r, data, at, i, serialize_instruction(i))
    BY <1>1, <1>3, <2>1, ReadInstructionBack, Zenon
  <2>k. args.kind \in {EXECUTE, SESSIONED}
    BY <1>0 DEF Typed
  <2> DEFINE c == serialize_instruction(i)
             s == args.instructions
             u == Append(s, i)
  <2>4. r.value = i /\ at' = at + Len(c) /\ Holds(data, at, c)
    BY <2>1, <2>3 DEF Decodes
  <2>5. args' = [args EXCEPT !.instructions = u]
    BY <2>1, <2>4
  <2>6. u \in Seq(Fitting) /\ Len(u) = Len(s) + 1
    BY <1>1, AppendProperties
  <2>7. Body(u) = Body(s) \o c /\ Body(s) \in Seq(Byte) /\ c \in Seq(Byte)
    BY <1>1, BodyAppend
  <2> HIDE DEF c, u
  <2>8. /\ args'.kind = args.kind /\ args'.slothash = args.slothash /\ args'.instructions = u
        /\ args'.session = args.session
        /\ Arguments(args')
    <3>1. /\ args'.kind = args.kind /\ args'.slothash = args.slothash /\ args'.instructions = u
          /\ args'.session = args.session /\ args'.listed = args.listed
      BY <1>1, <2>5 DEF Arguments
    <3>2. args' \in [kind : Kinds, slothash : Word, signer : Byte, session : SUBSET SessionKey,
                     listed : Seq(AccountInfo), instructions : Seq(Fitting)]
      BY <1>1, <2>5, <2>6 DEF Arguments
    <3>. QED  BY <1>1, <2>k, <3>1, <3>2 DEF Arguments
  <2>9. left' + Len(u) = left + Len(s) /\ left' \in Byte
    <3>1. left \in Byte /\ left > 0 /\ left' = left - 1
      BY <1>0, <1>1, <2>2
    <3>2. Len(s) \in Nat /\ Len(u) = Len(s) + 1
      BY <1>1, <2>6, LenProperties
    <3> HIDE DEF s
    <3>. QED  BY <3>1, <3>2, BaseAssumption DEF Byte
  <2>10. Taken' = Held(args, left) \o c
    <3> DEFINE d == <<left + Len(s)>>
    <3>1. Held(args, left) = d \o Body(s)
      BY <2>k DEF Held
    <3>2. Taken' = <<left' + Len(u)>> \o Body(u)
      BY <1>0, <2>2, <2>k, <2>8 DEF Taken, Held
    <3>3. d \in Seq(Byte)
      BY <1>1
    <3>4. <<left' + Len(u)>> = d
      BY <2>9
    <3> HIDE DEF d
    <3>5. Taken' = d \o (Body(s) \o c)
      BY <2>7, <3>2, <3>4
    <3>6. d \o (Body(s) \o c) = (d \o Body(s)) \o c
      <4> DEFINE x == Body(s)
      <4>1. x \in Seq(Byte) /\ c \in Seq(Byte)
        BY <2>7
      <4> HIDE DEF x
      <4>2. d \o (x \o c) = (d \o x) \o c
        BY <3>3, <4>1
      <4>. QED  BY <4>2 DEF x
    <3>. QED  BY <3>1, <3>5, <3>6
  <2> DEFINE h == Held(args, left)
  <2>11. Reaches(data, args.kind, args.slothash, at + Len(c), h \o c) /\ h \o c \in Seq(Byte)
    <3>1. h \in Seq(Byte) /\ Reaches(data, args.kind, args.slothash, at, h)
      BY <1>2, <1>3
    <3> HIDE DEF h
    <3>2. Reaches(data, args.kind, args.slothash, at + Len(c), h \o c)
      BY <1>1, <2>4, <2>7, <3>1, ReachesMore
    <3>. QED  BY <2>7, <3>1, <3>2, ConcatProperties
  <2>12. Reached'
    BY <2>2, <2>4, <2>8, <2>10, <2>11 DEF Reached
  <2>13. Typed'
    <3>1. at' \in 1..(Len(data') + 1)
      BY <1>1, <2>2, <2>4, <2>11, ReachesBounds
    <3>2. left' + Len(args'.instructions) \in Byte /\ args'.kind \in {EXECUTE, SESSIONED}
      BY <1>1, <2>8, <2>9, <2>k
    <3>. QED  BY <1>0, <2>2, <2>8, <2>9, <3>1, <3>2 DEF Typed
  <2>14. SentByClient'
    BY <1>0, <2>2 DEF SentByClient
  <2>. QED  BY <1>0, <2>2, <2>8, <2>12, <2>13, <2>14 DEF WireInv, HonestFailure
<1>. QED  BY <1>5, <1>6

\* Reading the session key keeps the invariant.
LEMMA ReadSessionStep == WireInv /\ ReadSession => WireInv'
<1> SUFFICES ASSUME WireInv, ReadSession PROVE WireInv'
  OBVIOUS
<1>0. /\ phase = "head" /\ Typed /\ SentByClient /\ Reached /\ args.kind \in {INITIALIZE, REFRESH}
      /\ args.session = {} /\ args.instructions = <<>> /\ left = 0
  BY DEF WireInv, ReadSession
<1>1. /\ data \in Seq(Byte) /\ Len(data) \in Nat /\ args.kind \in Kinds /\ args.slothash \in Word
      /\ Arguments(args) /\ args.kind \notin {EXECUTE, SESSIONED}
  BY <1>0, LenProperties DEF Typed, Arguments, INITIALIZE, REFRESH, EXECUTE, SESSIONED
<1>2. Taken = <<>> /\ <<>> \in Seq(Byte) /\ Reaches(data, args.kind, args.slothash, at, <<>>)
  BY <1>0 DEF Taken, Reached
<1>3. at \in Nat \ {0}
  BY <1>1, <1>2, ReachesBounds
<1> DEFINE session == IF args.kind = REFRESH THEN read_session_key(data, at) ELSE read_option(data, at)
           code(o) == IF args.kind = REFRESH THEN serialize_session_key(CHOOSE s \in o : TRUE)
                      ELSE serialize_option(o)
<1>4. ASSUME NEW r
      PROVE  r \in session <=> \E o \in Options : /\ args.kind = REFRESH => o # {}
                                                  /\ Decodes(r, data, at, o, code(o))
  <2>1. CASE args.kind = REFRESH
    <3>1. r \in session <=> \E s \in SessionKey : Decodes(r, data, at, {s}, serialize_session_key(s))
      BY <1>1, <1>3, <2>1, ReadSessionKey
    <3>2. ASSUME NEW s \in SessionKey
          PROVE  {s} \in Options /\ {s} # {} /\ code({s}) = serialize_session_key(s)
      BY <2>1 DEF Options
    <3>3. ASSUME NEW o \in Options, o # {} PROVE \E s \in SessionKey : o = {s}
      BY <3>3 DEF Options
    <3> HIDE DEF session, code
    <3>4. ASSUME NEW s \in SessionKey, Decodes(r, data, at, {s}, serialize_session_key(s))
          PROVE  \E o \in Options : (args.kind = REFRESH => o # {}) /\ Decodes(r, data, at, o, code(o))
      <4>1. {s} \in Options /\ {s} # {} /\ Decodes(r, data, at, {s}, code({s}))
        BY <3>2, <3>4
      <4>. QED  BY <4>1, Zenon
    <3>5. ASSUME NEW o \in Options, o # {}, Decodes(r, data, at, o, code(o))
          PROVE  \E s \in SessionKey : Decodes(r, data, at, {s}, serialize_session_key(s))
      <4>1. PICK s \in SessionKey : o = {s}
        BY <3>3, <3>5
      <4>2. Decodes(r, data, at, {s}, serialize_session_key(s))
        BY <3>2, <3>5, <4>1
      <4>. QED  BY <4>2
    <3>. QED  BY <2>1, <3>1, <3>4, <3>5
  <2>2. CASE args.kind # REFRESH
    BY <1>1, <1>3, <2>2, ReadOption
  <2>. QED  BY <2>1, <2>2
<1>5. ASSUME NEW a, a.kind = args.kind PROVE Closing(a) = code(a.session)
  <2>1. a.kind \notin {EXECUTE, SESSIONED}
    BY <1>1, <1>5
  <2> DEFINE c == CHOOSE s \in a.session : TRUE
             k == serialize_session_key(c)
  <2>2. Closing(a) = IF a.kind \in {EXECUTE, SESSIONED} THEN serialize_instructions(a.instructions)
                     ELSE IF a.kind = REFRESH THEN k ELSE serialize_option(a.session)
    BY Zenon DEF Closing
  <2>3. code(a.session) = IF args.kind = REFRESH THEN k ELSE serialize_option(a.session)
    BY Zenon
  <2> HIDE DEF c, k, code
  <2>. QED  BY <1>5, <2>1, <2>2, <2>3
<1> HIDE DEF code
<1>6. ASSUME Untouched PROVE session # {}
  <2>1. Good(wanted) /\ args.kind = wanted.kind
    BY <1>0, <1>6, HonestReached
  <2>2. PICK n \in Nat : at = 1 + n + Len(Taken) /\ Holds(data, 1 + n, Closing(wanted))
    BY <1>0, <1>6, HonestReached
  <2>3. at = 1 + n
    BY <1>2, <2>2
  <2>4. wanted.session \in Options /\ (args.kind = REFRESH => wanted.session # {})
    BY <2>1, SessionOption DEF Good, IsOperation
  <2> DEFINE r == [value |-> wanted.session, at |-> at + Len(code(wanted.session))]
  <2>5. Decodes(r, data, at, wanted.session, code(wanted.session))
    BY <1>5, <2>1, <2>2, <2>3 DEF Decodes
  <2> HIDE DEF r, session
  <2>6. r \in session
    BY <1>4, <2>4, <2>5
  <2>. QED  BY <2>6
<1>7. CASE session = {}
  <2>1. Fail
    BY <1>7 DEF ReadSession
  <2> HIDE DEF session
  <2>. QED  BY <1>0, <1>6, <1>7, <2>1, FailStep
<1>8. CASE session # {}
  <2>1. PICK r \in session : args' = [args EXCEPT !.session = r.value] /\ at' = r.at
    BY <1>8 DEF ReadSession
  <2>2. phase' = "reading" /\ UNCHANGED <<wanted, sent, data, accounts, left>>
    BY <1>8 DEF ReadSession
  <2> HIDE DEF session
  <2>3. PICK o \in Options : /\ args.kind = REFRESH => o # {}
                             /\ Decodes(r, data, at, o, code(o))
    BY <1>4, <2>1
  <2>4. r.value = o /\ at' = at + Len(code(o)) /\ Holds(data, at, code(o))
    BY <2>1, <2>3 DEF Decodes
  <2>5. /\ args'.kind = args.kind /\ args'.slothash = args.slothash /\ args'.instructions = <<>>
        /\ args'.session = o /\ Arguments(args')
    <3>0. o \in SUBSET SessionKey
      BY DEF Options
    <3>1. /\ args'.kind = args.kind /\ args'.slothash = args.slothash
          /\ args'.instructions = args.instructions
          /\ args'.session = o /\ args'.listed = args.listed
      BY <1>1, <2>1, <2>4 DEF Arguments
    <3>2. args' \in [kind : Kinds, slothash : Word, signer : Byte, session : SUBSET SessionKey,
                     listed : Seq(AccountInfo), instructions : Seq(Fitting)]
      BY <1>1, <2>1, <2>4, <3>0 DEF Arguments
    <3>. QED  BY <1>0, <1>1, <3>1, <3>2 DEF Arguments
  <2>6. Taken' = code(o)
    <3>1. Taken' = Closing(args')
      BY <1>1, <2>2, <2>5 DEF Taken, Held
    <3>2. Closing(args') = code(args'.session)
      BY <1>5, <2>5
    <3>. QED  BY <2>5, <3>1, <3>2
  <2>7. code(o) \in Seq(Byte) /\ <<>> \o code(o) = code(o)
    <3>1. code(o) \in Seq(Byte)
      <4>1. Good(args')
        <5>1. 0 \in Byte /\ 0 + Len(args'.instructions) \in Byte
          BY <2>5, NoArgsType
        <5>. QED  BY <2>3, <2>5, <5>1, HeldType
      <4>2. Closing(args') = code(o)
        BY <1>5, <2>5
      <4>. QED  BY <4>1, <4>2, ClosingCode
    <3>. QED  BY <3>1, ConcatEmptySeq
  <2>8. Reaches(data, args.kind, args.slothash, at + Len(code(o)), <<>> \o code(o))
    BY <1>1, <1>2, <2>4, <2>7, ReachesMore
  <2>9. Reached'
    BY <2>2, <2>4, <2>5, <2>6, <2>7, <2>8 DEF Reached
  <2>10. Typed'
    <3>1. at' \in 1..(Len(data') + 1)
      BY <1>1, <2>2, <2>4, <2>7, <2>8, ReachesBounds
    <3>2. left' = 0 /\ Len(args'.instructions) = 0 /\ 0 \in Byte
      BY <1>0, <2>2, <2>5, NoArgsType
    <3>. QED  BY <1>0, <2>2, <2>5, <3>1, <3>2 DEF Typed
  <2>11. SentByClient' /\ (args'.kind = REFRESH => args'.session # {})
    BY <1>0, <2>2, <2>3, <2>5 DEF SentByClient
  <2>. QED  BY <2>2, <2>9, <2>10, <2>11 DEF WireInv, HonestFailure
<1>. QED  BY <1>7, <1>8

\* try_from_slice keeps the invariant: all bytes are used, or it fails.
LEMMA FinishStep == WireInv /\ Finish => WireInv'
<1> SUFFICES ASSUME WireInv, Finish PROVE WireInv'
  OBVIOUS
<1>0. /\ phase = "reading" /\ Typed /\ SentByClient /\ Reached /\ left = 0
      /\ (args.kind = REFRESH => args.session # {})
  BY DEF WireInv, Finish
<1>1. CASE ~all_read(data, at)
  <2>1. Fail
    BY <1>1 DEF Finish
  <2>2. ~Untouched
    BY <1>0, <1>1, HonestArguments DEF all_read
  <2>. QED  BY <1>0, <2>1, <2>2, FailStep
<1>2. CASE all_read(data, at)
  <2>1. phase' = "read" /\ UNCHANGED <<wanted, sent, data, accounts, args, at, left>>
    BY <1>2 DEF Finish
  <2>2. Typed' /\ SentByClient'
    BY <1>0, <2>1 DEF Typed, SentByClient
  <2>3. Reached'
    BY <1>0, <2>1 DEF Reached, Taken
  <2>4. left' = 0 /\ at' = Len(data') + 1
    BY <1>0, <1>2, <2>1 DEF all_read
  <2>. QED  BY <1>0, <2>1, <2>2, <2>3, <2>4 DEF WireInv, HonestFailure
<1>. QED  BY <1>1, <1>2

\* What a handler loads is typed.
LEMMA AccountFacts ==
    ASSUME NEW k \in Kinds, NEW a \in Seq(AccountInfo), load(k, a)
    PROVE  /\ signer_of(k, a) \in Byte /\ listed_of(k, a) \in Seq(AccountInfo)
           /\ k \notin {EXECUTE, SESSIONED} => listed_of(k, a) = <<>>
<1>0. Len(a) \in Nat /\ fixed(k) \in {2, 4, 5} /\ Len(a) >= fixed(k)
  BY LenProperties DEF fixed, load
<1>1. ASSUME NEW i \in 1..Len(a) PROVE a[i].key \in Byte
  <2>1. a[i] \in AccountInfo
    BY ElementOfSeq
  <2>. QED  BY <2>1 DEF AccountInfo
<1>2. signer_of(k, a) \in Byte
  <2>1. CASE k \in {INITIALIZE, SESSIONED}
    <3>1. 2 \in 1..Len(a)
      BY <1>0
    <3>. QED  BY <1>1, <2>1, <3>1 DEF signer_of
  <2>2. CASE k \notin {INITIALIZE, SESSIONED}
    <3>1. fixed(k) = 4
      BY <2>2 DEF fixed
    <3>2. 4 \in 1..Len(a)
      BY <1>0, <3>1
    <3>. QED  BY <1>1, <2>2, <3>2 DEF signer_of
  <2>. QED  BY <2>1, <2>2
<1>3. CASE k \notin {EXECUTE, SESSIONED}
  BY <1>0, <1>2, <1>3 DEF listed_of
<1>4. CASE k \in {EXECUTE, SESSIONED}
  <2> DEFINE l == SubSeq(a, fixed(k) + 1, Len(a))
  <2>1. listed_of(k, a) = l
    BY <1>4 DEF listed_of
  <2>2. l \in Seq(AccountInfo) /\ Len(l) = Len(a) - fixed(k)
    BY <1>0
  <2> HIDE DEF l
  <2>. QED  BY <1>2, <1>4, <2>1, <2>2
<1>. QED  BY <1>3, <1>4

\* Loading the accounts keeps the invariant: the signer and the listed
\* accounts are those of the transaction.
LEMMA LoadStep == WireInv /\ LoadAccounts => WireInv'
<1> SUFFICES ASSUME WireInv, LoadAccounts PROVE WireInv'
  OBVIOUS
<1>0. /\ phase = "read" /\ Typed /\ SentByClient /\ Reached /\ left = 0 /\ at = Len(data) + 1
      /\ (args.kind = REFRESH => args.session # {})
  BY DEF WireInv, LoadAccounts
<1>1. CASE ~load(args.kind, accounts)
  <2>1. Fail
    BY <1>1 DEF LoadAccounts
  <2>2. ~Untouched
    BY <1>0, <1>1, HonestReached
  <2>. QED  BY <1>0, <2>1, <2>2, FailStep
<1>2. CASE load(args.kind, accounts)
  <2> DEFINE g == signer_of(args.kind, accounts)
             l == listed_of(args.kind, accounts)
  <2>1. args' = [args EXCEPT !.signer = g, !.listed = l]
    BY <1>2 DEF LoadAccounts
  <2>2. phase' = "loaded" /\ UNCHANGED <<wanted, sent, data, accounts, at, left>>
    BY <1>2 DEF LoadAccounts
  <2>3. Arguments(args) /\ args.kind \in Kinds /\ accounts \in Seq(AccountInfo)
    BY <1>0 DEF Typed, Arguments
  <2>4. g \in Byte /\ l \in Seq(AccountInfo) /\ (args.kind \notin {EXECUTE, SESSIONED} => l = <<>>)
    BY <1>2, <2>3, AccountFacts
  <2> HIDE DEF g, l
  <2>5. /\ args'.kind = args.kind /\ args'.slothash = args.slothash /\ args'.session = args.session
        /\ args'.instructions = args.instructions /\ args'.signer = g /\ args'.listed = l
    BY <2>1, <2>3 DEF Arguments
  <2>6. Arguments(args')
    <3>1. args' \in [kind : Kinds, slothash : Word, signer : Byte, session : SUBSET SessionKey,
                     listed : Seq(AccountInfo), instructions : Seq(Fitting)]
      BY <2>1, <2>3, <2>4 DEF Arguments
    <3>. QED  BY <2>3, <2>4, <2>5, <3>1 DEF Arguments
  <2>7. Typed' /\ SentByClient'
    BY <1>0, <2>2, <2>5, <2>6 DEF Typed, SentByClient
  <2>8. Taken' = Taken
    <3>1. Taken' = Held(args', left) /\ Taken = Held(args, left)
      BY <1>0, <2>2 DEF Taken
    <3>2. ASSUME NEW a, NEW b, a.kind = b.kind, a.session = b.session, a.instructions = b.instructions
          PROVE  Held(a, left) = Held(b, left)
      <4> DEFINE C(k, e, i) == IF k \in {EXECUTE, SESSIONED} THEN serialize_instructions(i)
                               ELSE IF k = REFRESH THEN serialize_session_key(CHOOSE s \in e : TRUE)
                               ELSE serialize_option(e)
      <4>1. Closing(a) = C(a.kind, a.session, a.instructions) /\ Closing(b) = C(b.kind, b.session, b.instructions)
        BY Zenon DEF Closing
      <4> HIDE DEF C
      <4>2. Closing(a) = Closing(b)
        BY <3>2, <4>1, Zenon
      <4>. QED  BY <3>2, <4>2 DEF Held
    <3>3. Held(args', left) = Held(args, left)
      BY <2>5, <3>2
    <3>. QED  BY <3>1, <3>3
  <2>9. Reached'
    BY <1>0, <2>2, <2>5, <2>8 DEF Reached
  <2>10. args'.signer = signer_of(args'.kind, accounts') /\ args'.listed = listed_of(args'.kind, accounts')
    BY <2>2, <2>5 DEF g, l
  <2>. QED  BY <1>0, <2>2, <2>5, <2>7, <2>9, <2>10 DEF WireInv, HonestFailure
<1>. QED  BY <1>1, <1>2

\* What is loaded of an instruction nobody touched is the wanted operation, but
\* for the privileges of the listed accounts.
LEMMA LoadedIsWanted ==
    ASSUME WireInv, phase \in {"loaded", "accepted"}, Untouched
    PROVE  /\ args = [wanted EXCEPT !.listed = args.listed]
           /\ args.listed = listed_of(wanted.kind, accounts) /\ args.kind = wanted.kind
           /\ Passed(wanted.listed, args.listed) /\ IsOperation(wanted)
<1>1. /\ phase \in {"head", "reading", "read", "loaded", "accepted"} /\ left = 0
      /\ phase \in {"reading", "read", "loaded", "accepted"}
      /\ args.signer = signer_of(args.kind, accounts) /\ args.listed = listed_of(args.kind, accounts)
  BY DEF WireInv
<1>2. /\ args.kind = wanted.kind /\ args.slothash = wanted.slothash
      /\ args.session = wanted.session /\ args.instructions = wanted.instructions
  BY <1>1, HonestArguments
<1>3. /\ Good(wanted) /\ signer_of(wanted.kind, accounts) = wanted.signer
      /\ Passed(wanted.listed, listed_of(wanted.kind, accounts))
  BY <1>1, HonestReached
<1>4. args.signer = wanted.signer /\ args.listed = listed_of(wanted.kind, accounts)
  BY <1>1, <1>2, <1>3
<1>5. Arguments(args) /\ IsOperation(wanted)
  BY <1>3 DEF WireInv, Typed, Good
<1>6. args = [wanted EXCEPT !.listed = args.listed]
  BY <1>2, <1>4, <1>5 DEF Arguments, IsOperation
<1>. QED  BY <1>2, <1>3, <1>4, <1>5, <1>6

\* Checking nonce and challenge keeps the invariant.
LEMMA VerifyStep == WireInv /\ Verify => WireInv'
<1> SUFFICES ASSUME WireInv, Verify PROVE WireInv'
  OBVIOUS
<1>0. /\ phase = "loaded" /\ Typed /\ SentByClient /\ Reached /\ left = 0 /\ at = Len(data) + 1
      /\ (args.kind = REFRESH => args.session # {})
      /\ args.signer = signer_of(args.kind, accounts) /\ args.listed = listed_of(args.kind, accounts)
      /\ UNCHANGED <<wanted, sent, data, accounts, args, at, left>>
  BY DEF WireInv, Verify
<1> DEFINE ok == \/ args.kind = SESSIONED
                 \/ /\ wanted.kind # SESSIONED
                    /\ args.slothash \in Recent
                    /\ Payload(args) = Payload(wanted)
<1>1. CASE ~ok
  <2>1. Fail
    BY <1>0, <1>1 DEF Verify, Fail
  <2>2. ASSUME Untouched
        PROVE  Refusable
    <3>1. /\ args = [wanted EXCEPT !.listed = args.listed] /\ args.kind = wanted.kind
          /\ args.listed = listed_of(wanted.kind, accounts) /\ IsOperation(wanted)
      BY <1>0, <2>2, LoadedIsWanted
    <3>2. args.slothash = wanted.slothash
      BY <3>1 DEF IsOperation
    <3>3. args.listed = wanted.listed => args = wanted
      BY <3>1 DEF IsOperation
    <3>. QED  BY <1>1, <3>1, <3>2, <3>3 DEF Refusable
  <2>. QED  BY <1>0, <2>1, <2>2, FailStep
<1>2. CASE ok
  <2>1. phase' = "accepted"
    BY <1>2 DEF Verify
  <2>2. Typed' /\ SentByClient'
    BY <1>0, <2>1 DEF Typed, SentByClient
  <2>3. Reached'
    BY <1>0, <2>1 DEF Reached, Taken
  <2>. QED  BY <1>0, <1>2, <2>1, <2>2, <2>3 DEF WireInv, HonestFailure
<1>. QED  BY <1>1, <1>2

(***************************************************************************)
(* The arguments read so far and the bytes they were read from always say  *)
(* the same, whatever the relayer sends.                                   *)
(***************************************************************************)
THEOREM WireInvariance == WireSpec => []WireInv
<1>1. WireInv /\ UNCHANGED wireVars => WireInv'
  BY DEF WireInv, wireVars, Typed, NothingRead, SentByClient, Reached, Taken, HonestFailure,
         Untouched, Refusable
<1>2. WireInv /\ WireNext => WireInv'
  BY BuildStep, RelayStep, DispatchStep, ReadCountStep, ReadInstructionStep, ReadSessionStep,
     FinishStep, LoadStep, VerifyStep DEF WireNext
<1>. QED  BY InitStep, <1>1, <1>2, PTL DEF WireSpec

(***************************************************************************)
(* The reader keeps its types and never reads past the end of the data.    *)
(***************************************************************************)
THEOREM WireTypes == WireSpec => []WireTypeOK
<1>1. WireInv => WireTypeOK
  <2> SUFFICES ASSUME WireInv PROVE WireTypeOK
    OBVIOUS
  <2>1. Fitting \subseteq CompiledInstruction
    BY DEF Fitting
  <2>2. args.instructions \in Seq(Fitting)
    BY DEF WireInv, Typed, Arguments
  <2>3. args.instructions \in Seq(CompiledInstruction)
    BY <2>1, <2>2, SeqMonotonic
  <2>. QED  BY <2>3 DEF WireInv, Typed, Arguments, Kinds, WireTypeOK
<1>. QED  BY <1>1, WireInvariance, PTL

(***************************************************************************)
(* An instruction nobody touched is read as the operation it was built     *)
(* from, for vectors of every length up to the capacity of their length    *)
(* types and for whatever else is in the transaction.                      *)
(***************************************************************************)
THEOREM WireRoundTrip == WireSpec => []RoundTrip
<1>1. WireInv => RoundTrip
  <2> SUFFICES ASSUME WireInv, phase = "loaded", Untouched PROVE RoundTrip
    BY DEF RoundTrip
  <2>1. /\ args = [wanted EXCEPT !.listed = args.listed]
        /\ Passed(wanted.listed, args.listed) /\ wanted.listed \in Seq(AccountInfo)
    BY LoadedIsWanted DEF IsOperation
  <2>2. DOMAIN wanted.listed = 1..Len(wanted.listed)
    BY <2>1, LenProperties
  <2>. QED  BY <2>1, <2>2 DEF RoundTrip, Passed
<1>. QED  BY <1>1, WireInvariance, PTL

(***************************************************************************)
(* What the program accepts by its challenge is what the passkey signed,   *)
(* whatever bytes and accounts the relayer sent.                           *)
(***************************************************************************)
THEOREM WireApprovalBinds == WireSpec => []ApprovalBinds
<1>1. WireInv => ApprovalBinds
  <2> SUFFICES ASSUME WireInv, phase = "accepted", args.kind # SESSIONED PROVE args = wanted
    BY DEF ApprovalBinds
  <2>1. /\ Typed /\ SentByClient /\ left = 0 /\ (args.kind = REFRESH => args.session # {})
        /\ args.listed = listed_of(args.kind, accounts)
        /\ wanted.kind # SESSIONED /\ Payload(args) = Payload(wanted)
    BY DEF WireInv
  <2>2. Good(args) /\ args.listed \in Seq(AccountInfo)
    BY <2>1, HeldType DEF Typed, Arguments
  <2>3. Len(args.listed) \in Byte
    <3>1. /\ accounts \in Seq(AccountInfo) /\ Len(accounts) \in Nat /\ Len(accounts) < BASE + 4
          /\ args.kind \in {INITIALIZE, EXECUTE, REFRESH}
      BY <2>1, LenProperties DEF Typed, Arguments, Kinds
    <3>2. CASE args.kind = EXECUTE
      <4> DEFINE l == SubSeq(accounts, 5, Len(accounts))
      <4>1. args.listed = l
        BY <2>1, <3>2 DEF listed_of, fixed, INITIALIZE, EXECUTE, SESSIONED
      <4>2. Len(l) \in Nat /\ Len(l) < BASE
        BY <3>1, BaseAssumption
      <4> HIDE DEF l
      <4>. QED  BY <4>1, <4>2, BaseAssumption DEF Byte
    <3>3. CASE args.kind # EXECUTE
      <4>1. args.listed = <<>>
        BY <2>1, <3>3 DEF listed_of
      <4>. QED  BY <4>1, BaseAssumption DEF Byte
    <3>. QED  BY <3>2, <3>3
  <2>4. Good(wanted) /\ Len(wanted.listed) \in Byte
    <3>1. IsOperation(wanted) /\ Fits(wanted) /\ Len(wanted.listed) <= MAX_LISTED
      BY <2>1, OperationsAssumption, AccountsAssumption DEF Typed, SentByClient
    <3>2. Len(wanted.listed) \in Nat
      BY <3>1, LenProperties DEF IsOperation
    <3>. QED  BY <3>1, <3>2, FittingOperation, AccountsAssumption, BaseAssumption DEF Byte
  <2>. QED  BY <2>1, <2>2, <2>3, <2>4, PayloadInjective DEF Signed
<1>. QED  BY <1>1, WireInvariance, PTL

(***************************************************************************)
(* An instruction that arrives as the SDK built it is accepted exactly     *)
(* when its slot is recent and the listed accounts have the privileges     *)
(* that were signed, whatever else the transaction mentions.               *)
(***************************************************************************)
THEOREM WireHonestDelivered == WireSpec => []HonestDelivered
<1>1. WireInv /\ ApprovalBinds => HonestDelivered
  <2> SUFFICES ASSUME WireInv, ApprovalBinds, phase \in {"accepted", "failed"}, Untouched
               PROVE  HonestDelivered
    BY DEF HonestDelivered
  <2>1. CASE phase = "failed"
    BY <2>1 DEF WireInv, HonestFailure, Refusable, HonestDelivered
  <2>2. CASE phase = "accepted"
    <3>1. args.kind = wanted.kind /\ args.listed = listed_of(wanted.kind, accounts)
      BY <2>2, LoadedIsWanted
    <3>2. args.kind # SESSIONED => args = wanted /\ args.slothash \in Recent
      BY <2>2 DEF ApprovalBinds, WireInv
    <3>. QED  BY <2>2, <3>1, <3>2 DEF HonestDelivered
  <2>. QED  BY <2>1, <2>2
<1>. QED  BY <1>1, WireInvariance, WireApprovalBinds, PTL

(***************************************************************************)
(* Accepted data is the encoding of what was read: no other bytes          *)
(* are in it.                                                              *)
(***************************************************************************)
THEOREM WireOneEncoding == WireSpec => []OneEncoding
<1>1. WireInv => OneEncoding
  <2> SUFFICES ASSUME WireInv, phase \in {"read", "loaded", "accepted"}
               PROVE  \E scheme \in {0, 1}, extra \in SeqOf(Byte, BASE - 1) :
                          data = Instruction(args, scheme, extra).data
    BY DEF OneEncoding
  <2>1. /\ Typed /\ Reached /\ left = 0 /\ at = Len(data) + 1 /\ phase # "head"
        /\ (args.kind = REFRESH => args.session # {})
    BY DEF WireInv
  <2>2. Good(args) /\ Taken = Closing(args) /\ data \in Seq(Byte)
    BY <2>1, HeldType DEF Typed, Taken
  <2>3. PICK n \in 1..Len(data) : /\ Opens(data, args.kind, args.slothash, n)
                                  /\ Holds(data, 1 + n, Taken) /\ at = 1 + n + Len(Taken)
    BY <2>1 DEF Reached, Reaches
  <2>4. PICK scheme \in {0, 1}, extra \in Extras :
            /\ Holds(data, 1, Opening(args.kind, args.slothash, scheme, extra))
            /\ n = Len(Opening(args.kind, args.slothash, scheme, extra))
    BY <2>3 DEF Opens
  <2> DEFINE x == Opening(args.kind, args.slothash, scheme, extra)
             z == Closing(args)
  <2>5. args.kind \in Kinds /\ args.slothash \in Word
    BY <2>1 DEF Typed, Arguments
  <2>6. x \in Seq(Byte) /\ z \in Seq(Byte)
    BY <2>2, <2>5, OpeningCode, ClosingCode
  <2>7. Holds(data, 1, x) /\ Holds(data, 1 + Len(x), z) /\ at = 1 + Len(x) + Len(z)
    BY <2>2, <2>3, <2>4
  <2>8. Instruction(args, scheme, extra).data = x \o z
    BY <2>2, InstructionData
  <2> HIDE DEF x, z
  <2>9. Holds(data, 1, x \o z) /\ x \o z \in Seq(Byte) /\ Len(x \o z) = Len(x) + Len(z)
    BY <2>2, <2>6, <2>7, HoldsConcatFirst
  <2>10. Len(data) = Len(x \o z)
    BY <2>1, <2>2, <2>6, <2>7, <2>9, LenProperties
  <2>11. Holds(data, 1, data)
    BY <2>2, HoldsSelf
  <2>12. data = x \o z
    <3>1. PICK p \in Nat \ {0} : p = 1
      OBVIOUS
    <3>2. Holds(data, p, data) /\ Holds(data, p, x \o z)
      BY <2>9, <2>11, <3>1
    <3>. QED  BY <2>2, <2>9, <2>10, <3>2, HoldsUnique
  <2>13. extra \in SeqOf(Byte, BASE - 1)
    <3>1. extra \in [1..Len(extra) -> Byte] /\ Len(extra) \in 0..(BASE - 1)
      BY LenProperties DEF Extras, Byte
    <3>. QED  BY <3>1 DEF SeqOf
  <2>. QED  BY <2>8, <2>12, <2>13
<1>. QED  BY <1>1, WireInvariance, PTL
====
