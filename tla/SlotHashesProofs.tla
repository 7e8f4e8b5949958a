-------------------------- MODULE SlotHashesProofs --------------------------
(***************************************************************************)
(* The nonce lookup is exact, for every modulus, window and sysvar length. *)
(***************************************************************************)
EXTENDS SlotHashes, SequenceTheorems, TLAPS

-----------------------------------------------------------------------------
(* Truncated slots                                                         *)

LEMMA DivMod ==
    ASSUME NEW n \in Nat
    PROVE  /\ n \div MODULUS \in Nat
           /\ n % MODULUS \in 0..(MODULUS - 1)
           /\ n = MODULUS * (n \div MODULUS) + (n % MODULUS)
BY ModulusAssumption, Z3

LEMMA ProductGap ==
    ASSUME NEW m \in Nat, NEW q \in Nat, NEW k \in Nat, q >= k + 1
    PROVE  m * q >= m * k + m
BY Z3

\* Two slots less than MODULUS apart have that distance on the circle.
LEMMA IndexDifference ==
    ASSUME NEW newer \in Nat, NEW older \in Nat,
           older <= newer, newer - older < MODULUS
    PROVE  get_index_difference(TruncatedSlot(newer), TruncatedSlot(older))
                = newer - older
<1> DEFINE q1 == newer \div MODULUS
           q2 == older \div MODULUS
           r1 == newer % MODULUS
           r2 == older % MODULUS
<1> MODULUS \in Nat \ {0}
    BY ModulusAssumption
<1>1. /\ q1 \in Nat /\ q2 \in Nat
      /\ r1 \in 0..(MODULUS - 1) /\ r2 \in 0..(MODULUS - 1)
      /\ newer = MODULUS * q1 + r1
      /\ older = MODULUS * q2 + r2
    BY DivMod
<1> HIDE DEF q1, q2, r1, r2
<1>2. /\ MODULUS * q1 \in Nat /\ MODULUS * q2 \in Nat
      /\ MODULUS * (q2 + 1) = MODULUS * q2 + MODULUS
      /\ MODULUS * (q2 + 1) \in Nat
    BY <1>1, Z3
<1>3. CASE q1 = q2
    BY <1>1, <1>2, <1>3, Z3 DEF get_index_difference, TruncatedSlot, r1, r2
<1>4. CASE q1 = q2 + 1
  <2>1. newer = MODULUS * q2 + MODULUS + r1
      BY <1>1, <1>2, <1>4, Z3
  <2>2. r1 < r2 /\ newer - older = r1 + (MODULUS - r2)
      BY <2>1, <1>1, <1>2, Z3
  <2> QED
      BY <2>2, <1>1, Z3 DEF get_index_difference, TruncatedSlot, r1, r2
<1>5. CASE q1 >= q2 + 1 + 1
  <2>1. MODULUS * q1 >= MODULUS * (q2 + 1) + MODULUS
      BY <1>1, <1>5, ProductGap
  <2> QED
      BY <2>1, <1>1, <1>2, Z3
<1>6. CASE q2 >= q1 + 1
  <2>1. MODULUS * q2 >= MODULUS * q1 + MODULUS
      BY <1>1, <1>6, ProductGap
  <2> QED
      BY <2>1, <1>1, <1>2, Z3
<1> QED
    BY <1>1, <1>3, <1>4, <1>5, <1>6, Z3

\* Going back from the newest slot by the index difference leads to a slot
\* with the submitted truncation.
LEMMA ExpectedSlotTruncates ==
    ASSUME NEW newest \in Nat, NEW slot \in 0..(MODULUS - 1),
           newest - get_index_difference(TruncatedSlot(newest), slot) >= 0
    PROVE  /\ get_index_difference(TruncatedSlot(newest), slot)
                \in 0..(MODULUS - 1)
           /\ TruncatedSlot(newest
                - get_index_difference(TruncatedSlot(newest), slot)) = slot
<1> DEFINE r == TruncatedSlot(newest)
           d == get_index_difference(r, slot)
           t == TruncatedSlot(newest - d)
<1> MODULUS \in Nat \ {0}
    BY ModulusAssumption
<1>1. r \in 0..(MODULUS - 1)
    BY DivMod DEF TruncatedSlot
<1>2. d \in 0..(MODULUS - 1)
    BY <1>1, Z3 DEF get_index_difference
<1>3. newest - d \in Nat
    BY <1>2, Z3
<1>4. t \in 0..(MODULUS - 1)
    BY <1>3, DivMod DEF TruncatedSlot
<1>5. get_index_difference(r, t) = newest - (newest - d)
  <2>1. newest - d <= newest /\ newest - (newest - d) < MODULUS
      BY <1>2, Z3
  <2> HIDE DEF d
  <2> QED
      BY <1>3, <2>1, IndexDifference
<1>6. newest - (newest - d) = d
    BY <1>2, Z3
<1>7. get_index_difference(r, t) = get_index_difference(r, slot)
    BY <1>5, <1>6
<1> HIDE DEF r, d, t
<1>8. t = slot
    BY <1>1, <1>4, <1>7, Z3 DEF get_index_difference
<1> QED
    BY <1>2, <1>8 DEF d, r, t

-----------------------------------------------------------------------------
(* The invariant of the sysvar                                             *)

\* Every entry holds the hash of its own slot.
EntriesIntact ==
    \A p \in 1..Len(slot_hashes) :
        slot_hashes[p].hash = BankHash(slot_hashes[p].height)

\* Index i lies at least i slots behind the head: why the search never needs
\* to look at entries older than the direct index.
EntriesDescend ==
    \A p \in 1..Len(slot_hashes) : slot_hashes[p].height <= head - (p - 1)

\* Newest first: no two entries have the same slot.
EntriesOrdered ==
    \A p, q \in 1..Len(slot_hashes) :
        p < q => slot_hashes[p].height > slot_hashes[q].height

\* A produced block is still in the sysvar or MAX_ENTRIES slots behind.
ProducedKept ==
    \A h \in produced :
        /\ h <= head
        /\ \/ \E p \in 1..Len(slot_hashes) : slot_hashes[p].height = h
           \/ head - h >= MAX_ENTRIES

EntriesProduced ==
    \A p \in 1..Len(slot_hashes) : slot_hashes[p].height \in produced

SysvarInv ==
    /\ SysvarTypeOK
    /\ EntriesIntact
    /\ EntriesDescend
    /\ EntriesOrdered
    /\ ProducedKept
    /\ EntriesProduced

LEMMA EntryType ==
    ASSUME NEW height \in Nat
    PROVE  /\ Entry(height) \in SlotHashEntry
           /\ Entry(height).height = height
           /\ Entry(height).hash = BankHash(height)
BY DEF Entry, BankHash, SlotHashEntry

LEMMA HeightType ==
    ASSUME SysvarTypeOK, NEW p \in 1..Len(slot_hashes)
    PROVE  slot_hashes[p].height \in Nat
<1>1. slot_hashes[p] \in SlotHashEntry
    BY DEF SysvarTypeOK
<1> QED
    BY <1>1 DEF SlotHashEntry

\* What pushing at the front and truncating does to a sequence.
LEMMA PushFront ==
    ASSUME NEW S, NEW s \in Seq(S), NEW e \in S, NEW n \in 1..(Len(s) + 1)
    PROVE  LET t == SubSeq(<<e>> \o s, 1, n)
           IN  /\ t \in Seq(S) /\ Len(t) = n
               /\ t[1] = e
               /\ \A p \in 2..n : t[p] = s[p - 1]
<1> DEFINE long == <<e>> \o s
           t == SubSeq(long, 1, n)
<1>1. <<e>> \in Seq(S) /\ Len(<<e>>) = 1 /\ <<e>>[1] = e
    OBVIOUS
<1>2. Len(s) \in Nat
    OBVIOUS
<1>3. long \in Seq(S)
    BY <1>1, ConcatProperties
<1>4. Len(long) = Len(s) + 1 /\ long[1] = e
      /\ \A p \in 2..(Len(s) + 1) : long[p] = s[p - 1]
    BY <1>1, <1>2, ConcatProperties
<1> HIDE DEF long
<1>5. t \in Seq(S) /\ Len(t) = n /\ \A p \in 1..n : t[p] = long[p]
    BY <1>2, <1>3, <1>4, SubSeqProperties
<1> QED
    BY <1>2, <1>4, <1>5 DEF long

\* The entries after a step: the new one first, then the old ones.
LEMMA AdvancedEntries ==
    ASSUME SysvarTypeOK, NEW height \in Nat, AdvanceSlot(height)
    PROVE  /\ Len(slot_hashes') \in 1..MAX_ENTRIES
           /\ Len(slot_hashes') <= Len(slot_hashes) + 1
           /\ Len(slot_hashes) + 1 > MAX_ENTRIES => Len(slot_hashes') = MAX_ENTRIES
           /\ Len(slot_hashes) + 1 <= MAX_ENTRIES
                => Len(slot_hashes') = Len(slot_hashes) + 1
           /\ slot_hashes'[1] = Entry(height)
           /\ \A p \in 2..Len(slot_hashes') : slot_hashes'[p] = slot_hashes[p - 1]
           /\ slot_hashes' \in Seq(SlotHashEntry)
<1> DEFINE n == IF Len(slot_hashes) < MAX_ENTRIES
                THEN Len(slot_hashes) + 1 ELSE MAX_ENTRIES
<1>1. MAX_ENTRIES \in Nat
    BY EntriesAssumption
<1>2. slot_hashes \in Seq(SlotHashEntry) /\ Len(slot_hashes) \in 1..MAX_ENTRIES
    BY DEF SysvarTypeOK
<1>3. Entry(height) \in SlotHashEntry
    BY EntryType
<1>4. /\ n \in 1..(Len(slot_hashes) + 1) /\ n \in 1..MAX_ENTRIES
      /\ Len(slot_hashes) + 1 > MAX_ENTRIES => n = MAX_ENTRIES
      /\ Len(slot_hashes) + 1 <= MAX_ENTRIES => n = Len(slot_hashes) + 1
    BY <1>1, <1>2
<1>5. slot_hashes' = SubSeq(<<Entry(height)>> \o slot_hashes, 1, n)
    BY DEF AdvanceSlot
<1> HIDE DEF n
<1>6. /\ slot_hashes' \in Seq(SlotHashEntry) /\ Len(slot_hashes') = n
      /\ slot_hashes'[1] = Entry(height)
      /\ \A p \in 2..n : slot_hashes'[p] = slot_hashes[p - 1]
    BY <1>2, <1>3, <1>4, <1>5, PushFront
<1> QED
    BY <1>4, <1>6

LEMMA SysvarInitInv == SysvarInit => SysvarInv
<1> SUFFICES ASSUME SysvarInit PROVE SysvarInv
    OBVIOUS
<1>1. /\ slot_hashes = <<Entry(FIRST_SLOT)>> /\ produced = {FIRST_SLOT}
      /\ FIRST_SLOT \in Nat /\ MAX_ENTRIES \in Nat /\ MAX_ENTRIES >= 1
    BY SlotAssumption, ModulusAssumption, WindowAssumption, EntriesAssumption
       DEF SysvarInit
<1>2. Entry(FIRST_SLOT) \in SlotHashEntry
    BY <1>1, EntryType
<1>3. /\ Len(slot_hashes) = 1 /\ slot_hashes[1] = Entry(FIRST_SLOT)
      /\ slot_hashes \in Seq(SlotHashEntry)
    BY <1>1, <1>2
<1>4. Entry(FIRST_SLOT).height = FIRST_SLOT
      /\ Entry(FIRST_SLOT).hash = BankHash(FIRST_SLOT)
    BY DEF Entry
<1> QED
    BY <1>1, <1>3, <1>4
       DEF SysvarInv, SysvarTypeOK, EntriesIntact, EntriesDescend,
           EntriesOrdered, ProducedKept, EntriesProduced, head

LEMMA SysvarStepInv ==
    ASSUME SysvarInv, NEW height \in Nat, AdvanceSlot(height)
    PROVE  SysvarInv'
<1> DEFINE n == Len(slot_hashes)
<1>1. SysvarTypeOK /\ n \in 1..MAX_ENTRIES /\ MAX_ENTRIES \in Nat
    BY EntriesAssumption DEF SysvarInv, SysvarTypeOK
<1>2. /\ Len(slot_hashes') \in 1..MAX_ENTRIES
      /\ Len(slot_hashes') <= n + 1
      /\ n + 1 > MAX_ENTRIES => Len(slot_hashes') = MAX_ENTRIES
      /\ n + 1 <= MAX_ENTRIES => Len(slot_hashes') = n + 1
      /\ slot_hashes'[1] = Entry(height)
      /\ \A p \in 2..Len(slot_hashes') : slot_hashes'[p] = slot_hashes[p - 1]
      /\ slot_hashes' \in Seq(SlotHashEntry)
    BY <1>1, AdvancedEntries
<1>3. \A p \in 1..n : slot_hashes[p].height \in Nat
    BY <1>1, HeightType
<1>4. head \in Nat /\ head' = height /\ height > head
    BY <1>1, <1>2, <1>3, EntryType DEF head, AdvanceSlot
<1>5. produced' = produced \cup {height}
    BY DEF AdvanceSlot
<1>6. SysvarTypeOK'
    BY <1>1, <1>2, <1>5 DEF SysvarTypeOK
<1>7. EntriesIntact'
  <2> SUFFICES ASSUME NEW p \in 1..Len(slot_hashes')
               PROVE  slot_hashes'[p].hash = BankHash(slot_hashes'[p].height)
      BY DEF EntriesIntact, BankHash
  <2>1. CASE p = 1
      BY <2>1, <1>2, EntryType
  <2>2. CASE p # 1
    <3>1. p - 1 \in 1..n /\ slot_hashes'[p] = slot_hashes[p - 1]
        BY <2>2, <1>1, <1>2
    <3> QED
        BY <3>1 DEF SysvarInv, EntriesIntact
  <2> QED
      BY <2>1, <2>2
<1>8. EntriesDescend'
  <2> SUFFICES ASSUME NEW p \in 1..Len(slot_hashes')
               PROVE  slot_hashes'[p].height <= height - (p - 1)
      BY <1>4 DEF EntriesDescend
  <2>1. CASE p = 1
      BY <2>1, <1>2, EntryType
  <2>2. CASE p # 1
    <3>1. p - 1 \in 1..n /\ slot_hashes'[p] = slot_hashes[p - 1]
        BY <2>2, <1>1, <1>2
    <3>2. slot_hashes[p - 1].height <= head - ((p - 1) - 1)
        BY <3>1 DEF SysvarInv, EntriesDescend
    <3> QED
        BY <3>1, <3>2, <1>3, <1>4
  <2> QED
      BY <2>1, <2>2
<1>9. ProducedKept'
  <2> SUFFICES ASSUME NEW h \in produced'
               PROVE  /\ h <= height
                      /\ \/ \E p \in 1..Len(slot_hashes') : slot_hashes'[p].height = h
                         \/ height - h >= MAX_ENTRIES
      BY <1>4 DEF ProducedKept
  <2>1. CASE h = height
      BY <2>1, <1>2, EntryType
  <2>2. CASE h \in produced
    <3>1. h \in Nat /\ h <= head
        BY <2>2, <1>1 DEF SysvarInv, ProducedKept, SysvarTypeOK
    <3>2. CASE \E p \in 1..n : slot_hashes[p].height = h
      <4>1. PICK p \in 1..n : slot_hashes[p].height = h
          BY <3>2
      <4>2. CASE p + 1 <= Len(slot_hashes')
        <5>1. p + 1 \in 2..Len(slot_hashes') /\ (p + 1) - 1 = p
            BY <4>2, <1>2
        <5>2. slot_hashes'[p + 1].height = h
            BY <5>1, <4>1, <1>2
        <5> QED
            BY <5>1, <5>2, <3>1, <1>4
      <4>3. CASE p + 1 > Len(slot_hashes')
        <5>1. p = MAX_ENTRIES
            BY <4>3, <1>1, <1>2
        <5>2. h <= head - (MAX_ENTRIES - 1)
            BY <5>1, <4>1 DEF SysvarInv, EntriesDescend
        <5> QED
            BY <5>2, <3>1, <1>1, <1>4
      <4> QED
          BY <4>2, <4>3, <1>2
    <3>3. CASE head - h >= MAX_ENTRIES
        BY <3>3, <3>1, <1>1, <1>4
    <3> QED
        BY <2>2, <3>2, <3>3 DEF SysvarInv, ProducedKept
  <2> QED
      BY <2>1, <2>2, <1>5
<1>10. EntriesProduced'
  <2> SUFFICES ASSUME NEW p \in 1..Len(slot_hashes')
               PROVE  slot_hashes'[p].height \in produced'
      BY DEF EntriesProduced
  <2>1. CASE p = 1
      BY <2>1, <1>2, <1>5, EntryType
  <2>2. CASE p # 1
    <3>1. p - 1 \in 1..n /\ slot_hashes'[p] = slot_hashes[p - 1]
        BY <2>2, <1>1, <1>2
    <3> QED
        BY <3>1, <1>5 DEF SysvarInv, EntriesProduced
  <2> QED
      BY <2>1, <2>2
<1>11. EntriesOrdered'
  <2> SUFFICES ASSUME NEW p \in 1..Len(slot_hashes'),
                      NEW q \in 1..Len(slot_hashes'), p < q
               PROVE  slot_hashes'[p].height > slot_hashes'[q].height
      BY DEF EntriesOrdered
  <2>1. q - 1 \in 1..n /\ slot_hashes'[q] = slot_hashes[q - 1]
      BY <1>1, <1>2
  <2>2. CASE p = 1
    <3>1. slot_hashes[q - 1].height <= head - ((q - 1) - 1)
        BY <2>1 DEF SysvarInv, EntriesDescend
    <3> QED
        BY <2>1, <2>2, <3>1, <1>2, <1>3, <1>4, EntryType
  <2>3. CASE p # 1
    <3>1. p - 1 \in 1..n /\ slot_hashes'[p] = slot_hashes[p - 1]
        BY <2>3, <1>1, <1>2
    <3>2. p - 1 < q - 1
        OBVIOUS
    <3> QED
        BY <2>1, <3>1, <3>2 DEF SysvarInv, EntriesOrdered
  <2> QED
      BY <2>2, <2>3
<1> QED
    BY <1>6, <1>7, <1>8, <1>9, <1>10, <1>11 DEF SysvarInv

-----------------------------------------------------------------------------
(* The lookup                                                              *)

\* Looking up slot s at its distance from the head finds the entry of s if
\* there is one, and nothing else.
LEMMA FindExact ==
    ASSUME SysvarInv, NEW s \in Nat, s <= head
    PROVE  /\ \A e \in find_slot_hash_with_fallback(slot_hashes, s, head - s) :
                 e.hash = BankHash(s)
                 /\ \E p \in 1..Len(slot_hashes) : slot_hashes[p].height = s
           /\ (\E p \in 1..Len(slot_hashes) : slot_hashes[p].height = s)
                => find_slot_hash_with_fallback(slot_hashes, s, head - s) # {}
<1> DEFINE n == Len(slot_hashes)
           d == head - s
           direct == {e \in get_slot_hash(slot_hashes, d) : e.height = s}
           end == IF d < n THEN d ELSE n
           hits == {p \in 1..end : slot_hashes[p].height = s}
           last == {q \in hits : \A r \in hits : r <= q}
           found == {slot_hashes[p] : p \in last}
<1>1. n \in Nat /\ n >= 1
    BY DEF SysvarInv, SysvarTypeOK
<1>2. \A p \in 1..n : slot_hashes[p].height \in Nat
    BY HeightType DEF SysvarInv
<1>3. head \in Nat
    BY <1>1, <1>2 DEF head
<1>4. d \in Nat
    BY <1>3
<1>5. find_slot_hash_with_fallback(slot_hashes, s, head - s)
        = IF direct # {} THEN direct ELSE found
    BY DEF find_slot_hash_with_fallback, reverse_linear_search_slot_hash
<1>6. \A p \in 1..n : slot_hashes[p].hash = BankHash(slot_hashes[p].height)
    BY DEF SysvarInv, EntriesIntact
<1> HIDE DEF d
<1>7. \A e \in direct : \E p \in 1..n : e = slot_hashes[p] /\ e.height = s
  <2> SUFFICES ASSUME NEW e \in direct
               PROVE  \E p \in 1..n : e = slot_hashes[p] /\ e.height = s
      OBVIOUS
  <2>1. d < n /\ e = slot_hashes[d + 1] /\ e.height = s
      BY DEF get_slot_hash
  <2>2. d + 1 \in 1..n
      BY <2>1, <1>1, <1>4
  <2> QED
      BY <2>1, <2>2
<1>8. \A e \in found : \E p \in 1..n : e = slot_hashes[p] /\ e.height = s
  <2>1. \A p \in hits : p \in 1..n /\ slot_hashes[p].height = s
      BY <1>1, <1>4
  <2> QED
      BY <2>1
<1>9. ASSUME NEW p \in 1..n, slot_hashes[p].height = s
      PROVE  direct # {} \/ found # {}
  <2>1. p - 1 <= d
    <3>1. s <= head - (p - 1)
        BY <1>9 DEF SysvarInv, EntriesDescend
    <3> QED
        BY <3>1, <1>1, <1>3 DEF d
  <2>2. CASE p - 1 = d
    <3>1. d < n /\ slot_hashes[d + 1] = slot_hashes[p]
        BY <2>2, <1>1
    <3>2. slot_hashes[p] \in get_slot_hash(slot_hashes, d)
        BY <3>1 DEF get_slot_hash
    <3> QED
        BY <3>2, <1>9
  <2>3. CASE p - 1 < d
    <3>1. p \in hits
        BY <2>3, <1>1, <1>4, <1>9
    <3>2. \A r \in hits : r <= p
      <4> SUFFICES ASSUME NEW r \in hits, r > p PROVE FALSE
          BY <1>1, <1>4
      <4>1. r \in 1..n /\ slot_hashes[r].height = s
          BY <1>1, <1>4
      <4>2. slot_hashes[p].height > slot_hashes[r].height
          BY <4>1 DEF SysvarInv, EntriesOrdered
      <4> QED
          BY <4>1, <4>2, <1>9
    <3>3. slot_hashes[p] \in found
        BY <3>1, <3>2
    <3> QED
        BY <3>3
  <2> QED
      BY <2>1, <2>2, <2>3, <1>1, <1>4
<1> HIDE DEF direct, found
<1> QED
    BY <1>5, <1>6, <1>7, <1>8, <1>9

LEMMA NonceExactInv ==
    ASSUME SysvarInv
    PROVE  NonceExact
<1> SUFFICES ASSUME NEW slot \in 0..MODULUS
             PROVE  Accepted(slot)
                      = {BankHash(h) : h \in {r \in Recent :
                                                TruncatedSlot(r) = slot}}
    BY DEF NonceExact
<1> DEFINE promised == {BankHash(h) : h \in {r \in Recent :
                                                TruncatedSlot(r) = slot}}
           found(s) == {e.hash : e \in find_slot_hash_with_fallback(
                                          slot_hashes, s, head - s)}
<1>1. /\ MODULUS \in Nat \ {0} /\ WINDOW \in 1..MODULUS
      /\ MAX_ENTRIES \in Nat /\ WINDOW <= MAX_ENTRIES
    BY ModulusAssumption, WindowAssumption, EntriesAssumption
<1>2. Len(slot_hashes) >= 1 /\ Len(slot_hashes) \in Nat /\ produced \subseteq Nat
    BY <1>1 DEF SysvarInv, SysvarTypeOK
<1>3. head \in Nat
    BY <1>2, HeightType DEF SysvarInv, head
<1>4. CASE slot = MODULUS
  <2>1. Accepted(slot) = {}
      BY <1>1, <1>4 DEF Accepted, validate_nonce
  <2>2. \A r \in Recent : TruncatedSlot(r) # slot
    <3> SUFFICES ASSUME NEW r \in Recent PROVE TruncatedSlot(r) # slot
        OBVIOUS
    <3>1. r \in Nat
        BY <1>2 DEF Recent
    <3> QED
        BY <3>1, <1>1, <1>4, DivMod DEF TruncatedSlot
  <2> QED
      BY <2>1, <2>2
<1>5. CASE slot # MODULUS
  <2>1. slot \in 0..(MODULUS - 1) /\ ~(slot >= MODULUS)
      BY <1>1, <1>5
  <2>2. get_slot_hash(slot_hashes, 0) = {slot_hashes[1]}
      BY <1>2 DEF get_slot_hash
  <2>3. Accepted(slot) = UNION {found(s) : s \in expected_slots(head, slot)}
    <3>1. ~(1 > 1)
        OBVIOUS
    <3>2. Accepted(slot) =
            UNION {UNION {{e.hash : e \in find_slot_hash_with_fallback(
                                          slot_hashes, s, newest.height - s)} :
                             s \in expected_slots(newest.height, slot)} :
                     newest \in get_slot_hash(slot_hashes, 0)}
        BY <2>1, <3>1, Zenon DEF Accepted, validate_nonce
    <3> DEFINE all(newest) ==
                 UNION {{e.hash : e \in find_slot_hash_with_fallback(
                                          slot_hashes, s, newest.height - s)} :
                             s \in expected_slots(newest.height, slot)}
    <3>3. all(slot_hashes[1])
            = UNION {found(s) : s \in expected_slots(head, slot)}
        BY DEF head
    <3>4. Accepted(slot) = UNION {all(newest) : newest \in {slot_hashes[1]}}
        BY <3>2, <2>2
    <3> HIDE DEF all
    <3>5. UNION {all(newest) : newest \in {slot_hashes[1]}} = all(slot_hashes[1])
        BY Zenon
    <3> QED
        BY <3>3, <3>4, <3>5
  <2>4. ASSUME NEW s \in expected_slots(head, slot)
        PROVE  s \in Nat /\ s <= head /\ head - s < WINDOW
               /\ TruncatedSlot(s) = slot
    <3> DEFINE d == get_index_difference(TruncatedSlot(head), slot)
    <3>1. s = head - d /\ d < WINDOW /\ s >= 0
        BY DEF expected_slots
    <3>2. d \in 0..(MODULUS - 1) /\ TruncatedSlot(head - d) = slot
        BY <3>1, <2>1, <1>3, ExpectedSlotTruncates
    <3> HIDE DEF d
    <3> QED
        BY <3>1, <3>2, <1>1, <1>3
  <2>5. ASSUME NEW x \in Accepted(slot) PROVE x \in promised
    <3>1. PICK s \in expected_slots(head, slot) : x \in found(s)
        BY <2>3
    <3>2. s \in Nat /\ s <= head /\ head - s < WINDOW /\ TruncatedSlot(s) = slot
        BY <2>4
    <3>3. x = BankHash(s) /\ \E p \in 1..Len(slot_hashes) :
                                slot_hashes[p].height = s
        BY <3>1, <3>2, FindExact
    <3>4. s \in produced
        BY <3>3 DEF SysvarInv, EntriesProduced
    <3>5. s \in Recent
        BY <3>2, <3>4 DEF Recent
    <3> QED
        BY <3>2, <3>3, <3>5
  <2>6. ASSUME NEW x \in promised PROVE x \in Accepted(slot)
    <3>1. PICK r \in Recent : TruncatedSlot(r) = slot /\ x = BankHash(r)
        OBVIOUS
    <3>2. r \in Nat /\ r \in produced /\ head - r < WINDOW
        BY <1>2 DEF Recent
    <3>3. r <= head /\ \E p \in 1..Len(slot_hashes) : slot_hashes[p].height = r
      <4>1. ~(head - r >= MAX_ENTRIES)
          BY <3>2, <1>1, <1>3
      <4> QED
          BY <4>1, <3>2 DEF SysvarInv, ProducedKept
    <3>4. get_index_difference(TruncatedSlot(head), slot) = head - r
      <4>1. head - r < MODULUS
          BY <3>2, <1>1, <1>3
      <4> QED
          BY <4>1, <3>1, <3>2, <3>3, <1>3, IndexDifference
    <3>5. r \in expected_slots(head, slot)
      <4>1. head - (head - r) = r /\ r >= 0
          BY <3>2, <1>3
      <4> QED
          BY <4>1, <3>2, <3>4 DEF expected_slots
    <3>6. x \in found(r)
        BY <3>1, <3>2, <3>3, FindExact
    <3> QED
        BY <3>5, <3>6, <2>3
  <2> QED
      BY <2>5, <2>6
<1> QED
    BY <1>4, <1>5

-----------------------------------------------------------------------------
(* The theorems                                                            *)

LEMMA SysvarNextInv == SysvarInv /\ [SysvarNext]_sysvarVars => SysvarInv'
<1> SUFFICES ASSUME SysvarInv, [SysvarNext]_sysvarVars PROVE SysvarInv'
    OBVIOUS
<1>1. CASE SysvarNext
  <2>1. PICK height \in FIRST_SLOT..MAX_SLOT : AdvanceSlot(height)
      BY <1>1 DEF SysvarNext
  <2>2. height \in Nat
      BY SlotAssumption
  <2> QED
      BY <2>1, <2>2, SysvarStepInv
<1>2. CASE UNCHANGED sysvarVars
    BY <1>2 DEF sysvarVars, SysvarInv, SysvarTypeOK, EntriesIntact, BankHash,
                EntriesDescend, EntriesOrdered, ProducedKept, EntriesProduced,
                head
<1> QED
    BY <1>1, <1>2

\* The sysvar keeps its type and length, and every produced block the window
\* may still need.
THEOREM SysvarInvariant == SysvarSpec => []SysvarInv
<1>1. SysvarInit => SysvarInv
    BY SysvarInitInv
<1>2. SysvarInv /\ [SysvarNext]_sysvarVars => SysvarInv'
    BY SysvarNextInv
<1> QED
    BY <1>1, <1>2, PTL DEF SysvarSpec

\* validate_nonce accepts exactly the blocks of the last WINDOW slots, for
\* every modulus, every window up to it, every sysvar at least as long as the
\* window and every pattern of skipped slots.
THEOREM NonceLookupExact == SysvarSpec => []NonceExact
<1>1. SysvarInv => NonceExact
    BY NonceExactInv
<1> QED
    BY <1>1, SysvarInvariant, PTL

\* A slot hash that has expired is never accepted again.
THEOREM NonceExpiryFinal == SysvarSpec => ExpiryIsFinal
<1> DEFINE Final == AcceptedHashes' \subseteq AcceptedHashes \cup {BankHash(head')}
<1>1. SysvarInv /\ NonceExact /\ NonceExact' /\ [SysvarNext]_sysvarVars
        => [Final]_sysvarVars
  <2> SUFFICES ASSUME SysvarInv, NonceExact, NonceExact', SysvarNext PROVE Final
      OBVIOUS
  <2>1. PICK height \in FIRST_SLOT..MAX_SLOT : AdvanceSlot(height)
      BY DEF SysvarNext
  <2>2. height \in Nat /\ MODULUS \in Nat /\ WINDOW \in Nat
      BY SlotAssumption, ModulusAssumption, WindowAssumption
  <2>5. produced' = produced \cup {height} /\ height > head
      BY <2>1 DEF AdvanceSlot
  <2>6. head' = height
    <3>1. SysvarTypeOK
        BY DEF SysvarInv
    <3>2. slot_hashes'[1] = Entry(height)
        BY <2>1, <2>2, <3>1, AdvancedEntries
    <3> QED
        BY <3>2, <2>2, EntryType DEF head
  <2>7. head \in Nat /\ produced \subseteq Nat
    <3>1. 1 \in 1..Len(slot_hashes)
        BY EntriesAssumption DEF SysvarInv, SysvarTypeOK
    <3> QED
        BY <3>1, HeightType DEF SysvarInv, SysvarTypeOK, head
  <2>8. Recent' \subseteq Recent \cup {height}
    <3> SUFFICES ASSUME NEW r \in Recent', r # height PROVE r \in Recent
        OBVIOUS
    <3>1. r \in produced /\ height - r < WINDOW
        BY <2>5, <2>6 DEF Recent
    <3>2. head - r < WINDOW
        BY <3>1, <2>2, <2>5, <2>7
    <3> QED
        BY <3>1, <3>2 DEF Recent
  <2> SUFFICES ASSUME NEW x \in AcceptedHashes'
               PROVE  x \in AcceptedHashes \cup {BankHash(height)}
      BY <2>6 DEF BankHash
  <2>9. PICK slot \in 0..MODULUS : x \in Accepted(slot)'
      BY DEF AcceptedHashes
  <2>10. x \in {BankHash(h) : h \in {r \in Recent' : TruncatedSlot(r) = slot}}
      BY <2>9 DEF NonceExact, BankHash, TruncatedSlot
  <2>11. PICK r \in Recent' : TruncatedSlot(r) = slot /\ x = BankHash(r)
      BY <2>10
  <2>12. CASE r = height
      BY <2>11, <2>12
  <2>13. CASE r \in Recent
    <3>1. x \in {BankHash(h) : h \in {q \in Recent : TruncatedSlot(q) = slot}}
        BY <2>11, <2>13
    <3>2. x \in Accepted(slot)
        BY <3>1 DEF NonceExact
    <3> QED
        BY <3>2 DEF AcceptedHashes
  <2> QED
      BY <2>8, <2>11, <2>12, <2>13
<1> QED
    BY <1>1, SysvarInvariant, NonceLookupExact, PTL DEF SysvarSpec, ExpiryIsFinal
=============================================================================
