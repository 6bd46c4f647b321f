----------------------- MODULE IotMessageStore_proofs -----------------------
(***************************************************************************)
(* Proofs about the message store, for every size of the array and every   *)
(* number of messages, failures, losses and power cycles.                  *)
(***************************************************************************)
EXTENDS IotMessageStore, WellFoundedInduction, SequenceTheorems, FiniteSetTheorems, TLAPS

\* A bounded set of numbers that is not empty has a greatest one.
LEMMA GreatestExists ==
  ASSUME NEW S \in SUBSET Nat, S # {}, NEW n \in Nat, \A x \in S : x <= n
  PROVE  \E x \in S : \A y \in S : x >= y
<1> DEFINE T == {n - y : y \in S}
<1>1. T \subseteq Nat /\ T # {}
  <2>1. \A y \in S : y \in Nat /\ n - y \in Nat
    OBVIOUS
  <2>2. PICK y \in S : TRUE
    OBVIOUS
  <2>3. n - y \in T
    BY <2>2
  <2> QED BY <2>1, <2>3
<1>2. PICK m \in T : \A y \in T : ~(<<y, m>> \in OpToRel(<, Nat))
  BY <1>1, WFMin, NatLessThanWellFounded
<1>3. \A y \in T : ~(y < m)
  BY <1>1, <1>2 DEF OpToRel
<1>4. PICK x \in S : m = n - x
  OBVIOUS
<1>5. ASSUME NEW y \in S PROVE x >= y
  <2>1. ~(n - y < m)
    BY <1>3
  <2> QED BY <2>1, <1>4
<1> QED BY <1>5

LEMMA MaxIn ==
  ASSUME NEW S \in SUBSET Nat, S # {}, NEW n \in Nat, \A x \in S : x <= n
  PROVE  Max(S) \in S
BY GreatestExists, Zenon DEF Max

\* Two caps the count of deliveries.
LEMMA MinTwo ==
  ASSUME NEW n \in Nat
  PROVE  Min({2, n}) \in 0 .. 2
<1>1. \E x \in {2, n} : \A y \in {2, n} : x <= y
  OBVIOUS
<1>2. Min({2, n}) \in {2, n} /\ \A y \in {2, n} : Min({2, n}) <= y
  BY <1>1, Zenon DEF Min
<1> QED BY <1>2

\* One of two is the smaller one.
LEMMA MinSmaller ==
  ASSUME NEW n \in Nat, n <= 2
  PROVE  Min({2, n}) = n
<1>1. \E x \in {2, n} : \A y \in {2, n} : x <= y
  OBVIOUS
<1>2. Min({2, n}) \in {2, n} /\ \A y \in {2, n} : Min({2, n}) <= y
  BY <1>1, Zenon DEF Min
<1> QED BY <1>2

-----------------------------------------------------------------------------
\* Stores

Stored(s) == s \in Seq(Message) /\ Len(s) <= MAX_MESSAGES_STORE

\* Published messages come first.
Ordered(s) == \A i, j \in DOMAIN s : i < j /\ s[j].published => s[i].published

\* A message that replaces another one keeps its place.
LEMMA Mapped ==
  ASSUME NEW s, Stored(s), NEW t, DOMAIN t = DOMAIN s, t = [i \in DOMAIN s |-> t[i]],
         \A i \in DOMAIN s : t[i] \in Message
  PROVE  Stored(t) /\ Len(t) = Len(s) /\ DOMAIN t = 1 .. Len(s)
<1>1. Len(s) \in Nat /\ DOMAIN s = 1 .. Len(s)
  BY LenProperties DEF Stored
<1>2. t \in [1 .. Len(s) -> Message]
  BY <1>1
<1>3. t \in Seq(Message)
  BY <1>1, <1>2, SeqDef
<1>4. Len(t) = Len(s)
  <2>1. Len(t) \in Nat /\ DOMAIN t = 1 .. Len(t)
    BY <1>3, LenProperties
  <2> QED BY <1>1, <2>1
<1> QED BY <1>1, <1>3, <1>4 DEF Stored

\* Without one element, a sequence is shorter and the later elements move up.
LEMMA Removed ==
  ASSUME NEW S, NEW s \in Seq(S), NEW k \in 1 .. Len(s)
  PROVE  /\ RemoveAt(s, k) \in Seq(S) /\ Len(RemoveAt(s, k)) = Len(s) - 1
         /\ \A i \in 1 .. Len(s) - 1 :
              RemoveAt(s, k)[i] = IF i < k THEN s[i] ELSE s[i + 1]
<1> DEFINE a == SubSeq(s, 1, k - 1)
           b == SubSeq(s, k + 1, Len(s))
<1>1. Len(s) \in Nat /\ \A i \in 1 .. Len(s) : s[i] \in S
  BY LenProperties, ElementOfSeq
<1>2. /\ a \in Seq(S) /\ Len(a) = k - 1
      /\ \A i \in 1 .. k - 1 : a[i] = s[i]
  <2>1. \A i \in 1 .. k - 1 : s[i] \in S
    BY <1>1
  <2>2. /\ a \in Seq(S)
        /\ Len(a) = IF 1 <= k - 1 THEN (k - 1) - 1 + 1 ELSE 0
        /\ \A i \in 1 .. (k - 1) - 1 + 1 : a[i] = s[1 + i - 1]
    BY <1>1, <2>1, SubSeqProperties
  <2> HIDE DEF a
  <2> QED BY <1>1, <2>2
<1>3. /\ b \in Seq(S) /\ Len(b) = Len(s) - k
      /\ \A i \in 1 .. Len(s) - k : b[i] = s[k + i]
  <2>1. \A i \in k + 1 .. Len(s) : s[i] \in S
    BY <1>1
  <2>2. /\ b \in Seq(S)
        /\ Len(b) = IF k + 1 <= Len(s) THEN Len(s) - (k + 1) + 1 ELSE 0
        /\ \A i \in 1 .. Len(s) - (k + 1) + 1 : b[i] = s[(k + 1) + i - 1]
    BY <1>1, <2>1, SubSeqProperties
  <2> HIDE DEF b
  <2>3. ASSUME NEW i \in 1 .. Len(s) - k PROVE b[i] = s[k + i]
    <3>1. i \in 1 .. Len(s) - (k + 1) + 1 /\ (k + 1) + i - 1 = k + i
      BY <1>1
    <3>2. b[i] = s[(k + 1) + i - 1]
      BY <2>2, <3>1
    <3> QED BY <3>1, <3>2
  <2> QED BY <1>1, <2>2, <2>3
<1>4. RemoveAt(s, k) = a \o b
  BY DEF RemoveAt
<1> HIDE DEF a, b
<1>5. /\ a \o b \in Seq(S) /\ Len(a \o b) = Len(a) + Len(b)
      /\ \A i \in 1 .. Len(a) + Len(b) :
           (a \o b)[i] = IF i <= Len(a) THEN a[i] ELSE b[i - Len(a)]
  BY <1>2, <1>3, ConcatProperties
<1>6. Len(a \o b) = Len(s) - 1
  BY <1>1, <1>2, <1>3, <1>5
<1>7. ASSUME NEW i \in 1 .. Len(s) - 1
      PROVE  (a \o b)[i] = IF i < k THEN s[i] ELSE s[i + 1]
  <2>1. (a \o b)[i] = IF i <= k - 1 THEN a[i] ELSE b[i - (k - 1)]
    BY <1>1, <1>2, <1>3, <1>5
  <2>2. CASE i < k
    <3>1. i \in 1 .. k - 1
      BY <1>1, <2>2
    <3> QED BY <1>2, <2>1, <2>2, <3>1
  <2>3. CASE ~(i < k)
    <3>1. i - (k - 1) \in 1 .. Len(s) - k /\ k + (i - (k - 1)) = i + 1 /\ ~(i <= k - 1)
      BY <1>1, <2>3
    <3>2. b[i - (k - 1)] = s[k + (i - (k - 1))]
      BY <1>3, <3>1
    <3> QED BY <2>1, <2>3, <3>1, <3>2
  <2> QED BY <2>2, <2>3
<1> QED BY <1>4, <1>5, <1>6, <1>7

LEMMA OlderResult ==
  ASSUME NEW s, Stored(s), NEW d \in Nat
  PROVE  /\ Stored(Older(s, d)) /\ DOMAIN Older(s, d) = DOMAIN s
         /\ Len(Older(s, d)) = Len(s)
         /\ \A i \in DOMAIN s : Older(s, d)[i].published = s[i].published
<1> DEFINE t == Older(s, d)
<1>1. /\ DOMAIN t = DOMAIN s /\ t = [i \in DOMAIN s |-> t[i]]
      /\ \A i \in DOMAIN s :
           t[i] = [s[i] EXCEPT !.age = IF s[i].age + d < OldAge THEN s[i].age + d ELSE OldAge]
  BY DEF Older
<1>2. ASSUME NEW i \in DOMAIN s PROVE s[i] \in Message
  BY LenProperties, ElementOfSeq DEF Stored
<1>3. ASSUME NEW i \in DOMAIN s PROVE t[i] \in Message /\ t[i].published = s[i].published
  <2>1. s[i] \in Message
    BY <1>2
  <2>2. OldAge \in Nat /\ s[i].age \in 0 .. OldAge
    BY <2>1, StoreSizes DEF OldAge, Message
  <2> DEFINE a == IF s[i].age + d < OldAge THEN s[i].age + d ELSE OldAge
  <2>3. a \in 0 .. OldAge
    BY <2>2
  <2>4. t[i] = [s[i] EXCEPT !.age = a]
    BY <1>1
  <2> HIDE DEF a
  <2> QED BY <2>1, <2>3, <2>4 DEF Message
<1> HIDE DEF t
<1>4. Stored(t) /\ Len(t) = Len(s)
  BY <1>1, <1>3, Mapped
<1> QED BY <1>1, <1>3, <1>4 DEF t

LEMMA TriedResult ==
  ASSUME NEW s, Stored(s), NEW k
  PROVE  /\ Stored(Tried(s, k)) /\ DOMAIN Tried(s, k) = DOMAIN s
         /\ Len(Tried(s, k)) = Len(s)
         /\ k = 0 => \A i \in DOMAIN s : Tried(s, k)[i].published
<1> DEFINE t == Tried(s, k)
<1>1. /\ DOMAIN t = DOMAIN s /\ t = [i \in DOMAIN s |-> t[i]]
      /\ \A i \in DOMAIN s :
           t[i] = IF s[i].published THEN s[i]
                  ELSE IF i > k THEN [s[i] EXCEPT !.published = TRUE]
                  ELSE [s[i] EXCEPT !.error = TRUE]
  BY DEF Tried
<1>2. ASSUME NEW i \in DOMAIN s
      PROVE  s[i] \in Message /\ i \in Nat /\ i > 0
  BY LenProperties, ElementOfSeq DEF Stored
<1>3. ASSUME NEW i \in DOMAIN s PROVE t[i] \in Message /\ (k = 0 => t[i].published)
  <2>1. s[i] \in Message
    BY <1>2
  <2>2. CASE s[i].published
    BY <1>1, <2>1, <2>2
  <2>3. CASE ~s[i].published /\ i > k
    <3>1. t[i] = [s[i] EXCEPT !.published = TRUE]
      BY <1>1, <2>3
    <3> QED BY <2>1, <3>1 DEF Message
  <2>4. CASE ~s[i].published /\ ~(i > k)
    <3>1. t[i] = [s[i] EXCEPT !.error = TRUE]
      BY <1>1, <2>4
    <3>2. k # 0
      BY <1>2, <2>4
    <3> QED BY <2>1, <3>1, <3>2 DEF Message
  <2> QED BY <2>2, <2>3, <2>4
<1> HIDE DEF t
<1>4. Stored(t) /\ Len(t) = Len(s)
  BY <1>1, <1>3, Mapped
<1> QED BY <1>1, <1>3, <1>4 DEF t

\* publish_matter appends an unpublished message or drops it.
LEMMA PublishResult ==
  ASSUME NEW s, Stored(s), NEW id \in Ids \cup {Online},
         NEW type \in {"data", "command"}, NEW ack \in BOOLEAN
  PROVE  /\ Stored(publish_matter(s, id, type, ack))
         /\ Ordered(s) => Ordered(publish_matter(s, id, type, ack))
<1> DEFINE m == [id |-> id, type |-> type, ack |-> ack, published |-> FALSE,
                 error |-> FALSE, age |-> 0]
           t == publish_matter(s, id, type, ack)
<1>1. CASE ~HasRoom(s)
  BY <1>1 DEF publish_matter
<1>2. CASE HasRoom(s)
  <2>1. t = Append(s, m)
    BY <1>2 DEF publish_matter
  <2>2. m \in Message
    <3>1. 0 \in 0 .. OldAge
      BY StoreSizes DEF OldAge
    <3> QED BY <3>1 DEF Message
  <2>3. ~m.published
    OBVIOUS
  <2> HIDE DEF m, t
  <2>4. /\ t \in Seq(Message) /\ Len(t) = Len(s) + 1 /\ Len(s) \in Nat
        /\ \A i \in 1 .. Len(s) : t[i] = s[i]
        /\ t[Len(s) + 1] = m
        /\ DOMAIN t = 1 .. Len(s) + 1 /\ DOMAIN s = 1 .. Len(s)
    <3>1. /\ Append(s, m) \in Seq(Message) /\ Len(Append(s, m)) = Len(s) + 1
          /\ \A i \in 1 .. Len(s) : Append(s, m)[i] = s[i]
          /\ Append(s, m)[Len(s) + 1] = m
      BY <2>2, AppendProperties DEF Stored
    <3>2. Len(s) \in Nat /\ DOMAIN s = 1 .. Len(s)
      BY LenProperties DEF Stored
    <3>3. DOMAIN t = 1 .. Len(t)
      BY <2>1, <3>1, LenProperties
    <3> QED BY <2>1, <3>1, <3>2, <3>3
  <2>5. Stored(t)
    BY <1>2, <2>4, StoreSizes DEF Stored, HasRoom
  <2>6. ASSUME Ordered(s), NEW i \in DOMAIN t, NEW j \in DOMAIN t, i < j, t[j].published
        PROVE  t[i].published
    <3>1. j # Len(s) + 1
      BY <2>3, <2>4, <2>6
    <3>2. i \in 1 .. Len(s) /\ j \in 1 .. Len(s)
      BY <2>4, <2>6, <3>1
    <3>3. s[j].published
      BY <2>4, <2>6, <3>2
    <3>4. s[i].published
      BY <2>4, <2>6, <3>2, <3>3 DEF Ordered
    <3> QED BY <2>4, <3>2, <3>4
  <2> QED BY <2>5, <2>6 DEF Ordered, t
<1> QED BY <1>1, <1>2

\* Closing the gap at any message keeps a store, and its order.
LEMMA ShiftedResult ==
  ASSUME NEW s, Stored(s), NEW pos \in DOMAIN s
  PROVE  Stored(Shifted(s, pos)) /\ (Ordered(s) => Ordered(Shifted(s, pos)))
<1>1. Len(s) \in Nat /\ DOMAIN s = 1 .. Len(s) /\ s \in Seq(Message)
  BY LenProperties DEF Stored
<1>2. CASE pos > 1
  <2> DEFINE t == Shifted(s, pos)
  <2>1. t = RemoveAt(s, pos - 1) /\ pos - 1 \in 1 .. Len(s)
    BY <1>1, <1>2 DEF Shifted
  <2>2. /\ t \in Seq(Message) /\ Len(t) = Len(s) - 1
        /\ \A i \in 1 .. Len(s) - 1 : t[i] = IF i < pos - 1 THEN s[i] ELSE s[i + 1]
    BY <1>1, <2>1, Removed
  <2> HIDE DEF t
  <2>3. Stored(t)
    BY <1>1, <2>2, StoreSizes DEF Stored
  <2>4. DOMAIN t = 1 .. Len(s) - 1
    BY <2>2, LenProperties
  <2>5. ASSUME Ordered(s), NEW i \in DOMAIN t, NEW j \in DOMAIN t, i < j, t[j].published
        PROVE  t[i].published
    <3>1. /\ i \in 1 .. Len(s) /\ i + 1 \in 1 .. Len(s) /\ i \in 1 .. Len(s) - 1
          /\ j \in 1 .. Len(s) /\ j + 1 \in 1 .. Len(s) /\ j \in 1 .. Len(s) - 1
      BY <1>1, <2>4
    <3> DEFINE a == IF i < pos - 1 THEN i ELSE i + 1
               b == IF j < pos - 1 THEN j ELSE j + 1
    <3>2. a \in DOMAIN s /\ b \in DOMAIN s /\ a < b
      BY <1>1, <2>5, <3>1
    <3>3. t[i] = s[a] /\ t[j] = s[b]
      BY <2>2, <3>1
    <3> HIDE DEF a, b
    <3>4. s[a].published
      BY <2>5, <3>2, <3>3 DEF Ordered
    <3> QED BY <3>3, <3>4
  <2> QED BY <2>3, <2>5 DEF Ordered, t
<1>3. CASE pos = 1 /\ Len(s) = 1
  <2>1. Shifted(s, pos) = << >>
    BY <1>3 DEF Shifted
  <2>2. << >> \in Seq(Message) /\ Len(<< >>) = 0 /\ DOMAIN << >> = {}
    BY EmptySeq
  <2> QED BY <2>1, <2>2, StoreSizes DEF Stored, Ordered
<1>4. CASE pos = 1 /\ Len(s) # 1
  BY <1>4 DEF Shifted
<1> QED BY <1>1, <1>2, <1>3, <1>4

\* cleanUpMessages keeps a store and its order, whatever it takes for removable.
LEMMA CleanUpResult ==
  ASSUME NEW s, Stored(s), NEW removable \in SUBSET DOMAIN s
  PROVE  /\ Stored(cleanUpMessages(s, removable))
         /\ Ordered(s) => Ordered(cleanUpMessages(s, removable))
<1>1. Len(s) \in Nat /\ DOMAIN s = 1 .. Len(s) /\ s \in Seq(Message)
  BY LenProperties DEF Stored
<1>2. CASE removable = {}
  BY <1>2 DEF cleanUpMessages
<1>3. CASE removable # {}
  <2> DEFINE pos == Max(removable)
             m == s[pos]
             left == Shifted(s, pos)
             t == cleanUpMessages(s, removable)
             type == IF m.ack THEN "command" ELSE "data"
  <2>1. pos \in DOMAIN s
    <3>1. removable \subseteq Nat /\ \A x \in removable : x <= Len(s)
      BY <1>1
    <3>2. pos \in removable
      BY <1>1, <1>3, <3>1, MaxIn
    <3> QED BY <3>2
  <2>2. Stored(left) /\ (Ordered(s) => Ordered(left))
    BY <2>1, ShiftedResult
  <2>3. t = IF Resent(m) THEN publish_matter(left, m.id, type, FALSE) ELSE left
    BY <1>3 DEF cleanUpMessages
  <2>4. m.id \in Ids \cup {Online} /\ type \in {"data", "command"}
    <3>1. m \in Message
      BY <1>1, <2>1, ElementOfSeq
    <3> HIDE DEF m
    <3> QED BY <3>1 DEF Message
  <2> HIDE DEF left, t, type, m, pos
  <2>5. /\ Stored(publish_matter(left, m.id, type, FALSE))
        /\ Ordered(left) => Ordered(publish_matter(left, m.id, type, FALSE))
    BY <2>2, <2>4, PublishResult
  <2>6. Stored(t) /\ (Ordered(s) => Ordered(t))
    BY <2>2, <2>3, <2>5
  <2> QED BY <2>6 DEF t
<1> QED BY <1>2, <1>3

-----------------------------------------------------------------------------
\* The invariant

Inv == TypeOK /\ PublishedFirst

LEMMA InvStored == Inv => Stored(messages) /\ (failures = 0 => Ordered(messages))
BY DEF Inv, TypeOK, PublishedFirst, Stored, Ordered

\* What a pass makes of a store.
LEMMA ProcessResult ==
  ASSUME TypeOK, NEW store, Stored(store), failures = 0 => Ordered(store),
         processMessages(store)
  PROVE  /\ Stored(messages') /\ (failures' = 0 => Ordered(messages'))
         /\ delivered' \in [Ids -> 0 .. 2] /\ failures' \in 0 .. MAX_FAILURES
<1> DEFINE untried == {i \in DOMAIN store : ~store[i].published}
           removable == {i \in DOMAIN store : Removable(store[i])}
<1>1. removable \in SUBSET DOMAIN store
  OBVIOUS
<1>2. CASE ~mqtt_connected'
  <2>1. messages' = cleanUpMessages(store, removable) /\ UNCHANGED <<delivered, failures>>
    BY <1>2, Zenon DEF processMessages
  <2> HIDE DEF removable
  <2> QED BY <1>1, <2>1, CleanUpResult DEF TypeOK
<1>3. CASE mqtt_connected'
  <2>1. PICK failing \in {0} \cup untried :
          /\ failing # 0 => failures < MAX_FAILURES
          /\ failures' = failures + (IF failing = 0 THEN 0 ELSE 1)
          /\ messages' = cleanUpMessages(Tried(store, failing), removable)
          /\ delivered' =
               [n \in Ids |-> Min({2, delivered[n] +
                  Cardinality({i \in untried : /\ Tried(store, failing)[i].published
                                               /\ Tried(store, failing)[i].id = n
                                               /\ Tried(store, failing)[i].type = "data"})})]
    BY <1>3, Zenon DEF processMessages
  <2>2. /\ Stored(Tried(store, failing)) /\ DOMAIN Tried(store, failing) = DOMAIN store
        /\ failing = 0 => \A i \in DOMAIN store : Tried(store, failing)[i].published
    BY TriedResult
  <2>3. failures \in 0 .. MAX_FAILURES /\ MAX_FAILURES \in Nat
    BY StoreSizes DEF TypeOK
  <2>4. failures' \in 0 .. MAX_FAILURES /\ (failures' = 0 => failing = 0)
    BY <2>1, <2>3
  <2>5. failing = 0 => Ordered(Tried(store, failing))
    BY <2>2 DEF Ordered
  <2>6. Stored(messages') /\ (failures' = 0 => Ordered(messages'))
    <3> HIDE DEF removable
    <3> QED BY <1>1, <2>1, <2>2, <2>4, <2>5, CleanUpResult
  <2>7. ASSUME NEW n \in Ids
        PROVE  Min({2, delivered[n] +
                  Cardinality({i \in untried : /\ Tried(store, failing)[i].published
                                               /\ Tried(store, failing)[i].id = n
                                               /\ Tried(store, failing)[i].type = "data"})})
                 \in 0 .. 2
    <3> DEFINE sent == {i \in untried : /\ Tried(store, failing)[i].published
                                        /\ Tried(store, failing)[i].id = n
                                        /\ Tried(store, failing)[i].type = "data"}
    <3>1. sent \subseteq 1 .. Len(store) /\ Len(store) \in Nat
      <4>1. Len(store) \in Nat /\ DOMAIN store = 1 .. Len(store)
        BY LenProperties DEF Stored
      <4> QED BY <4>1
    <3> HIDE DEF sent
    <3>2. IsFiniteSet(1 .. Len(store))
      BY <3>1, FS_Interval
    <3>3. IsFiniteSet(sent)
      BY <3>1, <3>2, FS_Subset
    <3>4. Cardinality(sent) \in Nat
      BY <3>3, FS_CardinalityType
    <3>5. delivered[n] \in Nat
      BY DEF TypeOK
    <3>6. delivered[n] + Cardinality(sent) \in Nat
      BY <3>4, <3>5
    <3>7. Min({2, delivered[n] + Cardinality(sent)}) \in 0 .. 2
      BY <3>6, MinTwo
    <3> QED BY <3>7 DEF sent
  <2>8. delivered' \in [Ids -> 0 .. 2]
    BY <2>1, <2>7
  <2> QED BY <2>4, <2>6, <2>8
<1> QED BY <1>2, <1>3

\* A pass keeps the invariant.
LEMMA LoopStep ==
  ASSUME Inv, NEW d \in Nat, NEW connects \in BOOLEAN, LoopPass(d, connects)
  PROVE  Inv'
<1> DEFINE old == Older(messages, d)
           new == IF ~connected /\ connects THEN publish_matter(old, Online, "data", FALSE)
                  ELSE old
<1>1. Stored(messages) /\ (failures = 0 => Ordered(messages))
  BY InvStored
<1>2. /\ Stored(old) /\ DOMAIN old = DOMAIN messages
      /\ \A i \in DOMAIN messages : old[i].published = messages[i].published
  BY <1>1, OlderResult
<1>3. failures = 0 => Ordered(old)
  <2> HIDE DEF old
  <2> QED BY <1>1, <1>2, Zenon DEF Ordered
<1>4. /\ processMessages(new)
      /\ UNCHANGED mqtt_connected \/ mqtt_connected' = connects
      /\ connected' = (connects /\ failures' = failures)
      /\ UNCHANGED <<valid, phase, submitted, losses, cycles>>
  <2>1. CASE connected
    BY <2>1, Zenon DEF LoopPass
  <2>2. CASE ~connected /\ connects
    BY <2>2, Zenon DEF LoopPass
  <2>3. CASE ~connected /\ ~connects
    BY <2>3, Zenon DEF LoopPass
  <2> QED BY <2>1, <2>2, <2>3
<1> HIDE DEF old
<1>5. Stored(new) /\ (failures = 0 => Ordered(new))
  <2>1. /\ Stored(publish_matter(old, Online, "data", FALSE))
        /\ Ordered(old) => Ordered(publish_matter(old, Online, "data", FALSE))
    BY <1>2, PublishResult
  <2> QED BY <1>2, <1>3, <2>1
<1> HIDE DEF new
<1>6. TypeOK
  BY DEF Inv
<1>7. /\ Stored(messages') /\ (failures' = 0 => Ordered(messages'))
      /\ delivered' \in [Ids -> 0 .. 2] /\ failures' \in 0 .. MAX_FAILURES
  BY <1>4, <1>5, <1>6, ProcessResult
<1>8. connected' \in BOOLEAN
  BY <1>4, Zenon
<1>9. mqtt_connected' \in BOOLEAN /\ valid' \in BOOLEAN
  BY <1>4, <1>6, Zenon DEF TypeOK
<1>10. /\ phase' \in {"loading", "inited", "begun"} /\ submitted' \in 0 .. MAX_SUBMITS
       /\ losses' \in 0 .. MAX_LOSSES /\ cycles' \in 0 .. MAX_CYCLES
  BY <1>4, <1>6 DEF TypeOK
<1> QED BY <1>7, <1>8, <1>9, <1>10, Zenon DEF Inv, TypeOK, PublishedFirst, Stored, Ordered

\* The store a restart leaves.
LEMMA EmptyStore == Stored(<< >>) /\ Ordered(<< >>)
<1>1. << >> \in Seq(Message) /\ Len(<< >>) = 0 /\ DOMAIN << >> = {}
  BY EmptySeq
<1> QED BY <1>1, StoreSizes DEF Stored, Ordered

\* The invariant in terms of its parts.
Rest ==
  /\ valid \in BOOLEAN /\ phase \in {"loading", "inited", "begun"}
  /\ connected \in BOOLEAN /\ mqtt_connected \in BOOLEAN
  /\ delivered \in [Ids -> 0 .. 2]
  /\ submitted \in 0 .. MAX_SUBMITS /\ failures \in 0 .. MAX_FAILURES
  /\ losses \in 0 .. MAX_LOSSES /\ cycles \in 0 .. MAX_CYCLES

LEMMA InvParts ==
  ASSUME Rest', Stored(messages'), failures' = 0 => Ordered(messages')
  PROVE  Inv'
BY Zenon DEF Inv, TypeOK, PublishedFirst, Stored, Ordered, Rest

LEMMA InvRest == Inv => Rest
BY Zenon DEF Inv, TypeOK, Rest

LEMMA PublishStep ==
  ASSUME Inv, NEW type \in Types, NEW ack \in BOOLEAN, publish(type, ack)
  PROVE  Inv'
<1>1. /\ submitted < MAX_SUBMITS /\ submitted' = submitted + 1
      /\ messages' = publish_matter(messages, submitted', type, ack)
      /\ UNCHANGED <<deviceVars, delivered, failures, losses, cycles>>
  BY DEF publish
<1>2. submitted' \in 0 .. MAX_SUBMITS /\ submitted' \in Ids
  BY <1>1, StoreSizes DEF Inv, TypeOK, Ids
<1>3. type \in {"data", "command"}
  BY StoreSizes
<1>4. Stored(messages) /\ (failures = 0 => Ordered(messages))
  BY InvStored
<1>5. Stored(messages') /\ (failures' = 0 => Ordered(messages'))
  BY <1>1, <1>2, <1>3, <1>4, PublishResult
<1>6. Rest'
  <2>1. /\ valid' = valid /\ phase' = phase /\ connected' = connected
        /\ mqtt_connected' = mqtt_connected /\ delivered' = delivered
        /\ failures' = failures /\ losses' = losses /\ cycles' = cycles
    BY <1>1 DEF deviceVars
  <2> QED BY <1>2, <2>1, InvRest, Zenon DEF Rest
<1> QED BY <1>5, <1>6, InvParts

\* Starts, the loss of the connection and the end of a configuration.
LEMMA DeviceStep ==
  ASSUME Inv, PowerCycle \/ StoredSettings \/ loadConfiguration \/ UnbegunPass \/ LinkLost
              \/ UNCHANGED vars
  PROVE  Inv'
<1>1. Stored(messages) /\ (failures = 0 => Ordered(messages)) /\ Rest
  BY InvStored, InvRest
<1>2. CASE PowerCycle \/ UnbegunPass
  <2>1. /\ phase' = "loading" /\ connected' = FALSE /\ mqtt_connected' = FALSE
        /\ messages' = << >> /\ UNCHANGED <<valid, delivered, submitted, failures, losses>>
        /\ \/ cycles' = cycles
           \/ cycles < MAX_CYCLES /\ cycles' = cycles + 1
    BY <1>2 DEF PowerCycle, UnbegunPass, Boot, bounds
  <2>2. cycles' \in 0 .. MAX_CYCLES
    BY <1>1, <2>1, StoreSizes DEF Rest
  <2>3. phase' \in {"loading", "inited", "begun"}
    BY <2>1
  <2>4. Rest'
    BY <1>1, <2>1, <2>2, <2>3, Zenon DEF Rest
  <2>5. Stored(messages') /\ Ordered(messages')
    BY <2>1, EmptyStore
  <2> QED BY <2>4, <2>5, InvParts
<1>3. CASE StoredSettings \/ loadConfiguration \/ LinkLost \/ UNCHANGED vars
  <2>1. /\ UNCHANGED <<messages, mqtt_connected, delivered, submitted, failures, cycles>>
        /\ valid' = valid \/ valid' = TRUE
        /\ phase' = phase \/ phase' = "begun" \/ phase' = "inited"
        /\ connected' = connected \/ connected' = FALSE
        /\ losses' = losses \/ (losses < MAX_LOSSES /\ losses' = losses + 1)
    <3>1. CASE StoredSettings
      BY <3>1 DEF StoredSettings, bounds
    <3>2. CASE loadConfiguration
      BY <3>2 DEF loadConfiguration, bounds
    <3>3. CASE LinkLost
      BY <3>3 DEF LinkLost
    <3>4. CASE UNCHANGED vars
      BY <3>4 DEF vars, deviceVars, bounds
    <3> QED BY <1>3, <3>1, <3>2, <3>3, <3>4
  <2>2. losses' \in 0 .. MAX_LOSSES /\ phase' \in {"loading", "inited", "begun"}
    BY <1>1, <2>1, StoreSizes DEF Rest
  <2>3. Rest'
    BY <1>1, <2>1, <2>2, Zenon DEF Rest
  <2>4. Stored(messages') /\ (failures' = 0 => Ordered(messages'))
    BY <1>1, <2>1
  <2> QED BY <2>3, <2>4, InvParts
<1> QED BY <1>2, <1>3

LEMMA InvStep == Inv /\ [Next]_vars => Inv'
<1> SUFFICES ASSUME Inv, [Next]_vars PROVE Inv'
  OBVIOUS
<1>1. ASSUME NEW d \in {0, 1, OldAge}, NEW connects \in BOOLEAN, LoopPass(d, connects)
      PROVE  Inv'
  <2>1. d \in Nat
    BY StoreSizes DEF OldAge
  <2> QED BY <1>1, <2>1, LoopStep
<1>2. ASSUME NEW type \in Types, NEW ack \in BOOLEAN, publish(type, ack)
      PROVE  Inv'
  BY <1>2, PublishStep
<1> QED BY <1>1, <1>2, DeviceStep, Zenon DEF Next

LEMMA InvInit == Init => Inv
<1> SUFFICES ASSUME Init PROVE Inv
  OBVIOUS
<1>1. messages = << >> /\ Stored(messages) /\ Ordered(messages)
  BY EmptyStore DEF Init
<1>2. /\ valid \in BOOLEAN /\ connected \in BOOLEAN /\ mqtt_connected \in BOOLEAN
  BY Zenon DEF Init
<1>3. /\ phase \in {"loading", "inited", "begun"} /\ delivered \in [Ids -> 0 .. 2]
      /\ submitted \in 0 .. MAX_SUBMITS /\ failures \in 0 .. MAX_FAILURES
      /\ losses \in 0 .. MAX_LOSSES /\ cycles \in 0 .. MAX_CYCLES
  BY StoreSizes DEF Init
<1> QED BY <1>1, <1>2, <1>3, Zenon DEF Inv, TypeOK, PublishedFirst, Stored, Ordered

LEMMA Invariance == Spec => []Inv
<1> QED BY InvInit, InvStep, PTL DEF Spec

-----------------------------------------------------------------------------
\* What the store's operations leave of each message

\* publish_matter changes nothing, or appends the message.
LEMMA PublishShape ==
  ASSUME NEW s, Stored(s), NEW id \in Ids \cup {Online},
         NEW type \in {"data", "command"}, NEW ack \in BOOLEAN
  PROVE  \/ publish_matter(s, id, type, ack) = s
         \/ /\ DOMAIN publish_matter(s, id, type, ack) = 1 .. Len(s) + 1
            /\ \A i \in 1 .. Len(s) : publish_matter(s, id, type, ack)[i] = s[i]
            /\ publish_matter(s, id, type, ack)[Len(s) + 1] =
                 [id |-> id, type |-> type, ack |-> ack, published |-> FALSE,
                  error |-> FALSE, age |-> 0]
<1> DEFINE m == [id |-> id, type |-> type, ack |-> ack, published |-> FALSE,
                 error |-> FALSE, age |-> 0]
<1>1. m \in Message
  <2>1. 0 \in 0 .. OldAge
    BY StoreSizes DEF OldAge
  <2> QED BY <2>1 DEF Message
<1>2. publish_matter(s, id, type, ack) = IF ~HasRoom(s) THEN s ELSE Append(s, m)
  BY DEF publish_matter
<1> HIDE DEF m
<1>3. /\ Append(s, m) \in Seq(Message) /\ Len(Append(s, m)) = Len(s) + 1
      /\ \A i \in 1 .. Len(s) : Append(s, m)[i] = s[i]
      /\ Append(s, m)[Len(s) + 1] = m
  BY <1>1, AppendProperties DEF Stored
<1>4. DOMAIN Append(s, m) = 1 .. Len(s) + 1
  BY <1>3, LenProperties
<1> QED BY <1>2, <1>3, <1>4 DEF m

\* Closing the gap leaves the other messages in their order.
LEMMA ShiftedShape ==
  ASSUME NEW s, Stored(s), NEW pos \in DOMAIN s
  PROVE  \/ Shifted(s, pos) = s
         \/ pos = 1 /\ Len(s) = 1 /\ DOMAIN Shifted(s, pos) = {}
         \/ /\ pos > 1 /\ DOMAIN Shifted(s, pos) = 1 .. Len(s) - 1
            /\ \A i \in 1 .. Len(s) - 1 :
                 Shifted(s, pos)[i] = IF i < pos - 1 THEN s[i] ELSE s[i + 1]
<1>1. Len(s) \in Nat /\ DOMAIN s = 1 .. Len(s) /\ s \in Seq(Message)
  BY LenProperties DEF Stored
<1>2. CASE pos > 1
  <2> DEFINE t == RemoveAt(s, pos - 1)
  <2>1. Shifted(s, pos) = t /\ pos - 1 \in 1 .. Len(s)
    BY <1>1, <1>2 DEF Shifted
  <2>2. /\ t \in Seq(Message) /\ Len(t) = Len(s) - 1
        /\ \A i \in 1 .. Len(s) - 1 : t[i] = IF i < pos - 1 THEN s[i] ELSE s[i + 1]
    BY <1>1, <2>1, Removed
  <2> HIDE DEF t
  <2>3. DOMAIN t = 1 .. Len(s) - 1
    BY <2>2, LenProperties
  <2> QED BY <1>2, <2>1, <2>2, <2>3
<1>3. CASE pos = 1 /\ Len(s) = 1
  <2>1. Shifted(s, pos) = << >> /\ DOMAIN << >> = {}
    BY <1>3, EmptySeq DEF Shifted
  <2> QED BY <1>3, <2>1
<1>4. CASE pos = 1 /\ Len(s) # 1
  BY <1>4 DEF Shifted
<1> QED BY <1>1, <1>2, <1>3, <1>4

\* The clean-up does nothing, or deals with the last of the removable messages.
LEMMA CleanUpShape ==
  ASSUME NEW s, Stored(s), NEW removable \in SUBSET DOMAIN s
  PROVE  \/ cleanUpMessages(s, removable) = s
         \/ \E pos \in removable :
              /\ s[pos] \in Message
              /\ cleanUpMessages(s, removable) =
                   IF Resent(s[pos])
                   THEN publish_matter(Shifted(s, pos), s[pos].id,
                                       IF s[pos].ack THEN "command" ELSE "data", FALSE)
                   ELSE Shifted(s, pos)
<1>1. Len(s) \in Nat /\ DOMAIN s = 1 .. Len(s) /\ s \in Seq(Message)
  BY LenProperties DEF Stored
<1>2. CASE removable = {}
  BY <1>2 DEF cleanUpMessages
<1>3. CASE removable # {}
  <2>1. removable \subseteq Nat /\ \A x \in removable : x <= Len(s)
    BY <1>1
  <2>2. Max(removable) \in removable
    BY <1>1, <1>3, <2>1, MaxIn
  <2>3. s[Max(removable)] \in Message
    BY <1>1, <2>2, ElementOfSeq
  <2> QED BY <1>3, <2>2, <2>3, Zenon DEF cleanUpMessages
<1> QED BY <1>2, <1>3

-----------------------------------------------------------------------------
\* No message twice

\* A data message of the sketch
Data(m) == m.type = "data" /\ m.id # Online

\* No message has failed, each data message is in the store once, is one that was
\* submitted, and has not been delivered before it is published.
Unique(s, del, sub) ==
  /\ \A i \in DOMAIN s : ~s[i].error
  /\ \A i \in DOMAIN s : Data(s[i]) => s[i].id <= sub
  /\ \A i, j \in DOMAIN s : Data(s[i]) /\ Data(s[j]) /\ s[i].id = s[j].id => i = j
  /\ \A i \in DOMAIN s : Data(s[i]) /\ ~s[i].published => del[s[i].id] = 0

Counted(del, sub) == \A n \in Ids : del[n] <= 1 /\ (n > sub => del[n] = 0)

OnceInv ==
  failures = 0 => Unique(messages, delivered, submitted) /\ Counted(delivered, submitted)

LEMMA OlderShape ==
  ASSUME NEW s, NEW d \in Nat, Stored(s)
  PROVE  /\ DOMAIN Older(s, d) = DOMAIN s
         /\ \A i \in DOMAIN s :
              /\ Older(s, d)[i].id = s[i].id /\ Older(s, d)[i].type = s[i].type
              /\ Older(s, d)[i].published = s[i].published
              /\ Older(s, d)[i].error = s[i].error /\ Older(s, d)[i].ack = s[i].ack
<1> SUFFICES ASSUME NEW i \in DOMAIN s
             PROVE  /\ Older(s, d)[i].id = s[i].id /\ Older(s, d)[i].type = s[i].type
                    /\ Older(s, d)[i].published = s[i].published
                    /\ Older(s, d)[i].error = s[i].error /\ Older(s, d)[i].ack = s[i].ack
  BY DEF Older
<1>1. s[i] \in Message
  BY LenProperties, ElementOfSeq DEF Stored
<1> DEFINE a == IF s[i].age + d < OldAge THEN s[i].age + d ELSE OldAge
<1>2. Older(s, d)[i] = [s[i] EXCEPT !.age = a]
  BY DEF Older
<1> HIDE DEF a
<1> QED BY <1>1, <1>2 DEF Message

LEMMA UniqueOlder ==
  ASSUME NEW s, NEW d \in Nat, Stored(s), NEW del, NEW sub, Unique(s, del, sub)
  PROVE  Unique(Older(s, d), del, sub)
<1> DEFINE t == Older(s, d)
<1>1. /\ DOMAIN t = DOMAIN s
      /\ \A i \in DOMAIN s : /\ t[i].id = s[i].id /\ t[i].type = s[i].type
                             /\ t[i].published = s[i].published /\ t[i].error = s[i].error
  BY OlderShape
<1> HIDE DEF t
<1>2. \A i \in DOMAIN s : Data(t[i]) <=> Data(s[i])
  BY <1>1 DEF Data
<1>3. Unique(t, del, sub)
  BY <1>1, <1>2, Zenon DEF Unique
<1> QED BY <1>3 DEF t

\* A message that is appended is new, or no data message of the sketch.
LEMMA UniquePublish ==
  ASSUME NEW s, Stored(s), NEW id \in Ids \cup {Online},
         NEW type \in {"data", "command"}, NEW ack \in BOOLEAN,
         NEW del, NEW sub \in Nat, NEW sub2 \in Nat, sub <= sub2, Unique(s, del, sub),
         type = "data" /\ id # Online => id > sub /\ id <= sub2 /\ del[id] = 0
  PROVE  Unique(publish_matter(s, id, type, ack), del, sub2)
<1> DEFINE t == publish_matter(s, id, type, ack)
<1>0. Len(s) \in Nat /\ DOMAIN s = 1 .. Len(s)
  BY LenProperties DEF Stored
<1>1. \A i \in DOMAIN s : s[i] \in Message
  BY <1>0, ElementOfSeq DEF Stored
<1>2. \A i \in DOMAIN s : Data(s[i]) => s[i].id <= sub2 /\ s[i].id <= sub
  <2> SUFFICES ASSUME NEW i \in DOMAIN s, Data(s[i]) PROVE s[i].id <= sub2 /\ s[i].id <= sub
    OBVIOUS
  <2>1. s[i].id <= sub
    BY DEF Unique
  <2>2. s[i].id \in Nat
    BY <1>1, StoreSizes DEF Message, Ids, Online
  <2> QED BY <2>1, <2>2
<1>3. CASE t = s
  BY <1>2, <1>3, Zenon DEF Unique
<1>4. CASE /\ DOMAIN t = 1 .. Len(s) + 1
           /\ \A i \in 1 .. Len(s) : t[i] = s[i]
           /\ t[Len(s) + 1] = [id |-> id, type |-> type, ack |-> ack, published |-> FALSE,
                               error |-> FALSE, age |-> 0]
  <2> HIDE DEF t
  <2> DEFINE l == Len(s) + 1
  <2>1. /\ DOMAIN t = DOMAIN s \cup {l} /\ l \notin DOMAIN s
        /\ \A i \in DOMAIN s : t[i] = s[i]
    BY <1>0, <1>4
  <2>2. /\ t[l].id = id /\ t[l].type = type /\ ~t[l].error
        /\ Data(t[l]) <=> type = "data" /\ id # Online
    BY <1>4 DEF Data
  <2> HIDE DEF l
  <2>3. Data(t[l]) => id \in Nat /\ id > sub /\ id <= sub2 /\ del[id] = 0
    BY <2>2, StoreSizes DEF Ids
  <2>4. \A i \in DOMAIN t : ~t[i].error
    BY <2>1, <2>2, Zenon DEF Unique
  <2>5. \A i \in DOMAIN t : Data(t[i]) => t[i].id <= sub2
    BY <1>2, <2>1, <2>2, <2>3
  <2>6. \A i \in DOMAIN s : Data(s[i]) /\ Data(t[l]) => s[i].id # t[l].id
    <3> SUFFICES ASSUME NEW i \in DOMAIN s, Data(s[i]), Data(t[l]), s[i].id = t[l].id
                 PROVE  FALSE
      OBVIOUS
    <3>1. s[i].id <= sub /\ s[i].id = id
      BY <1>2, <2>2
    <3> QED BY <2>3, <3>1
  <2>7. \A i, j \in DOMAIN t : Data(t[i]) /\ Data(t[j]) /\ t[i].id = t[j].id => i = j
    BY <2>1, <2>6, Zenon DEF Unique
  <2>8. \A i \in DOMAIN t : Data(t[i]) /\ ~t[i].published => del[t[i].id] = 0
    BY <2>1, <2>2, <2>3, Zenon DEF Unique
  <2>9. Unique(t, del, sub2)
    BY <2>4, <2>5, <2>7, <2>8, Zenon DEF Unique
  <2> QED BY <2>9 DEF t
<1> HIDE DEF t
<1>5. Unique(t, del, sub2)
  BY <1>3, <1>4, PublishShape DEF t
<1> QED BY <1>5 DEF t

LEMMA UniqueShifted ==
  ASSUME NEW s, Stored(s), NEW pos \in DOMAIN s, NEW del, NEW sub, Unique(s, del, sub)
  PROVE  Unique(Shifted(s, pos), del, sub)
<1> DEFINE t == Shifted(s, pos)
           at(i) == IF i < pos - 1 THEN i ELSE i + 1
<1>0. Len(s) \in Nat /\ DOMAIN s = 1 .. Len(s)
  BY LenProperties DEF Stored
<1>1. CASE t = s
  BY <1>1
<1>2. CASE DOMAIN t = {}
  BY <1>2 DEF Unique
<1>3. CASE /\ pos > 1 /\ DOMAIN t = 1 .. Len(s) - 1
           /\ \A i \in 1 .. Len(s) - 1 : t[i] = IF i < pos - 1 THEN s[i] ELSE s[i + 1]
  <2> HIDE DEF t
  <2>1. \A i \in DOMAIN t : at(i) \in DOMAIN s /\ t[i] = s[at(i)]
    BY <1>0, <1>3
  <2>2. \A i, j \in DOMAIN t : at(i) = at(j) => i = j
    BY <1>0, <1>3
  <2> HIDE DEF at
  <2>3. /\ \A i \in DOMAIN t : ~t[i].error
        /\ \A i \in DOMAIN t : Data(t[i]) => t[i].id <= sub
        /\ \A i \in DOMAIN t : Data(t[i]) /\ ~t[i].published => del[t[i].id] = 0
    BY <2>1 DEF Unique
  <2>4. ASSUME NEW i \in DOMAIN t, NEW j \in DOMAIN t, Data(t[i]), Data(t[j]), t[i].id = t[j].id
        PROVE  i = j
    <3>1. /\ at(i) \in DOMAIN s /\ t[i] = s[at(i)]
          /\ at(j) \in DOMAIN s /\ t[j] = s[at(j)]
      BY <2>1
    <3>2. at(i) = at(j)
      BY <2>4, <3>1 DEF Unique
    <3> QED BY <2>2, <3>2
  <2>5. Unique(t, del, sub)
    BY <2>3, <2>4, Zenon DEF Unique
  <2> QED BY <2>5 DEF t
<1> HIDE DEF t
<1>4. Unique(t, del, sub)
  BY <1>1, <1>2, <1>3, ShiftedShape DEF t
<1> QED BY <1>4 DEF t

\* What the clean-up sends again, without a failure, is a command.
LEMMA UniqueCleanUp ==
  ASSUME NEW s, Stored(s), NEW removable \in SUBSET DOMAIN s,
         NEW del, NEW sub \in Nat, Unique(s, del, sub)
  PROVE  Unique(cleanUpMessages(s, removable), del, sub)
<1> DEFINE t == cleanUpMessages(s, removable)
<1>1. CASE t = s
  BY <1>1
<1>2. CASE t # s
  <2>1. PICK pos \in removable :
          /\ s[pos] \in Message
          /\ t = IF Resent(s[pos])
                 THEN publish_matter(Shifted(s, pos), s[pos].id,
                                     IF s[pos].ack THEN "command" ELSE "data", FALSE)
                 ELSE Shifted(s, pos)
    BY <1>2, CleanUpShape
  <2>2. Stored(Shifted(s, pos)) /\ Unique(Shifted(s, pos), del, sub)
    BY ShiftedResult, UniqueShifted
  <2>3. CASE Resent(s[pos])
    <3>1. s[pos].ack
      BY <2>3 DEF Resent, Unique
    <3>2. s[pos].id \in Ids \cup {Online}
      BY <2>1 DEF Message
    <3>3. t = publish_matter(Shifted(s, pos), s[pos].id, "command", FALSE)
      BY <2>1, <2>3, <3>1
    <3>4. Unique(publish_matter(Shifted(s, pos), s[pos].id, "command", FALSE), del, sub)
      <4>1. "command" # "data" /\ "command" \in {"data", "command"} /\ sub <= sub
        OBVIOUS
      <4> QED BY <2>2, <3>2, <4>1, UniquePublish
    <3> QED BY <3>3, <3>4, Zenon
  <2>4. CASE ~Resent(s[pos])
    BY <2>1, <2>2, <2>4
  <2> QED BY <2>3, <2>4
<1> QED BY <1>1, <1>2

\* A try that publishes all gives each data message to the broker that waits for
\* it, and no other.
LEMMA TriedOnce ==
  ASSUME NEW s, Stored(s), NEW del \in [Ids -> 0 .. 2], NEW sub \in Nat,
         Unique(s, del, sub), Counted(del, sub),
         NEW n \in Ids,
         NEW new, new = Min({2, del[n] +
                  Cardinality({i \in {k \in DOMAIN s : ~s[k].published} :
                                 /\ Tried(s, 0)[i].published
                                 /\ Tried(s, 0)[i].id = n
                                 /\ Tried(s, 0)[i].type = "data"})})
  PROVE  /\ new <= 1 /\ (n > sub => new = 0)
         /\ (\E i \in DOMAIN s : ~s[i].published /\ s[i].id = n /\ s[i].type = "data")
              => new > del[n]
<1> DEFINE sent == {i \in DOMAIN s : ~s[i].published /\ s[i].id = n /\ s[i].type = "data"}
<1>1. {i \in {k \in DOMAIN s : ~s[k].published} : /\ Tried(s, 0)[i].published
                                                  /\ Tried(s, 0)[i].id = n
                                                  /\ Tried(s, 0)[i].type = "data"} = sent
  <2> SUFFICES ASSUME NEW i \in DOMAIN s, ~s[i].published
               PROVE  /\ Tried(s, 0)[i].published
                      /\ Tried(s, 0)[i].id = s[i].id /\ Tried(s, 0)[i].type = s[i].type
    OBVIOUS
  <2>1. i > 0 /\ s[i] \in Message
    BY LenProperties, ElementOfSeq DEF Stored
  <2>2. Tried(s, 0)[i] = [s[i] EXCEPT !.published = TRUE]
    BY <2>1 DEF Tried
  <2> QED BY <2>1, <2>2 DEF Message
<1>2. n # Online /\ n \in Nat /\ del[n] \in 0 .. 1 /\ (n > sub => del[n] = 0)
  BY StoreSizes DEF Ids, Online, Counted
<1>3. CASE sent = {}
  <2>1. Cardinality(sent) = 0
    BY <1>3, FS_EmptySet
  <2> HIDE DEF sent
  <2>2. new = Min({2, del[n]})
    <3>1. new = Min({2, del[n] + 0})
      BY <1>1, <2>1, Zenon
    <3>2. del[n] + 0 = del[n]
      BY <1>2
    <3> QED BY <3>1, <3>2, Zenon
  <2>3. Min({2, del[n]}) = del[n]
    BY <1>2, MinSmaller
  <2>4. ~\E i \in DOMAIN s : ~s[i].published /\ s[i].id = n /\ s[i].type = "data"
    BY <1>3 DEF sent
  <2> QED BY <1>2, <2>2, <2>3, <2>4
<1>4. CASE sent # {}
  <2>1. PICK k \in sent : TRUE
    BY <1>4
  <2>2. Data(s[k]) /\ s[k].id = n /\ ~s[k].published /\ k \in DOMAIN s
    BY <1>2 DEF Data
  <2>3. sent = {k}
    BY <1>2, <2>2 DEF Unique, Data
  <2>4. del[n] = 0 /\ n <= sub
    BY <2>2 DEF Unique
  <2>5. Cardinality(sent) = 1
    BY <2>3, FS_Singleton
  <2> HIDE DEF sent
  <2>6. new = Min({2, 1})
    <3>1. new = Min({2, del[n] + 1})
      BY <1>1, <2>5, Zenon
    <3>2. del[n] + 1 = 1
      BY <2>4
    <3> QED BY <3>1, <3>2, Zenon
  <2>7. new = 1
    BY <2>6, MinSmaller
  <2> QED BY <1>2, <2>4, <2>7
<1> QED BY <1>3, <1>4

\* The store on which a pass works
PassStore(d, connects) ==
  IF ~connected /\ connects THEN publish_matter(Older(messages, d), Online, "data", FALSE)
  ELSE Older(messages, d)

LEMMA PassProcesses ==
  ASSUME NEW d \in Nat, NEW connects \in BOOLEAN, LoopPass(d, connects)
  PROVE  /\ processMessages(PassStore(d, connects))
         /\ UNCHANGED <<valid, phase, submitted, losses, cycles>>
<1>1. CASE connected
  BY <1>1, Zenon DEF LoopPass, PassStore
<1>2. CASE ~connected /\ connects
  BY <1>2, Zenon DEF LoopPass, PassStore
<1>3. CASE ~connected /\ ~connects
  BY <1>3, Zenon DEF LoopPass, PassStore
<1> QED BY <1>1, <1>2, <1>3

\* It holds the messages of the pass before, and they are the same but older.
LEMMA PassStoreResult ==
  ASSUME Inv, NEW d \in Nat, NEW connects \in BOOLEAN
  PROVE  /\ Stored(PassStore(d, connects))
         /\ failures = 0 => Ordered(PassStore(d, connects))
         /\ Unique(messages, delivered, submitted)
              => Unique(PassStore(d, connects), delivered, submitted)
<1> DEFINE old == Older(messages, d)
<1>1. Stored(messages) /\ (failures = 0 => Ordered(messages)) /\ submitted \in Nat
  BY InvStored, StoreSizes DEF Inv, TypeOK
<1>2. /\ Stored(old) /\ DOMAIN old = DOMAIN messages
      /\ \A i \in DOMAIN messages : old[i].published = messages[i].published
  BY <1>1, OlderResult
<1>3. ASSUME Unique(messages, delivered, submitted)
      PROVE  Unique(old, delivered, submitted)
  BY <1>1, <1>3, UniqueOlder
<1> HIDE DEF old
<1>4. failures = 0 => Ordered(old)
  BY <1>1, <1>2, Zenon DEF Ordered
<1>5. CASE ~connected /\ connects
  <2>1. PassStore(d, connects) = publish_matter(old, Online, "data", FALSE)
    BY <1>5 DEF PassStore, old
  <2>2. ASSUME Unique(old, delivered, submitted)
        PROVE  Unique(publish_matter(old, Online, "data", FALSE), delivered, submitted)
    <3>1. /\ Online \in Ids \cup {Online} /\ "data" \in {"data", "command"}
          /\ FALSE \in BOOLEAN /\ submitted <= submitted
      BY <1>1
    <3>2. ~("data" = "data" /\ Online # Online)
      OBVIOUS
    <3> QED BY <1>1, <1>2, <2>2, <3>1, <3>2, UniquePublish
  <2>3. /\ Stored(publish_matter(old, Online, "data", FALSE))
        /\ Ordered(old) => Ordered(publish_matter(old, Online, "data", FALSE))
    BY <1>2, PublishResult
  <2> QED BY <1>3, <1>4, <2>1, <2>2, <2>3
<1>6. CASE ~(~connected /\ connects)
  <2>1. PassStore(d, connects) = old
    BY <1>6 DEF PassStore, old
  <2> QED BY <1>2, <1>3, <1>4, <2>1
<1> QED BY <1>5, <1>6

\* A pass in which nothing fails delivers what it publishes, and leaves each
\* message in the store at most once.
LEMMA ProcessOnce ==
  ASSUME Inv, NEW store, Stored(store), submitted' = submitted,
         failures = 0 => Unique(store, delivered, submitted) /\ Counted(delivered, submitted),
         processMessages(store)
  PROVE  OnceInv'
<1> DEFINE untried == {i \in DOMAIN store : ~store[i].published}
           removable == {i \in DOMAIN store : Removable(store[i])}
<1>0. /\ failures \in Nat /\ submitted \in Nat /\ delivered \in [Ids -> 0 .. 2]
      /\ removable \in SUBSET DOMAIN store
  BY StoreSizes DEF Inv, TypeOK
<1>1. CASE ~mqtt_connected'
  <2>1. messages' = cleanUpMessages(store, removable) /\ UNCHANGED <<delivered, failures>>
    BY <1>1, Zenon DEF processMessages
  <2> HIDE DEF removable
  <2>2. failures = 0 => Unique(messages', delivered, submitted)
    BY <1>0, <2>1, UniqueCleanUp
  <2> QED BY <2>1, <2>2, Zenon DEF OnceInv
<1>2. CASE mqtt_connected'
  <2>1. PICK failing \in {0} \cup untried :
          /\ failures' = failures + (IF failing = 0 THEN 0 ELSE 1)
          /\ messages' = cleanUpMessages(Tried(store, failing), removable)
          /\ delivered' =
               [n \in Ids |-> Min({2, delivered[n] +
                  Cardinality({i \in untried : /\ Tried(store, failing)[i].published
                                               /\ Tried(store, failing)[i].id = n
                                               /\ Tried(store, failing)[i].type = "data"})})]
    BY <1>2, Zenon DEF processMessages
  <2> SUFFICES ASSUME failures' = 0
               PROVE  Unique(messages', delivered', submitted) /\ Counted(delivered', submitted)
    BY Zenon DEF OnceInv
  <2>2. failing = 0 /\ failures = 0
    BY <1>0, <2>1
  <2>3. /\ Stored(Tried(store, 0)) /\ DOMAIN Tried(store, 0) = DOMAIN store
        /\ \A i \in DOMAIN store : Tried(store, 0)[i].published
    BY TriedResult
  <2>4. ASSUME NEW n \in Ids PROVE delivered'[n] <= 1 /\ (n > submitted => delivered'[n] = 0)
    <3>1. delivered'[n] =
            Min({2, delivered[n] +
                  Cardinality({i \in untried : /\ Tried(store, 0)[i].published
                                               /\ Tried(store, 0)[i].id = n
                                               /\ Tried(store, 0)[i].type = "data"})})
      BY <2>1, <2>2, Zenon
    <3> QED BY <1>0, <2>2, <3>1, TriedOnce
  <2>5. Unique(Tried(store, 0), delivered', submitted)
    <3>1. ASSUME NEW i \in DOMAIN store
          PROVE  /\ Tried(store, 0)[i].id = store[i].id
                 /\ Tried(store, 0)[i].type = store[i].type
                 /\ Tried(store, 0)[i].error = store[i].error
      <4>1. i > 0 /\ store[i] \in Message
        BY LenProperties, ElementOfSeq DEF Stored
      <4>2. Tried(store, 0)[i] = IF store[i].published THEN store[i]
                                 ELSE [store[i] EXCEPT !.published = TRUE]
        BY <4>1 DEF Tried
      <4> QED BY <4>1, <4>2 DEF Message
    <3>2. \A i \in DOMAIN store : Data(Tried(store, 0)[i]) <=> Data(store[i])
      BY <3>1, Zenon DEF Data
    <3> QED BY <2>2, <2>3, <3>1, <3>2, Zenon DEF Unique
  <2>6. messages' = cleanUpMessages(Tried(store, 0), removable)
    BY <2>1, <2>2, Zenon
  <2> HIDE DEF removable
  <2>7. Unique(messages', delivered', submitted)
    <3>1. Unique(cleanUpMessages(Tried(store, 0), removable), delivered', submitted)
      BY <1>0, <2>3, <2>5, UniqueCleanUp
    <3> QED BY <2>6, <3>1
  <2> QED BY <2>4, <2>7 DEF Counted
<1> QED BY <1>1, <1>2

\* Every step keeps it.
LEMMA OnceStep == Inv /\ OnceInv /\ [Next]_vars => OnceInv'
<1> SUFFICES ASSUME Inv, OnceInv, [Next]_vars PROVE OnceInv'
  OBVIOUS
<1>0. Stored(messages) /\ submitted \in Nat /\ delivered \in [Ids -> 0 .. 2]
  BY InvStored, StoreSizes DEF Inv, TypeOK
<1>1. ASSUME NEW d \in {0, 1, OldAge}, NEW connects \in BOOLEAN, LoopPass(d, connects)
      PROVE  OnceInv'
  <2>1. d \in Nat
    BY StoreSizes DEF OldAge
  <2>2. processMessages(PassStore(d, connects)) /\ submitted' = submitted
    BY <1>1, <2>1, PassProcesses
  <2>3. /\ Stored(PassStore(d, connects))
        /\ failures = 0 => /\ Unique(PassStore(d, connects), delivered, submitted)
                           /\ Counted(delivered, submitted)
    BY <2>1, PassStoreResult DEF OnceInv
  <2> QED BY <2>2, <2>3, ProcessOnce
<1>2. ASSUME NEW type \in Types, NEW ack \in BOOLEAN, publish(type, ack)
      PROVE  OnceInv'
  <2>1. /\ submitted < MAX_SUBMITS /\ submitted' = submitted + 1
        /\ messages' = publish_matter(messages, submitted', type, ack)
        /\ delivered' = delivered /\ failures' = failures
    BY <1>2 DEF publish
  <2>2. submitted' \in Nat /\ submitted' \in Ids /\ submitted <= submitted'
        /\ submitted' > submitted /\ submitted' <= submitted' /\ type \in {"data", "command"}
    BY <1>0, <2>1, StoreSizes DEF Ids
  <2> SUFFICES ASSUME failures = 0
               PROVE  Unique(messages', delivered, submitted') /\ Counted(delivered, submitted')
    BY <2>1, Zenon DEF OnceInv
  <2>3. Unique(messages, delivered, submitted) /\ Counted(delivered, submitted)
    BY DEF OnceInv
  <2>4. delivered[submitted'] = 0
    BY <2>2, <2>3 DEF Counted
  <2>5. Unique(publish_matter(messages, submitted', type, ack), delivered, submitted')
    BY <1>0, <2>2, <2>3, <2>4, UniquePublish
  <2>6. Counted(delivered, submitted')
    <3> SUFFICES ASSUME NEW n \in Ids, n > submitted' PROVE delivered[n] = 0
      BY <2>3, Zenon DEF Counted
    <3>1. n > submitted
      BY <1>0, <2>1, StoreSizes DEF Ids
    <3> QED BY <2>3, <3>1 DEF Counted
  <2> QED BY <2>1, <2>5, <2>6
<1>3. CASE PowerCycle \/ UnbegunPass
  <2>1. messages' = << >> /\ DOMAIN << >> = {}
        /\ delivered' = delivered /\ failures' = failures /\ submitted' = submitted
    BY <1>3, EmptySeq DEF PowerCycle, UnbegunPass, Boot, bounds
  <2>2. Unique(<< >>, delivered, submitted)
    BY <2>1 DEF Unique
  <2> QED BY <2>1, <2>2, Zenon DEF OnceInv
<1>4. CASE StoredSettings \/ loadConfiguration \/ LinkLost \/ UNCHANGED vars
  <2>1. UNCHANGED <<messages, delivered, failures, submitted>>
    BY <1>4 DEF StoredSettings, loadConfiguration, LinkLost, vars, bounds
  <2> QED BY <2>1, Zenon DEF OnceInv
<1> QED BY <1>1, <1>2, <1>3, <1>4, Zenon DEF Next

LEMMA OnceInvariance == Spec => [](Inv /\ OnceInv)
<1>1. Init => OnceInv
  <2> SUFFICES ASSUME Init PROVE Unique(messages, delivered, submitted)
                                 /\ Counted(delivered, submitted)
    BY DEF OnceInv
  <2>1. DOMAIN messages = {} /\ delivered = [n \in Ids |-> 0]
    BY EmptySeq DEF Init
  <2> QED BY <2>1 DEF Unique, Counted
<1> QED BY <1>1, InvInit, InvStep, OnceStep, PTL DEF Spec

-----------------------------------------------------------------------------
\* No message lost

Waits(s, n) ==
  \E i \in DOMAIN s : s[i].id = n /\ s[i].type = "data" /\ ~s[i].published

LEMMA WaitsPublish ==
  ASSUME NEW s, Stored(s), NEW id \in Ids \cup {Online},
         NEW type \in {"data", "command"}, NEW ack \in BOOLEAN, NEW n, Waits(s, n)
  PROVE  Waits(publish_matter(s, id, type, ack), n)
<1> DEFINE t == publish_matter(s, id, type, ack)
<1>0. Len(s) \in Nat /\ DOMAIN s = 1 .. Len(s)
  BY LenProperties DEF Stored
<1>1. PICK i \in DOMAIN s : s[i].id = n /\ s[i].type = "data" /\ ~s[i].published
  BY DEF Waits
<1>2. t = s \/ (DOMAIN t = 1 .. Len(s) + 1 /\ \A k \in 1 .. Len(s) : t[k] = s[k])
  BY PublishShape
<1> HIDE DEF t
<1>3. i \in DOMAIN t /\ t[i] = s[i]
  BY <1>0, <1>1, <1>2
<1>4. Waits(t, n)
  BY <1>1, <1>3, Zenon DEF Waits
<1> QED BY <1>4 DEF t

\* As long as published messages come first, the clean-up removes a published one,
\* although it is the one before the one it means.
LEMMA WaitsCleanUp ==
  ASSUME NEW s, Stored(s), Ordered(s), NEW removable \in SUBSET DOMAIN s,
         \A k \in removable : s[k].published,
         NEW n, Waits(s, n)
  PROVE  Waits(cleanUpMessages(s, removable), n)
<1> DEFINE t == cleanUpMessages(s, removable)
<1>0. Len(s) \in Nat /\ DOMAIN s = 1 .. Len(s)
  BY LenProperties DEF Stored
<1>1. CASE t = s
  BY <1>1
<1>2. CASE t # s
  <2>1. PICK pos \in removable :
          /\ s[pos] \in Message
          /\ t = IF Resent(s[pos])
                 THEN publish_matter(Shifted(s, pos), s[pos].id,
                                     IF s[pos].ack THEN "command" ELSE "data", FALSE)
                 ELSE Shifted(s, pos)
    BY <1>2, CleanUpShape
  <2> DEFINE left == Shifted(s, pos)
             type == IF s[pos].ack THEN "command" ELSE "data"
  <2>2. PICK i \in DOMAIN s : s[i].id = n /\ s[i].type = "data" /\ ~s[i].published
    BY DEF Waits
  <2>3. pos \in DOMAIN s /\ s[pos].published /\ pos < i
    <3>1. ~(i < pos) /\ i # pos
      BY <2>2 DEF Ordered
    <3> QED BY <1>0, <2>2, <3>1
  <2>4. Stored(left)
    BY ShiftedResult
  <2>5. Waits(left, n)
    <3>1. CASE left = s
      BY <3>1
    <3>2. CASE pos = 1 /\ Len(s) = 1
      BY <1>0, <2>2, <2>3, <3>2
    <3>3. CASE /\ pos > 1 /\ DOMAIN left = 1 .. Len(s) - 1
               /\ \A k \in 1 .. Len(s) - 1 : left[k] = IF k < pos - 1 THEN s[k] ELSE s[k + 1]
      <4> HIDE DEF left
      <4>1. i - 1 \in DOMAIN left /\ ~(i - 1 < pos - 1) /\ (i - 1) + 1 = i
        BY <1>0, <2>3, <3>3
      <4>2. left[i - 1] = s[i]
        BY <3>3, <4>1
      <4> QED BY <2>2, <4>1, <4>2, Zenon DEF Waits
    <3> QED BY <3>1, <3>2, <3>3, ShiftedShape
  <2>6. s[pos].id \in Ids \cup {Online} /\ type \in {"data", "command"}
    BY <2>1 DEF Message
  <2> HIDE DEF type, left, t
  <2>7. Waits(publish_matter(left, s[pos].id, type, FALSE), n)
    BY <2>4, <2>5, <2>6, WaitsPublish
  <2>8. Waits(t, n)
    BY <2>1, <2>5, <2>7, Zenon DEF left, type
  <2> QED BY <2>8 DEF t
<1> QED BY <1>1, <1>2

LEMMA FailuresGrow ==
  ASSUME failures \in Nat, NEW store, processMessages(store), failures' = 0
  PROVE  failures = 0
<1>1. \/ failures' = failures
      \/ \E failing : failures' = failures + (IF failing = 0 THEN 0 ELSE 1)
  BY Zenon DEF processMessages
<1> QED BY <1>1

\* A message that waits when a pass begins is delivered in it or waits on.
LEMMA ProcessKeeps ==
  ASSUME Inv, OnceInv, NEW store, Stored(store), Ordered(store),
         Unique(store, delivered, submitted), processMessages(store), failures' = 0,
         NEW n \in Ids, Waits(store, n)
  PROVE  Waits(messages', n) \/ delivered'[n] > delivered[n]
<1> DEFINE untried == {i \in DOMAIN store : ~store[i].published}
           removable == {i \in DOMAIN store : Removable(store[i])}
<1>0. /\ failures \in Nat /\ submitted \in Nat /\ delivered \in [Ids -> 0 .. 2]
      /\ removable \in SUBSET DOMAIN store
  BY StoreSizes DEF Inv, TypeOK
<1>1. CASE ~mqtt_connected'
  <2>1. messages' = cleanUpMessages(store, removable)
    BY <1>1, Zenon DEF processMessages
  <2>2. \A k \in removable : store[k].published
    BY DEF Removable
  <2> HIDE DEF removable
  <2>3. Waits(cleanUpMessages(store, removable), n)
    BY <1>0, <2>2, WaitsCleanUp
  <2> QED BY <2>1, <2>3
<1>2. CASE mqtt_connected'
  <2>1. PICK failing \in {0} \cup untried :
          /\ failures' = failures + (IF failing = 0 THEN 0 ELSE 1)
          /\ delivered' =
               [k \in Ids |-> Min({2, delivered[k] +
                  Cardinality({i \in untried : /\ Tried(store, failing)[i].published
                                               /\ Tried(store, failing)[i].id = k
                                               /\ Tried(store, failing)[i].type = "data"})})]
    BY <1>2, Zenon DEF processMessages
  <2>2. failing = 0 /\ failures = 0
    BY <1>0, <2>1
  <2>3. delivered'[n] =
          Min({2, delivered[n] +
                Cardinality({i \in untried : /\ Tried(store, 0)[i].published
                                             /\ Tried(store, 0)[i].id = n
                                             /\ Tried(store, 0)[i].type = "data"})})
    BY <2>1, <2>2, Zenon
  <2>4. Counted(delivered, submitted)
    BY <2>2 DEF OnceInv
  <2>5. \E i \in DOMAIN store : ~store[i].published /\ store[i].id = n /\ store[i].type = "data"
    BY DEF Waits
  <2> QED BY <1>0, <2>3, <2>4, <2>5, TriedOnce
<1> QED BY <1>1, <1>2

LEMMA WaitsPassStore ==
  ASSUME Inv, NEW d \in Nat, NEW connects \in BOOLEAN, NEW n, Waits(messages, n)
  PROVE  Waits(PassStore(d, connects), n)
<1> DEFINE old == Older(messages, d)
<1>1. Stored(messages)
  BY InvStored
<1>2. Stored(old) /\ DOMAIN old = DOMAIN messages
      /\ \A i \in DOMAIN messages : /\ old[i].id = messages[i].id
                                    /\ old[i].type = messages[i].type
                                    /\ old[i].published = messages[i].published
  BY <1>1, OlderResult, OlderShape
<1> HIDE DEF old
<1>3. Waits(old, n)
  BY <1>2, Zenon DEF Waits
<1>4. Waits(publish_matter(old, Online, "data", FALSE), n)
  BY <1>2, <1>3, WaitsPublish
<1> QED BY <1>3, <1>4, Zenon DEF PassStore, old

-----------------------------------------------------------------------------
\* The theorems

\* The store never outgrows its array, whatever clients submit and the clean-up
\* reschedules.
THEOREM TypeCorrect == Spec => []TypeOK
<1>1. Inv => TypeOK
  BY DEF Inv
<1> QED BY <1>1, Invariance, PTL

\* Until a publish fails, published messages come first, for every size of the
\* store and however often the connection is lost.
THEOREM OrderCorrect == Spec => []PublishedFirst
<1>1. Inv => PublishedFirst
  BY DEF Inv
<1> QED BY <1>1, Invariance, PTL

\* Until a publish fails, no data message reaches the broker twice, however often
\* the connection is lost and messages are sent again for want of an answer.
THEOREM OnceCorrect == Spec => []DeliveredOnce
<1>1. OnceInv => DeliveredOnce
  BY DEF OnceInv, Counted, DeliveredOnce
<1> QED BY <1>1, OnceInvariance, PTL

\* Until a publish fails, no data message is dropped: the clean-up's mistake, the
\* removal of the message before the one it means, is harmless till then.
THEOREM NothingLostCorrect == Spec => NothingLost
<1> DEFINE Kept == \A n \in Ids :
             Waiting(n) /\ failures' = 0 /\ phase' = "begun" =>
               Waiting(n)' \/ delivered'[n] > delivered[n]
<1>1. Inv /\ OnceInv /\ [Next]_vars => [Kept]_vars
  <2> SUFFICES ASSUME Inv, OnceInv, [Next]_vars,
                      NEW n \in Ids, Waits(messages, n), failures' = 0, phase' = "begun"
               PROVE  Waits(messages', n) \/ delivered'[n] > delivered[n]
    BY Zenon DEF Waiting, Waits
  <2>0. Stored(messages) /\ submitted \in Nat /\ failures \in Nat
    BY InvStored, StoreSizes DEF Inv, TypeOK
  <2>1. ASSUME NEW d \in {0, 1, OldAge}, NEW connects \in BOOLEAN, LoopPass(d, connects)
        PROVE  Waits(messages', n) \/ delivered'[n] > delivered[n]
    <3>1. d \in Nat
      BY StoreSizes DEF OldAge
    <3>2. processMessages(PassStore(d, connects))
      BY <2>1, <3>1, PassProcesses
    <3>3. failures = 0
      BY <2>0, <3>2, Zenon, FailuresGrow
    <3>4. /\ Stored(PassStore(d, connects)) /\ Ordered(PassStore(d, connects))
          /\ Unique(PassStore(d, connects), delivered, submitted)
      BY <3>1, <3>3, PassStoreResult DEF OnceInv
    <3>5. Waits(PassStore(d, connects), n)
      BY <3>1, WaitsPassStore
    <3> QED BY <3>2, <3>4, <3>5, ProcessKeeps
  <2>2. ASSUME NEW type \in Types, NEW ack \in BOOLEAN, publish(type, ack)
        PROVE  Waits(messages', n)
    <3>1. /\ messages' = publish_matter(messages, submitted', type, ack)
          /\ submitted' \in Ids \cup {Online} /\ type \in {"data", "command"}
      BY <2>0, <2>2, StoreSizes DEF publish, Ids
    <3> QED BY <2>0, <3>1, WaitsPublish
  <2>3. CASE PowerCycle \/ UnbegunPass
    BY <2>3 DEF PowerCycle, UnbegunPass, Boot
  <2>4. CASE StoredSettings \/ loadConfiguration \/ LinkLost \/ UNCHANGED vars
    BY <2>4 DEF StoredSettings, loadConfiguration, LinkLost, vars
  <2> QED BY <2>1, <2>2, <2>3, <2>4, Zenon DEF Next
<1> QED BY <1>1, OnceInvariance, PTL DEF Spec, NothingLost

\* A device that was configured holds a configuration.
Configured == phase = "inited" => valid

LEMMA ConfiguredStep == Configured /\ [Next]_vars => Configured'
<1> SUFFICES ASSUME Configured, [Next]_vars, phase' = "inited" PROVE valid'
  BY DEF Configured
<1>1. ASSUME NEW d \in {0, 1, OldAge}, NEW connects \in BOOLEAN, LoopPass(d, connects)
      PROVE  valid'
  BY <1>1 DEF LoopPass
<1>2. ASSUME NEW type \in Types, NEW ack \in BOOLEAN, publish(type, ack)
      PROVE  valid'
  BY <1>2 DEF publish, deviceVars
<1>3. CASE PowerCycle \/ UnbegunPass \/ StoredSettings
  BY <1>3 DEF PowerCycle, UnbegunPass, StoredSettings, Boot
<1>4. CASE loadConfiguration
  BY <1>4 DEF loadConfiguration
<1>5. CASE LinkLost \/ UNCHANGED vars
  BY <1>5 DEF LinkLost, Configured, vars, deviceVars
<1> QED BY <1>1, <1>2, <1>3, <1>4, <1>5, Zenon DEF Next

\* Every change of phase brings a device that is not ready nearer to the phase in
\* which it connects: what GetsReady needs beyond the server's answer.
THEOREM NearerCorrect == Spec => NearerReady
<1>1. Init => Configured
  BY DEF Init, Configured
<1>2. Inv /\ Configured /\ [Next]_vars
        => [phase # "begun" /\ phase' # phase => Distance' < Distance]_vars
  <2> SUFFICES ASSUME Inv, Configured, [Next]_vars, phase # "begun", phase' # phase
               PROVE  Distance' < Distance
    OBVIOUS
  <2>1. CASE StoredSettings
    BY <2>1 DEF StoredSettings, Distance
  <2>2. CASE loadConfiguration
    BY <2>2 DEF loadConfiguration, Distance
  <2>3. CASE PowerCycle
    <3>1. phase' = "loading" /\ valid' = valid /\ phase = "inited"
      BY <2>3 DEF PowerCycle, Boot, Inv, TypeOK
    <3>2. valid
      BY <3>1 DEF Configured
    <3> QED BY <3>1, <3>2 DEF Distance
  <2>4. CASE UnbegunPass
    BY <2>4 DEF UnbegunPass, Boot, Configured, Distance
  <2>5. ~LinkLost /\ ~UNCHANGED vars
    BY DEF LinkLost, vars, deviceVars
  <2>6. ~(\E d \in {0, 1, OldAge}, connects \in BOOLEAN : LoopPass(d, connects))
        /\ ~(\E type \in Types, ack \in BOOLEAN : publish(type, ack))
    BY DEF LoopPass, publish
  <2> QED BY <2>1, <2>2, <2>3, <2>4, <2>5, <2>6, Zenon DEF Next
<1> QED BY <1>1, <1>2, ConfiguredStep, Invariance, PTL DEF Spec, NearerReady

=============================================================================
