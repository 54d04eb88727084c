------------------------------ MODULE EngineQueues ------------------------------
(***************************************************************************)
(* Lemmas about the operators Engine's queues are built from, for queues of  *)
(* any length: admitting, appending, taking the head, promoting the matured   *)
(* ones, inserting a retry, and what their keys are.                         *)
(***************************************************************************)
EXTENDS Engine, TLAPS, FiniteSetTheorems, SequenceTheorems

(* The items of a queue, and that no two of them have the same key. *)
Items(queue) == {queue[i] : i \in DOMAIN queue}
OneEach(queue) == \A i, j \in DOMAIN queue : Key(queue[i]) = Key(queue[j]) => i = j


(* AdmitAll queues the payloads in order, each at the given depth. *)
LEMMA AdmitAllItems ==
    ASSUME NEW payloads \in Seq(Payloads), NEW depth \in Nat
    PROVE  /\ AdmitAll(payloads, depth) \in Seq(Admitted)
           /\ Len(AdmitAll(payloads, depth)) = Len(payloads)
           /\ DOMAIN AdmitAll(payloads, depth) = DOMAIN payloads
           /\ \A i \in DOMAIN payloads :
                /\ AdmitAll(payloads, depth)[i].p = payloads[i]
                /\ Key(AdmitAll(payloads, depth)[i]) = KeyOf[payloads[i]]
                /\ Hash(AdmitAll(payloads, depth)[i]) = HashOf[payloads[i]]
<1>1. /\ Len(payloads) \in Nat /\ DOMAIN payloads = 1 .. Len(payloads)
      /\ payloads \in [1 .. Len(payloads) -> Payloads]
  BY LenProperties
<1>2. AdmitAll(payloads, depth) \in [1 .. Len(payloads) -> Admitted]
  BY <1>1 DEF AdmitAll, Admitted
<1>3. AdmitAll(payloads, depth) \in Seq(Admitted)
  <2>1. Seq(Admitted) = UNION {[1 .. n -> Admitted] : n \in Nat}
    BY SeqDef
  <2> QED BY <1>1, <1>2, <2>1
<1> QED BY <1>1, <1>2, <1>3, LenProperties DEF AdmitAll, Key, Hash

(* Items have a key and a hash. *)
LEMMA ItemTypes ==
    ASSUME NEW a \in Admitted
    PROVE  Key(a) \in Keys /\ Hash(a) \in Hashes /\ a.p \in Payloads /\ a.depth \in Nat
BY PayloadsAssumption DEF Admitted, Key, Hash

(* A sequence of items: its domain, and its items are items. *)
LEMMA QueueTypes ==
    ASSUME NEW q \in Seq(Admitted)
    PROVE  /\ Len(q) \in Nat /\ DOMAIN q = 1 .. Len(q)
           /\ \A i \in DOMAIN q : q[i] \in Admitted
           /\ Items(q) \subseteq Admitted
           /\ q = <<>> <=> Items(q) = {}
BY LenProperties, ElementOfSeq, EmptySeq DEF Items

(* Joining two queues that share no key. *)
LEMMA JoinQueues ==
    ASSUME NEW q \in Seq(Admitted), NEW r \in Seq(Admitted)
    PROVE  /\ q \o r \in Seq(Admitted)
           /\ Len(q \o r) = Len(q) + Len(r)
           /\ Items(q \o r) = Items(q) \cup Items(r)
           /\ OneEach(q) /\ OneEach(r)
              /\ (\A a \in Items(q), b \in Items(r) : Key(a) # Key(b))
              => OneEach(q \o r)
<1>1. /\ q \o r \in Seq(Admitted) /\ Len(q \o r) = Len(q) + Len(r)
      /\ \A i \in 1 .. Len(q) + Len(r) :
           (q \o r)[i] = IF i <= Len(q) THEN q[i] ELSE r[i - Len(q)]
  BY ConcatProperties
<1>2. /\ Len(q) \in Nat /\ Len(r) \in Nat
      /\ DOMAIN q = 1 .. Len(q) /\ DOMAIN r = 1 .. Len(r)
      /\ DOMAIN (q \o r) = 1 .. Len(q) + Len(r)
  BY <1>1, QueueTypes
<1>3. Items(q \o r) \subseteq Items(q) \cup Items(r)
  BY <1>1, <1>2 DEF Items
<1>4. ASSUME NEW i \in DOMAIN q
      PROVE  q[i] \in Items(q \o r)
  <2>1. i \in DOMAIN (q \o r) /\ (q \o r)[i] = q[i]
    BY <1>1, <1>2, <1>4
  <2> QED BY <2>1 DEF Items
<1>5. ASSUME NEW i \in DOMAIN r
      PROVE  r[i] \in Items(q \o r)
  <2>1. /\ i + Len(q) \in DOMAIN (q \o r)
        /\ (q \o r)[i + Len(q)] = r[i]
    BY <1>1, <1>2, <1>5
  <2> QED BY <2>1 DEF Items
<1>6. ASSUME OneEach(q), OneEach(r),
             \A a \in Items(q), b \in Items(r) : Key(a) # Key(b)
      PROVE  OneEach(q \o r)
  <2> SUFFICES ASSUME NEW i \in DOMAIN (q \o r), NEW j \in DOMAIN (q \o r),
                      Key((q \o r)[i]) = Key((q \o r)[j])
               PROVE  i = j
    BY DEF OneEach
  <2>1. CASE i <= Len(q) /\ j <= Len(q)
    BY <1>1, <1>2, <1>6, <2>1 DEF OneEach
  <2>2. CASE i > Len(q) /\ j > Len(q)
    <3>1. i - Len(q) \in DOMAIN r /\ j - Len(q) \in DOMAIN r
      BY <1>2, <2>2
    <3>2. i - Len(q) = j - Len(q)
      BY <1>1, <1>2, <1>6, <2>2, <3>1 DEF OneEach
    <3> QED BY <1>2, <3>2
  <2>3. CASE i <= Len(q) /\ j > Len(q)
    <3>1. (q \o r)[i] \in Items(q) /\ (q \o r)[j] \in Items(r)
      BY <1>1, <1>2, <2>3 DEF Items
    <3> QED BY <1>6, <3>1
  <2>4. CASE i > Len(q) /\ j <= Len(q)
    <3>1. (q \o r)[i] \in Items(r) /\ (q \o r)[j] \in Items(q)
      BY <1>1, <1>2, <2>4 DEF Items
    <3> QED BY <1>6, <3>1
  <2> QED BY <1>2, <2>1, <2>2, <2>3, <2>4
<1> QED BY <1>1, <1>3, <1>4, <1>5, <1>6 DEF Items

(* A queue cut in two behind position n. *)
Front(queue, n) == SubSeq(queue, 1, n)
Back(queue, n) == SubSeq(queue, n + 1, Len(queue))

LEMMA CutQueue ==
    ASSUME NEW q \in Seq(Admitted), NEW n \in 0 .. Len(q)
    PROVE  /\ Front(q, n) \in Seq(Admitted) /\ Len(Front(q, n)) = n
           /\ Back(q, n) \in Seq(Admitted) /\ Len(Back(q, n)) = Len(q) - n
           /\ Items(q) = Items(Front(q, n)) \cup Items(Back(q, n))
           /\ OneEach(q) =>
                /\ OneEach(Front(q, n)) /\ OneEach(Back(q, n))
                /\ \A a \in Items(Front(q, n)), b \in Items(Back(q, n)) : Key(a) # Key(b)
<1> DEFINE front == SubSeq(q, 1, n)
           back == SubSeq(q, n + 1, Len(q))
<1>0. Len(q) \in Nat /\ n \in Nat /\ n <= Len(q)
  BY QueueTypes
<1>1. /\ Len(q) \in Nat /\ n \in Nat /\ n <= Len(q)
      /\ DOMAIN q = 1 .. Len(q) /\ \A i \in 1 .. Len(q) : q[i] \in Admitted
  BY QueueTypes
<1>2. /\ front \in Seq(Admitted) /\ Len(front) = n
      /\ \A i \in 1 .. n : front[i] = q[i]
  <2>1. \A i \in 1 .. n : q[i] \in Admitted
    BY <1>1
  <2>2. /\ front \in Seq(Admitted) /\ Len(front) = IF 1 <= n THEN n - 1 + 1 ELSE 0
        /\ \A i \in 1 .. n - 1 + 1 : front[i] = q[1 + i - 1]
    BY <1>1, <2>1, SubSeqProperties
  <2> QED BY <1>1, <2>2
<1>3. /\ back \in Seq(Admitted) /\ Len(back) = Len(q) - n
      /\ \A i \in 1 .. Len(q) - n : back[i] = q[i + n]
  <2>1. \A i \in n + 1 .. Len(q) : q[i] \in Admitted
    BY <1>1
  <2>2. /\ back \in Seq(Admitted)
        /\ Len(back) = IF n + 1 <= Len(q) THEN Len(q) - (n + 1) + 1 ELSE 0
        /\ \A i \in 1 .. Len(q) - (n + 1) + 1 : back[i] = q[n + 1 + i - 1]
    BY <1>1, <2>1, SubSeqProperties
  <2>3. Len(q) - (n + 1) + 1 = Len(q) - n
    BY <1>0
  <2>4. \A i \in 1 .. Len(q) - n : n + 1 + i - 1 = i + n
    BY <1>0
  <2> HIDE DEF back
  <2>6. Len(back) = Len(q) - n
    <3>1. Len(back) = IF n + 1 <= Len(q) THEN Len(q) - (n + 1) + 1 ELSE 0
      BY <2>2
    <3> QED BY <1>0, <3>1
  <2>7. \A i \in 1 .. Len(q) - n : back[i] = q[i + n]
    BY <2>2, <2>3, <2>4
  <2> QED BY <2>2, <2>6, <2>7
<1>4. DOMAIN front = 1 .. n /\ DOMAIN back = 1 .. Len(q) - n
  BY <1>2, <1>3, QueueTypes
<1> HIDE DEF front, back
<1>5. Items(front) \subseteq Items(q) /\ Items(back) \subseteq Items(q)
  <2>1. ASSUME NEW i \in 1 .. n
        PROVE  front[i] \in Items(q)
    BY <1>1, <1>2 DEF Items
  <2>2. ASSUME NEW i \in 1 .. Len(q) - n
        PROVE  back[i] \in Items(q)
    <3>1. i + n \in DOMAIN q
      BY <1>1
    <3> QED BY <1>3, <3>1 DEF Items
  <2> QED BY <1>4, <2>1, <2>2 DEF Items
<1>6. ASSUME NEW i \in DOMAIN q
      PROVE  q[i] \in Items(front) \cup Items(back)
  <2>1. CASE i <= n
    BY <1>1, <1>2, <1>4, <2>1 DEF Items
  <2>2. CASE i > n
    <3>1. i - n \in DOMAIN back /\ back[i - n] = q[i]
      BY <1>1, <1>3, <1>4, <2>2
    <3> QED BY <3>1 DEF Items
  <2> QED BY <1>1, <2>1, <2>2
<1>7. ASSUME OneEach(q)
      PROVE  OneEach(front)
  BY <1>1, <1>2, <1>4, <1>7 DEF OneEach
<1>8. ASSUME OneEach(q)
      PROVE  OneEach(back)
  <2> SUFFICES ASSUME NEW i \in DOMAIN back, NEW j \in DOMAIN back,
                      Key(back[i]) = Key(back[j])
               PROVE  i = j
    BY DEF OneEach
  <2>1. i + n \in DOMAIN q /\ j + n \in DOMAIN q
    BY <1>1, <1>4
  <2>2. i + n = j + n
    BY <1>3, <1>4, <1>8, <2>1 DEF OneEach
  <2> QED BY <1>1, <1>4, <2>2
<1>9. ASSUME OneEach(q), NEW i \in DOMAIN front, NEW j \in DOMAIN back
      PROVE  Key(front[i]) # Key(back[j])
  <2>1. i \in DOMAIN q /\ j + n \in DOMAIN q /\ i # j + n
    BY <1>1, <1>4
  <2> QED BY <1>2, <1>3, <1>4, <1>9, <2>1 DEF OneEach
<1>10. Items(q) = Items(front) \cup Items(back)
  BY <1>5, <1>6 DEF Items
<1>11. ASSUME OneEach(q), NEW a \in Items(front), NEW b \in Items(back)
       PROVE  Key(a) # Key(b)
  BY <1>9, <1>11 DEF Items
<1>12. front = Front(q, n) /\ back = Back(q, n)
  BY DEF front, back, Front, Back
<1> QED BY <1>2, <1>3, <1>7, <1>8, <1>10, <1>11, <1>12

(* A queue of one item. *)
LEMMA QueueOfOne ==
    ASSUME NEW a \in Admitted
    PROVE  /\ <<a>> \in Seq(Admitted) /\ Len(<<a>>) = 1
           /\ Items(<<a>>) = {a} /\ OneEach(<<a>>)
<1>1. <<a>> \in Seq(Admitted) /\ Len(<<a>>) = 1 /\ <<a>>[1] = a
  OBVIOUS
<1>2. DOMAIN <<a>> = 1 .. 1
  BY <1>1, QueueTypes
<1>3. Items(<<a>>) = {a}
  BY <1>1, <1>2 DEF Items
<1> QED BY <1>1, <1>2, <1>3 DEF OneEach

(* The head of a queue and the rest of it. *)
LEMMA TakeHead ==
    ASSUME NEW q \in Seq(Admitted), q # <<>>
    PROVE  /\ Head(q) \in Admitted /\ Tail(q) \in Seq(Admitted)
           /\ Len(Tail(q)) = Len(q) - 1
           /\ Items(q) = {Head(q)} \cup Items(Tail(q))
           /\ OneEach(q) => /\ OneEach(Tail(q))
                            /\ \A a \in Items(Tail(q)) : Key(a) # Key(Head(q))
<1>1. /\ Head(q) \in Admitted /\ Tail(q) \in Seq(Admitted)
      /\ Len(Tail(q)) = Len(q) - 1
  BY HeadTailProperties
<1>2. Len(q) \in Nat /\ Len(q) >= 1
  BY EmptySeq, LenProperties
<1>3. /\ Items(q) = Items(Front(q, 1)) \cup Items(Back(q, 1))
      /\ Len(Front(q, 1)) = 1 /\ Front(q, 1) \in Seq(Admitted)
      /\ OneEach(q) =>
           /\ OneEach(Back(q, 1))
           /\ \A a \in Items(Front(q, 1)), b \in Items(Back(q, 1)) : Key(a) # Key(b)
  <2>1. 1 \in 0 .. Len(q)
    BY <1>2
  <2> QED BY <2>1, CutQueue
<1>4. Back(q, 1) = Tail(q)
  <2>1. 1 + 1 = 2
    OBVIOUS
  <2> QED BY <2>1, TailIsSubSeq DEF Back
<1>5. Items(Front(q, 1)) = {Head(q)}
  <2>1. DOMAIN Front(q, 1) = 1 .. 1
    BY <1>3, QueueTypes
  <2>2. 1 \in 1 .. Len(q)
    BY <1>2
  <2>3. Head(Front(q, 1)) = q[1]
    BY <2>2, HeadTailOfSubSeq DEF Front
  <2>4. Head(Front(q, 1)) = Front(q, 1)[1] /\ Head(q) = q[1]
    OBVIOUS
  <2> QED BY <2>1, <2>3, <2>4 DEF Items
<1> QED BY <1>1, <1>3, <1>4, <1>5

(* A retry put before position i. *)
LEMMA InsertItem ==
    ASSUME NEW q \in Seq(Admitted), NEW a \in Admitted, NEW i \in 1 .. Len(q) + 1
    PROVE  /\ Inserted(q, i, a) \in Seq(Admitted)
           /\ Len(Inserted(q, i, a)) = Len(q) + 1
           /\ Items(Inserted(q, i, a)) = Items(q) \cup {a}
           /\ OneEach(q) /\ (\A b \in Items(q) : Key(a) # Key(b))
              => OneEach(Inserted(q, i, a))
<1> DEFINE front == Front(q, i - 1)
           back == Back(q, i - 1)
<1>1. Len(q) \in Nat /\ i - 1 \in 0 .. Len(q) /\ i - 1 + 1 = i
  BY QueueTypes
<1>2. /\ front \in Seq(Admitted) /\ Len(front) = i - 1
      /\ back \in Seq(Admitted) /\ Len(back) = Len(q) - (i - 1)
      /\ Items(q) = Items(front) \cup Items(back)
      /\ OneEach(q) => /\ OneEach(front) /\ OneEach(back)
                       /\ \A b \in Items(front), c \in Items(back) : Key(b) # Key(c)
  BY <1>1, CutQueue
<1> HIDE DEF front, back
<1>3. /\ front \o <<a>> \in Seq(Admitted) /\ Len(front \o <<a>>) = Len(front) + 1
      /\ Items(front \o <<a>>) = Items(front) \cup {a}
      /\ OneEach(front) /\ (\A b \in Items(front) : Key(b) # Key(a))
         => OneEach(front \o <<a>>)
  <2>1. /\ <<a>> \in Seq(Admitted) /\ Len(<<a>>) = 1
        /\ Items(<<a>>) = {a} /\ OneEach(<<a>>)
    BY QueueOfOne
  <2> DEFINE one == <<a>>
  <2> HIDE DEF one
  <2>2. /\ one \in Seq(Admitted) /\ Len(one) = 1 /\ Items(one) = {a} /\ OneEach(one)
    BY <2>1 DEF one
  <2>3. /\ front \o one \in Seq(Admitted) /\ Len(front \o one) = Len(front) + 1
        /\ Items(front \o one) = Items(front) \cup {a}
        /\ OneEach(front) /\ (\A b \in Items(front) : Key(b) # Key(a))
           => OneEach(front \o one)
    <3>1. front \in Seq(Admitted) /\ one \in Seq(Admitted)
      BY <1>2, <2>2
    <3>2. /\ front \o one \in Seq(Admitted) /\ Len(front \o one) = Len(front) + Len(one)
          /\ Items(front \o one) = Items(front) \cup Items(one)
          /\ OneEach(front) /\ OneEach(one)
             /\ (\A b \in Items(front), c \in Items(one) : Key(b) # Key(c))
             => OneEach(front \o one)
      BY <3>1, JoinQueues
    <3> QED BY <2>2, <3>2
  <2> QED BY <2>3 DEF one
<1>4. /\ (front \o <<a>>) \o back \in Seq(Admitted)
      /\ Len((front \o <<a>>) \o back) = Len(front \o <<a>>) + Len(back)
      /\ Items((front \o <<a>>) \o back) = Items(front \o <<a>>) \cup Items(back)
      /\ /\ OneEach(front \o <<a>>) /\ OneEach(back)
         /\ \A b \in Items(front \o <<a>>), c \in Items(back) : Key(b) # Key(c)
         => OneEach((front \o <<a>>) \o back)
  BY <1>2, <1>3, JoinQueues
<1>5. Inserted(q, i, a) = (front \o <<a>>) \o back
  BY <1>1 DEF Inserted, front, back, Front, Back
<1>6. Len(Inserted(q, i, a)) = Len(q) + 1
  <2>1. Len(Inserted(q, i, a)) = Len(front) + 1 + Len(back)
    BY <1>3, <1>4, <1>5
  <2>2. Len(front) = i - 1 /\ Len(back) = Len(q) - (i - 1)
    BY <1>2
  <2>3. i \in Int /\ Len(q) \in Int
    BY <1>1
  <2> QED BY <2>1, <2>2, <2>3
<1>7. ASSUME OneEach(q), \A b \in Items(q) : Key(a) # Key(b)
      PROVE  OneEach(Inserted(q, i, a))
  BY <1>2, <1>3, <1>4, <1>5, <1>7
<1> QED BY <1>2, <1>3, <1>4, <1>5, <1>6, <1>7

(* Counting: what the numbers 1 to n stand for, one to one, are n things. *)
LEMMA CountBijective ==
    ASSUME NEW n \in Nat, NEW S, NEW f \in Bijection(1 .. n, S)
    PROVE  IsFiniteSet(S) /\ Cardinality(S) = n
<1>1. IsFiniteSet(1 .. n) /\ Cardinality(1 .. n) = n
  BY FS_Interval
<1>2. ExistsBijection(1 .. n, S)
  BY DEF ExistsBijection
<1> QED BY <1>1, <1>2, FS_Bijection

(* A queue has as many keys as items when no two items share one. *)
LEMMA QueueLength ==
    ASSUME NEW q \in Seq(Admitted), OneEach(q)
    PROVE  Cardinality({Key(q[i]) : i \in DOMAIN q}) = Len(q)
<1> DEFINE S == {Key(q[i]) : i \in DOMAIN q}
           f == [i \in 1 .. Len(q) |-> Key(q[i])]
<1>1. Len(q) \in Nat /\ DOMAIN q = 1 .. Len(q)
  BY QueueTypes
<1>2. f \in Bijection(1 .. Len(q), S)
  BY <1>1 DEF OneEach, Bijection, Injection, Surjection, IsInjective
<1> QED BY <1>1, <1>2, CountBijective

(* The items of a list with distinct keys have as many keys as it is long. *)
LEMMA ListLength ==
    ASSUME NEW payloads \in Seq(Payloads),
           \A i, j \in DOMAIN payloads : KeyOf[payloads[i]] = KeyOf[payloads[j]] => i = j
    PROVE  IsFiniteSet(KeysOf(payloads)) /\ Cardinality(KeysOf(payloads)) = Len(payloads)
<1> DEFINE f == [i \in 1 .. Len(payloads) |-> KeyOf[payloads[i]]]
<1>1. Len(payloads) \in Nat /\ DOMAIN payloads = 1 .. Len(payloads)
  BY LenProperties
<1>2. f \in Bijection(1 .. Len(payloads), KeysOf(payloads))
  BY <1>1 DEF KeysOf, Bijection, Injection, Surjection, IsInjective
<1> QED BY <1>1, <1>2, CountBijective

(* WithIdentities gives the keys of the list the hashes of its payloads, and  *)
(* leaves the other keys alone.                                               *)
LEMMA Identified ==
    ASSUME NEW payloads \in Seq(Payloads), NEW map \in [Keys -> Hashes \cup {None}],
           \A i, j \in DOMAIN payloads : KeyOf[payloads[i]] = KeyOf[payloads[j]] => i = j
    PROVE  /\ WithIdentities(map, payloads) \in [Keys -> Hashes \cup {None}]
           /\ \A i \in DOMAIN payloads :
                WithIdentities(map, payloads)[KeyOf[payloads[i]]] = HashOf[payloads[i]]
           /\ \A k \in Keys : k \notin KeysOf(payloads) =>
                WithIdentities(map, payloads)[k] = map[k]
           /\ KeysOf(payloads) \subseteq Keys
<1> USE PayloadsAssumption
<1>1. \A i \in DOMAIN payloads : payloads[i] \in Payloads
  BY LenProperties, ElementOfSeq
<1>2. ASSUME NEW k \in KeysOf(payloads)
      PROVE  \E i \in DOMAIN payloads :
                /\ i = CHOOSE j \in DOMAIN payloads : KeyOf[payloads[j]] = k
                /\ KeyOf[payloads[i]] = k
  BY <1>2 DEF KeysOf
<1>3. KeysOf(payloads) \subseteq Keys
  BY <1>1 DEF KeysOf
<1>4. WithIdentities(map, payloads) \in [Keys -> Hashes \cup {None}]
  BY <1>1, <1>2 DEF WithIdentities
<1>5. ASSUME NEW i \in DOMAIN payloads
      PROVE  WithIdentities(map, payloads)[KeyOf[payloads[i]]] = HashOf[payloads[i]]
  <2>1. KeyOf[payloads[i]] \in KeysOf(payloads)
    BY DEF KeysOf
  <2>2. i = CHOOSE j \in DOMAIN payloads : KeyOf[payloads[j]] = KeyOf[payloads[i]]
    BY <1>2, <2>1
  <2> QED BY <1>3, <2>1, <2>2 DEF WithIdentities
<1> QED BY <1>3, <1>4, <1>5 DEF WithIdentities
=============================================================================
