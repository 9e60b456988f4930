------------------------ MODULE WebhookDelivery_proofs ------------------------
(***************************************************************************)
(* Proofs about deliver_webhook and its dedup cache: what the cache keeps, *)
(* which deliveries it lets pass a second time, and which it drops.        *)
(***************************************************************************)
EXTENDS WebhookDelivery, FiniteSetTheorems, SequenceTheorems, WellFoundedInduction, TLAPS

------------------------------------------------------------------------------
(* Ordered dictionaries *)

Unique(dict) == \A i, j \in DOMAIN dict : dict[i].key = dict[j].key => i = j

\* The keys written since the i-th entry was.
KeysAfter(dict, i) == {dict[n].key : n \in (i + 1)..Len(dict)}

\* What an operation on a dictionary keeps: no entry is new, and those it keeps have
\* no more keys after them than they had.
Thins(dict, result) ==
    /\ \A j \in DOMAIN result : \E i \in DOMAIN dict : result[j] = dict[i]
    /\ Len(result) <= Len(dict)

KeepsAt(dict, result, i) ==
    \E j \in DOMAIN result :
        result[j] = dict[i] /\ KeysAfter(result, j) \subseteq KeysAfter(dict, i)

\* pop takes one entry out and moves the later ones up.
LEMMA PopAt ==
  ASSUME NEW E, NEW dict \in Seq(E), Unique(dict), NEW p \in DOMAIN dict
  PROVE  LET r == Pop(dict, dict[p].key) IN
         /\ r \in Seq(E) /\ Len(r) = Len(dict) - 1
         /\ \A j \in 1..(Len(dict) - 1) : r[j] = IF j < p THEN dict[j] ELSE dict[j + 1]
  <1>1. Positions(dict, dict[p].key) # {} /\ (CHOOSE i \in DOMAIN dict : dict[i].key = dict[p].key) = p
    BY DEF Unique, Positions
  <1>2. Pop(dict, dict[p].key) = SubSeq(dict, 1, p - 1) \o SubSeq(dict, p + 1, Len(dict))
    BY <1>1 DEF Pop, RemoveAt
  <1> DEFINE a == SubSeq(dict, 1, p - 1)
             b == SubSeq(dict, p + 1, Len(dict))
  <1>3. a \in Seq(E) /\ Len(a) = p - 1 /\ \A j \in 1..(p - 1) : a[j] = dict[j]
    OBVIOUS
  <1>4. b \in Seq(E) /\ Len(b) = Len(dict) - p /\ \A j \in 1..(Len(dict) - p) : b[j] = dict[p + j]
    OBVIOUS
  <1> HIDE DEF a, b
  <1>5. a \o b \in Seq(E) /\ Len(a \o b) = Len(dict) - 1
    BY <1>3, <1>4
  <1>6. ASSUME NEW j \in 1..(Len(dict) - 1)
        PROVE  (a \o b)[j] = IF j < p THEN dict[j] ELSE dict[j + 1]
    <2>1. CASE j < p
      BY <1>3, <1>4, <2>1
    <2>2. CASE ~(j < p)
      <3>1. (a \o b)[j] = b[j - (p - 1)]
        BY <1>3, <1>4, <2>2
      <3>2. j - (p - 1) \in 1..(Len(dict) - p) /\ p + (j - (p - 1)) = j + 1
        BY <2>2
      <3> QED
        BY <1>4, <3>1, <3>2, <2>2
    <2> QED
      BY <2>1, <2>2
  <1> QED
    BY <1>2, <1>5, <1>6 DEF a, b

\* pop leaves a dictionary without the key and otherwise as it was.
LEMMA PopKeeps ==
  ASSUME NEW E, NEW dict \in Seq(E), Unique(dict), NEW key
  PROVE  LET r == Pop(dict, key) IN
         /\ r \in Seq(E) /\ Unique(r) /\ Thins(dict, r)
         /\ \A j \in DOMAIN r : r[j].key # key
         /\ \A i \in DOMAIN dict : dict[i].key # key => KeepsAt(dict, r, i)
  <1>1. CASE Positions(dict, key) = {}
    BY <1>1 DEF Pop, Positions, Thins, KeepsAt
  <1>2. ASSUME NEW p \in DOMAIN dict, dict[p].key = key
        PROVE  LET r == Pop(dict, key) IN
               /\ r \in Seq(E) /\ Unique(r) /\ Thins(dict, r)
               /\ \A j \in DOMAIN r : r[j].key # key
               /\ \A i \in DOMAIN dict : dict[i].key # key => KeepsAt(dict, r, i)
    <2> DEFINE r == Pop(dict, key)
               up(j) == IF j < p THEN j ELSE j + 1
    <2>1. r \in Seq(E) /\ Len(r) = Len(dict) - 1 /\ DOMAIN r = 1..(Len(dict) - 1)
      BY <1>2, PopAt
    <2>2. ASSUME NEW j \in DOMAIN r
          PROVE  up(j) \in DOMAIN dict /\ up(j) # p /\ r[j] = dict[up(j)]
      <3>1. \A n \in 1..(Len(dict) - 1) : r[n] = IF n < p THEN dict[n] ELSE dict[n + 1]
        BY <1>2, PopAt
      <3> HIDE DEF r
      <3>2. j \in 1..(Len(dict) - 1) /\ p \in 1..Len(dict) /\ Len(dict) \in Nat
        BY <1>2, <2>1
      <3> QED
        BY <3>1, <3>2
    <2> HIDE DEF r
    <2>3. \A j \in DOMAIN r : r[j].key # key
      BY <1>2, <2>2 DEF Unique
    <2>4. Unique(r)
      <3> SUFFICES ASSUME NEW i \in DOMAIN r, NEW j \in DOMAIN r, r[i].key = r[j].key
                   PROVE  i = j
        BY DEF Unique
      <3>1. up(i) = up(j)
        BY <2>2 DEF Unique
      <3> QED
        BY <3>1, <2>1
    <2>5. Thins(dict, r)
      BY <2>1, <2>2 DEF Thins
    <2>6. ASSUME NEW i \in DOMAIN dict, dict[i].key # key
          PROVE  KeepsAt(dict, r, i)
      <3> DEFINE j == IF i < p THEN i ELSE i - 1
      <3>1. i # p /\ i \in 1..Len(dict) /\ p \in 1..Len(dict)
        BY <1>2, <2>6
      <3>2. j \in DOMAIN r /\ up(j) = i
        BY <3>1, <2>1
      <3>3. r[j] = dict[i]
        BY <3>2, <2>2
      <3>4. ASSUME NEW n \in (j + 1)..Len(r)
            PROVE  r[n].key \in KeysAfter(dict, i)
        <4>1. n \in DOMAIN r /\ up(n) \in (i + 1)..Len(dict)
          BY <3>1, <2>1
        <4> QED
          BY <4>1, <2>2 DEF KeysAfter
      <3> QED
        BY <3>2, <3>3, <3>4 DEF KeepsAt, KeysAfter
    <2> QED
      BY <2>1, <2>3, <2>4, <2>5, <2>6 DEF r
  <1> QED
    BY <1>1, <1>2 DEF Positions

\* As many keys come after an entry as there are entries after it.
LEMMA KeysAfterCounted ==
  ASSUME NEW E, NEW dict \in Seq(E), Unique(dict), NEW i \in DOMAIN dict
  PROVE  /\ IsFiniteSet(KeysAfter(dict, i))
         /\ Cardinality(KeysAfter(dict, i)) = Len(dict) - i
         /\ dict[i].key \notin KeysAfter(dict, i)
  <1> DEFINE I == (i + 1)..Len(dict)
             f == [n \in I |-> dict[n].key]
  <1>1. i \in Nat /\ Len(dict) \in Nat /\ i <= Len(dict) /\ i >= 1 /\ I \subseteq DOMAIN dict
    OBVIOUS
  <1>2. f \in Bijection(I, KeysAfter(dict, i))
    <2>1. f \in [I -> KeysAfter(dict, i)]
      BY DEF KeysAfter
    <2>2. \A m, n \in I : f[m] = f[n] => m = n
      BY <1>1 DEF Unique
    <2>3. \A k \in KeysAfter(dict, i) : \E n \in I : f[n] = k
      BY DEF KeysAfter
    <2> QED
      BY <2>1, <2>2, <2>3 DEF Bijection, Injection, Surjection, IsInjective
  <1>3. IsFiniteSet(I) /\ Cardinality(I) = Len(dict) - i
    <2> DEFINE b == Len(dict)
    <2>1. i + 1 \in Int /\ b \in Int /\ i <= b
      BY <1>1
    <2> HIDE DEF b, f
    <2>2. /\ IsFiniteSet((i + 1)..b)
          /\ Cardinality((i + 1)..b) = IF i + 1 > b THEN 0 ELSE b - (i + 1) + 1
      BY <2>1, FS_Interval
    <2> QED
      BY <1>1, <2>1, <2>2 DEF b
  <1>4. dict[i].key \notin KeysAfter(dict, i)
    BY <1>1 DEF Unique, KeysAfter
  <1> QED
    BY <1>2, <1>3, <1>4, FS_Bijection DEF ExistsBijection

\* popitem until n entries are left keeps the n newest.
LEMMA NewestKeeps ==
  ASSUME NEW E, NEW dict \in Seq(E), Unique(dict), NEW n \in Nat \ {0}
  PROVE  LET r == Newest(n, dict) IN
         /\ r \in Seq(E) /\ Unique(r) /\ Len(r) <= n
         /\ \A j \in DOMAIN r : \E i \in DOMAIN dict :
                r[j] = dict[i] /\ Len(dict) - i = Len(r) - j
         /\ \A i \in DOMAIN dict : i > Len(dict) - n =>
                \E j \in DOMAIN r : r[j] = dict[i] /\ KeysAfter(r, j) = KeysAfter(dict, i)
  <1>1. CASE Len(dict) <= n
    BY <1>1 DEF Newest, KeysAfter
  <1>2. CASE ~(Len(dict) <= n)
    <2> DEFINE d == Len(dict) - n
               r == SubSeq(dict, d + 1, Len(dict))
    <2>1. r = Newest(n, dict)
      BY <1>2 DEF Newest
    <2>2. d \in Nat /\ d > 0 /\ n > 0 /\ Len(dict) = d + n /\ Len(dict) \in Nat
      BY <1>2
    <2>3. r \in Seq(E) /\ Len(r) = n /\ DOMAIN r = 1..n
      BY <2>2
    <2>4. \A j \in 1..n : d + j \in DOMAIN dict /\ r[j] = dict[d + j]
      BY <2>2
    <2> HIDE DEF r, d
    <2>5. Unique(r)
      <3> SUFFICES ASSUME NEW i \in 1..n, NEW j \in 1..n, r[i].key = r[j].key
                   PROVE  i = j
        BY <2>3 DEF Unique
      <3>1. d + i = d + j
        BY <2>4 DEF Unique
      <3> QED
        BY <2>2, <3>1
    <2>6. \A j \in DOMAIN r : \E i \in DOMAIN dict : r[j] = dict[i] /\ Len(dict) - i = Len(r) - j
      BY <2>2, <2>3, <2>4
    <2>7. ASSUME NEW i \in DOMAIN dict, i > Len(dict) - n
          PROVE  i - d \in DOMAIN r /\ r[i - d] = dict[i] /\ KeysAfter(r, i - d) = KeysAfter(dict, i)
      <3>1. i \in 1..(d + n) /\ i > d
        BY <2>2, <2>7
      <3>2. i - d \in 1..n /\ r[i - d] = dict[i]
        BY <2>2, <2>4, <3>1
      <3>3. ASSUME NEW k \in KeysAfter(r, i - d)
            PROVE  k \in KeysAfter(dict, i)
        <4>1. PICK m \in (i - d + 1)..n : k = r[m].key
          BY <2>3 DEF KeysAfter
        <4>2. m \in 1..n /\ d + m \in (i + 1)..Len(dict) /\ r[m] = dict[d + m]
          BY <2>2, <2>4, <3>1, <4>1
        <4> QED
          BY <4>1, <4>2 DEF KeysAfter
      <3>4. ASSUME NEW k \in KeysAfter(dict, i)
            PROVE  k \in KeysAfter(r, i - d)
        <4>1. PICK m \in (i + 1)..Len(dict) : k = dict[m].key
          BY DEF KeysAfter
        <4>2. m - d \in 1..n /\ m - d \in (i - d + 1)..Len(r) /\ r[m - d] = dict[m]
          BY <2>2, <2>3, <2>4, <3>1, <4>1
        <4> QED
          BY <4>1, <4>2 DEF KeysAfter
      <3> QED
        BY <2>3, <3>2, <3>3, <3>4
    <2> QED
      BY <2>1, <2>3, <2>5, <2>6, <2>7
  <1> QED
    BY <1>1, <1>2

\* An assignment puts the entry last, and keeps another one unless n keys were
\* written since that one was.
LEMMA AssignKeeps ==
  ASSUME NEW E, NEW dict \in Seq(E), Unique(dict), NEW n \in Nat \ {0},
         NEW key, NEW value, [key |-> key, value |-> value] \in E
  PROVE  LET r == Assign(n, dict, key, value) IN
         /\ r \in Seq(E) /\ Unique(r) /\ Len(r) <= n
         /\ \E j \in DOMAIN r :
                r[j] = [key |-> key, value |-> value] /\ KeysAfter(r, j) = {}
         /\ \A j \in DOMAIN r :
                \/ r[j] = [key |-> key, value |-> value]
                \/ \E i \in DOMAIN dict : r[j] = dict[i] /\ dict[i].key # key
         /\ \A i \in DOMAIN dict : dict[i].key # key =>
                \/ \E j \in DOMAIN r :
                       r[j] = dict[i] /\ KeysAfter(r, j) \subseteq KeysAfter(dict, i) \cup {key}
                \/ Cardinality(KeysAfter(dict, i) \cup {key}) >= n
  <1> DEFINE e == [key |-> key, value |-> value]
             q == Pop(dict, key)
             a == Append(q, e)
             r == Newest(n, a)
  <1>1. r = Assign(n, dict, key, value)
    BY DEF Assign
  <1>2. /\ q \in Seq(E) /\ Unique(q) /\ Thins(dict, q)
        /\ \A j \in DOMAIN q : q[j].key # key
        /\ \A i \in DOMAIN dict : dict[i].key # key => KeepsAt(dict, q, i)
    BY PopKeeps
  <1> HIDE DEF q
  <1>3. /\ a \in Seq(E) /\ Len(a) = Len(q) + 1 /\ DOMAIN a = 1..(Len(q) + 1) /\ Len(q) \in Nat
        /\ a[Len(q) + 1] = e /\ \A j \in 1..Len(q) : a[j] = q[j]
    BY <1>2
  <1>4. e.key = key
    OBVIOUS
  <1> HIDE DEF a, e
  <1>5. Unique(a)
    <2> SUFFICES ASSUME NEW i \in DOMAIN a, NEW j \in DOMAIN a, a[i].key = a[j].key, i < j
                 PROVE  FALSE
      BY <1>3 DEF Unique
    <2>1. i \in DOMAIN q /\ a[i] = q[i]
      BY <1>2, <1>3
    <2>2. CASE j = Len(q) + 1
      BY <1>2, <1>3, <1>4, <2>1, <2>2
    <2>3. CASE j # Len(q) + 1
      <3>1. j \in DOMAIN q /\ a[j] = q[j]
        BY SMTT(40), <1>2, <1>3, <2>3
      <3> QED
        BY <1>2, <1>3, <2>1, <3>1 DEF Unique
    <2> QED
      BY <2>2, <2>3
  <1>6. /\ r \in Seq(E) /\ Unique(r) /\ Len(r) <= n
        /\ \A j \in DOMAIN r : \E i \in DOMAIN a : r[j] = a[i] /\ Len(a) - i = Len(r) - j
        /\ \A i \in DOMAIN a : i > Len(a) - n =>
               \E j \in DOMAIN r : r[j] = a[i] /\ KeysAfter(r, j) = KeysAfter(a, i)
    BY <1>3, <1>5, NewestKeeps
  <1> HIDE DEF r
  <1>7. \E j \in DOMAIN r : r[j] = e /\ KeysAfter(r, j) = {}
    <2>1. Len(q) + 1 \in DOMAIN a /\ Len(q) + 1 > Len(a) - n
      BY <1>3
    <2>2. KeysAfter(a, Len(q) + 1) = {}
      BY <1>3 DEF KeysAfter
    <2> QED
      BY <1>3, <1>6, <2>1, <2>2
  <1>8. ASSUME NEW j \in DOMAIN r
        PROVE  r[j] = e \/ \E i \in DOMAIN dict : r[j] = dict[i] /\ dict[i].key # key
    <2>1. PICK i \in DOMAIN a : r[j] = a[i]
      BY <1>6
    <2>2. CASE i = Len(q) + 1
      BY <1>3, <2>1, <2>2
    <2>3. CASE i # Len(q) + 1
      <3>1. i \in DOMAIN q /\ r[j] = q[i]
        BY <1>2, <1>3, <2>1, <2>3
      <3> QED
        BY <1>2, <3>1 DEF Thins
    <2> QED
      BY <2>2, <2>3
  <1>9. ASSUME NEW i \in DOMAIN dict, dict[i].key # key
        PROVE  \/ \E j \in DOMAIN r :
                      r[j] = dict[i] /\ KeysAfter(r, j) \subseteq KeysAfter(dict, i) \cup {key}
               \/ Cardinality(KeysAfter(dict, i) \cup {key}) >= n
    <2>1. PICK p \in DOMAIN q : q[p] = dict[i] /\ KeysAfter(q, p) \subseteq KeysAfter(dict, i)
      BY <1>2, <1>9 DEF KeepsAt
    <2>2. p \in 1..Len(q) /\ p \in DOMAIN a /\ a[p] = dict[i]
      BY <1>2, <1>3, <2>1
    <2>3. KeysAfter(a, p) \subseteq KeysAfter(dict, i) \cup {key}
      <3> SUFFICES ASSUME NEW m \in (p + 1)..(Len(q) + 1)
                   PROVE  a[m].key \in KeysAfter(q, p) \cup {key}
        BY <1>3, <2>1 DEF KeysAfter
      <3>1. CASE m = Len(q) + 1
        BY <1>3, <1>4, <3>1
      <3>2. CASE m # Len(q) + 1
        <4>1. m \in (p + 1)..Len(q) /\ a[m] = q[m]
          BY <1>3, <2>2, <3>2
        <4> QED
          BY <4>1 DEF KeysAfter
      <3> QED
        BY <3>1, <3>2
    <2>4. CASE p > Len(a) - n
      BY <1>6, <2>2, <2>3, <2>4
    <2>5. CASE ~(p > Len(a) - n)
      <3>1. IsFiniteSet(KeysAfter(dict, i) \cup {key}) /\ Cardinality(KeysAfter(dict, i) \cup {key}) \in Nat
        BY KeysAfterCounted, FS_AddElement, FS_CardinalityType
      <3>2. Cardinality(KeysAfter(a, p)) = Len(a) - p
        BY <1>3, <1>5, <2>2, KeysAfterCounted
      <3>3. Cardinality(KeysAfter(a, p)) <= Cardinality(KeysAfter(dict, i) \cup {key})
        BY <2>3, <3>1, FS_Subset
      <3> QED
        BY <1>3, <2>2, <2>5, <3>1, <3>2, <3>3
    <2> QED
      BY <2>4, <2>5
  <1> QED
    BY <1>1, <1>6, <1>7, <1>8, <1>9 DEF e

------------------------------------------------------------------------------
(* The inductive invariant *)

\* No mark of the same id came after the k-th.
Latest(k) == \A m \in (k + 1)..Len(marks) : Key(m) # Key(k)

\* The cache holds the k-th mark, and whatever is more recent than it, among the
\* ids of its bucket and among the buckets, was marked since.
Held(k) ==
    \E b \in DOMAIN cache :
        /\ cache[b].key = Key(k)[1]
        /\ \A s \in KeysAfter(cache, b) : \E m \in (k + 1)..Len(marks) : Key(m)[1] = s
        /\ \E i \in DOMAIN cache[b].value :
            /\ cache[b].value[i] = [key |-> Key(k)[2], value |-> marks[k].at]
            /\ \A id \in KeysAfter(cache[b].value, i) :
                   \E m \in (k + 1)..Len(marks) : Key(m) = <<Key(k)[1], id>>

\* The last mark of an id is in the cache unless it had to go.
Remembered ==
    \A k \in DOMAIN marks :
        Latest(k) => Held(k) \/ Flooded(k, Len(marks)) \/ now - marks[k].at > Ttl

\* Every entry of the cache is a mark.
Stamped ==
    \A b \in DOMAIN cache : \A i \in DOMAIN cache[b].value :
        \E k \in DOMAIN marks :
            /\ Key(k) = <<cache[b].key, cache[b].value[i].key>>
            /\ marks[k].at = cache[b].value[i].value

\* By the base-th mark and the time "at", the j-th mark of the key no longer stood
\* in the way of another.
Excused(key, j, base, at) ==
    \E m \in j..base : Key(m) = key /\ (Flooded(m, base) \/ at - marks[m].at > Ttl)

JobKey(w) ==
    LET e == job[w].req.event IN <<SourceOf[e], DeliveryId(e)>>

\* What a worker knows between its check and its mark.
Knows(w) ==
    /\ pc[w] # "idle" => job[w].req \in OnTheWire
    /\ pc[w] \in {"check", "mark"} =>
        DeliveryId(job[w].req.event) # NoId /\ Verified(job[w].req)
    /\ pc[w] = "mark" =>
        /\ job[w].base <= Len(marks)
        /\ \A j \in 1..job[w].base :
               Key(j) = JobKey(w) => Excused(JobKey(w), j, job[w].base, now)
        /\ \A j \in DOMAIN marks : marks[j].worker = w => j <= job[w].base

Working == \A w \in Worker : Knows(w)

\* The mark was made while its request was within the window.
InWindow(mark) ==
    LET W == Window[SourceOf[mark.req.event]] IN
    W # Unlimited => Distance(mark.at, mark.req.at) <= W

\* What the k-th mark tells about the check before it.
AfterCheck(k) ==
    /\ marks[k].base < k /\ marks[k].at <= now
    /\ DeliveryId(marks[k].req.event) # NoId /\ InWindow(marks[k])
    /\ \A j \in 1..(k - 1) :
        /\ marks[j].at <= marks[k].at
        /\ marks[j].worker = marks[k].worker => j <= marks[k].base
    /\ \A j \in 1..marks[k].base :
        Key(j) = Key(k) => Excused(Key(k), j, marks[k].base, marks[k].at)

MarkedAfterCheck ==
    /\ Len(marks) <= MaxMarks
    /\ \A k \in DOMAIN marks : AfterCheck(k)

DeliveryInv == TypeOK /\ Remembered /\ Stamped /\ Working /\ MarkedAfterCheck

------------------------------------------------------------------------------
(* The log of marks *)

\* Key and Flooded, of any log.
LogKey(log, k) == <<SourceOf[log[k].req.event], DeliveryId(log[k].req.event)>>

LogFlooded(log, k, n) ==
    LET later == {LogKey(log, m) : m \in (k + 1)..n} \ {LogKey(log, k)}
        sameSource == {key \in later : key[1] = LogKey(log, k)[1]}
    IN  \/ Cardinality(sameSource) >= MaxEntries
        \/ Cardinality({key[1] : key \in later \ sameSource}) >= MaxPartitions

LEMMA KeyIsLogKey ==
  /\ \A k : Key(k) = LogKey(marks, k)
  /\ \A k, n : Flooded(k, n) <=> LogFlooded(marks, k, n)
  BY DEF Key, Flooded, LogKey, LogFlooded

LEMMA KeyIsLogKeyNext ==
  /\ \A k : Key(k)' = LogKey(marks', k)
  /\ \A k, n : Flooded(k, n)' <=> LogFlooded(marks', k, n)
  BY DEF Key, Flooded, LogKey, LogFlooded

\* The keys of a stretch of the log are finitely many.
LEMMA LaterFinite ==
  ASSUME NEW log, NEW k \in Nat, NEW n \in Nat, NEW S
  PROVE  /\ IsFiniteSet({LogKey(log, m) : m \in (k + 1)..n})
         /\ IsFiniteSet({key[1] : key \in {LogKey(log, m) : m \in (k + 1)..n} \ S})
  <1> DEFINE I == (k + 1)..n
             T == {LogKey(log, m) : m \in I}
             U == {key[1] : key \in T}
  <1>1. IsFiniteSet(I)
    BY FS_Interval
  <1> HIDE DEF I
  <1>2. [m \in I |-> LogKey(log, m)] \in Surjection(I, T)
    BY DEF Surjection
  <1>3. IsFiniteSet(T)
    BY <1>1, <1>2, FS_Surjection
  <1> HIDE DEF T
  <1>4. [key \in T |-> key[1]] \in Surjection(T, U)
    BY DEF Surjection
  <1>5. IsFiniteSet(U)
    BY <1>3, <1>4, FS_Surjection
  <1>6. IsFiniteSet({key[1] : key \in T \ S})
    <2>1. {key[1] : key \in T \ S} \in SUBSET U
      OBVIOUS
    <2> QED
      BY <1>5, <2>1, FS_Subset
  <1> QED
    BY <1>3, <1>6 DEF T, I

\* Once max_entries other ids of the source were marked, the mark is flooded.
LEMMA FloodedByIds ==
  ASSUME NEW log, NEW k \in Nat, NEW n \in Nat, NEW S, IsFiniteSet(S),
         LogKey(log, k)[2] \notin S, Cardinality(S) >= MaxEntries,
         \A id \in S : \E m \in (k + 1)..n : LogKey(log, m) = <<LogKey(log, k)[1], id>>
  PROVE  LogFlooded(log, k, n)
  <1> DEFINE all == {LogKey(log, m) : m \in (k + 1)..n}
             source == LogKey(log, k)[1]
             T == {key \in all \ {LogKey(log, k)} : key[1] = source}
             f == [id \in S |-> <<source, id>>]
  <1>1. IsFiniteSet(all)
    BY LaterFinite
  <1>2. IsFiniteSet(T) /\ Cardinality(T) \in Nat
    BY <1>1, FS_Subset, FS_CardinalityType
  <1>3. ASSUME NEW id \in S
        PROVE  f[id] \in T
    <2>1. <<source, id>> \in all
      OBVIOUS
    <2>2. <<source, id>> # LogKey(log, k)
      BY DEF LogKey
    <2> QED
      BY <2>1, <2>2
  <1>4. f \in Injection(S, T)
    BY <1>3 DEF Injection, IsInjective
  <1>5. Cardinality(S) <= Cardinality(T) /\ Cardinality(S) \in Nat
    BY <1>2, <1>4, FS_Injection, FS_CardinalityType
  <1>6. Cardinality(T) >= MaxEntries
    BY <1>2, <1>5, CacheAssumption
  <1> QED
    BY <1>6 DEF LogFlooded

\* Once max_partitions other sources were marked, the mark is flooded.
LEMMA FloodedBySources ==
  ASSUME NEW log, NEW k \in Nat, NEW n \in Nat, NEW S, IsFiniteSet(S),
         LogKey(log, k)[1] \notin S, Cardinality(S) >= MaxPartitions,
         \A s \in S : \E m \in (k + 1)..n : LogKey(log, m)[1] = s
  PROVE  LogFlooded(log, k, n)
  <1> DEFINE all == {LogKey(log, m) : m \in (k + 1)..n}
             later == all \ {LogKey(log, k)}
             same == {key \in later : key[1] = LogKey(log, k)[1]}
             T == {key[1] : key \in later \ same}
  <1>1. T = {key[1] : key \in all \ ({LogKey(log, k)} \cup same)}
    OBVIOUS
  <1>2. IsFiniteSet({key[1] : key \in all \ ({LogKey(log, k)} \cup same)})
    <2> DEFINE S0 == {LogKey(log, k)} \cup same
    <2> HIDE DEF S0
    <2>1. IsFiniteSet({key[1] : key \in all \ S0})
      BY LaterFinite
    <2> QED
      BY <2>1 DEF S0
  <1>3. IsFiniteSet(T) /\ Cardinality(T) \in Nat
    BY <1>1, <1>2, FS_CardinalityType
  <1>4. ASSUME NEW s \in S
        PROVE  s \in T
    <2>1. PICK m \in (k + 1)..n : LogKey(log, m)[1] = s
      OBVIOUS
    <2>2. LogKey(log, m) \in later \ same
      BY <2>1
    <2> QED
      BY <2>1, <2>2
  <1>5. Cardinality(S) <= Cardinality(T) /\ Cardinality(S) \in Nat
    BY <1>3, <1>4, FS_Subset, FS_CardinalityType
  <1>6. Cardinality(T) >= MaxPartitions
    BY <1>3, <1>5, CacheAssumption
  <1> QED
    BY <1>6 DEF LogFlooded

\* Flooded is read off the log up to n, and stays so when the log grows.
LEMMA FloodedGrows ==
  ASSUME NEW log, NEW longer, NEW k \in Nat, NEW n \in Nat, NEW o \in Nat, n <= o,
         \A m \in k..n : longer[m] = log[m], k <= n
  PROVE  /\ LogFlooded(log, k, n) <=> LogFlooded(longer, k, n)
         /\ LogFlooded(log, k, n) => LogFlooded(longer, k, o)
  <1> DEFINE all(l, p) == {LogKey(l, m) : m \in (k + 1)..p}
             later(l, p) == all(l, p) \ {LogKey(l, k)}
             same(l, p) == {key \in later(l, p) : key[1] = LogKey(l, k)[1]}
             others(l, p) == {key[1] : key \in later(l, p) \ same(l, p)}
  <1>1. LogKey(longer, k) = LogKey(log, k) /\ \A m \in (k + 1)..n : LogKey(longer, m) = LogKey(log, m)
    BY DEF LogKey
  <1>2. all(log, n) = all(longer, n)
    BY <1>1
  <1>3. LogFlooded(log, k, n) <=> LogFlooded(longer, k, n)
    BY <1>1, <1>2 DEF LogFlooded
  <1>4. all(longer, n) \subseteq all(longer, o)
    OBVIOUS
  <1>5. IsFiniteSet(all(longer, o)) /\ IsFiniteSet(all(longer, n))
    BY LaterFinite
  <1>6. \A p \in {n, o} : IsFiniteSet(same(longer, p)) /\ Cardinality(same(longer, p)) \in Nat
    BY <1>5, FS_Subset, FS_CardinalityType
  <1>7. \A p \in {n, o} : IsFiniteSet(others(longer, p)) /\ Cardinality(others(longer, p)) \in Nat
    <2> TAKE p \in {n, o}
    <2>1. others(longer, p) = {key[1] : key \in all(longer, p) \ ({LogKey(longer, k)} \cup same(longer, p))}
      OBVIOUS
    <2> DEFINE S0 == {LogKey(longer, k)} \cup same(longer, p)
    <2>2. p \in Nat
      OBVIOUS
    <2> HIDE DEF S0
    <2>3. IsFiniteSet({key[1] : key \in all(longer, p) \ S0})
      BY ZenonT(40), <2>2, LaterFinite
    <2> QED
      BY <2>1, <2>3, FS_CardinalityType DEF S0
  <1>8. same(longer, n) \subseteq same(longer, o) /\ others(longer, n) \subseteq others(longer, o)
    BY <1>4
  <1>9. /\ Cardinality(same(longer, n)) <= Cardinality(same(longer, o))
        /\ Cardinality(others(longer, n)) <= Cardinality(others(longer, o))
    BY <1>6, <1>7, <1>8, FS_Subset
  <1>10. LogFlooded(longer, k, n) => LogFlooded(longer, k, o)
    <2> HIDE DEF all
    <2>1. \A p \in {n, o} : LogFlooded(longer, k, p) <=>
              \/ Cardinality(same(longer, p)) >= MaxEntries
              \/ Cardinality(others(longer, p)) >= MaxPartitions
      BY DEF LogFlooded, all
    <2> HIDE DEF same, others
    <2> QED
      BY <1>6, <1>7, <1>9, <2>1, CacheAssumption
  <1> QED
    BY <1>3, <1>10

------------------------------------------------------------------------------
(* The cache *)

LEMMA BoundedIs ==
  ASSUME NEW c \in Seq(BucketEntry)
  PROVE  Bounded(c) <=>
            /\ Len(c) <= MaxPartitions /\ Unique(c)
            /\ \A b \in DOMAIN c : /\ Len(c[b].value) <= MaxEntries /\ Unique(c[b].value)
  BY DEF Bounded, BoundedDict, Unique

LEMMA BucketTyped ==
  ASSUME NEW c \in Seq(BucketEntry), NEW b \in DOMAIN c
  PROVE  /\ c[b] \in BucketEntry /\ c[b].key \in Source /\ c[b].value \in Seq(Entry)
         /\ c[b] = [key |-> c[b].key, value |-> c[b].value]
  <1>1. c[b] \in BucketEntry
    OBVIOUS
  <1> QED
    BY <1>1 DEF BucketEntry

\* The bucket of a source is the value of its entry.
LEMMA BucketIs ==
  ASSUME NEW c \in Seq(BucketEntry), Bounded(c), NEW s
  PROVE  /\ Bucket(c, s) \in Seq(Entry) /\ Unique(Bucket(c, s))
         /\ \A b \in DOMAIN c : c[b].key = s => Bucket(c, s) = c[b].value
         /\ (\A b \in DOMAIN c : c[b].key # s) => Bucket(c, s) = <<>>
  <1>1. CASE Positions(c, s) = {}
    BY <1>1 DEF Bucket, Positions, Unique
  <1>2. ASSUME NEW b \in DOMAIN c, c[b].key = s
        PROVE  /\ Bucket(c, s) \in Seq(Entry) /\ Unique(Bucket(c, s))
               /\ \A d \in DOMAIN c : c[d].key = s => Bucket(c, s) = c[d].value
    <2>1. Unique(c) /\ Unique(c[b].value)
      BY BoundedIs
    <2>2. (CHOOSE k \in DOMAIN c : c[k].key = s) = b /\ \A d \in DOMAIN c : c[d].key = s => d = b
      BY <1>2, <2>1 DEF Unique
    <2>3. Positions(c, s) # {}
      BY <1>2 DEF Positions
    <2>4. Bucket(c, s) = c[b].value
      BY <2>2, <2>3 DEF Bucket
    <2> QED
      BY <2>1, <2>2, <2>4, BucketTyped
  <1> QED
    BY <1>1, <1>2 DEF Positions

\* A hit is an entry that is fresh.
LEMMA HitIsFresh ==
  ASSUME NEW c \in Seq(BucketEntry), Bounded(c), NEW s, NEW id, NEW time
  PROVE  Hit(c, s, id, time) <=>
            \E b \in DOMAIN c : \E i \in DOMAIN c[b].value :
                /\ c[b].key = s /\ c[b].value[i].key = id
                /\ Fresh(c[b].value[i].value, time)
  <1>1. CASE \A b \in DOMAIN c : c[b].key # s
    <2>1. Bucket(c, s) = <<>>
      BY <1>1, BucketIs
    <2> QED
      BY <1>1, <2>1 DEF Hit, Positions
  <1>2. CASE \E b \in DOMAIN c : c[b].key = s
    <2>1. \A b \in DOMAIN c : c[b].key = s => Bucket(c, s) = c[b].value
      BY BucketIs
    <2> QED
      BY <1>2, <2>1 DEF Hit, Positions
  <1> QED
    BY <1>1, <1>2

\* is_duplicate changes no more than the id it was asked for.
LEMMA ForgetKeeps ==
  ASSUME NEW c \in Seq(BucketEntry), Bounded(c), NEW s, NEW id
  PROVE  LET r == Forget(c, s, id) IN
         /\ r \in Seq(BucketEntry) /\ Bounded(r) /\ DOMAIN r = DOMAIN c
         /\ \A b \in DOMAIN c :
             /\ r[b].key = c[b].key /\ KeysAfter(r, b) = KeysAfter(c, b)
             /\ \A i \in DOMAIN c[b].value :
                    <<c[b].key, c[b].value[i].key>> # <<s, id>>
                        => KeepsAt(c[b].value, r[b].value, i)
             /\ \A j \in DOMAIN r[b].value : \E i \in DOMAIN c[b].value :
                    r[b].value[j] = c[b].value[i]
  <1> DEFINE r == Forget(c, s, id)
             p(b) == Pop(c[b].value, id)
             v(b) == IF c[b].key = s THEN p(b) ELSE c[b].value
  <1>1. \A b \in DOMAIN c : Unique(c[b].value) /\ Len(c[b].value) <= MaxEntries
    BY BoundedIs
  <1>2. Unique(c) /\ Len(c) <= MaxPartitions
    BY BoundedIs
  <1>3. \A b \in DOMAIN c :
            /\ p(b) \in Seq(Entry) /\ Unique(p(b)) /\ Thins(c[b].value, p(b))
            /\ \A i \in DOMAIN c[b].value :
                   c[b].value[i].key # id => KeepsAt(c[b].value, p(b), i)
    BY <1>1, BucketTyped, PopKeeps
  <1> HIDE DEF p, v
  <1>4. DOMAIN r = DOMAIN c /\ DOMAIN c = 1..Len(c) /\ Len(c) \in Nat
    BY DEF Forget
  <1>5. ASSUME NEW b \in DOMAIN c
        PROVE  r[b] = [key |-> c[b].key, value |-> v(b)] /\ r[b].key = c[b].key /\ r[b].value = v(b)
    <2>1. c[b] = [key |-> c[b].key, value |-> c[b].value]
      BY BucketTyped
    <2>2. r[b] = [key |-> c[b].key, value |-> v(b)]
      BY <2>1 DEF Forget, p, v
    <2> HIDE DEF r
    <2> QED
      BY <2>2
  <1> HIDE DEF r
  <1>6. ASSUME NEW b \in DOMAIN c
        PROVE  r[b] \in BucketEntry
    <2>1. v(b) \in Seq(Entry) /\ c[b].key \in Source
      BY <1>3, BucketTyped DEF v
    <2>2. r[b] = [key |-> c[b].key, value |-> v(b)]
      BY <1>5
    <2> QED
      BY <2>1, <2>2 DEF BucketEntry
  <1>7. r \in Seq(BucketEntry) /\ Len(r) = Len(c)
    <2>1. r = [b \in 1..Len(c) |-> r[b]]
      BY <1>4 DEF r, Forget
    <2>2. [b \in 1..Len(c) |-> r[b]] \in Seq(BucketEntry)
      BY <1>4, <1>6, SeqDef
    <2>3. r \in Seq(BucketEntry)
      BY <2>1, <2>2
    <2> QED
      BY <1>4, <2>3
  <1>8. ASSUME NEW b \in DOMAIN c
        PROVE  /\ r[b].key = c[b].key /\ KeysAfter(r, b) = KeysAfter(c, b)
               /\ Unique(r[b].value) /\ Len(r[b].value) <= MaxEntries
               /\ \A i \in DOMAIN c[b].value :
                      <<c[b].key, c[b].value[i].key>> # <<s, id>>
                          => KeepsAt(c[b].value, r[b].value, i)
               /\ \A j \in DOMAIN r[b].value : \E i \in DOMAIN c[b].value :
                      r[b].value[j] = c[b].value[i]
    <2>1. r[b].key = c[b].key
      BY <1>5
    <2>2. KeysAfter(r, b) = KeysAfter(c, b)
      <3>1. \A n \in (b + 1)..Len(c) : r[n].key = c[n].key
        BY <1>4, <1>5
      <3> QED
        BY <1>7, <3>1 DEF KeysAfter
    <2>3. CASE c[b].key # s
      <3>1. r[b].value = c[b].value
        BY <1>5, <2>3 DEF v
      <3> QED
        BY <1>1, <2>1, <2>2, <3>1 DEF KeepsAt
    <2>4. CASE c[b].key = s
      <3>1. r[b].value = p(b)
        BY <1>5, <2>4 DEF v
      <3>2. Len(c[b].value) \in Nat /\ Len(p(b)) \in Nat /\ Len(p(b)) <= MaxEntries
        BY <1>1, <1>3, BucketTyped, CacheAssumption DEF Thins
      <3> QED
        BY <1>3, <2>1, <2>2, <2>4, <3>1, <3>2 DEF Thins
    <2> QED
      BY <2>3, <2>4
  <1>9. Unique(r)
    BY <1>2, <1>4, <1>8 DEF Unique
  <1>10. Bounded(r)
    BY <1>2, <1>4, <1>7, <1>8, <1>9, BoundedIs
  <1> QED
    BY <1>4, <1>7, <1>8, <1>10 DEF r

\* What mark_seen makes of a cache: the new mark comes last, and another mark is let
\* go of only when as many came after it as the limits allow.
MarkedIn(c, s, id, at, r) ==
    LET new == [key |-> id, value |-> at] IN
    /\ r \in Seq(BucketEntry) /\ Bounded(r)
    /\ \E d \in DOMAIN r :
        /\ r[d].key = s /\ KeysAfter(r, d) = {}
        /\ \E j \in DOMAIN r[d].value :
               r[d].value[j] = new /\ KeysAfter(r[d].value, j) = {}
        /\ \A b \in DOMAIN c : \A i \in DOMAIN c[b].value :
               c[b].key = s /\ c[b].value[i].key # id =>
                   \/ \E j \in DOMAIN r[d].value :
                       /\ r[d].value[j] = c[b].value[i]
                       /\ KeysAfter(r[d].value, j)
                              \subseteq KeysAfter(c[b].value, i) \cup {id}
                   \/ Cardinality(KeysAfter(c[b].value, i) \cup {id}) >= MaxEntries
    /\ \A b \in DOMAIN c : c[b].key # s =>
           \/ \E d \in DOMAIN r :
                  r[d] = c[b] /\ KeysAfter(r, d) \subseteq KeysAfter(c, b) \cup {s}
           \/ Cardinality(KeysAfter(c, b) \cup {s}) >= MaxPartitions
    /\ \A d \in DOMAIN r : \A j \in DOMAIN r[d].value :
           \/ r[d].key = s /\ r[d].value[j] = new
           \/ \E b \in DOMAIN c : \E i \in DOMAIN c[b].value :
                  c[b].key = r[d].key /\ c[b].value[i] = r[d].value[j]

LEMMA MarkSeenKeeps ==
  ASSUME NEW c \in Seq(BucketEntry), Bounded(c),
         NEW s \in Source, NEW id \in DedupId \ {NoId}, NEW at \in 0..MaxTime
  PROVE  MarkedIn(c, s, id, at, MarkSeen(c, s, id, at))
  <1> DEFINE old == Bucket(c, s)
             new == [key |-> id, value |-> at]
             fresh == Assign(MaxEntries, old, id, at)
             r == MarkSeen(c, s, id, at)
  <1>1. r = Assign(MaxPartitions, c, s, fresh)
    BY DEF MarkSeen
  <1> HIDE DEF r
  <1>2. /\ old \in Seq(Entry) /\ Unique(old)
        /\ \A b \in DOMAIN c : c[b].key = s => old = c[b].value
        /\ (\A b \in DOMAIN c : c[b].key # s) => old = <<>>
    BY BucketIs
  <1>3. new \in Entry
    BY DEF Entry
  <1> HIDE DEF old
  <1>4. /\ fresh \in Seq(Entry) /\ Unique(fresh) /\ Len(fresh) <= MaxEntries
        /\ \E j \in DOMAIN fresh : fresh[j] = new /\ KeysAfter(fresh, j) = {}
        /\ \A j \in DOMAIN fresh :
               fresh[j] = new \/ \E i \in DOMAIN old : fresh[j] = old[i] /\ old[i].key # id
        /\ \A i \in DOMAIN old : old[i].key # id =>
               \/ \E j \in DOMAIN fresh :
                    fresh[j] = old[i] /\ KeysAfter(fresh, j) \subseteq KeysAfter(old, i) \cup {id}
               \/ Cardinality(KeysAfter(old, i) \cup {id}) >= MaxEntries
    BY <1>2, <1>3, AssignKeeps, CacheAssumption
  <1> HIDE DEF fresh, new
  <1>5. [key |-> s, value |-> fresh] \in BucketEntry
    BY <1>4 DEF BucketEntry
  <1>6. Unique(c)
    BY BoundedIs
  <1>7. /\ r \in Seq(BucketEntry) /\ Unique(r) /\ Len(r) <= MaxPartitions
        /\ \E d \in DOMAIN r : r[d] = [key |-> s, value |-> fresh] /\ KeysAfter(r, d) = {}
        /\ \A d \in DOMAIN r :
               \/ r[d] = [key |-> s, value |-> fresh]
               \/ \E b \in DOMAIN c : r[d] = c[b] /\ c[b].key # s
        /\ \A b \in DOMAIN c : c[b].key # s =>
               \/ \E d \in DOMAIN r :
                    r[d] = c[b] /\ KeysAfter(r, d) \subseteq KeysAfter(c, b) \cup {s}
               \/ Cardinality(KeysAfter(c, b) \cup {s}) >= MaxPartitions
    BY ZenonT(40), <1>5, <1>6, AssignKeeps, CacheAssumption DEF r, MarkSeen, fresh, old
  <1>8. PICK d \in DOMAIN r : r[d] = [key |-> s, value |-> fresh] /\ KeysAfter(r, d) = {}
    BY <1>7
  <1>9. r[d].key = s /\ r[d].value = fresh
    BY <1>8
  <1>10. Bounded(r)
    <2>1. ASSUME NEW e \in DOMAIN r
          PROVE  Len(r[e].value) <= MaxEntries /\ Unique(r[e].value)
      <3>1. CASE r[e] = [key |-> s, value |-> fresh]
        BY <1>4, <3>1
      <3>2. CASE \E b \in DOMAIN c : r[e] = c[b]
        BY <3>2, BoundedIs
      <3> QED
        BY <1>7, <3>1, <3>2
    <2> QED
      BY <1>7, <2>1, BoundedIs
  <1>11. ASSUME NEW e \in DOMAIN r, NEW j \in DOMAIN r[e].value
         PROVE  \/ r[e].key = s /\ r[e].value[j] = new
                \/ \E b \in DOMAIN c : \E i \in DOMAIN c[b].value :
                       c[b].key = r[e].key /\ c[b].value[i] = r[e].value[j]
    <2>1. CASE r[e] = [key |-> s, value |-> fresh]
      <3>1. r[e].key = s /\ r[e].value = fresh
        BY <2>1
      <3>2. CASE \E b \in DOMAIN c : c[b].key = s
        BY <1>2, <1>4, <3>1, <3>2
      <3>3. CASE \A b \in DOMAIN c : c[b].key # s
        <4>1. DOMAIN old = {}
          BY <1>2, <3>3
        <4> QED
          BY <1>4, <3>1, <4>1
      <3> QED
        BY <3>2, <3>3
    <2>2. CASE \E b \in DOMAIN c : r[e] = c[b]
      BY <2>2
    <2> QED
      BY <1>7, <2>1, <2>2
  <1>12. ASSUME NEW b \in DOMAIN c, NEW i \in DOMAIN c[b].value,
                c[b].key = s, c[b].value[i].key # id
         PROVE  \/ \E j \in DOMAIN r[d].value :
                    /\ r[d].value[j] = c[b].value[i]
                    /\ KeysAfter(r[d].value, j) \subseteq KeysAfter(c[b].value, i) \cup {id}
                \/ Cardinality(KeysAfter(c[b].value, i) \cup {id}) >= MaxEntries
    BY <1>2, <1>4, <1>9, <1>12
  <1>13. \E j \in DOMAIN r[d].value : r[d].value[j] = new /\ KeysAfter(r[d].value, j) = {}
    BY <1>4, <1>9
  <1>14. \E e \in DOMAIN r :
            /\ r[e].key = s /\ KeysAfter(r, e) = {}
            /\ \E j \in DOMAIN r[e].value : r[e].value[j] = new /\ KeysAfter(r[e].value, j) = {}
            /\ \A b \in DOMAIN c : \A i \in DOMAIN c[b].value :
                   c[b].key = s /\ c[b].value[i].key # id =>
                       \/ \E j \in DOMAIN r[e].value :
                            /\ r[e].value[j] = c[b].value[i]
                            /\ KeysAfter(r[e].value, j)
                                   \subseteq KeysAfter(c[b].value, i) \cup {id}
                       \/ Cardinality(KeysAfter(c[b].value, i) \cup {id}) >= MaxEntries
    <2> WITNESS d \in DOMAIN r
    <2> QED
      BY <1>8, <1>9, <1>12, <1>13
  <1> QED
    BY <1>7, <1>10, <1>11, <1>14 DEF new, r, MarkedIn

------------------------------------------------------------------------------
(* Steps that mark nothing *)

LEMMA MarkTyped ==
  ASSUME TypeOK, NEW k \in DOMAIN marks
  PROVE  /\ marks[k] \in Mark /\ marks[k].worker \in Worker /\ marks[k].req \in Request
         /\ marks[k].base \in 0..MaxMarks /\ marks[k].at \in 0..MaxTime
         /\ k \in 1..Len(marks) /\ Len(marks) \in Nat
  <1>1. marks[k] \in Mark /\ marks \in Seq(Mark)
    BY DEF TypeOK
  <1> QED
    BY <1>1 DEF Mark

\* An entry that is held is a hit until it expires.
LEMMA HeldHits ==
  ASSUME TypeOK, NEW k \in DOMAIN marks, Held(k),
         ~Hit(cache, Key(k)[1], Key(k)[2], now)
  PROVE  now - marks[k].at > Ttl
  <1>1. PICK b \in DOMAIN cache : /\ cache[b].key = Key(k)[1]
                                  /\ \E i \in DOMAIN cache[b].value :
                                         cache[b].value[i] = [key |-> Key(k)[2], value |-> marks[k].at]
    BY DEF Held
  <1>2. PICK i \in DOMAIN cache[b].value :
            cache[b].value[i].key = Key(k)[2] /\ cache[b].value[i].value = marks[k].at
    BY <1>1
  <1>3. ~Fresh(marks[k].at, now)
    BY <1>1, <1>2, HitIsFresh DEF TypeOK
  <1>4. marks[k].at \in 0..MaxTime /\ now \in 0..MaxTime
    BY MarkTyped DEF TypeOK
  <1> QED
    BY <1>3, <1>4, CacheAssumption, DeliveryAssumption DEF Fresh

\* Some mark of a key is its latest.
LEMMA LatestOf ==
  ASSUME TypeOK, NEW j \in DOMAIN marks
  PROVE  \E m \in j..Len(marks) : Key(m) = Key(j) /\ Latest(m)
  <1> DEFINE S == {n \in Nat : n <= Len(marks) - j /\ Key(Len(marks) - n) = Key(j)}
             R == OpToRel(<, Nat)
  <1>1. j \in 1..Len(marks) /\ Len(marks) \in Nat
    BY MarkTyped
  <1>2. Len(marks) - j \in S
    BY <1>1
  <1>3. PICK n \in S : \A o \in S : <<o, n>> \notin R
    BY <1>2, NatLessThanWellFounded, WFMin
  <1>4. \A o \in S : ~(o < n)
    BY <1>3 DEF OpToRel
  <1> DEFINE m == Len(marks) - n
  <1>5. m \in j..Len(marks) /\ Key(m) = Key(j)
    BY <1>1
  <1>6. ASSUME NEW l \in (m + 1)..Len(marks), Key(l) = Key(m)
        PROVE  FALSE
    <2>1. Len(marks) - l \in Nat /\ Len(marks) - l < n /\ Len(marks) - (Len(marks) - l) = l
      BY <1>1, <1>5
    <2>2. Len(marks) - l \in S
      BY <1>1, <1>5, <1>6, <2>1
    <2> QED
      BY <1>4, <2>1, <2>2
  <1> QED
    BY <1>5, <1>6 DEF Latest

\* With the same marks, the keys and what flooded them are the same.
LEMMA SameMarks ==
  ASSUME marks' = marks
  PROVE  /\ \A k : Key(k)' = Key(k)
         /\ \A k, n : Flooded(k, n)' <=> Flooded(k, n)
         /\ \A k : Latest(k)' <=> Latest(k)
  <1>1. \A k : Key(k)' = Key(k)
    BY KeyIsLogKey, KeyIsLogKeyNext
  <1>2. \A k, n : Flooded(k, n)' <=> Flooded(k, n)
    BY KeyIsLogKey, KeyIsLogKeyNext
  <1> QED
    BY <1>1, <1>2 DEF Latest

\* Marks that stay remain what the checks before them made them.
LEMMA MarksFrame ==
  ASSUME DeliveryInv, marks' = marks, now' \in Nat, now <= now'
  PROVE  MarkedAfterCheck'
  <1>1. \A k : Key(k)' = Key(k)
    BY SameMarks
  <1>2. \A key, j, base, at : Excused(key, j, base, at)' <=> Excused(key, j, base, at)
    BY SameMarks DEF Excused
  <1>3. MarkedAfterCheck
    BY DEF DeliveryInv
  <1>4. \A k \in DOMAIN marks : marks[k].at <= now'
    BY <1>3, MarkTyped DEF MarkedAfterCheck, AfterCheck, DeliveryInv, TypeOK
  <1> QED
    BY <1>1, <1>2, <1>3, <1>4 DEF MarkedAfterCheck, AfterCheck, InWindow

\* With the cache as it was, the same marks are held, or more are expired.
LEMMA CacheFrame ==
  ASSUME DeliveryInv, UNCHANGED <<cache, marks>>, now' \in Nat, now <= now'
  PROVE  Remembered' /\ Stamped'
  <1>1. /\ \A k : Key(k)' = Key(k)
        /\ \A k, n : Flooded(k, n)' <=> Flooded(k, n)
        /\ \A k : Latest(k)' <=> Latest(k)
    BY SameMarks
  <1>2. \A k : Held(k)' <=> Held(k)
    BY <1>1 DEF Held
  <1>3. Remembered'
    <2> SUFFICES ASSUME NEW k \in DOMAIN marks, Latest(k), ~Held(k), ~Flooded(k, Len(marks))
                 PROVE  now' - marks[k].at > Ttl
      BY <1>1, <1>2 DEF Remembered
    <2>1. now - marks[k].at > Ttl
      BY DEF DeliveryInv, Remembered
    <2>2. now \in Nat /\ marks[k].at \in Nat /\ Ttl \in Nat
      BY MarkTyped, CacheAssumption DEF DeliveryInv, TypeOK
    <2> QED
      BY <2>1, <2>2
  <1>4. Stamped'
    BY <1>1 DEF Stamped, DeliveryInv
  <1> QED
    BY <1>3, <1>4

\* A worker that does nothing knows what it knew.
LEMMA KnowsFrame ==
  ASSUME NEW v \in Worker, Knows(v), now' = now, marks' = marks,
         pc'[v] = pc[v], job'[v] = job[v]
  PROVE  Knows(v)'
  <1>1. /\ \A k : Key(k)' = Key(k)
        /\ \A k, n : Flooded(k, n)' <=> Flooded(k, n)
    BY SameMarks
  <1>2. \A key, j, base, at : Excused(key, j, base, at)' <=> Excused(key, j, base, at)
    BY <1>1 DEF Excused
  <1>3. JobKey(v)' = JobKey(v)
    BY DEF JobKey
  <1>4. \A req : Verified(req)' <=> Verified(req)
    BY DEF Verified
  <1> QED
    BY <1>1, <1>2, <1>3, <1>4 DEF Knows

LEMMA TickKeeps ==
  ASSUME DeliveryInv, Tick
  PROVE  DeliveryInv'
  <1>1. now \in 0..MaxTime /\ now' = now + 1 /\ now' \in 0..MaxTime
    BY DeliveryAssumption DEF DeliveryInv, TypeOK, Tick
  <1>2. TypeOK'
    BY <1>1 DEF DeliveryInv, TypeOK, Tick
  <1>3. Remembered' /\ Stamped' /\ MarkedAfterCheck'
    BY <1>1, CacheFrame, MarksFrame DEF Tick
  <1>4. Working'
    BY DEF Tick, DeliveryInv, Working, Knows
  <1> QED
    BY <1>2, <1>3, <1>4 DEF DeliveryInv

\* What a worker's step leaves to the others.
LEMMA OthersKnow ==
  ASSUME DeliveryInv, now' = now, marks' = marks, NEW w \in Worker,
         \A v \in Worker \ {w} : pc'[v] = pc[v] /\ job'[v] = job[v],
         Knows(w)'
  PROVE  Working'
  BY KnowsFrame DEF DeliveryInv, Working

LEMMA ReceiveKeeps ==
  ASSUME DeliveryInv, NEW w \in Worker, NEW req \in OnTheWire, Receive(w, req)
  PROVE  DeliveryInv'
  <1>1. now \in Nat /\ now <= now' /\ now' = now
    BY DEF DeliveryInv, TypeOK, Receive
  <1>2. req \in Request
    BY DEF OnTheWire
  <1>3. TypeOK'
    <2> DEFINE new == [NoJob EXCEPT !.req = req]
    <2>1. new = [req |-> req, base |-> 0]
      BY DEF NoJob
    <2>2. new \in [req : Request \cup {NoId}, base : 0..MaxMarks]
      BY <1>2, <2>1, DeliveryAssumption
    <2>3. job' = [job EXCEPT ![w] = new]
      BY DEF Receive
    <2> HIDE DEF new
    <2> QED
      BY <2>2, <2>3 DEF DeliveryInv, TypeOK, Receive
  <1>4. Remembered' /\ Stamped' /\ MarkedAfterCheck'
    BY <1>1, CacheFrame, MarksFrame DEF Receive
  <1>5. /\ pc'[w] = IF DeliveryId(req.event) = NoId THEN "emit" ELSE "check"
        /\ job'[w].req = req
    BY DEF Receive, DeliveryInv, TypeOK, NoJob
  <1>6. Knows(w)'
    BY <1>1, <1>5 DEF Knows, Receive, Verified
  <1>7. Working'
    BY <1>1, <1>6, OthersKnow DEF Receive, DeliveryInv, TypeOK
  <1> QED
    BY <1>3, <1>4, <1>7 DEF DeliveryInv

\* A worker that is done.
LEMMA IdleKeeps ==
  ASSUME DeliveryInv, NEW w \in Worker, Idle(w), UNCHANGED <<now, cache, marks>>
  PROVE  DeliveryInv'
  <1>1. now \in Nat /\ now <= now' /\ now' = now
    BY DEF DeliveryInv, TypeOK
  <1>2. TypeOK'
    BY DeliveryAssumption DEF DeliveryInv, TypeOK, Idle, NoJob
  <1>3. Remembered' /\ Stamped' /\ MarkedAfterCheck'
    BY <1>1, CacheFrame, MarksFrame
  <1>4. Knows(w)'
    BY DEF Knows, Idle, DeliveryInv, TypeOK
  <1>5. Working'
    BY <1>1, <1>4, OthersKnow DEF Idle, DeliveryInv, TypeOK
  <1> QED
    BY <1>2, <1>3, <1>5 DEF DeliveryInv

LEMMA RestartKeeps ==
  ASSUME DeliveryInv, Restart
  PROVE  DeliveryInv'
  <1>1. marks' = <<>> /\ cache' = <<>> /\ DOMAIN marks' = {} /\ DOMAIN cache' = {} /\ Len(marks') = 0 /\ Len(cache') = 0
    BY DEF Restart, EmptyCache
  <1>2. TypeOK'
    BY <1>1, CacheAssumption, DeliveryAssumption
    DEF DeliveryInv, TypeOK, Restart, NoJob, Bounded, BoundedDict
  <1>3. Remembered' /\ Stamped'
    BY <1>1 DEF Remembered, Stamped
  <1>4. MarkedAfterCheck'
    BY <1>1, DeliveryAssumption DEF MarkedAfterCheck
  <1>5. Working'
    BY DEF Working, Knows, Restart
  <1> QED
    BY <1>2, <1>3, <1>4, <1>5 DEF DeliveryInv

------------------------------------------------------------------------------
(* The check and the mark *)

LEMMA PassCheckKeeps ==
  ASSUME DeliveryInv, NEW w \in Worker, PassCheck(w)
  PROVE  DeliveryInv'
  <1> DEFINE e == job[w].req.event
             s == SourceOf[e]
             id == DeliveryId(e)
  <1>1. /\ pc[w] = "check" /\ ~Hit(cache, s, id, now) /\ cache' = Forget(cache, s, id)
        /\ pc' = [pc EXCEPT ![w] = "mark"] /\ job' = [job EXCEPT ![w].base = Len(marks)]
        /\ now' = now /\ marks' = marks
    BY DEF PassCheck
  <1>2. TypeOK /\ cache \in Seq(BucketEntry) /\ Bounded(cache) /\ MarkedAfterCheck
    BY DEF DeliveryInv, TypeOK
  <1>3. JobKey(w) = <<s, id>>
    BY DEF JobKey
  <1> HIDE DEF s, id
  <1>4. /\ cache' \in Seq(BucketEntry) /\ Bounded(cache') /\ DOMAIN cache' = DOMAIN cache
        /\ \A b \in DOMAIN cache :
             /\ cache'[b].key = cache[b].key /\ KeysAfter(cache', b) = KeysAfter(cache, b)
             /\ \A i \in DOMAIN cache[b].value :
                    <<cache[b].key, cache[b].value[i].key>> # <<s, id>>
                        => KeepsAt(cache[b].value, cache'[b].value, i)
             /\ \A j \in DOMAIN cache'[b].value : \E i \in DOMAIN cache[b].value :
                    cache'[b].value[j] = cache[b].value[i]
    BY <1>1, <1>2, ForgetKeeps
  <1>5. Len(marks) \in 0..MaxMarks
    BY <1>2 DEF MarkedAfterCheck, TypeOK
  <1>6. TypeOK'
    <2>1. now' \in 0..MaxTime /\ marks' \in Seq(Mark)
      BY <1>1, <1>2 DEF TypeOK
    <2>2. pc' \in [Worker -> {"idle", "check", "mark", "emit"}]
      BY <1>1, <1>2 DEF TypeOK
    <2>3. job' \in [Worker -> [req : Request \cup {NoId}, base : 0..MaxMarks]]
      BY <1>1, <1>2, <1>5 DEF TypeOK
    <2>4. cache' \in Seq(BucketEntry) /\ Bounded(cache)'
      BY <1>4 DEF Bounded, BoundedDict
    <2> QED
      BY <2>1, <2>2, <2>3, <2>4 DEF TypeOK
  <1>7. /\ \A k : Key(k)' = Key(k)
        /\ \A k, n : Flooded(k, n)' <=> Flooded(k, n)
        /\ \A k : Latest(k)' <=> Latest(k)
    BY <1>1, SameMarks
  <1>8. ASSUME NEW k \in DOMAIN marks, Held(k), Key(k) = <<s, id>>
        PROVE  now - marks[k].at > Ttl
    BY <1>1, <1>2, <1>8, HeldHits
  <1>9. ASSUME NEW k \in DOMAIN marks, Held(k), Key(k) # <<s, id>>
        PROVE  Held(k)'
    <2>1. PICK b \in DOMAIN cache :
            /\ cache[b].key = Key(k)[1]
            /\ \A t \in KeysAfter(cache, b) : \E m \in (k + 1)..Len(marks) : Key(m)[1] = t
            /\ \E i \in DOMAIN cache[b].value :
                /\ cache[b].value[i] = [key |-> Key(k)[2], value |-> marks[k].at]
                /\ \A d \in KeysAfter(cache[b].value, i) :
                       \E m \in (k + 1)..Len(marks) : Key(m) = <<Key(k)[1], d>>
      BY <1>9 DEF Held
    <2>2. PICK i \in DOMAIN cache[b].value :
                /\ cache[b].value[i] = [key |-> Key(k)[2], value |-> marks[k].at]
                /\ \A d \in KeysAfter(cache[b].value, i) :
                       \E m \in (k + 1)..Len(marks) : Key(m) = <<Key(k)[1], d>>
      BY <2>1
    <2>3. cache[b].value[i].key = Key(k)[2] /\ Key(k) = <<Key(k)[1], Key(k)[2]>>
      BY <2>2 DEF Key
    <2>4. KeepsAt(cache[b].value, cache'[b].value, i)
      BY <1>4, <1>9, <2>1, <2>3
    <2>5. PICK j \in DOMAIN cache'[b].value :
            /\ cache'[b].value[j] = cache[b].value[i]
            /\ KeysAfter(cache'[b].value, j) \subseteq KeysAfter(cache[b].value, i)
      BY <2>4 DEF KeepsAt
    <2>6. b \in DOMAIN cache' /\ cache'[b].key = Key(k)'[1]
      BY <1>4, <1>7, <2>1
    <2>7. \A t \in KeysAfter(cache', b) : \E m \in (k + 1)..Len(marks') : Key(m)'[1] = t
      BY <1>1, <1>4, <1>7, <2>1
    <2>8. cache'[b].value[j] = [key |-> Key(k)'[2], value |-> marks'[k].at]
      BY <1>1, <1>7, <2>2, <2>5
    <2>9. \A d \in KeysAfter(cache'[b].value, j) :
              \E m \in (k + 1)..Len(marks') : Key(m)' = <<Key(k)'[1], d>>
      BY <1>1, <1>7, <2>2, <2>5
    <2> QED
      BY <2>5, <2>6, <2>7, <2>8, <2>9 DEF Held
  <1>10. Remembered'
    <2> SUFFICES ASSUME NEW k \in DOMAIN marks, Latest(k), ~Flooded(k, Len(marks)),
                        ~(now - marks[k].at > Ttl)
                 PROVE  Held(k)'
      BY <1>1, <1>7 DEF Remembered
    <2>1. Held(k)
      BY DEF DeliveryInv, Remembered
    <2> QED
      BY <1>8, <1>9, <2>1
  <1>11. Stamped'
    <2> SUFFICES ASSUME NEW b \in DOMAIN cache, NEW j \in DOMAIN cache'[b].value
                 PROVE  \E k \in DOMAIN marks :
                            /\ Key(k) = <<cache'[b].key, cache'[b].value[j].key>>
                            /\ marks[k].at = cache'[b].value[j].value
      BY <1>1, <1>4, <1>7 DEF Stamped
    <2>1. PICK i \in DOMAIN cache[b].value : cache'[b].value[j] = cache[b].value[i]
      BY <1>4
    <2> QED
      BY <1>4, <2>1 DEF DeliveryInv, Stamped
  <1>12. MarkedAfterCheck'
    BY <1>1, MarksFrame DEF DeliveryInv, TypeOK
  <1>13. /\ pc'[w] = "mark" /\ job'[w].req = job[w].req /\ job'[w].base = Len(marks)
         /\ \A v \in Worker \ {w} : pc'[v] = pc[v] /\ job'[v] = job[v]
    BY <1>1, <1>2 DEF TypeOK
  <1>14. ASSUME NEW j \in 1..Len(marks), Key(j) = <<s, id>>
         PROVE  Excused(<<s, id>>, j, Len(marks), now)
    <2>0. j \in DOMAIN marks
      BY <1>2 DEF TypeOK
    <2>1. PICK m \in j..Len(marks) : Key(m) = Key(j) /\ Latest(m)
      BY <1>2, <2>0, LatestOf
    <2>2. m \in DOMAIN marks
      BY <1>2, <2>1 DEF TypeOK
    <2>3. Held(m) \/ Flooded(m, Len(marks)) \/ now - marks[m].at > Ttl
      BY <2>1, <2>2 DEF DeliveryInv, Remembered
    <2>4. Flooded(m, Len(marks)) \/ now - marks[m].at > Ttl
      BY <1>8, <1>14, <2>1, <2>2, <2>3
    <2> QED
      BY <1>14, <2>1, <2>4 DEF Excused
  <1>15. Knows(w)'
    <2>1. JobKey(w)' = <<s, id>>
      BY <1>3, <1>13 DEF JobKey
    <2>2. Knows(w)
      BY DEF DeliveryInv, Working
    <2>3. job[w].req \in OnTheWire /\ DeliveryId(job[w].req.event) # NoId /\ Verified(job[w].req)
      BY <1>1, <2>2 DEF Knows
    <2>4. Verified(job[w].req)'
      BY <1>1, <1>13, <2>3 DEF Verified
    <2>5. ASSUME NEW j \in 1..Len(marks), Key(j)' = <<s, id>>
          PROVE  Excused(JobKey(w), j, job[w].base, now)'
      <3>1. PICK m \in j..Len(marks) :
                Key(m) = <<s, id>> /\ (Flooded(m, Len(marks)) \/ now - marks[m].at > Ttl)
        BY <1>7, <1>14, <2>5 DEF Excused
      <3>2. Key(m)' = JobKey(w)' /\ (Flooded(m, Len(marks))' \/ now' - marks'[m].at > Ttl)
        BY <1>1, <1>7, <2>1, <3>1
      <3> QED
        BY <1>1, <1>13, <3>1, <3>2 DEF Excused
    <2>6. \A j \in DOMAIN marks : j <= Len(marks)
      BY <1>2 DEF TypeOK
    <2> QED
      BY <1>1, <1>5, <1>13, <2>1, <2>3, <2>4, <2>5, <2>6 DEF Knows
  <1>16. Working'
    BY <1>1, <1>13, <1>15, OthersKnow
  <1> QED
    BY <1>6, <1>10, <1>11, <1>12, <1>16 DEF DeliveryInv

\* One more mark leaves the keys of the others, and what had flooded them, as they
\* were; whatever they lie before is now one key more.
LEMMA OneMoreMark ==
  ASSUME TypeOK, NEW mark \in Mark, marks' = Append(marks, mark),
         NEW L \in Nat, L = Len(marks)
  PROVE  /\ marks' \in Seq(Mark) /\ Len(marks') = L + 1 /\ DOMAIN marks' = 1..(L + 1)
         /\ marks'[L + 1] = mark /\ \A k \in 1..L : marks'[k] = marks[k]
         /\ Key(L + 1)' = <<SourceOf[mark.req.event], DeliveryId(mark.req.event)>>
         /\ \A k \in 1..L : Key(k)' = Key(k)
         /\ \A k \in 1..L, n \in 1..L : k <= n => (Flooded(k, n)' <=> Flooded(k, n))
         /\ \A k \in 1..L : Flooded(k, L) => Flooded(k, L + 1)'
         /\ \A k \in 1..L : Latest(k)' => Latest(k) /\ Key(L + 1)' # Key(k)
  <1>1. /\ L \in Nat /\ marks' \in Seq(Mark) /\ Len(marks') = L + 1 /\ DOMAIN marks' = 1..(L + 1)
        /\ marks'[L + 1] = mark /\ \A k \in 1..L : marks'[k] = marks[k]
    BY DEF TypeOK
  <1>2. /\ Key(L + 1)' = <<SourceOf[mark.req.event], DeliveryId(mark.req.event)>>
        /\ \A k \in 1..L : Key(k)' = Key(k)
    BY <1>1, KeyIsLogKey, KeyIsLogKeyNext DEF LogKey
  <1>3. ASSUME NEW k \in 1..L, NEW n \in 1..L, k <= n
        PROVE  Flooded(k, n)' <=> Flooded(k, n)
    <2>1. k \in Nat /\ n \in Nat /\ n <= n /\ \A m \in k..n : marks'[m] = marks[m]
      BY <1>1
    <2>2. LogFlooded(marks, k, n) <=> LogFlooded(marks', k, n)
      BY <1>3, <2>1, FloodedGrows
    <2> QED
      BY <2>2, KeyIsLogKey, KeyIsLogKeyNext
  <1>4. ASSUME NEW k \in 1..L, Flooded(k, L)
        PROVE  Flooded(k, L + 1)'
    <2>1. k \in Nat /\ k <= L /\ L + 1 \in Nat /\ L <= L + 1 /\ \A m \in k..L : marks'[m] = marks[m]
      BY <1>1
    <2>2. LogFlooded(marks, k, L) => LogFlooded(marks', k, L + 1)
      BY <2>1, FloodedGrows
    <2> QED
      BY <1>4, <2>2, KeyIsLogKey, KeyIsLogKeyNext
  <1>5. ASSUME NEW k \in 1..L, Latest(k)'
        PROVE  Latest(k) /\ Key(L + 1)' # Key(k)
    <2>1. \A m \in (k + 1)..(L + 1) : Key(m)' # Key(k)'
      BY <1>1, <1>5 DEF Latest
    <2>2. Key(L + 1)' # Key(k)
      BY <1>1, <1>2, <2>1
    <2>3. \A m \in (k + 1)..L : Key(m) # Key(k)
      BY <1>1, <1>2, <2>1
    <2> QED
      BY <2>2, <2>3 DEF Latest
  <1> QED
    BY <1>1, <1>2, <1>3, <1>4, <1>5

\* The marks that were held are, after one more of another key, held or flooded.
LEMMA StoreMarkHolds ==
  ASSUME DeliveryInv, NEW mark \in Mark, marks' = Append(marks, mark),
         NEW s \in Source, NEW id \in DedupId \ {NoId},
         SourceOf[mark.req.event] = s, DeliveryId(mark.req.event) = id,
         mark.at = now, cache' = MarkSeen(cache, s, id, now), now' = now,
         NEW L \in Nat, L = Len(marks)
  PROVE  /\ cache' \in Seq(BucketEntry) /\ Bounded(cache')
         /\ Remembered' /\ Stamped'
  <1> DEFINE new == [key |-> id, value |-> now]
             C(d) == cache'[d].value
  <1>1. TypeOK /\ cache \in Seq(BucketEntry) /\ Bounded(cache) /\ now \in 0..MaxTime
    BY DEF DeliveryInv, TypeOK
  <1>2. /\ L \in Nat /\ Len(marks') = L + 1 /\ DOMAIN marks' = 1..(L + 1) /\ DOMAIN marks = 1..L
        /\ marks'[L + 1] = mark /\ \A k \in 1..L : marks'[k] = marks[k]
        /\ Key(L + 1)' = <<s, id>>
        /\ \A k \in 1..L : Key(k)' = Key(k)
        /\ \A k \in 1..L : Flooded(k, L) => Flooded(k, L + 1)'
        /\ \A k \in 1..L : Latest(k)' => Latest(k) /\ <<s, id>> # Key(k)
    <2>1. DOMAIN marks = 1..L
      BY <1>1 DEF TypeOK
    <2> QED
      BY <1>1, <2>1, OneMoreMark
  <1>3. /\ cache' \in Seq(BucketEntry) /\ Bounded(cache')
        /\ \E d \in DOMAIN cache' :
            /\ cache'[d].key = s /\ KeysAfter(cache', d) = {}
            /\ \E j \in DOMAIN cache'[d].value :
                   C(d)[j] = new /\ KeysAfter(C(d), j) = {}
            /\ \A b \in DOMAIN cache : \A i \in DOMAIN cache[b].value :
                   cache[b].key = s /\ cache[b].value[i].key # id =>
                       \/ \E j \in DOMAIN cache'[d].value :
                           /\ C(d)[j] = cache[b].value[i]
                           /\ KeysAfter(C(d), j) \subseteq KeysAfter(cache[b].value, i) \cup {id}
                       \/ Cardinality(KeysAfter(cache[b].value, i) \cup {id}) >= MaxEntries
        /\ \A b \in DOMAIN cache : cache[b].key # s =>
               \/ \E d \in DOMAIN cache' :
                    cache'[d] = cache[b] /\ KeysAfter(cache', d) \subseteq KeysAfter(cache, b) \cup {s}
               \/ Cardinality(KeysAfter(cache, b) \cup {s}) >= MaxPartitions
        /\ \A d \in DOMAIN cache' : \A j \in DOMAIN cache'[d].value :
               \/ cache'[d].key = s /\ C(d)[j] = new
               \/ \E b \in DOMAIN cache : \E i \in DOMAIN cache[b].value :
                      cache[b].key = cache'[d].key /\ cache[b].value[i] = C(d)[j]
    <2>1. MarkedIn(cache, s, id, now, cache')
      BY <1>1, MarkSeenKeeps
    <2> QED
      BY <2>1 DEF MarkedIn
  <1>4. PICK front \in DOMAIN cache' :
            /\ cache'[front].key = s /\ KeysAfter(cache', front) = {}
            /\ \E j \in DOMAIN cache'[front].value :
                   C(front)[j] = new /\ KeysAfter(C(front), j) = {}
            /\ \A b \in DOMAIN cache : \A i \in DOMAIN cache[b].value :
                   cache[b].key = s /\ cache[b].value[i].key # id =>
                       \/ \E j \in DOMAIN cache'[front].value :
                           /\ C(front)[j] = cache[b].value[i]
                           /\ KeysAfter(C(front), j) \subseteq KeysAfter(cache[b].value, i) \cup {id}
                       \/ Cardinality(KeysAfter(cache[b].value, i) \cup {id}) >= MaxEntries
    BY <1>3
  <1>5. Held(L + 1)'
    <2>1. <<s, id>>[1] = s /\ <<s, id>>[2] = id
      OBVIOUS
    <2> QED
      BY SMTT(40), <1>2, <1>4, <2>1 DEF Held
  <1>6. ASSUME NEW k \in 1..L, Held(k), Key(k) # <<s, id>>
        PROVE  Held(k)' \/ Flooded(k, L + 1)'
    <2>1. PICK b \in DOMAIN cache :
            /\ cache[b].key = Key(k)[1]
            /\ \A t \in KeysAfter(cache, b) : \E m \in (k + 1)..L : Key(m)[1] = t
            /\ \E i \in DOMAIN cache[b].value :
                /\ cache[b].value[i] = [key |-> Key(k)[2], value |-> marks[k].at]
                /\ \A d \in KeysAfter(cache[b].value, i) :
                       \E m \in (k + 1)..L : Key(m) = <<Key(k)[1], d>>
      BY <1>6 DEF Held
    <2>2. PICK i \in DOMAIN cache[b].value :
                /\ cache[b].value[i] = [key |-> Key(k)[2], value |-> marks[k].at]
                /\ \A d \in KeysAfter(cache[b].value, i) :
                       \E m \in (k + 1)..L : Key(m) = <<Key(k)[1], d>>
      BY <2>1
    <2>3. cache[b].value[i].key = Key(k)[2] /\ Key(k) = <<Key(k)[1], Key(k)[2]>>
      BY <2>2 DEF Key
    <2>4. /\ cache[b].value \in Seq(Entry) /\ Unique(cache[b].value) /\ Unique(cache)
      BY <1>1, BoundedIs, BucketTyped
    <2>5. \A m \in (k + 1)..L : Key(m)' = Key(m)
      BY <1>2
    <2>6. k \in Nat /\ L + 1 \in Nat /\ L + 1 \in (k + 1)..(L + 1) /\ (k + 1)..L \subseteq (k + 1)..(L + 1)
      BY <1>2
    <2>7. CASE Key(k)[1] = s
      <3> DEFINE after == KeysAfter(cache[b].value, i) \cup {id}
      <3>1. cache[b].key = s /\ cache[b].value[i].key # id
        BY <1>6, <2>1, <2>3, <2>7
      <3>2. \A d \in after : \E m \in (k + 1)..(L + 1) : Key(m)' = <<Key(k)[1], d>>
        BY <1>2, <2>2, <2>5, <2>6, <2>7
      <3>3. PICK d \in DOMAIN cache' :
            /\ cache'[d].key = s /\ KeysAfter(cache', d) = {}
            /\ \/ \E j \in DOMAIN cache'[d].value :
                   /\ C(d)[j] = cache[b].value[i]
                   /\ KeysAfter(C(d), j) \subseteq after
               \/ Cardinality(after) >= MaxEntries
        <4>1. \/ \E j \in DOMAIN cache'[front].value :
                   C(front)[j] = cache[b].value[i] /\ KeysAfter(C(front), j) \subseteq after
              \/ Cardinality(after) >= MaxEntries
          BY <1>4, <3>1
        <4> QED
          BY <1>4, <4>1
      <3>4. CASE \E j \in DOMAIN cache'[d].value :
                   C(d)[j] = cache[b].value[i] /\ KeysAfter(C(d), j) \subseteq after
        <4>1. PICK j \in DOMAIN cache'[d].value :
                   C(d)[j] = cache[b].value[i] /\ KeysAfter(C(d), j) \subseteq after
          BY <3>4
        <4>2. C(d)[j] = [key |-> Key(k)'[2], value |-> marks'[k].at]
          BY <1>2, <2>2, <4>1
        <4>3. \A x \in KeysAfter(C(d), j) : \E m \in (k + 1)..Len(marks') : Key(m)' = <<Key(k)'[1], x>>
          BY <1>2, <3>2, <4>1
        <4>4. cache'[d].key = Key(k)'[1]
          BY <1>2, <2>7, <3>3
        <4> QED
          BY SMTT(40), <3>3, <4>1, <4>2, <4>3, <4>4 DEF Held
      <3>5. CASE Cardinality(after) >= MaxEntries
        <4>1. IsFiniteSet(after)
          BY <2>4, KeysAfterCounted, FS_AddElement
        <4>2. LogKey(marks', k)[2] \notin after
          BY <1>2, <2>3, <2>4, <3>1, KeysAfterCounted, KeyIsLogKeyNext
        <4>3. \A d1 \in after : \E m \in (k + 1)..(L + 1) : LogKey(marks', m) = <<LogKey(marks', k)[1], d1>>
          BY <1>2, <3>2, KeyIsLogKeyNext
        <4> HIDE DEF after
        <4>4. LogFlooded(marks', k, L + 1)
          BY <2>6, <3>5, <4>1, <4>2, <4>3, FloodedByIds
        <4> QED
          BY <4>4, KeyIsLogKeyNext
      <3> QED
        BY <3>3, <3>4, <3>5
    <2>8. CASE Key(k)[1] # s
      <3> DEFINE after == KeysAfter(cache, b) \cup {s}
      <3>1. cache[b].key # s
        BY <2>1, <2>8
      <3>2. \A t \in after : \E m \in (k + 1)..(L + 1) : Key(m)'[1] = t
        BY SMTT(40), <1>2, <2>1, <2>5, <2>6
      <3>3. CASE \E d \in DOMAIN cache' : cache'[d] = cache[b] /\ KeysAfter(cache', d) \subseteq after
        <4>1. PICK d \in DOMAIN cache' : cache'[d] = cache[b] /\ KeysAfter(cache', d) \subseteq after
          BY <3>3
        <4>2. cache'[d].key = Key(k)'[1] /\ cache'[d].value = cache[b].value
          BY <1>2, <2>1, <4>1
        <4>3. cache'[d].value[i] = [key |-> Key(k)'[2], value |-> marks'[k].at]
          BY <1>2, <2>2, <4>2
        <4>4. \A x \in KeysAfter(cache'[d].value, i) :
                  \E m \in (k + 1)..Len(marks') : Key(m)' = <<Key(k)'[1], x>>
          BY <1>2, <2>2, <2>5, <2>6, <4>2
        <4>5. \A t \in KeysAfter(cache', d) : \E m \in (k + 1)..Len(marks') : Key(m)'[1] = t
          BY <1>2, <3>2, <4>1
        <4> QED
          BY SMTT(40), <4>1, <4>2, <4>3, <4>4, <4>5 DEF Held
      <3>4. CASE Cardinality(after) >= MaxPartitions
        <4>1. IsFiniteSet(after)
          BY <1>1, <2>4, KeysAfterCounted, FS_AddElement
        <4>2. LogKey(marks', k)[1] \notin after
          BY <1>1, <1>2, <2>1, <2>4, <3>1, KeysAfterCounted, KeyIsLogKeyNext
        <4>3. \A t \in after : \E m \in (k + 1)..(L + 1) : LogKey(marks', m)[1] = t
          BY <3>2, KeyIsLogKeyNext
        <4> HIDE DEF after
        <4>4. LogFlooded(marks', k, L + 1)
          BY <2>6, <3>4, <4>1, <4>2, <4>3, FloodedBySources
        <4> QED
          BY <4>4, KeyIsLogKeyNext
      <3> QED
        BY <1>3, <3>1, <3>3, <3>4
    <2> QED
      BY <2>7, <2>8
  <1>7. Remembered'
    <2> SUFFICES ASSUME NEW k \in 1..(L + 1), Latest(k)'
                 PROVE  Held(k)' \/ Flooded(k, L + 1)' \/ now' - marks'[k].at > Ttl
      BY <1>2 DEF Remembered
    <2>1. CASE k = L + 1
      BY <1>5, <2>1
    <2>2. CASE k # L + 1
      <3>1. k \in 1..L /\ Latest(k) /\ Key(k) # <<s, id>>
        BY <1>2, <2>2
      <3>2. Held(k) \/ Flooded(k, L) \/ now - marks[k].at > Ttl
        BY <1>2, <3>1 DEF DeliveryInv, Remembered
      <3> QED
        BY <1>2, <1>6, <3>1, <3>2
    <2> QED
      BY <2>1, <2>2
  <1>8. Stamped'
    <2> SUFFICES ASSUME NEW d \in DOMAIN cache', NEW j \in DOMAIN cache'[d].value
                 PROVE  \E k \in 1..(L + 1) :
                            /\ Key(k)' = <<cache'[d].key, C(d)[j].key>>
                            /\ marks'[k].at = C(d)[j].value
      BY <1>2 DEF Stamped
    <2>1. CASE cache'[d].key = s /\ C(d)[j] = new
      <3>1. L + 1 \in 1..(L + 1)
        BY <1>2
      <3> QED
        BY <1>2, <2>1, <3>1
    <2>2. CASE \E b \in DOMAIN cache : \E i \in DOMAIN cache[b].value :
                   cache[b].key = cache'[d].key /\ cache[b].value[i] = C(d)[j]
      <3>1. PICK k \in 1..L : /\ Key(k) = <<cache'[d].key, C(d)[j].key>>
                              /\ marks[k].at = C(d)[j].value
        BY <1>2, <2>2 DEF DeliveryInv, Stamped
      <3>2. k \in 1..(L + 1)
        BY <1>2
      <3> QED
        BY <1>2, <3>1, <3>2
    <2> QED
      BY <1>3, <2>1, <2>2
  <1> QED
    BY <1>3, <1>7, <1>8

LEMMA StoreMarkKeeps ==
  ASSUME DeliveryInv, NEW w \in Worker, StoreMark(w)
  PROVE  DeliveryInv'
  <1> DEFINE e == job[w].req.event
             s == SourceOf[e]
             id == DeliveryId(e)
             mark == [worker |-> w, req |-> job[w].req, base |-> job[w].base, at |-> now]
  <1>1. PICK L \in Nat : L = Len(marks)
    BY DEF DeliveryInv, TypeOK
  <1>2. /\ TypeOK /\ MarkedAfterCheck /\ Knows(w) /\ now \in 0..MaxTime /\ L < MaxMarks
        /\ pc[w] = "mark" /\ now' = now /\ marks' = Append(marks, mark)
        /\ cache' = MarkSeen(cache, s, id, now)
        /\ \/ Idle(w)
           \/ pc' = [pc EXCEPT ![w] = "emit"] /\ job' = job
    BY <1>1 DEF DeliveryInv, TypeOK, Working, StoreMark
  <1>3. /\ job[w].req \in OnTheWire /\ DeliveryId(job[w].req.event) # NoId /\ Verified(job[w].req)
        /\ job[w].base <= L
        /\ \A j \in 1..job[w].base :
               Key(j) = JobKey(w) => Excused(JobKey(w), j, job[w].base, now)
        /\ \A j \in DOMAIN marks : marks[j].worker = w => j <= job[w].base
    BY <1>1, <1>2 DEF Knows
  <1>4. job[w].req \in Request /\ e \in Event /\ job[w].base \in 0..MaxMarks
    <2>1. job[w].req \in Request
      BY <1>3 DEF OnTheWire
    <2>2. job[w] \in [req : Request \cup {NoId}, base : 0..MaxMarks]
      BY <1>2 DEF TypeOK
    <2> QED
      BY <2>1, <2>2 DEF Request
  <1>5. s \in Source /\ id \in DedupId \ {NoId}
    BY <1>3, <1>4, DeliveryAssumption DEF DeliveryId, DedupId
  <1>6. mark \in Mark
    BY <1>2, <1>4 DEF Mark
  <1>7. /\ mark.worker = w /\ mark.req = job[w].req /\ mark.base = job[w].base /\ mark.at = now
        /\ JobKey(w) = <<s, id>>
    BY DEF JobKey
  <1> HIDE DEF mark, s, id
  <1>8. /\ marks' \in Seq(Mark) /\ Len(marks') = L + 1 /\ DOMAIN marks' = 1..(L + 1)
        /\ marks'[L + 1] = mark /\ \A k \in 1..L : marks'[k] = marks[k]
        /\ Key(L + 1)' = <<SourceOf[mark.req.event], DeliveryId(mark.req.event)>>
        /\ \A k \in 1..L : Key(k)' = Key(k)
        /\ \A k \in 1..L, n \in 1..L : k <= n => (Flooded(k, n)' <=> Flooded(k, n))
    BY <1>1, <1>2, <1>6, OneMoreMark
  <1>9. Key(L + 1)' = <<s, id>>
    BY <1>7, <1>8 DEF s, id
  <1>10. /\ cache' \in Seq(BucketEntry) /\ Bounded(cache')
         /\ Remembered' /\ Stamped'
    <2>1. SourceOf[mark.req.event] = s /\ DeliveryId(mark.req.event) = id
      BY <1>7 DEF s, id
    <2> QED
      BY <1>1, <1>2, <1>5, <1>6, <1>7, <2>1, StoreMarkHolds
  <1>11. TypeOK'
    <2>1. pc' \in [Worker -> {"idle", "check", "mark", "emit"}]
      BY <1>2 DEF TypeOK, Idle
    <2>2. job' \in [Worker -> [req : Request \cup {NoId}, base : 0..MaxMarks]]
      <3>1. NoJob \in [req : Request \cup {NoId}, base : 0..MaxMarks]
        BY DeliveryAssumption DEF NoJob
      <3> QED
        BY <1>2, <3>1 DEF TypeOK, Idle
    <2> QED
      BY <1>2, <1>8, <1>10, <2>1, <2>2 DEF TypeOK
  <1>12. \A k \in 1..L : /\ marks[k] \in Mark /\ marks[k].base < k /\ marks[k].base \in Nat
                         /\ marks[k].at <= now /\ marks[k].at \in Nat
    BY <1>1, <1>2, MarkTyped DEF MarkedAfterCheck, AfterCheck
  \* An excuse is one still: it is about marks that were there before.
  <1>13. ASSUME NEW key, NEW j \in Nat \ {0}, NEW base \in Nat, base <= L, NEW at, Excused(key, j, base, at)
         PROVE  \E m \in j..base : Key(m)' = key /\ (Flooded(m, base)' \/ at - marks'[m].at > Ttl)
    <2>1. PICK m \in j..base : Key(m) = key /\ (Flooded(m, base) \/ at - marks[m].at > Ttl)
      BY <1>13 DEF Excused
    <2>2. m \in 1..L /\ base \in 1..L /\ m <= base
      BY <1>13
    <2> QED
      BY <1>8, <2>1, <2>2
  <1>14. ASSUME NEW k \in 1..L
         PROVE  AfterCheck(k)'
    <2>1. AfterCheck(k)
      BY <1>1, <1>2 DEF MarkedAfterCheck, TypeOK
    <2>2. marks'[k] = marks[k] /\ Key(k)' = Key(k) /\ \A j \in 1..(k - 1) : marks'[j] = marks[j]
      BY <1>8
    <2>3. ASSUME NEW j \in 1..marks[k].base, Key(j)' = Key(k)'
          PROVE  Excused(Key(k), j, marks[k].base, marks[k].at)'
      <3>1. PICK base \in Nat : base = marks[k].base /\ base < k
        BY <1>12
      <3>2. Key(j) = Key(k) /\ base <= L /\ j \in Nat \ {0} /\ j \in 1..base
        BY <1>8, <2>2, <2>3, <3>1
      <3>3. Excused(Key(k), j, base, marks[k].at)
        BY <2>1, <3>1, <3>2 DEF AfterCheck
      <3>4. \E m \in j..base :
                Key(m)' = Key(k) /\ (Flooded(m, base)' \/ marks[k].at - marks'[m].at > Ttl)
        BY <1>13, <3>1, <3>2, <3>3
      <3> QED
        BY <2>2, <3>1, <3>4 DEF Excused
    <2>4. /\ marks'[k].base < k /\ marks'[k].at <= now'
          /\ DeliveryId(marks'[k].req.event) # NoId /\ InWindow(marks'[k])
      BY <1>2, <2>1, <2>2 DEF AfterCheck
    <2>5. InWindow(marks[k])'
      BY <2>4 DEF InWindow
    <2>6. ASSUME NEW j \in 1..(k - 1)
          PROVE  /\ marks'[j].at <= marks'[k].at
                 /\ marks'[j].worker = marks'[k].worker => j <= marks'[k].base
      BY <2>1, <2>2 DEF AfterCheck
    <2> QED
      BY <2>2, <2>3, <2>4, <2>5, <2>6 DEF AfterCheck
  <1>15. ASSUME NEW k, k = L + 1
         PROVE  AfterCheck(k)'
    <2>1. marks'[k] = mark /\ Key(k)' = <<s, id>> /\ L < k /\ L = k - 1
      BY <1>1, <1>8, <1>9, <1>15
    <2>2. mark.base < k /\ mark.at <= now' /\ DeliveryId(mark.req.event) # NoId
      <3>1. mark.base <= L /\ mark.base \in Int /\ k = L + 1
        BY <1>3, <1>4, <1>7, <1>15
      <3>2. mark.at <= now'
        BY <1>2, <1>7
      <3> QED
        BY <1>3, <1>7, <3>1, <3>2
    <2>3. InWindow(mark)
      <3>1. Verified(job[w].req) /\ job[w].req.at \in Nat /\ now \in Nat
        BY <1>2, <1>3, <1>4 DEF Request
      <3> QED
        BY <1>7, <3>1 DEF InWindow, Verified
    <2>4. InWindow(marks[k])'
      BY <2>1, <2>3 DEF InWindow
    <2>5. ASSUME NEW j \in 1..(k - 1)
          PROVE  /\ marks'[j].at <= mark.at
                 /\ marks'[j].worker = mark.worker => j <= mark.base
      <3>1. j \in 1..L /\ j \in DOMAIN marks /\ marks'[j] = marks[j]
        BY <1>1, <1>2, <1>8, <2>1 DEF TypeOK
      <3> QED
        BY <1>3, <1>7, <1>12, <3>1
    <2>6. ASSUME NEW j \in 1..mark.base, Key(j)' = Key(k)'
          PROVE  Excused(Key(k), j, marks[k].base, marks[k].at)'
      <3>1. PICK base \in Nat : base = mark.base /\ base = job[w].base /\ base <= L
        BY <1>3, <1>4, <1>7
      <3>2. Key(j) = <<s, id>> /\ j \in Nat \ {0} /\ j \in 1..base
        BY <1>8, <2>1, <2>6, <3>1
      <3>3. Excused(<<s, id>>, j, base, now)
        BY <1>3, <1>7, <3>1, <3>2
      <3>4. \E m \in j..base :
                Key(m)' = <<s, id>> /\ (Flooded(m, base)' \/ now - marks'[m].at > Ttl)
        BY <1>13, <3>1, <3>2, <3>3
      <3> QED
        BY <1>7, <2>1, <3>1, <3>4 DEF Excused
    <2> QED
      BY <2>1, <2>2, <2>4, <2>5, <2>6 DEF AfterCheck
  <1>16. MarkedAfterCheck'
    BY <1>2, <1>8, <1>14, <1>15, DeliveryAssumption DEF MarkedAfterCheck
  <1>17. Knows(w)'
    BY <1>2, <1>3 DEF Knows, Idle, TypeOK
  <1>18. ASSUME NEW v \in Worker \ {w}
         PROVE  Knows(v)'
    <2>1. pc'[v] = pc[v] /\ job'[v] = job[v] /\ JobKey(v)' = JobKey(v) /\ Knows(v)
      BY <1>2 DEF TypeOK, Idle, JobKey, DeliveryInv, Working
    <2>2. CASE pc[v] # "mark"
      <3>1. Verified(job[v].req) => Verified(job[v].req)'
        BY <1>2, <2>1 DEF Verified
      <3> QED
        BY <2>1, <2>2, <3>1 DEF Knows
    <2>3. CASE pc[v] = "mark"
      <3>1. PICK base \in Nat : base = job[v].base /\ base <= L
        BY <1>1, <1>2, <2>1, <2>3 DEF Knows, TypeOK
      <3>2. ASSUME NEW j \in 1..base, Key(j)' = JobKey(v)
            PROVE  Excused(JobKey(v), j, job[v].base, now)'
        <4>1. PICK key : key = JobKey(v)
          OBVIOUS
        <4>2. Key(j) = key /\ j \in Nat \ {0}
          BY <1>8, <3>1, <3>2, <4>1
        <4>3. Excused(key, j, base, now)
          BY <2>1, <2>3, <3>1, <4>1, <4>2 DEF Knows
        <4>4. \E m \in j..base :
                  Key(m)' = key /\ (Flooded(m, base)' \/ now - marks'[m].at > Ttl)
          BY <1>13, <3>1, <4>2, <4>3
        <4> QED
          BY <1>2, <2>1, <3>1, <4>1, <4>4 DEF Excused
      <3>3. \A j \in 1..(L + 1) : marks'[j].worker = v => j <= base
        <4> SUFFICES ASSUME NEW j \in 1..(L + 1), marks'[j].worker = v
                     PROVE  j <= base
          OBVIOUS
        <4>1. j # L + 1
          BY <1>7, <1>8
        <4>2. j \in 1..L /\ j \in DOMAIN marks /\ marks'[j] = marks[j]
          BY <1>1, <1>2, <1>8, <4>1 DEF TypeOK
        <4> QED
          BY <2>1, <2>3, <3>1, <4>2 DEF Knows
      <3>4. Verified(job[v].req) => Verified(job[v].req)'
        BY <1>2, <2>1 DEF Verified
      <3>5. /\ job[v].req \in OnTheWire
            /\ DeliveryId(job[v].req.event) # NoId /\ Verified(job[v].req)
        BY <2>1, <2>3 DEF Knows
      <3> QED
        BY SMTT(40), <1>8, <2>1, <2>3, <3>1, <3>2, <3>3, <3>4, <3>5 DEF Knows
    <2> QED
      BY <2>2, <2>3
  <1> QED
    BY <1>10, <1>11, <1>16, <1>17, <1>18 DEF DeliveryInv, Working

------------------------------------------------------------------------------
(* The theorems *)

LEMMA InitKeeps == Init => DeliveryInv
  <1> SUFFICES ASSUME Init
               PROVE  DeliveryInv
    OBVIOUS
  <1>1. /\ marks = <<>> /\ cache = <<>> /\ DOMAIN marks = {} /\ DOMAIN cache = {}
        /\ Len(marks) = 0 /\ Len(cache) = 0
    BY DEF Init, EmptyCache
  <1>2. TypeOK
    BY <1>1, CacheAssumption, DeliveryAssumption DEF TypeOK, Init, NoJob, Bounded, BoundedDict
  <1>3. Remembered /\ Stamped
    BY <1>1 DEF Remembered, Stamped
  <1>4. MarkedAfterCheck
    BY <1>1, DeliveryAssumption DEF MarkedAfterCheck
  <1>5. Working
    BY DEF Working, Knows, Init
  <1> QED
    BY <1>2, <1>3, <1>4, <1>5 DEF DeliveryInv

LEMMA NextKeeps == DeliveryInv /\ [Next]_vars => DeliveryInv'
  <1> SUFFICES ASSUME DeliveryInv, [Next]_vars
               PROVE  DeliveryInv'
    OBVIOUS
  <1>1. CASE Tick
    BY <1>1, TickKeeps
  <1>2. CASE Restart
    BY <1>2, RestartKeeps
  <1>3. ASSUME NEW w \in Worker, WorkerStep(w)
        PROVE  DeliveryInv'
    <2>1. CASE \E req \in OnTheWire : Receive(w, req)
      BY <2>1, ReceiveKeeps
    <2>2. CASE DropDuplicate(w)
      BY <2>2, IdleKeeps DEF DropDuplicate
    <2>3. CASE PassCheck(w)
      BY <2>3, PassCheckKeeps
    <2>4. CASE StoreMark(w)
      BY <2>4, StoreMarkKeeps
    <2>5. CASE Emit(w)
      BY <2>5, IdleKeeps DEF Emit
    <2> QED
      BY <1>3, <2>1, <2>2, <2>3, <2>4, <2>5 DEF WorkerStep
  <1>4. CASE UNCHANGED vars
    <2>1. UNCHANGED <<now, pc, job, cache, marks>>
      BY <1>4 DEF vars
    <2>2. TypeOK'
      BY <2>1 DEF DeliveryInv, TypeOK, Bounded, BoundedDict
    <2>3. now' \in Nat /\ now <= now'
      BY <2>1 DEF DeliveryInv, TypeOK
    <2>4. Remembered' /\ Stamped' /\ MarkedAfterCheck'
      BY <2>1, <2>3, CacheFrame, MarksFrame
    <2>5. Working'
      BY <2>1, KnowsFrame DEF DeliveryInv, Working
    <2> QED
      BY <2>2, <2>4, <2>5 DEF DeliveryInv
  <1> QED
    BY <1>1, <1>2, <1>3, <1>4 DEF Next

\* What the threads, the cache and the log of marks know of one another at every
\* moment of deliver_webhook.
THEOREM DeliveryInvariant == Spec => []DeliveryInv
  BY InitKeeps, NextKeeps, PTL DEF Spec

\* The cache never exceeds either of its limits and never holds an id twice
\* (DeliveryDedupCache), whatever is marked.
THEOREM TypeCorrect == Spec => []TypeOK
  <1>1. DeliveryInv => TypeOK
    BY DEF DeliveryInv
  <1> QED
    BY <1>1, DeliveryInvariant, PTL

\* What was marked within the ttl is a duplicate still, unless max_entries ids of its
\* source or max_partitions other sources came after it (mark_seen's evictions).
THEOREM RecentAreRemembered == Spec => []RecentIsRemembered
  <1>1. ASSUME DeliveryInv
        PROVE  RecentIsRemembered
    <2> SUFFICES ASSUME NEW k \in DOMAIN marks,
                        \A m \in (k + 1)..Len(marks) : Key(m) # Key(k),
                        ~Flooded(k, Len(marks)), now - marks[k].at <= Ttl,
                        ~Hit(cache, Key(k)[1], Key(k)[2], now)
                 PROVE  FALSE
      BY DEF RecentIsRemembered
    <2>1. Latest(k) /\ TypeOK
      BY <1>1 DEF Latest, DeliveryInv
    <2>2. marks[k].at \in Nat /\ now \in Nat /\ Ttl \in Nat
      BY <2>1, MarkTyped, CacheAssumption DEF TypeOK
    <2>3. Held(k)
      BY <1>1, <2>1, <2>2 DEF DeliveryInv, Remembered
    <2>4. now - marks[k].at > Ttl
      BY <2>1, <2>3, HeldHits
    <2> QED
      BY <2>2, <2>4
  <1> QED
    BY <1>1, DeliveryInvariant, PTL

\* No id is marked twice but when the second check ran before the first mark, or the
\* first mark was flooded out or had expired by then: is_duplicate and mark_seen are
\* two calls, and nothing else lets a repeated delivery pass.
THEOREM OnlyRacesAdmitTwice == Spec => []OnlyRacesRepeat
  <1>1. ASSUME DeliveryInv
        PROVE  OnlyRacesRepeat
    <2> SUFFICES ASSUME NEW j \in DOMAIN marks, NEW k \in DOMAIN marks,
                        Key(j) = Key(k), ~(marks[k].base < j)
                 PROVE  Excused(Key(k), j, marks[k].base, marks[k].at)
      BY DEF OnlyRacesRepeat, Excused
    <2>1. j \in 1..marks[k].base
      BY <1>1, MarkTyped DEF DeliveryInv
    <2>2. AfterCheck(k)
      BY <1>1 DEF DeliveryInv, MarkedAfterCheck
    <2> QED
      BY <2>1, <2>2 DEF AfterCheck
  <1> QED
    BY <1>1, DeliveryInvariant, PTL

\* Two times within a window of a third are no further apart than twice the window.
LEMMA TwiceTheWindow ==
  ASSUME NEW a \in Nat, NEW b \in Nat, NEW c \in Nat, NEW W \in Nat,
         Distance(a, c) <= W, Distance(b, c) <= W
  PROVE  b - a <= 2 * W
  BY DEF Distance

\* A thread admits a signed request once, however often and late it is replayed, when
\* ttl_seconds covers twice the provider's timestamp tolerance and no flood of other
\* deliveries drove its mark out.
THEOREM SignedOnce == Spec => []WindowedOnce
  <1>1. ASSUME DeliveryInv
        PROVE  WindowedOnce
    <2> SUFFICES ASSUME NEW j \in DOMAIN marks, NEW k \in DOMAIN marks, j < k,
                        marks[j].worker = marks[k].worker, marks[j].req = marks[k].req,
                        Window[Key(j)[1]] # Unlimited, 2 * Window[Key(j)[1]] <= Ttl
                 PROVE  \E m \in j..marks[k].base : Key(m) = Key(k) /\ Flooded(m, marks[k].base)
      BY DEF WindowedOnce
    <2>1. /\ marks[j].at \in Nat /\ marks[k].at \in Nat /\ marks[k].base \in Nat
          /\ marks[j].req \in Request /\ j \in 1..Len(marks) /\ k \in 1..Len(marks) /\ Len(marks) \in Nat
      BY <1>1, MarkTyped DEF DeliveryInv
    <2>2. AfterCheck(j) /\ AfterCheck(k)
      BY <1>1 DEF DeliveryInv, MarkedAfterCheck
    <2> DEFINE e == marks[j].req.event
               W == Window[SourceOf[e]]
               at == marks[j].req.at
    <2>3. e \in Event /\ at \in Nat /\ SourceOf[e] \in Source /\ W \in Nat \cup {Unlimited}
      BY <2>1, DeliveryAssumption DEF Request
    <2>4. Key(j) = Key(k) /\ Key(j)[1] = SourceOf[e] /\ W \in Nat /\ 2 * W <= Ttl
      BY <2>3 DEF Key
    <2>5. Distance(marks[j].at, at) <= W /\ Distance(marks[k].at, at) <= W
      BY <2>2, <2>4 DEF AfterCheck, InWindow
    <2>6. j \in 1..marks[k].base
      BY <2>1, <2>2 DEF AfterCheck
    <2>7. PICK m \in j..marks[k].base :
              Key(m) = Key(k) /\ (Flooded(m, marks[k].base) \/ marks[k].at - marks[m].at > Ttl)
      BY <2>2, <2>4, <2>6 DEF AfterCheck, Excused
    <2>8. m \in DOMAIN marks /\ m \in 1..Len(marks)
      BY <1>1, <2>1, <2>2 DEF AfterCheck, DeliveryInv, TypeOK
    <2>9. marks[m].at \in Nat /\ marks[j].at <= marks[m].at
      <3>1. marks[m].at \in Nat /\ AfterCheck(m)
        BY <1>1, <2>8, MarkTyped DEF DeliveryInv, MarkedAfterCheck
      <3>2. m = j \/ j \in 1..(m - 1)
        BY <2>1, <2>8
      <3> QED
        BY <2>1, <3>1, <3>2 DEF AfterCheck
    <2>10. ~(marks[k].at - marks[m].at > Ttl)
      <3>1. marks[k].at - marks[j].at <= 2 * W
        BY <2>1, <2>3, <2>4, <2>5, TwiceTheWindow
      <3>2. 2 * W <= Ttl /\ 2 * W \in Nat /\ Ttl \in Nat
        BY <2>4, CacheAssumption
      <3> HIDE DEF W
      <3> QED
        BY <2>1, <2>9, <3>1, <3>2
    <2> QED
      BY <2>7, <2>10
  <1> QED
    BY <1>1, DeliveryInvariant, PTL

\* DropDuplicate drops only what repeats an event marked within the ttl, where the id
\* of a delivery names one event.
THEOREM DropsAreDuplicates == Spec => DropsOnlyDuplicates
  <1> DEFINE Justified == \A w \in Worker : DropDuplicate(w) =>
                 LET e == job[w].req.event IN
                 OwnId(e) => \E k \in DOMAIN marks :
                                 marks[k].req.event = e /\ now - marks[k].at <= Ttl
  <1>1. ASSUME DeliveryInv
        PROVE  Justified
    <2> SUFFICES ASSUME NEW w \in Worker, DropDuplicate(w), OwnId(job[w].req.event)
                 PROVE  \E k \in DOMAIN marks :
                            marks[k].req.event = job[w].req.event /\ now - marks[k].at <= Ttl
      OBVIOUS
    <2> DEFINE e == job[w].req.event
    <2>1. Hit(cache, SourceOf[e], DeliveryId(e), now)
      BY DEF DropDuplicate
    <2>2. TypeOK /\ cache \in Seq(BucketEntry) /\ Bounded(cache) /\ Stamped
      BY <1>1 DEF DeliveryInv, TypeOK
    <2>3. PICK b \in DOMAIN cache : \E i \in DOMAIN cache[b].value :
                /\ cache[b].key = SourceOf[e] /\ cache[b].value[i].key = DeliveryId(e)
                /\ Fresh(cache[b].value[i].value, now)
      BY <2>1, <2>2, HitIsFresh
    <2>4. PICK k \in DOMAIN marks :
                Key(k) = <<SourceOf[e], DeliveryId(e)>> /\ Fresh(marks[k].at, now)
      BY <2>2, <2>3 DEF Stamped
    <2>5. marks[k].req.event \in Event
      BY <2>2, MarkTyped DEF Request
    <2>6. SourceOf[marks[k].req.event] = SourceOf[e] /\ DeliveryId(marks[k].req.event) = DeliveryId(e)
      BY <2>4 DEF Key
    <2>7. marks[k].req.event = e
      BY <2>5, <2>6 DEF OwnId
    <2> QED
      BY <2>4, <2>7 DEF Fresh
  <1>2. DeliveryInv => [Justified]_vars
    BY <1>1
  <1> QED
    BY <1>2, DeliveryInvariant, PTL DEF DropsOnlyDuplicates
=============================================================================
