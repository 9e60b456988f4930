----------------------------- MODULE DedupCache -----------------------------
(***************************************************************************)
(* DeliveryDedupCache (adapter/core/webhook_security.py): a bounded memory *)
(* of webhook deliveries.  Two nested OrderedDicts: the buckets, one per   *)
(* source, least recently written first, and in each bucket the delivery   *)
(* ids with the time they were marked, least recently marked first.  Both  *)
(* methods hold the lock for all they do with the dictionaries, so each is *)
(* an operator from a cache to a cache.                                    *)
(*                                                                         *)
(* An OrderedDict is a sequence of entries, a key with a value each, no    *)
(* two of one key.                                                         *)
(***************************************************************************)
EXTENDS Integers, Sequences, SequencesExt

CONSTANTS
    MaxEntries,     \* ids kept per bucket
    MaxPartitions,  \* buckets kept
    Ttl             \* age beyond which an id is no longer a hit

ASSUME CacheAssumption ==
    /\ MaxEntries \in Nat \ {0}
    /\ MaxPartitions \in Nat \ {0}
    /\ Ttl \in Nat

------------------------------------------------------------------------------
(* OrderedDict *)

Positions(dict, key) == {i \in DOMAIN dict : dict[i].key = key}

\* pop(key, None)
Pop(dict, key) ==
    IF Positions(dict, key) = {} THEN dict
    ELSE RemoveAt(dict, CHOOSE i \in DOMAIN dict : dict[i].key = key)

\* (Mutant) The loop stops one entry late.
NewestAndOne(n, s) == IF Len(s) <= n + 1 THEN s ELSE SubSeq(s, Len(s) - n, Len(s))

\* popitem(last=False) until no more than n entries are left.
Newest(n, s) == IF Len(s) <= n THEN s ELSE SubSeq(s, Len(s) - n + 1, Len(s))

\* The key becomes the most recent one, with this value, and the oldest give way.
Assign(n, dict, key, value) ==
    Newest(n, Append(Pop(dict, key), [key |-> key, value |-> value]))

------------------------------------------------------------------------------
(* The cache *)

EmptyCache == <<>>

\* (Mutant) The source is left out of the key.
BucketOfAll(cache, source) == IF cache = <<>> THEN <<>> ELSE cache[Len(cache)].value

\* The ids remembered of a source; none when it has no bucket.
Bucket(cache, source) ==
    IF Positions(cache, source) = {} THEN <<>>
    ELSE cache[CHOOSE k \in DOMAIN cache : cache[k].key = source].value

\* (Mutant) An id of exactly the limit's age is taken for stale.
FreshStrictly(at, now) == now - at < Ttl

\* An id is a hit until it is older than ttl_seconds.
Fresh(at, now) == now - at <= Ttl

\* is_duplicate
Hit(cache, source, id, now) ==
    LET seen == Bucket(cache, source) IN
    \E i \in Positions(seen, id) : Fresh(seen[i].value, now)

\* (Mutant) The bucket is emptied, not the one id popped.
ForgetAll(cache, source, id) ==
    [k \in DOMAIN cache |->
        IF cache[k].key = source THEN [cache[k] EXCEPT !.value = <<>>] ELSE cache[k]]

\* What is_duplicate leaves behind when it finds a stale id: the id is popped,
\* its bucket stays where it is, even when it is empty.
Forget(cache, source, id) ==
    [k \in DOMAIN cache |->
        IF cache[k].key = source THEN [cache[k] EXCEPT !.value = Pop(@, id)] ELSE cache[k]]

\* mark_seen: the bucket becomes the most recent one, a new bucket may push out
\* the oldest, and so may a new id in its bucket.
MarkSeen(cache, source, id, at) ==
    Assign(MaxPartitions, cache, source, Assign(MaxEntries, Bucket(cache, source), id, at))

\* No key occurs twice, and there are no more than n.
BoundedDict(n, dict) ==
    /\ Len(dict) <= n
    /\ \A i, j \in DOMAIN dict : dict[i].key = dict[j].key => i = j

\* Neither dictionary exceeds its limit.
Bounded(cache) ==
    /\ BoundedDict(MaxPartitions, cache)
    /\ \A k \in DOMAIN cache : BoundedDict(MaxEntries, cache[k].value)
=============================================================================
