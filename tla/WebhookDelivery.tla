--------------------------- MODULE WebhookDelivery ---------------------------
(***************************************************************************)
(* deliver_webhook (runtime/delivery.py) over a connector's                *)
(* normalize_event: verify the signature and its timestamp, drop what the  *)
(* dedup cache has seen, mark it seen, parse, normalize, emit.  The host   *)
(* calls it from several threads that share one cache; providers retry,    *)
(* and the network repeats and delays requests.                            *)
(*                                                                         *)
(* What differs between the webhook connectors is the timestamp window,    *)
(* what stands in for a missing delivery id, and whether the payload is    *)
(* looked at before or after the cache (WebhookConnectors).  Signatures    *)
(* are taken as valid: a request that fails verify changes nothing.        *)
(***************************************************************************)
EXTENDS DedupCache, FiniteSets

CONSTANTS
    Worker,         \* threads of the host that serve requests
    Source,         \* connectors, the first half of the cache's key
    Event,          \* what happened at the providers
    SourceOf,       \* the source of each event
    IdOf,           \* the delivery id a request about it carries, or NoId
    NoId,
    Window,         \* tolerance of each source's signed timestamp
    Unlimited,      \* stands for "the provider signs no timestamp"
    IdLess,         \* what each connector does without a delivery id
    PayloadFirst,   \* connectors that reject a payload before they mark it
    Content,        \* whether each event's payload holds evidence
    MaxTime,        \* bound on the clock
    MaxMarks        \* bound on the number of calls of mark_seen

ASSUME DeliveryAssumption ==
    /\ SourceOf \in [Event -> Source]
    /\ Window \in [Source -> Nat \cup {Unlimited}] /\ Unlimited \notin Nat
    /\ IdLess \in [Source -> {"drop", "hash", "admit"}]
    /\ PayloadFirst \subseteq Source
    /\ Content \in [Event -> {"evidence", "ignored"}]
    /\ MaxTime \in Nat /\ MaxMarks \in Nat

VARIABLES
    now,        \* the host's clock
    pc,         \* where each worker is
    job,        \* the request it serves, and what it has read so far
    cache,      \* the DeliveryDedupCache the connectors share
    marks       \* every call of mark_seen so far, in the order of the lock

vars == <<now, pc, job, cache, marks>>

Request == [event : Event, at : 0..MaxTime]

NoJob == [req |-> NoId, base |-> 0]

\* The body hash of connectors that have one; the hash of an event's body.
Hash(e) == <<"sha256", e>>

\* The id the cache is asked for.
DeliveryId(e) ==
    IF IdOf[e] # NoId THEN IdOf[e]
    ELSE IF IdLess[SourceOf[e]] = "hash" THEN Hash(e) ELSE NoId

DedupId == {IdOf[e] : e \in Event} \cup {Hash(e) : e \in Event}

\* base: how many marks there were when this delivery asked is_duplicate.
Mark == [worker : Worker, req : Request, base : 0..MaxMarks, at : 0..MaxTime]

\* The entries of a bucket, and of the cache.
Entry == [key : DedupId \ {NoId}, value : 0..MaxTime]

BucketEntry == [key : Source, value : Seq(Entry)]

TypeOK ==
    /\ now \in 0..MaxTime
    /\ pc \in [Worker -> {"idle", "check", "mark", "emit"}]
    /\ job \in [Worker -> [req : Request \cup {NoId}, base : 0..MaxMarks]]
    /\ marks \in Seq(Mark)
    /\ cache \in Seq(BucketEntry)
    /\ Bounded(cache)

Init ==
    /\ now = 0
    /\ pc = [w \in Worker |-> "idle"]
    /\ job = [w \in Worker |-> NoJob]
    /\ cache = EmptyCache
    /\ marks = <<>>

\* The requests that may arrive: a provider sends about an event whenever it
\* likes, with the timestamp of the attempt by its own clock (none, as 0, when it
\* signs none), and the network loses, delays and repeats.
OnTheWire ==
    {req \in Request : Window[SourceOf[req.event]] = Unlimited => req.at = 0}

\* Time passes.  Its unit is a fraction of ttl_seconds, hours: no thread is
\* suspended for so long between verify and mark_seen.
Tick ==
    /\ now < MaxTime
    /\ \A w \in Worker : pc[w] \notin {"check", "mark"}
    /\ now' = now + 1
    /\ UNCHANGED <<pc, job, cache, marks>>

Distance(x, y) == IF x < y THEN y - x ELSE x - y

\* (Mutant) Only requests that are too old are refused.
VerifiedNotTooOld(req) ==
    Window[SourceOf[req.event]] # Unlimited =>
        now - req.at <= Window[SourceOf[req.event]]

\* verify: the signed timestamp must lie within the window, on either side.
Verified(req) ==
    Window[SourceOf[req.event]] # Unlimited =>
        Distance(now, req.at) <= Window[SourceOf[req.event]]

\* The tests that come before the cache: Linear admits issue events only, Slack
\* answers a handshake, Linear and Fathom reject a request without an id.
Admissible(e) ==
    /\ SourceOf[e] \in PayloadFirst => Content[e] # "ignored"
    /\ IdOf[e] = NoId => IdLess[SourceOf[e]] # "drop"

\* normalize_event up to the cache.  A request it rejects changes nothing.
Receive(w, req) ==
    /\ pc[w] = "idle"
    /\ req \in OnTheWire
    /\ Verified(req)
    /\ Admissible(req.event)
    /\ Len(marks) < MaxMarks
    /\ pc' = [pc EXCEPT ![w] = IF DeliveryId(req.event) = NoId THEN "emit" ELSE "check"]
    /\ job' = [job EXCEPT ![w] = [NoJob EXCEPT !.req = req]]
    /\ UNCHANGED <<now, cache, marks>>

Idle(w) ==
    /\ pc' = [pc EXCEPT ![w] = "idle"]
    /\ job' = [job EXCEPT ![w] = NoJob]

\* is_duplicate is True: the delivery yields nothing and deliver_webhook
\* returns 0.
DropDuplicate(w) ==
    /\ pc[w] = "check"
    /\ LET e == job[w].req.event IN Hit(cache, SourceOf[e], DeliveryId(e), now)
    /\ Idle(w)
    /\ UNCHANGED <<now, cache, marks>>

\* is_duplicate is False; a stale entry is popped on the way.
PassCheck(w) ==
    /\ pc[w] = "check"
    /\ LET e == job[w].req.event IN
        /\ ~Hit(cache, SourceOf[e], DeliveryId(e), now)
        /\ cache' = Forget(cache, SourceOf[e], DeliveryId(e))
    /\ pc' = [pc EXCEPT ![w] = "mark"]
    /\ job' = [job EXCEPT ![w].base = Len(marks)]
    /\ UNCHANGED <<now, marks>>

\* mark_seen, and the parse that follows: nothing comes of a payload that is
\* not evidence.
StoreMark(w) ==
    /\ pc[w] = "mark"
    /\ Len(marks) < MaxMarks
    /\ LET e == job[w].req.event IN
        /\ cache' = MarkSeen(cache, SourceOf[e], DeliveryId(e), now)
        /\ marks' = Append(marks, [worker |-> w, req |-> job[w].req,
                                   base |-> job[w].base, at |-> now])
        /\ IF Content[e] = "ignored" THEN Idle(w)
           ELSE pc' = [pc EXCEPT ![w] = "emit"] /\ UNCHANGED job
    /\ UNCHANGED <<now>>

\* normalize and sink.emit return, or one of them raises and the host answers
\* with an error.  Either way the mark stays.
Emit(w) ==
    /\ pc[w] = "emit"
    /\ Idle(w)
    /\ UNCHANGED <<now, cache, marks>>

\* The host restarts: its threads and the cache are gone.
Restart ==
    /\ pc' = [w \in Worker |-> "idle"]
    /\ job' = [w \in Worker |-> NoJob]
    /\ cache' = EmptyCache
    /\ marks' = <<>>
    /\ UNCHANGED <<now>>

WorkerStep(w) ==
    \/ \E req \in OnTheWire : Receive(w, req)
    \/ DropDuplicate(w)
    \/ PassCheck(w)
    \/ StoreMark(w)
    \/ Emit(w)

Next ==
    \/ Tick
    \/ \E w \in Worker : WorkerStep(w)
    \/ Restart

Spec == Init /\ [][Next]_vars

------------------------------------------------------------------------------
(* Properties *)

\* What the cache is asked about the k-th mark.
Key(k) ==
    LET e == marks[k].req.event IN <<SourceOf[e], DeliveryId(e)>>

\* Of the marks k+1 to n, too many others for the cache to have kept the k-th:
\* the eviction flood of the class's documentation.
Flooded(k, n) ==
    LET later == {Key(m) : m \in (k + 1)..n} \ {Key(k)}
        sameSource == {key \in later : key[1] = Key(k)[1]}
    IN  \/ Cardinality(sameSource) >= MaxEntries
        \/ Cardinality({key[1] : key \in later \ sameSource}) >= MaxPartitions

\* Whatever was marked less than ttl_seconds ago, with fewer than max_entries
\* other ids of its source and fewer than max_partitions other sources since, is
\* still a duplicate: evictions take the oldest, and only when they must.
RecentIsRemembered ==
    \A k \in DOMAIN marks :
        (/\ \A m \in (k + 1)..Len(marks) : Key(m) # Key(k)
         /\ ~Flooded(k, Len(marks))
         /\ now - marks[k].at <= Ttl)
        => Hit(cache, Key(k)[1], Key(k)[2], now)

\* No delivery id is admitted twice unless the second check ran before the first
\* mark (the two calls are not one atomic step), the first mark was flooded out,
\* or it had expired.
OnlyRacesRepeat ==
    \A j, k \in DOMAIN marks : j < k /\ Key(j) = Key(k) =>
        \/ marks[k].base < j
        \/ \E m \in j..marks[k].base :
                Key(m) = Key(k) /\ (Flooded(m, marks[k].base) \/ marks[k].at - marks[m].at > Ttl)

\* Where the provider signs a timestamp, a replayed request never outlives the
\* memory of it, provided ttl_seconds covers the window on both sides: the same
\* thread does not admit the same request twice, however late it comes again.
WindowedOnce ==
    \A j, k \in DOMAIN marks :
        (/\ j < k
         /\ marks[j].worker = marks[k].worker
         /\ marks[j].req = marks[k].req
         /\ Window[Key(j)[1]] # Unlimited
         /\ 2 * Window[Key(j)[1]] <= Ttl)
        => \E m \in j..marks[k].base : Key(m) = Key(k) /\ Flooded(m, marks[k].base)

\* The providers' ids that name one event only; Zendesk and Jira fall back to the
\* id of the ticket or issue, which its later events share.
OwnId(e) ==
    \A f \in Event : SourceOf[f] = SourceOf[e] /\ DeliveryId(f) = DeliveryId(e) => f = e

\* A delivery is only dropped as a duplicate when one about the same event was
\* admitted within the last ttl_seconds: no entry is left behind by a delivery
\* that was dropped itself, by another event, or by an expired mark.
DropsOnlyDuplicates ==
    [][\A w \in Worker : DropDuplicate(w) =>
            LET e == job[w].req.event IN
            OwnId(e) => \E k \in DOMAIN marks :
                            marks[k].req.event = e /\ now - marks[k].at <= Ttl]_vars
==============================================================================
