------------------------- MODULE GitHubIngest_proofs -------------------------
(***************************************************************************)
(* For any number of issues, runtime processes and rows of a page:         *)
(*   - the two-phase commit: the stored watermark is the stamp of a row    *)
(*     the Bot acknowledged (with webhooks or without);                    *)
(*   - polling alone never moves the watermark past an issue the Bot       *)
(*     lacks, and implements the abstract Backfill.                        *)
(***************************************************************************)
EXTENDS GitHubIngest, FiniteSetTheorems, TLAPS

SinkProofs == INSTANCE GatewaySink_proofs WITH
                Evidence <- Row,
                Invalid <- {},
                BotReply <- [e \in Row |-> IssueReply[e.issue]],
                Batches <- {},
                Endpoint <- [r \in Runtime |-> "v2"],
                BotDrifts <- FALSE

------------------------------------------------------------------------------
(* Pages and their listings *)

\* What a request selects is finite, and made of rows.
LEMMA CandidatesFinite ==
  ASSUME ProviderTypeOK, NEW c \in 0..MaxTime
  PROVE  IsFiniteSet(Candidates(c)) /\ Candidates(c) \subseteq Row
  <1> DEFINE J == {j \in Issue : upstream[j].rev > 0 /\ upstream[j].at >= c}
             f == [j \in J |-> RowOf(j)]
  <1>1. IsFiniteSet(J)
    BY ProviderAssumption, FS_Subset
  <1>2. f \in Surjection(J, Candidates(c))
    BY DEF Candidates, Surjection
  <1>3. IsFiniteSet(Candidates(c))
    BY <1>1, <1>2, FS_Surjection
  <1>4. Candidates(c) \subseteq Row
    BY DEF Candidates, RowOf, Row, ProviderTypeOK
  <1> QED
    BY <1>3, <1>4

\* A listing of a nonempty finite set of rows names each of them, and ends with
\* a row that no other row is newer than.
LEMMA ListingFacts ==
  ASSUME NEW rows, IsFiniteSet(rows), rows # {}, rows \subseteq Row,
         NEW s \in Listings(rows)
  PROVE  /\ s \in Seq(Row) /\ s # <<>> /\ Len(s) \in DOMAIN s
         /\ Sink!Elements(s) = rows
         /\ \A x \in rows : x.at <= s[Len(s)].at
  <1> DEFINE n == Cardinality(rows)
  <1>1. n \in Nat /\ n # 0
    BY FS_CardinalityType, FS_EmptySet
  <1>2. s \in [1..n -> rows] /\ \A i, j \in 1..n : i # j => s[i] # s[j]
    BY DEF Listings, SetToSeqs
  <1>3. s \in Injection(1..n, rows)
    BY <1>2 DEF Injection, IsInjective
  <1>4. Cardinality(1..n) = n
    BY <1>1, FS_Interval
  <1>5. s \in Surjection(1..n, rows)
    BY <1>3, <1>4, FS_Injection
  <1>6. Sink!Elements(s) = rows
    BY <1>2, <1>5 DEF Sink!Elements, Surjection
  <1>7. s \in Seq(Row) /\ Len(s) = n /\ DOMAIN s = 1..n
    BY <1>1, <1>2
  <1>8. ASSUME NEW x \in rows PROVE x.at <= s[Len(s)].at
    <2>1. PICK k \in 1..n : s[k] = x
      BY <1>5 DEF Surjection
    <2>2. x.at \in Nat
      BY DEF Row
    <2>3. CASE k = n
      BY <2>1, <2>2, <2>3, <1>7
    <2>4. CASE k < n
      BY <2>1, <2>4, <1>1, <1>7 DEF Listings
    <2> QED
      BY <1>1, <2>3, <2>4
  <1>9. s # <<>>
    BY <1>1, <1>7
  <1> QED
    BY <1>1, <1>6, <1>7, <1>8, <1>9

------------------------------------------------------------------------------
(* The sink, used as GatewaySink_proofs describes it *)

\* The sink's constants satisfy its assumption.
LEMMA SinkAssumptionHolds ==
    /\ {} \subseteq Row
    /\ [e \in Row |-> IssueReply[e.issue]] \in [Row -> {201} \cup 300..999]
    /\ {} \subseteq Seq(Row)
    /\ [r \in Runtime |-> "v2"] \in [Runtime -> {"none", "wrong_path", "v2"}]
    /\ Strays \subseteq (200..999) \ {201}
    /\ FALSE \in BOOLEAN
  <1>1. IssueReply \in [Issue -> {201} \cup 300..999]
    BY IngestAssumption
  <1>2. [e \in Row |-> IssueReply[e.issue]] \in [Row -> {201} \cup 300..999]
    BY <1>1 DEF Row
  <1> QED
    BY <1>2, IngestAssumption

SinkOK == Sink!TypeOK /\ Sink!AckedPrefixIngested

\* With no invalid evidence the sink's inductive invariant is just this.
LEMMA SinkInvIsSinkOK == SinkProofs!SinkInv <=> SinkOK
  BY DEF SinkOK, Sink!TypeOK, Sink!AckedPrefixIngested, SinkProofs!SinkInv,
         SinkProofs!TypeOK, SinkProofs!CallOK, SinkProofs!ScreenedOK,
         SinkProofs!Screened, Sink!Phases, SinkProofs!Phases, Sink!Errors,
         SinkProofs!Errors, Sink!Reasons, SinkProofs!Reasons

\* A call of emit with a list of rows.
LEMMA SinkEmit ==
  ASSUME SinkOK, NEW r \in Runtime, NEW b \in Seq(Row), Sink!Emit(r, b)
  PROVE  /\ SinkOK'
         /\ ingested' = ingested
         /\ batch' = [batch EXCEPT ![r] = b]
  <1>1. SinkProofs!Emit(r, b)
    BY DEF Sink!Emit, SinkProofs!Emit, Sink!Screened, SinkProofs!Screened, Sink!Fail,
           SinkProofs!Fail, Sink!AfterScreening, SinkProofs!AfterScreening,
           Sink!AfterHandshake, SinkProofs!AfterHandshake, Sink!Elements, SinkProofs!Elements
  <1>2. SinkProofs!SinkInv'
    BY <1>1, SinkInvIsSinkOK, SinkAssumptionHolds, SinkProofs!EmitKeepsInv
  <1>3. SinkOK'
    BY <1>2, SinkInvIsSinkOK, PTL
  <1> QED
    BY <1>3 DEF Sink!Emit

\* One step of a call: it may append the row it stands at, and nothing else.
LEMMA SinkStep ==
  ASSUME SinkOK, NEW r \in Runtime, Sink!Step(r)
  PROVE  /\ SinkOK'
         /\ batch' = batch
         /\ \/ ingested' = ingested
            \/ \E row \in Row : ingested' = ingested \cup {row}
  <1>1. SinkProofs!Step(r)
    BY DEF Sink!Step, SinkProofs!Step, Sink!HandshakeMatches, SinkProofs!HandshakeMatches,
           Sink!HandshakeMismatch, SinkProofs!HandshakeMismatch,
           Sink!HandshakeUnreachable, SinkProofs!HandshakeUnreachable,
           Sink!HandshakeRefused, SinkProofs!HandshakeRefused,
           Sink!PostAccepted, SinkProofs!PostAccepted,
           Sink!PostRejected, SinkProofs!PostRejected,
           Sink!PostStrayed, SinkProofs!PostStrayed,
           Sink!PostUnanswered, SinkProofs!PostUnanswered,
           Sink!MayIngest, SinkProofs!MayIngest,
           Sink!Fail, SinkProofs!Fail, Sink!Current, SinkProofs!Current,
           Sink!AfterHandshake, SinkProofs!AfterHandshake
  <1>2. SinkProofs!SinkInv'
    BY <1>1, SinkInvIsSinkOK, SinkAssumptionHolds, SinkProofs!StepKeepsInv
  <1>3. SinkOK'
    BY <1>2, SinkInvIsSinkOK, PTL
  <1>4. phase[r] = "post" => Sink!Current(r) \in Row
    BY SinkInvIsSinkOK, SinkAssumptionHolds, SinkProofs!CurrentIsEvidence
       DEF Sink!Current, SinkProofs!Current
  <1>5. batch' = batch
    BY DEF Sink!Step, Sink!HandshakeMatches, Sink!HandshakeMismatch,
           Sink!HandshakeUnreachable, Sink!HandshakeRefused, Sink!PostAccepted,
           Sink!PostRejected, Sink!PostStrayed, Sink!PostUnanswered, Sink!MayIngest
  <1>6. \/ ingested' = ingested
        \/ /\ phase[r] = "post"
           /\ ingested' = ingested \cup {Sink!Current(r)}
    BY DEF Sink!Step, Sink!HandshakeMatches, Sink!HandshakeMismatch,
           Sink!HandshakeUnreachable, Sink!HandshakeRefused, Sink!PostAccepted,
           Sink!PostRejected, Sink!PostStrayed, Sink!PostUnanswered, Sink!MayIngest
  <1> QED
    BY <1>3, <1>4, <1>5, <1>6

\* The call is over.
LEMMA SinkCallEnds ==
  ASSUME SinkOK, NEW r \in Runtime, Sink!Return(r) \/ Sink!Crash(r)
  PROVE  /\ SinkOK'
         /\ ingested' = ingested
         /\ batch' = [batch EXCEPT ![r] = <<>>]
  <1>1. SinkProofs!Return(r) \/ SinkProofs!Crash(r)
    BY DEF Sink!Return, SinkProofs!Return, Sink!Crash, SinkProofs!Crash,
           Sink!NoError, SinkProofs!NoError
  <1>2. SinkProofs!SinkInv'
    BY <1>1, SinkInvIsSinkOK, SinkAssumptionHolds, SinkProofs!CallEndsKeepsInv
  <1>3. SinkOK'
    BY <1>2, SinkInvIsSinkOK, PTL
  <1> QED
    BY <1>3 DEF Sink!Return, Sink!Crash

\* No other step of the system touches the sink.
LEMMA SinkUnchanged ==
  ASSUME SinkOK, UNCHANGED sinkVars
  PROVE  SinkOK'
  BY DEF sinkVars, SinkOK, Sink!TypeOK, Sink!AckedPrefixIngested

LEMMA SinkInitially == Sink!SinkInit => SinkOK
  <1>1. Sink!SinkInit => SinkProofs!SinkInit
    BY DEF Sink!SinkInit, SinkProofs!SinkInit, Sink!NoError, SinkProofs!NoError
  <1> QED
    BY <1>1, SinkInvIsSinkOK, SinkAssumptionHolds, SinkProofs!SinkInitInv

------------------------------------------------------------------------------
(* Type correctness *)

TypeInv == TypeOK /\ Sink!AckedPrefixIngested

LEMMA TypeInvHasSinkOK == TypeInv <=> TypeInv /\ SinkOK
  BY DEF TypeInv, TypeOK, SinkOK

LEMMA InitType == Init => TypeInv
  <1> SUFFICES ASSUME Init PROVE TypeInv
    OBVIOUS
  <1>1. SinkOK
    BY SinkInitially DEF Init
  <1>2. 0 \in 0..MaxTime /\ 0 \in 0..MaxRev
    BY ProviderAssumption
  <1>3. ProviderTypeOK
    BY <1>2 DEF Init, ProviderInit, ProviderTypeOK
  <1> QED
    BY <1>1, <1>2, <1>3 DEF Init, TypeInv, TypeOK, SinkOK

\* The stamp of an update is within the bound of the clock, and not in the past.
LEMMA UpdateFacts ==
  ASSUME ProviderTypeOK, NEW i \in Issue, Update(i)
  PROVE  /\ ProviderTypeOK'
         /\ now \in Nat /\ now' \in Nat /\ now' >= now
         /\ upstream'[i].at = now'
         /\ \A j \in Issue \ {i} : upstream'[j] = upstream[j]
         /\ [issue |-> i, rev |-> upstream[i].rev + 1, at |-> now'] \in Row
  <1>1. now \in Nat /\ now' \in 0..MaxTime /\ now' >= now
    BY ProviderAssumption DEF Update, ProviderTypeOK
  <1>2. upstream[i].rev + 1 \in 0..MaxRev
    BY ProviderAssumption DEF Update, ProviderTypeOK
  <1>3. [rev |-> upstream[i].rev + 1, at |-> now'] \in [rev : 0..MaxRev, at : 0..MaxTime]
    BY <1>1, <1>2
  <1>4. upstream' = [upstream EXCEPT ![i] = [rev |-> upstream[i].rev + 1, at |-> now']]
    BY DEF Update, ProviderTypeOK
  <1>5. upstream' \in [Issue -> [rev : 0..MaxRev, at : 0..MaxTime]]
    BY <1>3, <1>4 DEF ProviderTypeOK
  <1>6. [issue |-> i, rev |-> upstream[i].rev + 1, at |-> now'] \in Row
    BY <1>1, <1>2 DEF Row
  <1>7. upstream'[i].at = now' /\ \A j \in Issue \ {i} : upstream'[j] = upstream[j]
    BY <1>4 DEF ProviderTypeOK
  <1> QED
    BY <1>1, <1>5, <1>6, <1>7 DEF ProviderTypeOK

LEMMA ProviderUpdateType ==
  ASSUME TypeInv, NEW i \in Issue, ProviderUpdate(i)
  PROVE  TypeInv'
  <1>1. ProviderTypeOK' /\ hooks' \subseteq Row
    BY UpdateFacts DEF TypeInv, TypeOK, ProviderUpdate
  <1>2. SinkOK'
    BY TypeInvHasSinkOK, SinkUnchanged DEF ProviderUpdate
  <1> QED
    BY <1>1, <1>2 DEF TypeInv, TypeOK, SinkOK, ProviderUpdate, runtimeVars

\* A list handed to emit: what the caller stores and what it will store.
LEMMA SubmitFacts ==
  ASSUME TypeInv, NEW r \in Runtime, NEW rows \in Seq(Row), rows # <<>>,
         Submit(r, rows), UNCHANGED since
  PROVE  /\ TypeInv'
         /\ UNCHANGED <<now, upstream, hooks, since, cursor, ingested>>
         /\ proposed'[r] = rows[Len(rows)].at /\ batch'[r] = rows
         /\ \A q \in Runtime \ {r} : /\ proposed'[q] = proposed[q]
                                     /\ batch'[q] = batch[q]
                                     /\ pc'[q] = pc[q]
  <1>1. /\ SinkOK' /\ ingested' = ingested
        /\ batch' = [batch EXCEPT ![r] = rows]
    BY TypeInvHasSinkOK, SinkEmit DEF Submit
  <1>2. rows[Len(rows)] \in Row
    OBVIOUS
  <1>3. rows[Len(rows)].at \in 0..MaxTime
    BY <1>2 DEF Row
  <1>4. UNCHANGED <<now, upstream, hooks, cursor>>
    BY DEF Submit, providerVars
  <1>5. pc' = [pc EXCEPT ![r] = "emitting"]
        /\ proposed' = [proposed EXCEPT ![r] = rows[Len(rows)].at]
    BY DEF Submit
  <1>6. TypeInv'
    BY <1>1, <1>3, <1>4, <1>5 DEF TypeInv, TypeOK, SinkOK, ProviderTypeOK
  <1>7. batch \in [Runtime -> Seq(Row)]
    BY DEF TypeInv, TypeOK, Sink!TypeOK
  <1> QED
    BY <1>1, <1>4, <1>5, <1>6, <1>7 DEF TypeInv, TypeOK

\* Both callers of _emit_and_commit hand it a nonempty list of rows.
LEMMA WebhookSubmits ==
  ASSUME TypeInv, NEW r \in Runtime, NEW row \in hooks, IngestWebhook(r, row)
  PROVE  /\ <<row>> \in Seq(Row) /\ <<row>> # <<>>
         /\ Submit(r, <<row>>) /\ UNCHANGED since
  BY DEF TypeInv, TypeOK, IngestWebhook

LEMMA PollSubmits ==
  ASSUME TypeInv, NEW r \in Runtime, PollFetch(r)
  PROVE  \E page \in SUBSET Candidates(since[r]), rows \in Seq(Row) :
            /\ IsFirstPage(page, Candidates(since[r]))
            /\ rows # <<>>
            /\ Sink!Elements(rows) = Wanted(page)
            /\ \A x \in Wanted(page) : x.at <= rows[Len(rows)].at
            /\ rows[Len(rows)] \in page
            /\ Submit(r, rows) /\ UNCHANGED since
  <1>1. PICK page \in SUBSET Candidates(since[r]) :
            /\ IsFirstPage(page, Candidates(since[r]))
            /\ Wanted(page) # {}
            /\ \E rows \in Listings(Wanted(page)) : Submit(r, rows)
    BY DEF PollFetch
  <1>2. PICK rows \in Listings(Wanted(page)) : Submit(r, rows)
    BY <1>1
  <1>3. IsFiniteSet(Candidates(since[r])) /\ Candidates(since[r]) \subseteq Row
    BY CandidatesFinite DEF TypeInv, TypeOK
  <1>4. IsFiniteSet(Wanted(page)) /\ Wanted(page) \subseteq page /\ Wanted(page) \subseteq Row
    BY <1>3, FS_Subset DEF Wanted
  <1>5. /\ rows \in Seq(Row) /\ rows # <<>> /\ Len(rows) \in DOMAIN rows
        /\ Sink!Elements(rows) = Wanted(page)
        /\ \A x \in Wanted(page) : x.at <= rows[Len(rows)].at
    BY <1>1, <1>2, <1>4, ListingFacts
  <1>6. rows[Len(rows)] \in page
    BY <1>4, <1>5 DEF Sink!Elements
  <1> QED
    BY <1>1, <1>2, <1>5, <1>6 DEF PollFetch

\* A poll reads the cursor, or ends without emissions.
LEMMA PollStepFacts ==
  ASSUME TypeInv, NEW r \in Runtime, PollLoad(r) \/ PollYieldsNothing(r)
  PROVE  /\ TypeInv'
         /\ UNCHANGED <<now, upstream, hooks, cursor, batch, ingested>>
         /\ pc'[r] # "emitting"
         /\ since'[r] \in {0, cursor} /\ proposed'[r] \in {0, proposed[r]}
         /\ \A q \in Runtime \ {r} : /\ proposed'[q] = proposed[q]
                                     /\ since'[q] = since[q]
                                     /\ pc'[q] = pc[q]
  <1>1. SinkOK'
    BY TypeInvHasSinkOK, SinkUnchanged DEF PollLoad, PollYieldsNothing
  <1>2. UNCHANGED <<now, upstream, hooks, cursor, batch, ingested>>
    BY DEF PollLoad, PollYieldsNothing, providerVars, sinkVars
  <1>3. 0 \in 0..MaxTime
    BY ProviderAssumption
  <1>4. CASE PollLoad(r)
    <2>1. /\ pc' = [pc EXCEPT ![r] = "fetch"] /\ since' = [since EXCEPT ![r] = cursor]
          /\ proposed' = proposed
      BY <1>4 DEF PollLoad
    <2>2. TypeInv'
      BY <1>1, <1>2, <2>1 DEF TypeInv, TypeOK, SinkOK, ProviderTypeOK
    <2> QED
      BY <1>2, <2>1, <2>2 DEF TypeInv, TypeOK
  <1>5. CASE PollYieldsNothing(r)
    <2>1. /\ pc' = [pc EXCEPT ![r] = "idle"] /\ since' = [since EXCEPT ![r] = 0]
          /\ proposed' = [proposed EXCEPT ![r] = 0]
      BY <1>5 DEF PollYieldsNothing, Finish
    <2> QED
      BY <1>1, <1>2, <1>3, <2>1 DEF TypeInv, TypeOK, SinkOK, ProviderTypeOK
  <1> QED
    BY <1>4, <1>5

LEMMA DeliverFacts ==
  ASSUME TypeInv, NEW r \in Runtime, Deliver(r)
  PROVE  /\ TypeInv'
         /\ UNCHANGED <<now, upstream, hooks, pc, since, proposed, cursor, batch>>
         /\ \/ ingested' = ingested
            \/ \E row \in Row : ingested' = ingested \cup {row}
  <1>1. UNCHANGED <<now, upstream, hooks, pc, since, proposed, cursor>>
    BY DEF Deliver, providerVars, runtimeVars
  <1>2. /\ SinkOK' /\ batch' = batch
        /\ \/ ingested' = ingested
           \/ \E row \in Row : ingested' = ingested \cup {row}
    BY TypeInvHasSinkOK, SinkStep DEF Deliver
  <1> QED
    BY <1>1, <1>2 DEF TypeInv, TypeOK, SinkOK, ProviderTypeOK

\* The end of a call, with or without a save.
LEMMA EndFacts ==
  ASSUME TypeInv, NEW r \in Runtime, Commit(r) \/ GiveUp(r) \/ Crash(r)
  PROVE  /\ TypeInv'
         /\ UNCHANGED <<now, upstream, hooks, ingested>>
         /\ pc'[r] = "idle" /\ since'[r] = 0 /\ proposed'[r] = 0
         /\ cursor' = cursor \/ (Commit(r) /\ cursor' = proposed[r])
         /\ \A q \in Runtime \ {r} : /\ proposed'[q] = proposed[q]
                                     /\ since'[q] = since[q]
                                     /\ pc'[q] = pc[q]
                                     /\ batch'[q] = batch[q]
  <1>1. SinkOK' /\ ingested' = ingested /\ batch' = [batch EXCEPT ![r] = <<>>]
    BY TypeInvHasSinkOK, SinkCallEnds DEF Commit, GiveUp, Crash
  <1>2. /\ pc' = [pc EXCEPT ![r] = "idle"] /\ since' = [since EXCEPT ![r] = 0]
        /\ proposed' = [proposed EXCEPT ![r] = 0]
    BY DEF Commit, GiveUp, Crash, Finish
  <1>3. UNCHANGED <<now, upstream, hooks>>
    BY DEF Commit, GiveUp, Crash, providerVars
  <1>4. cursor' = cursor \/ (Commit(r) /\ cursor' = proposed[r])
    <2>1. Commit(r) => cursor' = proposed[r]
      BY DEF Commit
    <2>2. GiveUp(r) \/ Crash(r) => cursor' = cursor
      BY DEF GiveUp, Crash
    <2> QED
      BY <2>1, <2>2
  <1>5. batch \in [Runtime -> Seq(Row)]
    BY DEF TypeInv, TypeOK, Sink!TypeOK
  <1>6. 0 \in 0..MaxTime /\ cursor' \in 0..MaxTime
    BY <1>4, ProviderAssumption DEF TypeInv, TypeOK
  <1>7. TypeInv'
    BY <1>1, <1>2, <1>3, <1>6 DEF TypeInv, TypeOK, SinkOK, ProviderTypeOK
  <1> QED
    BY <1>1, <1>2, <1>3, <1>4, <1>5, <1>7 DEF TypeInv, TypeOK

LEMMA NextType == TypeInv /\ [Next]_vars => TypeInv'
  <1> SUFFICES ASSUME TypeInv, [Next]_vars PROVE TypeInv'
    OBVIOUS
  <1>1. ASSUME NEW i \in Issue, ProviderUpdate(i) PROVE TypeInv'
    BY <1>1, ProviderUpdateType
  <1>2. ASSUME NEW r \in Runtime, NEW row \in hooks, IngestWebhook(r, row) PROVE TypeInv'
    BY <1>2, WebhookSubmits, SubmitFacts
  <1>3. ASSUME NEW r \in Runtime, PollFetch(r) PROVE TypeInv'
    BY <1>3, PollSubmits, SubmitFacts
  <1>4. ASSUME NEW r \in Runtime, PollLoad(r) \/ PollYieldsNothing(r) PROVE TypeInv'
    BY <1>4, PollStepFacts
  <1>5. ASSUME NEW r \in Runtime, Deliver(r) PROVE TypeInv'
    BY <1>5, DeliverFacts
  <1>6. ASSUME NEW r \in Runtime, Commit(r) \/ GiveUp(r) \/ Crash(r) PROVE TypeInv'
    BY <1>6, EndFacts
  <1>7. CASE UNCHANGED vars
    <2>1. SinkOK'
      BY <1>7, TypeInvHasSinkOK, SinkUnchanged DEF vars
    <2>2. UNCHANGED <<now, upstream, hooks, pc, since, proposed, cursor>>
      BY <1>7 DEF vars, providerVars, runtimeVars
    <2> QED
      BY <2>1, <2>2 DEF TypeInv, TypeOK, SinkOK, ProviderTypeOK
  <1> QED
    BY <1>1, <1>2, <1>3, <1>4, <1>5, <1>6, <1>7 DEF Next, RuntimeStep

\* Every reachable state is well-typed, and every call of emit under way has
\* had exactly a prefix of its rows appended.
THEOREM TypeCorrect == Spec => []TypeOK
  <1>1. Init => TypeInv
    BY InitType
  <1>2. TypeInv /\ [Next]_vars => TypeInv'
    BY NextType
  <1>3. TypeInv => TypeOK
    BY DEF TypeInv
  <1> QED
    BY <1>1, <1>2, <1>3, PTL DEF Spec

------------------------------------------------------------------------------
(* The two-phase commit *)

\* CommitInv is TypeInv and the two parts that relate the watermark, the cursor
\* to be stored and the batch in hand.
LEMMA InitCommit == Init => CommitInv
  <1>1. Init => TypeInv
    BY InitType
  <1> QED
    BY <1>1 DEF Init, TypeInv, CommitInv, ProposedIsLast, CursorNamesDelivered

\* A step that stores nothing keeps CommitInv if it keeps what every call in
\* flight was given.
LEMMA CommitFrame ==
  ASSUME CommitInv, TypeInv', cursor' = cursor, ingested \subseteq ingested',
         \A q \in Runtime : pc'[q] = "emitting" =>
            \/ pc[q] = "emitting" /\ proposed'[q] = proposed[q] /\ batch'[q] = batch[q]
            \/ batch'[q] # <<>> /\ proposed'[q] = batch'[q][Len(batch'[q])].at
  PROVE  CommitInv'
  BY DEF CommitInv, TypeInv, ProposedIsLast, CursorNamesDelivered

\* The save: emit returned, so every row of the batch was answered 201, the last
\* one included, and its stamp is what is stored.
LEMMA CommitKeepsCommitInv ==
  ASSUME CommitInv, NEW r \in Runtime, Commit(r)
  PROVE  CommitInv'
  <1>1. TypeInv
    BY DEF CommitInv, TypeInv
  <1>2. /\ TypeInv' /\ UNCHANGED ingested
        /\ pc'[r] = "idle" /\ cursor' = proposed[r]
        /\ \A q \in Runtime \ {r} : /\ proposed'[q] = proposed[q]
                                    /\ pc'[q] = pc[q] /\ batch'[q] = batch[q]
    BY <1>1, EndFacts DEF Commit
  <1>3. batch[r] \in Seq(Row) /\ batch[r] # <<>> /\ sent[r] = Len(batch[r])
    BY DEF CommitInv, ProposedIsLast, Commit, TypeOK, Sink!TypeOK, Sink!AckedPrefixIngested
  <1>4. Len(batch[r]) \in 1..sent[r]
    BY <1>3
  <1>5. batch[r][Len(batch[r])] \in ingested
    BY <1>4 DEF CommitInv, Sink!AckedPrefixIngested
  <1>6. proposed[r] = batch[r][Len(batch[r])].at
    BY DEF CommitInv, ProposedIsLast, Commit
  <1>7. CursorNamesDelivered'
    BY <1>2, <1>5, <1>6 DEF CursorNamesDelivered
  <1>8. ProposedIsLast'
    BY <1>2 DEF CommitInv, ProposedIsLast
  <1> QED
    BY <1>2, <1>7, <1>8 DEF CommitInv, TypeInv

LEMMA NextCommit == CommitInv /\ [Next]_vars => CommitInv'
  <1> SUFFICES ASSUME CommitInv, [Next]_vars PROVE CommitInv'
    OBVIOUS
  <1>1. TypeInv /\ TypeInv'
    BY NextType DEF CommitInv, TypeInv
  <1>2. ASSUME NEW i \in Issue, ProviderUpdate(i) PROVE CommitInv'
    BY <1>1, <1>2, CommitFrame DEF ProviderUpdate, runtimeVars, sinkVars
  <1>3. ASSUME NEW r \in Runtime, NEW rows \in Seq(Row), rows # <<>>,
               Submit(r, rows), UNCHANGED since
        PROVE  CommitInv'
    BY <1>1, <1>3, SubmitFacts, CommitFrame
  <1>4. ASSUME NEW r \in Runtime, NEW row \in hooks, IngestWebhook(r, row) PROVE CommitInv'
    BY <1>1, <1>3, <1>4, WebhookSubmits
  <1>5. ASSUME NEW r \in Runtime, PollFetch(r) PROVE CommitInv'
    BY <1>1, <1>3, <1>5, PollSubmits
  <1>6. ASSUME NEW r \in Runtime, PollLoad(r) \/ PollYieldsNothing(r) PROVE CommitInv'
    BY <1>1, <1>6, PollStepFacts, CommitFrame
  <1>7. ASSUME NEW r \in Runtime, Deliver(r) PROVE CommitInv'
    BY <1>1, <1>7, DeliverFacts, CommitFrame
  <1>8. ASSUME NEW r \in Runtime, GiveUp(r) \/ Crash(r) PROVE CommitInv'
    <2>1. cursor' = cursor
      BY <1>8 DEF GiveUp, Crash
    <2> QED
      BY <1>1, <1>8, <2>1, EndFacts, CommitFrame
  <1>9. CASE UNCHANGED vars
    BY <1>1, <1>9, CommitFrame DEF vars, runtimeVars, sinkVars
  <1> QED
    BY <1>2, <1>4, <1>5, <1>6, <1>7, <1>8, <1>9, CommitKeepsCommitInv
       DEF Next, RuntimeStep

\* The watermark, the cursor a call proposes and what the Bot has stay in step with
\* one another, whoever saves last (commit_issue_cursor).
THEOREM CommitInvariant == Spec => []CommitInv
  <1>1. Init => CommitInv
    BY InitCommit
  <1>2. CommitInv /\ [Next]_vars => CommitInv'
    BY NextCommit
  <1> QED
    BY <1>1, <1>2, PTL DEF Spec

\* Two-phase commit, whatever crashes, partial failures, races of processes and
\* webhooks: a stored watermark is the stamp of a row that was answered 201.
THEOREM TwoPhaseCommit == Spec => []CursorNamesDelivered
  <1>1. CommitInv => CursorNamesDelivered
    BY DEF CommitInv
  <1> QED
    BY <1>1, CommitInvariant, PTL

------------------------------------------------------------------------------
(* Polling never passes an issue the Bot lacks *)

\* What an unfinished call, or the stored cursor, claims about the stamps below.
Above(c, rows) ==
  \A i \in Latest : upstream[i].at < c => RowOf(i) \in rows

LEMMA CoveredIsAbove == \A c : Abstract!Covered(c) <=> Above(c, ingested)
  BY DEF Abstract!Covered, Abstract!RowOf, Above, RowOf, Latest

\* IInv, with coverage spelled one way.
PollInv ==
  /\ TypeInv /\ hooks = {} /\ StampsInPast
  /\ Above(cursor, ingested)
  /\ \A r \in Runtime : Above(since[r], ingested)
  /\ \A r \in Runtime : pc[r] = "emitting" =>
        Above(proposed[r], ingested \cup Sink!Elements(batch[r]))

LEMMA IInvIsPollInv == IInv <=> PollInv
  BY CoveredIsAbove DEF IInv, PollInv, TypeInv, BatchCovers, Above

\* The same claim about the next state of the provider.
AboveNext(c, rows) ==
  \A j \in Issue \ PullRequest :
    upstream'[j].rev > 0 /\ upstream'[j].at < c =>
        [issue |-> j, rev |-> upstream'[j].rev, at |-> upstream'[j].at] \in rows

\* An update's stamp is not below any claim, so a claim survives it.
LEMMA UpdateKeepsAbove ==
  ASSUME ProviderTypeOK, NEW i \in Issue, Update(i), NEW c \in Nat, c <= now,
         NEW rows, Above(c, rows)
  PROVE  AboveNext(c, rows)
  <1> SUFFICES ASSUME NEW j \in Issue \ PullRequest,
                      upstream'[j].rev > 0, upstream'[j].at < c
               PROVE  [issue |-> j, rev |-> upstream'[j].rev,
                       at |-> upstream'[j].at] \in rows
    BY DEF AboveNext
  <1>1. CASE j = i
    <2>1. now \in Nat /\ now' \in Nat /\ now' >= now /\ upstream'[j].at = now'
      BY <1>1, UpdateFacts
    <2> QED
      BY <2>1
  <1>2. CASE j # i
    <2>1. upstream'[j] = upstream[j]
      BY <1>2, UpdateFacts
    <2> QED
      BY <2>1 DEF Above, Latest, RowOf
  <1> QED
    BY <1>1, <1>2

LEMMA ProviderUpdateKeepsPollInv ==
  ASSUME ~Webhooks, PollInv, NEW i \in Issue, ProviderUpdate(i)
  PROVE  PollInv'
  <1>1. TypeInv' /\ hooks' = {}
    BY ProviderUpdateType DEF PollInv, ProviderUpdate
  <1>2. /\ ProviderTypeOK /\ Update(i)
        /\ UNCHANGED <<pc, since, proposed, cursor, batch, ingested>>
    BY DEF PollInv, TypeInv, TypeOK, ProviderUpdate, runtimeVars, sinkVars
  <1>3. /\ now' \in Nat /\ now \in Nat /\ now' >= now
        /\ upstream'[i].at = now'
        /\ \A j \in Issue \ {i} : upstream'[j] = upstream[j]
    BY <1>2, UpdateFacts
  <1>4. MaxTime \in Nat
    BY ProviderAssumption
  <1>5. cursor \in Nat /\ \A r \in Runtime : since[r] \in Nat /\ proposed[r] \in Nat
    BY <1>4 DEF PollInv, TypeInv, TypeOK
  <1>6. StampsInPast
    BY DEF PollInv
  <1>7. StampsInPast'
    <2>1. ASSUME NEW j \in Issue PROVE upstream'[j].at <= now'
      <3>1. CASE j = i
        BY <1>3, <3>1
      <3>2. CASE j # i
        <4>1. upstream'[j] = upstream[j]
          BY <1>3, <3>2
        <4>2. upstream[j].at \in Nat
          BY <1>2, <1>4 DEF ProviderTypeOK
        <4>3. upstream[j].at <= now
          BY <1>6 DEF StampsInPast
        <4> QED
          BY <1>3, <4>1, <4>2, <4>3
      <3> QED
        BY <3>1, <3>2
    <2>2. /\ cursor' <= now'
          /\ \A r \in Runtime : since'[r] <= now' /\ proposed'[r] <= now'
      BY <1>2, <1>3, <1>5, <1>6 DEF StampsInPast
    <2> QED
      BY <2>1, <2>2 DEF StampsInPast
  <1>8. Above(cursor, ingested)'
    <2>1. AboveNext(cursor, ingested)
      BY <1>2, <1>5, <1>6, UpdateKeepsAbove DEF PollInv, StampsInPast
    <2> QED
      BY <1>2, <2>1 DEF Above, AboveNext, Latest, RowOf
  <1>9. ASSUME NEW r \in Runtime PROVE Above(since[r], ingested)'
    <2>1. AboveNext(since[r], ingested)
      BY <1>2, <1>5, <1>6, UpdateKeepsAbove DEF PollInv, StampsInPast
    <2> QED
      BY <1>2, <2>1 DEF Above, AboveNext, Latest, RowOf
  <1>10. ASSUME NEW r \in Runtime, pc'[r] = "emitting"
         PROVE  Above(proposed[r], ingested \cup Sink!Elements(batch[r]))'
    <2>1. Above(proposed[r], ingested \cup Sink!Elements(batch[r]))
      BY <1>2, <1>10 DEF PollInv
    <2>2. AboveNext(proposed[r], ingested \cup Sink!Elements(batch[r]))
      BY <1>2, <1>5, <1>6, <2>1, UpdateKeepsAbove DEF StampsInPast
    <2> QED
      BY <1>2, <2>2 DEF Above, AboveNext, Latest, RowOf, Sink!Elements
  <1> QED
    BY <1>1, <1>7, <1>8, <1>9, <1>10 DEF PollInv

\* A page handed to emit: whoever is below the last stamp is below the loaded
\* cursor, where everybody is covered, or on the page.
LEMMA PollFetchKeepsPollInv ==
  ASSUME PollInv, NEW r \in Runtime, PollFetch(r)
  PROVE  PollInv'
  <1>1. TypeInv /\ StampsInPast /\ Above(since[r], ingested)
    BY DEF PollInv
  <1>2. PICK page \in SUBSET Candidates(since[r]), rows \in Seq(Row) :
            /\ IsFirstPage(page, Candidates(since[r]))
            /\ rows # <<>>
            /\ Sink!Elements(rows) = Wanted(page)
            /\ \A x \in Wanted(page) : x.at <= rows[Len(rows)].at
            /\ rows[Len(rows)] \in page
            /\ Submit(r, rows) /\ UNCHANGED since
    BY <1>1, PollSubmits
  <1>3. /\ TypeInv'
        /\ UNCHANGED <<now, upstream, hooks, since, cursor, ingested>>
        /\ proposed'[r] = rows[Len(rows)].at /\ batch'[r] = rows
        /\ \A q \in Runtime \ {r} : /\ proposed'[q] = proposed[q]
                                    /\ batch'[q] = batch[q]
                                    /\ pc'[q] = pc[q]
    BY <1>1, <1>2, SubmitFacts
  <1> DEFINE last == rows[Len(rows)].at
  <1>4. PICK k \in Issue : rows[Len(rows)] = RowOf(k)
    BY <1>2 DEF Candidates
  <1>5. MaxTime \in Nat /\ ProviderTypeOK
    BY <1>1, ProviderAssumption DEF TypeInv, TypeOK
  <1>6. last = upstream[k].at /\ last \in Nat
    BY <1>4, <1>5 DEF RowOf, ProviderTypeOK
  <1>7. last <= now
    BY <1>1, <1>6 DEF StampsInPast
  <1>8. Above(last, ingested \cup Sink!Elements(rows))
    <2> SUFFICES ASSUME NEW i \in Latest, upstream[i].at < last
                 PROVE  RowOf(i) \in ingested \cup Wanted(page)
      BY <1>2 DEF Above
    <2>1. since[r] \in Nat /\ upstream[i].at \in Nat /\ i \in Issue
      BY <1>1, <1>5 DEF TypeInv, TypeOK, ProviderTypeOK, Latest
    <2>2. CASE upstream[i].at < since[r]
      BY <1>1, <2>2 DEF Above
    <2>3. CASE upstream[i].at >= since[r]
      <3>1. RowOf(i) \in Candidates(since[r])
        BY <2>1, <2>3 DEF Candidates, Latest
      <3>2. RowOf(i).at = upstream[i].at /\ RowOf(i).issue = i
        BY DEF RowOf
      <3>3. RowOf(i) \in page
        <4>1. ASSUME RowOf(i) \notin page PROVE rows[Len(rows)].at <= RowOf(i).at
          BY <1>2, <3>1, <4>1 DEF IsFirstPage
        <4> QED
          BY <1>6, <2>1, <3>2, <4>1
      <3>4. RowOf(i) \in Wanted(page)
        BY <3>2, <3>3 DEF Wanted, Latest
      <3> QED
        BY <3>4
    <2> QED
      BY <2>1, <2>2, <2>3
  <1>9. StampsInPast'
    BY <1>1, <1>3, <1>7 DEF StampsInPast
  <1>10. ASSUME NEW q \in Runtime, pc'[q] = "emitting"
         PROVE  Above(proposed[q], ingested \cup Sink!Elements(batch[q]))'
    <2>1. CASE q = r
      BY <1>3, <1>8, <2>1 DEF Above, Latest, RowOf, Sink!Elements
    <2>2. CASE q # r
      <3>1. /\ pc[q] = "emitting" /\ proposed'[q] = proposed[q]
            /\ batch'[q] = batch[q]
        BY <1>3, <1>10, <2>2
      <3>2. Above(proposed[q], ingested \cup Sink!Elements(batch[q]))
        BY <3>1 DEF PollInv
      <3> QED
        BY <1>3, <3>1, <3>2 DEF Above, Latest, RowOf, Sink!Elements
    <2> QED
      BY <2>1, <2>2
  <1>11. Above(cursor, ingested)' /\ \A q \in Runtime : Above(since[q], ingested)'
    BY <1>3 DEF PollInv, Above, Latest, RowOf
  <1> QED
    BY <1>1, <1>3, <1>9, <1>10, <1>11 DEF PollInv

\* Every other step of a process leaves the provider alone, and its cursors are
\* zero, unchanged, or taken from one that covers.
LEMMA QuietFrame ==
  ASSUME PollInv, TypeInv', UNCHANGED <<now, upstream, hooks>>,
         ingested \subseteq ingested',
         cursor' <= now, Above(cursor', ingested),
         \A q \in Runtime : since'[q] \in {0, since[q], cursor},
         \A q \in Runtime : proposed'[q] \in {0, proposed[q]},
         \A q \in Runtime : pc'[q] = "emitting" =>
            pc[q] = "emitting" /\ proposed'[q] = proposed[q] /\ batch'[q] = batch[q]
  PROVE  PollInv'
  <1>1. MaxTime \in Nat /\ ProviderTypeOK
    BY ProviderAssumption DEF PollInv, TypeInv, TypeOK
  <1>2. now \in Nat /\ \A i \in Issue : upstream[i].at \in Nat
    BY <1>1 DEF ProviderTypeOK
  <1>3. StampsInPast'
    <2>1. StampsInPast /\ 0 <= now
      BY <1>2 DEF PollInv
    <2>2. ASSUME NEW q \in Runtime PROVE since'[q] <= now /\ proposed'[q] <= now
      BY <2>1 DEF StampsInPast
    <2> QED
      BY <2>1, <2>2 DEF StampsInPast
  <1>4. Above(cursor, ingested)'
    BY DEF Above, Latest, RowOf
  <1>5. ASSUME NEW q \in Runtime PROVE Above(since[q], ingested)'
    <2>1. Above(0, ingested)
      BY <1>2 DEF Above, Latest
    <2>2. Above(since'[q], ingested)
      BY <2>1 DEF PollInv
    <2> QED
      BY <2>2 DEF Above, Latest, RowOf
  <1>6. ASSUME NEW q \in Runtime, pc'[q] = "emitting"
        PROVE  Above(proposed[q], ingested \cup Sink!Elements(batch[q]))'
    <2>1. Above(proposed[q], ingested \cup Sink!Elements(batch[q]))
      BY <1>6 DEF PollInv
    <2>2. proposed'[q] = proposed[q] /\ batch'[q] = batch[q]
      BY <1>6
    <2> QED
      BY <2>1, <2>2 DEF Above, Latest, RowOf, Sink!Elements
  <1> QED
    BY <1>3, <1>4, <1>5, <1>6 DEF PollInv

\* emit returned, so every row of the batch is with the Bot: the proposed cursor
\* covers by itself.
LEMMA ProposedCovers ==
  ASSUME PollInv, NEW r \in Runtime, Commit(r)
  PROVE  proposed[r] <= now /\ Above(proposed[r], ingested)
  <1>1. pc[r] = "emitting" /\ phase[r] = "ok"
    BY DEF Commit
  <1>2. sent[r] = Len(batch[r]) /\ batch[r] \in Seq(Row)
    BY <1>1 DEF PollInv, TypeInv, TypeOK, Sink!TypeOK, Sink!AckedPrefixIngested
  <1>3. \A k \in 1..sent[r] : batch[r][k] \in ingested
    BY DEF PollInv, TypeInv, Sink!AckedPrefixIngested
  <1>4. Sink!Elements(batch[r]) \subseteq ingested
    BY <1>2, <1>3 DEF Sink!Elements
  <1>5. Above(proposed[r], ingested \cup Sink!Elements(batch[r]))
    BY <1>1 DEF PollInv
  <1>6. ingested \cup Sink!Elements(batch[r]) = ingested
    BY <1>4
  <1>7. Above(proposed[r], ingested)
    BY <1>5, <1>6
  <1> QED
    BY <1>7 DEF PollInv, StampsInPast

\* Where a step of a process leaves the watermark: always at a covered stamp.
LEMMA QuietSteps ==
  ASSUME PollInv, NEW r \in Runtime,
         \/ PollLoad(r) \/ PollYieldsNothing(r) \/ Deliver(r)
         \/ Commit(r) \/ GiveUp(r) \/ Crash(r)
  PROVE  PollInv'
  <1>1. TypeInv /\ cursor <= now /\ Above(cursor, ingested)
    BY DEF PollInv, StampsInPast
  <1>2. CASE PollLoad(r) \/ PollYieldsNothing(r)
    <2>1. \A q \in Runtime : /\ since'[q] \in {0, since[q], cursor}
                             /\ proposed'[q] \in {0, proposed[q]}
      BY <1>1, <1>2, PollStepFacts
    <2>2. \A q \in Runtime : pc'[q] = "emitting" =>
            pc[q] = "emitting" /\ proposed'[q] = proposed[q] /\ batch'[q] = batch[q]
      BY <1>1, <1>2, PollStepFacts
    <2> QED
      BY <1>1, <1>2, <2>1, <2>2, PollStepFacts, QuietFrame
  <1>3. CASE Deliver(r)
    BY <1>1, <1>3, DeliverFacts, QuietFrame
  <1>4. CASE Commit(r) \/ GiveUp(r) \/ Crash(r)
    <2>1. cursor' <= now /\ Above(cursor', ingested)
      BY <1>1, <1>4, EndFacts, ProposedCovers
    <2>2. \A q \in Runtime : /\ since'[q] \in {0, since[q], cursor}
                             /\ proposed'[q] \in {0, proposed[q]}
      BY <1>1, <1>4, EndFacts
    <2>3. \A q \in Runtime : pc'[q] = "emitting" =>
            pc[q] = "emitting" /\ proposed'[q] = proposed[q] /\ batch'[q] = batch[q]
      BY <1>1, <1>4, EndFacts
    <2> QED
      BY <1>1, <1>4, <2>1, <2>2, <2>3, EndFacts, QuietFrame
  <1> QED
    BY <1>2, <1>3, <1>4

LEMMA InitPoll == Init => PollInv
  <1> SUFFICES ASSUME Init PROVE PollInv
    OBVIOUS
  <1>1. TypeInv
    BY InitType
  <1>2. Latest = {}
    BY DEF Init, ProviderInit, Latest
  <1>3. StampsInPast
    BY DEF Init, ProviderInit, StampsInPast
  <1> QED
    BY <1>1, <1>2, <1>3 DEF Init, PollInv, Above

LEMMA NextPoll ==
  ASSUME ~Webhooks
  PROVE  PollInv /\ [Next]_vars => PollInv'
  <1> SUFFICES ASSUME PollInv, [Next]_vars PROVE PollInv'
    OBVIOUS
  <1>1. ASSUME NEW i \in Issue, ProviderUpdate(i) PROVE PollInv'
    BY <1>1, ProviderUpdateKeepsPollInv
  <1>2. ASSUME NEW r \in Runtime, RuntimeStep(r) PROVE PollInv'
    <2>1. hooks = {}
      BY DEF PollInv
    <2> QED
      BY <1>2, <2>1, PollFetchKeepsPollInv, QuietSteps DEF RuntimeStep
  <1>3. CASE UNCHANGED vars
    <2>1. TypeInv'
      BY <1>3, NextType DEF PollInv
    <2>2. UNCHANGED <<now, upstream, hooks, pc, since, proposed, cursor, batch, ingested>>
      BY <1>3 DEF vars, providerVars, runtimeVars, sinkVars
    <2>3. cursor <= now /\ Above(cursor, ingested)
      BY DEF PollInv, StampsInPast
    <2> QED
      BY <2>1, <2>2, <2>3, QuietFrame
  <1> QED
    BY <1>1, <1>2, <1>3 DEF Next

\* With polls alone, what every call in flight has loaded or fetched covers what the
\* Bot will have when it commits (fetch_new_issues, commit_issue_cursor).
THEOREM PollInvariant ==
  ASSUME ~Webhooks
  PROVE  Spec => []IInv
  <1>1. Init => PollInv
    BY InitPoll
  <1>2. PollInv /\ [Next]_vars => PollInv'
    BY NextPoll
  <1>3. PollInv => IInv
    BY IInvIsPollInv
  <1> QED
    BY <1>1, <1>2, <1>3, PTL DEF Spec

\* With polling as the only writer, the stored watermark never passes an issue
\* whose latest revision the Bot lacks: any number of pollers, crashes, races of
\* their saves, partial failures and pages that split a second included.
THEOREM WatermarkSafe ==
  ASSUME ~Webhooks
  PROVE  Spec => []WatermarkCovers
  <1>1. IInv => WatermarkCovers
    BY DEF IInv, WatermarkCovers
  <1> QED
    BY <1>1, PollInvariant, PTL

------------------------------------------------------------------------------
(* Refinement *)

\* Every step of the pollers is a step of the abstract backfill, or stutters.
LEMMA StepRefines ==
  ASSUME ~Webhooks, PollInv, [Next]_vars
  PROVE  [Abstract!Next]_(Abstract!vars)
  <1>1. TypeInv /\ hooks = {}
    BY DEF PollInv
  <1>2. ASSUME NEW i \in Issue, ProviderUpdate(i) PROVE Abstract!Publish
    BY <1>2 DEF ProviderUpdate, Update, Abstract!Publish, Abstract!Update, sinkVars
  <1>3. ASSUME NEW r \in Runtime, PollFetch(r)
        PROVE  UNCHANGED <<now, upstream, ingested, cursor>>
    BY <1>1, <1>3, PollSubmits, SubmitFacts
  <1>4. ASSUME NEW r \in Runtime, PollLoad(r) \/ PollYieldsNothing(r)
        PROVE  UNCHANGED <<now, upstream, ingested, cursor>>
    BY <1>1, <1>4, PollStepFacts
  <1>5. ASSUME NEW r \in Runtime, Deliver(r)
        PROVE  \/ UNCHANGED <<now, upstream, ingested, cursor>>
               \/ \E row \in Abstract!Row : Abstract!Ingest(row)
    <2>1. UNCHANGED <<now, upstream, cursor>>
      BY <1>1, <1>5, DeliverFacts
    <2>2. \/ ingested' = ingested
          \/ \E row \in Row : ingested' = ingested \cup {row}
      BY <1>1, <1>5, DeliverFacts
    <2> QED
      BY <2>1, <2>2 DEF Row, Abstract!Row, Abstract!Ingest, Abstract!providerVars
  <1>6. ASSUME NEW r \in Runtime, Commit(r)
        PROVE  \E c \in 0..MaxTime : Abstract!MoveWatermark(c)
    <2>1. UNCHANGED <<now, upstream, ingested>> /\ cursor' = proposed[r]
      BY <1>1, <1>6, EndFacts DEF Commit
    <2>2. proposed[r] <= now /\ Abstract!Covered(proposed[r])
      BY <1>6, ProposedCovers, CoveredIsAbove
    <2>3. proposed[r] \in 0..MaxTime
      BY <1>1 DEF TypeInv, TypeOK
    <2> QED
      BY <2>1, <2>2, <2>3 DEF Abstract!MoveWatermark, Abstract!providerVars
  <1>7. ASSUME NEW r \in Runtime, GiveUp(r) \/ Crash(r)
        PROVE  UNCHANGED <<now, upstream, ingested, cursor>>
    <2>1. cursor' = cursor
      BY <1>7 DEF GiveUp, Crash
    <2> QED
      BY <1>1, <1>7, <2>1, EndFacts
  <1>8. CASE UNCHANGED vars
    BY <1>8 DEF vars, providerVars, sinkVars, Abstract!vars, Abstract!providerVars
  <1>9. UNCHANGED <<now, upstream, ingested, cursor>> => UNCHANGED Abstract!vars
    BY DEF Abstract!vars, Abstract!providerVars
  <1> QED
    BY <1>1, <1>2, <1>3, <1>4, <1>5, <1>6, <1>7, <1>8, <1>9
       DEF Next, RuntimeStep, Abstract!Next

\* Polling implements the abstract backfill for every number of issues, pollers
\* and rows of a page.
THEOREM RefinesBackfill ==
  ASSUME ~Webhooks
  PROVE  Spec => ImplementsBackfill
  <1>1. Init => PollInv
    BY InitPoll
  <1>2. PollInv /\ [Next]_vars => PollInv'
    BY NextPoll
  <1>3. Init => Abstract!Init
    BY DEF Init, Sink!SinkInit, ProviderInit, Abstract!Init, Abstract!ProviderInit
  <1>4. PollInv /\ [Next]_vars => [Abstract!Next]_(Abstract!vars)
    BY StepRefines
  <1> QED
    BY <1>1, <1>2, <1>3, <1>4, PTL DEF Spec, ImplementsBackfill, Abstract!Spec
==============================================================================
