--------------------------- MODULE PollWalk_proofs ---------------------------
(***************************************************************************)
(* What the pagination walks guarantee for any listing, page size and      *)
(* caps, whatever comes and goes while they run: a walk along tokens       *)
(* delivers every row that stayed exactly once, no pager but the token     *)
(* pager asks for a page twice, and the caps hold.                         *)
(***************************************************************************)
EXTENDS PollWalk, FiniteSetTheorems, WellFoundedInduction, TLAPS

\* Between two walks nothing is left of the one before.
Clean ==
    pc = "idle" => asked = {} /\ pages = 0 /\ collected = {} /\ twice = {} /\ total = 0

\* The next position is one that was not asked for.
NewPosition ==
    /\ IsFiniteSet(asked)
    /\ AskedOnce
    /\ pc = "fetch" =>
        /\ kind = "single" => asked = {}
        /\ kind \in Counted => \A a \in asked : a < at
        /\ kind = "graphql" => at \notin asked

\* A walk along tokens has collected what is listed up to its position, and
\* nothing behind it.
UpToHere ==
    honest /\ kind \in Keyset =>
        /\ twice = {}
        /\ pc = "fetch" =>
            /\ \A i \in collected : i <= at
            /\ \A i \in kept : i <= at => i \in collected
        /\ pc \in {"deliver", "done"} =>
            kept \subseteq collected \/ (kind = "graphql" /\ pages = MaxPages)
        /\ pc = "done" => emitted = collected \ Malformed

WalkInv == TypeOK /\ Clean /\ NewPosition /\ UpToHere

\* Every set of rows is finite, and so is its number.
LEMMA RowsFinite ==
  ASSUME NEW S, S \subseteq Item
  PROVE  IsFiniteSet(S) /\ Cardinality(S) \in Nat
  BY WalkAssumption, FS_Subset, FS_CardinalityType

\* A page holds listed rows only; one that follows a token holds with each row
\* all that come before it and after the token.
LEMMA PageOfRows ==
  ASSUME TypeOK
  PROVE  /\ Page \subseteq upstream
         /\ kind \in Keyset =>
              /\ Page \subseteq After(at)
              /\ \A i \in Page, j \in After(at) : j <= i => j \in Page
  <1>1. Page \subseteq upstream
    BY DEF Page, First, After, Beyond
  <1>2. ASSUME kind \in Keyset, NEW i \in Page, NEW j \in After(at), j <= i
        PROVE  j \in Page
    <2> DEFINE Upto(k) == {n \in After(at) : n <= k}
    <2>1. Page = First(After(at))
      BY <1>2 DEF Page, Keyset
    <2>2. i \in Nat /\ j \in Nat /\ After(at) \subseteq Item /\ Item \subseteq Nat
      BY <1>1, <1>2, WalkAssumption DEF TypeOK, After
    <2>3. Upto(j) \subseteq Upto(i)
      <3> SUFFICES ASSUME NEW n \in Upto(j) PROVE n \in Upto(i)
        OBVIOUS
      <3>1. n \in After(at) /\ n \in Nat /\ n <= j
        BY <2>2
      <3> QED
        BY <1>2, <2>2, <3>1
    <2>4. Cardinality(Upto(j)) <= Cardinality(Upto(i))
      <3>1. IsFiniteSet(Upto(i))
        BY <2>2, RowsFinite
      <3> QED
        BY <2>3, <3>1, FS_Subset
    <2>5. Cardinality(Upto(i)) <= Limit[kind]
      BY <1>2, <2>1 DEF First
    <2>6. Cardinality(Upto(i)) \in Nat /\ Cardinality(Upto(j)) \in Nat /\ Limit[kind] \in Nat
      BY <2>2, RowsFinite, WalkAssumption DEF TypeOK
    <2>7. Cardinality(Upto(j)) <= Limit[kind]
      BY <2>4, <2>5, <2>6
    <2> QED
      BY <2>1, <2>7, <1>2 DEF First
  <1>3. kind \in Keyset => Page \subseteq After(at)
    BY DEF Page, First, Keyset
  <1> QED
    BY <1>1, <1>2, <1>3

\* One page more: types and caps hold.
LEMMA RequestType ==
  ASSUME WalkInv, Request
  PROVE  /\ pages' \in 1..MaxPages /\ pages' = pages + 1
         /\ asked' \subseteq Nat
         /\ collected' \subseteq Item /\ twice' \subseteq collected'
         /\ total' \in 0..MaxItems
         /\ emitted' \subseteq collected'
         /\ UNCHANGED <<kind, upstream, kept, removed, added, changes>>
  <1>1. Page \subseteq Item /\ Cardinality(Page) \in Nat
    BY PageOfRows, RowsFinite DEF WalkInv, TypeOK
  <1>2. total' \in 0..MaxItems
    BY <1>1, WalkAssumption DEF WalkInv, TypeOK, Request
  <1> QED
    BY <1>1, <1>2, WalkAssumption DEF WalkInv, TypeOK, Request, listing

\* A new position is one more in the set.
LEMMA OneMoreAsked ==
  ASSUME WalkInv, Request
  PROVE  /\ IsFiniteSet(asked')
         /\ kind # "token" => Cardinality(asked') = pages'
  <1>1. IsFiniteSet(asked')
    BY FS_AddElement DEF WalkInv, NewPosition, Request
  <1>2. ASSUME kind # "token" PROVE Cardinality(asked') = pages'
    <2>1. at \notin asked
      BY <1>2 DEF WalkInv, TypeOK, NewPosition, Request, Kinds, Keyset, Counted
    <2>2. Cardinality(asked') = Cardinality(asked) + 1
      BY <2>1, FS_AddElement DEF WalkInv, NewPosition, Request
    <2> QED
      BY <1>2, <2>2 DEF WalkInv, NewPosition, AskedOnce, Request
  <1> QED
    BY <1>1, <1>2

\* Nothing on the page that follows a token has been collected before.
LEMMA NothingTwice ==
  ASSUME WalkInv, Request, honest, kind \in Keyset
  PROVE  twice' = {}
  <1>1. \A i \in collected : i <= at /\ i \in Nat
    BY WalkAssumption DEF WalkInv, TypeOK, UpToHere, Request
  <1>2. \A i \in Page : i > at
    BY PageOfRows DEF WalkInv, After
  <1>3. at \in Nat /\ twice = {}
    BY DEF WalkInv, TypeOK, UpToHere
  <1> QED
    BY <1>1, <1>2, <1>3 DEF Request

\* Along a true token the walk has collected all that stayed up to it.
LEMMA TokenAhead ==
  ASSUME WalkInv, Request, honest, kind \in Keyset, NEW token \in Item, Truthful(token)
  PROVE  /\ \A i \in collected' : i <= token
         /\ \A i \in kept : i <= token => i \in collected'
  <1>1. token \in Page /\ (\A j \in Page : j <= token)
    BY WalkAssumption DEF Truthful, None
  <1>2. token > at /\ token \in Nat /\ at \in Nat
    BY <1>1, PageOfRows, WalkAssumption DEF WalkInv, TypeOK, After
  <1>3. \A i \in collected : i <= at /\ i \in Nat
    BY WalkAssumption DEF WalkInv, TypeOK, UpToHere, Request
  <1>4. \A i \in collected' : i <= token
    <2> SUFFICES ASSUME NEW i \in collected' PROVE i <= token
      OBVIOUS
    <2>1. i \in collected \/ i \in Page
      BY DEF Request
    <2>2. CASE i \in Page
      BY <1>1, <2>2
    <2>3. CASE i \in collected
      <3>1. i <= at /\ i \in Nat
        BY <1>3, <2>3
      <3> QED
        BY <1>2, <3>1
    <2> QED
      BY <2>1, <2>2, <2>3
  <1>5. ASSUME NEW i \in kept, i <= token PROVE i \in collected'
    <2>1. i \in upstream /\ i \in Nat
      BY WalkAssumption DEF WalkInv, TypeOK
    <2>2. CASE i <= at
      BY <2>2 DEF WalkInv, UpToHere, Request
    <2>3. CASE i > at
      BY <1>1, <1>5, <2>1, <2>3, PageOfRows DEF WalkInv, After, Request
    <2> QED
      BY <1>2, <2>1, <2>2, <2>3
  <1> QED
    BY <1>4, <1>5

\* When the provider truthfully names no next page, all that stayed is collected.
LEMMA LastPage ==
  ASSUME WalkInv, Request, honest, kind \in Keyset, Truthful(None)
  PROVE  kept \subseteq collected'
  <1>1. Page = After(at)
    BY PageOfRows, WalkAssumption DEF WalkInv, TypeOK, Truthful, None
  <1>2. ASSUME NEW i \in kept PROVE i \in collected'
    <2>1. i \in upstream /\ i \in Nat /\ at \in Nat
      BY WalkAssumption DEF WalkInv, TypeOK
    <2>2. CASE i <= at
      BY <2>2 DEF WalkInv, UpToHere, Request
    <2>3. CASE i > at
      BY <1>1, <2>1, <2>3 DEF After, Request
    <2> QED
      BY <2>1, <2>2, <2>3
  <1> QED
    BY <1>2

\* The types after a page that ends with a token.
LEMMA TokenType ==
  ASSUME WalkInv, Request, NEW token \in Tokens,
         honest' = (honest /\ Truthful(token)),
         at' = at \/ (token \in Item /\ at' = token),
         pc' \in {"fetch", "deliver", "failed"}
  PROVE  TypeOK'
  <1>1. at' \in Nat
    BY WalkAssumption DEF WalkInv, TypeOK
  <1>2. honest' \in BOOLEAN
    OBVIOUS
  <1> QED
    BY <1>1, <1>2, RequestType DEF WalkInv, TypeOK

\* One request of a walk without pagination.
LEMMA SinglePageKeeps ==
  ASSUME WalkInv, SinglePage
  PROVE  WalkInv'
  <1>1. Request /\ kind = "single" /\ pc' = "deliver" /\ at' = at /\ honest' = honest
    BY DEF SinglePage, Stop
  <1>2. TypeOK'
    BY <1>1, RequestType DEF WalkInv, TypeOK
  <1>3. NewPosition'
    BY <1>1, OneMoreAsked, RequestType DEF NewPosition, AskedOnce
  <1> QED
    BY <1>1, <1>2, <1>3, RequestType DEF WalkInv, Clean, UpToHere, Keyset

\* A page of an offset or page-number walk: the position moves on.
LEMMA CountedPageKeeps ==
  ASSUME WalkInv, CountedPage
  PROVE  WalkInv'
  <1>1. Request /\ kind \in Counted /\ honest' = honest /\ at \in Nat /\ Limit[kind] \in Nat \ {0}
    BY WalkAssumption DEF CountedPage, WalkInv, TypeOK
  <1>2. \/ pc' = "deliver" /\ at' = at
        \/ pc' = "fetch" /\ at' \in Nat /\ at' > at
    BY <1>1 DEF CountedPage, Stop
  <1>3. TypeOK'
    BY <1>1, <1>2, RequestType DEF WalkInv, TypeOK
  <1>4. NewPosition'
    <2>1. ASSUME pc' = "fetch", NEW a \in asked' PROVE a < at'
      BY <1>1, <1>2, <2>1 DEF WalkInv, TypeOK, NewPosition, Request
    <2> QED
      BY <1>1, <2>1, OneMoreAsked, RequestType DEF NewPosition, AskedOnce, Counted
  <1> QED
    BY <1>1, <1>2, <1>3, <1>4, RequestType DEF WalkInv, Clean, UpToHere, Keyset, Counted

\* A page of a REST walk along tokens.
LEMMA TokenPageKeeps ==
  ASSUME WalkInv, NEW token \in Tokens, TokenPage(token)
  PROVE  WalkInv'
  <1>1. Request /\ kind = "token" /\ kind \in Keyset /\ honest' = (honest /\ Truthful(token))
    BY DEF TokenPage, Keyset
  <1>2. \/ token = None /\ pc' = "deliver" /\ at' = at
        \/ token = Poisoned /\ pc' = "failed" /\ at' = at
        \/ token \in Item /\ pc' = "fetch" /\ at' = token
    BY WalkAssumption DEF TokenPage, Tokens, Stop, None, Poisoned
  <1>3. TypeOK'
    BY <1>1, <1>2, TokenType
  <1>4. NewPosition'
    BY <1>1, OneMoreAsked, RequestType DEF NewPosition, AskedOnce, Counted
  <1>5. UpToHere'
    <2>1. CASE ~honest'
      BY <2>1 DEF UpToHere
    <2>2. CASE honest'
      <3>1. honest /\ Truthful(token) /\ kind' = kind /\ kept' = kept
        BY <1>1, <2>2, RequestType
      <3>2. twice' = {}
        BY <1>1, <3>1, NothingTwice
      <3>3. CASE token = None /\ pc' = "deliver" /\ at' = at
        BY <1>1, <3>1, <3>2, <3>3, LastPage DEF UpToHere
      <3>4. CASE token = Poisoned /\ pc' = "failed" /\ at' = at
        BY <3>2, <3>4 DEF UpToHere
      <3>5. CASE token \in Item /\ pc' = "fetch" /\ at' = token
        BY <1>1, <3>1, <3>2, <3>5, TokenAhead DEF UpToHere
      <3> QED
        BY <1>2, <3>3, <3>4, <3>5
    <2> QED
      BY <2>1, <2>2
  <1> QED
    BY <1>2, <1>3, <1>4, <1>5 DEF WalkInv, Clean

\* A page of poll_graphql.
LEMMA CursorPageKeeps ==
  ASSUME WalkInv, NEW token \in Tokens, CursorPage(token)
  PROVE  WalkInv'
  <1>1. Request /\ kind = "graphql" /\ kind \in Keyset /\ honest' = (honest /\ Truthful(token))
    BY DEF CursorPage, Keyset
  <1>2. \/ token = None /\ pc' = "deliver" /\ at' = at
        \/ pc' = "failed" /\ at' = at
        \/ token \in Item /\ token \notin asked' /\ at' = token /\ pc' = "fetch"
        \/ token \in Item /\ at' = token /\ pc' = "deliver" /\ pages' = MaxPages
    BY WalkAssumption DEF CursorPage, Tokens, Stop, None, Poisoned
  <1>3. TypeOK'
    BY <1>1, <1>2, TokenType
  <1>4. NewPosition'
    BY <1>1, <1>2, OneMoreAsked, RequestType DEF NewPosition, AskedOnce, Counted
  <1>5. UpToHere'
    <2>1. CASE ~honest'
      BY <2>1 DEF UpToHere
    <2>2. CASE honest'
      <3>1. honest /\ Truthful(token) /\ kind' = kind /\ kept' = kept
        BY <1>1, <2>2, RequestType
      <3>2. twice' = {}
        BY <1>1, <3>1, NothingTwice
      <3>3. CASE token = None /\ pc' = "deliver" /\ at' = at
        BY <1>1, <3>1, <3>2, <3>3, LastPage DEF UpToHere
      <3>4. CASE pc' = "failed" /\ at' = at
        BY <3>2, <3>4 DEF UpToHere
      <3>5. CASE token \in Item /\ token \notin asked' /\ at' = token /\ pc' = "fetch"
        BY <1>1, <3>1, <3>2, <3>5, TokenAhead DEF UpToHere
      <3>6. CASE token \in Item /\ at' = token /\ pc' = "deliver" /\ pages' = MaxPages
        BY <1>1, <3>1, <3>2, <3>6 DEF UpToHere
      <3> QED
        BY <1>2, <3>3, <3>4, <3>5, <3>6
    <2> QED
      BY <2>1, <2>2
  <1> QED
    BY <1>2, <1>3, <1>4, <1>5 DEF WalkInv, Clean

\* The rows that come and go while a walk fetches, behind it or before it.
LEMMA ListingKeeps ==
  ASSUME WalkInv, NEW i \in Item, Appear(i) \/ Vanish(i)
  PROVE  WalkInv'
  <1>1. TypeOK'
    <2>1. upstream' \subseteq Item /\ kept' \subseteq upstream' /\ changes' \in 0..MaxChanges
      <3>1. upstream \subseteq Item /\ kept \subseteq upstream /\ changes \in 0..MaxChanges
        BY DEF WalkInv, TypeOK
      <3>2. changes < MaxChanges /\ changes' = changes + 1
        BY DEF Appear, Vanish
      <3>3. changes' \in 0..MaxChanges
        BY <3>1, <3>2, WalkAssumption
      <3>4. upstream' \subseteq Item /\ kept' \subseteq upstream'
        BY <3>1 DEF Appear, Vanish
      <3> QED
        BY <3>3, <3>4
    <2>2. removed' \in BOOLEAN /\ added' \in BOOLEAN
      BY DEF WalkInv, TypeOK, Appear, Vanish
    <2> QED
      BY <2>1, <2>2 DEF WalkInv, TypeOK, Appear, Vanish, walk
  <1>2. Clean' /\ NewPosition'
    BY DEF WalkInv, Clean, NewPosition, AskedOnce, Appear, Vanish, walk
  <1>3. UpToHere'
    BY DEF WalkInv, UpToHere, Appear, Vanish, walk
  <1> QED
    BY <1>1, <1>2, <1>3 DEF WalkInv

\* A walk begins with nothing collected, from before the first row.
LEMMA StartKeeps ==
  ASSUME WalkInv, NEW k \in Kinds, Start(k)
  PROVE  WalkInv'
  <1>1. TypeOK'
    BY DEF WalkInv, TypeOK, Start
  <1>2. Clean'
    BY DEF Clean, Start
  <1>3. NewPosition'
    BY FS_EmptySet DEF WalkInv, Clean, NewPosition, AskedOnce, Start
  <1>4. UpToHere'
    BY WalkAssumption DEF WalkInv, TypeOK, Clean, UpToHere, Start, Keyset
  <1> QED
    BY <1>1, <1>2, <1>3, <1>4 DEF WalkInv

\* A walk that fails leaves everything as it was.
LEMMA FailKeeps ==
  ASSUME WalkInv, Fail
  PROVE  WalkInv'
  BY DEF WalkInv, TypeOK, Clean, NewPosition, AskedOnce, UpToHere, Fail, listing

\* What was collected is handed over, but for the rows that do not parse.
LEMMA DeliverKeeps ==
  ASSUME WalkInv, Deliver
  PROVE  WalkInv'
  <1>1. TypeOK'
    BY DEF WalkInv, TypeOK, Deliver, listing
  <1>2. Clean' /\ NewPosition'
    BY DEF WalkInv, Clean, NewPosition, AskedOnce, Deliver, listing
  <1>3. UpToHere'
    BY DEF WalkInv, UpToHere, Deliver, listing
  <1> QED
    BY <1>1, <1>2, <1>3 DEF WalkInv

\* The next walk starts afresh.
LEMMA ReturnKeeps ==
  ASSUME WalkInv, Return
  PROVE  WalkInv'
  <1>1. TypeOK'
    <2>1. upstream' \subseteq Item /\ kind' \in Kinds
      BY DEF WalkInv, TypeOK, Return, Kinds
    <2>2. 0 \in 0..MaxPages /\ 0 \in 0..MaxItems /\ 0 \in 0..MaxChanges
      BY WalkAssumption
    <2> QED
      BY <2>1, <2>2 DEF Return, TypeOK
  <1>2. NewPosition'
    BY FS_EmptySet DEF NewPosition, AskedOnce, Return
  <1> QED
    BY <1>1, <1>2 DEF WalkInv, Clean, UpToHere, Return, Keyset

\* At first no walk has begun.
LEMMA InitHolds ==
  ASSUME Init
  PROVE  WalkInv
  <1>1. TypeOK
    <2>1. upstream \subseteq Item /\ kind \in Kinds
      BY DEF Init, Kinds
    <2>2. 0 \in 0..MaxPages /\ 0 \in 0..MaxItems /\ 0 \in 0..MaxChanges
      BY WalkAssumption
    <2> QED
      BY <2>1, <2>2 DEF Init, TypeOK
  <1>2. NewPosition
    BY FS_EmptySet DEF Init, NewPosition, AskedOnce
  <1> QED
    BY <1>1, <1>2 DEF Init, WalkInv, Clean, UpToHere, Keyset

\* Every step of the walk and of the listing keeps the inductive invariant.
LEMMA StepKeeps ==
  ASSUME WalkInv, [Next]_vars
  PROVE  WalkInv'
  <1>1. CASE WalkStep
    <2>1. CASE TooManyPages \/ FetchFails \/ PageRefused
      BY <2>1, FailKeeps DEF TooManyPages, FetchFails, PageRefused
    <2> QED
      BY <1>1, <2>1, SinglePageKeeps, CountedPageKeeps, TokenPageKeeps, CursorPageKeeps,
         DeliverKeeps DEF WalkStep
  <1>2. CASE UNCHANGED vars
    BY <1>2 DEF WalkInv, TypeOK, Clean, NewPosition, AskedOnce, UpToHere, vars, listing, walk
  <1> QED
    BY <1>1, <1>2, StartKeeps, ReturnKeeps, ListingKeeps DEF Next

\* Types, caps and positions of the walks of poll and poll_graphql.
THEOREM WalkInvariant == Spec => []WalkInv
  <1>1. Init => WalkInv
    BY InitHolds
  <1>2. WalkInv /\ [Next]_vars => WalkInv'
    BY StepKeeps
  <1> QED
    BY <1>1, <1>2, PTL DEF Spec

\* The caps hold whatever the provider answers: no walk asks for more than MaxPages
\* pages or holds more than MaxItems rows, and what the sink is given was collected.
THEOREM CapsHold == Spec => []TypeOK
  <1>1. WalkInv => TypeOK
    BY DEF WalkInv
  <1> QED
    BY <1>1, WalkInvariant, PTL

\* However long the listing, whatever the page size and whatever comes and goes,
\* a walk along tokens delivers every row that stayed, and none twice.
THEOREM TokenWalks == Spec => []TokensOnceEach
  <1>1. WalkInv => TokensOnceEach
    BY DEF WalkInv, UpToHere, TokensOnceEach
  <1> QED
    BY <1>1, WalkInvariant, PTL

\* Whatever the provider answers, only a PageToken walk can ask for a page twice.
THEOREM NoPageTwice == Spec => []AskedOnce
  <1>1. WalkInv => AskedOnce
    BY DEF WalkInv, NewPosition
  <1> QED
    BY <1>1, WalkInvariant, PTL

------------------------------------------------------------------------------
(* Walks that count *)

\* The place of a row in a listing: how many rows there are up to it.
Upto(U, i) == {j \in U : j <= i}
Rank(U, i) == Cardinality(Upto(U, i))

\* The first n rows, all of them if there are no more.
Low(U, n) == {j \in U : Rank(U, j) <= n}

LEMMA RankIsNat ==
  ASSUME NEW U, U \subseteq Item, NEW i
  PROVE  IsFiniteSet(Upto(U, i)) /\ Upto(U, i) \subseteq Item /\ Rank(U, i) \in Nat
  <1>1. Upto(U, i) \subseteq Item
    BY DEF Upto
  <1> QED
    BY <1>1, RowsFinite DEF Rank

\* A row that comes later has a higher rank.
LEMMA RankGrows ==
  ASSUME NEW U, U \subseteq Item, NEW i \in U, NEW j \in U, j < i
  PROVE  Rank(U, j) < Rank(U, i)
  <1>1. i \in Nat /\ j \in Nat /\ U \subseteq Nat
    BY WalkAssumption
  <1>2. /\ IsFiniteSet(Upto(U, i)) /\ Rank(U, i) \in Nat
        /\ IsFiniteSet(Upto(U, j)) /\ Rank(U, j) \in Nat
    BY RankIsNat
  <1>3. Upto(U, j) \subseteq Upto(U, i) \ {i} /\ i \in Upto(U, i)
    <2>1. ASSUME NEW k \in Upto(U, j) PROVE k \in Upto(U, i) \ {i}
      <3>1. k \in U /\ k \in Nat /\ k <= j
        BY <1>1 DEF Upto
      <3>2. k <= i /\ k # i
        BY <1>1, <3>1
      <3> QED
        BY <3>1, <3>2 DEF Upto
    <2>2. i <= i
      BY <1>1
    <2> QED
      BY <2>1, <2>2 DEF Upto
  <1>4. /\ IsFiniteSet(Upto(U, i) \ {i})
        /\ Cardinality(Upto(U, i) \ {i}) = Rank(U, i) - 1
    BY <1>2, <1>3, FS_RemoveElement DEF Rank
  <1>5. Rank(U, j) <= Cardinality(Upto(U, i) \ {i})
    BY <1>3, <1>4, FS_Subset DEF Rank
  <1> QED
    BY <1>2, <1>4, <1>5

\* So ranks order the rows.
LEMMA RankOrders ==
  ASSUME NEW U, U \subseteq Item, NEW i \in U, NEW j \in U, Rank(U, j) <= Rank(U, i)
  PROVE  j <= i
  <1>1. i \in Nat /\ j \in Nat
    BY WalkAssumption
  <1>2. Rank(U, i) \in Nat /\ Rank(U, j) \in Nat
    BY RankIsNat
  <1>3. ~(i < j)
    BY <1>2, RankGrows
  <1> QED
    BY <1>1, <1>3

\* No row has rank 0.
LEMMA RankPositive ==
  ASSUME NEW U, U \subseteq Item, NEW i \in U
  PROVE  Rank(U, i) >= 1
  <1>1. i \in Upto(U, i)
    BY WalkAssumption DEF Upto
  <1>2. IsFiniteSet(Upto(U, i)) /\ Rank(U, i) \in Nat
    BY RankIsNat
  <1>3. Rank(U, i) # 0
    BY <1>1, <1>2, FS_EmptySet DEF Rank
  <1> QED
    BY <1>2, <1>3

\* More rows, higher ranks.
LEMMA RankOfMore ==
  ASSUME NEW V, V \subseteq Item, NEW U, U \subseteq V, NEW i
  PROVE  Rank(U, i) <= Rank(V, i)
  <1>1. Upto(U, i) \subseteq Upto(V, i)
    BY DEF Upto
  <1>2. IsFiniteSet(Upto(V, i))
    BY RankIsNat
  <1> QED
    BY <1>1, <1>2, FS_Subset DEF Rank

\* A set of numbers has a smallest.
LEMMA Smallest ==
  ASSUME NEW S, S \subseteq Nat, S # {}
  PROVE  \E m \in S : \A k \in S : m <= k
  <1> DEFINE R == OpToRel(<, Nat)
  <1>1. PICK m \in S : \A k \in S : <<k, m>> \notin R
    BY NatLessThanWellFounded, WFMin
  <1>2. ASSUME NEW k \in S PROVE m <= k
    <2>1. k \in Nat /\ m \in Nat
      OBVIOUS
    <2>2. ~(k < m)
      BY <1>1, <2>1 DEF OpToRel
    <2> QED
      BY <2>1, <2>2
  <1> QED
    BY <1>2

\* There are at most n first n rows: those up to the one with the highest rank.
LEMMA LowCount ==
  ASSUME NEW U, U \subseteq Item, NEW n \in Nat
  PROVE  /\ IsFiniteSet(Low(U, n)) /\ Cardinality(Low(U, n)) \in Nat
         /\ Cardinality(Low(U, n)) <= n
  <1> DEFINE L == Low(U, n)
  <1>1. L \subseteq U /\ L \subseteq Item
    BY DEF Low
  <1>2. IsFiniteSet(L) /\ Cardinality(L) \in Nat
    BY <1>1, RowsFinite
  <1>3. CASE L = {}
    BY <1>3, FS_EmptySet
  <1>4. CASE L # {}
    <2> DEFINE S == {n - Rank(U, j) : j \in L}
    <2>1. \A j \in L : Rank(U, j) \in Nat /\ Rank(U, j) <= n
      BY RankIsNat DEF Low
    <2>2. S \subseteq Nat /\ S # {}
      BY <1>4, <2>1
    <2>3. PICK d \in S : \A k \in S : d <= k
      <3> HIDE DEF S
      <3> QED
        BY <2>2, Smallest
    <2>4. PICK m \in L : d = n - Rank(U, m)
      OBVIOUS
    <2>5. \A j \in L : Rank(U, j) <= Rank(U, m)
      BY <2>1, <2>3, <2>4
    <2>6. L \subseteq Upto(U, m)
      BY <1>1, <2>5, RankOrders DEF Upto
    <2>7. IsFiniteSet(Upto(U, m)) /\ Rank(U, m) \in Nat
      BY RankIsNat
    <2>8. Cardinality(L) <= Rank(U, m)
      BY <2>6, <2>7, FS_Subset DEF Rank
    <2> QED
      BY <1>2, <2>1, <2>7, <2>8
  <1> QED
    BY <1>2, <1>3, <1>4

\* With rows beyond them they are n: those before the first row beyond.
LEMMA LowFull ==
  ASSUME NEW U, U \subseteq Item, NEW n \in Nat, NEW i \in U, Rank(U, i) > n
  PROVE  Cardinality(Low(U, n)) = n
  <1> DEFINE S == {j \in U : Rank(U, j) > n}
  <1>1. S \subseteq Nat /\ S # {}
    BY WalkAssumption
  <1>2. PICK m \in S : \A k \in S : m <= k
    BY <1>1, Smallest
  <1>3. /\ IsFiniteSet(Upto(U, m)) /\ Rank(U, m) \in Nat /\ m \in Upto(U, m)
        /\ Rank(U, m) > n
    <2>1. IsFiniteSet(Upto(U, m)) /\ Rank(U, m) \in Nat
      BY RankIsNat
    <2>2. m \in U /\ m \in Nat /\ Rank(U, m) > n
      BY <1>1
    <2>3. m <= m
      BY <2>2
    <2> QED
      BY <2>1, <2>2, <2>3 DEF Upto
  <1>4. Upto(U, m) \ {m} \subseteq Low(U, n)
    <2> SUFFICES ASSUME NEW j \in U, j <= m, j # m
                 PROVE  Rank(U, j) <= n
      BY DEF Upto, Low
    <2>1. j \in Nat /\ m \in Nat /\ Rank(U, j) \in Nat
      BY WalkAssumption, RankIsNat
    <2>2. j \notin S
      BY <1>2, <2>1
    <2> QED
      BY <2>1, <2>2
  <1>5. IsFiniteSet(Low(U, n)) /\ Cardinality(Low(U, n)) \in Nat /\ Cardinality(Low(U, n)) <= n
    BY LowCount
  <1>6. Cardinality(Upto(U, m) \ {m}) = Rank(U, m) - 1
    BY <1>3, FS_RemoveElement DEF Rank
  <1>7. Rank(U, m) - 1 <= Cardinality(Low(U, n))
    BY <1>4, <1>5, <1>6, FS_Subset
  <1> QED
    BY <1>3, <1>5, <1>7

\* Where a counting walk is: how many rows come before the page it asks for.
Passed == IF kind = "number" THEN (at - 1) * Limit[kind] ELSE at

\* Its page has the rows of the next ranks.
LEMMA PageByRank ==
  ASSUME TypeOK, kind \in Counted, Passed \in Nat
  PROVE  Page = {i \in upstream : Passed < Rank(upstream, i)
                                  /\ Rank(upstream, i) <= Passed + Limit[kind]}
  <1> DEFINE B == Beyond(Passed)
  <1>1. upstream \subseteq Item /\ Limit[kind] \in Nat
    BY WalkAssumption DEF TypeOK
  <1>2. Page = {i \in B : Cardinality(Upto(B, i)) <= Limit[kind]}
    BY DEF Page, First, Passed, Counted, Keyset, Upto
  <1>3. B = {i \in upstream : Rank(upstream, i) > Passed}
    BY DEF Beyond, Rank, Upto
  <1> HIDE DEF B
  <1>4. ASSUME NEW i \in B
        PROVE  Cardinality(Upto(B, i)) = Rank(upstream, i) - Passed
    <2>1. i \in upstream /\ Rank(upstream, i) > Passed
      BY <1>3
    <2>2. Upto(B, i) = Upto(upstream, i) \ Low(upstream, Passed)
      <3>1. \A j \in upstream : Rank(upstream, j) \in Nat
        BY <1>1, RankIsNat
      <3> QED
        BY <1>3, <3>1 DEF Upto, Low
    <2>3. Low(upstream, Passed) \subseteq Upto(upstream, i)
      <3> SUFFICES ASSUME NEW j \in Low(upstream, Passed)
                   PROVE  j \in Upto(upstream, i)
        OBVIOUS
      <3>1. /\ j \in upstream /\ Rank(upstream, j) <= Passed
            /\ Rank(upstream, j) \in Nat /\ Rank(upstream, i) \in Nat
        BY <1>1, RankIsNat DEF Low
      <3>2. j <= i
        BY <1>1, <2>1, <3>1, RankOrders
      <3> QED
        BY <3>1, <3>2 DEF Upto
    <2>4. Cardinality(Low(upstream, Passed)) = Passed
      BY <1>1, <2>1, LowFull
    <2>5. IsFiniteSet(Upto(upstream, i))
      BY <1>1, RankIsNat
    <2>6. Upto(upstream, i) \cap Low(upstream, Passed) = Low(upstream, Passed)
      BY <2>3
    <2> QED
      BY <2>2, <2>4, <2>5, <2>6, FS_Difference DEF Rank
  <1>5. ASSUME NEW i \in upstream PROVE Rank(upstream, i) \in Nat
    BY <1>1, RankIsNat
  <1> QED
    BY <1>1, <1>2, <1>3, <1>4, <1>5

LEMMA DisjointCount ==
  ASSUME NEW S, NEW T, IsFiniteSet(S), IsFiniteSet(T), S \cap T = {}
  PROVE  Cardinality(S \cup T) = Cardinality(S) + Cardinality(T)
  <1>1. Cardinality(S \cup T) = Cardinality(S) + Cardinality(T) - Cardinality(S \cap T)
    BY FS_Union
  <1>2. Cardinality(S \cap T) = 0
    BY FS_EmptySet
  <1>3. Cardinality(S) \in Nat /\ Cardinality(T) \in Nat
    BY FS_CardinalityType
  <1> QED
    BY <1>1, <1>2, <1>3

\* After a short page there is nothing.
LEMMA ShortIsLast ==
  ASSUME TypeOK, kind \in Counted, Passed \in Nat, Cardinality(Page) < Limit[kind],
         NEW i \in upstream, Rank(upstream, i) > Passed
  PROVE  i \in Page
  <1> DEFINE n == Passed + Limit[kind]
  <1>1. upstream \subseteq Item /\ Limit[kind] \in Nat /\ n \in Nat
    BY WalkAssumption DEF TypeOK
  <1>2. /\ Rank(upstream, i) \in Nat
        /\ \A j \in upstream : Rank(upstream, j) \in Nat
    BY <1>1, RankIsNat
  <1>3. CASE Rank(upstream, i) <= n
    BY <1>3, PageByRank
  <1>4. CASE Rank(upstream, i) > n
    <2>1. Cardinality(Low(upstream, n)) = n
      BY <1>1, <1>4, LowFull
    <2>2. /\ IsFiniteSet(Low(upstream, Passed))
          /\ Cardinality(Low(upstream, Passed)) \in Nat
          /\ Cardinality(Low(upstream, Passed)) <= Passed
      BY <1>1, LowCount
    <2>3. IsFiniteSet(Page) /\ Cardinality(Page) \in Nat
      BY <1>1, PageOfRows, RowsFinite
    <2>4. Low(upstream, n) = Low(upstream, Passed) \cup Page
      BY <1>1, <1>2, PageByRank DEF Low
    <2>5. Low(upstream, Passed) \cap Page = {}
      BY <1>2, PageByRank DEF Low
    <2>6. Cardinality(Low(upstream, n)) = Cardinality(Low(upstream, Passed)) + Cardinality(Page)
      <3>1. Cardinality(Low(upstream, Passed) \cup Page)
                = Cardinality(Low(upstream, Passed)) + Cardinality(Page)
        BY <2>2, <2>3, <2>5, DisjointCount
      <3> QED
        BY <2>4, <3>1, Zenon
    <2> QED
      BY <1>1, <2>1, <2>2, <2>3, <2>6
  <1> QED
    BY <1>1, <1>2, <1>3, <1>4

\* While none has come, what a counting walk has collected and is still listed is
\* among the rows it has passed; while none has gone, all it has passed is collected.
CountInv ==
    kind \in Counted =>
        /\ pc = "fetch" => Passed \in Nat
        /\ twice = {} \/ added
        /\ pc = "fetch" /\ ~added =>
            \A i \in collected \cap upstream : Rank(upstream, i) <= Passed
        /\ pc = "fetch" /\ ~removed =>
            \A i \in kept : Rank(upstream, i) <= Passed => i \in collected
        /\ pc \in {"deliver", "done"} => kept \subseteq collected \/ removed
        /\ pc = "done" => emitted = collected \ Malformed

LEMMA PageKeepsCount ==
  ASSUME WalkInv, CountInv, CountedPage
  PROVE  CountInv'
  <1>1. /\ Request /\ kind \in Counted /\ pc = "fetch" /\ Passed \in Nat /\ TypeOK
        /\ Limit[kind] \in Nat
    BY WalkAssumption DEF CountedPage, Request, CountInv, WalkInv, TypeOK
  <1>2. /\ kind' = kind /\ upstream' = upstream /\ kept' = kept
        /\ removed' = removed /\ added' = added
        /\ collected' = collected \cup Page
        /\ twice' = twice \cup (collected \cap Page)
    BY <1>1, RequestType DEF Request
  <1>3. Page \subseteq upstream /\ kept \subseteq upstream /\ upstream \subseteq Item
    BY <1>1, PageOfRows DEF TypeOK
  <1>4. \A i \in upstream : Rank(upstream, i) \in Nat
    BY <1>3, RankIsNat
  <1>5. \A i \in upstream : i \in Page <=> /\ Passed < Rank(upstream, i)
                                           /\ Rank(upstream, i) <= Passed + Limit[kind]
    BY <1>1, PageByRank
  <1>6. twice' = {} \/ added'
    <2> SUFFICES ASSUME ~added PROVE twice' = {}
      BY <1>2
    <2>1. collected \cap Page = {}
      BY <1>1, <1>3, <1>4, <1>5 DEF CountInv
    <2> QED
      BY <1>1, <1>2, <2>1 DEF CountInv
  <1>7. CASE Cardinality(Page) < Limit[kind]
    <2>1. pc' = "deliver"
      BY <1>7 DEF CountedPage, Stop
    <2>2. ASSUME ~removed, NEW i \in kept PROVE i \in collected'
      <3>1. CASE Rank(upstream, i) <= Passed
        BY <1>1, <1>2, <2>2, <3>1 DEF CountInv
      <3>2. CASE Rank(upstream, i) > Passed
        BY <1>1, <1>2, <1>3, <1>7, <3>2, ShortIsLast
      <3> QED
        BY <1>1, <1>3, <1>4, <3>1, <3>2
    <2> QED
      BY <1>2, <1>6, <2>1, <2>2 DEF CountInv
  <1>8. CASE ~(Cardinality(Page) < Limit[kind])
    <2>1. pc' = "fetch" /\ at' = IF kind = "offset" THEN at + Limit[kind] ELSE at + 1
      BY <1>8 DEF CountedPage
    <2>2. Passed' = Passed + Limit[kind]
      <3>1. CASE kind = "offset"
        BY <1>2, <2>1, <3>1 DEF Passed
      <3>2. CASE kind = "number"
        <4>1. at' = at + 1 /\ at \in Nat /\ Limit[kind]' = Limit[kind]
          BY <1>1, <1>2, <2>1, <3>2 DEF TypeOK
        <4>2. \A k \in Nat, l \in Nat : ((k + 1) - 1) * l = (k - 1) * l + l
          OBVIOUS
        <4> QED
          BY <1>1, <1>2, <3>2, <4>1, <4>2 DEF Passed
      <3> QED
        BY <1>1, <3>1, <3>2 DEF Counted
    <2>3. ASSUME ~added, NEW i \in collected' \cap upstream
          PROVE  Rank(upstream, i) <= Passed'
      <3>1. CASE i \in collected
        <4>1. Rank(upstream, i) <= Passed
          BY <1>1, <2>3, <3>1 DEF CountInv
        <4> QED
          BY <1>1, <1>4, <2>2, <4>1
      <3>2. CASE i \in Page
        BY <1>5, <2>2, <3>2
      <3> QED
        BY <1>2, <3>1, <3>2
    <2>4. ASSUME ~removed, NEW i \in kept, Rank(upstream, i) <= Passed'
          PROVE  i \in collected'
      <3>1. CASE Rank(upstream, i) <= Passed
        BY <1>1, <1>2, <2>4, <3>1 DEF CountInv
      <3>2. CASE Rank(upstream, i) > Passed
        BY <1>2, <1>3, <1>5, <2>2, <2>4, <3>2
      <3> QED
        BY <1>1, <1>3, <1>4, <3>1, <3>2
    <2>5. Passed' \in Nat
      BY <1>1, <2>2
    <2>6. ASSUME NEW i PROVE Rank(upstream, i)' = Rank(upstream, i)
      BY <1>2 DEF Rank, Upto
    <2> QED
      BY <1>2, <1>6, <2>1, <2>3, <2>4, <2>5, <2>6 DEF CountInv
  <1> QED
    BY <1>7, <1>8

\* A row that comes raises ranks, one that goes lowers them.
LEMMA ListingKeepsCount ==
  ASSUME WalkInv, CountInv, NEW n \in Item, Appear(n) \/ Vanish(n)
  PROVE  CountInv'
  <1>1. /\ pc = "fetch" /\ upstream \subseteq Item /\ kept \subseteq upstream
        /\ UNCHANGED <<kind, pc, at, collected, twice, emitted>>
    BY DEF Appear, Vanish, WalkInv, TypeOK, walk
  <1>2. Passed' = Passed
    BY <1>1 DEF Passed
  <1>3. upstream' \subseteq Item
    BY <1>1 DEF Appear, Vanish
  <1>4. \A i : Rank(upstream, i) \in Nat /\ Rank(upstream', i) \in Nat
    BY <1>1, <1>3, RankIsNat
  <1>5. CASE Appear(n)
    <2>1. upstream \subseteq upstream' /\ added' /\ removed' = removed /\ kept' = kept
      BY <1>5 DEF Appear
    <2>2. \A i : Rank(upstream, i) <= Rank(upstream', i)
      BY <1>3, <2>1, RankOfMore
    <2> QED
      BY <1>1, <1>2, <1>4, <2>1, <2>2 DEF CountInv
  <1>6. CASE Vanish(n)
    <2>1. upstream' \subseteq upstream /\ removed' /\ added' = added
      BY <1>6 DEF Vanish
    <2>2. \A i : Rank(upstream', i) <= Rank(upstream, i)
      BY <1>1, <2>1, RankOfMore
    <2> QED
      BY <1>1, <1>2, <1>4, <2>1, <2>2 DEF CountInv
  <1> QED
    BY <1>5, <1>6

\* At its start a walk has passed nothing, and no row has rank 0.
LEMMA StartKeepsCount ==
  ASSUME WalkInv, NEW k \in Kinds, Start(k)
  PROVE  CountInv'
  <1>1. /\ upstream' = upstream /\ upstream \subseteq Item /\ kept' = upstream
        /\ collected' = {} /\ twice' = {} /\ pc' = "fetch" /\ kind' = k
    BY DEF WalkInv, TypeOK, Clean, Start
  <1>2. ASSUME k \in Counted PROVE Passed' = 0
    <2>1. Limit[k] \in Nat
      BY WalkAssumption
    <2>2. \A l \in Nat : (1 - 1) * l = 0
      OBVIOUS
    <2> QED
      BY <1>1, <1>2, <2>1, <2>2 DEF Start, Passed, Counted
  <1>3. \A i \in upstream : Rank(upstream, i) >= 1 /\ Rank(upstream, i) \in Nat
    BY <1>1, RankPositive, RankIsNat
  <1> QED
    BY <1>1, <1>2, <1>3 DEF CountInv

LEMMA StepKeepsCount ==
  ASSUME WalkInv, CountInv, [Next]_vars
  PROVE  CountInv'
  <1>1. CASE TooManyPages \/ FetchFails \/ PageRefused
    BY <1>1 DEF TooManyPages, FetchFails, PageRefused, Fail, listing, CountInv
  <1>2. ASSUME NEW token \in Tokens, SinglePage \/ TokenPage(token) \/ CursorPage(token)
        PROVE  CountInv'
    <2>1. kind \notin Counted /\ Request
      BY <1>2 DEF SinglePage, TokenPage, CursorPage, Counted
    <2> QED
      BY <2>1, RequestType DEF CountInv
  <1>3. CASE Deliver
    BY <1>3 DEF Deliver, listing, CountInv
  <1>4. CASE Return
    BY <1>4 DEF Return, Counted, CountInv
  <1>5. CASE UNCHANGED vars
    <2>1. Passed' = Passed
      BY <1>5 DEF vars, walk, listing, Passed
    <2> QED
      BY <1>5, <2>1 DEF vars, walk, listing, CountInv, Rank, Upto
  <1>6. None \in Tokens
    BY DEF Tokens
  <1> QED
    BY <1>1, <1>2, <1>3, <1>4, <1>5, <1>6, PageKeepsCount, ListingKeepsCount, StartKeepsCount
       DEF Next, WalkStep

\* A walk that counts sees every row once as long as no row comes before it or goes:
\* whatever came, it misses none that stayed, and whatever went, it repeats none
\* (OffsetPager, PageNumberPager).
THEOREM CountingWalks == Spec => []CountsOnceEach
  <1>1. Init => WalkInv /\ CountInv
    BY InitHolds DEF Init, CountInv, Counted
  <1>2. WalkInv /\ CountInv /\ [Next]_vars => WalkInv' /\ CountInv'
    BY StepKeeps, StepKeepsCount
  <1>3. CountInv => CountsOnceEach
    BY DEF CountInv, CountsOnceEach
  <1> QED
    BY <1>1, <1>2, <1>3, PTL DEF Spec
==============================================================================
