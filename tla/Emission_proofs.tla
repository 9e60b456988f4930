--------------------------- MODULE Emission_proofs ---------------------------
(***************************************************************************)
(* What the emission side does on any input, where the run evaluates it on *)
(* the inputs of its cases: the redactor on any text, the heuristics on    *)
(* any signals, normalize on any batch, the conformance harness on any     *)
(* entry, and the trace of any one observation.  Operations_proofs states  *)
(* the properties of the run as consequences.                              *)
(*                                                                         *)
(* A pass of the redactor is described position by position (...At), and   *)
(* the passes compose; a list that is filtered or cut is described by the  *)
(* positions that are kept (Rank, Nth, Part).  Neither needs an induction. *)
(***************************************************************************)
EXTENDS MCEmissionCases, FiniteSetTheorems, SequenceTheorems, WellFoundedInduction, TLAPS

Marks == { "[secret]", "pem/body", "[phi]", "gone", "phone/cut", "[pan]", "[email]",
           "secret/cut", "[phone]", "card/cut" }

\* What a text may consist of on its way through the passes.
Spans == Tokens \cup Marks

\* A sequence made by concatenation with the empty one, element by element.
LEMMA Made ==
  ASSUME NEW S, NEW n \in Nat, NEW f \in [1..n -> S]
  PROVE  <<>> \o f \in Seq(S) /\ Len(<<>> \o f) = n /\ \A i \in 1..n : (<<>> \o f)[i] = f[i]
  <1>1. f \in Seq(S)
    OBVIOUS
  <1>2. <<>> \o f = f /\ Len(f) = n
    BY <1>1, ConcatEmptySeq
  <1> QED
    BY <1>1, <1>2

\* A pass that replaces one token by one (Substitute), position by position.
LEMMA Substituted ==
  ASSUME NEW text \in Seq(Spans), NEW by, \A t \in DOMAIN by : by[t] \in Spans
  PROVE  /\ Substitute(text, by) \in Seq(Spans)
         /\ Len(Substitute(text, by)) = Len(text)
         /\ \A i \in 1..Len(text) :
                Substitute(text, by)[i] = IF text[i] \in DOMAIN by THEN by[text[i]] ELSE text[i]
  <1> DEFINE f == [i \in 1..Len(text) |-> IF text[i] \in DOMAIN by THEN by[text[i]] ELSE text[i]]
  <1>1. Substitute(text, by) = <<>> \o f
    BY DEF Substitute, Rewritten
  <1>2. f \in [1..Len(text) -> Spans]
    OBVIOUS
  <1>3. \A i \in 1..Len(text) : f[i] = IF text[i] \in DOMAIN by THEN by[text[i]] ELSE text[i]
    OBVIOUS
  <1> HIDE DEF f
  <1> QED
    BY <1>1, <1>2, <1>3, Made

\* The pass for keys replaces each key, and the first line of a private key.
LEMMA SecretPasses ==
  ASSUME NEW text \in Seq(Spans)
  PROVE  /\ SecretPass(text) \in Seq(Spans)
         /\ Len(SecretPass(text)) = Len(text)
         /\ \A i \in 1..Len(text) :
                SecretPass(text)[i] = IF text[i] = "secret" THEN "[secret]"
                                      ELSE IF text[i] = "pem" THEN "pem/body" ELSE text[i]
  <1> DEFINE by == [secret |-> "[secret]", pem |-> "pem/body"]
  <1>1. /\ DOMAIN by = {"secret", "pem"}
        /\ by["secret"] = "[secret]" /\ by["pem"] = "pem/body"
    OBVIOUS
  <1>2. SecretPass(text) = Substitute(text, by)
    BY DEF SecretPass
  <1>3. \A t \in DOMAIN by : by[t] \in Spans
    BY <1>1 DEF Spans, Marks
  <1> HIDE DEF by
  <1> QED
    BY <1>1, <1>2, <1>3, Substituted

\* The labels from m to i have no label before them.
Starts(text, m, i) ==
    /\ \A j \in m..i : text[j] = "phi:"
    /\ m = 1 \/ text[m - 1] # "phi:"

\* Before every label the run of labels it belongs to has a first one.
LEMMA RunStarts ==
  ASSUME NEW text \in Seq(Spans), NEW i \in 1..Len(text), text[i] = "phi:"
  PROVE  \E m \in 1..i : Starts(text, m, i)
  <1> DEFINE starts == {m \in 1..i : \A j \in m..i : text[j] = "phi:"}
  <1>1. i \in starts /\ starts \subseteq Nat
    OBVIOUS
  <1>2. PICK m \in starts : \A k \in starts : ~(<<k, m>> \in OpToRel(<, Nat))
    BY <1>1, NatLessThanWellFounded, WFMin
  <1>3. \A k \in starts : ~(k < m)
    BY <1>1, <1>2 DEF OpToRel
  <1>4. ASSUME m # 1, text[m - 1] = "phi:" PROVE FALSE
    <2>1. m - 1 \in starts
      BY <1>4
    <2> QED
      BY <1>3, <2>1
  <1> QED
    BY <1>4 DEF Starts

\* The positions in Labels hold labels, and every other label is the value of one.
LEMMA Labelled ==
  ASSUME NEW text \in Seq(Spans)
  PROVE  /\ \A i \in Labels(text) : i \in 1..Len(text) /\ text[i] = "phi:"
         /\ \A i \in 1..Len(text) :
                text[i] = "phi:" => i \in Labels(text) \/ (i - 1) \in Labels(text)
  <1>1. ASSUME NEW i \in Labels(text) PROVE i \in 1..Len(text) /\ text[i] = "phi:"
    BY DEF Labels
  <1>2. ASSUME NEW i \in 1..Len(text), text[i] = "phi:"
        PROVE  i \in Labels(text) \/ (i - 1) \in Labels(text)
    <2>1. PICK m \in 1..i : Starts(text, m, i)
      BY <1>2, RunStarts
    <2> DEFINE d == i - m
    <2>2. d \in 0..(i - 1) /\ i - d = m /\ (d + 1 = i <=> m = 1)
      OBVIOUS
    <2>3. CASE d % 2 = 0
      <3>1. /\ \A j \in (i - d)..i : text[j] = "phi:"
            /\ d + 1 = i \/ text[i - d - 1] # "phi:"
        BY <2>1, <2>2 DEF Starts
      <3> HIDE DEF d
      <3> QED
        BY <2>2, <2>3, <3>1 DEF Labels
    <2>4. CASE d % 2 # 0
      <3> DEFINE e == d - 1
                 k == i - 1
      <3>1. e % 2 = 0 /\ e \in 0..(k - 1) /\ k - e = m /\ (e + 1 = k <=> m = 1) /\ k \in 1..Len(text)
        BY <2>2, <2>4
      <3>2. /\ \A j \in (k - e)..k : text[j] = "phi:"
            /\ e + 1 = k \/ text[k - e - 1] # "phi:"
        BY <2>1, <3>1 DEF Starts
      <3> HIDE DEF e, k
      <3>3. k \in Labels(text)
        BY <3>1, <3>2 DEF Labels
      <3> QED
        BY <3>3 DEF k
    <2> QED
      BY <2>3, <2>4
  <1> QED
    BY <1>1, <1>2

\* The pass for health data replaces numbers, and values that follow a label.
LEMMA PhiPasses ==
  ASSUME NEW text \in Seq(Spans)
  PROVE  /\ PhiPass(text) \in Seq(Spans)
         /\ Len(PhiPass(text)) = Len(text)
         /\ \A i \in 1..Len(text) :
             /\ text[i] = "mrn" => PhiPass(text)[i] = "[phi]"
             /\ text[i] = "phi:" => PhiPass(text)[i] \in {"[phi]", "gone"}
             /\ text[i] \notin {"mrn", "phi:"} =>
                    \/ PhiPass(text)[i] = text[i]
                    \/ /\ Before(text, i) = "phi:" /\ text[i] \in DOMAIN PhiValue
                       /\ PhiPass(text)[i] = PhiValue[text[i]]
  <1> DEFINE noMrn == Substitute(text, [mrn |-> "[phi]"])
             labels == Labels(noMrn)
             at(i) == IF i \in labels THEN "[phi]"
                      ELSE IF (i - 1) \in labels /\ noMrn[i] \in DOMAIN PhiValue
                           THEN PhiValue[noMrn[i]] ELSE noMrn[i]
             f == [i \in 1..Len(noMrn) |-> at(i)]
  <1>1. /\ noMrn \in Seq(Spans) /\ Len(noMrn) = Len(text)
        /\ \A i \in 1..Len(text) : noMrn[i] = IF text[i] = "mrn" THEN "[phi]" ELSE text[i]
    <2> DEFINE by == [mrn |-> "[phi]"]
    <2>1. DOMAIN by = {"mrn"} /\ by["mrn"] = "[phi]"
      OBVIOUS
    <2>2. \A t \in DOMAIN by : by[t] \in Spans
      BY <2>1 DEF Spans, Marks
    <2> HIDE DEF by
    <2>3. /\ Substitute(text, by) \in Seq(Spans)
          /\ Len(Substitute(text, by)) = Len(text)
          /\ \A i \in 1..Len(text) :
                Substitute(text, by)[i] = IF text[i] \in DOMAIN by THEN by[text[i]] ELSE text[i]
      BY <2>2, Substituted
    <2>4. noMrn = Substitute(text, by)
      BY DEF by
    <2> HIDE DEF noMrn
    <2> QED
      BY <2>1, <2>3, <2>4
  <1>2. PhiPass(text) = <<>> \o f
    BY <1>1 DEF PhiPass, Rewritten
  <1> HIDE DEF noMrn
  <1>3. /\ \A i \in labels : i \in 1..Len(noMrn) /\ noMrn[i] = "phi:"
        /\ \A i \in 1..Len(noMrn) : noMrn[i] = "phi:" => i \in labels \/ (i - 1) \in labels
    BY <1>1, Labelled
  <1> HIDE DEF labels
  <1>4. \A t \in DOMAIN PhiValue : PhiValue[t] \in {"gone", "phone/cut"}
    BY DEF PhiValue
  <1>5. \A i \in 1..Len(noMrn) : at(i) \in Spans
    BY <1>1, <1>4 DEF Spans, Marks
  <1>6. f \in [1..Len(noMrn) -> Spans] /\ \A i \in 1..Len(noMrn) : f[i] = at(i)
    BY <1>5
  <1>7. /\ PhiPass(text) \in Seq(Spans) /\ Len(PhiPass(text)) = Len(text)
        /\ \A i \in 1..Len(text) : PhiPass(text)[i] = at(i)
    <2> HIDE DEF f
    <2> QED
      BY <1>1, <1>2, <1>6, Made
  <1>8. /\ {"phi:", "email", "phone"} \subseteq DOMAIN PhiValue
        /\ PhiValue["phi:"] = "gone"
    BY DEF PhiValue
  <1>9. ASSUME NEW i \in 1..Len(text), text[i] = "mrn" PROVE at(i) = "[phi]"
    <2>1. noMrn[i] = "[phi]" /\ "[phi]" \notin DOMAIN PhiValue
      BY <1>1, <1>9 DEF PhiValue, Words
    <2> QED
      BY <1>3, <2>1
  <1>10. ASSUME NEW i \in 1..Len(text), text[i] = "phi:" PROVE at(i) \in {"[phi]", "gone"}
    BY <1>1, <1>3, <1>8, <1>10
  <1>11. ASSUME NEW i \in 1..Len(text), text[i] \notin {"mrn", "phi:"}
         PROVE  \/ at(i) = text[i]
                \/ /\ Before(text, i) = "phi:" /\ text[i] \in DOMAIN PhiValue
                   /\ at(i) = PhiValue[text[i]]
    <2>1. noMrn[i] = text[i] /\ i \notin labels
      BY <1>1, <1>3, <1>11
    <2>2. CASE (i - 1) \in labels /\ noMrn[i] \in DOMAIN PhiValue
      <3>1. i - 1 \in 1..Len(text) /\ noMrn[i - 1] = "phi:"
        BY <1>1, <1>3, <2>2
      <3>2. Before(text, i) = "phi:"
        BY <1>1, <3>1 DEF Before
      <3> QED
        BY <2>1, <2>2, <3>2
    <2>3. CASE ~((i - 1) \in labels /\ noMrn[i] \in DOMAIN PhiValue)
      BY <2>1, <2>3
    <2> QED
      BY <2>2, <2>3
  <1> HIDE DEF at, f
  <1> QED
    BY <1>7, <1>9, <1>10, <1>11

\* The pass for card numbers replaces the card numbers.
LEMMA Pans ==
  ASSUME NEW text \in Seq(Spans)
  PROVE  /\ PanPass(text) \in Seq(Spans)
         /\ Len(PanPass(text)) = Len(text)
         /\ \A i \in 1..Len(text) :
                PanPass(text)[i] = IF IsPan(text, i) THEN "[pan]" ELSE text[i]
  <1> DEFINE at(i) == IF IsPan(text, i) THEN "[pan]" ELSE text[i]
             f == [i \in 1..Len(text) |-> at(i)]
  <1>1. PanPass(text) = <<>> \o f
    BY DEF PanPass, Rewritten
  <1>2. f \in [1..Len(text) -> Spans] /\ \A i \in 1..Len(text) : f[i] = at(i)
    BY DEF Spans, Marks
  <1> HIDE DEF f
  <1> QED
    BY <1>1, <1>2, Made

\* What is left where of a text by the catalog.
CatalogAt(text, left, i) ==
    /\ left[i] \notin {"secret", "pem", "mrn", "phi:"}
    /\ left[i] \in Cards => Before(left, i) = "id:"
    /\ text[i] = "secret" => left[i] = "[secret]"
    /\ text[i] = "pem" => left[i] = "pem/body"
    /\ text[i] = "mrn" => left[i] = "[phi]"
    /\ text[i] = "phi:" => left[i] \in {"[phi]", "gone"}
    /\ IsPan(text, i) => left[i] \in {"[pan]", "gone"}
    /\ text[i] \notin {"secret", "pem", "mrn", "phi:"} =>
          \/ left[i] = text[i]
          \/ left[i] = "[pan]" /\ text[i] \in Cards /\ Before(left, i) # "id:"
          \/ /\ Before(text, i) = "phi:" /\ text[i] \in DOMAIN PhiValue
             /\ left[i] = IF text[i] = "phone" THEN "phone/cut" ELSE "gone"

\* redact_catalog, position by position.
LEMMA CatalogIs ==
  ASSUME NEW text \in Seq(Spans)
  PROVE  /\ RedactCatalog(text) \in Seq(Spans)
         /\ Len(RedactCatalog(text)) = Len(text)
         /\ \A i \in 1..Len(text) : CatalogAt(text, RedactCatalog(text), i)
  <1> DEFINE s == SecretPass(text)
             p == PhiPass(s)
             c == PanPass(p)
  <1>1. RedactCatalog(text) = c
    BY DEF RedactCatalog
  <1>2. /\ s \in Seq(Spans) /\ Len(s) = Len(text)
        /\ \A i \in 1..Len(text) : s[i] = IF text[i] = "secret" THEN "[secret]"
                                      ELSE IF text[i] = "pem" THEN "pem/body" ELSE text[i]
    BY SecretPasses
  <1> HIDE DEF s
  <1>3. /\ p \in Seq(Spans) /\ Len(p) = Len(text)
        /\ \A i \in 1..Len(text) :
             /\ s[i] = "mrn" => p[i] = "[phi]"
             /\ s[i] = "phi:" => p[i] \in {"[phi]", "gone"}
             /\ s[i] \notin {"mrn", "phi:"} =>
                    \/ p[i] = s[i]
                    \/ /\ Before(s, i) = "phi:" /\ s[i] \in DOMAIN PhiValue
                       /\ p[i] = PhiValue[s[i]]
    BY <1>2, PhiPasses
  <1> HIDE DEF p
  <1>4. /\ c \in Seq(Spans) /\ Len(c) = Len(text)
        /\ \A i \in 1..Len(text) : c[i] = IF IsPan(p, i) THEN "[pan]" ELSE p[i]
    BY <1>3, Pans
  <1> HIDE DEF c
  <1>5. /\ \A t \in DOMAIN PhiValue : PhiValue[t] = IF t = "phone" THEN "phone/cut" ELSE "gone"
        /\ "[secret]" \notin DOMAIN PhiValue /\ "pem/body" \notin DOMAIN PhiValue
    BY DEF PhiValue, Words
  <1>6. ASSUME NEW i \in 1..Len(text) PROVE CatalogAt(text, c, i)
    <2>1. /\ i = 1 => Before(text, i) = "" /\ Before(s, i) = "" /\ Before(p, i) = "" /\ Before(c, i) = ""
          /\ i # 1 => /\ i - 1 \in 1..Len(text)
                      /\ Before(text, i) = text[i - 1] /\ Before(s, i) = s[i - 1]
                      /\ Before(p, i) = p[i - 1] /\ Before(c, i) = c[i - 1]
      <3>1. i # 1 => i - 1 \in 1..Len(text)
        OBVIOUS
      <3> QED
        BY <3>1 DEF Before
    <2>2. p[i] \notin {"secret", "pem", "mrn", "phi:"}
      BY <1>2, <1>3, <1>5
    <2>3. c[i] \notin {"secret", "pem", "mrn", "phi:"}
      BY <1>4, <2>2
    <2>4. c[i] \in Cards => Before(c, i) = "id:"
      <3>1. Before(p, i) = "id:" => Before(c, i) = "id:"
        BY <1>4, <2>1 DEF IsPan, Cards
      <3> QED
        BY <1>4, <3>1 DEF IsPan, Cards
    <2>5. text[i] = "secret" => c[i] = "[secret]"
      <3>1. text[i] = "secret" => p[i] = "[secret]"
        BY <1>2, <1>3, <1>5
      <3> QED
        BY <1>4, <3>1 DEF IsPan, Cards
    <2>6. text[i] = "pem" => c[i] = "pem/body"
      <3>1. text[i] = "pem" => p[i] = "pem/body"
        BY <1>2, <1>3, <1>5
      <3> QED
        BY <1>4, <3>1 DEF IsPan, Cards
    <2>7. text[i] = "mrn" => c[i] = "[phi]"
      <3>1. text[i] = "mrn" => p[i] = "[phi]"
        BY <1>2, <1>3
      <3> QED
        BY <1>4, <3>1 DEF IsPan, Cards
    <2>8. text[i] = "phi:" => c[i] \in {"[phi]", "gone"}
      <3>1. text[i] = "phi:" => p[i] \in {"[phi]", "gone"}
        BY <1>2, <1>3
      <3> QED
        BY <1>4, <3>1 DEF IsPan, Cards
    <2>9. Before(s, i) = "phi:" <=> Before(text, i) = "phi:"
      BY <1>2, <2>1
    <2>10. text[i] \notin {"secret", "pem", "mrn", "phi:"} =>
              \/ p[i] = text[i]
              \/ /\ Before(text, i) = "phi:" /\ text[i] \in DOMAIN PhiValue
                 /\ p[i] = IF text[i] = "phone" THEN "phone/cut" ELSE "gone"
      BY <1>2, <1>3, <1>5, <2>9
    <2>11. text[i] \notin {"secret", "pem", "mrn", "phi:"} =>
              \/ c[i] = text[i]
              \/ c[i] = "[pan]" /\ text[i] \in Cards /\ Before(c, i) # "id:"
              \/ /\ Before(text, i) = "phi:" /\ text[i] \in DOMAIN PhiValue
                 /\ c[i] = IF text[i] = "phone" THEN "phone/cut" ELSE "gone"
      <3>1. IsPan(p, i) => p[i] \in Cards
        BY DEF IsPan
      <3>2. "gone" \notin Cards /\ "phone/cut" \notin Cards
        BY DEF Cards
      <3>3. IsPan(p, i) => Before(c, i) # "id:"
        <4>1. IsPan(p, i) => Before(p, i) # "id:"
          BY DEF IsPan
        <4> QED
          BY <1>4, <2>1, <4>1
      <3> QED
        BY <1>4, <2>10, <3>1, <3>2, <3>3
    <2>12. IsPan(text, i) => c[i] \in {"[pan]", "gone"}
      <3>1. Before(p, i) = "id:" => Before(text, i) = "id:"
        BY <1>2, <1>3, <1>5, <2>1
      <3>2. IsPan(text, i) /\ p[i] = text[i] => IsPan(p, i)
        BY <3>1 DEF IsPan
      <3>3. IsPan(text, i) => /\ text[i] \notin {"secret", "pem", "mrn", "phi:"}
                             /\ text[i] # "phone"
        BY DEF IsPan, Cards
      <3>4. CASE p[i] = text[i]
        BY <1>4, <3>2, <3>4
      <3>5. CASE p[i] # text[i]
        <4>1. IsPan(text, i) => p[i] = "gone"
          BY <2>10, <3>3, <3>5
        <4> QED
          BY <1>4, <4>1
      <3> QED
        BY <3>4, <3>5
    <2> QED
      BY <2>3, <2>4, <2>5, <2>6, <2>7, <2>8, <2>11, <2>12 DEF CatalogAt
  <1> QED
    BY <1>1, <1>4, <1>6

\* The catalog leaves alone what it does not know.
LEMMA CatalogIdle ==
  ASSUME NEW text \in Seq(Spans), DetectSensitive(text) = {}
  PROVE  RedactCatalog(text) = text
  <1>1. /\ RedactCatalog(text) \in Seq(Spans)
        /\ Len(RedactCatalog(text)) = Len(text)
        /\ \A i \in 1..Len(text) : CatalogAt(text, RedactCatalog(text), i)
    BY CatalogIs
  <1>2. ASSUME NEW i \in 1..Len(text) PROVE RedactCatalog(text)[i] = text[i]
    <2>1. \A j \in 1..Len(text) : text[j] \notin {"secret", "pem", "mrn", "phi:"} /\ ~IsPan(text, j)
      BY DEF DetectSensitive
    <2>2. \/ Before(text, i) = "" /\ Before(RedactCatalog(text), i) = ""
          \/ /\ i - 1 \in 1..Len(text) /\ Before(text, i) = text[i - 1]
             /\ Before(RedactCatalog(text), i) = RedactCatalog(text)[i - 1]
      <3>1. i # 1 => i - 1 \in 1..Len(text)
        OBVIOUS
      <3> QED
        BY <3>1 DEF Before
    <2>3. Before(text, i) # "phi:"
      BY <2>1, <2>2
    <2>4. \/ RedactCatalog(text)[i] = text[i]
          \/ text[i] \in Cards /\ Before(RedactCatalog(text), i) # "id:"
      BY <1>1, <2>1, <2>3 DEF CatalogAt
    <2>5. text[i] \in Cards => Before(text, i) = "id:"
      BY <2>1 DEF IsPan
    <2>6. Before(text, i) = "id:" => Before(RedactCatalog(text), i) = "id:"
      <3> SUFFICES ASSUME i - 1 \in 1..Len(text), text[i - 1] = "id:"
                   PROVE  RedactCatalog(text)[i - 1] = "id:"
        BY <2>2
      <3>1. Before(text, i - 1) # "phi:"
        <4>1. i - 1 # 1 => i - 1 - 1 \in 1..Len(text)
          OBVIOUS
        <4> QED
          BY <2>1, <4>1 DEF Before
      <3> QED
        BY <1>1, <3>1 DEF CatalogAt, Cards
    <2> QED
      BY <2>4, <2>5, <2>6
  <1> QED
    BY <1>1, <1>2, SeqEqual

\* The pass for addresses.
LEMMA Emails ==
  ASSUME NEW text \in Seq(Spans)
  PROVE  /\ EmailPass(text) \in Seq(Spans)
         /\ Len(EmailPass(text)) = Len(text)
         /\ \A i \in 1..Len(text) :
                EmailPass(text)[i] = IF text[i] = "email" THEN "[email]" ELSE text[i]
  <1> DEFINE by == [email |-> "[email]"]
  <1>1. DOMAIN by = {"email"} /\ by["email"] = "[email]"
    OBVIOUS
  <1>2. EmailPass(text) = Substitute(text, by)
    BY DEF EmailPass
  <1>3. \A t \in DOMAIN by : by[t] \in Spans
    BY <1>1 DEF Spans, Marks
  <1> HIDE DEF by
  <1> QED
    BY <1>1, <1>2, <1>3, Substituted

\* The pass for telephone numbers: what is one, and what it cuts in two.
LEMMA Phones ==
  ASSUME NEW text \in Seq(Spans)
  PROVE  /\ PhonePass(text) \in Seq(Spans)
         /\ Len(PhonePass(text)) = Len(text)
         /\ \A i \in 1..Len(text) :
                PhonePass(text)[i] = IF text[i] = "secret" THEN "secret/cut"
                                     ELSE IF text[i] \in {"phone", "+phone", "card13"}
                                     THEN "[phone]" ELSE text[i]
  <1> DEFINE by == [t \in {"phone", "+phone", "card13", "secret"}
                        |-> IF t = "secret" THEN "secret/cut" ELSE "[phone]"]
  <1>1. /\ DOMAIN by = {"phone", "+phone", "card13", "secret"}
        /\ \A t \in DOMAIN by : by[t] = IF t = "secret" THEN "secret/cut" ELSE "[phone]"
    OBVIOUS
  <1>2. PhonePass(text) = Substitute(text, by)
    BY DEF PhonePass
  <1>3. \A t \in DOMAIN by : by[t] \in Spans
    BY <1>1 DEF Spans, Marks
  <1> HIDE DEF by
  <1>4. /\ PhonePass(text) \in Seq(Spans)
        /\ Len(PhonePass(text)) = Len(text)
        /\ \A i \in 1..Len(text) :
               PhonePass(text)[i] = IF text[i] \in DOMAIN by THEN by[text[i]] ELSE text[i]
    BY <1>2, <1>3, Substituted
  <1> QED
    BY <1>1, <1>4

\* The pass for numbers that follow the word for a telephone.
LEMMA PhoneContexts ==
  ASSUME NEW text \in Seq(Spans)
  PROVE  /\ PhoneContextPass(text) \in Seq(Spans)
         /\ Len(PhoneContextPass(text)) = Len(text)
         /\ \A i \in 1..Len(text) :
                PhoneContextPass(text)[i] =
                    IF Before(text, i) = "tel:" /\ text[i] = "digits" THEN "[phone]"
                    ELSE IF Before(text, i) = "tel:" /\ text[i] = "card" THEN "card/cut"
                    ELSE text[i]
  <1> DEFINE at(i) == IF Before(text, i) = "tel:" /\ text[i] = "digits" THEN "[phone]"
                      ELSE IF Before(text, i) = "tel:" /\ text[i] = "card" THEN "card/cut"
                      ELSE text[i]
             case(i) == CASE Before(text, i) = "tel:" /\ text[i] = "digits" -> "[phone]"
                          [] Before(text, i) = "tel:" /\ text[i] = "card"   -> "card/cut"
                          [] OTHER -> text[i]
             f == [i \in 1..Len(text) |-> case(i)]
  <1>1. PhoneContextPass(text) = <<>> \o f
    BY DEF PhoneContextPass, Rewritten
  <1>2. \A i \in 1..Len(text) : case(i) = at(i)
    OBVIOUS
  <1> HIDE DEF case
  <1>3. f \in [1..Len(text) -> Spans] /\ \A i \in 1..Len(text) : f[i] = at(i)
    BY <1>2 DEF Spans, Marks
  <1> HIDE DEF f
  <1> QED
    BY <1>1, <1>3, Made

\* What becomes of a text the catalog has seen in the patterns for personal data.
BroadAt(c, b, i) ==
    b[i] = IF c[i] = "secret" THEN "secret/cut"
           ELSE IF c[i] = "email" THEN "[email]"
           ELSE IF c[i] \in {"phone", "+phone", "card13"} THEN "[phone]"
           ELSE IF Before(c, i) = "tel:" /\ c[i] = "digits" THEN "[phone]"
           ELSE IF Before(c, i) = "tel:" /\ c[i] = "card" THEN "card/cut"
           ELSE c[i]

\* The three broad passes one after the other, position by position.
LEMMA BroadIs ==
  ASSUME NEW c \in Seq(Spans)
  PROVE  LET b == PhoneContextPass(PhonePass(EmailPass(c))) IN
         b \in Seq(Spans) /\ Len(b) = Len(c) /\ \A i \in 1..Len(c) : BroadAt(c, b, i)
  <1> DEFINE e == EmailPass(c)
             p == PhonePass(e)
             b == PhoneContextPass(p)
  <1>1. /\ e \in Seq(Spans) /\ Len(e) = Len(c)
        /\ \A i \in 1..Len(c) : e[i] = IF c[i] = "email" THEN "[email]" ELSE c[i]
    BY Emails
  <1> HIDE DEF e
  <1>2. /\ p \in Seq(Spans) /\ Len(p) = Len(c)
        /\ \A i \in 1..Len(c) : p[i] = IF e[i] = "secret" THEN "secret/cut"
                                     ELSE IF e[i] \in {"phone", "+phone", "card13"}
                                     THEN "[phone]" ELSE e[i]
    BY <1>1, Phones
  <1> HIDE DEF p
  <1>3. /\ b \in Seq(Spans) /\ Len(b) = Len(c)
        /\ \A i \in 1..Len(c) : b[i] =
                    IF Before(p, i) = "tel:" /\ p[i] = "digits" THEN "[phone]"
                    ELSE IF Before(p, i) = "tel:" /\ p[i] = "card" THEN "card/cut"
                    ELSE p[i]
    BY <1>2, PhoneContexts
  <1> HIDE DEF b
  <1>4. ASSUME NEW i \in 1..Len(c) PROVE BroadAt(c, b, i)
    <2>1. Before(p, i) = "tel:" <=> Before(c, i) = "tel:"
      <3>1. i # 1 => i - 1 \in 1..Len(c)
        OBVIOUS
      <3> QED
        BY <1>1, <1>2, <3>1 DEF Before
    <2> QED
      BY <1>1, <1>2, <1>3, <2>1 DEF BroadAt
  <1> QED
    BY <1>3, <1>4 DEF b, p, e

\* redact, of any text: the catalog and the broad patterns once, and again for nothing.
LEMMA RedactIs ==
  ASSUME NEW text \in Seq(Spans)
  PROVE  LET c == RedactCatalog(text)
             b == PhoneContextPass(PhonePass(EmailPass(c)))
         IN /\ c \in Seq(Spans) /\ b \in Seq(Spans)
            /\ Len(c) = Len(text) /\ Len(b) = Len(text)
            /\ \A i \in 1..Len(text) : CatalogAt(text, c, i) /\ BroadAt(c, b, i)
            /\ DetectSensitive(b) = {} /\ Redact(text) = b
  <1> DEFINE c == RedactCatalog(text)
             b == PhoneContextPass(PhonePass(EmailPass(c)))
  <1>2. c \in Seq(Spans) /\ Len(c) = Len(text) /\ \A i \in 1..Len(text) : CatalogAt(text, c, i)
    BY CatalogIs
  <1>3. Redact(text) = RedactCatalog(b)
    BY DEF Redact
  <1> HIDE DEF c
  <1>4. b \in Seq(Spans) /\ Len(b) = Len(text) /\ \A i \in 1..Len(text) : BroadAt(c, b, i)
    BY <1>2, BroadIs
  <1> HIDE DEF b
  <1>5. ASSUME NEW i \in 1..Len(text)
        PROVE  b[i] \notin {"secret", "pem", "mrn", "phi:"} /\ ~IsPan(b, i)
    <2>1. b[i] \notin {"secret", "pem", "mrn", "phi:"}
      BY <1>2, <1>4 DEF CatalogAt, BroadAt
    <2>2. b[i] \in Cards => c[i] = "card"
      BY <1>4 DEF BroadAt, Cards
    <2>3. c[i] = "card" => Before(c, i) = "id:"
      BY <1>2 DEF CatalogAt, Cards
    <2>4. Before(c, i) = "id:" => Before(b, i) = "id:"
      <3>1. i # 1 => i - 1 \in 1..Len(text)
        OBVIOUS
      <3>2. CASE i # 1
        <4>1. c[i - 1] = "id:" => b[i - 1] = "id:"
          BY <1>4, <3>1, <3>2 DEF BroadAt
        <4> QED
          BY <3>2, <4>1 DEF Before
      <3> QED
        BY <3>2 DEF Before
    <2> QED
      BY <2>1, <2>2, <2>3, <2>4 DEF IsPan
  <1>6. DetectSensitive(b) = {}
    <2>1. DOMAIN b = 1..Len(text)
      BY <1>4
    <2> QED
      BY <1>5, <2>1 DEF DetectSensitive
  <1>7. Redact(text) = b
    BY <1>3, <1>4, <1>6, CatalogIdle
  <1> QED
    BY <1>2, <1>4, <1>6, <1>7 DEF b, c

\* Every text comes out clean, and as long as it was.
LEMMA CleanAfter ==
  ASSUME NEW text \in Seq(Spans)
  PROVE  /\ Redact(text) \in Seq(Spans) /\ Len(Redact(text)) = Len(text)
         /\ Clean(Redact(text))
  <1> DEFINE c == RedactCatalog(text)
             b == PhoneContextPass(PhonePass(EmailPass(c)))
             n == Len(text)
  <1>1. /\ b \in Seq(Spans) /\ Len(b) = n
        /\ \A i \in 1..n : CatalogAt(text, c, i) /\ BroadAt(c, b, i)
        /\ DetectSensitive(b) = {} /\ Redact(text) = b
    BY RedactIs
  <1> HIDE DEF c, b
  <1>2. \A i \in 1..n : b[i] \notin Personal
    BY <1>1 DEF CatalogAt, BroadAt, Personal
  <1> QED
    BY <1>1, <1>2 DEF Clean, Range

\* A text that no pass has touched.
LEMMA TextIsSpans ==
  ASSUME NEW text \in Seq(Tokens)
  PROVE  text \in Seq(Spans)
  BY DEF Spans

\* A text of which nothing is known is clean.
LEMMA CleanIs ==
  ASSUME NEW text \in Seq(Spans)
  PROVE  Clean(text) <=> \A i \in 1..Len(text) :
            /\ text[i] \notin {"secret", "pem", "mrn", "phi:"} \cup Personal
            /\ text[i] \in Cards => Before(text, i) = "id:"
  <1>1. DOMAIN text = 1..Len(text)
    OBVIOUS
  <1>2. DetectSensitive(text) = {} <=> \A i \in 1..Len(text) :
            /\ text[i] \notin {"secret", "pem", "mrn", "phi:"}
            /\ text[i] \in Cards => Before(text, i) = "id:"
    BY <1>1 DEF DetectSensitive, IsPan
  <1>3. Range(text) \cap Personal = {} <=> \A i \in 1..Len(text) : text[i] \notin Personal
    BY <1>1 DEF Range
  <1> QED
    BY <1>2, <1>3 DEF Clean

\* Two clean texts, one after the other, make a clean one.
LEMMA CleanConcat ==
  ASSUME NEW s \in Seq(Spans), NEW t \in Seq(Spans), Clean(s), Clean(t)
  PROVE  s \o t \in Seq(Spans) /\ Clean(s \o t)
  <1> DEFINE u == s \o t
  <1>1. /\ u \in Seq(Spans) /\ Len(u) = Len(s) + Len(t) /\ Len(s) \in Nat /\ Len(t) \in Nat
        /\ \A i \in 1..(Len(s) + Len(t)) : u[i] = IF i <= Len(s) THEN s[i] ELSE t[i - Len(s)]
    BY ConcatProperties
  <1>2. /\ \A i \in 1..Len(s) :
            /\ s[i] \notin {"secret", "pem", "mrn", "phi:"} \cup Personal
            /\ s[i] \in Cards => Before(s, i) = "id:"
        /\ \A i \in 1..Len(t) :
            /\ t[i] \notin {"secret", "pem", "mrn", "phi:"} \cup Personal
            /\ t[i] \in Cards => Before(t, i) = "id:"
    BY CleanIs
  <1> HIDE DEF u
  <1>3. ASSUME NEW i \in 1..Len(u)
        PROVE  /\ u[i] \notin {"secret", "pem", "mrn", "phi:"} \cup Personal
               /\ u[i] \in Cards => Before(u, i) = "id:"
    <2>1. CASE i <= Len(s)
      <3>1. i \in 1..Len(s) /\ u[i] = s[i]
        BY <1>1, <2>1
      <3>2. Before(u, i) = Before(s, i)
        <4>1. i # 1 => i - 1 \in 1..Len(u) /\ i - 1 <= Len(s)
          BY <2>1
        <4> QED
          BY <1>1, <4>1 DEF Before
      <3> QED
        BY <1>2, <3>1, <3>2
    <2>2. CASE ~(i <= Len(s))
      <3> DEFINE k == i - Len(s)
      <3>1. k \in 1..Len(t) /\ u[i] = t[k]
        BY <1>1, <2>2
      <3>2. t[k] \in Cards => k # 1 /\ Before(t, k) = "id:"
        BY <1>2, <3>1 DEF Before
      <3>3. k # 1 => Before(u, i) = Before(t, k)
        <4>1. k # 1 => /\ i - 1 \in 1..Len(u) /\ ~(i - 1 <= Len(s)) /\ i # 1
                       /\ (i - 1) - Len(s) = k - 1
          BY <1>1, <2>2
        <4> QED
          BY <1>1, <4>1 DEF Before
      <3> QED
        BY <1>2, <3>1, <3>2, <3>3
    <2> QED
      BY <2>1, <2>2
  <1> QED
    BY <1>1, <1>3, CleanIs DEF u

\* A set of positions counts nothing if and only if it is empty.
LEMMA NoneOf ==
  ASSUME NEW n \in Nat, NEW S, S \subseteq 1..n
  PROVE  Cardinality(S) \in Nat /\ (Cardinality(S) = 0 <=> S = {})
  <1>1. IsFiniteSet(1..n)
    BY FS_Interval
  <1>2. IsFiniteSet(S)
    BY <1>1, FS_Subset
  <1> QED
    BY <1>2, FS_EmptySet, FS_CardinalityType

\* Nothing is found in a text if and only if there is nothing to find: no hit of the
\* catalog, no address and no telephone.
LEMMA FindsNothing ==
  ASSUME NEW text \in Seq(Tokens), NEW c \in Seq(Spans), NEW b \in Seq(Spans),
         c = RedactCatalog(text), b = PhoneContextPass(PhonePass(EmailPass(c))),
         Len(c) = Len(text), Len(b) = Len(text)
  PROVE  Findings(text) = NoFindings <=>
            /\ DetectSensitive(text) = {}
            /\ \A i \in 1..Len(text) : EmailPass(c)[i] # "[email]" /\ b[i] # "[phone]"
  <1> DEFINE hits == DetectSensitive(text)
             n == Len(text)
             e == EmailPass(c)
             cards == {i \in hits : text[i] \in Cards}
             phis == {i \in hits : text[i] \in {"mrn", "phi:"}}
             keys == {i \in hits : text[i] \in {"secret", "pem"}}
             emails == {i \in DOMAIN e : e[i] \in {"[email]"}}
             phones == {i \in DOMAIN b : b[i] \in {"[phone]"}}
             F == [ credential |-> Cardinality(cards),
                    pii |-> Cardinality(phis) + Cardinality(emails) + Cardinality(phones),
                    secret |-> Cardinality(keys) ]
  <1>1. n \in Nat /\ hits \subseteq 1..n
    BY DEF DetectSensitive
  <1>2. hits = cards \cup phis \cup keys
    <2>1. \A i \in hits : text[i] \in {"secret", "pem", "mrn", "phi:"} \/ text[i] \in Cards
      BY DEF DetectSensitive, IsPan
    <2> HIDE DEF hits
    <2> QED
      BY <2>1
  <1>3. DOMAIN e = 1..n /\ DOMAIN b = 1..n
    <2>1. e \in Seq(Spans) /\ Len(e) = n
      BY Emails
    <2> HIDE DEF e
    <2> QED
      BY <2>1
  <1>4. Findings(text) = F
    BY DEF Findings, Count
  <1> HIDE DEF hits, n, e
  <1>5. /\ cards \subseteq 1..n /\ phis \subseteq 1..n /\ keys \subseteq 1..n
        /\ emails \subseteq 1..n /\ phones \subseteq 1..n
    BY <1>1, <1>3
  <1> HIDE DEF cards, phis, keys
  <1>6. emails = {} <=> \A i \in 1..n : e[i] # "[email]"
    BY <1>3
  <1>7. phones = {} <=> \A i \in 1..n : b[i] # "[phone]"
    BY <1>3
  <1> HIDE DEF emails, phones
  <1>8. /\ Cardinality(cards) \in Nat /\ (Cardinality(cards) = 0 <=> cards = {})
        /\ Cardinality(phis) \in Nat /\ (Cardinality(phis) = 0 <=> phis = {})
        /\ Cardinality(keys) \in Nat /\ (Cardinality(keys) = 0 <=> keys = {})
        /\ Cardinality(emails) \in Nat /\ (Cardinality(emails) = 0 <=> emails = {})
        /\ Cardinality(phones) \in Nat /\ (Cardinality(phones) = 0 <=> phones = {})
    BY <1>1, <1>5, NoneOf
  <1>9. F = NoFindings <=> /\ Cardinality(cards) = 0 /\ Cardinality(keys) = 0
                           /\ Cardinality(phis) + Cardinality(emails) + Cardinality(phones) = 0
    BY DEF NoFindings
  <1>10. F = NoFindings <=> cards = {} /\ keys = {} /\ phis = {} /\ emails = {} /\ phones = {}
    BY <1>8, <1>9
  <1> HIDE DEF F
  <1>11. Findings(text) = NoFindings <=> hits = {} /\ emails = {} /\ phones = {}
    BY <1>2, <1>4, <1>10
  <1> QED
    BY <1>6, <1>7, <1>11 DEF hits, n, e

\* redact, of any text of any length: nothing the patterns know is left but the two known
\* residues, nothing is cut in two, no other word is lost, and nothing is found if and
\* only if nothing is changed (RedactsTo, as RedactedIsClean asks of the cases).
THEOREM AnyText ==
  ASSUME NEW text \in Seq(Tokens)
  PROVE  RedactsTo(text, Redact(text))
  <1> DEFINE c == RedactCatalog(text)
             b == PhoneContextPass(PhonePass(EmailPass(c)))
             n == Len(text)
  <1>1. /\ c \in Seq(Spans) /\ b \in Seq(Spans) /\ Len(c) = n /\ Len(b) = n
        /\ \A i \in 1..n : CatalogAt(text, c, i) /\ BroadAt(c, b, i)
        /\ DetectSensitive(b) = {} /\ Redact(text) = b
    BY TextIsSpans, RedactIs
  <1>2. Findings(text) = NoFindings <=>
            /\ DetectSensitive(text) = {}
            /\ \A i \in 1..n : EmailPass(c)[i] # "[email]" /\ b[i] # "[phone]"
    BY <1>1, FindsNothing
  <1>3. \A i \in 1..n : EmailPass(c)[i] = IF c[i] = "email" THEN "[email]" ELSE c[i]
    BY <1>1, Emails
  <1> HIDE DEF c, b
  <1>4. n \in Nat /\ DOMAIN text = 1..n /\ DOMAIN b = 1..n /\ \A i \in 1..n : text[i] \in Tokens
    BY <1>1
  <1>5. ASSUME NEW i \in 1..n PROVE c[i] \in Tokens \cup {"[secret]", "pem/body", "[phi]", "gone", "phone/cut", "[pan]"}
    BY <1>1, <1>4 DEF CatalogAt
  <1>6. ASSUME NEW i \in 1..n PROVE b[i] \notin Personal \cup {"secret/cut", "card/cut"}
    <2>1. c[i] \notin {"secret", "secret/cut", "card/cut"}
      BY <1>1, <1>5 DEF CatalogAt, Tokens, Words
    <2>2. ~(Before(c, i) = "tel:" /\ c[i] = "card")
      BY <1>1 DEF CatalogAt, Cards
    <2> QED
      BY <1>1, <2>1, <2>2 DEF BroadAt, Personal
  <1>7. ASSUME NEW i \in 1..n
        PROVE  /\ b[i] \in {"phone/cut", "pem/body"} => Residue(text, i)
               /\ Survives(text, i) => b[i] = text[i]
    <2>1. b[i] \in {"phone/cut", "pem/body"} => c[i] = b[i]
      BY <1>1 DEF BroadAt
    <2>2. c[i] = "phone/cut" => text[i] = "phone" /\ Before(text, i) = "phi:"
      BY <1>1, <1>4 DEF CatalogAt, Tokens, Words
    <2>3. c[i] = "pem/body" => text[i] = "pem"
      BY <1>1, <1>4 DEF CatalogAt, Tokens, Words
    <2>4. Survives(text, i) => c[i] = text[i]
      BY <1>1 DEF CatalogAt, Survives, Words, Cards
    <2>5. Survives(text, i) => b[i] = text[i]
      BY <1>1, <2>4 DEF BroadAt, Survives, Words
    <2> QED
      BY <2>1, <2>2, <2>3, <2>5 DEF Residue
  <1>8. ASSUME b = text
        PROVE  /\ DetectSensitive(text) = {}
               /\ \A i \in 1..n : EmailPass(c)[i] # "[email]" /\ b[i] # "[phone]"
    <2>1. ASSUME NEW i \in 1..n PROVE b[i] # "[phone]" /\ c[i] \notin {"email", "[email]"}
      <3>1. b[i] \in Tokens
        BY <1>4, <1>8
      <3>2. c[i] # "[email]"
        BY <1>5 DEF Tokens, Words
      <3>3. c[i] = "email" => b[i] = "[email]"
        BY <1>1 DEF BroadAt
      <3> QED
        BY <3>1, <3>2, <3>3 DEF Tokens, Words
    <2> QED
      BY <1>1, <1>3, <1>8, <2>1
  <1>9. ASSUME DetectSensitive(text) = {},
               \A i \in 1..n : EmailPass(c)[i] # "[email]" /\ b[i] # "[phone]"
        PROVE  b = text
    <2>1. c = text
      BY <1>9, CatalogIdle DEF c, Spans
    <2>2. ASSUME NEW i \in 1..n PROVE b[i] = text[i]
      <3>1. c[i] \notin {"email", "secret"}
        BY <1>1, <1>3, <1>9 DEF CatalogAt
      <3>2. ~(Before(c, i) = "tel:" /\ c[i] = "card")
        BY <1>1 DEF CatalogAt, Cards
      <3>3. b[i] # "[phone]"
        BY <1>9
      <3> QED
        BY <1>1, <2>1, <3>1, <3>2, <3>3 DEF BroadAt
    <2>3. text \in Seq(Spans)
      BY DEF Spans
    <2> QED
      BY <1>1, <2>2, <2>3, SeqEqual
  <1>10. Clean(b) /\ Range(b) \cap {"secret/cut", "card/cut"} = {}
    BY <1>1, <1>4, <1>6 DEF Clean, Range
  <1>11. Findings(text) = NoFindings <=> b = text
    BY <1>2, <1>8, <1>9
  <1> QED
    BY <1>1, <1>4, <1>7, <1>10, <1>11 DEF RedactsTo

------------------------------------------------------------------------------
(* What stays of a sequence *)

\* The positions of I up to i, and how many they are.
Upto(I, i) == {j \in I : j <= i}
Rank(I, i) == Cardinality(Upto(I, i))

\* A set of numbers has a smallest.
LEMMA Smallest ==
  ASSUME NEW S, S \subseteq Nat, S # {}
  PROVE  \E m \in S : \A k \in S : m <= k
  <1>1. PICK m \in S : \A k \in S : ~(<<k, m>> \in OpToRel(<, Nat))
    BY NatLessThanWellFounded, WFMin
  <1>2. ASSUME NEW k \in S PROVE m <= k
    <2>1. k \in Nat /\ m \in Nat
      OBVIOUS
    <2>2. ~(k < m)
      BY <1>1, <2>1 DEF OpToRel
    <2> QED
      BY <2>1, <2>2
  <1> QED
    BY <1>2

\* The rank of a position in a set of positions.
LEMMA RankIsNat ==
  ASSUME NEW I, IsFiniteSet(I), NEW i
  PROVE  /\ IsFiniteSet(Upto(I, i)) /\ Rank(I, i) \in Nat /\ Rank(I, i) <= Cardinality(I)
         /\ Cardinality(I) \in Nat
  <1>1. Upto(I, i) \subseteq I
    BY DEF Upto
  <1>2. IsFiniteSet(Upto(I, i)) /\ Cardinality(Upto(I, i)) <= Cardinality(I)
    BY <1>1, FS_Subset
  <1> QED
    BY <1>2, FS_CardinalityType DEF Rank

\* A later position of the set has a higher rank.
LEMMA RankGrows ==
  ASSUME NEW I, I \subseteq Nat, IsFiniteSet(I), NEW i \in I, NEW j \in I, i < j
  PROVE  Rank(I, i) < Rank(I, j)
  <1>1. Upto(I, i) \subseteq Upto(I, j) /\ j \in Upto(I, j) /\ j \notin Upto(I, i)
    <2>1. i \in Nat /\ j \in Nat /\ \A k \in I : k \in Nat
      OBVIOUS
    <2>2. \A k \in I : k <= i => k <= j
      BY <2>1
    <2>3. j <= j /\ ~(j <= i)
      BY <2>1
    <2> QED
      BY <2>2, <2>3 DEF Upto
  <1>2. IsFiniteSet(Upto(I, j)) /\ Rank(I, i) \in Nat /\ Rank(I, j) \in Nat
    BY RankIsNat
  <1>3. Rank(I, i) <= Rank(I, j)
    BY <1>1, <1>2, FS_Subset DEF Rank
  <1>4. Rank(I, i) # Rank(I, j)
    BY <1>1, <1>2, FS_Subset DEF Rank
  <1> QED
    BY <1>2, <1>3, <1>4

\* At most n positions have a rank up to n.
LEMMA LowCount ==
  ASSUME NEW I, I \subseteq Nat, IsFiniteSet(I), NEW n \in Nat
  PROVE  Cardinality({j \in I : Rank(I, j) <= n}) <= n
  <1> DEFINE L == {j \in I : Rank(I, j) <= n}
  <1>1. L \subseteq I /\ \A j \in L : Rank(I, j) \in Nat /\ Rank(I, j) <= n
    BY RankIsNat
  <1> HIDE DEF L
  <1>2. CASE L = {}
    BY <1>2, FS_EmptySet DEF L
  <1>3. CASE L # {}
    <2> DEFINE S == {n - Rank(I, j) : j \in L}
    <2>1. S \subseteq Nat /\ S # {}
      <3>1. \A j \in L : n - Rank(I, j) \in Nat
        BY <1>1
      <3> QED
        BY <1>3, <3>1
    <2>2. PICK d \in S : \A k \in S : d <= k
      <3> HIDE DEF S
      <3> QED
        BY <2>1, Smallest
    <2>3. PICK m \in L : d = n - Rank(I, m)
      OBVIOUS
    <2>4. ASSUME NEW j \in L PROVE Rank(I, j) <= Rank(I, m)
      <3>1. d <= n - Rank(I, j)
        BY <2>2
      <3>2. Rank(I, j) \in Nat /\ Rank(I, m) \in Nat
        BY <1>1
      <3> QED
        BY <2>3, <3>1, <3>2
    <2>5. L \subseteq Upto(I, m)
      <3> SUFFICES ASSUME NEW j \in L PROVE j \in I /\ j <= m
        BY DEF Upto
      <3>1. j \in I /\ m \in I /\ j \in Nat /\ m \in Nat
        BY <1>1
      <3>2. ~(m < j)
        <4>1. m < j => Rank(I, m) < Rank(I, j)
          BY <3>1, RankGrows
        <4>2. Rank(I, j) <= Rank(I, m) /\ Rank(I, j) \in Nat /\ Rank(I, m) \in Nat
          BY <1>1, <2>4
        <4> QED
          BY <4>1, <4>2
      <3> QED
        BY <3>1, <3>2
    <2>6. IsFiniteSet(Upto(I, m))
      BY RankIsNat
    <2>7. Cardinality(L) <= Rank(I, m)
      BY <2>5, <2>6, FS_Subset DEF Rank
    <2>8. IsFiniteSet(L) /\ Cardinality(L) \in Nat
      BY <1>1, FS_Subset, FS_CardinalityType
    <2> QED
      BY <1>1, <2>7, <2>8 DEF L
  <1> QED
    BY <1>2, <1>3

\* There is a position of each rank, and only one.
LEMMA NthIs ==
  ASSUME NEW I, I \subseteq Nat, IsFiniteSet(I), NEW n \in 1..Cardinality(I)
  PROVE  Nth(I, n) \in I /\ Rank(I, Nth(I, n)) = n
  <1> DEFINE L == {j \in I : Rank(I, j) <= n - 1}
             S == {j \in I : Rank(I, j) > n - 1}
  <1>1. Cardinality(I) \in Nat /\ n \in Nat /\ n - 1 \in Nat /\ n <= Cardinality(I)
    BY RankIsNat
  <1>2. Cardinality(L) <= n - 1
    BY <1>1, LowCount
  <1>3. \A j \in I : Rank(I, j) \in Nat /\ j \in Nat
    BY RankIsNat
  <1>4. L \subseteq I /\ S \subseteq I /\ S \cup L = I
    <2>1. \A j \in I : Rank(I, j) <= n - 1 \/ Rank(I, j) > n - 1
      BY <1>1, <1>3
    <2> QED
      BY <2>1
  <1>5. IsFiniteSet(L) /\ Cardinality(L) \in Nat
    BY <1>4, FS_Subset, FS_CardinalityType
  <1>6. S # {}
    <2> SUFFICES ASSUME S = {} PROVE FALSE
      OBVIOUS
    <2>1. L = I
      BY <1>4
    <2> HIDE DEF L, S
    <2> QED
      BY <1>1, <1>2, <1>5, <2>1
  <1>7. PICK m \in S : \A k \in S : m <= k
    <2> HIDE DEF S
    <2> QED
      BY <1>4, <1>6, Smallest
  <1>8. m \in I /\ m \in Nat /\ Rank(I, m) \in Nat /\ Rank(I, m) > n - 1
    BY <1>3
  <1>9. Upto(I, m) \ {m} \subseteq L
    <2> SUFFICES ASSUME NEW j \in I, j <= m, j # m PROVE Rank(I, j) <= n - 1
      BY DEF Upto
    <2>1. j \in Nat /\ Rank(I, j) \in Nat
      BY <1>3
    <2>2. j \notin S
      BY <1>7, <1>8, <2>1
    <2> QED
      BY <1>1, <2>1, <2>2
  <1> HIDE DEF L, S
  <1>10. Cardinality(Upto(I, m) \ {m}) <= n - 1 /\ Cardinality(Upto(I, m) \ {m}) \in Nat
    <2>1. Cardinality(Upto(I, m) \ {m}) <= Cardinality(L) /\ IsFiniteSet(Upto(I, m) \ {m})
      BY <1>5, <1>9, FS_Subset
    <2> QED
      BY <1>1, <1>2, <1>5, <2>1, FS_CardinalityType
  <1>11. Cardinality(Upto(I, m) \ {m}) = Rank(I, m) - 1
    <2>1. m \in Upto(I, m) /\ IsFiniteSet(Upto(I, m))
      BY <1>8, RankIsNat DEF Upto
    <2> QED
      BY <2>1, FS_RemoveElement DEF Rank
  <1>12. Rank(I, m) = n
    BY <1>1, <1>8, <1>10, <1>11
  <1> QED
    BY <1>8, <1>12 DEF Nth, Rank, Upto

\* The position of that rank is the position.
LEMMA NthOfRank ==
  ASSUME NEW I, I \subseteq Nat, IsFiniteSet(I), NEW i \in I
  PROVE  Rank(I, i) \in 1..Cardinality(I) /\ Nth(I, Rank(I, i)) = i
  <1> DEFINE n == Rank(I, i)
  <1>1. n \in Nat /\ n <= Cardinality(I) /\ Cardinality(I) \in Nat /\ IsFiniteSet(Upto(I, i))
    BY RankIsNat
  <1>2. n # 0
    <2>1. i \in Upto(I, i)
      BY DEF Upto
    <2> QED
      BY <1>1, <2>1, FS_EmptySet DEF Rank
  <1>3. n \in 1..Cardinality(I)
    BY <1>1, <1>2
  <1> HIDE DEF n
  <1>4. Nth(I, n) \in I /\ Rank(I, Nth(I, n)) = n
    BY <1>3, NthIs
  <1>5. ~(Nth(I, n) < i)
    <2>1. Nth(I, n) < i => Rank(I, Nth(I, n)) < Rank(I, i)
      BY <1>4, RankGrows
    <2> QED
      BY <1>1, <1>4, <2>1 DEF n
  <1>6. ~(i < Nth(I, n))
    <2>1. i < Nth(I, n) => Rank(I, i) < Rank(I, Nth(I, n))
      BY <1>4, RankGrows
    <2> QED
      BY <1>1, <1>4, <2>1 DEF n
  <1>7. i \in Nat /\ Nth(I, n) \in Nat
    BY <1>4
  <1> QED
    BY <1>3, <1>5, <1>6, <1>7 DEF n

\* p has the entries of s at I, each once and in their order.
PartOf(s, I, p) ==
    /\ Len(p) = Cardinality(I)
    /\ \A n \in 1..Cardinality(I) :
            Nth(I, n) \in I /\ Rank(I, Nth(I, n)) = n /\ p[n] = s[Nth(I, n)]
    /\ \A i \in I : Rank(I, i) \in 1..Cardinality(I) /\ p[Rank(I, i)] = s[i]

\* The part of a sequence at some positions, in their order.
LEMMA PartIs ==
  ASSUME NEW S, NEW s \in Seq(S), NEW I, I \subseteq 1..Len(s)
  PROVE  /\ IsFiniteSet(I) /\ Cardinality(I) \in Nat
         /\ Part(s, I) \in Seq(S) /\ PartOf(s, I, Part(s, I))
  <1> DEFINE c == Cardinality(I)
             f == [n \in 1..c |-> s[Nth(I, n)]]
  <1>1. IsFiniteSet(1..Len(s))
    BY FS_Interval
  <1>2. IsFiniteSet(I) /\ c \in Nat /\ I \subseteq Nat
    <2>1. IsFiniteSet(I)
      BY <1>1, FS_Subset
    <2> QED
      BY <2>1, FS_CardinalityType
  <1>3. \A n \in 1..c : Nth(I, n) \in I /\ Rank(I, Nth(I, n)) = n
    BY <1>2, NthIs
  <1>4. \A i \in I : Rank(I, i) \in 1..c /\ Nth(I, Rank(I, i)) = i
    BY <1>2, NthOfRank
  <1>5. Part(s, I) = <<>> \o f
    BY DEF Part
  <1> HIDE DEF c
  <1>6. f \in [1..c -> S] /\ \A n \in 1..c : f[n] = s[Nth(I, n)]
    <2>1. \A n \in 1..c : s[Nth(I, n)] \in S
      <3>1. \A i \in I : s[i] \in S
        <4>1. \A i \in 1..Len(s) : s[i] \in S
          BY ElementOfSeq
        <4> QED
          BY <4>1
      <3> QED
        BY <1>3, <3>1
    <2> QED
      BY <2>1
  <1> HIDE DEF f
  <1>7. Part(s, I) \in Seq(S) /\ Len(Part(s, I)) = c /\ \A n \in 1..c : Part(s, I)[n] = s[Nth(I, n)]
    BY <1>2, <1>5, <1>6, Made
  <1> QED
    BY <1>2, <1>3, <1>4, <1>7 DEF c, PartOf

------------------------------------------------------------------------------
(* Advisories *)

\* All that the catalog and the patterns for personal data know.
Known == {"secret", "pem", "mrn", "phi:"} \cup Cards \cup Personal

SchemaReasons ==
    { "advisory_signals_not_sequence", "advisory_signal_not_object", "advisory_code_missing",
      "advisory_scope_invalid", "advisory_confidence_invalid", "advisory_effect_invalid",
      "advisory_schema_version_invalid" }

RuleCodes == { "bot_authored", "dependency_automation", "status_only", "template_dominant",
               "duplicate_delivery", "generated_sync_event", "stale_source", "low_source_trust" }

\* Codes that a connector may give its signals: no data, and not the adapter's own.
Codes(N) == N \cap (Known \cup {"heuristic_schema_error"}) = {}

\* Signals of such codes; "bogus" is what no scope, confidence or effect is.
Signal(N) ==
    [ object : BOOLEAN, code : N, scope : Scopes \cup {"", "bogus"},
      confidence : Confidences \cup {"", "bogus"}, effect : Effects \cup {"", "bogus"},
      version : Int ]

AllSignals(N) ==
    {signals \in [shape : {"missing", "scalar", "list"}, items : Seq(Signal(N))] :
        signals.shape # "list" => signals.items = <<>>}

Advisories(N) ==
    [ code : N \cup RuleCodes \cup {"heuristic_schema_error"}, scope : Scopes,
      basis : SchemaReasons \cup {"integration_rule", "rule"} ]

\* A text none of whose tokens is known to the patterns is clean.
LEMMA NothingKnown ==
  ASSUME NEW T, NEW text \in Seq(T), \A i \in 1..Len(text) : text[i] \notin Known
  PROVE  Clean(text)
  <1>1. DOMAIN text = 1..Len(text)
    OBVIOUS
  <1>2. DetectSensitive(text) = {}
    BY <1>1 DEF DetectSensitive, Known, IsPan
  <1>3. Range(text) \cap Personal = {}
    BY <1>1 DEF Range, Known
  <1> QED
    BY <1>2, <1>3 DEF Clean

\* An advisory has nothing sensitive to say.
LEMMA AdvisoryIsClean ==
  ASSUME NEW N, Codes(N), NEW a \in Advisories(N)
  PROVE  Clean(AdvisoryText(a))
  <1> DEFINE text == <<a.code, a.scope, a.basis>>
  <1>1. a.code \notin Known /\ a.scope \notin Known /\ a.basis \notin Known
    <2>1. a.code \notin Known
      BY DEF Advisories, Codes, RuleCodes, Known, Cards, Personal
    <2>2. a.scope \notin Known
      BY DEF Advisories, Scopes, Known, Cards, Personal
    <2>3. a.basis \notin Known
      BY DEF Advisories, SchemaReasons, Known, Cards, Personal
    <2> QED
      BY <2>1, <2>2, <2>3
  <1>2. /\ text \in Seq({a.code, a.scope, a.basis}) /\ Len(text) = 3
        /\ text[1] = a.code /\ text[2] = a.scope /\ text[3] = a.basis
    OBVIOUS
  <1>3. AdvisoryText(a) = text
    BY DEF AdvisoryText
  <1> HIDE DEF text
  <1>4. \A i \in 1..Len(text) : text[i] \notin Known
    <2>1. \A i \in 1..Len(text) : i = 1 \/ i = 2 \/ i = 3
      BY <1>2
    <2> QED
      BY <1>1, <1>2, <2>1
  <1> QED
    BY <1>2, <1>3, <1>4, NothingKnown

\* _schema_error makes an advisory.
LEMMA SchemaErrorIs ==
  ASSUME NEW N, NEW reason \in SchemaReasons
  PROVE  /\ SchemaError(reason) \in Advisories(N)
         /\ SchemaError(reason).code = "heuristic_schema_error"
         /\ SchemaError(reason).scope = "universal"
  <1>1. SchemaError(reason) =
            [code |-> "heuristic_schema_error", scope |-> "universal", basis |-> reason]
    BY DEF SchemaError, Advisory
  <1>2. SchemaError(reason) \in Advisories(N)
    BY <1>1 DEF Advisories, Scopes
  <1> QED
    BY <1>1, <1>2

\* What a signal that can be used says, and that one that cannot is reported.
LEMMA SignalIs ==
  ASSUME NEW N, NEW s \in Signal(N)
  PROVE  /\ SignalAdvisory(s) \in Advisories(N)
         /\ WellFormed(s) => /\ SignalAdvisory(s).code = s.code
                             /\ s.scope # "" => SignalAdvisory(s).scope = s.scope
         /\ ~WellFormed(s) => SignalAdvisory(s).code = "heuristic_schema_error"
  <1> DEFINE usable == Advisory(s.code, IF s.scope = "" THEN "integration" ELSE s.scope,
                                "integration_rule")
  <1>1. WellFormed(s) <=> /\ s.object /\ s.code # "" /\ s.scope \in Scopes \cup {""}
                          /\ s.confidence \in Confidences \cup {""}
                          /\ s.effect \in Effects \cup {""} /\ s.version = SchemaVersion
    BY DEF WellFormed, Signal, Scopes, Confidences, Effects
  <1>2. WellFormed(s) => SignalAdvisory(s) = usable
    BY <1>1 DEF SignalAdvisory
  <1>3. ~WellFormed(s) => \E reason \in SchemaReasons : SignalAdvisory(s) = SchemaError(reason)
    <2>1. ~WellFormed(s) =>
            \/ SignalAdvisory(s) = SchemaError("advisory_signal_not_object")
            \/ SignalAdvisory(s) = SchemaError("advisory_code_missing")
            \/ SignalAdvisory(s) = SchemaError("advisory_scope_invalid")
            \/ SignalAdvisory(s) = SchemaError("advisory_confidence_invalid")
            \/ SignalAdvisory(s) = SchemaError("advisory_effect_invalid")
            \/ SignalAdvisory(s) = SchemaError("advisory_schema_version_invalid")
      BY <1>1 DEF SignalAdvisory
    <2> QED
      BY <2>1 DEF SchemaReasons
  <1>4. /\ usable.code = s.code /\ usable.scope = IF s.scope = "" THEN "integration" ELSE s.scope
        /\ WellFormed(s) => usable \in Advisories(N)
    <2>1. s.code \in N
      BY DEF Signal
    <2>2. WellFormed(s) => (IF s.scope = "" THEN "integration" ELSE s.scope) \in Scopes
      BY <1>1 DEF Scopes
    <2>4. usable = [code |-> s.code, scope |-> IF s.scope = "" THEN "integration" ELSE s.scope,
                    basis |-> "integration_rule"]
      BY DEF Advisory
    <2> HIDE DEF usable
    <2>5. WellFormed(s) => usable \in Advisories(N)
      BY <2>1, <2>2, <2>4 DEF Advisories
    <2> QED
      BY <2>4, <2>5
  <1> HIDE DEF usable
  <1> QED
    BY <1>2, <1>3, <1>4, SchemaErrorIs

\* The advisories of the signals: one for each of a list, one for what is no list.
LEMMA IntegrationIs ==
  ASSUME NEW N, NEW signals \in AllSignals(N)
  PROVE  /\ IntegrationAdvisories(signals) \in Seq(Advisories(N))
         /\ signals.shape = "missing" => IntegrationAdvisories(signals) = <<>>
         /\ signals.shape = "scalar" =>
                IntegrationAdvisories(signals) = <<SchemaError("advisory_signals_not_sequence")>>
         /\ signals.shape = "list" =>
                /\ Len(IntegrationAdvisories(signals)) = Len(signals.items)
                /\ \A i \in 1..Len(signals.items) :
                      IntegrationAdvisories(signals)[i] = SignalAdvisory(signals.items[i])
  <1> DEFINE items == signals.items
             n == Len(items)
             f == [i \in 1..n |-> SignalAdvisory(items[i])]
  <1>1. items \in Seq(Signal(N)) /\ signals.shape \in {"missing", "scalar", "list"}
    BY DEF AllSignals
  <1>2. n \in Nat /\ DOMAIN items = 1..n /\ \A i \in 1..n : items[i] \in Signal(N)
    BY <1>1
  <1>3. \A i \in 1..n : SignalAdvisory(items[i]) \in Advisories(N)
    BY <1>2, SignalIs
  <1>4. f \in Seq(Advisories(N)) /\ Len(f) = n /\ \A i \in 1..n : f[i] = SignalAdvisory(items[i])
    <2> HIDE DEF n, items
    <2> QED
      BY <1>2, <1>3
  <1>5. signals.shape = "list" => IntegrationAdvisories(signals) = f
    BY <1>2 DEF IntegrationAdvisories, Map
  <1>6. /\ signals.shape = "missing" => IntegrationAdvisories(signals) = <<>>
        /\ signals.shape = "scalar" =>
                IntegrationAdvisories(signals) = <<SchemaError("advisory_signals_not_sequence")>>
    BY DEF IntegrationAdvisories
  <1>7. <<SchemaError("advisory_signals_not_sequence")>> \in Seq(Advisories(N))
    <2>1. SchemaError("advisory_signals_not_sequence") \in Advisories(N)
      BY SchemaErrorIs DEF SchemaReasons
    <2> QED
      BY <2>1
  <1> HIDE DEF f
  <1>8. CASE signals.shape = "missing"
    BY <1>6, <1>8, EmptySeq
  <1>9. CASE signals.shape = "scalar"
    BY <1>6, <1>7, <1>9
  <1>10. CASE signals.shape = "list"
    BY <1>4, <1>5, <1>10
  <1> QED
    BY <1>1, <1>8, <1>9, <1>10

\* The universal rules are eight, of as many codes.
LEMMA RulesAre ==
  ASSUME NEW e
  PROVE  /\ Len(UniversalRules(e)) = 8 /\ UniversalRules(e) \in Seq(RuleCodes \X BOOLEAN)
         /\ \A i, j \in 1..8 : i # j => UniversalRules(e)[i][1] # UniversalRules(e)[j][1]
  <1> DEFINE u == UniversalRules(e)
  <1> DEFINE a == "bot_actor" \in e.markers \/ (e.author # <<>> /\ e.author[Len(e.author)] = "bot")
             b == Contains(e.author, "renovate")
             c == e.body = <<"status">>
             d == Contains(e.body, "template")
             f == "duplicate_delivery" \in e.markers
             g == "generated_sync_event" \in e.markers
             h == "stale_source" \in e.markers
             k == "low_trust" \in e.markers
  <1>0. u = << <<"bot_authored", a>>, <<"dependency_automation", b>>, <<"status_only", c>>,
               <<"template_dominant", d>>, <<"duplicate_delivery", f>>,
               <<"generated_sync_event", g>>, <<"stale_source", h>>, <<"low_source_trust", k>> >>
    BY DEF UniversalRules
  <1>1. /\ a \in BOOLEAN /\ b \in BOOLEAN /\ c \in BOOLEAN /\ d \in BOOLEAN
        /\ f \in BOOLEAN /\ g \in BOOLEAN /\ h \in BOOLEAN /\ k \in BOOLEAN
    BY DEF Contains
  <1> HIDE DEF a, b, c, d, f, g, h, k
  <1> HIDE DEF u
  <1>2. /\ Len(u) = 8 /\ u[1] = <<"bot_authored", a>> /\ u[2] = <<"dependency_automation", b>>
        /\ u[3] = <<"status_only", c>> /\ u[4] = <<"template_dominant", d>>
        /\ u[5] = <<"duplicate_delivery", f>> /\ u[6] = <<"generated_sync_event", g>>
        /\ u[7] = <<"stale_source", h>> /\ u[8] = <<"low_source_trust", k>>
    BY <1>0
  <1>3. u \in Seq(RuleCodes \X BOOLEAN)
    BY <1>0, <1>1 DEF RuleCodes
  <1>4. \A i \in 1..8 : i = 1 \/ i = 2 \/ i = 3 \/ i = 4 \/ i = 5 \/ i = 6 \/ i = 7 \/ i = 8
    OBVIOUS
  <1>5. ASSUME NEW i \in 1..8, NEW j \in 1..8, i # j PROVE u[i][1] # u[j][1]
    BY <1>2, <1>4, <1>5
  <1> QED
    BY <1>2, <1>3, <1>5 DEF u

\* The rules that hold, by their codes.
RulesHolding(e) == {UniversalRules(e)[i][1] : i \in {j \in 1..8 : UniversalRules(e)[j][2]}}

\* _universal_advisories has one advisory for each rule that holds, and no other.
LEMMA UniversalIs ==
  ASSUME NEW N, NEW e
  PROVE  /\ UniversalAdvisories(e) \in Seq(Advisories(N))
         /\ \A i \in 1..Len(UniversalAdvisories(e)) : UniversalAdvisories(e)[i].code \in RulesHolding(e)
         /\ \A code \in RulesHolding(e) : \E i \in 1..Len(UniversalAdvisories(e)) :
                UniversalAdvisories(e)[i].code = code
         /\ RulesHolding(e) \subseteq RuleCodes
  <1> DEFINE rules == UniversalRules(e)
             I == {i \in 1..8 : rules[i][2]}
             p == Part(rules, I)
             n == Len(p)
             advise(rule) == Advisory(rule[1], "universal", "rule")
             u == [k \in 1..n |-> advise(p[k])]
  <1>1. rules \in Seq(RuleCodes \X BOOLEAN) /\ Len(rules) = 8 /\ DOMAIN rules = 1..8
    BY RulesAre
  <1>2. UniversalAdvisories(e) = Map(p, advise)
    BY <1>1 DEF UniversalAdvisories, Filtered
  <1> HIDE DEF rules
  <1>3. I \subseteq 1..Len(rules)
    BY <1>1
  <1> HIDE DEF I
  <1>0. p \in Seq(RuleCodes \X BOOLEAN) /\ PartOf(rules, I, p)
    BY <1>1, <1>3, PartIs
  <1>4. /\ p \in Seq(RuleCodes \X BOOLEAN) /\ n = Cardinality(I)
        /\ \A k \in 1..Cardinality(I) : Nth(I, k) \in I /\ p[k] = rules[Nth(I, k)]
        /\ \A i \in I : Rank(I, i) \in 1..Cardinality(I) /\ p[Rank(I, i)] = rules[i]
    BY <1>0 DEF PartOf
  <1> HIDE DEF p
  <1>5. UniversalAdvisories(e) = u
    BY <1>2, <1>4 DEF Map
  <1>6. \A k \in 1..n : p[k][1] \in RuleCodes
    BY <1>4
  <1>7. n \in Nat
    BY <1>4
  <1> HIDE DEF n
  <1>8. \A k \in 1..n : advise(p[k]) \in Advisories(N) /\ advise(p[k]).code = p[k][1]
    BY <1>6 DEF Advisory, Advisories, Scopes
  <1> HIDE DEF advise
  <1>9. u \in Seq(Advisories(N)) /\ Len(u) = n /\ \A k \in 1..n : u[k].code = p[k][1]
    BY <1>7, <1>8
  <1> HIDE DEF u
  <1>10. \A k \in 1..n : u[k].code \in RulesHolding(e)
    <2>1. \A k \in 1..n : u[k].code = rules[Nth(I, k)][1] /\ Nth(I, k) \in I
      BY <1>4, <1>9
    <2>2. \A i \in I : rules[i][1] \in RulesHolding(e)
      BY DEF RulesHolding, rules, I
    <2> QED
      BY <2>1, <2>2
  <1>11. \A code \in RulesHolding(e) : \E i \in I : code = rules[i][1]
    BY DEF RulesHolding, rules, I
  <1>12. \A code \in RulesHolding(e) : \E k \in 1..n : u[k].code = code
    BY <1>4, <1>9, <1>11
  <1>13. RulesHolding(e) \subseteq RuleCodes
    <2>1. \A i \in I : rules[i] \in RuleCodes \X BOOLEAN
      <3>1. \A i \in 1..Len(rules) : rules[i] \in RuleCodes \X BOOLEAN
        BY <1>1, ElementOfSeq
      <3> QED
        BY <1>3, <3>1
    <2> QED
      BY <1>11, <2>1
  <1> QED
    BY <1>5, <1>9, <1>10, <1>12, <1>13

\* Of each code and scope one advisory stays.
LEMMA DedupeIs ==
  ASSUME NEW S, NEW s \in Seq(S)
  PROVE  /\ Dedupe(s) \in Seq(S)
         /\ \A n \in 1..Len(Dedupe(s)) : \E i \in 1..Len(s) : Dedupe(s)[n] = s[i]
         /\ \A i \in 1..Len(s) : \E n \in 1..Len(Dedupe(s)) :
                Dedupe(s)[n].code = s[i].code /\ Dedupe(s)[n].scope = s[i].scope
         /\ \A m, n \in 1..Len(Dedupe(s)) : m # n =>
                <<Dedupe(s)[m].code, Dedupe(s)[m].scope>> #
                    <<Dedupe(s)[n].code, Dedupe(s)[n].scope>>
  <1> DEFINE key(a) == <<a.code, a.scope>>
             F == {i \in 1..Len(s) : \A j \in 1..(i - 1) : key(s[j]) # key(s[i])}
             d == Part(s, F)
  <1>1. Dedupe(s) = d
    <2>1. DOMAIN s = 1..Len(s)
      OBVIOUS
    <2> QED
      BY <2>1 DEF Dedupe, Firsts
  <1>2. F \subseteq 1..Len(s) /\ Len(s) \in Nat
    OBVIOUS
  <1>3. ASSUME NEW i \in 1..Len(s) PROVE \E j \in F : key(s[j]) = key(s[i])
    <2> DEFINE T == {j \in 1..Len(s) : key(s[j]) = key(s[i])}
    <2> HIDE DEF key
    <2>1. T \subseteq Nat /\ T # {}
      OBVIOUS
    <2>2. PICK m \in T : \A k \in T : m <= k
      <3> HIDE DEF T
      <3> QED
        BY <2>1, Smallest
    <2>3. ASSUME NEW j \in 1..(m - 1) PROVE key(s[j]) # key(s[m])
      <3>1. j \in 1..Len(s) /\ j < m
        OBVIOUS
      <3>2. j \notin T
        BY <2>2, <3>1
      <3> QED
        BY <3>1, <3>2
    <2>4. m \in F
      BY <2>3
    <2> QED
      BY <2>4
  <1>4. ASSUME NEW i \in F, NEW j \in F, i # j PROVE key(s[i]) # key(s[j])
    <2> HIDE DEF key
    <2>1. i \in 1..(j - 1) \/ j \in 1..(i - 1)
      BY <1>4
    <2> QED
      BY <2>1
  <1> HIDE DEF F
  <1>0. d \in Seq(S) /\ PartOf(s, F, d)
    BY <1>2, PartIs
  <1>5. /\ d \in Seq(S) /\ Len(d) = Cardinality(F)
        /\ \A n \in 1..Cardinality(F) :
                Nth(F, n) \in F /\ Rank(F, Nth(F, n)) = n /\ d[n] = s[Nth(F, n)]
        /\ \A i \in F : Rank(F, i) \in 1..Cardinality(F) /\ d[Rank(F, i)] = s[i]
    BY <1>0 DEF PartOf
  <1> HIDE DEF d
  <1>6. \A n \in 1..Len(d) : \E i \in 1..Len(s) : d[n] = s[i]
    BY <1>2, <1>5
  <1>7. ASSUME NEW i \in 1..Len(s)
        PROVE  \E n \in 1..Len(d) : d[n].code = s[i].code /\ d[n].scope = s[i].scope
    <2>1. PICK j \in F : key(s[j]) = key(s[i])
      BY <1>3
    <2> QED
      BY <1>5, <2>1
  <1>8. ASSUME NEW m \in 1..Len(d), NEW n \in 1..Len(d), m # n
        PROVE  key(d[m]) # key(d[n])
    <2>1. Nth(F, m) # Nth(F, n)
      BY <1>5, <1>8
    <2> HIDE DEF key
    <2> QED
      BY <1>4, <1>5, <2>1
  <1> QED
    BY <1>1, <1>5, <1>6, <1>7, <1>8

\* The values of a sequence.
LEMMA InRange ==
  ASSUME NEW S, NEW s \in Seq(S)
  PROVE  \A x : x \in Range(s) <=> \E i \in 1..Len(s) : x = s[i]
  BY RangeEquality

\* The advisories before some of them are dropped as duplicates: those of the signals,
\* and the universal ones of which no signal has the code.
Heeded(e) ==
    LET integration == IntegrationAdvisories(e.signals)
        others(a) == ~\E i \in DOMAIN integration : integration[i].code = a.code
    IN integration \o Filtered(UniversalAdvisories(e), others)

\* all has an advisory for each signal and for each rule that holds, and no others.
Heeds(N, e, all) ==
    /\ all \in Seq(Advisories(N))
    /\ \A s \in Range(e.signals.items) : SignalAdvisory(s) \in Range(all)
    /\ e.signals.shape = "scalar" => SchemaError("advisory_signals_not_sequence") \in Range(all)
    /\ \A code \in RulesHolding(e) : Has(all, code)
    /\ \A a \in Range(all) :
          \/ \E s \in Range(e.signals.items) : a = SignalAdvisory(s)
          \/ a = SchemaError("advisory_signals_not_sequence") /\ e.signals.shape = "scalar"
          \/ a.code \in RulesHolding(e)

\* The advisories before they are deduplicated: Heeds, of any signals.
LEMMA HeedsAll ==
  ASSUME NEW N, NEW e, e.signals \in AllSignals(N)
  PROVE  Heeds(N, e, Heeded(e))
  <1> DEFINE integration == IntegrationAdvisories(e.signals)
             u == UniversalAdvisories(e)
             others(a) == ~\E i \in DOMAIN integration : integration[i].code = a.code
             I == {i \in 1..Len(u) : others(u[i])}
             o == Part(u, I)
             items == e.signals.items
             mistake == SchemaError("advisory_signals_not_sequence")
  <1>1. Heeded(e) = integration \o o
    <2>1. u \in Seq(Advisories(N))
      BY UniversalIs
    <2>2. DOMAIN u = 1..Len(u)
      BY <2>1
    <2> QED
      BY <2>2 DEF Heeded, Filtered
  <1>2. /\ integration \in Seq(Advisories(N))
        /\ e.signals.shape = "missing" => integration = <<>>
        /\ e.signals.shape = "scalar" => integration = <<mistake>>
        /\ e.signals.shape = "list" =>
              /\ Len(integration) = Len(items)
              /\ \A i \in 1..Len(items) : integration[i] = SignalAdvisory(items[i])
    BY IntegrationIs
  <1>3. /\ u \in Seq(Advisories(N)) /\ \A i \in 1..Len(u) : u[i].code \in RulesHolding(e)
        /\ \A code \in RulesHolding(e) : \E i \in 1..Len(u) : u[i].code = code
    BY UniversalIs
  <1>4. /\ items \in Seq(Signal(N)) /\ e.signals.shape \in {"missing", "scalar", "list"}
        /\ e.signals.shape # "list" => items = <<>>
    BY DEF AllSignals
  <1>5. DOMAIN integration = 1..Len(integration)
    BY <1>2
  <1> HIDE DEF integration, u, items, mistake
  <1>6. \A a : others(a) <=> ~\E i \in 1..Len(integration) : integration[i].code = a.code
    BY <1>5
  <1> HIDE DEF others
  <1>7. o \in Seq(Advisories(N)) /\ PartOf(u, I, o)
    BY <1>3, PartIs
  <1>8. /\ Len(o) = Cardinality(I) /\ Cardinality(I) \in Nat
        /\ \A n \in 1..Len(o) : Nth(I, n) \in I /\ o[n] = u[Nth(I, n)]
        /\ \A i \in I : Rank(I, i) \in 1..Len(o) /\ o[Rank(I, i)] = u[i]
    BY <1>3, <1>7, PartIs DEF PartOf
  <1> HIDE DEF o
  <1>9. /\ integration \o o \in Seq(Advisories(N))
        /\ Range(integration \o o) = Range(integration) \cup Range(o)
    BY <1>2, <1>7, ConcatProperties, RangeConcatenation
  <1>10. \A a : a \in Range(integration) <=> \E i \in 1..Len(integration) : a = integration[i]
    BY <1>2, InRange
  <1>11. \A a : a \in Range(o) <=> \E n \in 1..Len(o) : a = o[n]
    BY <1>7, InRange
  <1>12. \A s : s \in Range(items) <=> \E i \in 1..Len(items) : s = items[i]
    BY <1>4, InRange
  <1>13. \A a \in Range(o) : a.code \in RulesHolding(e)
    BY <1>3, <1>8, <1>11
  <1>14. \A code \in RulesHolding(e) : Has(integration \o o, code)
    <2> SUFFICES ASSUME NEW code \in RulesHolding(e) PROVE Has(integration \o o, code)
      OBVIOUS
    <2>1. PICK i \in 1..Len(u) : u[i].code = code
      BY <1>3
    <2>2. CASE others(u[i])
      <3>1. i \in I
        BY <2>2
      <3>2. o[Rank(I, i)] \in Range(o) /\ o[Rank(I, i)] = u[i]
        BY <1>8, <1>11, <3>1
      <3> QED
        BY <1>9, <2>1, <3>2 DEF Has
    <2>3. CASE ~others(u[i])
      <3>1. PICK k \in 1..Len(integration) : integration[k].code = u[i].code
        BY <1>6, <2>3
      <3>2. integration[k] \in Range(integration)
        BY <1>10
      <3> QED
        BY <1>9, <2>1, <3>1, <3>2 DEF Has
    <2> QED
      BY <2>2, <2>3
  <1>15. /\ \A s \in Range(items) : SignalAdvisory(s) \in Range(integration)
         /\ e.signals.shape = "scalar" => mistake \in Range(integration)
         /\ \A a \in Range(integration) :
               \/ \E s \in Range(items) : a = SignalAdvisory(s)
               \/ a = mistake /\ e.signals.shape = "scalar"
    <2>1. Len(<<>>) = 0 /\ Len(<<mistake>>) = 1 /\ <<mistake>>[1] = mistake
      OBVIOUS
    <2>2. 1..0 = {} /\ 1..1 = {1}
      OBVIOUS
    <2>3. CASE e.signals.shape = "missing"
      BY <1>2, <1>4, <1>10, <1>12, <2>1, <2>2, <2>3
    <2>4. CASE e.signals.shape = "scalar"
      <3>1. integration = <<mistake>> /\ items = <<>>
        BY <1>2, <1>4, <2>4
      <3>2. /\ Len(integration) = 1 /\ integration[1] = mistake /\ Len(items) = 0
        BY <2>1, <3>1
      <3>3. \A s : s \notin Range(items)
        BY <1>12, <2>2, <3>2
      <3>4. \A a : a \in Range(integration) <=> a = mistake
        BY <1>10, <2>2, <3>2
      <3> QED
        BY <2>4, <3>3, <3>4
    <2>5. CASE e.signals.shape = "list"
      BY <1>2, <1>10, <1>12, <2>5
    <2> QED
      BY <1>4, <2>3, <2>4, <2>5
  <1> QED
    BY <1>1, <1>9, <1>13, <1>14, <1>15 DEF Heeds, items, mistake

\* evaluate_fail_open, of any signals on any emission, with whatever codes: nothing but the
\* advisories changes, every usable signal is there and every other reported, no rule that
\* holds is silenced, and nothing is there without a cause or twice (FailsOpen).
THEOREM AnySignals ==
  ASSUME NEW N, Codes(N), NEW F, "advisories" \in F, NEW e, e = [f \in F |-> e[f]],
         e.advisories = <<>>, e.signals \in AllSignals(N)
  PROVE  /\ EvaluateFailOpen(e).advisories \in Seq(Advisories(N))
         /\ FailsOpen(e, EvaluateFailOpen(e))
  <1> DEFINE all == Heeded(e)
             d == Dedupe(all)
             after == EvaluateFailOpen(e)
             items == Range(e.signals.items)
             good == {s \in items : WellFormed(s)}
             mistake == SchemaError("advisory_signals_not_sequence")
             error == "heuristic_schema_error"
  <1>1. Heeds(N, e, all)
    BY HeedsAll
  <1>2. all \in Seq(Advisories(N))
    BY <1>1 DEF Heeds
  <1>3. after = [e EXCEPT !.advisories = d]
    <2>1. <<>> \o IntegrationAdvisories(e.signals) = IntegrationAdvisories(e.signals)
      BY IntegrationIs, ConcatEmptySeq
    <2> QED
      BY <2>1 DEF EvaluateFailOpen, Heeded
  <1> HIDE DEF all
  <1>4. /\ d \in Seq(Advisories(N))
        /\ \A n \in 1..Len(d) : \E i \in 1..Len(all) : d[n] = all[i]
        /\ \A i \in 1..Len(all) : \E n \in 1..Len(d) :
                d[n].code = all[i].code /\ d[n].scope = all[i].scope
        /\ \A m, n \in 1..Len(d) : m # n => <<d[m].code, d[m].scope>> # <<d[n].code, d[n].scope>>
    BY <1>2, DedupeIs
  <1> HIDE DEF d
  <1>5. after.advisories = d /\ [after EXCEPT !.advisories = e.advisories] = e
    <2> HIDE DEF after
    <2>1. after.advisories = d
      BY <1>3
    <2> QED
      BY <1>3, <2>1
  <1> HIDE DEF after
  <1>6. /\ \A a \in Range(d) : a \in Range(all)
        /\ \A a \in Range(all) : \E b \in Range(d) : b.code = a.code /\ b.scope = a.scope
    <2>1. \A a : a \in Range(d) <=> \E n \in 1..Len(d) : a = d[n]
      BY <1>4, InRange
    <2>2. \A a : a \in Range(all) <=> \E i \in 1..Len(all) : a = all[i]
      BY <1>2, InRange
    <2>3. \A a \in Range(d) : a \in Range(all)
      BY <1>4, <2>1, <2>2
    <2>4. ASSUME NEW a \in Range(all) PROVE \E b \in Range(d) : b.code = a.code /\ b.scope = a.scope
      <3>1. PICK i \in 1..Len(all) : a = all[i]
        BY <2>2
      <3>2. PICK n \in 1..Len(d) : d[n].code = all[i].code /\ d[n].scope = all[i].scope
        BY <1>4
      <3> QED
        BY <2>1, <3>1, <3>2
    <2> QED
      BY <2>3, <2>4
  <1>7. e.signals.items \in Seq(Signal(N)) /\ (e.signals.shape # "list" => e.signals.items = <<>>)
    BY DEF AllSignals
  <1>8. items \subseteq Signal(N)
    BY <1>7, RangeOfSeq
  <1> HIDE DEF items
  <1>9. ASSUME NEW s \in items
        PROVE  /\ WellFormed(s) => /\ SignalAdvisory(s).code = s.code
                                   /\ s.scope # "" => SignalAdvisory(s).scope = s.scope
                                   /\ s.code # error
               /\ ~WellFormed(s) => SignalAdvisory(s).code = error
    <2>1. s \in Signal(N) /\ s.code \in N
      BY <1>8 DEF Signal
    <2>2. s.code # error
      BY <2>1 DEF Codes
    <2> QED
      BY <2>1, <2>2, SignalIs
  <1>10. mistake.code = error
    BY SchemaErrorIs DEF SchemaReasons
  <1> HIDE DEF mistake
  <1>11. RulesHolding(e) \subseteq RuleCodes /\ error \notin RuleCodes
    BY UniversalIs DEF RuleCodes
  <1>12. /\ \A s \in items : SignalAdvisory(s) \in Range(all)
         /\ e.signals.shape = "scalar" => mistake \in Range(all)
         /\ \A code \in RulesHolding(e) : Has(all, code)
         /\ \A a \in Range(all) :
               \/ \E s \in items : a = SignalAdvisory(s)
               \/ a = mistake /\ e.signals.shape = "scalar"
               \/ a.code \in RulesHolding(e)
    BY <1>1 DEF Heeds, items, mistake
  <1> HIDE DEF error
  <1>13. \A s \in good : \E a \in Range(d) : a.code = s.code /\ (s.scope # "" => a.scope = s.scope)
    <2> SUFFICES ASSUME NEW s \in items, WellFormed(s)
                 PROVE  \E a \in Range(d) : a.code = s.code /\ (s.scope # "" => a.scope = s.scope)
      OBVIOUS
    <2>1. PICK b \in Range(d) : b.code = SignalAdvisory(s).code /\ b.scope = SignalAdvisory(s).scope
      BY <1>6, <1>12
    <2> QED
      BY <1>9, <2>1
  <1>14. \A code \in RulesHolding(e) : Has(d, code)
    BY <1>6, <1>12 DEF Has
  <1>15. Has(d, error) <=> e.signals.shape = "scalar" \/ good # items
    <2>1. ASSUME Has(d, error) PROVE e.signals.shape = "scalar" \/ good # items
      <3>1. PICK a \in Range(all) : a.code = error
        BY <1>6, <2>1 DEF Has
      <3>2. a.code \notin RulesHolding(e)
        BY <1>11, <3>1
      <3>3. ASSUME NEW s \in items, a = SignalAdvisory(s) PROVE good # items
        BY <1>9, <3>1, <3>3
      <3> QED
        BY <1>12, <3>2, <3>3
    <2>2. ASSUME e.signals.shape = "scalar" PROVE Has(d, error)
      BY <1>6, <1>10, <1>12, <2>2 DEF Has
    <2>3. ASSUME good # items PROVE Has(d, error)
      <3>1. PICK s \in items : ~WellFormed(s)
        BY <2>3
      <3>2. SignalAdvisory(s) \in Range(all) /\ SignalAdvisory(s).code = error
        BY <1>9, <1>12, <3>1
      <3> QED
        BY <1>6, <3>2 DEF Has
    <2> QED
      BY <2>1, <2>2, <2>3
  <1>16. \A a \in Range(d) : a.code \in {s.code : s \in good} \cup RulesHolding(e) \cup {error}
    <2> SUFFICES ASSUME NEW a \in Range(all), a.code \notin RulesHolding(e), a.code # error
                 PROVE  \E s \in good : a.code = s.code
      BY <1>6
    <2> QED
      BY <1>9, <1>10, <1>12
  <1>17. RulesHolding(e) = {rule[1] : rule \in {r \in Range(UniversalRules(e)) : r[2]}}
    <2> DEFINE u == UniversalRules(e)
    <2>1. u \in Seq(RuleCodes \X BOOLEAN) /\ Len(u) = 8
      BY RulesAre
    <2>2. \A r : r \in Range(u) <=> \E i \in 1..8 : r = u[i]
      <3>1. \A r : r \in Range(u) <=> \E i \in 1..Len(u) : r = u[i]
        BY <2>1, InRange
      <3> QED
        BY <2>1, <3>1
    <2>3. RulesHolding(e) = {u[i][1] : i \in {j \in 1..8 : u[j][2]}}
      BY DEF RulesHolding
    <2> HIDE DEF u
    <2>4. RulesHolding(e) = {rule[1] : rule \in {r \in Range(u) : r[2]}}
      BY <2>2, <2>3
    <2> QED
      BY <2>4 DEF u
  <1>18. \A i, j \in DOMAIN d : i # j => <<d[i].code, d[i].scope>> # <<d[j].code, d[j].scope>>
    <2>1. DOMAIN d = 1..Len(d)
      BY <1>4
    <2> QED
      BY <1>4, <2>1
  <1> HIDE DEF good
  <1>19. FailsOpen(e, after)
    BY <1>5, <1>13, <1>14, <1>15, <1>16, <1>17, <1>18 DEF FailsOpen, good, items, error
  <1> QED
    BY <1>4, <1>5, <1>19 DEF after
------------------------------------------------------------------------------
(* Batches *)

Markers == {"bot_actor", "duplicate_delivery", "generated_sync_event", "stale_source", "low_trust"}

\* Any leaf of metadata, and any observation with signals of the codes N.
AnyLeaf ==
    [key : Seq(Tokens), kind : {"text", "number"} \cup Unsanitizable, text : Seq(Tokens)]

AnyObservation(N) ==
    [ identity : [IdentityFields -> Seq(Tokens)], excerpt : Seq(Tokens), title : Seq(Tokens),
      author : Seq(Tokens), metadata : SUBSET AnyLeaf, markers : SUBSET Markers,
      signals : AllSignals(N), mode : DOMAIN DeliveryMode, oversized : BOOLEAN,
      untyped : SUBSET FreeTexts ]

\* What the sanitizer lets pass.
Accepted(obs) ==
    /\ ~obs.oversized /\ obs.untyped = {}
    /\ \A f \in IdentityFields : DetectSensitive(obs.identity[f]) = {}
    /\ \A l \in obs.metadata : l.kind \in {"text", "number"} /\ Redact(l.key) = l.key

\* guarded_sanitize_observation refuses what is not Accepted, and nothing else.
LEMMA Refusing ==
  ASSUME NEW N, NEW obs \in AnyObservation(N)
  PROVE  Refusal(obs) = "" <=> Accepted(obs)
  <1>1. ASSUME NEW l \in obs.metadata
        PROVE  /\ SensitiveKey(l) <=> Redact(l.key) # l.key
               /\ l.kind \in {"text", "number"} <=> l.kind \notin Unsanitizable
    <2>1. l.key \in Seq(Tokens) /\ l.kind \in {"text", "number"} \cup Unsanitizable
      BY DEF AnyObservation, AnyLeaf
    <2>2. Findings(l.key) = NoFindings <=> Redact(l.key) = l.key
      BY <2>1, AnyText DEF RedactsTo
    <2> QED
      BY <2>1, <2>2 DEF SensitiveKey, Unsanitizable, Unencodable
  <1>2. SensitiveIdentity(obs) = {} <=> \A f \in IdentityFields : DetectSensitive(obs.identity[f]) = {}
    BY DEF SensitiveIdentity
  <1>3. Unencodable \subseteq Unsanitizable
    BY DEF Unsanitizable
  <1>4. Refusal(obs) = "" <=>
            /\ ~\E l \in obs.metadata : l.kind \in Unencodable
            /\ ~obs.oversized /\ SensitiveIdentity(obs) = {} /\ obs.untyped = {}
            /\ ~\E l \in obs.metadata : SensitiveKey(l)
            /\ ~\E l \in obs.metadata : l.kind \in Unsanitizable
    BY DEF Refusal
  <1> QED
    BY <1>1, <1>2, <1>3, <1>4 DEF Accepted

\* Any text is redacted to a clean one of the same length.
LEMMA Redacted ==
  ASSUME NEW text \in Seq(Tokens)
  PROVE  /\ Redact(text) \in Seq(Spans) /\ Len(Redact(text)) = Len(text)
         /\ Clean(Redact(text)) /\ DetectSensitive(Redact(text)) = {}
  BY TextIsSpans, CleanAfter DEF Clean

EmissionKeys ==
    { "source_id", "title", "body", "emission_type", "adapter_version", "evidence", "provenance",
      "metadata", "author", "markers", "signals", "advisories", "receipt" }

\* The parts of what is built of an observation.
Parts(N, obs, e) ==
    /\ e.source_id = obs.identity["source_id"]
    /\ e.title = Redact(obs.title) /\ e.body = Redact(obs.excerpt) /\ e.author = Redact(obs.author)
    /\ e.emission_type = "evidence" /\ e.adapter_version = TRUE
    /\ e.evidence = <<[identity |-> Restrict(obs.identity, EvidenceFields),
                       excerpt |-> Redact(obs.excerpt), author |-> Redact(obs.author)]>>
    /\ e.provenance = ProvenanceFrom(obs)
    /\ e.metadata = {SanitizeLeaf(l) : l \in obs.metadata}
    /\ e.advisories \in Seq(Advisories(N)) /\ e.receipt = Receipt(obs)
    /\ DOMAIN e = EmissionKeys

\* What is built of any observation has Parts.
LEMMA BuiltIs ==
  ASSUME NEW N, Codes(N), NEW obs \in AnyObservation(N)
  PROVE  Parts(N, obs, Built(obs))
  <1> DEFINE s == Sanitized(obs)
             p == EmissionFrom(s)
             e == [p EXCEPT !.receipt = Receipt(obs)]
             b == EvaluateFailOpen(e)
  <1>1. /\ s.identity = obs.identity /\ s.mode = obs.mode /\ s.signals = obs.signals
        /\ s.excerpt = Redact(obs.excerpt) /\ s.title = Redact(obs.title)
        /\ s.author = Redact(obs.author) /\ s.metadata = {SanitizeLeaf(l) : l \in obs.metadata}
    BY DEF Sanitized, AnyObservation
  <1>2. ProvenanceFrom(s) = ProvenanceFrom(obs)
    BY <1>1 DEF ProvenanceFrom
  <1> HIDE DEF s
  <1>3. /\ p = [f \in EmissionKeys |-> p[f]]
        /\ p.source_id = s.identity["source_id"] /\ p.title = s.title /\ p.body = s.excerpt
        /\ p.emission_type = "evidence" /\ p.adapter_version = TRUE
        /\ p.evidence = <<[identity |-> Restrict(s.identity, EvidenceFields),
                           excerpt |-> s.excerpt, author |-> s.author]>>
        /\ p.provenance = ProvenanceFrom(s) /\ p.metadata = s.metadata /\ p.author = s.author
        /\ p.signals = s.signals /\ p.advisories = <<>>
    BY DEF EmissionFrom, EmissionKeys
  <1> HIDE DEF p
  <1>4. /\ e = [f \in EmissionKeys |-> e[f]] /\ e.receipt = Receipt(obs)
        /\ e.source_id = p.source_id /\ e.title = p.title /\ e.body = p.body
        /\ e.emission_type = p.emission_type /\ e.adapter_version = p.adapter_version
        /\ e.evidence = p.evidence /\ e.provenance = p.provenance /\ e.metadata = p.metadata
        /\ e.author = p.author /\ e.signals = p.signals /\ e.advisories = p.advisories
    BY <1>3 DEF EmissionKeys
  <1> HIDE DEF e
  <1>5. e.signals \in AllSignals(N) /\ e.advisories = <<>> /\ "advisories" \in EmissionKeys
    BY <1>1, <1>3, <1>4 DEF AnyObservation, EmissionKeys
  <1>6. b.advisories \in Seq(Advisories(N)) /\ FailsOpen(e, b)
    BY <1>4, <1>5, AnySignals
  <1>7. [b EXCEPT !.advisories = e.advisories] = e
    BY <1>6 DEF FailsOpen
  <1> HIDE DEF b
  <1>8. /\ b.source_id = e.source_id /\ b.title = e.title /\ b.body = e.body
        /\ b.emission_type = e.emission_type /\ b.adapter_version = e.adapter_version
        /\ b.evidence = e.evidence /\ b.provenance = e.provenance /\ b.metadata = e.metadata
        /\ b.author = e.author /\ b.receipt = e.receipt /\ DOMAIN b = EmissionKeys
    <2>1. DOMAIN b = EmissionKeys
      BY <1>4, <1>7
    <2>2. \A f \in EmissionKeys : f # "advisories" => b[f] = e[f]
      BY <1>7, <2>1
    <2> QED
      BY <2>1, <2>2 DEF EmissionKeys
  <1>10. Built(obs) = b
    BY DEF Built, b, e, p, s
  <1>11. b.evidence = <<[identity |-> Restrict(obs.identity, EvidenceFields),
                         excerpt |-> Redact(obs.excerpt), author |-> Redact(obs.author)]>>
    BY <1>1, <1>3, <1>4, <1>8
  <1>12. /\ b.source_id = obs.identity["source_id"] /\ b.title = Redact(obs.title)
         /\ b.body = Redact(obs.excerpt) /\ b.author = Redact(obs.author)
         /\ b.emission_type = "evidence" /\ b.adapter_version = TRUE
         /\ b.provenance = ProvenanceFrom(obs) /\ b.metadata = {SanitizeLeaf(l) : l \in obs.metadata}
    BY <1>1, <1>2, <1>3, <1>4, <1>8
  <1>13. b.receipt = Receipt(obs)
    BY <1>4, <1>8
  <1> QED
    BY <1>6, <1>8, <1>10, <1>11, <1>12, <1>13 DEF Parts

\* _sanitize_value of one leaf of the metadata.
LEMMA LeafIs ==
  ASSUME NEW l \in AnyLeaf
  PROVE  /\ SanitizeLeaf(l).key = l.key /\ SanitizeLeaf(l).kind = l.kind
         /\ SanitizeLeaf(l).text = IF l.kind = "text" THEN Redact(l.text) ELSE l.text
  BY DEF AnyLeaf, SanitizeLeaf

\* _provenance_from an observation of any mode and event.
LEMMA ProvenanceIs ==
  ASSUME NEW N, NEW obs \in AnyObservation(N)
  PROVE  LET given == ProvenanceFrom(obs) IN
         /\ given.delivery_mode \in {"webhook", "poll", "active-fetch"}
         /\ given.verification \in {"signed", "unsigned"}
         /\ given.provider_event_id \in Seq(Spans) /\ Clean(given.provider_event_id)
         /\ given.provider_resource_id \in Seq(Spans) /\ Clean(given.provider_resource_id)
  <1> DEFINE id == obs.identity["provider_event_id"]
             resource == Or(obs.identity["provider_resource_id"], obs.identity["ref"])
  <1>1. id \in Seq(Tokens) /\ resource \in Seq(Tokens)
    BY DEF AnyObservation, IdentityFields, Or
  <1>2. /\ ProvenanceFrom(obs).provider_event_id = Redact(id)
        /\ ProvenanceFrom(obs).provider_resource_id = Redact(resource)
        /\ ProvenanceFrom(obs).delivery_mode = DeliveryMode[obs.mode]
        /\ ProvenanceFrom(obs).verification \in {"signed", "unsigned"}
    BY DEF ProvenanceFrom
  <1>3. DeliveryMode[obs.mode] \in {"webhook", "poll", "active-fetch"}
    BY DEF AnyObservation, DeliveryMode
  <1> HIDE DEF id, resource
  <1> QED
    BY <1>1, <1>2, <1>3, Redacted

\* A source id that the contract and the sanitizer let pass is one harmless token.
LEMMA SourceIdIs ==
  ASSUME NEW text \in Seq(Tokens), SourceIdValid(text), DetectSensitive(text) = {}
  PROVE  text \in Seq(Spans) /\ Clean(text)
  <1>1. /\ Len(text) = 1 /\ 1 \in DOMAIN text /\ Before(text, 1) = ""
        /\ text[1] \in Words \cup Cards \cup {"digits", "secret"}
    BY DEF SourceIdValid, Before
  <1>2. text[1] # "secret" /\ ~IsPan(text, 1)
    BY <1>1 DEF DetectSensitive
  <1>3. text[1] \in Words \cup {"digits"}
    BY <1>1, <1>2 DEF IsPan
  <1>4. text[1] \notin Known
    BY <1>3 DEF Words, Known, Cards, Personal
  <1>5. \A i \in 1..Len(text) : i = 1
    <2>1. Len(text) = 1
      BY <1>1
    <2>2. \A i \in 1..1 : i = 1
      OBVIOUS
    <2> QED
      BY <2>1, <2>2
  <1> QED
    BY <1>4, <1>5, NothingKnown, TextIsSpans

\* What the contract finds wrong with what is built of an accepted observation.
LEMMA Violating ==
  ASSUME NEW N, Codes(N), NEW obs \in AnyObservation(N), Accepted(obs), NEW e, Parts(N, obs, e)
  PROVE  Violation(e) = "" <=>
            /\ SourceIdValid(obs.identity["source_id"]) /\ obs.excerpt # <<>>
            /\ \A l \in obs.metadata : l.kind = "number" => DetectSensitive(l.text) = {}
  <1> DEFINE id == Restrict(obs.identity, EvidenceFields)
             ev == [identity |-> id, excerpt |-> Redact(obs.excerpt), author |-> Redact(obs.author)]
             given == ProvenanceFrom(obs)
             numbers == {l \in obs.metadata : l.kind = "number"}
  <1>1. /\ e.source_id = obs.identity["source_id"] /\ e.title = Redact(obs.title)
        /\ e.body = Redact(obs.excerpt) /\ e.emission_type = "evidence" /\ e.adapter_version = TRUE
        /\ e.evidence = <<ev>> /\ e.provenance = given
        /\ e.metadata = {SanitizeLeaf(l) : l \in obs.metadata} /\ e.advisories \in Seq(Advisories(N))
    BY DEF Parts
  <1>2. /\ obs.identity \in [IdentityFields -> Seq(Tokens)] /\ obs.metadata \subseteq AnyLeaf
        /\ obs.title \in Seq(Tokens) /\ obs.excerpt \in Seq(Tokens) /\ obs.author \in Seq(Tokens)
    BY DEF AnyObservation
  <1>3. /\ DOMAIN id = EvidenceFields /\ EvidenceFields \subseteq IdentityFields
        /\ \A f \in EvidenceFields : id[f] = obs.identity[f]
    BY DEF Restrict, EvidenceFields
  <1>4. ev.identity = id /\ ev.excerpt = Redact(obs.excerpt) /\ ev.author = Redact(obs.author)
    OBVIOUS
  <1> HIDE DEF id, ev
  <1>5. Range(e.evidence) = {ev} /\ e.evidence # <<>>
    BY <1>1 DEF Range
  <1>6. /\ DetectSensitive(given.provider_event_id) = {}
        /\ DetectSensitive(given.provider_resource_id) = {}
    BY ProvenanceIs DEF Clean
  <1> HIDE DEF given
  <1>7. /\ DetectSensitive(Redact(obs.title)) = {} /\ DetectSensitive(Redact(obs.author)) = {}
        /\ DetectSensitive(Redact(obs.excerpt)) = {}
        /\ Redact(obs.excerpt) = <<>> <=> obs.excerpt = <<>>
    <2>1. \A t \in Seq(Tokens) : DetectSensitive(Redact(t)) = {}
      BY Redacted
    <2>2. /\ Redact(obs.excerpt) \in Seq(Spans) /\ Len(Redact(obs.excerpt)) = Len(obs.excerpt)
      BY <1>2, Redacted
    <2>3. Redact(obs.excerpt) = <<>> <=> Len(Redact(obs.excerpt)) = 0
      BY <2>2, EmptySeq
    <2>4. obs.excerpt = <<>> <=> Len(obs.excerpt) = 0
      BY <1>2, EmptySeq
    <2> QED
      BY <1>2, <2>1, <2>2, <2>3, <2>4
  <1>8. \A a \in Range(e.advisories) : DetectSensitive(AdvisoryText(a)) = {}
    <2>1. Range(e.advisories) \subseteq Advisories(N)
      BY <1>1, RangeOfSeq
    <2> QED
      BY <2>1, AdvisoryIsClean DEF Clean
  <1>9. ASSUME NEW l \in obs.metadata
        PROVE  /\ l.kind \in {"text", "number"}
               /\ DetectSensitive(SanitizeLeaf(l).key) = {}
               /\ SanitizeLeaf(l).kind = l.kind
               /\ l.kind = "text" => DetectSensitive(SanitizeLeaf(l).text) = {}
               /\ l.kind = "number" => SanitizeLeaf(l).text = l.text
    <2>1. /\ l \in AnyLeaf /\ l.key \in Seq(Tokens) /\ l.text \in Seq(Tokens)
          /\ l.kind \in {"text", "number"} /\ Redact(l.key) = l.key
      BY <1>2 DEF AnyLeaf, Accepted
    <2>2. DetectSensitive(l.key) = {} /\ DetectSensitive(Redact(l.text)) = {}
      BY <2>1, Redacted
    <2> QED
      BY <2>1, <2>2, LeafIs
  <1>10. \A f \in IdentityFields : DetectSensitive(obs.identity[f]) = {}
    BY DEF Accepted
  <1>11. (\E t \in ScreenedTexts(e) : DetectSensitive(t) # {})
            <=> \E l \in obs.metadata : l.kind = "number" /\ DetectSensitive(l.text) # {}
    <2>1. ASSUME NEW t \in ScreenedTexts(e), DetectSensitive(t) # {}
          PROVE  \E l \in obs.metadata : l.kind = "number" /\ DetectSensitive(l.text) # {}
      <3>1. \/ t \in { e.title, e.body, e.source_id, e.provenance.provider_event_id,
                      e.provenance.provider_resource_id }
            \/ \E v \in Range(e.evidence) :
                    t \in {v.excerpt, v.author} \/ \E f \in DOMAIN v.identity : t = v.identity[f]
            \/ \E l \in e.metadata : t = l.key
            \/ \E l \in e.metadata : l.kind \in {"text", "number"} /\ t = l.text
            \/ \E a \in Range(e.advisories) : t = AdvisoryText(a)
        BY <2>1 DEF ScreenedTexts
      <3>2. CASE t \in { e.title, e.body, e.source_id, e.provenance.provider_event_id,
                        e.provenance.provider_resource_id }
        <4>1. DetectSensitive(e.source_id) = {}
          BY <1>1, <1>10 DEF IdentityFields
        <4> QED
          BY <1>1, <1>6, <1>7, <2>1, <3>2, <4>1
      <3>3. CASE \E v \in Range(e.evidence) :
                    t \in {v.excerpt, v.author} \/ \E f \in DOMAIN v.identity : t = v.identity[f]
        BY <1>3, <1>4, <1>5, <1>7, <1>10, <2>1, <3>3
      <3>4. CASE \E l \in e.metadata : t = l.key
        BY <1>1, <1>9, <2>1, <3>4
      <3>5. CASE \E l \in e.metadata : l.kind \in {"text", "number"} /\ t = l.text
        BY <1>1, <1>9, <2>1, <3>5
      <3>6. CASE \E a \in Range(e.advisories) : t = AdvisoryText(a)
        BY <1>8, <2>1, <3>6
      <3> QED
        BY <3>1, <3>2, <3>3, <3>4, <3>5, <3>6
    <2>2. ASSUME NEW l \in obs.metadata, l.kind = "number", DetectSensitive(l.text) # {}
          PROVE  \E t \in ScreenedTexts(e) : DetectSensitive(t) # {}
      <3>1. /\ SanitizeLeaf(l) \in e.metadata /\ SanitizeLeaf(l).kind = "number"
            /\ SanitizeLeaf(l).text = l.text
        BY <1>1, <1>9, <2>2
      <3>2. l.text \in ScreenedTexts(e)
        BY <3>1 DEF ScreenedTexts
      <3> QED
        BY <2>2, <3>2
    <2> QED
      BY <2>1, <2>2
  <1>12. Violation(e) = "" <=>
            /\ SourceIdValid(e.source_id) /\ e.evidence # <<>>
            /\ ~\E v \in Range(e.evidence) : v.excerpt = <<>>
            /\ e.adapter_version /\ e.emission_type \in EmissionTypes
            /\ ~\E t \in ScreenedTexts(e) : DetectSensitive(t) # {}
    BY DEF Violation
  <1>13. "evidence" \in EmissionTypes
    BY DEF EmissionTypes
  <1>14. (\E v \in Range(e.evidence) : v.excerpt = <<>>) <=> obs.excerpt = <<>>
    BY <1>4, <1>5, <1>7
  <1> QED
    BY <1>1, <1>5, <1>11, <1>12, <1>13, <1>14

\* A text of one word nobody looks for is clean.
LEMMA Single ==
  ASSUME NEW T, NEW t \in T, t \notin Known
  PROVE  Clean(<<t>>)
  <1>1. <<t>> \in Seq(T) /\ Len(<<t>>) = 1 /\ <<t>>[1] = t /\ \A i \in 1..1 : i = 1
    OBVIOUS
  <1> HIDE DEF Known
  <1> QED
    BY <1>1, NothingKnown

\* What is built of a fit observation leaves with its identity and nothing sensitive.
LEMMA Leaving ==
  ASSUME NEW N, Codes(N), NEW obs \in AnyObservation(N), Fit(obs), NEW e, Parts(N, obs, e)
  PROVE  LeavesClean(obs, e)
  <1> DEFINE id == Restrict(obs.identity, EvidenceFields)
             ev == [identity |-> id, excerpt |-> Redact(obs.excerpt), author |-> Redact(obs.author)]
             given == ProvenanceFrom(obs)
             source == obs.identity["source_id"]
             content == Redact(obs.excerpt)
             title == Redact(obs.title)
  <1>1. /\ e.source_id = source /\ e.title = title /\ e.body = content /\ e.author = Redact(obs.author)
        /\ e.emission_type = "evidence" /\ e.evidence = <<ev>> /\ e.provenance = given
        /\ e.metadata = {SanitizeLeaf(l) : l \in obs.metadata} /\ e.advisories \in Seq(Advisories(N))
        /\ e.receipt.ruleset_id = "fx-sec-001-plus-pii-v1"
    BY DEF Parts, Receipt
  <1>2. /\ obs.identity \in [IdentityFields -> Seq(Tokens)] /\ obs.metadata \subseteq AnyLeaf
        /\ obs.title \in Seq(Tokens) /\ obs.excerpt \in Seq(Tokens) /\ obs.author \in Seq(Tokens)
    BY DEF AnyObservation
  <1>3. /\ \A f \in EvidenceFields : id[f] = obs.identity[f] /\ f \in IdentityFields
        /\ {"ref", "url", "source_id", "kind", "evidence_id"} \subseteq EvidenceFields
    BY DEF Restrict, EvidenceFields, IdentityFields
  <1>4. ev.identity = id /\ ev.excerpt = content /\ ev.author = Redact(obs.author)
    OBVIOUS
  <1> HIDE DEF id, ev
  <1>5. Range(e.evidence) = {ev} /\ e.evidence[1] = ev /\ Len(e.evidence) = 1
        /\ DOMAIN e.evidence = {1}
    BY <1>1 DEF Range
  <1>6. /\ given.delivery_mode \in {"webhook", "poll", "active-fetch"}
        /\ given.verification \in {"signed", "unsigned"}
        /\ given.provider_event_id \in Seq(Spans) /\ Clean(given.provider_event_id)
        /\ given.provider_resource_id \in Seq(Spans) /\ Clean(given.provider_resource_id)
    BY ProvenanceIs
  <1> HIDE DEF given
  <1>7. \A t \in Seq(Tokens) : Redact(t) \in Seq(Spans) /\ Clean(Redact(t)) /\ DetectSensitive(Redact(t)) = {}
    BY Redacted
  <1>8. source \in Seq(Tokens) /\ source \in Seq(Spans) /\ Clean(source)
    <2>1. source \in Seq(Tokens) /\ DetectSensitive(source) = {} /\ SourceIdValid(source)
      BY <1>2 DEF Fit, IdentityFields
    <2> HIDE DEF source
    <2> QED
      BY <2>1, SourceIdIs
  <1>9. /\ content \in Seq(Spans) /\ Clean(content) /\ title \in Seq(Spans) /\ Clean(title)
        /\ Clean(Redact(obs.author))
    <2>1. obs.author \in Seq(Tokens)
      BY <1>2
    <2> QED
      BY <1>2, <1>7, <2>1
  <1> HIDE DEF source, content, title
  <1>10. Clean(Or(Or(content, title), source)) /\ Clean(Or(Or(title, content), source))
    BY <1>8, <1>9 DEF Or
  <1>11. Clean(SourceUri(e))
    <2>1. /\ id["url"] = obs.identity["url"] /\ id["ref"] = obs.identity["ref"]
          /\ obs.identity["url"] \in Seq(Tokens) /\ obs.identity["ref"] \in Seq(Tokens)
      BY <1>2, <1>3
    <2>2. SourceUri(e) = Or(Redact(obs.identity["url"]), source \o Redact(obs.identity["ref"]))
      BY <1>1, <1>4, <1>5, <2>1 DEF SourceUri
    <2>3. /\ Clean(Redact(obs.identity["url"])) /\ Clean(Redact(obs.identity["ref"]))
          /\ Redact(obs.identity["ref"]) \in Seq(Spans)
      BY <1>7, <2>1
    <2>4. Clean(source \o Redact(obs.identity["ref"]))
      BY <1>8, <2>3, CleanConcat
    <2> QED
      BY <2>2, <2>3, <2>4 DEF Or
  <1>12. ASSUME NEW label \in HintLabels(e) PROVE Clean(label[2])
    <2>1. \/ label \in {<<"emission_type", <<e.emission_type>>>>, <<"delivery", <<given.delivery_mode>>>>,
                        <<"verification", <<given.verification>>>>,
                        <<"redaction_ruleset", <<e.receipt.ruleset_id>>>>}
          \/ label = <<"provider_event_id", Redact(given.provider_event_id)>>
          \/ label = <<"provider_resource_id", Redact(given.provider_resource_id)>>
          \/ \E a \in Range(e.advisories) : label = <<"advisory", AdvisoryText(a)>>
      BY <1>1, <1>12 DEF HintLabels
    <2>2. CASE label \in {<<"emission_type", <<e.emission_type>>>>, <<"delivery", <<given.delivery_mode>>>>,
                        <<"verification", <<given.verification>>>>,
                        <<"redaction_ruleset", <<e.receipt.ruleset_id>>>>}
      <3> DEFINE T == { "evidence", "webhook", "poll", "active-fetch", "signed", "unsigned",
                        "fx-sec-001-plus-pii-v1" }
      <3>1. T \cap Known = {}
        BY DEF Known, Cards, Personal
      <3>2. /\ e.emission_type \in T /\ given.delivery_mode \in T /\ given.verification \in T
            /\ e.receipt.ruleset_id \in T
        BY <1>1, <1>6
      <3> HIDE DEF T
      <3>3. \A t \in T : Clean(<<t>>)
        BY <3>1, Single
      <3>4. \E t \in T : label[2] = <<t>>
        BY <2>2, <3>2
      <3> QED
        BY <3>3, <3>4
    <2>3. CASE label = <<"provider_event_id", Redact(given.provider_event_id)>>
      <3>1. label[2] = Redact(given.provider_event_id)
        BY <2>3
      <3> QED
        BY <1>6, <3>1, CleanAfter
    <2>4. CASE label = <<"provider_resource_id", Redact(given.provider_resource_id)>>
      <3>1. label[2] = Redact(given.provider_resource_id)
        BY <2>4
      <3> QED
        BY <1>6, <3>1, CleanAfter
    <2>5. CASE \E a \in Range(e.advisories) : label = <<"advisory", AdvisoryText(a)>>
      <3>1. PICK a \in Range(e.advisories) : label[2] = AdvisoryText(a)
        BY <2>5
      <3>2. a \in Advisories(N)
        BY <1>1, RangeOfSeq
      <3> QED
        BY <3>1, <3>2, AdvisoryIsClean
    <2> QED
      BY <2>1, <2>2, <2>3, <2>4, <2>5
  <1>13. \A t \in EnvelopeTexts(Envelope(e)) : Clean(t)
    <2> DEFINE env == Envelope(e)
               excerpts == Map(e.evidence, LAMBDA v : v.excerpt)
    <2>1. /\ env.source_system = source /\ env.source_uri = SourceUri(e)
          /\ env.content = Or(Or(content, title), source) /\ env.title = Or(Or(title, content), source)
          /\ env.labels = HintLabels(e) /\ env.excerpts = excerpts
      BY <1>1 DEF Envelope
    <2>2. Range(excerpts) = {content}
      <3>1. excerpts = [i \in {1} |-> e.evidence[i].excerpt]
        BY <1>5 DEF Map
      <3> QED
        BY <1>4, <1>5, <3>1 DEF Range
    <2> HIDE DEF env, excerpts
    <2>3. \A t \in EnvelopeTexts(env) :
             \/ t \in {env.source_system, env.source_uri, env.content, env.title}
             \/ t \in Range(env.excerpts) \/ \E label \in env.labels : t = label[2]
      BY DEF EnvelopeTexts
    <2>4. \A t \in EnvelopeTexts(env) : Clean(t)
      BY <1>8, <1>9, <1>10, <1>11, <1>12, <2>1, <2>2, <2>3
    <2> QED
      BY <2>4 DEF env
  <1>14. \A t \in {e.title, e.body, e.author} \cup {l.text : l \in {m \in e.metadata : m.kind = "text"}} :
            Clean(t)
    <2>1. ASSUME NEW l \in obs.metadata, SanitizeLeaf(l).kind = "text" PROVE Clean(SanitizeLeaf(l).text)
      <3>1. l \in AnyLeaf /\ l.text \in Seq(Tokens)
        BY <1>2 DEF AnyLeaf
      <3> QED
        BY <1>7, <2>1, <3>1, LeafIs
    <2> QED
      BY <1>1, <1>9, <2>1
  <1>15. SdkEvidence(e).ok /\ SdkEvidence(e).status = "raw"
    <2>1. \A f \in {"source_id", "ref", "url", "kind"} : DetectSensitive(id[f]) = {}
      BY <1>3 DEF Fit
    <2>2. DetectSensitive(content) = {}
      BY <1>9 DEF Clean
    <2> QED
      BY <1>4, <1>5, <2>1, <2>2 DEF SdkEvidence
  <1> QED
    BY <1>3, <1>4, <1>5, <1>13, <1>14, <1>15 DEF LeavesClean
\* Fit to leave is what the sanitizer lets pass and the contract finds nothing wrong with.
LEMMA FitIs ==
  ASSUME NEW N, Codes(N), NEW obs \in AnyObservation(N)
  PROVE  Fit(obs) <=> Refusal(obs) = "" /\ Violation(Built(obs)) = ""
  <1> DEFINE contracted ==
            /\ SourceIdValid(obs.identity["source_id"]) /\ obs.excerpt # <<>>
            /\ \A l \in obs.metadata : l.kind = "number" => DetectSensitive(l.text) = {}
  <1>1. Refusal(obs) = "" <=> Accepted(obs)
    BY Refusing
  <1>2. Accepted(obs) => (Violation(Built(obs)) = "" <=> contracted)
    BY BuiltIs, Violating
  <1>3. Fit(obs) <=> Accepted(obs) /\ contracted
    BY DEF Fit, Accepted
  <1> HIDE DEF contracted
  <1> QED
    BY <1>1, <1>2, <1>3

\* The first reason that there is is one, and there is none if and only if all are "".
LEMMA FirstOfIs ==
  ASSUME NEW n \in Nat, NEW reasons, DOMAIN reasons = 1..n
  PROVE  FirstOf(reasons) = "" <=> \A i \in 1..n : reasons[i] = ""
  <1> DEFINE given == {i \in 1..n : reasons[i] # ""}
  <1>1. FirstOf(reasons) = IF given = {} THEN "" ELSE reasons[Nth(given, 1)]
    BY DEF FirstOf
  <1>2. IsFiniteSet(given) /\ given \subseteq Nat /\ Cardinality(given) \in Nat
    <2>1. IsFiniteSet(1..n)
      BY FS_Interval
    <2>2. given \subseteq 1..n
      OBVIOUS
    <2> HIDE DEF given
    <2>3. IsFiniteSet(given)
      BY <2>1, <2>2, FS_Subset
    <2> QED
      BY <2>2, <2>3, FS_CardinalityType
  <1>3. ASSUME given # {} PROVE Nth(given, 1) \in given
    <2> HIDE DEF given
    <2>1. Cardinality(given) # 0
      BY <1>2, <1>3, FS_EmptySet
    <2>2. 1 \in 1..Cardinality(given)
      BY <1>2, <2>1
    <2> QED
      BY <1>2, <2>2, NthIs
  <1>4. CASE given = {}
    BY <1>1, <1>4
  <1>5. CASE given # {}
    <2>1. reasons[Nth(given, 1)] # "" /\ Nth(given, 1) \in 1..n
      BY <1>3, <1>5
    <2> HIDE DEF given
    <2>2. FirstOf(reasons) = reasons[Nth(given, 1)]
      BY <1>1, <1>5
    <2> QED
      BY <2>1, <2>2
  <1> QED
    BY <1>4, <1>5

\* normalize, of any batch of any observations: it passes if and only if each of them is
\* fit, and then nothing sensitive leaves in any emission, envelope or export (PassesFit);
\* the emissions are what each observation alone becomes.
THEOREM AnyBatch ==
  ASSUME NEW N, Codes(N), NEW batch \in Seq(AnyObservation(N))
  PROVE  /\ PassesFit(batch, Normalize(batch))
         /\ Normalize(batch).ok =>
                \A i \in 1..Len(batch) : Normalize(batch).emissions[i] = Built(batch[i])
  <1> DEFINE n == Len(batch)
             refusals == Map(batch, Refusal)
             built == Map(batch, Built)
             violations == Map(built, Violation)
             result == Normalize(batch)
  <1>1. n \in Nat /\ DOMAIN batch = 1..n /\ \A i \in 1..n : batch[i] \in AnyObservation(N)
    BY ElementOfSeq
  <1>2. DOMAIN refusals = 1..n /\ \A i \in 1..n : refusals[i] = Refusal(batch[i])
    BY <1>1 DEF Map
  <1>3. /\ DOMAIN built = 1..n /\ Len(built) = n
        /\ \A i \in 1..n : built[i] = Built(batch[i])
    <2> DEFINE b == [i \in 1..n |-> Built(batch[i])]
    <2>1. built = b
      BY <1>1 DEF Map
    <2>2. DOMAIN b = 1..n /\ Len(b) = n /\ \A i \in 1..n : b[i] = Built(batch[i])
      BY <1>1
    <2> HIDE DEF b
    <2> QED
      BY <2>1, <2>2
  <1> HIDE DEF built
  <1>4. DOMAIN violations = 1..n /\ \A i \in 1..n : violations[i] = Violation(Built(batch[i]))
    BY <1>3 DEF Map
  <1>5. /\ FirstOf(refusals) = "" <=> \A i \in 1..n : Refusal(batch[i]) = ""
        /\ FirstOf(violations) = "" <=> \A i \in 1..n : Violation(Built(batch[i])) = ""
    <2>1. FirstOf(refusals) = "" <=> \A i \in 1..n : refusals[i] = ""
      BY <1>1, <1>2, FirstOfIs
    <2>2. FirstOf(violations) = "" <=> \A i \in 1..n : violations[i] = ""
      BY <1>1, <1>4, FirstOfIs
    <2> QED
      BY <1>2, <1>4, <2>1, <2>2
  <1>6. result = IF FirstOf(refusals) # "" THEN Failed(FirstOf(refusals))
                 ELSE IF FirstOf(violations) # "" THEN Failed(FirstOf(violations))
                 ELSE [ok |-> TRUE, reason |-> "", emissions |-> built]
    BY DEF Normalize, Validate, Validated, built
  <1> HIDE DEF refusals, violations, result
  <1>7. \A reason : /\ Failed(reason).ok = FALSE /\ Failed(reason).reason = reason
                     /\ Failed(reason).emissions = <<>>
    BY DEF Failed
  <1>8. /\ result.ok <=> FirstOf(refusals) = "" /\ FirstOf(violations) = ""
        /\ result.ok => result.emissions = built
        /\ ~result.ok => result.emissions = <<>> /\ result.reason # ""
    BY <1>6, <1>7
  <1>9. \A i \in 1..n : Fit(batch[i]) <=> Refusal(batch[i]) = "" /\ Violation(Built(batch[i])) = ""
    BY <1>1, FitIs
  <1>10. result.ok <=> \A i \in 1..n : Fit(batch[i])
    BY <1>5, <1>8, <1>9
  <1>11. ASSUME NEW i \in 1..n, Fit(batch[i]) PROVE LeavesClean(batch[i], built[i])
    BY <1>1, <1>3, <1>11, BuiltIs, Leaving
  <1> QED
    BY <1>1, <1>3, <1>8, <1>10, <1>11 DEF PassesFit, result
------------------------------------------------------------------------------
(* Conformance entries *)

\* Every connector's acquirer wants a sound receipt, and a replay of what is a webhook's.
LEMMA AcquiresGenuine ==
  ASSUME NEW entry, Acquires(entry)
  PROVE  Genuine(entry)
  <1> DEFINE c == <<entry.connector, entry.mode>>
             needs == Acquirers[c]
  <1>1. c \in DOMAIN Acquirers /\ ReceiptSound(entry.receipt, needs[1]) /\ needs[2] \subseteq entry.sound
    BY DEF Acquires
  <1>2. /\ needs[1] = TRUE \/ entry.mode = "passive_import"
        /\ "parses" \in needs[2] /\ (entry.mode = "webhook" => "replay" \in needs[2])
    <2>1. c[2] = entry.mode /\ DOMAIN Acquirers =
            { <<"github", "webhook">>, <<"linear", "webhook">>, <<"linear", "graphql_poll">>,
              <<"local_directory", "passive_import">>, <<"google_drive", "document_fetch">> }
      BY DEF Acquirers
    <2> HIDE DEF c
    <2>2. CASE c = <<"github", "webhook">>
      <3>1. needs = <<TRUE, {"replay", "parses"}>>
        BY <2>2 DEF Acquirers
      <3> QED
        BY <3>1
    <2>3. CASE c = <<"linear", "webhook">>
      <3>1. needs = <<TRUE, {"replay", "timestamp", "parses"}>>
        BY <2>3 DEF Acquirers
      <3> QED
        BY <3>1
    <2>4. CASE c = <<"linear", "graphql_poll">>
      <3>1. needs = <<TRUE, {"no errors", "nodes", "parses"}>>
        BY <2>4 DEF Acquirers
      <3>2. entry.mode = "graphql_poll"
        BY <2>1, <2>4
      <3> HIDE DEF needs
      <3> QED
        BY <3>1, <3>2
    <2>5. CASE c = <<"local_directory", "passive_import">>
      <3>1. needs = <<FALSE, {"inside root", "parses"}>>
        BY <2>5 DEF Acquirers
      <3>2. entry.mode = "passive_import"
        BY <2>1, <2>5
      <3> HIDE DEF needs
      <3> QED
        BY <3>1, <3>2
    <2>6. CASE c = <<"google_drive", "document_fetch">>
      <3>1. needs = <<TRUE, {"asked document", "parses"}>>
        BY <2>6 DEF Acquirers
      <3>2. entry.mode = "document_fetch"
        BY <2>1, <2>6
      <3> HIDE DEF needs
      <3> QED
        BY <3>1, <3>2
    <2> QED
      BY <1>1, <2>1, <2>2, <2>3, <2>4, <2>5, <2>6
  <1> HIDE DEF needs, c
  <1> QED
    BY <1>1, <1>2 DEF Genuine, ReceiptSound

Stages ==
    { "acquisition_verification", "parsed_facts", "redaction_receipt", "integration_advisories",
      "observation", "universal_advisories", "adapter_emission", "external_ingest_envelope",
      "delivery_or_cursor", "redaction", "universal_normalization", "gateway_sink" }

\* The names of the goldens are apart, and none is that of another stage.
LEMMA StagesAre ==
  /\ Len(GoldenStages) = 9 /\ GoldenStages \in Seq(Stages)
  /\ \A i, j \in 1..9 : i # j => GoldenStages[i] # GoldenStages[j]
  /\ \A i \in 1..9 : GoldenStages[i] \notin {"", "redaction", "universal_normalization", "gateway_sink"}
  <1> DEFINE g == GoldenStages
  <1>1. /\ Len(g) = 9 /\ g[1] = "acquisition_verification" /\ g[2] = "parsed_facts"
        /\ g[3] = "redaction_receipt" /\ g[4] = "integration_advisories" /\ g[5] = "observation"
        /\ g[6] = "universal_advisories" /\ g[7] = "adapter_emission"
        /\ g[8] = "external_ingest_envelope" /\ g[9] = "delivery_or_cursor"
    BY DEF GoldenStages
  <1>2. g \in Seq(Stages)
    BY DEF GoldenStages, Stages
  <1> HIDE DEF g
  <1>3. \A i \in 1..9 : \/ i = 1 \/ i = 2 \/ i = 3 \/ i = 4 \/ i = 5
                        \/ i = 6 \/ i = 7 \/ i = 8 \/ i = 9
    OBVIOUS
  <1>4. ASSUME NEW i \in 1..9, NEW j \in 1..9, i # j PROVE g[i] # g[j]
    BY <1>1, <1>3, <1>4
  <1>5. \A i \in 1..9 : g[i] \notin {"", "redaction", "universal_normalization", "gateway_sink"}
    BY <1>1, <1>3
  <1> QED
    BY <1>1, <1>2, <1>4, <1>5 DEF g

\* The stages passed before a mismatch are the ones before it.
LEMMA PassedIs ==
  ASSUME NEW n \in 0..9
  PROVE  /\ Passed(n) \in Seq(Stages)
         /\ \A stage \in Range(Passed(n)) :
                stage \in {"redaction", "universal_normalization"} \/ \E j \in 1..n : stage = GoldenStages[j]
  <1> DEFINE first == <<"redaction", "universal_normalization">>
             rest == SubSeq(GoldenStages, 1, n)
  <1>1. /\ rest \in Seq(Stages) /\ Len(rest) = n /\ \A i \in 1..n : rest[i] = GoldenStages[i]
    <2>1. GoldenStages \in Seq(Stages) /\ Len(GoldenStages) = 9
      BY StagesAre
    <2>2. \A i \in 1..9 : GoldenStages[i] \in Stages
      BY <2>1, ElementOfSeq
    <2>3. \A i \in 1..n : GoldenStages[i] \in Stages
      BY <2>2
    <2>4. /\ rest \in Seq(Stages) /\ Len(rest) = IF 1 <= n THEN n - 1 + 1 ELSE 0
          /\ \A i \in 1..(n - 1 + 1) : rest[i] = GoldenStages[1 + i - 1]
      BY <2>3, SubSeqProperties
    <2>5. n - 1 + 1 = n /\ (IF 1 <= n THEN n - 1 + 1 ELSE 0) = n /\ \A i \in 1..n : 1 + i - 1 = i
      OBVIOUS
    <2> HIDE DEF rest
    <2> QED
      BY <2>4, <2>5
  <1>2. first \in Seq(Stages) /\ Len(first) = 2 /\ \A i \in 1..2 : first[i] \in {"redaction", "universal_normalization"}
    <2>1. first \in Seq(Stages) /\ Len(first) = 2 /\ first[1] = "redaction" /\ first[2] = "universal_normalization"
      BY DEF Stages
    <2>2. \A i \in 1..2 : i = 1 \/ i = 2
      OBVIOUS
    <2> HIDE DEF first
    <2> QED
      BY <2>1, <2>2
  <1>3. Passed(n) = first \o rest
    BY DEF Passed
  <1> HIDE DEF first, rest
  <1>4. Range(Passed(n)) = Range(first) \cup Range(rest)
    BY <1>1, <1>2, <1>3, RangeConcatenation
  <1>5. \A x \in Range(first) : x \in {"redaction", "universal_normalization"}
    BY <1>2, InRange
  <1>6. \A x \in Range(rest) : \E j \in 1..n : x = GoldenStages[j]
    <2>1. \A x : x \in Range(rest) <=> \E i \in 1..Len(rest) : x = rest[i]
      BY <1>1, InRange
    <2> QED
      BY <1>1, <2>1
  <1>7. Passed(n) \in Seq(Stages)
    BY <1>1, <1>2, <1>3, ConcatProperties
  <1> QED
    BY <1>4, <1>5, <1>6, <1>7

\* The goldens before the n-th are met, and the n-th, if there is one, is not.
Mismatches(artifacts, expected, n) ==
    /\ n \in 1..10
    /\ n <= 9 => artifacts[GoldenStages[n]] # expected[GoldenStages[n]]
    /\ \A j \in 1..(n - 1) : artifacts[GoldenStages[j]] = expected[GoldenStages[j]]

\* _compare_golden stops at the first stage that differs.
LEMMA FirstMismatchIs ==
  ASSUME NEW artifacts, NEW expected
  PROVE  Mismatches(artifacts, expected, FirstMismatch(artifacts, expected))
  <1> DEFINE same(i) == artifacts[GoldenStages[i]] = expected[GoldenStages[i]]
             T == {i \in 1..10 : i <= 9 => ~same(i)}
             Is(i) == (i <= Len(GoldenStages) => ~same(i)) /\ \A j \in 1..(i - 1) : same(j)
  <1>1. T \subseteq Nat /\ T # {} /\ T \subseteq 1..10
    <2>1. 10 \in T
      OBVIOUS
    <2> QED
      BY <2>1
  <1>2. PICK m \in T : \A k \in T : m <= k
    <2> HIDE DEF T
    <2> QED
      BY <1>1, Smallest
  <1>3. \A j \in 1..(m - 1) : same(j)
    <2> SUFFICES ASSUME NEW j \in 1..(m - 1), ~same(j) PROVE FALSE
      OBVIOUS
    <2>1. j \in T /\ j < m
      BY <1>1, <1>2
    <2> HIDE DEF T
    <2> QED
      BY <1>1, <1>2, <2>1
  <1>4. Len(GoldenStages) = 9
    BY StagesAre
  <1>5. \E i \in 1..(Len(GoldenStages) + 1) : Is(i)
    BY <1>1, <1>2, <1>3, <1>4
  <1> DEFINE n == FirstMismatch(artifacts, expected)
  <1>6. n \in 1..(Len(GoldenStages) + 1) /\ Is(n)
    <2>1. n = CHOOSE i \in 1..(Len(GoldenStages) + 1) : Is(i)
      BY DEF FirstMismatch
    <2> HIDE DEF Is, n
    <2> QED
      BY <1>5, <2>1
  <1> HIDE DEF n
  <1> QED
    BY <1>4, <1>6 DEF Mismatches, n
\* An observation alone is normalized if and only if it is fit, to what is built of it.
LEMMA NormalizedAlone ==
  ASSUME NEW N, Codes(N), NEW obs \in AnyObservation(N)
  PROVE  /\ Normalize(<<obs>>).ok <=> Fit(obs)
         /\ Fit(obs) => /\ Normalize(<<obs>>).emissions[1] = Built(obs)
                        /\ Normalize(<<obs>>).emissions[1].receipt.input_digest = ObservationPayload(obs)
  <1> DEFINE batch == <<obs>>
  <1>1. batch \in Seq(AnyObservation(N)) /\ Len(batch) = 1 /\ DOMAIN batch = {1} /\ batch[1] = obs
    OBVIOUS
  <1> HIDE DEF batch
  <1>2. /\ PassesFit(batch, Normalize(batch))
        /\ Normalize(batch).ok =>
                \A i \in 1..Len(batch) : Normalize(batch).emissions[i] = Built(batch[i])
    BY <1>1, AnyBatch
  <1>3. Normalize(batch).ok <=> Fit(obs)
    BY <1>1, <1>2 DEF PassesFit
  <1>4. Fit(obs) => Normalize(batch).emissions[1] = Built(obs)
    BY <1>1, <1>2, <1>3
  <1>5. Built(obs).receipt.input_digest = ObservationPayload(obs)
    <2>1. Built(obs).receipt = Receipt(obs)
      BY BuiltIs DEF Parts
    <2>2. Receipt(obs).input_digest = ObservationPayload(obs)
      BY DEF Receipt
    <2> QED
      BY <2>1, <2>2
  <1> QED
    BY <1>3, <1>4, <1>5 DEF batch

\* A report with what tells it from the others.
Reported(r, passed, raised, sent, reason, failed) ==
    /\ r.component_passed = passed /\ r.raised = raised /\ r.sent = sent
    /\ r.reason_code = reason /\ r.failed_stage = failed
    /\ failed # "" => r.gateway_state = "unproven"
    /\ failed \notin Range(r.stages_passed)

\* The report of an entry that was not graded, whatever its reason.
LEMMA ReportIs ==
  /\ Reported(Report, FALSE, FALSE, FALSE, "", "")
  /\ \A reason : Reported([Report EXCEPT !.reason_code = reason], FALSE, FALSE, FALSE, reason, "")
  /\ \A reason, stage : Reported([Report EXCEPT !.reason_code = reason, !.failed_stage = stage],
                                 FALSE, FALSE, FALSE, reason, stage)
  <1>1. Range(<<>>) = {}
    BY DEF Range
  <1>2. /\ \A reason : [Report EXCEPT !.reason_code = reason].stages_passed = <<>>
        /\ \A reason, stage :
                [Report EXCEPT !.reason_code = reason, !.failed_stage = stage].stages_passed = <<>>
        /\ Report.stages_passed = <<>>
    BY DEF Report
  <1> QED
    BY <1>1, <1>2 DEF Report, Reported

\* What is reported of the comparison: the first mismatch, or what the sink did.
LEMMA ComparedIs ==
  ASSUME NEW n \in 1..10, NEW sink \in {"none", "raises", "gateway", "collecting"}
  PROVE  /\ n <= 9 => Reported(Compared(n, sink), FALSE, FALSE, FALSE, "golden_mismatch", GoldenStages[n])
         /\ n = 10 /\ sink = "none" =>
                Reported(Compared(n, sink), TRUE, FALSE, FALSE, "gateway_unproven", "")
         /\ n = 10 /\ sink = "raises" => Reported(Compared(n, sink), FALSE, TRUE, FALSE, "", "")
         /\ n = 10 /\ sink \in {"gateway", "collecting"} => Reported(Compared(n, sink), TRUE, FALSE, TRUE, "", "")
  <1> DEFINE passed == Passed(n - 1)
  <1>1. Len(GoldenStages) = 9
    BY StagesAre
  <1>2. /\ passed \in Seq(Stages)
        /\ \A stage \in Range(passed) : \/ stage \in {"redaction", "universal_normalization"}
                                        \/ \E j \in 1..(n - 1) : stage = GoldenStages[j]
    <2>1. n - 1 \in 0..9
      OBVIOUS
    <2> QED
      BY <2>1, PassedIs
  <1> HIDE DEF passed
  <1>0. \A i \in 1..9 : GoldenStages[i] \notin {"", "redaction", "universal_normalization", "gateway_sink"}
    BY StagesAre
  <1>3. "" \notin Range(passed)
    <2>1. \A j \in 1..(n - 1) : j \in 1..9
      OBVIOUS
    <2>2. \A j \in 1..(n - 1) : GoldenStages[j] # ""
      BY <1>0, <2>1
    <2> QED
      BY <1>2, <2>2
  <1>4. n <= 9 => GoldenStages[n] \notin Range(passed)
    <2> SUFFICES ASSUME n <= 9, GoldenStages[n] \in Range(passed) PROVE FALSE
      OBVIOUS
    <2>0. n \in 1..9
      OBVIOUS
    <2>1. GoldenStages[n] \notin {"redaction", "universal_normalization"}
      BY <1>0, <2>0
    <2>2. PICK j \in 1..(n - 1) : GoldenStages[n] = GoldenStages[j]
      BY <1>2, <2>1
    <2>3. j \in 1..9 /\ n \in 1..9 /\ j # n
      OBVIOUS
    <2>4. \A i, k \in 1..9 : i # k => GoldenStages[i] # GoldenStages[k]
      BY StagesAre
    <2> QED
      BY <2>2, <2>3, <2>4
  <1>5. "" \notin Range(Append(passed, "gateway_sink"))
    <2> DEFINE s == Append(passed, "gateway_sink")
               k == Len(passed)
    <2>1. "gateway_sink" \in Stages
      BY DEF Stages
    <2>2. /\ k \in Nat /\ DOMAIN s = 1..(k + 1) /\ s[k + 1] = "gateway_sink"
          /\ \A i \in 1..k : s[i] = passed[i] /\ i \in DOMAIN passed
      BY <1>2, <2>1
    <2> HIDE DEF s
    <2>3. \A i \in 1..k : s[i] # ""
      BY <1>3, <2>2 DEF Range
    <2>4. \A i \in 1..(k + 1) : i \in 1..k \/ i = k + 1
      BY <2>2
    <2>5. \A i \in DOMAIN s : s[i] # ""
      BY <2>2, <2>3, <2>4
    <2>6. "" \notin Range(s)
      BY <2>5 DEF Range
    <2> QED
      BY <2>6 DEF s
  <1>6. ASSUME n <= 9
         PROVE  Reported(Compared(n, sink), FALSE, FALSE, FALSE, "golden_mismatch", GoldenStages[n])
    <2>1. Compared(n, sink) =
             [Report EXCEPT !.reason_code = "golden_mismatch", !.failed_stage = GoldenStages[n],
                            !.stages_passed = passed]
      BY <1>1, <1>6 DEF Compared, passed
    <2> QED
      BY <1>4, <1>6, <2>1 DEF Report, Reported
  <1>7. ASSUME n = 10, sink = "none"
         PROVE  Reported(Compared(n, sink), TRUE, FALSE, FALSE, "gateway_unproven", "")
    <2>1. Compared(n, sink) =
             [Report EXCEPT !.reason_code = "gateway_unproven", !.component_passed = TRUE,
                            !.stages_passed = passed]
      BY <1>1, <1>7 DEF Compared, passed
    <2> QED
      BY <1>3, <2>1 DEF Report, Reported
  <1>8. ASSUME n = 10, sink = "raises"
         PROVE  Reported(Compared(n, sink), FALSE, TRUE, FALSE, "", "")
    <2>1. Compared(n, sink) = [Report EXCEPT !.raised = TRUE, !.stages_passed = passed]
      BY <1>1, <1>8 DEF Compared, passed
    <2> QED
      BY <1>3, <2>1 DEF Report, Reported
  <1>9. ASSUME n = 10, sink \in {"gateway", "collecting"}
         PROVE  Reported(Compared(n, sink), TRUE, FALSE, TRUE, "", "")
    <2>1. Compared(n, sink) =
             [Report EXCEPT !.component_passed = TRUE, !.gateway_state = "delivered", !.sent = TRUE,
                            !.stages_passed = Append(passed, "gateway_sink")]
      BY <1>1, <1>9 DEF Compared, passed
    <2> QED
      BY <1>5, <2>1 DEF Report, Reported
  <1> QED
    BY <1>6, <1>7, <1>8, <1>9

\* An entry whose goldens are the artifacts of a recording of a fit observation; what is
\* digested of its observation tells it from that one.
AnyEntry(N, entry) ==
    /\ entry.observation \in AnyObservation(N) /\ entry.golden.observation \in AnyObservation(N)
    /\ Fit(entry.golden.observation) /\ entry.expected = Artifacts(entry.golden)
    /\ ObservationPayload(entry.observation) = ObservationPayload(entry.golden.observation) =>
            entry.observation = entry.golden.observation

\* The artifacts of an entry are those of the one emission of its observation.
LEMMA ArtifactsAre ==
  ASSUME NEW entry
  PROVE  LET e == Normalize(<<entry.observation>>).emissions[1]
             a == Artifacts(entry)
         IN /\ a.acquisition_verification = entry.receipt /\ a.redaction_receipt = e.receipt
            /\ a = ArtifactsOf(entry, e)
  BY DEF Artifacts, ArtifactsOf

\* run_entry, of any entry with any sink: it passes only what the real receiver acquired
\* and what comes out as committed, delivers nothing else, and gives every failure its
\* reason (Grades).
THEOREM AnyEntryGraded ==
  ASSUME NEW N, Codes(N), NEW entry, AnyEntry(N, entry),
         NEW sink \in {"none", "raises", "gateway", "collecting"}
  PROVE  Grades(entry, sink, RunEntry(entry, sink))
  <1> DEFINE obs == entry.observation
             was == entry.golden.observation
             a == Artifacts(entry)
             x == entry.expected
             n == FirstMismatch(a, x)
             r == RunEntry(entry, sink)
             passes == r.component_passed \/ r.raised
             collected == entry.implemented /\ entry.recorded /\ ArtifactsFailure(entry) = ""
  <1>1. /\ obs \in AnyObservation(N) /\ was \in AnyObservation(N) /\ Fit(was)
        /\ x = Artifacts(entry.golden)
        /\ ObservationPayload(obs) = ObservationPayload(was) => obs = was
    BY DEF AnyEntry
  <1>2. ArtifactsFailure(entry) = "" <=> Acquires(entry) /\ Fit(obs)
    <2>1. Fit(obs) <=> Refusal(obs) = "" /\ Normalize(<<obs>>).ok
      BY <1>1, FitIs, NormalizedAlone
    <2> QED
      BY <2>1 DEF ArtifactsFailure
  <1>3. /\ x.acquisition_verification = entry.golden.receipt
        /\ x.redaction_receipt.input_digest = ObservationPayload(was)
    <2>1. Normalize(<<was>>).emissions[1].receipt.input_digest = ObservationPayload(was)
      BY <1>1, NormalizedAlone
    <2> QED
      BY <1>1, <2>1, ArtifactsAre
  <1>4. /\ a.acquisition_verification = entry.receipt
        /\ Fit(obs) => a.redaction_receipt.input_digest = ObservationPayload(obs)
    <2>1. Fit(obs) => Normalize(<<obs>>).emissions[1].receipt.input_digest = ObservationPayload(obs)
      BY <1>1, NormalizedAlone
    <2> QED
      BY <2>1, ArtifactsAre
  <1>5. Mismatches(a, x, n)
    BY FirstMismatchIs
  <1>6. Conforms(entry) <=> entry.receipt = entry.golden.receipt /\ obs = was
    BY <1>1, <1>3 DEF Conforms
  <1>7. ASSUME Conforms(entry) PROVE a = x
    <2>1. a = ArtifactsOf(entry, Normalize(<<obs>>).emissions[1])
      BY ArtifactsAre
    <2>2. x = ArtifactsOf(entry.golden, Normalize(<<was>>).emissions[1])
      BY <1>1, ArtifactsAre
    <2>3. entry.receipt = entry.golden.receipt /\ entry.observation = entry.golden.observation
      BY <1>6, <1>7
    <2> QED
      BY <2>1, <2>2, <2>3, ZenonT(40) DEF ArtifactsOf
  <1> HIDE DEF a, x, n
  <1>8. ASSUME collected PROVE n = 10 <=> Conforms(entry)
    <2>1. Fit(obs)
      BY <1>2, <1>8
    <2>2. ASSUME n = 10 PROVE Conforms(entry)
      <3>1. 1 \in 1..9 /\ 3 \in 1..9 /\ 10 - 1 = 9
        OBVIOUS
      <3>2. a[GoldenStages[1]] = x[GoldenStages[1]] /\ a[GoldenStages[3]] = x[GoldenStages[3]]
        BY <1>5, <2>2, <3>1 DEF Mismatches
      <3>3. GoldenStages[1] = "acquisition_verification" /\ GoldenStages[3] = "redaction_receipt"
        BY DEF GoldenStages
      <3>4. a.acquisition_verification = x.acquisition_verification /\ a.redaction_receipt = x.redaction_receipt
        BY <3>2, <3>3
      <3> QED
        BY <1>1, <1>3, <1>4, <1>6, <2>1, <3>4
    <2>3. ASSUME Conforms(entry) PROVE n = 10
      <3>1. a = x
        BY <1>7, <2>3
      <3> QED
        BY <1>5, <3>1 DEF Mismatches
    <2> QED
      BY <2>2, <2>3
  <1>9. ASSUME ~entry.implemented PROVE Reported(r, FALSE, FALSE, FALSE, "implementation_missing", "")
    BY <1>9, ReportIs DEF RunEntry
  <1>10. ASSUME entry.implemented, ~entry.recorded
         PROVE  Reported(r, FALSE, FALSE, FALSE, "capture_missing", "")
    BY <1>10, ReportIs DEF RunEntry
  <1>11. ASSUME entry.implemented, entry.recorded, ArtifactsFailure(entry) # ""
         PROVE  \E stage : Reported(r, FALSE, FALSE, FALSE, ArtifactsFailure(entry), stage)
    <2>1. r = [Report EXCEPT !.reason_code = ArtifactsFailure(entry),
                             !.failed_stage = FailedStage[ArtifactsFailure(entry)]]
      BY <1>11 DEF RunEntry, Collected
    <2> HIDE DEF r
    <2> QED
      BY <2>1, ReportIs
  <1>12. ASSUME collected PROVE r = Compared(n, sink)
    BY <1>12 DEF RunEntry, Collected, a, x, n
  <1>13. n \in 1..10 /\ (n <= 9 \/ n = 10)
    BY <1>5 DEF Mismatches
  <1> HIDE DEF r
  <1>14. ASSUME collected, n <= 9
         PROVE  Reported(r, FALSE, FALSE, FALSE, "golden_mismatch", GoldenStages[n])
    BY <1>12, <1>13, <1>14, ComparedIs
  <1>15. ASSUME collected, n = 10
         PROVE  \/ sink = "none" /\ Reported(r, TRUE, FALSE, FALSE, "gateway_unproven", "")
                \/ sink = "raises" /\ Reported(r, FALSE, TRUE, FALSE, "", "")
                \/ sink \in {"gateway", "collecting"} /\ Reported(r, TRUE, FALSE, TRUE, "", "")
    BY <1>12, <1>13, <1>15, ComparedIs
  <1>16. passes <=> collected /\ n = 10
    BY <1>9, <1>10, <1>11, <1>13, <1>14, <1>15 DEF Reported
  <1>17. passes => Genuine(entry) /\ Conforms(entry) /\ entry.implemented /\ entry.recorded
    BY <1>2, <1>8, <1>16, AcquiresGenuine
  <1>18. entry.implemented /\ entry.recorded /\ Acquires(entry) /\ Conforms(entry) => passes
    <2>1. Conforms(entry) => Fit(obs)
      BY <1>1, <1>6
    <2> QED
      BY <1>2, <1>8, <1>16, <2>1
  <1>19. r.raised <=> passes /\ sink = "raises"
    BY <1>9, <1>10, <1>11, <1>13, <1>14, <1>15 DEF Reported
  <1>20. r.sent <=> passes /\ sink \in {"gateway", "collecting"}
    BY <1>9, <1>10, <1>11, <1>13, <1>14, <1>15 DEF Reported
  <1>21. r.reason_code # "" <=> ~r.sent /\ ~r.raised
    BY <1>9, <1>10, <1>11, <1>13, <1>14, <1>15 DEF Reported
  <1>22. r.failed_stage # "" => ~passes /\ r.gateway_state = "unproven"
    BY <1>9, <1>10, <1>11, <1>13, <1>14, <1>15 DEF Reported
  <1>23. r.failed_stage \notin Range(r.stages_passed)
    BY <1>9, <1>10, <1>11, <1>13, <1>14, <1>15 DEF Reported
  <1> HIDE DEF collected
  <1>24. Grades(entry, sink, r)
    BY <1>17, <1>18, <1>19, <1>20, <1>21, <1>22, <1>23 DEF Grades
  <1> QED
    BY <1>24 DEF r

------------------------------------------------------------------------------
(* Traces *)

\* What the validator asks of the records of a trace.
RecordsValid(trace, rs) ==
    /\ rs # <<>>
    /\ \A i \in DOMAIN rs : RecordValid(rs[i], trace)
    /\ \A i \in DOMAIN rs : i > 1 => rs[i].input.digest = rs[i - 1].output.digest
    /\ \A i, j \in DOMAIN rs : i # j => rs[i].phase # rs[j].phase

\* validate_transformation_trace_set, of a trace and its records.
LEMMA ValidIs ==
  ASSUME NEW set
  PROVE  TraceSetValid(set) <=> RecordsValid(set.trace, set.records)
  BY DEF TraceSetValid, RecordsValid

Tampered == <<"tampered">>

RecordFields == {"trace", "phase", "revision", "contract", "input", "output", "canonical"}

Digested(d) == d = [data |-> d.data, digest |-> d.digest]

\* A chain of records whose states can be told from those that are two steps away.
Chained(trace, rs) ==
    /\ trace # "theirs" /\ rs \in Seq(Range(rs)) /\ Len(rs) >= 3
    /\ RecordsValid(trace, rs)
    /\ \A i \in 1..Len(rs) :
        /\ RecordFields \subseteq DOMAIN rs[i]
        /\ Digested(rs[i].input) /\ Digested(rs[i].output)
        /\ rs[i].input.data # Tampered /\ rs[i].output.data # Tampered
    /\ rs[1].input.data # rs[2].output.data
    /\ \A i, j \in 1..Len(rs) : i + 2 <= j => rs[i].output.data # rs[j].output.data

\* A sequence without one of its elements.
LEMMA WithoutIs ==
  ASSUME NEW S, NEW s \in Seq(S), NEW i \in 1..Len(s)
  PROVE  /\ Without(s, i) \in Seq(S) /\ Len(Without(s, i)) = Len(s) - 1
         /\ \A k \in 1..(Len(s) - 1) : Without(s, i)[k] = IF k < i THEN s[k] ELSE s[k + 1]
  <1> DEFINE n == Len(s)
             a == SubSeq(s, 1, i - 1)
             b == SubSeq(s, i + 1, n)
  <1>1. n \in Nat /\ DOMAIN s = 1..n /\ \A k \in 1..n : s[k] \in S
    OBVIOUS
  <1>2. a \in Seq(S) /\ Len(a) = i - 1 /\ \A k \in 1..(i - 1) : a[k] = s[k]
    <2>1. \A k \in 1..(i - 1) : s[k] \in S
      BY <1>1
    <2>2. 1 \in Int /\ i - 1 \in Int /\ 1 <= (i - 1) + 1
      OBVIOUS
    <2> QED
      BY <2>1, <2>2, SubSeqProperties
  <1>3. b \in Seq(S) /\ Len(b) = n - i /\ \A k \in 1..(n - i) : b[k] = s[i + k]
    <2>1. \A k \in (i + 1)..n : s[k] \in S
      BY <1>1
    <2>2. i + 1 \in Int /\ n \in Int /\ i + 1 <= n + 1
      BY <1>1
    <2> HIDE DEF n
    <2>3. b \in Seq(S) /\ Len(b) = n - (i + 1) + 1 /\ \A k \in 1..(n - (i + 1) + 1) : b[k] = s[(i + 1) + k - 1]
      BY <2>1, <2>2, SubSeqProperties
    <2>4. n - (i + 1) + 1 = n - i /\ \A k \in Int : (i + 1) + k - 1 = i + k
      BY <2>2
    <2> QED
      BY <2>3, <2>4
  <1> HIDE DEF a, b, n
  <1>4. /\ a \o b \in Seq(S) /\ Len(a \o b) = Len(a) + Len(b)
        /\ \A k \in 1..Len(a) + Len(b) : (a \o b)[k] = IF k <= Len(a) THEN a[k] ELSE b[k - Len(a)]
    BY <1>2, <1>3, ConcatProperties
  <1>5. Without(s, i) = a \o b
    BY DEF Without, a, b, n
  <1>6. i \in Nat /\ 1 <= i /\ i <= n
    BY <1>1 DEF n
  <1>7. Len(a \o b) = n - 1
    BY <1>1, <1>2, <1>3, <1>4, <1>6
  <1>8. ASSUME NEW k \in 1..(n - 1)
         PROVE  (a \o b)[k] = IF k < i THEN s[k] ELSE s[k + 1]
    <2>1. CASE k < i
      BY <1>1, <1>2, <1>3, <1>4, <1>6, <1>8, <2>1
    <2>2. CASE ~(k < i)
      <3>1. (a \o b)[k] = b[k - (i - 1)]
        BY <1>1, <1>2, <1>3, <1>4, <1>6, <1>8, <2>2
      <3>2. k - (i - 1) \in 1..(n - i) /\ i + (k - (i - 1)) = k + 1
        BY <1>1, <1>6, <1>8, <2>2
      <3> QED
        BY <1>3, <2>2, <3>1, <3>2
    <2> QED
      BY <2>1, <2>2
  <1> QED
    BY <1>4, <1>5, <1>7, <1>8 DEF n
\* A record that is changed but for its phase stands or falls with its neighbours.
LEMMA OneChanged ==
  ASSUME NEW trace, NEW rs, Chained(trace, rs), NEW i \in 1..Len(rs), NEW r, r.phase = rs[i].phase
  PROVE  RecordsValid(trace, [rs EXCEPT ![i] = r]) <=>
            /\ RecordValid(r, trace)
            /\ i > 1 => r.input.digest = rs[i - 1].output.digest
            /\ i < Len(rs) => rs[i + 1].input.digest = r.output.digest
  <1> DEFINE n == Len(rs)
             new == [rs EXCEPT ![i] = r]
  <1>1. n \in Nat /\ DOMAIN rs = 1..n /\ n >= 3 /\ RecordsValid(trace, rs)
    BY DEF Chained
  <1> HIDE DEF n
  <1>2. /\ DOMAIN new = 1..n /\ new[i] = r /\ \A k \in 1..n : k # i => new[k] = rs[k]
        /\ \A k \in 1..n : new[k].phase = rs[k].phase
    BY <1>1
  <1>3. i \in Int /\ 1 <= i /\ i <= n
    BY <1>1 DEF n
  <1> HIDE DEF new
  <1>4. new # <<>>
    <2>1. 1 \in DOMAIN new
      BY <1>1, <1>2
    <2>2. 1 \notin DOMAIN <<>>
      OBVIOUS
    <2> QED
      BY <2>1, <2>2
  <1>5. \A j, k \in DOMAIN new : j # k => new[j].phase # new[k].phase
    BY <1>1, <1>2 DEF RecordsValid
  <1>6. (\A k \in DOMAIN new : RecordValid(new[k], trace)) <=> RecordValid(r, trace)
    BY <1>1, <1>2, <1>3 DEF RecordsValid
  <1>7. (\A k \in DOMAIN new : k > 1 => new[k].input.digest = new[k - 1].output.digest) <=>
            /\ i > 1 => r.input.digest = rs[i - 1].output.digest
            /\ i < n => rs[i + 1].input.digest = r.output.digest
    <2>1. ASSUME \A k \in DOMAIN new : k > 1 => new[k].input.digest = new[k - 1].output.digest
           PROVE  /\ i > 1 => r.input.digest = rs[i - 1].output.digest
                  /\ i < n => rs[i + 1].input.digest = r.output.digest
      <3>1. ASSUME i > 1 PROVE r.input.digest = rs[i - 1].output.digest
        <4>1. i - 1 \in 1..n /\ i - 1 # i
          BY <1>1, <1>3, <3>1
        <4> QED
          BY <1>2, <1>3, <2>1, <3>1, <4>1
      <3>2. ASSUME i < n PROVE rs[i + 1].input.digest = r.output.digest
        <4>1. i + 1 \in 1..n /\ i + 1 # i /\ i + 1 > 1 /\ (i + 1) - 1 = i
          BY <1>1, <1>3, <3>2
        <4> QED
          BY <1>2, <2>1, <4>1
      <3> QED
        BY <3>1, <3>2
    <2>2. ASSUME i > 1 => r.input.digest = rs[i - 1].output.digest,
                 i < n => rs[i + 1].input.digest = r.output.digest,
                 NEW k \in DOMAIN new, k > 1
           PROVE  new[k].input.digest = new[k - 1].output.digest
      <3>1. k \in 1..n /\ k - 1 \in 1..n
        BY <1>1, <1>2, <2>2
      <3>2. rs[k].input.digest = rs[k - 1].output.digest
        BY <1>1, <2>2, <3>1 DEF RecordsValid
      <3>3. CASE k = i
        <4>1. k - 1 # i
          BY <1>1, <3>1, <3>3
        <4> QED
          BY <1>2, <2>2, <3>1, <3>3, <4>1
      <3>4. CASE k - 1 = i
        <4>1. k = i + 1 /\ i < n /\ k # i
          BY <1>1, <1>3, <3>1, <3>4
        <4> QED
          BY <1>2, <2>2, <3>1, <3>4, <4>1
      <3>5. CASE k # i /\ k - 1 # i
        BY <1>2, <3>1, <3>2, <3>5
      <3> QED
        BY <3>3, <3>4, <3>5
    <2> QED
      BY <2>1, <2>2
  <1> QED
    BY <1>4, <1>5, <1>6, <1>7 DEF RecordsValid, new, n

\* Of two records that change places, one has a neighbour that is not its own.
LEMMA SwapBreaks ==
  ASSUME NEW trace, NEW rs, Chained(trace, rs), NEW i \in 1..Len(rs), NEW j \in 1..Len(rs), i < j
  PROVE  ~RecordsValid(trace, Swapped(rs, i, j))
  <1> DEFINE n == Len(rs)
             new == Swapped(rs, i, j)
  <1> SUFFICES ASSUME RecordsValid(trace, new) PROVE FALSE
    OBVIOUS
  <1>1. n \in Nat /\ DOMAIN rs = 1..n /\ n >= 3 /\ RecordsValid(trace, rs)
    BY DEF Chained
  <1>2. /\ \A k \in 1..n : rs[k].input.digest = rs[k].input.data /\ rs[k].output.digest = rs[k].output.data
        /\ \A k \in 1..n : k > 1 => rs[k].input.data = rs[k - 1].output.data
    <2> HIDE DEF n
    <2>1. ASSUME NEW k \in 1..n
           PROVE  /\ rs[k].input.digest = rs[k].input.data
                  /\ rs[k].output.digest = rs[k].output.data
      BY <1>1, Zenon DEF RecordsValid, RecordValid
    <2>2. ASSUME NEW k \in 1..n, k > 1
           PROVE  rs[k].input.digest = rs[k - 1].output.digest
      BY <1>1, <2>2, Zenon DEF RecordsValid
    <2>3. \A k \in 1..n : k > 1 => k - 1 \in 1..n
      BY <1>1
    <2> QED
      BY <2>1, <2>2, <2>3
  <1>3. /\ rs[1].input.data # rs[2].output.data
        /\ \A k, l \in 1..n : k + 2 <= l => rs[k].output.data # rs[l].output.data
    BY DEF Chained
  <1> HIDE DEF n
  <1>4. /\ DOMAIN new = 1..n /\ new[i] = rs[j] /\ new[j] = rs[i]
        /\ \A k \in 1..n : k # i /\ k # j => new[k] = rs[k]
    BY <1>1 DEF Swapped, n
  <1>5. i \in Int /\ j \in Int /\ 1 <= i /\ i < j /\ j <= n
    BY <1>1 DEF n
  <1> HIDE DEF new
  <1>6. \A k \in 1..n : k > 1 => new[k].input.digest = new[k - 1].output.digest
    BY <1>4 DEF RecordsValid
  <1>7. i + 1 \in 1..n /\ i + 1 > 1 /\ (i + 1) - 1 = i /\ i \in 1..n /\ j \in 1..n
    BY <1>1, <1>5
  <1>8. new[i + 1].input.digest = rs[j].output.data
    BY <1>2, <1>4, <1>6, <1>7
  <1>9. CASE j = i + 1
    <2>1. rs[i].input.data = rs[i + 1].output.data
      BY <1>2, <1>4, <1>7, <1>8, <1>9
    <2>2. CASE i = 1
      BY <1>3, <2>1, <2>2
    <2>3. CASE i > 1
      <3>1. i - 1 \in 1..n /\ (i - 1) + 2 <= i + 1
        BY <1>1, <1>5, <2>3
      <3>2. rs[i].input.data = rs[i - 1].output.data
        BY <1>2, <1>7, <2>3
      <3> QED
        BY <1>3, <1>7, <2>1, <3>1, <3>2
    <2> QED
      BY <1>5, <2>2, <2>3
  <1>10. CASE j # i + 1
    <2>1. i + 2 <= j /\ i + 1 # i
      BY <1>5, <1>10
    <2>2. rs[i + 1].input.data = rs[i].output.data
      BY <1>2, <1>7
    <2>3. new[i + 1] = rs[i + 1]
      BY <1>4, <1>7, <1>10, <2>1
    <2> QED
      BY <1>2, <1>3, <1>7, <1>8, <2>1, <2>2, <2>3
  <1> QED
    BY <1>9, <1>10

\* A record that is left out is missed by the one after it, if it made a difference.
LEMMA WithoutBreaks ==
  ASSUME NEW trace, NEW rs, Chained(trace, rs), NEW i \in 1..Len(rs)
  PROVE  ~RecordsValid(trace, Without(rs, i)) <=>
            i \in 2..(Len(rs) - 1) /\ rs[i].input.data # rs[i].output.data
  <1> DEFINE n == Len(rs)
             new == Without(rs, i)
             Old(k) == IF k < i THEN k ELSE k + 1
  <1>1. n \in Nat /\ DOMAIN rs = 1..n /\ n >= 3 /\ RecordsValid(trace, rs) /\ rs \in Seq(Range(rs))
    BY DEF Chained
  <1>2. /\ \A k \in 1..n : rs[k].input.digest = rs[k].input.data /\ rs[k].output.digest = rs[k].output.data
        /\ \A k \in 1..n : k > 1 => rs[k].input.data = rs[k - 1].output.data
    <2> HIDE DEF n
    <2>1. ASSUME NEW k \in 1..n
           PROVE  /\ rs[k].input.digest = rs[k].input.data
                  /\ rs[k].output.digest = rs[k].output.data
      BY <1>1, Zenon DEF RecordsValid, RecordValid
    <2>2. ASSUME NEW k \in 1..n, k > 1
           PROVE  rs[k].input.digest = rs[k - 1].output.digest
      BY <1>1, <2>2, Zenon DEF RecordsValid
    <2>3. \A k \in 1..n : k > 1 => k - 1 \in 1..n
      BY <1>1
    <2> QED
      BY <2>1, <2>2, <2>3
  <1>3. new \in Seq(Range(rs)) /\ Len(new) = n - 1 /\ \A k \in 1..(n - 1) : new[k] = rs[Old(k)]
    <2>1. \A k \in 1..(n - 1) : new[k] = IF k < i THEN rs[k] ELSE rs[k + 1]
      BY <1>1, WithoutIs
    <2> QED
      BY <1>1, <2>1, WithoutIs
  <1>4. i \in Int /\ 1 <= i /\ i <= n
    BY <1>1
  <1> HIDE DEF n, new
  <1>5. DOMAIN new = 1..(n - 1) /\ new # <<>>
    BY <1>1, <1>3
  <1>6. \A k \in 1..(n - 1) : Old(k) \in 1..n
    BY <1>1, <1>4
  <1>7. \A k, l \in 1..(n - 1) : k # l => Old(k) # Old(l)
    BY <1>1, <1>4
  <1> HIDE DEF Old
  <1>8. \A k \in DOMAIN new : RecordValid(new[k], trace)
    BY <1>1, <1>3, <1>5, <1>6 DEF RecordsValid
  <1>9. \A k, l \in DOMAIN new : k # l => new[k].phase # new[l].phase
    BY <1>1, <1>3, <1>5, <1>6, <1>7 DEF RecordsValid
  \* Everywhere but at i the neighbours are the same.
  <1>10. ASSUME NEW k \in 1..(n - 1), k > 1, k # i
         PROVE  new[k].input.digest = new[k - 1].output.digest
    <2>1. k - 1 \in 1..(n - 1) /\ Old(k) \in 1..n /\ Old(k - 1) = Old(k) - 1 /\ Old(k) > 1
      BY <1>1, <1>4, <1>10 DEF Old
    <2> QED
      BY <1>2, <1>3, <1>6, <1>10, <2>1
  <1>11. ASSUME i > 1, i < n
         PROVE  /\ i \in 1..(n - 1)
                /\ new[i].input.digest = new[i - 1].output.digest <=> rs[i].input.data = rs[i].output.data
    <2>1. /\ i \in 1..(n - 1) /\ i - 1 \in 1..(n - 1) /\ Old(i) = i + 1 /\ Old(i - 1) = i - 1
          /\ i \in 1..n /\ i + 1 \in 1..n /\ i - 1 \in 1..n /\ (i + 1) - 1 = i /\ i + 1 > 1
      BY <1>1, <1>4, <1>11 DEF Old
    <2>2. new[i] = rs[i + 1] /\ new[i - 1] = rs[i - 1]
      BY <1>3, <2>1
    <2>3. rs[i + 1].input.data = rs[i].output.data /\ rs[i].input.data = rs[i - 1].output.data
      BY <1>2, <1>11, <2>1
    <2> QED
      BY <1>2, <2>1, <2>2, <2>3
  <1>12. i \in 2..(n - 1) <=> i > 1 /\ i < n
    BY <1>1, <1>4
  <1>13. (\A k \in DOMAIN new : k > 1 => new[k].input.digest = new[k - 1].output.digest) <=>
            (i > 1 /\ i < n => rs[i].input.data = rs[i].output.data)
    <2>1. ASSUME ~(i > 1 /\ i < n), NEW k \in 1..(n - 1), k > 1 PROVE k # i
      BY <1>1, <1>4, <2>1
    <2> QED
      BY <1>5, <1>10, <1>11, <2>1
  <1> QED
    BY <1>5, <1>8, <1>9, <1>12, <1>13 DEF RecordsValid, new, n

\* A record that is there twice breaks the chain.
LEMMA AppendBreaks ==
  ASSUME NEW trace, NEW rs, Chained(trace, rs), NEW i \in 1..Len(rs)
  PROVE  ~RecordsValid(trace, Append(rs, rs[i]))
  <1> DEFINE n == Len(rs)
             new == Append(rs, rs[i])
  <1>1. n \in Nat /\ DOMAIN rs = 1..n /\ rs \in Seq(Range(rs)) /\ rs[i] \in Range(rs)
    BY DEF Chained, Range
  <1>2. new \in Seq(Range(rs)) /\ Len(new) = n + 1 /\ new[i] = rs[i] /\ new[n + 1] = rs[i]
    BY <1>1, AppendProperties
  <1> HIDE DEF n, new
  <1>3. i \in DOMAIN new /\ n + 1 \in DOMAIN new /\ i # n + 1
    BY <1>1, <1>2 DEF n
  <1> QED
    BY <1>2, <1>3 DEF RecordsValid, new

\* The validator catches of a chain what it can.
LEMMA ChainCatches ==
  ASSUME NEW trace, NEW rs, Chained(trace, rs), NEW set, set = [trace |-> trace, records |-> rs]
  PROVE  TraceSetValid(set) /\ Catches(set)
  <1> DEFINE n == Len(rs)
             Other == <<"tampered">>
             Redigested == [data |-> Other, digest |-> Other]
             Caught(changed) == ~TraceSetValid([set EXCEPT !.records = changed])
  <1>1. \A ch : Caught(ch) <=> ~RecordsValid(trace, ch)
    <2> SUFFICES ASSUME NEW ch PROVE TraceSetValid([set EXCEPT !.records = ch]) <=> RecordsValid(trace, ch)
      OBVIOUS
    <2>1. [set EXCEPT !.records = ch].trace = trace /\ [set EXCEPT !.records = ch].records = ch
      OBVIOUS
    <2> HIDE DEF RecordsValid
    <2> QED
      BY <2>1, ValidIs
  <1>2. set.trace = trace /\ set.records = rs /\ TraceSetValid(set)
    BY ValidIs DEF Chained
  <1>3. n \in Nat /\ DOMAIN rs = 1..n /\ RecordsValid(trace, rs) /\ trace # "theirs"
    BY DEF Chained
  <1> HIDE DEF Caught
  <1>4. ASSUME NEW i \in 1..n
         PROVE  /\ Caught([rs EXCEPT ![i].output.data = Other])
                /\ Caught([rs EXCEPT ![i].input.data = Other])
                /\ Caught([rs EXCEPT ![i].output = Redigested]) <=> i < n
                /\ Caught([rs EXCEPT ![i].input = Redigested]) <=> i > 1
                /\ Caught([rs EXCEPT ![i].trace = "theirs"])
                /\ Caught([rs EXCEPT ![i].canonical = TRUE])
    <2> DEFINE r == rs[i]
               Changed(new) == [rs EXCEPT ![i] = new]
    <2>1. /\ {"trace", "phase", "input", "output", "canonical"} \subseteq DOMAIN r
          /\ Digested(r.input) /\ Digested(r.output)
          /\ r.input.data # Other /\ r.output.data # Other
      BY DEF Chained, RecordFields, Tampered
    <2>2. RecordValid(r, trace) /\ r.input.digest = r.input.data /\ r.output.digest = r.output.data
      <3>1. RecordValid(r, trace)
        BY <1>3 DEF RecordsValid
      <3> QED
        BY <3>1 DEF RecordValid
    <2>3. /\ i > 1 => r.input.digest = rs[i - 1].output.digest
          /\ i < n => rs[i + 1].input.digest = r.output.digest
      <3>1. ASSUME i < n PROVE i + 1 \in 1..n /\ i + 1 > 1 /\ (i + 1) - 1 = i
        BY <1>3, <3>1
      <3> QED
        BY <1>3, <3>1 DEF RecordsValid
    <2>4. ASSUME NEW new, new.phase = r.phase
           PROVE  Caught(Changed(new)) <=> ~(/\ RecordValid(new, trace)
                                             /\ i > 1 => new.input.digest = rs[i - 1].output.digest
                                             /\ i < n => rs[i + 1].input.digest = new.output.digest)
      BY <1>1, <2>4, OneChanged
    <2> DEFINE outData == [r EXCEPT !.output = [r.output EXCEPT !.data = Other]]
               inData == [r EXCEPT !.input = [r.input EXCEPT !.data = Other]]
               out == [r EXCEPT !.output = Redigested]
               in == [r EXCEPT !.input = Redigested]
               theirs == [r EXCEPT !.trace = "theirs"]
               canonical == [r EXCEPT !.canonical = TRUE]
    <2>5. /\ [rs EXCEPT ![i].output.data = Other] = Changed(outData)
          /\ [rs EXCEPT ![i].input.data = Other] = Changed(inData)
          /\ [rs EXCEPT ![i].output = Redigested] = Changed(out)
          /\ [rs EXCEPT ![i].input = Redigested] = Changed(in)
          /\ [rs EXCEPT ![i].trace = "theirs"] = Changed(theirs)
          /\ [rs EXCEPT ![i].canonical = TRUE] = Changed(canonical)
      OBVIOUS
    <2> HIDE DEF Changed, r
    <2>6. /\ outData.phase = r.phase /\ outData.output.data = Other /\ outData.output.digest = r.output.digest
          /\ inData.phase = r.phase /\ inData.input.data = Other /\ inData.input.digest = r.input.digest
      BY <2>1 DEF Digested
    <2>7. /\ out.phase = r.phase /\ out.trace = r.trace /\ out.revision = r.revision
          /\ out.contract = r.contract /\ out.canonical = r.canonical /\ out.input = r.input
          /\ out.output.data = Other /\ out.output.digest = Other
      BY <2>1
    <2>8. /\ in.phase = r.phase /\ in.trace = r.trace /\ in.revision = r.revision
          /\ in.contract = r.contract /\ in.canonical = r.canonical /\ in.output = r.output
          /\ in.input.data = Other /\ in.input.digest = Other
      BY <2>1
    <2>9. /\ theirs.phase = r.phase /\ theirs.trace = "theirs"
          /\ canonical.phase = r.phase /\ canonical.canonical = TRUE
      BY <2>1
    <2> HIDE DEF outData, inData, out, in, theirs, canonical, Other
    <2>10. Caught(Changed(outData)) /\ Caught(Changed(inData))
      <3>1. ~RecordValid(outData, trace) /\ ~RecordValid(inData, trace)
        BY <2>1, <2>2, <2>6 DEF RecordValid
      <3> QED
        BY <2>4, <2>6, <3>1
    <2>11. Caught(Changed(out)) <=> i < n
      <3>1. RecordValid(out, trace)
        BY <2>2, <2>7 DEF RecordValid
      <3> QED
        BY <2>1, <2>2, <2>3, <2>4, <2>7, <3>1
    <2>12. Caught(Changed(in)) <=> i > 1
      <3>1. RecordValid(in, trace)
        BY <2>2, <2>8 DEF RecordValid
      <3> QED
        BY <2>1, <2>2, <2>3, <2>4, <2>8, <3>1
    <2>13. Caught(Changed(theirs)) /\ Caught(Changed(canonical))
      <3>1. ~RecordValid(theirs, trace) /\ ~RecordValid(canonical, trace)
        BY <1>3, <2>9 DEF RecordValid
      <3> QED
        BY <2>4, <2>9, <3>1
    <2> QED
      BY <2>5, <2>10, <2>11, <2>12, <2>13
  <1>5. ASSUME NEW i \in 1..n
         PROVE  /\ Caught(Without(rs, i)) <=> i \in 2..(n - 1) /\ rs[i].input # rs[i].output
                /\ Caught(Append(rs, rs[i]))
    <2>1. rs[i].input = rs[i].output <=> rs[i].input.data = rs[i].output.data
      <3>1. Digested(rs[i].input) /\ Digested(rs[i].output) /\ RecordValid(rs[i], trace)
        BY <1>3 DEF Chained, RecordsValid
      <3>2. rs[i].input.digest = rs[i].input.data /\ rs[i].output.digest = rs[i].output.data
        BY <3>1 DEF RecordValid
      <3> QED
        BY <3>1, <3>2 DEF Digested
    <2> QED
      BY <1>1, <2>1, WithoutBreaks, AppendBreaks
  <1>6. \A i, j \in 1..n : i < j => Caught(Swapped(rs, i, j))
    BY <1>1, SwapBreaks
  <1> QED
    BY <1>2, <1>3, <1>4, <1>5, <1>6 DEF Catches, Caught

PhaseAt(k) ==
    IF k = 1 THEN "PHASE-01-PROVIDER-ACQUISITION" ELSE IF k = 2 THEN "PHASE-04-OBSERVATION"
    ELSE IF k = 3 THEN "PHASE-05-PROVIDER-ADVISORIES" ELSE IF k = 4 THEN "PHASE-06-UNIVERSAL-NORMALIZATION"
    ELSE IF k = 5 THEN "PHASE-07-UNIVERSAL-ADVISORIES" ELSE IF k = 6 THEN "PHASE-08-GATEWAY-MAPPING"
    ELSE "PHASE-08-GATEWAY-DELIVERY"

StateAt(k) ==
    IF k = 1 THEN "capture" ELSE IF k = 2 THEN "observation" ELSE IF k = 3 THEN "advised"
    ELSE IF k \in {4, 5} THEN "emission" ELSE IF k = 6 THEN "envelope" ELSE "delivery"

\* The first and the last of the seven phases that a trace has.
FirstPhase(t) == IF t.capture = Absent THEN 2 ELSE 1
LastPhase(t) == IF t.delivery = Absent THEN 6 ELSE 7

\* Three sequences one after the other.
LEMMA Concatenated ==
  ASSUME NEW S, NEW s \in Seq(S), NEW m \in Seq(S), NEW f \in Seq(S), NEW w, w = s \o m \o f
  PROVE  /\ w \in Seq(S) /\ Len(w) = Len(s) + Len(m) + Len(f)
         /\ \A k \in 1..Len(s) : w[k] = s[k]
         /\ \A k \in 1..Len(m) : w[Len(s) + k] = m[k]
         /\ \A k \in 1..Len(f) : w[Len(s) + Len(m) + k] = f[k]
  <1> DEFINE a == s \o m
  <1>1. w = a \o f
    OBVIOUS
  <1>2. Len(s) \in Nat /\ Len(m) \in Nat /\ Len(f) \in Nat
    OBVIOUS
  <1>3. /\ a \in Seq(S) /\ Len(a) = Len(s) + Len(m)
        /\ \A i \in 1..(Len(s) + Len(m)) : a[i] = IF i <= Len(s) THEN s[i] ELSE m[i - Len(s)]
    BY ConcatProperties
  <1> HIDE DEF a
  <1>4. /\ w \in Seq(S) /\ Len(w) = Len(a) + Len(f)
        /\ \A i \in 1..(Len(a) + Len(f)) : w[i] = IF i <= Len(a) THEN a[i] ELSE f[i - Len(a)]
    <2>1. a \in Seq(S)
      BY <1>3
    <2> QED
      BY <1>1, <2>1, ConcatProperties
  <1>5. \A k \in 1..Len(s) : w[k] = s[k]
    BY <1>2, <1>3, <1>4
  <1>6. ASSUME NEW k \in 1..Len(m) PROVE w[Len(s) + k] = m[k]
    <2>1. Len(s) + k \in 1..(Len(s) + Len(m)) /\ ~(Len(s) + k <= Len(s)) /\ (Len(s) + k) - Len(s) = k
      BY <1>2
    <2> QED
      BY <1>2, <1>3, <1>4, <2>1
  <1>7. ASSUME NEW k \in 1..Len(f) PROVE w[Len(s) + Len(m) + k] = f[k]
    <2>1. /\ Len(a) + k \in 1..(Len(a) + Len(f)) /\ ~(Len(a) + k <= Len(a)) /\ (Len(a) + k) - Len(a) = k
      BY <1>2, <1>3
    <2> QED
      BY <1>2, <1>3, <1>4, <2>1
  <1> QED
    BY <1>3, <1>4, <1>5, <1>6, <1>7 DEF a

IsStep(step, k) == step[1] = PhaseAt(k) /\ step[2][1] = StateAt(k)

\* The steps of a projection are the phases from its first to its last, in order.
LEMMA StepsAre ==
  ASSUME NEW t, NEW steps, steps = PhaseOutputs(t)
  PROVE  /\ DOMAIN steps = 1..(LastPhase(t) - FirstPhase(t) + 1)
         /\ \A k \in FirstPhase(t)..LastPhase(t) : IsStep(steps[k - FirstPhase(t) + 1], k)
         /\ t.capture # Absent => steps[1][2] = <<"capture", t.capture>>
  <1> DEFINE provider == OfScope(t.emission.advisories, "integration")
             p1 == <<"PHASE-01-PROVIDER-ACQUISITION", <<"capture", t.capture>> >>
             p2 == <<"PHASE-04-OBSERVATION", <<"observation", t.observation>> >>
             p3 == <<"PHASE-05-PROVIDER-ADVISORIES", <<"advised", t.observation, provider>> >>
             p4 == <<"PHASE-06-UNIVERSAL-NORMALIZATION", <<"emission", [t.emission EXCEPT !.advisories = provider]>> >>
             p5 == <<"PHASE-07-UNIVERSAL-ADVISORIES", <<"emission", t.emission>> >>
             p6 == <<"PHASE-08-GATEWAY-MAPPING", <<"envelope", t.envelope>> >>
             p7 == <<"PHASE-08-GATEWAY-DELIVERY", <<"delivery", t.delivery>> >>
             S == {p1, p2, p3, p4, p5, p6, p7}
             s == IF t.capture = Absent THEN <<>> ELSE <<p1>>
             m == <<p2, p3, p4, p5, p6>>
             f == IF t.delivery = Absent THEN <<>> ELSE <<p7>>
             first == FirstPhase(t)
             last == LastPhase(t)
  <1>1. steps = s \o m \o f
    BY DEF PhaseOutputs
  <1>2. /\ IsStep(p1, 1) /\ IsStep(p2, 2) /\ IsStep(p3, 3) /\ IsStep(p4, 4) /\ IsStep(p5, 5)
        /\ IsStep(p6, 6) /\ IsStep(p7, 7) /\ p1[2] = <<"capture", t.capture>>
    BY DEF IsStep, PhaseAt, StateAt
  <1> HIDE DEF p1, p2, p3, p4, p5, p6, p7
  <1>3. m \in Seq(S) /\ Len(m) = 5 /\ m[1] = p2 /\ m[2] = p3 /\ m[3] = p4 /\ m[4] = p5 /\ m[5] = p6
    OBVIOUS
  <1>4. s \in Seq(S) /\ Len(s) = 2 - first /\ (t.capture # Absent => s[1] = p1) /\ first \in 1..2
        /\ (first = 1 => t.capture # Absent)
    <2>1. CASE t.capture = Absent
      BY <2>1 DEF FirstPhase
    <2>2. CASE t.capture # Absent
      <3>1. s = <<p1>> /\ first = 1 /\ p1 \in S
        BY <2>2 DEF FirstPhase
      <3> HIDE DEF S, s
      <3> QED
        BY <2>2, <3>1
    <2> QED
      BY <2>1, <2>2
  <1>5. f \in Seq(S) /\ Len(f) = last - 6 /\ (t.delivery # Absent => f[1] = p7) /\ last \in 6..7
        /\ (last = 7 => t.delivery # Absent)
    <2>1. CASE t.delivery = Absent
      BY <2>1 DEF LastPhase
    <2>2. CASE t.delivery # Absent
      <3>1. f = <<p7>> /\ last = 7 /\ p7 \in S
        BY <2>2 DEF LastPhase
      <3> HIDE DEF S, f
      <3> QED
        BY <2>2, <3>1
    <2> QED
      BY <2>1, <2>2
  <1>6. first = 1 <=> t.capture # Absent
    BY DEF FirstPhase
  <1> HIDE DEF s, m, f, S, first, last
  <1>7. /\ steps \in Seq(S) /\ Len(steps) = Len(s) + Len(m) + Len(f)
        /\ \A k \in 1..Len(s) : steps[k] = s[k]
        /\ \A k \in 1..Len(m) : steps[Len(s) + k] = m[k]
        /\ \A k \in 1..Len(f) : steps[Len(s) + Len(m) + k] = f[k]
    <2>1. s \in Seq(S) /\ m \in Seq(S) /\ f \in Seq(S)
      BY <1>3, <1>4, <1>5
    <2> QED
      BY <1>1, <2>1, Concatenated
  <1>8. DOMAIN steps = 1..(last - first + 1)
    BY <1>3, <1>4, <1>5, <1>7
  <1>9. ASSUME NEW k \in first..last PROVE IsStep(steps[k - first + 1], k)
    <2>1. k \in 1..7 /\ first <= k /\ k <= last
      BY <1>4, <1>5
    <2>2. CASE k = 1
      <3>1. first = 1 /\ 1 \in 1..Len(s) /\ k - first + 1 = 1
        BY <1>4, <2>1, <2>2
      <3> QED
        BY <1>2, <1>4, <1>7, <2>2, <3>1
    <2>3. CASE k \in 2..6
      <3>1. k - first + 1 = Len(s) + (k - 1) /\ k - 1 \in 1..Len(m)
        BY <1>3, <1>4, <2>3
      <3>2. steps[k - first + 1] = m[k - 1]
        BY <1>7, <3>1
      <3>3. k = 2 \/ k = 3 \/ k = 4 \/ k = 5 \/ k = 6
        BY <2>3
      <3> QED
        BY <1>2, <1>3, <3>2, <3>3
    <2>4. CASE k = 7
      <3>1. last = 7 /\ 1 \in 1..Len(f) /\ k - first + 1 = Len(s) + Len(m) + 1
        BY <1>3, <1>4, <1>5, <2>1, <2>4
      <3> QED
        BY <1>2, <1>5, <1>7, <2>4, <3>1
    <2> QED
      BY <2>1, <2>2, <2>3, <2>4
  <1>10. t.capture # Absent => steps[1][2] = <<"capture", t.capture>>
    BY <1>2, <1>4, <1>6, <1>7
  <1> QED
    BY <1>8, <1>9, <1>10 DEF first, last

\* No two phases have their name in common, nor two that are not neighbours their states.
LEMMA PhasesApart ==
  /\ \A k \in 1..7 : PhaseAt(k) \in PhaseNames
  /\ \A k, l \in 1..7 : k # l => PhaseAt(k) # PhaseAt(l)
  /\ \A k, l \in 1..7 : k + 2 <= l => StateAt(k) # StateAt(l)
  <1>1. \A k \in 1..7 : PhaseAt(k) \in PhaseNames
    BY DEF PhaseAt, PhaseNames
  <1> DEFINE Cases(k) == k = 1 \/ k = 2 \/ k = 3 \/ k = 4 \/ k = 5 \/ k = 6 \/ k = 7
  <1>2. \A k \in 1..7 : Cases(k)
    OBVIOUS
  <1>3. \A k, l \in 1..7 : k # l => PhaseAt(k) # PhaseAt(l)
    BY <1>2 DEF PhaseAt
  <1>4. \A k, l \in 1..7 : k + 2 <= l => StateAt(k) # StateAt(l)
    BY <1>2 DEF StateAt
  <1> QED
    BY <1>1, <1>3, <1>4

\* A record of phase k, with what is before it.
RecordIs(c, rs, i, k) ==
    /\ RecordFields \cup {"advisories", "persistence", "status"} \subseteq DOMAIN rs[i]
    /\ rs[i].trace = c.trace /\ rs[i].revision = c.revision /\ rs[i].canonical = FALSE
    /\ rs[i].phase = PhaseAt(k) /\ rs[i].contract = PhaseContracts[rs[i].phase]
    /\ Digested(rs[i].input) /\ rs[i].input.digest = rs[i].input.data
    /\ Digested(rs[i].output) /\ rs[i].output.digest = rs[i].output.data
    /\ rs[i].output.data[1] = StateAt(k)
    /\ i > 1 => rs[i].input.data = rs[i - 1].output.data
    /\ i = 1 => rs[i].input.data[1] \in {"nothing", "capture"}

\* The records of a projection.
Projected(t, c, rs, first, last) ==
    /\ rs \in Seq(Range(rs)) /\ DOMAIN rs = 1..(last - first + 1) /\ Len(rs) = last - first + 1
    /\ \A i \in 1..(last - first + 1) :
            RecordIs(c, rs, i, i + first - 1) /\ rs[i] = Record(t, c, PhaseOutputs(t), i)

\* A trace starts with its capture if it has one, and ends with its delivery if it has one.
LEMMA SpanIs ==
  ASSUME NEW t
  PROVE  /\ FirstPhase(t) \in 1..2 /\ LastPhase(t) \in 6..7
         /\ FirstPhase(t) = 1 <=> t.capture # Absent
         /\ LastPhase(t) = 7 <=> t.delivery # Absent
  BY DEF FirstPhase, LastPhase

\* The records of a projection are those of its steps, one after the other.
LEMMA RecordsAre ==
  ASSUME NEW t, NEW c
  PROVE  Projected(t, c, Project(t, c).records, FirstPhase(t), LastPhase(t))
  <1> DEFINE rs == Project(t, c).records
             first == FirstPhase(t)
             last == LastPhase(t)
             steps == PhaseOutputs(t)
             n == last - first + 1
  <1>1. /\ first \in 1..2 /\ last \in 6..7 /\ n \in 5..7 /\ n \in Nat
        /\ first = 1 <=> t.capture # Absent
    BY SpanIs
  <1>2. /\ DOMAIN steps = 1..n
        /\ \A k \in first..last : IsStep(steps[k - first + 1], k)
        /\ t.capture # Absent => steps[1][2] = <<"capture", t.capture>>
    BY StepsAre
  <1>3. ASSUME NEW i \in 1..n
         PROVE  i + first - 1 \in 1..7 /\ IsStep(steps[i], i + first - 1)
    <2>1. i + first - 1 \in first..last /\ (i + first - 1) - first + 1 = i /\ i + first - 1 \in 1..7
      BY <1>1
    <2> QED
      BY <1>2, <2>1
  <1>4. rs = [i \in DOMAIN steps |-> Record(t, c, steps, i)]
    BY DEF Project
  <1> HIDE DEF steps, n, rs, first, last
  <1>5. DOMAIN rs = 1..n /\ Len(rs) = n /\ rs \in Seq(Range(rs))
    <2>1. DOMAIN rs = 1..n
      BY <1>2, <1>4
    <2>2. rs = [i \in 1..n |-> rs[i]] /\ \A i \in 1..n : rs[i] \in Range(rs)
      BY <1>2, <1>4, <2>1 DEF Range
    <2>3. rs \in [1..n -> Range(rs)]
      BY <2>2
    <2> QED
      BY <1>1, <2>1, <2>3
  <1>6. ASSUME NEW i \in 1..n
         PROVE  /\ rs[i] = Record(t, c, steps, i)
                /\ rs[i].input.data = InputOf(steps, i) /\ rs[i].output.data = steps[i][2]
                /\ Digested(rs[i].input) /\ rs[i].input.digest = rs[i].input.data
                /\ Digested(rs[i].output) /\ rs[i].output.digest = rs[i].output.data
                /\ rs[i].phase = steps[i][1]
    BY <1>2, <1>4 DEF Record, Digested
  <1>7. ASSUME NEW i \in 1..n
         PROVE  /\ RecordFields \cup {"advisories", "persistence", "status"} \subseteq DOMAIN rs[i]
                /\ rs[i].trace = c.trace /\ rs[i].revision = c.revision /\ rs[i].canonical = FALSE
                /\ rs[i].contract = PhaseContracts[rs[i].phase]
    <2> DEFINE r == Record(t, c, steps, i)
    <2>1. DOMAIN r = RecordFields \cup {"advisories", "persistence", "status"}
      BY DEF Record, RecordFields
    <2>2. r.trace = c.trace /\ r.revision = c.revision /\ r.canonical = FALSE
      BY DEF Record
    <2>3. r.contract = PhaseContracts[r.phase]
      BY DEF Record
    <2> HIDE DEF r
    <2> QED
      BY <1>6, <2>1, <2>2, <2>3 DEF r
  <1>8. ASSUME NEW i \in 1..n, i > 1 PROVE rs[i].input.data = rs[i - 1].output.data
    <2>1. i - 1 \in 1..n
      BY <1>1, <1>8
    <2> QED
      BY <1>6, <1>8, <2>1 DEF InputOf
  <1>9. 1 \in 1..n /\ rs[1].input.data[1] \in {"nothing", "capture"}
    <2>1. 1 \in 1..n /\ ~(1 > 1)
      BY <1>1
    <2>2. CASE steps[1][1] = "PHASE-01-PROVIDER-ACQUISITION"
      <3>1. steps[1][1] = PhaseAt(first)
        BY <1>1, <1>3, <2>1 DEF IsStep
      <3>2. first = 1
        BY <1>1, <2>2, <3>1 DEF PhaseAt
      <3> QED
        BY <1>1, <1>2, <1>6, <2>1, <2>2, <3>2 DEF InputOf
    <2>3. CASE steps[1][1] # "PHASE-01-PROVIDER-ACQUISITION"
      BY <1>6, <2>1, <2>3 DEF InputOf
    <2> QED
      BY <2>1, <2>2, <2>3
  <1> QED
    <2>1. ASSUME NEW i \in 1..n PROVE RecordIs(c, rs, i, i + first - 1)
      <3>1. rs[i].phase = PhaseAt(i + first - 1) /\ rs[i].output.data[1] = StateAt(i + first - 1)
        BY <1>3, <1>6 DEF IsStep
      <3>2. i = 1 => rs[i].input.data[1] \in {"nothing", "capture"}
        BY <1>9
      <3> QED
        BY <1>6, <1>7, <1>8, <3>1, <3>2 DEF RecordIs
    <2> QED
      BY <1>5, <1>6, <2>1 DEF Projected, n, steps, rs, first, last

\* The context of a trace that can be told from one of "theirs".
Vouched(c) == c.revision = "full sha" /\ c.trace # "theirs"

\* The records of any projection are a chain.
LEMMA ProjectedChains ==
  ASSUME NEW t, NEW c, Vouched(c)
  PROVE  Chained(c.trace, Project(t, c).records)
  <1> DEFINE rs == Project(t, c).records
             first == FirstPhase(t)
             last == LastPhase(t)
             n == last - first + 1
             P(i) == i + first - 1
  <1>1. first \in 1..2 /\ last \in 6..7
    BY SpanIs
  <1>2. /\ rs \in Seq(Range(rs)) /\ DOMAIN rs = 1..n /\ Len(rs) = n
        /\ \A i \in 1..n : RecordIs(c, rs, i, P(i))
    BY RecordsAre DEF Projected
  <1>3. n = last - first + 1
    OBVIOUS
  <1> HIDE DEF rs, first, last, n
  <1>4. first \in Int /\ last \in Int /\ n \in Nat /\ n >= 3 /\ n <= 7
    BY <1>1, <1>3
  <1>5. /\ \A i \in 1..n : P(i) \in 1..7
        /\ \A i, j \in 1..n : i # j => P(i) # P(j)
        /\ \A i, j \in 1..n : i + 2 <= j => P(i) + 2 <= P(j)
    BY <1>4, <1>1, <1>3
  <1>6. 1 \in 1..n /\ 2 \in 1..n /\ P(2) \in {2, 3} /\ \A i \in 1..n : i > 1 => i - 1 \in 1..n
    BY <1>4, <1>1, <1>3
  <1> HIDE DEF P
  <1>7. ASSUME NEW i \in 1..n
         PROVE  /\ P(i) \in 1..7 /\ RecordFields \subseteq DOMAIN rs[i]
                /\ rs[i].trace = c.trace /\ rs[i].revision = c.revision /\ rs[i].canonical = FALSE
                /\ rs[i].phase = PhaseAt(P(i)) /\ rs[i].contract = PhaseContracts[rs[i].phase]
                /\ Digested(rs[i].input) /\ rs[i].input.digest = rs[i].input.data
                /\ Digested(rs[i].output) /\ rs[i].output.digest = rs[i].output.data
                /\ rs[i].output.data[1] = StateAt(P(i))
                /\ i > 1 => rs[i].input.data = rs[i - 1].output.data
                /\ i = 1 => rs[i].input.data[1] \in {"nothing", "capture"}
    BY <1>2, <1>5 DEF RecordIs
  <1>8. \A i \in 1..n : rs[i].phase = PhaseAt(P(i))
    BY <1>7
  <1>9. /\ \A i \in 1..n : rs[i].input.digest = rs[i].input.data /\ rs[i].output.digest = rs[i].output.data
        /\ \A i \in 1..n : i > 1 => rs[i].input.data = rs[i - 1].output.data
    BY <1>7
  <1>10. ASSUME NEW i \in 1..n PROVE RecordValid(rs[i], c.trace)
    <2>1. rs[i].phase \in PhaseNames
      BY <1>8, <1>5, PhasesApart
    <2>2. DOMAIN PhaseContracts = PhaseNames
      BY DEF PhaseContracts
    <2> QED
      BY <1>7, <2>1, <2>2 DEF RecordValid, Vouched
  <1>11. \A i, j \in 1..n : i # j => rs[i].phase # rs[j].phase
    BY <1>8, <1>5, PhasesApart
  <1>12. \A i \in 1..n : i > 1 => rs[i].input.digest = rs[i - 1].output.digest
    BY <1>9, <1>6
  <1>13. rs # <<>>
    BY <1>2, <1>4
  <1>14. RecordsValid(c.trace, rs)
    BY <1>2, <1>4, <1>10, <1>11, <1>12, <1>13 DEF RecordsValid
  <1>15. Tampered[1] = "tampered" /\ \A k : StateAt(k) # "tampered"
    BY DEF Tampered, StateAt
  <1>16. \A i \in 1..n : rs[i].output.data # Tampered
    BY <1>7, <1>15
  <1>17. \A i \in 1..n : rs[i].input.data # Tampered
    <2>1. rs[1].input.data # Tampered
      BY <1>7, <1>6, <1>15
    <2>2. \A i \in 1..n : i = 1 \/ i > 1
      BY <1>4
    <2> QED
      BY <1>9, <1>6, <1>16, <2>1, <2>2
  <1>18. rs[1].input.data # rs[2].output.data
    <2>1. StateAt(P(2)) \in {"observation", "advised"}
      BY <1>6 DEF StateAt
    <2>2. rs[2].output.data[1] = StateAt(P(2)) /\ rs[1].input.data[1] \in {"nothing", "capture"}
      BY <1>7, <1>6
    <2> QED
      BY <2>1, <2>2
  <1>19. \A i, j \in 1..n : i + 2 <= j => rs[i].output.data # rs[j].output.data
    <2> SUFFICES ASSUME NEW i \in 1..n, NEW j \in 1..n, i + 2 <= j
                 PROVE  rs[i].output.data # rs[j].output.data
      OBVIOUS
    <2>1. StateAt(P(i)) # StateAt(P(j))
      BY <1>5, PhasesApart
    <2> QED
      BY <1>7, <2>1
  <1>20. \A i \in 1..n : RecordFields \subseteq DOMAIN rs[i] /\ Digested(rs[i].input) /\ Digested(rs[i].output)
    BY <1>7
  <1> QED
    BY <1>2, <1>4, <1>14, <1>16, <1>17, <1>18, <1>19, <1>20
    DEF Chained, rs, n, Vouched

\* The advisories of either scope are as many as there are.
LEMMA ScopesPart ==
  ASSUME NEW N, NEW all \in Seq(Advisories(N)), NEW p, p = OfScope(all, "integration"),
         NEW u, u = OfScope(all, "universal")
  PROVE  Range(p) \cup Range(u) = Range(all) /\ Len(p) + Len(u) = Len(all)
  <1> DEFINE n == Len(all)
             I == {i \in DOMAIN all : all[i].scope = "integration"}
             U == {i \in DOMAIN all : all[i].scope = "universal"}
             A == Advisories(N)
  <1>1. p = Part(all, I) /\ u = Part(all, U)
    BY DEF OfScope, Filtered
  <1>2. \A a \in A : a.scope \in {"integration", "universal"}
    BY DEF Advisories, Scopes
  <1> HIDE DEF A
  <1>3. n \in Nat /\ DOMAIN all = 1..n /\ \A i \in 1..n : all[i] \in A
    BY DEF A
  <1> HIDE DEF n
  <1>4. I \subseteq 1..n /\ U \subseteq 1..n /\ I \cup U = 1..n /\ I \cap U = {}
    BY <1>2, <1>3
  <1> HIDE DEF I, U
  <1>5. /\ IsFiniteSet(I) /\ Cardinality(I) \in Nat /\ p \in Seq(A) /\ PartOf(all, I, p)
        /\ IsFiniteSet(U) /\ Cardinality(U) \in Nat /\ u \in Seq(A) /\ PartOf(all, U, u)
    BY <1>1, <1>4, PartIs DEF A, n
  <1>6. Len(p) = Cardinality(I) /\ Len(u) = Cardinality(U)
    BY <1>5 DEF PartOf
  <1>7. Cardinality(I) + Cardinality(U) = n
    <2>1. Cardinality(I \cup U) = Cardinality(I) + Cardinality(U) - Cardinality(I \cap U)
      BY <1>5, FS_Union
    <2>2. Cardinality(I \cap U) = 0
      BY <1>4, FS_EmptySet
    <2>3. Cardinality(1..n) = n
      <3>1. 1 \in Int /\ n \in Int
        BY <1>3
      <3>2. Cardinality(1..n) = IF 1 > n THEN 0 ELSE n - 1 + 1
        BY <3>1, FS_Interval
      <3> QED
        BY <1>3, <3>2
    <2>4. Cardinality(I \cup U) = n /\ Cardinality(I \cap U) = 0
      BY <1>4, <2>2, <2>3, Zenon
    <2> QED
      BY <1>3, <1>5, <2>1, <2>4
  <1>8. Range(p) \cup Range(u) = Range(all)
    <2>1. ASSUME NEW J, J \subseteq 1..n, NEW s \in Seq(A), PartOf(all, J, s)
           PROVE  Range(s) = {all[i] : i \in J}
      <3>1. DOMAIN s = 1..Cardinality(J)
        BY <2>1 DEF PartOf
      <3>2. ASSUME NEW x \in Range(s) PROVE \E i \in J : x = all[i]
        <4>1. PICK k \in DOMAIN s : x = s[k]
          BY DEF Range
        <4>2. Nth(J, k) \in J /\ s[k] = all[Nth(J, k)]
          BY <2>1, <3>1, <4>1 DEF PartOf
        <4> QED
          BY <4>1, <4>2
      <3>3. ASSUME NEW i \in J PROVE all[i] \in Range(s)
        <4>1. Rank(J, i) \in DOMAIN s /\ s[Rank(J, i)] = all[i]
          BY <2>1, <3>1 DEF PartOf
        <4> QED
          BY <4>1 DEF Range
      <3> QED
        BY <3>2, <3>3
    <2>2. Range(p) = {all[i] : i \in I} /\ Range(u) = {all[i] : i \in U}
      BY <1>4, <1>5, <2>1
    <2>3. Range(all) = {all[i] : i \in 1..n}
      BY <1>3 DEF Range
    <2> QED
      BY <1>4, <2>2, <2>3
  <1> QED
    BY <1>6, <1>7, <1>8 DEF n

\* The phases of a trace name its capture and its delivery only if it has them.
LEMMA PhaseIdsAre ==
  ASSUME NEW capture, NEW delivery
  PROVE  {"provider_capture", "delivery_state"} \subseteq Range(PhaseIds(capture, delivery))
            => capture # Absent /\ delivery # Absent
  <1> DEFINE m == <<"observation", "adapter_emission", "external_envelope">>
             s == IF capture = Absent THEN <<>> ELSE <<"provider_capture">>
             f == IF delivery = Absent THEN <<>> ELSE <<"delivery_state">>
             S == {"observation", "adapter_emission", "external_envelope"}
                    \cup {x \in {"provider_capture"} : capture # Absent}
                    \cup {x \in {"delivery_state"} : delivery # Absent}
  <1>1. PhaseIds(capture, delivery) = s \o m \o f
    BY DEF PhaseIds
  <1>2. s \in Seq(S) /\ m \in Seq(S) /\ f \in Seq(S)
    <2>1. m \in Seq(S)
      OBVIOUS
    <2>2. s \in Seq(S)
      <3>1. CASE capture = Absent
        <4>1. s = <<>>
          BY <3>1
        <4> HIDE DEF s, S
        <4> QED
          BY <4>1
      <3>2. CASE capture # Absent
        <4>1. s = <<"provider_capture">> /\ "provider_capture" \in S
          BY <3>2
        <4> HIDE DEF s, S
        <4> QED
          BY <4>1
      <3> QED
        BY <3>1, <3>2
    <2>3. f \in Seq(S)
      <3>1. CASE delivery = Absent
        <4>1. f = <<>>
          BY <3>1
        <4> HIDE DEF f, S
        <4> QED
          BY <4>1
      <3>2. CASE delivery # Absent
        <4>1. f = <<"delivery_state">> /\ "delivery_state" \in S
          BY <3>2
        <4> HIDE DEF f, S
        <4> QED
          BY <4>1
      <3> QED
        BY <3>1, <3>2
    <2> QED
      BY <2>1, <2>2, <2>3
  <1>3. S \cap {"provider_capture", "delivery_state"} =
            {x \in {"provider_capture"} : capture # Absent} \cup {x \in {"delivery_state"} : delivery # Absent}
    OBVIOUS
  <1> HIDE DEF s, m, f, S
  <1>4. PhaseIds(capture, delivery) \in Seq(S)
    BY <1>1, <1>2, Concatenated
  <1>5. Range(PhaseIds(capture, delivery)) \subseteq S
    BY <1>4 DEF Range
  <1> QED
    BY <1>3, <1>5

\* The trace of any one observation, of any capture and delivered in any of the ways a
\* delivery ends: what is projected of it is valid, no record of it can be changed,
\* dropped, repeated or moved without the validator seeing it, its two advisory phases
\* have all the emission's advisories, and a cursor that moved was told to (Evidences).
THEOREM AnyTrace ==
  ASSUME NEW N, Codes(N), NEW obs \in AnyObservation(N), NEW in, in.delivery \in Deliveries,
         in.context.trace # "theirs", NEW out, out = TraceIngest(<<obs>>, in.capture, in.delivery)
  PROVE  Evidences(in, out)
  <1> DEFINE t == out.traces[1]
             c == in.context
             set == Project(t, c)
             rs == set.records
             last == rs[Len(rs)]
             batch == <<obs>>
             e == Built(obs)
             ended == LastPhase(t) - FirstPhase(t) + 1
  <1> SUFFICES ASSUME out.ok, Projectable(t, c)
               PROVE  /\ TraceSetValid(set) /\ Catches(set)
                      /\ ToldApart(set.records, t.emission.advisories)
                      /\ PhaseTraceValid(t, {"provider_capture", "delivery_state"}) =>
                           DOMAIN PhaseContracts = {r.phase : r \in Range(set.records)}
                      /\ last.persistence = "update" <=>
                            in.delivery \in {<<"201", "advance">>, <<"403", "advance">>}
                      /\ last.phase = "PHASE-08-GATEWAY-DELIVERY" =>
                           (last.status = "completed" <=> in.delivery = <<"201", "advance">>)
    BY DEF Evidences
  <1>1. Vouched(c)
    BY DEF Projectable, ContextValid, Vouched
  <1>2. /\ t.capture = in.capture /\ t.delivery = in.delivery
        /\ t.phases = PhaseIds(in.capture, in.delivery)
        /\ t.emission = EmissionCheckpoint(Normalize(batch).emissions[1]) /\ Normalize(batch).ok
    <2>1. DOMAIN batch = {1} /\ batch[1] = obs
      OBVIOUS
    <2> HIDE DEF batch
    <2>2. Normalize(batch).ok
      BY DEF TraceIngest, TraceOf, batch
    <2> QED
      BY <2>1, <2>2 DEF TraceIngest, TraceOf, batch
  <1>3. Fit(obs) /\ t.emission = EmissionCheckpoint(e)
    BY <1>2, NormalizedAlone
  <1>4. t.emission.advisories = e.advisories /\ e.advisories \in Seq(Advisories(N))
    <2>1. Parts(N, obs, e)
      BY BuiltIs
    <2>2. "advisories" \in DOMAIN e \ {"author", "markers", "signals"} /\ e.advisories \in Seq(Advisories(N))
      BY <2>1 DEF Parts, EmissionKeys
    <2> HIDE DEF e
    <2> QED
      BY <1>3, <2>2 DEF EmissionCheckpoint, Restrict
  <1> HIDE DEF t, e, batch
  <1>5. Projected(t, c, rs, FirstPhase(t), LastPhase(t))
    BY RecordsAre
  <1>6. /\ FirstPhase(t) \in 1..2 /\ LastPhase(t) \in 6..7
        /\ FirstPhase(t) = 1 <=> t.capture # Absent
        /\ LastPhase(t) = 7 <=> t.delivery # Absent
    BY SpanIs
  <1>7. TraceSetValid(set) /\ Catches(set)
    <2>1. set = [trace |-> c.trace, records |-> rs]
      BY DEF Project
    <2>2. Chained(c.trace, rs)
      BY <1>1, ProjectedChains
    <2> HIDE DEF set, rs
    <2> QED
      BY <2>1, <2>2, ChainCatches
  <1> DEFINE first == FirstPhase(t)
             end == LastPhase(t)
             n == end - first + 1
             P(i) == i + first - 1
  <1> HIDE DEF set, rs, first, end, n
  <1>8. /\ DOMAIN rs = 1..n /\ Len(rs) = n
        /\ \A i \in 1..n : rs[i].phase = PhaseAt(P(i)) /\ rs[i] = Record(t, c, PhaseOutputs(t), i)
    BY <1>5 DEF Projected, RecordIs, n, first, end
  <1>9. first \in 1..2 /\ end \in 6..7 /\ n = end - first + 1 /\ n \in 5..7 /\ n \in Nat
    BY <1>6 DEF first, end, n
  <1>10. ToldApart(rs, t.emission.advisories)
    <2> DEFINE all == t.emission.advisories
               p == OfScope(all, "integration")
               u == OfScope(all, "universal")
               i == 4 - first
               j == 6 - first
    <2>1. i \in 1..n /\ j \in 1..n /\ P(i) = 3 /\ P(j) = 5
      BY <1>9
    <2>2. ASSUME NEW k \in 1..n
           PROVE  /\ k = i <=> rs[k].phase = "PHASE-05-PROVIDER-ADVISORIES"
                  /\ k = j <=> rs[k].phase = "PHASE-07-UNIVERSAL-ADVISORIES"
      <3>1. P(k) \in 1..7 /\ (P(k) = 3 <=> k = i) /\ (P(k) = 5 <=> k = j)
        BY <1>9
      <3>2. /\ P(k) = 3 <=> PhaseAt(P(k)) = "PHASE-05-PROVIDER-ADVISORIES"
            /\ P(k) = 5 <=> PhaseAt(P(k)) = "PHASE-07-UNIVERSAL-ADVISORIES"
        <4> HIDE DEF P
        <4> QED
          BY <3>1 DEF PhaseAt
      <3> QED
        BY <1>8, <3>1, <3>2
    <2>3. \A k \in 1..n : rs[k].advisories =
                    IF rs[k].phase = "PHASE-05-PROVIDER-ADVISORIES" THEN p
                    ELSE IF rs[k].phase = "PHASE-07-UNIVERSAL-ADVISORIES" THEN u ELSE <<>>
      <3> HIDE DEF P
      <3> QED
        BY <1>8 DEF Record
    <2>4. Range(p) \cup Range(u) = Range(all) /\ Len(p) + Len(u) = Len(all)
      BY <1>4, ScopesPart
    <2> HIDE DEF P, i, j, p, u, all
    <2>5. /\ rs[i].phase = "PHASE-05-PROVIDER-ADVISORIES" /\ rs[i].advisories = p
          /\ rs[j].phase = "PHASE-07-UNIVERSAL-ADVISORIES" /\ rs[j].advisories = u
          /\ \A k \in 1..n \ {i, j} : rs[k].advisories = <<>>
      BY <2>1, <2>2, <2>3
    <2> QED
      BY <1>8, <2>1, <2>4, <2>5 DEF ToldApart, all
  <1>11. ASSUME PhaseTraceValid(t, {"provider_capture", "delivery_state"})
         PROVE  DOMAIN PhaseContracts = {r.phase : r \in Range(rs)}
    <2>1. t.capture # Absent /\ t.delivery # Absent
      BY <1>2, <1>11, PhaseIdsAre DEF PhaseTraceValid
    <2>2. first = 1 /\ end = 7
      BY <1>6, <2>1 DEF first, end
    <2>3. n = 7 /\ \A i \in 1..7 : P(i) = i
      BY <1>9, <2>2
    <2>4. \A i \in 1..7 : rs[i].phase = PhaseAt(i)
      BY <1>8, <2>3
    <2>5. {r.phase : r \in Range(rs)} = {PhaseAt(i) : i \in 1..7}
      BY <1>8, <2>3, <2>4 DEF Range
    <2>6. {PhaseAt(i) : i \in 1..7} = PhaseNames
      <3>1. 1..7 = {1, 2, 3, 4, 5, 6, 7}
        OBVIOUS
      <3>2. {PhaseAt(i) : i \in 1..7} = {PhaseAt(1), PhaseAt(2), PhaseAt(3), PhaseAt(4), PhaseAt(5),
                                         PhaseAt(6), PhaseAt(7)}
        BY <3>1
      <3> QED
        BY <3>2 DEF PhaseAt, PhaseNames
    <2> QED
      BY <2>5, <2>6 DEF PhaseContracts
  <1>12. /\ last.phase = PhaseAt(end)
         /\ last = Record(t, c, PhaseOutputs(t), n)
    <2>1. n \in 1..n /\ P(n) = end
      BY <1>9
    <2> HIDE DEF P
    <2> QED
      BY <1>8, <2>1
  <1>13. last.phase = "PHASE-08-GATEWAY-DELIVERY" <=> t.delivery # Absent
    BY <1>6, <1>9, <1>12 DEF PhaseAt, end
  <1>14. /\ last.persistence = "update" <=> t.delivery # Absent /\ CursorAdvanced(t)
         /\ last.phase = "PHASE-08-GATEWAY-DELIVERY" => (last.status = "completed" <=> Completed(t))
    <2> DEFINE r == Record(t, c, PhaseOutputs(t), n)
    <2>1. /\ r.persistence = (IF r.phase = "PHASE-08-GATEWAY-DELIVERY" /\ CursorAdvanced(t)
                              THEN "update" ELSE "none")
          /\ r.status = (IF r.phase = "PHASE-08-GATEWAY-DELIVERY" /\ ~Completed(t)
                         THEN "failed" ELSE "completed")
      BY DEF Record
    <2> HIDE DEF r
    <2>2. last = r
      BY <1>12 DEF r
    <2> HIDE DEF last
    <2> QED
      BY <1>13, <2>1, <2>2
  <1>15. /\ CursorAdvanced(t) <=> in.delivery \in {<<"201", "advance">>, <<"403", "advance">>}
         /\ Completed(t) <=> in.delivery = <<"201", "advance">>
         /\ CursorAdvanced(t) => t.delivery # Absent
    BY <1>2 DEF CursorAdvanced, Completed, Deliveries, Absent
  <1> QED
    BY <1>7, <1>10, <1>11, <1>13, <1>14, <1>15 DEF rs
==============================================================================
