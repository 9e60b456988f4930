------------------------------ MODULE Redaction ------------------------------
(***************************************************************************)
(* The text redactor (adapter/core/redaction.py over sensitive.py) and the *)
(* sanitizer of an observation (adapter/core/redaction_receipt.py).        *)
(*                                                                         *)
(* A text is a sequence of tokens, one for each class of span the patterns *)
(* tell apart.  A pass rewrites tokens in place, so that position i of a   *)
(* redacted text shows what became of position i.  What is left when a     *)
(* pattern takes a part of a span only is a token of its own:              *)
(*   "secret/cut"  a key some digits of which were taken for a telephone   *)
(*   "card/cut"    a card number short of its first fourteen digits        *)
(*   "phone/cut"   what follows the first group of "202 555 0123"          *)
(*   "pem/body"    a private key whose BEGIN line alone is in the catalog  *)
(***************************************************************************)
EXTENDS Integers, Sequences, FiniteSets, FiniteSetsExt, Functions, TLC

\* Ordinary words, some of which the heuristics know: a name that ends in "[bot]",
\* a dependency bot's, a status such as "LGTM", the marker of a template.
Words == {"word", "bot", "renovate", "status", "template"}

Tokens == Words \cup { "secret", "pem", "card", "card13", "mrn", "phi:", "id:",
                      "tel:", "email", "phone", "+phone", "digits" }

\* Luhn-valid runs of 16 digits, and of 13, which the telephone pattern matches.
Cards == {"card", "card13"}

Before(text, i) == IF i = 1 THEN "" ELSE text[i - 1]

\* A text made position by position.  (Unlike a function, a concatenation is computed
\* once by TLC, however many passes read it.)
Rewritten(text, at(_)) == <<>> \o [i \in DOMAIN text |-> at(i)]

Substitute(text, by) ==
    Rewritten(text, LAMBDA i : IF text[i] \in DOMAIN by THEN by[text[i]] ELSE text[i])

------------------------------------------------------------------------------
(* The catalog *)

SecretPass(text) == Substitute(text, [secret |-> "[secret]", pem |-> "pem/body"])

\* Labels are matched from the left and do not overlap: of labels in a row each
\* second one is the value of the label before it.
Labels(text) ==
    {i \in DOMAIN text : \E d \in 0..(i - 1) :
        /\ d % 2 = 0
        /\ \A j \in (i - d)..i : text[j] = "phi:"
        /\ d + 1 = i \/ text[i - d - 1] # "phi:"}

\* A value is one run of [\w@.-]: of a number in groups it is the first group, and
\* a placeholder or a "+1" begins no value at all.
PhiValue ==
    [t \in Words \cup {"email", "card", "card13", "digits", "id:", "tel:", "phi:", "phone"}
        |-> IF t = "phone" THEN "phone/cut" ELSE "gone"]

PhiPass(text) ==
    LET noMrn == Substitute(text, [mrn |-> "[phi]"])
        labels == Labels(noMrn)
        at(i) == IF i \in labels THEN "[phi]"
                 ELSE IF (i - 1) \in labels /\ noMrn[i] \in DOMAIN PhiValue
                      THEN PhiValue[noMrn[i]] ELSE noMrn[i]
    IN Rewritten(text, at)

IsPan(text, i) == text[i] \in Cards /\ Before(text, i) # "id:"

PanPass(text) == Rewritten(text, LAMBDA i : IF IsPan(text, i) THEN "[pan]" ELSE text[i])

\* (Mutant) Card numbers first: the label that excused one may be gone afterwards.
RedactCatalogPanFirst(text) == PhiPass(SecretPass(PanPass(text)))

RedactCatalog(text) == PanPass(PhiPass(SecretPass(text)))

DetectSensitive(text) ==
    {i \in DOMAIN text : text[i] \in {"secret", "pem", "mrn", "phi:"} \/ IsPan(text, i)}

------------------------------------------------------------------------------
(* Generic personal data *)

EmailPass(text) == Substitute(text, [email |-> "[email]"])

PhonePass(text) ==
    Substitute(text, [t \in {"phone", "+phone", "card13", "secret"}
                        |-> IF t = "secret" THEN "secret/cut" ELSE "[phone]"])

\* A keyword makes a telephone of the seven to fourteen digits that follow it.
PhoneContextPass(text) ==
    LET at(i) == CASE Before(text, i) = "tel:" /\ text[i] = "digits" -> "[phone]"
                   [] Before(text, i) = "tel:" /\ text[i] = "card"   -> "card/cut"
                   [] OTHER -> text[i]
    IN Rewritten(text, at)

\* (Mutant) The catalog after the broad patterns only.
RedactBroadFirst(text) == RedactCatalog(PhoneContextPass(PhonePass(EmailPass(text))))

Redact(text) ==
    RedactCatalog(PhoneContextPass(PhonePass(EmailPass(RedactCatalog(text)))))

Count(text, kinds) == Cardinality({i \in DOMAIN text : text[i] \in kinds})

\* redact_with_findings: the catalog counts its hits in the text as it came, the
\* other passes what they replace.
Findings(text) ==
    LET hits == DetectSensitive(text)
        caught == EmailPass(RedactCatalog(text))
        phoned == PhoneContextPass(PhonePass(caught)) IN
    [ credential |-> Cardinality({i \in hits : text[i] \in Cards}),
      pii        |-> Cardinality({i \in hits : text[i] \in {"mrn", "phi:"}})
                     + Count(caught, {"[email]"}) + Count(phoned, {"[phone]"}),
      secret     |-> Cardinality({i \in hits : text[i] \in {"secret", "pem"}}) ]

NoFindings == [credential |-> 0, pii |-> 0, secret |-> 0]

\* _merge_counts
Merge(f, g) == [c \in DOMAIN f |-> f[c] + g[c]]

------------------------------------------------------------------------------
(* An observation: free texts, identity texts by field, and metadata as the    *)
(* set of its leaves, each with the text of its key, the kind and the text.    *)

IdentityFields == { "source_id", "ref", "url", "kind", "provider_event_id",
                    "provider_resource_id", "evidence_id", "timestamp" }

FreeTexts == {"excerpt", "title", "author"}

\* What _canonical cannot encode, and what _sanitize_value refuses besides.
Unencodable == {"bytes", "object"}
Unsanitizable == Unencodable \cup {"set"}

SanitizeLeaf(leaf) ==
    IF leaf.kind = "text" THEN [leaf EXCEPT !.text = Redact(leaf.text)] ELSE leaf

\* A key must come through the redactor as it is: metadata keys are never rewritten.
SensitiveKey(leaf) == Redact(leaf.key) # leaf.key \/ Findings(leaf.key) # NoFindings

LeafFindings(leaf) == IF leaf.kind = "text" THEN Findings(leaf.text) ELSE NoFindings

\* What a digest is taken of: an observation with all its fields.  (SHA-256 is taken
\* to be injective, here and wherever values are digested: a digest is the value.)
ObservationPayload(obs) == Restrict(obs, DOMAIN obs \ {"oversized", "untyped"})

\* (Mutant) The author's name is taken for an identifier.
SanitizedKeepsAuthor(obs) ==
    [obs EXCEPT !.excerpt = Redact(@), !.title = Redact(@),
                !.metadata = {SanitizeLeaf(l) : l \in @}]

Sanitized(obs) ==
    [obs EXCEPT !.excerpt = Redact(@), !.title = Redact(@), !.author = Redact(@),
                !.metadata = {SanitizeLeaf(l) : l \in @}]

\* What was found in all the free texts and in the metadata.
ReceiptFindings(obs) ==
    Merge(Merge(Findings(obs.excerpt), Findings(obs.title)),
          FoldSet(LAMBDA l, f : Merge(LeafFindings(l), f), Findings(obs.author), obs.metadata))

\* The receipt says what was found and never what it was; completed_at, the one
\* field that receipt_digest leaves out, is left out.
Receipt(obs) ==
    [ schema_version |-> 1, ruleset_id |-> "fx-sec-001-plus-pii-v1",
      input_digest |-> ObservationPayload(obs),
      output_digest |-> ObservationPayload(Sanitized(obs)),
      findings |-> ReceiptFindings(obs) ]

\* (Mutant) Identity goes through the text redactor like everything else.
SensitiveIdentityAsText(obs) ==
    {f \in IdentityFields : Redact(obs.identity[f]) # obs.identity[f]}

\* _preserve_identity: opaque identifiers look like telephones all the time, so
\* only the catalog is asked.
SensitiveIdentity(obs) ==
    {f \in IdentityFields : DetectSensitive(obs.identity[f]) # {}}

\* guarded_sanitize_observation: why an observation is refused, in the order the
\* code would notice, or "" if it is not.  (That the worker may be late is the
\* business of RedactionWorker.)
Refusal(obs) ==
    IF \E l \in obs.metadata : l.kind \in Unencodable THEN "unsupported_metadata_type"
    ELSE IF obs.oversized THEN "oversized_payload"
    ELSE IF SensitiveIdentity(obs) # {} THEN "sensitive_identity_field"
    ELSE IF obs.untyped # {} THEN "engine_unavailable"
    ELSE IF \E l \in obs.metadata : SensitiveKey(l) THEN "sensitive_metadata_key"
    ELSE IF \E l \in obs.metadata : l.kind \in Unsanitizable THEN "unsupported_metadata_type"
    ELSE ""
==============================================================================
