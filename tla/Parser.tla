------------------------------- MODULE Parser -------------------------------
(***************************************************************************)
(* The universal parser (ulpf-core, parser/mod.rs) on a fixed collection   *)
(* of logs: classification, the extractor of the format, and the generic   *)
(* event that keeps a log nothing can be read off.                         *)
(***************************************************************************)
EXTENDS Classifier, Extractors

CONSTANTS
  Raws,   \* raw logs
  text,   \* what the classifier and the signature see of each (module Classifier)
  body,   \* what the extractors see of it (module Extractors)
  json,   \* and serde_json, from its first brace on: <<the object>>, <<>> for an error
  hash    \* FxHasher64, on the fingerprints of the logs

ASSUME ParserAssumption ==
  /\ Raws # {}
  /\ text \in [Raws -> Text]
  /\ DOMAIN body = Raws /\ \A r \in Raws : body[r] \in Seq(STRING)
  /\ DOMAIN json = Raws /\ \A r \in Raws : Len(json[r]) <= 1
  /\ hash \in [{fingerprint(text[r]) : r \in Raws} -> Nat]

\* What is read off a log, once and for all.
signature == [r \in Raws |-> hash[fingerprint(text[r])]]
class     == [r \in Raws |-> classify(text[r])]
extracted == [r \in Raws, f \in VendorFormat |-> extract(f, body[r], json[r])]

\* UniversalParser::parse_with_format
parse_with_format(r, format) == IF format = Unknown THEN <<>> ELSE extracted[r, format]

\* UniversalParser::parse
parse(r) == parse_with_format(r, class[r])

\* The event of a log that could not be parsed.
Generic == Event("Unknown", UNKNOWN, OTHER_ACTIVITY, Nowhere, Nowhere, NoProtocol)

Lossless(result) == IF result = <<>> THEN Generic ELSE result[1]

\* UniversalParser::parse_lossless
parse_lossless(r) == Lossless(parse(r))

\* A log shares its signature with a log of another class.
Aliased(r) == \E q \in Raws : signature[q] = signature[r] /\ class[q] # class[r]
=============================================================================
