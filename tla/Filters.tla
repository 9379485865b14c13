------------------------------ MODULE Filters -------------------------------
(***************************************************************************)
(* The argument filter and the response filter: rules that are matched     *)
(* against a string and against what its decode steps make of it.          *)
(*                                                                         *)
(* A text stands for a string: the secrets that a regex finds in it, some  *)
(* of them percent-encoded, under layers of base64.                        *)
(***************************************************************************)
EXTENDS Naturals, FiniteSets, Sequences

CONSTANTS
    Patterns,   \* what the rules' regular expressions look for
    None        \* Python's None

Steps == {"base64", "urlsafe_base64", "url"}

Texts == [
    plain    : SUBSET Patterns,     \* matched as the string stands, below its base64
    quoted   : SUBSET Patterns,     \* matched once it is unquoted
    layers   : 0..2,                \* of base64 around it
    refused  : SUBSET (0..2),       \* those, counted from the text at 0, that are no strict base64
    size     : {"small", "large", "huge"},  \* over 64 KiB is large, over 4 MiB is huge
    accident : BOOLEAN]             \* without a layer it still decodes as base64, to noise

ASSUME FiltersAssumptions == None \notin Texts

Noise == [plain |-> {}, quoted |-> {}, layers |-> 0, refused |-> {}, size |-> "small",
          accident |-> FALSE]
REDACTED == Noise

\* pattern.search
Search(pattern, t) == t.layers = 0 /\ pattern \in t.plain

-----------------------------------------------------------------------------
\* Decoding.

Unquote(t) ==
    IF t.layers = 0 THEN [t EXCEPT !.plain = @ \union t.quoted, !.quoted = {}] ELSE t

\* _b64_decode.  The strict decoder takes neither '-' and '_' nor a padding that is missing,
\* nor a percent sign.  The url-safe one takes both alphabets, pads, and passes over the rest.
B64Decode(t, urlsafe, sizes) ==
    IF t.size \notin sizes \/ (t.layers \in t.refused /\ ~urlsafe) THEN None
    ELSE IF t.layers > 0 THEN [t EXCEPT !.layers = @ - 1]
    ELSE IF t.accident /\ (urlsafe \/ t.quoted = {}) THEN Noise
    ELSE None

Decoded(t, step) ==
    IF step = "url" THEN Unquote(t) ELSE B64Decode(t, step = "urlsafe_base64", {"small"})

\* What the next step is applied to: a step that fails is skipped.
Onward(t, step) == LET d == Decoded(t, step) IN IF d = None THEN t ELSE d

\* What is left after the first k of the decode steps.
Forms(t, decode) ==
    LET form[k \in 0..Len(decode)] == IF k = 0 THEN t ELSE Onward(form[k - 1], decode[k])
    IN  form

\* Mutation of CandidateStrings: every step decodes the raw string.
CandidateStringsOfRaw(t, decode) == {t} \union {Onward(t, decode[k]) : k \in DOMAIN decode}

\* _candidate_strings: the string, and each step that succeeds applied to the last of them.
CandidateStrings(t, decode) == {Forms(t, decode)[k] : k \in 0..Len(decode)}

\* Whether a rule matches a string in any of its forms.
Hits(rule, t) == \E c \in CandidateStrings(t, rule.decode) : Search(rule.pattern, c)

-----------------------------------------------------------------------------
\* The argument filter.  kwargs: per field its kind, "string" or "nested", and its text.

\* _iter_string_fields: strings inside of lists and dicts are not walked.
StringFields(kwargs) == {f \in DOMAIN kwargs : kwargs[f].kind = "string"}

\* _field_matches, of a rule without an empty `fields`
Scanned(rule, kwargs) ==
    {f \in StringFields(kwargs) : "*" \in rule.fields \/ f \in rule.fields}

\* _scan
Scan(rule, kwargs) == \E f \in Scanned(rule, kwargs) : Hits(rule, kwargs[f].text)

\* The rules of one action that an argument list runs into.
RulesHit(rules, action, kwargs) ==
    {i \in DOMAIN rules : rules[i].action = action /\ Scan(rules[i], kwargs)}

\* ArgumentFilterMiddleware: the first block rule that hits ends the call with one record;
\* without one every warn rule that hits gets a record.
ArgumentFilter(rules, kwargs) ==
    LET blocks == RulesHit(rules, "block", kwargs)
    IN  IF blocks # {}
        THEN [blocked |-> TRUE, logged |-> {i \in blocks : \A j \in blocks : i <= j}]
        ELSE [blocked |-> FALSE, logged |-> RulesHit(rules, "warn", kwargs)]

-----------------------------------------------------------------------------
\* The response filter.  A string comes out changed or unchanged, or the response is blocked.

\* pattern.sub.  A placeholder inside of base64 leaves nothing that decodes.
Substituted(t, pattern) == [t EXCEPT !.plain = @ \ {pattern}, !.accident = FALSE]

\* Mutation of Redacted: the match is substituted in the raw string, or it stays.
RedactedRawOnly(rule, t) == Substituted(t, rule.pattern)

\* The redact action.  If only a decoded form matched, the whole value goes.
Redacted(rule, t) ==
    IF Search(rule.pattern, t) THEN Substituted(t, rule.pattern) ELSE REDACTED

\* _apply_rule_to_string; None stands for the ConfigError of a block rule.
ApplyRule(rule, t) ==
    IF t = None THEN None
    ELSE IF ~Hits(rule, t) \/ rule.action = "warn" THEN t
    ELSE IF rule.action = "redact" THEN Redacted(rule, t)
    ELSE None

\* _filter_value on a string: every rule in order, each on what the one before has left.
FilterString(rules, t) ==
    LET left[k \in 0..Len(rules)] == IF k = 0 THEN t ELSE ApplyRule(rules[k], left[k - 1])
    IN  left[Len(rules)]

\* _scan_text_blob: not if it cannot be decoded, and not if a block or redact rule hits.
BlobPasses(rules, blob) ==
    LET decoded == B64Decode(blob, FALSE, {"small", "large"})
    IN  /\ decoded # None
        /\ \A i \in DOMAIN rules : rules[i].action = "warn" \/ ~Hits(rules[i], decoded)

\* A response is a tree; what matters of it is the set of its strings and where they are:
\*   leaf     the values of dicts, lists, content blocks, and a bare string
\*   uri      a field of a content block whose model takes nothing but a URI
\*   key      keys of dicts
\*   textBlob the payload of an embedded resource with a text type, or with none
\*   payload  any other payload: image, audio, a binary resource

ResponsePlaces == {"leaf", "uri", "key", "textBlob", "payload"}

\* What _filter_value, with _filter_content_block, makes of one string.
FilterPlace(rules, place, t) ==
    CASE place \in {"leaf", "uri"}      -> FilterString(rules, t)
      [] place \in {"key", "payload"}   -> t
      [] place = "textBlob"             -> IF BlobPasses(rules, t) THEN t ELSE None

\* type(block).model_validate on a URI: one that was replaced whole is refused, one with a
\* placeholder in it may be.
Revalidations(before, after) ==
    IF after = before THEN {TRUE} ELSE IF after = REDACTED THEN {FALSE} ELSE BOOLEAN

\* ResponseFilter.filter_response: the filtered response, or None where one string or one
\* block stops all of it.
FilterResponse(rules, response) ==
    LET out == [p \in DOMAIN response |-> FilterPlace(rules, p, response[p])]
    IN  IF rules = <<>> THEN {response}
        ELSE IF \E p \in DOMAIN response : out[p] = None THEN {None}
        ELSE IF "uri" \in DOMAIN response
        THEN {IF valid THEN out ELSE None : valid \in Revalidations(response["uri"], out["uri"])}
        ELSE {out}

=============================================================================
