----------------------------- MODULE Redaction ------------------------------
(***************************************************************************)
(* What the broker does to a string before it goes into a log: by value,   *)
(* URL userinfo, by shape, truncation, and the escaping of JSON and repr() *)
(* in between.                                                             *)
(*                                                                         *)
(* A string is a sequence of symbols, each a character and the place it    *)
(* has in the original, 0 for a placeholder and for what escaping adds.    *)
(* "://", "%s" and a placeholder are one symbol.  Ports, queries and       *)
(* fragments, and the bytes that are escaped wherever they stand, are left *)
(* out.                                                                    *)
(***************************************************************************)
EXTENDS Naturals, FiniteSets, Sequences

CONSTANTS
    Held,       \* the values of secret variables, as sequences of characters
    MinValue,   \* _MIN_REDACT_VALUE_LEN
    MinShape,   \* the length from which on a run of hex digits is a token
    MaxArg      \* _MAX_ARG_LEN

Digits  == {"1"}
Letters == {"a", "x"}
Hex     == {"a"} \union Digits
Word    == Letters \union Digits
White   == " "
Sep     == "://"
Hole    == "%s"
EndsAuthority == {"/", Sep}     \* a "://" has a "/" in it

\* The placeholders: no value has one in it.
Marks == {"<value>", "***", "<redacted>", "<hex>", "<truncated>"}

ASSUME RedactionAssumptions ==
    /\ \A v \in Held : v \in Seq(STRING) /\ \A i \in DOMAIN v : v[i] \notin Marks
    /\ MinValue \in Nat \ {0} /\ MinShape \in Nat \ {0} /\ MaxArg \in Nat

Symbol(char) == [char |-> char, at |-> 0]
Places(s) == {s[i].at : i \in DOMAIN s} \ {0}
Chars(v) == {v[i] : i \in DOMAIN v}
CharsOf(s) == {s[i].char : i \in DOMAIN s}

\* The value v stands at position i of s.
StandsAt(v, s, i) == i + Len(v) - 1 <= Len(s) /\ \A k \in DOMAIN v : s[i + k - 1].char = v[k]

-----------------------------------------------------------------------------
\* Going over a sequence from the left: chunk[i] for what stands from i on, up to next[i].
Rewritten(s, chunk, next) ==
    LET rest[i \in 1..(Len(s) + 1)] ==
            IF i > Len(s) THEN <<>> ELSE chunk[i] \o rest[next[i]]
    IN  rest[1]

\* chunk[i] for every single element.
Flat(s, chunk) == Rewritten(s, chunk, [i \in DOMAIN s |-> i + 1])

-----------------------------------------------------------------------------
\* The set of values.

\* A string written with a backslash in front of the special characters.
EscapeChars(v, special) ==
    Flat(v, [i \in DOMAIN v |-> IF v[i] \in special THEN <<"\\", v[i]>> ELSE <<v[i]>>])
Escape(s, special) ==
    Flat(s, [i \in DOMAIN s |->
        IF s[i].char \in special THEN <<Symbol("\\"), s[i]>> ELSE <<s[i]>>])

\* json.dumps() is always in ", and repr() in ' unless the string has a ' and no ": what it
\* escapes depends on all the characters of the string.
JsonEscaped == {"\\", "\""}
ReprEscaped(chars) == {"\\"} \union (IF {"'", "\""} \subseteq chars THEN {"'"} ELSE {})

\* json.dumps(s)[1:-1] and repr(s)[1:-1]
Json(s) == Escape(s, JsonEscaped)
Repr(s) == Escape(s, ReprEscaped(CharsOf(s)))

\* A URL without userinfo, and without a path other than slashes: the authority ends before e.
BareOrigin(v) ==
    \E i \in DOMAIN v :
        /\ v[i] = Sep /\ i > 1 /\ v[1] \in Letters /\ \A k \in 1..(i - 1) : v[k] \in Word
        /\ \E e \in (i + 1)..(Len(v) + 1) :
               /\ \A k \in (i + 1)..(e - 1) :
                      v[k] \notin EndsAuthority /\ (v[k] = "@" => k = i + 1)
               /\ e <= Len(v) => v[e] \in EndsAuthority
               /\ \A k \in (e + 1)..Len(v) : v[k] = "/"

\* _is_redactable_value
IsRedactableValue(v) == Len(v) >= MinValue /\ ~(Chars(v) \subseteq Digits) /\ ~BareOrigin(v)

\* configure_value_redaction: the values that count, and each as repr() and JSON write it when
\* it stands alone.
Redactable == {v \in Held : IsRedactableValue(v)}
Values == UNION {{v, EscapeChars(v, ReprEscaped(Chars(v))), EscapeChars(v, JsonEscaped)} :
                    v \in Redactable}

-----------------------------------------------------------------------------
\* The passes over one string.

\* The longest value that stands at position i of s, if there is one.
ValueAt(s, i) ==
    LET here == {v \in Values : StandsAt(v, s, i)}
    IN  IF here = {} THEN <<>> ELSE CHOOSE v \in here : \A w \in here : Len(w) <= Len(v)

\* _redact_values: from the left, the longest value at each position.
RedactValues(s) ==
    LET at == [i \in DOMAIN s |-> ValueAt(s, i)]
    IN  Rewritten(s,
            [i \in DOMAIN s |-> IF at[i] = <<>> THEN <<s[i]>> ELSE <<Symbol("<value>")>>],
            [i \in DOMAIN s |-> IF at[i] = <<>> THEN i + 1 ELSE i + Len(at[i])])

\* The end of the run that starts at i: the next white space, or the end of s.
RunEnd(s, i) ==
    CHOOSE j \in i..(Len(s) + 1) :
        /\ j = Len(s) + 1 \/ s[j].char = White
        /\ \A k \in i..(j - 1) : s[k].char # White

\* Mutation of UserinfoEnd: the first @ of the run.
UserinfoEndFirst(s, i) ==
    LET ats == {k \in i..(RunEnd(s, i) - 1) : s[k].char = "@"}
    IN  IF ats = {} THEN 0 ELSE CHOOSE k \in ats : \A j \in ats : j >= k

\* The last @ of the run that starts at i, or 0.
UserinfoEnd(s, i) ==
    LET ats == {k \in i..(RunEnd(s, i) - 1) : s[k].char = "@"}
    IN  IF ats = {} THEN 0 ELSE CHOOSE k \in ats : \A j \in ats : j <= k

\* What is left of a URL whose "://" is at i: up to the last @ of the run its userinfo goes; or
\* all of the run, if what is before that @ may not be userinfo only.
UrlAt(s, i) ==
    LET end == RunEnd(s, i + 1)
        at  == UserinfoEnd(s, i + 1)
    IN  IF at = 0 THEN SubSeq(s, i, end - 1)
        ELSE IF \E k \in (i + 1)..(at - 1) : s[k].char \in EndsAuthority
        THEN <<s[i], Symbol("<redacted>")>>
        ELSE <<s[i], Symbol("***")>> \o SubSeq(s, at, end - 1)

\* _redact_url_userinfo
RedactUrlUserinfo(s) ==
    Rewritten(s,
        [i \in DOMAIN s |-> IF s[i].char = Sep THEN UrlAt(s, i) ELSE <<s[i]>>],
        [i \in DOMAIN s |-> IF s[i].char = Sep THEN RunEnd(s, i + 1) ELSE i + 1])

\* A token by its shape begins at i of s: hex digits from word boundary to word boundary.
\* It stands for the five expressions that _redact_string applies.
ShapeEnd(s, i) ==
    LET ends == {j \in (i + MinShape - 1)..Len(s) :
                    /\ \A k \in i..j : s[k].char \in Hex
                    /\ i = 1 \/ s[i - 1].char \notin Word
                    /\ j = Len(s) \/ s[j + 1].char \notin Word}
    IN  IF ends = {} THEN 0 ELSE CHOOSE j \in ends : TRUE

RedactShapes(s) ==
    LET end == [i \in DOMAIN s |-> ShapeEnd(s, i)]
    IN  Rewritten(s,
            [i \in DOMAIN s |-> IF end[i] = 0 THEN <<s[i]>> ELSE <<Symbol("<hex>")>>],
            [i \in DOMAIN s |-> IF end[i] = 0 THEN i + 1 ELSE end[i] + 1])

\* _redact_string
RedactString(s) == RedactShapes(RedactUrlUserinfo(RedactValues(s)))

-----------------------------------------------------------------------------
\* A field of a structlog event.

\* Mutation of SanitizeString: cut first, which is cheaper.
SanitizeStringCutFirst(s) == RedactString(SubSeq(s, 1, IF Len(s) < MaxArg THEN Len(s) ELSE MaxArg))

\* _sanitize_value on a string: redacted, and what is left of it cut.
SanitizeString(s) ==
    LET redacted == RedactString(s)
    IN  IF Len(redacted) > MaxArg
        THEN Append(SubSeq(redacted, 1, MaxArg), Symbol("<truncated>")) ELSE redacted

\* _sanitize_processor and _sanitize_value, by where the string is:
\*   preserved  the event, its level and so on, which are left as they are
\*   sensitive  under a key that looks sensitive
\*   key        a key of a dict: redacted, never cut
\*   object     in something that is rendered by repr()
\*   value      anywhere else
Sanitize(where, s) ==
    CASE where = "preserved" -> s
      [] where = "sensitive" -> <<Symbol("<redacted>")>>
      [] where = "key"       -> RedactString(s)
      [] where = "object"    -> SanitizeString(Repr(s))
      [] where = "value"     -> SanitizeString(s)

-----------------------------------------------------------------------------
\* A record of the logging library.

Holes(s) == {i \in DOMAIN s : s[i].char = Hole}

\* msg % args, where there are args; None if the holes are not as many.
Format(msg, args, none) ==
    IF args = <<>> THEN msg
    ELSE IF Cardinality(Holes(msg)) # Len(args) THEN none
    ELSE Flat(msg, [i \in DOMAIN msg |->
             IF i \in Holes(msg) THEN args[Cardinality({k \in Holes(msg) : k <= i})]
             ELSE <<msg[i]>>])

\* Mutation of RedactRecord: the parts, one by one.
RedactRecordByParts(msg, args, plain, none) ==
    LET parts == [i \in DOMAIN args |-> RedactString(args[i])]
        whole == Format(RedactString(msg), parts, none)
    IN  IF plain THEN whole ELSE RedactString(Format(msg, args, none))

\* _redact_record and what the handler then prints: the parts where they stand, if they are
\* plain, and the message as a whole, if it still holds something once it is put together.
\* None stands for the text of a record that could not be formatted.
RedactRecord(msg, args, plain, none) ==
    LET parts == [i \in DOMAIN args |-> RedactString(args[i])]
        whole == IF plain THEN Format(RedactString(msg), parts, none)
                 ELSE Format(msg, args, none)
    IN  IF whole = none \/ (plain /\ args = <<>>) THEN whole ELSE RedactString(whole)

=============================================================================
