----------------------------- MODULE MCPayloads -----------------------------
(***************************************************************************)
(* Two patterns; texts of all shapes; rule lists of at most three rules;   *)
(* all strings of at most four symbols, and some longer ones that a URL    *)
(* begins or in which a value stands at the end, in an environment whose   *)
(* values overlap, contain each other, have quotes, a hex run and          *)
(* delimiters in them, are numbers and origins.                            *)
(***************************************************************************)
EXTENDS Payloads, TLC

Decodes == {<<>>, <<"url">>, <<"base64", "url">>, <<"url", "base64">>, <<"urlsafe_base64", "url">>,
            <<"urlsafe_base64", "base64">>}

MCRule(p, a, d, f) == [pattern |-> p, action |-> a, decode |-> d, fields |-> f]

MCTexts == {t \in Texts :
    /\ t.refused \subseteq 1..t.layers \/ (t.accident /\ t.refused = {0})
    /\ t.quoted \subseteq {"p"}
    /\ t.layers > 0 => ~t.accident
    /\ t.layers = 0 => t.size = "small"
    /\ t.layers = 2 => t.quoted = {} /\ t.size = "small"}

MCArgRuleLists ==
    {<<MCRule("p", "block", d, f)>> : d \in Decodes, f \in {{"*"}, {"f", "g"}}}
    \union {<<MCRule("p", "warn", d, {"*"}), MCRule("q", "block", <<"base64">>, {"g"}),
              MCRule("p", "block", d, {"f"})>> : d \in Decodes}
MCArguments == [{"f", "g"} -> [kind : {"string", "nested"}, text : {Noise}]]
    \union {("f" :> [kind |-> k, text |-> t]) @@ ("g" :> [kind |-> "string", text |-> u]) :
               k \in {"string", "nested"}, t \in MCTexts,
               u \in {t \in MCTexts : t.layers = 1 /\ t.size = "small"}}

MCRespRuleLists ==
    {<<>>}
    \union {<<MCRule("p", a, d, {"*"})>> : a \in {"block", "warn", "redact"}, d \in Decodes}
    \union {<<MCRule("p", a, d, {"*"}), MCRule("q", b, <<"base64">>, {"*"})>> :
                a \in {"block", "warn", "redact"}, b \in {"block", "redact"}, d \in Decodes}
MCResponses ==
    {"leaf" :> t : t \in MCTexts}
    \union {"leaf" :> t @@ "uri" :> u : t \in {Noise}, u \in MCTexts}
    \union {"leaf" :> t @@ "textBlob" :> u :
               t \in {Noise, [Noise EXCEPT !.plain = {"p"}]}, u \in MCTexts}
    \union {"key" :> t @@ "payload" :> t : t \in MCTexts}

Alphabet == {"a", "x", "'", "\"", "/", "@", Sep, White}
Placed(s) == [i \in DOMAIN s |-> [char |-> s[i], at |-> i]]
MCStrings == {Placed(s) : s \in UNION {[1..n -> Alphabet] : n \in 1..4}}
    \union {Placed(s) : s \in {t \in [1..5 -> Alphabet \ {"\""}] :
                                t[1] = Sep \/ (t[2] = Sep /\ t[1] \in {"x", "@"})}}
    \union {Placed(s \o <<"x", "a", "x">>) : s \in [1..2 -> Alphabet]}
    \union {Placed(<<c>> \o s \o <<d>>) : c, d \in Alphabet,
               s \in {<<"1", "1">>, <<"1", "a", "1">>, <<"a", "\\", "'">>}}
    \union {Placed(<<Sep, c, "@", Hole>>) : c \in Alphabet}
    \union {Placed(<<"@", Sep, Sep, "@", "x", "@">>)}
MCPositions == {"preserved", "sensitive", "key", "object", "value"}

\* "ax" is a prefix of "ax'" and overlaps "xax"; "a", "a", "/" has a hex run; a ' and a "; a
\* number, short and long; bare origins with and without a slash, a path; an @; a "://" at
\* the end.
MCHeld == {<<"a", "x">>, <<"a", "x", "'">>, <<"\"", "x">>, <<"a", "'">>, <<"x", "a", "x">>,
           <<"a", "a", "/">>, <<"a">>, <<"1", "1">>, <<"1", "a", "1">>,
           <<"x", Sep, "x">>, <<"x", Sep, "x", "/">>, <<"x", Sep, "/", "a">>,
           <<"@", "x">>, <<"@", Sep>>}

=============================================================================
