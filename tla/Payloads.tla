------------------------------ MODULE Payloads ------------------------------
(***************************************************************************)
(* What goes in and out of a tool call, and what of it is written down: a  *)
(* call runs through the argument filter, the handler and the `audited`    *)
(* wrapper with the response filter in it, and a log line through          *)
(* structlog's processor, JSON and the record factory, or through the      *)
(* factory alone if a library has logged it.                               *)
(***************************************************************************)
EXTENDS Filters, Redaction

CONSTANTS
    ArgRuleLists,   \* argument_filters of a manifest
    Arguments,      \* argument lists of calls
    RespRuleLists,  \* response_filters
    Responses,      \* what a handler may return
    Strings,        \* strings that get into a log
    Positions       \* where in an event

\* _compile_rule
Rules(actions) ==
    [pattern : Patterns, action : actions, decode : Seq(Steps), fields : SUBSET STRING]

ASSUME PayloadsAssumptions ==
    /\ ArgRuleLists \subseteq Seq(Rules({"block", "warn"}))
    /\ \A a \in Arguments : a \in [DOMAIN a -> [kind : {"string", "nested"}, text : Texts]]
    /\ RespRuleLists \subseteq Seq(Rules({"block", "warn", "redact"}))
    /\ \A r \in Responses : DOMAIN r \subseteq ResponsePlaces /\ r \in [DOMAIN r -> Texts]
    /\ \A s \in Strings : s \in Seq([char : STRING, at : Nat]) /\ \A i \in DOMAIN s : s[i].at = i
    /\ Positions \subseteq {"preserved", "sensitive", "key", "object", "value"}

VARIABLES
    stage,      \* of the call or of the line
    rules,      \* the rules of the filter that a call is at
    kwargs,     \* its arguments, None once the handler has them
    response,   \* what the handler has returned
    delivered,  \* what the client gets for it
    executed,   \* the handler has been called
    audit,      \* the audit lines of the call
    source,     \* the string that gets into a line, as it was
    where,      \* its position in an event, or "record"
    parts,      \* of a record: msg, args and whether these are strings and numbers
    shown       \* the line as it is so far

callVars == <<rules, kwargs, response, delivered, executed, audit>>
lineVars == <<source, where, parts, shown>>
vars == <<stage, callVars, lineVars>>

NoParts == [msg |-> <<>>, args |-> <<>>, plain |-> TRUE]

Call ==
    /\ stage = "arguments"
    /\ rules \in ArgRuleLists
    /\ kwargs \in Arguments
    /\ response = None /\ delivered = None
    /\ executed = FALSE
    /\ audit = <<>>
    /\ source = <<>> /\ where = "none" /\ parts = NoParts /\ shown = <<>>

\* A logging call of a library: the message as it is, or with an argument for the symbols
\* from i to j of it.
Cut(s, i, j, plain) ==
    [msg |-> SubSeq(s, 1, i - 1) \o <<Symbol(Hole)>> \o SubSeq(s, j + 1, Len(s)),
     args |-> <<SubSeq(s, i, j)>>,
     plain |-> plain]
RecordsOf(s) ==
    {[msg |-> s, args |-> <<>>, plain |-> TRUE]} \union
    UNION {{Cut(s, i, j, plain) : j \in i..Len(s), plain \in BOOLEAN} : i \in 1..Len(s)}

Line ==
    /\ source \in Strings
    /\ \/ stage = "field" /\ where \in Positions /\ parts = NoParts
       \/ stage = "record" /\ where = "record" /\ parts \in RecordsOf(source)
    /\ shown = <<>>
    /\ rules = <<>> /\ kwargs = None /\ response = None /\ delivered = None
    /\ executed = FALSE
    /\ audit = <<>>

Init == Call \/ Line

-----------------------------------------------------------------------------
\* ArgumentFilterMiddleware
FilterArguments ==
    /\ stage = "arguments"
    /\ stage' = IF ArgumentFilter(rules, kwargs).blocked THEN "refused" ELSE "tool"
    /\ UNCHANGED <<callVars, lineVars>>

\* call_next: the handler runs.
Handler ==
    /\ stage = "tool"
    /\ stage' = "running"
    /\ executed' = TRUE
    /\ kwargs' = None
    /\ rules' = <<>>
    /\ UNCHANGED <<response, delivered, audit, lineVars>>

\* It returns, raises, or is cancelled.
HandlerEnds ==
    /\ stage = "running"
    /\ \/ /\ stage' = "returned"
          /\ rules' \in RespRuleLists
          /\ response' \in Responses
       \/ /\ stage' \in {"scopeViolation", "raised", "cancelled"}
          /\ UNCHANGED <<rules, response>>
    /\ UNCHANGED <<kwargs, delivered, executed, audit, lineVars>>

\* Mutation of Audited: the line is written as soon as the handler has returned.
AuditedEarly ==
    /\ stage = "returned"
    /\ delivered' \in FilterResponse(rules, response)
    /\ audit' = IF delivered' = None THEN <<"ok", "tool_error">> ELSE <<"ok">>
    /\ stage' = "done"
    /\ UNCHANGED <<rules, kwargs, response, executed, lineVars>>

\* audited: the response is filtered before "ok" is logged, and a response that is blocked
\* is a tool_error, although the tool has run.
Audited ==
    /\ stage = "returned"
    /\ delivered' \in FilterResponse(rules, response)
    /\ audit' = Append(audit, IF delivered' = None THEN "tool_error" ELSE "ok")
    /\ stage' = "done"
    /\ UNCHANGED <<rules, kwargs, response, executed, lineVars>>

\* `except Exception`, which a CancelledError is not
AuditedException ==
    /\ stage \in {"scopeViolation", "raised", "cancelled"}
    /\ audit' = CASE stage = "scopeViolation" -> Append(audit, "scope_violation")
                  [] stage = "raised"         -> Append(audit, "tool_error")
                  [] stage = "cancelled"      -> audit
    /\ stage' = IF stage = "cancelled" THEN "gone" ELSE "done"
    /\ UNCHANGED <<rules, kwargs, response, delivered, executed, lineVars>>

\* _sanitize_processor and JSONRenderer
SanitizeProcessor ==
    /\ stage = "field"
    /\ stage' = "rendered"
    /\ shown' = Json(Sanitize(where, source))
    /\ UNCHANGED <<source, where, parts, callVars>>

\* The record factory, for the JSON line and for the record of a library.
Factory ==
    /\ stage \in {"rendered", "record"}
    /\ stage' = "written"
    /\ shown' = IF stage = "rendered" THEN RedactRecord(shown, <<>>, TRUE, None)
                ELSE RedactRecord(parts.msg, parts.args, parts.plain, None)
    /\ UNCHANGED <<source, where, parts, callVars>>

Next ==
    \/ FilterArguments \/ Handler \/ HandlerEnds \/ Audited \/ AuditedException
    \/ SanitizeProcessor \/ Factory

Spec == Init /\ [][Next]_vars

-----------------------------------------------------------------------------
\* A decode step that is made for the alphabet and the padding of a layer of base64.
Undoes(step, t, layer) ==
    step = "urlsafe_base64" \/ (step = "base64" /\ layer \notin t.refused)

\* t was made from a text with p in it by encodings that the decode steps undo in turn, the
\* outermost first.
Exposed(p, t, decode) ==
    /\ t.layers = 0 \/ t.size = "small"
    /\ \E at \in [1..t.layers -> DOMAIN decode] :
           /\ \A l \in 1..t.layers : Undoes(decode[at[l]], t, l)
           /\ \A l, m \in 1..t.layers : l < m => at[m] < at[l]
           /\ \/ p \in t.plain
              \/ p \in t.quoted /\ \E i \in DOMAIN decode :
                     decode[i] = "url" /\ \A l \in 1..t.layers : at[l] < i

\* "decode before matching to catch obfuscated payloads": a handler is not called with a
\* top-level string that has what a block rule looks for in it, under encodings that the
\* rule undoes.  A string that is base64 by accident may hide what is quoted in it, one over
\* 64 KiB what it encodes, and one in the url-safe alphabet whatever is below it, unless the
\* rule has "urlsafe_base64" for it.
EncodedIsCaught ==
    stage = "tool" => \A i \in DOMAIN rules : \A f \in DOMAIN kwargs :
        (/\ rules[i].action = "block"
         /\ kwargs[f].kind = "string"
         /\ rules[i].fields \intersect {"*", f} # {}
         /\ Exposed(rules[i].pattern, kwargs[f].text, rules[i].decode))
        => kwargs[f].text.accident /\ rules[i].pattern \notin kwargs[f].text.plain

\* filter_response: nothing that a block or redact rule matches is on the face of a string
\* that goes out, nor in a decoded form, unless it was on the face as well and has been
\* substituted there, or noise has hidden it.  A text blob goes out as it came, and then no such
\* rule matches it.  Other payloads are never rewritten, and a URI is never delivered as a
\* placeholder.
NothingMatchedDelivered ==
    delivered # None =>
        /\ \A p \in DOMAIN response \intersect {"leaf", "uri"}, i \in DOMAIN rules :
               rules[i].action \in {"block", "redact"} =>
                   /\ ~Search(rules[i].pattern, delivered[p])
                   /\ Hits(rules[i], delivered[p]) =>
                          Search(rules[i].pattern, response[p]) \/ response[p].accident
        /\ \A p \in DOMAIN response \intersect {"textBlob", "payload"} :
               delivered[p] = response[p]
        /\ "textBlob" \in DOMAIN response =>
               \A i \in DOMAIN rules : rules[i].action \in {"block", "redact"} =>
                   ~Search(rules[i].pattern, [response["textBlob"] EXCEPT !.layers = @ - 1])
        /\ "uri" \in DOMAIN response /\ delivered["uri"] = REDACTED =>
               response["uri"] = REDACTED

\* audited: a call whose handler has returned or raised has one audit line, which says "ok"
\* if and only if the client has got the response, also when the response filter blocks it
\* after the fact.  Only a call that is cancelled has none.
ExecutedIsLogged ==
    stage = "done" => /\ executed
                      /\ Len(audit) = 1
                      /\ (audit = <<"ok">>) <=> (delivered # None)

\* repr() writes the ' of v as \' if the whole string has a ", and not if v stands alone and
\* has none: the set does not have this form of v.
QuotedOtherwise(v, chars) == "'" \in Chars(v) /\ "\"" \in chars \ Chars(v)

\* The forms of the values: as they are, as JSON writes them, and as repr() does in a string
\* that has more quotes.
WrittenForms ==
    Redactable
    \union {EscapeChars(v, JsonEscaped) : v \in Redactable}
    \union UNION {{EscapeChars(v, ReprEscaped(Chars(v) \union more)) :
                      more \in {m \in SUBSET {"'", "\""} : ~QuotedOtherwise(v, m)}} :
                  v \in Redactable}

\* The values in the environment stand nowhere in a line that is written, neither as they
\* are nor as JSON or repr() write them, whichever position they had, and when the line is
\* what puts them together.  This is not said of a value that is short, a number or a bare
\* origin, nor of one with a ' where repr() quotes it otherwise than it quotes the value alone.
NothingHeldInLog ==
    stage = "written" /\ shown # None =>
        \A form \in WrittenForms : \A i \in DOMAIN shown : ~StandsAt(form, shown, i)

\* What the values are first looked for in: repr() or JSON may come before.
Seen == CASE where = "preserved" -> Json(source)
          [] where = "object"    -> Repr(source)
          [] OTHER               -> source

\* No part of a value is left either, be it by truncation, by another rule that has cut into
\* it, or by a shorter value inside.  Only a value that has begun before it and reaches into
\* it comes first, and keeps the rest from being found; and in an object a " elsewhere in the
\* string keeps all of a value with a ' from being found.
WholeValueGoes ==
    stage = "written" /\ where # "record" =>
        \A v \in Redactable : \A i \in DOMAIN source :
            StandsAt(v, source, i) =>
                \/ Places(shown) \intersect i..(i + Len(v) - 1) = {}
                \/ where = "object" /\ QuotedOtherwise(v, CharsOf(source))
                \/ \E w \in Values : \E j, h \in DOMAIN Seen :
                       /\ StandsAt(w, Seen, j) /\ h \in j..(j + Len(w) - 2)
                       /\ Seen[h].at = i - 1 /\ i > 1

\* Between the "://" at i and the @ at at is userinfo: no white space is.
Userinfo(s, i, at) ==
    /\ i < at /\ s[i].char = Sep /\ s[at].char = "@"
    /\ \A k \in (i + 1)..(at - 1) : s[k].char # White

\* _redact_url_userinfo: of what stands between "://" and an @, with no white space in it,
\* nothing is left, whatever delimiters are in it, and also if only the record puts the URL
\* together.  (A value that takes the "://" or the @ away takes the URL away.  Where a record has
\* its parts redacted one by one, a second "://" within may hide the first, one that a value
\* ends in may hide the next, and a template that loses a conversion still has one.)
UserinfoGone ==
    stage = "written" /\ shown # None =>
        \A i, at \in DOMAIN source : Userinfo(source, i, at) =>
            LET oneByOne == parts.plain /\ parts.args # <<>>
            IN  \/ Places(shown) \intersect (i + 1)..(at - 1) = {}
                \/ oneByOne /\ \E k \in (i + 1)..(at - 1) : source[k].char = Sep
                \/ oneByOne /\ \E v \in Values : \E j \in DOMAIN source :
                       StandsAt(v, source, j) /\ v[Len(v)] = Sep
                \/ oneByOne /\ Holes(source) # {}
                \/ \E v \in Values : \E j, h \in DOMAIN Seen :
                       /\ StandsAt(v, Seen, j) /\ h \in j..(j + Len(v) - 1)
                       /\ Seen[h].at \in {i, at}

=============================================================================
