------------------------------- MODULE PathParams -------------------------------
(***************************************************************************)
(* replacePathParams and structToQueryParams of enhanced_request.go.       *)
(*                                                                         *)
(* A URL is a sequence of tokens: "/", ":", "{", "}" and words.  A key is  *)
(* a sequence of words, so that one key can be the beginning of another.   *)
(***************************************************************************)
EXTENDS Naturals, Sequences, SequencesExt

WordTokens == STRING \ {"/", ":", "{", "}"}

\* strings.ReplaceAll
ReplaceEvery(s, old, new) ==
    LET at(i) == i + Len(old) - 1 <= Len(s) /\ SubSeq(s, i, i + Len(old) - 1) = old
        from[i \in 1 .. Len(s) + 1] ==
            IF i > Len(s) THEN <<>>
            ELSE IF at(i) THEN new \o from[i + Len(old)]
            ELSE <<s[i]>> \o from[i + 1]
    IN  from[1]

\* url.PathEscape: a colon is not escaped.
PathEscape_KeepsBraces(value) == value

PathEscape(value) ==
    [i \in DOMAIN value |->
        CASE value[i] = "{" -> "%7B"
          [] value[i] = "}" -> "%7D"
          [] value[i] = "/" -> "%2F"
          [] OTHER -> value[i]]

\* order is the order in which the range over the map params visits its keys: any.
replacePathParams(url, params, order) ==
    LET replaceKey(s, key) ==
            ReplaceEvery(ReplaceEvery(s, <<"{">> \o key \o <<"}">>, PathEscape(params[key])),
                       <<":">> \o key, PathEscape(params[key]))
    IN  FoldLeft(replaceKey, url, order)

\* A template of one part for each segment: text, a {key} or a :key.
TemplateUrl(template) ==
    FlattenSeq([i \in DOMAIN template |->
        CASE template[i].kind = "text"  -> <<"/">> \o template[i].name
          [] template[i].kind = "brace" -> <<"/", "{">> \o template[i].name \o <<"}">>
          [] template[i].kind = "colon" -> <<"/", ":">> \o template[i].name])

-------------------------------------------------------------------------------

\* The fields of a struct, in order.  kind is what the field is, inner what its slice
\* holds or its pointer leads to; of another field the two are the same.  A QueryStruct
\* that is no struct is refused as a struct with an unsupported field is.

\* zero: an empty or nil value.  A struct, a function or a channel is never zero.
isZeroValue(f) == f.zero /\ f.kind # "struct"

\* Structs, maps, interfaces and the like have no conversion, in a slice and behind a
\* pointer neither.
isUnsupported(f) == ~ {f.kind, f.inner} \subseteq {"scalar", "slice", "pointer"}

\* An empty slice and a nil pointer have no value, whatever they are of and omitempty
\* or not.
hasNoValue(f) == f.zero /\ f.kind \in {"slice", "pointer"}

isDropped_KeepsZero(f) == f.skipped \/ hasNoValue(f)

isDropped(f) == f.skipped \/ (f.omitEmpty /\ isZeroValue(f)) \/ hasNoValue(f)

\* The last field of a name wins; a field that cannot be converted refuses them all.
structToQueryParams(fields) ==
    LET addField(acc, f) ==
            IF acc.err \/ isDropped(f) THEN acc
            ELSE IF isUnsupported(f) THEN [acc EXCEPT !.err = TRUE]
            ELSE [acc EXCEPT !.params = [n \in DOMAIN acc.params \cup {f.name} |->
                                            IF n = f.name THEN f.value ELSE acc.params[n]]]
    IN  FoldLeft(addField, [params |-> <<>>, err |-> FALSE], fields)

===============================================================================
