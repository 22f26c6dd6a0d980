---------------------------- MODULE MCRequestObject ----------------------------
(* Values for TLC of the constants of RequestObject. *)
EXTENDS RequestObject

CONSTANTS auth, ctype, form, token, invalid

MCDefaultHeaders == [n \in Names |-> IF n = ctype THEN token ELSE None]

MCHeaderChoices ==
    {[n \in Names |-> IF n = auth THEN token ELSE None],
     [n \in Names |-> IF n = auth THEN invalid ELSE token]}

MCAddresses == 1 .. 7

MCProvidedSizes == {-1, 0, 2, 3}

MCKeys == {"a", "b"}

MCPathMaps == {[k \in {"id"} |-> "x"]}

MCOwnQuery == [k \in {"a"} |-> <<"own">>]

Text(name) == [kind |-> "text", name |-> name]
Brace(name) == [kind |-> "brace", name |-> name]
Colon(name) == [kind |-> "colon", name |-> name]

Plain == [template |-> <<Text(<<"pets">>)>>, pathParams |-> <<>>, query |-> <<>>,
          params |-> <<>>, form |-> FALSE, bodySize |-> 0]

Id == <<"id">>
Id2 == <<"id", "2">>

\* Values that bring braces, a colon and a slash, and one that is another key.
PathChoices ==
    {[Plain EXCEPT !.template = t, !.pathParams = m] :
        t \in {<<Colon(Id), Brace(Id2)>>, <<Colon(Id), Colon(Id2)>>},
        m \in {[k \in {Id} |-> <<"7">>]}
              \cup {[k \in {Id, Id2} |-> IF k = Id THEN x ELSE <<"8">>] :
                       x \in {<<"{", "id", "2", "}">>, <<":", "id", "2">>, <<"/", "7">>}}}

Field(name, kind, zero, omit, skipped, value) ==
    [name |-> name, kind |-> kind, zero |-> zero, omitEmpty |-> omit, skipped |-> skipped,
     value |-> value,
     inner |-> IF kind \in {"slice", "pointer"} THEN "scalar" ELSE kind]

Of(inner, field) == [field EXCEPT !.inner = inner]

\* Fields that are converted, that are dropped, and that have no conversion.
Queries ==
    {<<Field("a", "map", TRUE, TRUE, FALSE, "{}"), Field("b", "scalar", FALSE, FALSE, FALSE, "1")>>,
     <<Field("a", "interface", TRUE, FALSE, FALSE, "nil")>>,
     <<Field("b", "scalar", FALSE, FALSE, FALSE, "1"),
       Of("struct", Field("a", "slice", TRUE, FALSE, FALSE, "[]"))>>,
     <<Of("struct", Field("a", "slice", FALSE, FALSE, FALSE, "[{}]"))>>,
     <<Of("map", Field("a", "pointer", FALSE, TRUE, FALSE, "{}"))>>,
     <<Field("a", "scalar", TRUE, FALSE, FALSE, "0"), Field("b", "scalar", TRUE, TRUE, FALSE, "0")>>,
     <<Field("a", "scalar", FALSE, TRUE, FALSE, "1"), Field("a", "pointer", TRUE, FALSE, FALSE, "nil")>>,
     <<Field("a", "slice", FALSE, FALSE, FALSE, "[1 2]"), Field("a", "pointer", FALSE, FALSE, FALSE, "2")>>,
     <<Field("b", "slice", TRUE, FALSE, FALSE, "[]"), Field("b", "struct", FALSE, FALSE, TRUE, "{}")>>,
     <<Field("a", "struct", FALSE, TRUE, FALSE, "{}")>>}

Overridden == <<Field("a", "scalar", FALSE, FALSE, FALSE, "1")>>

Params ==
    {[k \in {"a", "b"} |-> "3"], [k \in {"b"} |-> "3"], [k \in {"", "a"} |-> "3"]}

MCFollowed ==
    {[Plain EXCEPT !.form = TRUE, !.bodySize = 3],
     [Plain EXCEPT !.query = Overridden, !.bodySize = 3]}

MCOptionChoices ==
    MCFollowed
    \cup PathChoices
    \cup {[Plain EXCEPT !.query = q] : q \in Queries}
    \cup {[Plain EXCEPT !.query = Overridden, !.params = p] : p \in Params}

===============================================================================
