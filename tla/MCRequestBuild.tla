--------------------------- MODULE MCRequestBuild ---------------------------
(* RequestBuild on families of configurations and requests: a usable one with
   one or two fields replaced by every kind of value they may be given.    *)
EXTENDS RequestBuild

Texts(w) == {Plain(w), Text(w, "before", "clean"), Text(w, "newline", "clean"),
             Text(w, "control", "clean"), Text(w, "none", "newline"),
             Text(w, "none", "control"), Text(w, "none", "delete"), Text(w, "none", "quote"),
             Text(w, "none", "tab"), Text(w, "after", "separator"),
             Text("", "before", "nothing")}

Url == [scheme |-> "https", userinfo |-> FALSE,
        authority |-> <<"g", ".", "a">>,
        path |-> "", slashes |-> <<0>>, query |-> FALSE, fragment |-> FALSE]
Slashes == {<<0>>, <<1>>, <<2>>, <<0, 1>>, <<1, 1>>, <<0, 1, 2>>}
Urls == {[Url EXCEPT !.path = p, !.slashes = n] : p \in {"", "/v1"}, n \in Slashes}
        \cup
        {[Url EXCEPT !.scheme = "ftp"],
         [Url EXCEPT !.userinfo = TRUE], [Url EXCEPT !.query = TRUE],
         [Url EXCEPT !.fragment = TRUE], [Url EXCEPT !.authority = <<>>],
         [Url EXCEPT !.authority = <<"[", ":", ":", "1", "]", ":", "1">>]}
UrlTexts == {Plain(u) : u \in Urls}
            \cup {Text(Url, e, "clean") : e \in {"before", "after", "newline", "control"}}
            \cup {Text([Url EXCEPT !.slashes = n], "after", "clean") : n \in Slashes}
            \cup {Text([Url EXCEPT !.path = "/v1"], "none", i) :
                      i \in {"newline", "control", "delete", "quote", "tab"}}
            \cup {Text(Url, "none", "nothing")}

\* All short authorities, hosts with ports around the limits, IPv6 addresses.
Short(n, S) == UNION {[1 .. k -> S] : k \in 0 .. n}
Ports == Short(2, {"0", "1", "g"})
         \cup {<<"6", "5", "5", "3", d>> : d \in {"5", "6"}}
         \cup {<<"0", "0", "0", "6", "5", "5", "3", "5">>,
               <<"2", "1", "4", "7", "4", "8", "3", "6", "4", "7">>,
               <<"4", "2", "9", "4", "9", "6", "7", "2", "9", "7">>}
Authorities ==
    Short(4, {"g", "1", ".", "-", ":", "["}) \cup {<<"g", c, "g">> : c \in {" ", "%", "]", "_"}}
    \cup {h \o <<":">> \o p : h \in {<<"g">>, <<"[", ":", "]">>}, p \in Ports}
    \cup {<<"[">> \o a \o <<"]">> \o p :
              a \in Short(3, {":", "a", "g", "."}), p \in {<<>>, <<"1">>, <<":", "1">>}}

Usable == [api_key |-> Plain("key"), request_origin |-> Absent, base_url |-> Plain(Url),
           connect_timeout |-> 1, read_timeout |-> 2, max_response_body_chars |-> 1]
ConfigVariants ==
    {[Usable EXCEPT !.api_key = k, !.request_origin = o] :
        k \in {Absent} \cup Texts("key"), o \in {Absent, Plain(Url)}}
    \cup {[Usable EXCEPT !.request_origin = o] : o \in UrlTexts}
    \cup {[Usable EXCEPT !.base_url = u] : u \in UrlTexts}
    \cup {[Usable EXCEPT !.connect_timeout = c, !.read_timeout = r,
                          !.max_response_body_chars = m] :
              c \in -1 .. 9, r \in 0 .. 9, m \in 0 .. 1}
    \cup {[Usable EXCEPT !.base_url = Plain([Url EXCEPT !.authority = a])] : a \in Authorities}

Name(f, s, e, i) == [field |-> f, spelling |-> s, edge |-> e, inner |-> i]
Names == {Name("User-Agent", 1, "none", "clean"), Name("User-Agent", 2, "none", "clean"),
          Name("User-Agent", 2, "before", "clean"), Name("User-Agent", 3, "none", "clean"),
          Name("Accept", 3, "none", "clean"), Name("Origin", 1, "none", "clean"),
          Name("Content-Type", 3, "after", "clean"), Name("X-Trace", 2, "none", "clean"),
          Name("X-Trace", 2, "before", "clean"), Name("X-Trace", 2, "after", "clean"),
          Name("X-Trace", 3, "none", "clean")}
BadNames == {Name("X-Trace", 2, "newline", "clean"), Name("X-Trace", 2, "control", "clean"),
             Name("X-Trace", 2, "none", "newline"), Name("X-Trace", 2, "none", "control"),
             Name("X-Trace", 2, "none", "separator"), Name("X-Trace", 2, "none", "quote"),
             Name("X-Trace", 2, "none", "delete"), Name("X-Trace", 2, "none", "tab"),
             Name("", 2, "before", "nothing")}
ValueOf(n) == Text(n.field \o <<"1", "2", "3">>[n.spelling] \o n.edge, "after", "clean")
HeaderMaps ==
    {[n \in {a, b, c} |-> ValueOf(n)] : a, b, c \in Names}
    \cup {[n \in {a, b} |-> ValueOf(n)] : a \in Names, b \in BadNames}
    \cup {[n \in {Name("X-Trace", 2, "none", "clean")} |-> v] : v \in Texts("v")}
    \cup {<<>>}

Lists == {<<>>} \cup {<<x>> : x \in Texts("a")}
         \cup {<<Plain("a"), x, Plain(w), Text("a", "before", "clean")>> :
                   x \in Texts("b"), w \in {"a", "c"}}

Lookup == [ip |-> Plain("a"), lang |-> Absent, include |-> <<>>, fields |-> <<>>,
           excludes |-> <<>>, user_agent |-> Absent, headers |-> <<>>, output |-> "json"]
Bulk == [ips |-> <<Plain("a"), Text("b", "after", "clean"), Plain("a")>>, lang |-> Absent,
         include |-> <<>>, fields |-> <<>>, excludes |-> <<>>, user_agent |-> Absent,
         headers |-> <<>>, output |-> "xml"]
Variants(r) ==
    {[r EXCEPT !.headers = h, !.user_agent = u] :
        h \in HeaderMaps, u \in {Absent, Text("agent", "before", "clean")}}
    \cup {[r EXCEPT !.user_agent = u] : u \in Texts("agent")}
    \cup {[r EXCEPT !.include = l] : l \in Lists}
    \cup {[r EXCEPT !.fields = l] : l \in Lists}
    \cup {[r EXCEPT !.excludes = l] : l \in Lists}
    \cup {[r EXCEPT !.lang = l] : l \in {"fr", "no language"}}

LookupVariants ==
    Variants(Lookup)
    \cup {[Lookup EXCEPT !.ip = x] : x \in {Absent} \cup Texts("a")}
BulkVariants ==
    Variants(Bulk)
    \cup {[Bulk EXCEPT !.ips = l] :
                     l \in Lists \cup {[i \in 1 .. n |-> Plain("a")] : n \in 5 .. 6}}

Input(c, b, r) == [bulk |-> b, config |-> c, request |-> r]
WithOrigin == [Usable EXCEPT !.request_origin = Plain([Url EXCEPT !.slashes = <<1>>])]
MCInputs ==
    {Input(c, FALSE, Lookup) : c \in ConfigVariants}
    \cup {Input(c, TRUE, Bulk) : c \in ConfigVariants}
    \cup {Input(c, FALSE, r) : c \in {Usable, WithOrigin}, r \in LookupVariants}
    \cup {Input(WithOrigin, TRUE, r) : r \in BulkVariants}
=============================================================================
