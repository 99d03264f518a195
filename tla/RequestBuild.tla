---------------------------- MODULE RequestBuild ----------------------------
(***************************************************************************)
(* How a configuration and a request become the HTTP request that is sent  *)
(* (src/src/internal.cpp): the client's constructor normalizes the config, *)
(* a call normalizes its request, and the URL, the headers and the body    *)
(* are built from the two.  Any of the first two may throw ValidationError.*)
(*                                                                         *)
(* A text is a word with what surrounds and what breaks it:                *)
(*   edge   blanks "before" or "after" it, a "newline" or another "control"*)
(*          character that counts as white space, or "none"                *)
(*   inner  what it holds besides the word: "clean", a "newline", another  *)
(*          "control" character below 0x20, "delete", which is 0x7f, a     *)
(*          "quote" or backslash, a "tab", a "separator" such as a colon   *)
(*          or a space; or "nothing", when there is no word either         *)
(* A header name has, instead of a word, a field and one of the spellings  *)
(* 1, 2, 3 that differ in case only, in the order std::map sorts them; the *)
(* SDK itself writes the second.                                           *)
(***************************************************************************)
EXTENDS Authority

CONSTANTS
    Absent,       \* std::nullopt
    Inputs,       \* what callers give: records of bulk, config and request
    MaxIps,       \* 50000: the largest bulk request
    LongMax       \* LONG_MAX, 2^31 - 1 or 2^63 - 1: the longest timeout of libcurl

ASSUME LimitsAssumption == MaxIps \in Nat \ {0} /\ LongMax \in Nat \ {0}

VARIABLES
    phase,        \* "new", "configured", "normalized", "built" or "ValidationError"
    bulk,         \* the request is a bulk one
    rawConfig, config,        \* before and after NormalizeConfig
    rawRequest, request,      \* before and after NormalizeLookupRequest
    data          \* HttpRequestData

vars == <<phase, bulk, rawConfig, config, rawRequest, request, data>>

-----------------------------------------------------------------------------
Text(word, edge, inner) == [word |-> word, edge |-> edge, inner |-> inner]
Plain(word) == Text(word, "none", "clean")

Trim(x) == [x EXCEPT !.edge = "none"]
Blank(x) == x.inner = "nothing"
ContainsCrOrLf(x) == "newline" \in {x.edge, x.inner}
ContainsControl(x) == {x.edge, x.inner} \cap {"control", "delete"} # {}

(* ValidateHeaderValue looks at the text as given, before it is trimmed. *)
ValidHeaderValue(x) == ~ContainsCrOrLf(x) /\ ~ContainsControl(x)

(* Lists, addresses and the base URL are trimmed before they are looked at. *)
ValidItem(x) == ~Blank(x) /\ ~ContainsCrOrLf(Trim(x))

ValidOptional(x) == x # Absent => ValidHeaderValue(x) /\ ~Blank(x)
TrimOptional(x) == IF x = Absent THEN Absent ELSE Trim(x)

-----------------------------------------------------------------------------
(* URLs: the word of their text has a scheme, an authority, a path without the
   slashes and blanks it ends in, a query and a fragment.  The slashes at its
   end, which blanks may divide, are counted from blank to blank: "/v1// /" has
   the path "/v1" and the slashes <<2, 1>>.                                *)

(* A blank right behind the authority is part of it. *)
BlankInAuthority(u) == u.path = "" /\ u.slashes[1] = 0 /\ Len(u.slashes) > 1

AbsoluteUrl(u) ==
    /\ u.scheme \in {"http", "https"}
    /\ ~u.userinfo
    /\ IsValidAuthority(u.authority) /\ ~BlankInAuthority(u)
    /\ ~u.query /\ ~u.fragment

ValidBaseUrl(x) == ValidItem(x) /\ AbsoluteUrl(x.word)

(* Mutant: one slash at the end goes. *)
NormalizeBaseUrlOnce(x) ==
    [Trim(x) EXCEPT !.word.slashes[1] = IF @ = 0 THEN 0 ELSE @ - 1]

(* The text is trimmed, and then the slashes at its end go; a blank that was in
   front of them is at the end then, and stays.                            *)
NormalizeBaseUrl(x) ==
    IF Len(x.word.slashes) = 1
    THEN [Trim(x) EXCEPT !.word.slashes = <<0>>]
    ELSE [x EXCEPT !.word.slashes = Front(@), !.edge = "after"]

ValidRequestOrigin(x) ==
    x # Absent =>
        /\ ValidOptional(x)
        /\ AbsoluteUrl(x.word)
        /\ x.word.path = "" /\ x.word.slashes \in {<<0>>, <<1>>}

NormalizeRequestOrigin(x) ==
    IF x = Absent THEN Absent ELSE [Trim(x) EXCEPT !.word.slashes = <<0>>]

ValidConfig(c) ==
    /\ ValidOptional(c.api_key)
    /\ ValidRequestOrigin(c.request_origin)
    /\ ValidBaseUrl(c.base_url)
    /\ c.connect_timeout > 0 /\ c.read_timeout > 0
    /\ c.connect_timeout <= c.read_timeout
    /\ c.max_response_body_chars # 0

NormalizeConfig(c) ==
    [c EXCEPT !.api_key = TrimOptional(@),
              !.request_origin = NormalizeRequestOrigin(@),
              !.base_url = NormalizeBaseUrl(@)]

-----------------------------------------------------------------------------
ValidStringList(values) == \A i \in DOMAIN values : ValidItem(values[i])

(* Mutant: values are compared before they are trimmed. *)
NormalizeStringListUntrimmed(values) ==
    LET kept[n \in 0 .. Len(values)] ==
            IF n = 0 THEN <<>>
            ELSE IF Contains(kept[n - 1], values[n]) THEN kept[n - 1]
            ELSE Append(kept[n - 1], Trim(values[n]))
    IN  kept[Len(values)]

(* A value is kept where it is met first: kept of the first n values. *)
NormalizeStringList(values) ==
    LET kept[n \in 0 .. Len(values)] ==
            IF n = 0 THEN <<>>
            ELSE IF Contains(kept[n - 1], Trim(values[n])) THEN kept[n - 1]
            ELSE Append(kept[n - 1], Trim(values[n]))
    IN  kept[Len(values)]

ValidLookupIp(x) == x # Absent /\ ~Blank(x) => ValidItem(x)
NormalizeLookupIp(x) == IF x = Absent \/ Blank(x) THEN Absent ELSE Trim(x)

(* Mutant: addresses are treated like the other lists. *)
NormalizeIpListUnique(values) == NormalizeStringList(values)

ValidIpList(values) ==
    /\ values # <<>> /\ Len(values) <= MaxIps
    /\ ValidStringList(values)
NormalizeIpList(values) == [i \in DOMAIN values |-> Trim(values[i])]

Languages == {"en", "de", "ru", "ja", "fr", "cn", "es", "cs", "it", "ko", "fa", "pt", "ar"}
LanguageCode(lang) == IF lang \in Languages THEN Plain(lang) ELSE Plain("en")
NormalizeLanguage(lang) == IF lang = Absent THEN Absent ELSE LanguageCode(lang)

(* A name is a token: it has no separators, quotes and tabs. *)
TokenForbids == {"separator", "quote", "tab"}

(* Mutant: names and values are looked at after they were trimmed, and for line
   breaks only.                                                            *)
ValidHeadersTrimmed(headers) ==
    \A n \in DOMAIN headers :
        /\ ValidItem(n) /\ n.inner \notin TokenForbids
        /\ ValidItem(headers[n])

ValidHeaders(headers) ==
    \A n \in DOMAIN headers :
        /\ ValidHeaderValue(n) /\ ~Blank(n) /\ n.inner \notin TokenForbids
        /\ ValidHeaderValue(headers[n]) /\ ~Blank(headers[n])

(* Mutant: values are not trimmed. *)
NormalizeHeadersUntrimmed(headers) ==
    [w \in {Trim(n) : n \in DOMAIN headers} |->
        headers[CHOOSE n \in DOMAIN headers : Trim(n) = w]]

(* Names that differ in blanks at their ends only become one; the one that the
   map holds last wins; blanks, and controls too, sort before any name.     *)
Rank == [newline |-> 0, control |-> 0, before |-> 1, none |-> 2, after |-> 3]
NormalizeHeaders(headers) ==
    LET spelled(w) == {n \in DOMAIN headers : Trim(n) = w}
        last(w) == CHOOSE n \in spelled(w) :
                       \A m \in spelled(w) : Rank[m.edge] <= Rank[n.edge]
    IN  [w \in {Trim(n) : n \in DOMAIN headers} |-> Trim(headers[last(w)])]

ValidRequest(r) ==
    /\ IF bulk THEN ValidIpList(r.ips) ELSE ValidLookupIp(r.ip)
    /\ ValidStringList(r.include)
    /\ ValidStringList(r.fields)
    /\ ValidStringList(r.excludes)
    /\ ValidOptional(r.user_agent)
    /\ ValidHeaders(r.headers)

NormalizeCommon(r) ==
    [r EXCEPT !.lang = NormalizeLanguage(@),
              !.include = NormalizeStringList(@),
              !.fields = NormalizeStringList(@),
              !.excludes = NormalizeStringList(@),
              !.user_agent = TrimOptional(@),
              !.headers = NormalizeHeaders(@)]
NormalizeRequest(r) ==
    IF bulk THEN [NormalizeCommon(r) EXCEPT !.ips = NormalizeIpList(@)]
            ELSE [NormalizeCommon(r) EXCEPT !.ip = NormalizeLookupIp(@)]

-----------------------------------------------------------------------------
Canonical(field) == [field |-> field, spelling |-> 2, edge |-> "none", inner |-> "clean"]

(* The first of the map, whatever the case of its name. *)
HeaderValueCaseInsensitive(headers, field) ==
    LET named == {n \in DOMAIN headers : n.field = field}
    IN  IF named = {} THEN Absent
        ELSE headers[CHOOSE n \in named : \A m \in named : n.spelling <= m.spelling]

SetHeaderCaseInsensitive(headers, field, value) ==
    [n \in {m \in DOMAIN headers : m.field # field} \cup {Canonical(field)} |->
        IF n = Canonical(field) THEN value ELSE headers[n]]

DefaultUserAgent == Plain("ipgeolocation-cpp-sdk")

(* Mutant: the header wins over the field of the request. *)
ResolveUserAgentHeaderFirst(user_agent, headers) ==
    CASE HeaderValueCaseInsensitive(headers, "User-Agent") # Absent ->
            HeaderValueCaseInsensitive(headers, "User-Agent")
      [] HeaderValueCaseInsensitive(headers, "User-Agent") = Absent /\ user_agent # Absent ->
            user_agent
      [] OTHER -> DefaultUserAgent

ResolveUserAgentHeader(user_agent, headers) ==
    CASE user_agent # Absent -> user_agent
      [] user_agent = Absent /\ HeaderValueCaseInsensitive(headers, "User-Agent") # Absent ->
            HeaderValueCaseInsensitive(headers, "User-Agent")
      [] OTHER -> DefaultUserAgent

AcceptHeaderFor(output) == Plain("application/" \o output)

RequestHeaders ==
    LET agent == SetHeaderCaseInsensitive(request.headers, "User-Agent",
                     ResolveUserAgentHeader(request.user_agent, request.headers))
        accept == SetHeaderCaseInsensitive(agent, "Accept", AcceptHeaderFor(request.output))
        content == IF bulk
                   THEN SetHeaderCaseInsensitive(accept, "Content-Type", Plain("application/json"))
                   ELSE accept
    IN  IF config.request_origin = Absent THEN content
        ELSE SetHeaderCaseInsensitive(content, "Origin", config.request_origin)

Escaped == [newline |-> "escaped newline", control |-> "escaped control",
            separator |-> "escaped separator", nothing |-> "escaped nothing",
            quote |-> "escaped quote", delete |-> "escaped delete", tab |-> "escaped tab"]

(* UrlEncode leaves letters, digits and four signs; all the rest is escaped. *)
UrlEncode(x) == [x EXCEPT !.inner = IF @ = "clean" THEN @ ELSE Escaped[@]]

(* EscapeJsonString escapes what JSON does not allow in a string: quotes,
   backslashes and what is below 0x20.                                     *)
JsonForbids == {"newline", "control", "quote", "tab"}
EscapeJsonString(x) == [x EXCEPT !.inner = IF @ \in JsonForbids THEN Escaped[@] ELSE @]

(* JoinCsv joins before the whole is encoded: the commas are encoded too. *)
Csv(values) == [i \in DOMAIN values |-> UrlEncode(values[i])]
One(x) == IF x = Absent THEN <<>> ELSE <<UrlEncode(x)>>

(* BuildQueryString skips the parameters that have no value.  Their order, which
   means nothing, is left out.                                             *)
QueryString(params) == [p \in {q \in DOMAIN params : params[q] # <<>>} |-> params[p]]

Query ==
    QueryString(
        [apiKey |-> One(config.api_key),
         ip |-> IF bulk THEN <<>> ELSE One(request.ip),
         lang |-> One(request.lang),
         include |-> Csv(request.include),
         fields |-> Csv(request.fields),
         excludes |-> Csv(request.excludes),
         output |-> One(Plain(request.output))])

HttpRequestData ==
    [base_url |-> config.base_url,
     path |-> IF bulk THEN "/v3/ipgeo-bulk" ELSE "/v3/ipgeo",
     query |-> Query,
     method |-> IF bulk THEN "POST" ELSE "GET",
     headers |-> RequestHeaders,
     body |-> IF bulk THEN [i \in DOMAIN request.ips |-> EscapeJsonString(request.ips[i])]
                      ELSE <<>>,
     connect_timeout |-> config.connect_timeout,
     read_timeout |-> config.read_timeout]

(* Mutant: the cast alone, which keeps the low bits. *)
CurlTimeoutMillisecondsCast(timeout) == ((timeout + LongMax + 1) % (2 * LongMax + 2)) - LongMax - 1

(* What Send asks of libcurl, in whose long the milliseconds may not fit. *)
CurlTimeoutMilliseconds(timeout) == IF timeout < LongMax THEN timeout ELSE LongMax

-----------------------------------------------------------------------------
(* What callers give has the fields of its C++ type. *)
IsText(x) ==
    /\ DOMAIN x = {"word", "edge", "inner"}
    /\ x.edge \in DOMAIN Rank /\ x.inner \in {"clean"} \cup DOMAIN Escaped
    /\ Trim(x) # Absent
IsOptional(x) == x # Absent => IsText(x)
IsHeaderName(n) ==
    /\ DOMAIN n = {"field", "spelling", "edge", "inner"}
    /\ n.spelling \in 1 .. 3
    /\ n.edge \in DOMAIN Rank /\ n.inner \in {"clean"} \cup DOMAIN Escaped
IsList(values) ==
    /\ values \in Seq(Range(values))
    /\ \A i \in DOMAIN values : IsText(values[i])
IsUrl(u) ==
    /\ {"scheme", "userinfo", "authority", "path"} \subseteq DOMAIN u
    /\ {"slashes", "query", "fragment"} \subseteq DOMAIN u
    /\ u.authority \in Seq(Range(u.authority))
    /\ u.slashes \in Seq(Nat) /\ Len(u.slashes) # 0
    /\ \A i \in 2 .. Len(u.slashes) : u.slashes[i] # 0
IsConfig(c) ==
    /\ {"api_key", "request_origin", "base_url", "connect_timeout", "read_timeout",
        "max_response_body_chars"} \subseteq DOMAIN c
    /\ c.connect_timeout \in Int /\ c.read_timeout \in Int
    /\ IsOptional(c.api_key)
    /\ IsOptional(c.request_origin)
    /\ c.request_origin # Absent => IsUrl(c.request_origin.word)
    /\ IsText(c.base_url) /\ IsUrl(c.base_url.word)
    /\ NormalizeConfig(c) # Absent
IsRequest(r) ==
    /\ {"lang", "include", "fields", "excludes", "user_agent", "headers", "output"}
           \subseteq DOMAIN r
    /\ IsList(r.include) /\ IsList(r.fields) /\ IsList(r.excludes)
    /\ IsOptional(r.user_agent)
    /\ \A n \in DOMAIN r.headers : IsHeaderName(n) /\ IsText(r.headers[n])
IsLookupRequest(r) == "ip" \in DOMAIN r /\ IsOptional(r.ip)
IsBulkRequest(r) == "ips" \in DOMAIN r /\ IsList(r.ips)

ASSUME InputsAssumption ==
    \A input \in Inputs :
        /\ IsConfig(input.config) /\ IsRequest(input.request)
        /\ IF input.bulk THEN IsBulkRequest(input.request) ELSE IsLookupRequest(input.request)

-----------------------------------------------------------------------------
Init ==
    /\ phase = "new"
    /\ \E input \in Inputs :
           bulk = input.bulk /\ rawConfig = input.config /\ rawRequest = input.request
    /\ config = Absent /\ request = Absent /\ data = Absent

(* The constructor of Impl. *)
Configure ==
    /\ phase = "new"
    /\ ValidConfig(rawConfig)
    /\ config' = NormalizeConfig(rawConfig)
    /\ phase' = "configured"
    /\ UNCHANGED <<bulk, rawConfig, rawRequest, request, data>>

ConfigRefused ==
    /\ phase = "new"
    /\ ~ValidConfig(rawConfig)
    /\ phase' = "ValidationError"
    /\ UNCHANGED <<bulk, rawConfig, config, rawRequest, request, data>>

(* A method of the client: it needs an API key, or for a single lookup a
   request origin, and a request that can be normalized.                   *)
Credentialed == config.api_key # Absent \/ (~bulk /\ config.request_origin # Absent)

Normalize ==
    /\ phase = "configured"
    /\ Credentialed /\ ValidRequest(rawRequest)
    /\ request' = NormalizeRequest(rawRequest)
    /\ phase' = "normalized"
    /\ UNCHANGED <<bulk, rawConfig, config, rawRequest, data>>

RequestRefused ==
    /\ phase = "configured"
    /\ ~(Credentialed /\ ValidRequest(rawRequest))
    /\ phase' = "ValidationError"
    /\ UNCHANGED <<bulk, rawConfig, config, rawRequest, request, data>>

Build ==
    /\ phase = "normalized"
    /\ data' = HttpRequestData
    /\ phase' = "built"
    /\ UNCHANGED <<bulk, rawConfig, config, rawRequest, request>>

(* The request is handed to the transport, or the call has thrown. *)
Done == phase \in {"built", "ValidationError"} /\ UNCHANGED vars

Next == Configure \/ ConfigRefused \/ Normalize \/ RequestRefused \/ Build \/ Done

Spec == Init /\ [][Next]_vars

-----------------------------------------------------------------------------
Built == phase = "built"
Controlled ==
    {"User-Agent", "Accept"} \cup (IF bulk THEN {"Content-Type"} ELSE {})
        \cup (IF config.request_origin = Absent THEN {} ELSE {"Origin"})

(* "If you also pass a User-Agent header in headers, user_agent wins": and if
   not, the caller's header wins over the default, in whatever case.       *)
AgentMeant(sent) ==
    LET given == {n \in DOMAIN rawRequest.headers : n.field = "User-Agent"}
    IN  IF rawRequest.user_agent # Absent THEN sent.word = rawRequest.user_agent.word
        ELSE IF given = {} THEN sent = DefaultUserAgent
        ELSE \E n \in given : sent.word = rawRequest.headers[n].word

(* Of the headers the SDK decides on there is exactly one each, with the value
   it decided, however many spellings of it the caller passed: no server is
   left to choose between two.                                             *)
OneOfEachControlledHeader ==
    Built => \A f \in Controlled :
        LET sent == data.headers[Canonical(f)]
        IN  /\ {n \in DOMAIN data.headers : n.field = f} = {Canonical(f)}
            /\ f = "User-Agent" => AgentMeant(sent)
            /\ f = "Accept" => sent = AcceptHeaderFor(rawRequest.output)
            /\ f = "Content-Type" => sent = Plain("application/json")
            /\ f = "Origin" =>
                   LET origin == rawConfig.request_origin.word
                   IN  sent.word.scheme = origin.scheme /\ sent.word.authority = origin.authority

(* Every other header of the caller is sent, under the name it was given and
   with a value given for that name, and nothing else is.                  *)
OtherHeadersKept ==
    Built =>
        LET given == {n \in DOMAIN rawRequest.headers : n.field \notin Controlled}
            sent == {w \in DOMAIN data.headers : w.field \notin Controlled}
        IN  /\ sent = {Trim(n) : n \in given}
            /\ \A w \in sent : \E n \in given :
                   Trim(n) = w /\ data.headers[w] = Trim(rawRequest.headers[n])

(* What is sent has one line per header, of a name that holds nothing but a
   token and a value without line break, other control character or outer
   blank; no line break is in the base URL; nothing but what UrlEncode writes is
   in the query; and the addresses in the body hold nothing that JSON forbids
   in a string (0x7f it allows).                                           *)
NothingBreaksTheLines ==
    Built =>
        /\ \A n \in DOMAIN data.headers :
               /\ n.edge = "none" /\ n.inner = "clean"
               /\ ValidHeaderValue(data.headers[n]) /\ data.headers[n].edge = "none"
        /\ ~ContainsCrOrLf(data.base_url)
        /\ \A p \in DOMAIN data.query : \A i \in DOMAIN data.query[p] :
               LET x == data.query[p][i]
               IN  x.edge = "none" /\ x.inner \notin DOMAIN Escaped
        /\ \A i \in DOMAIN data.body :
               data.body[i].edge = "none" /\ data.body[i].inner \notin JsonForbids

Sent(key) == IF key \in DOMAIN data.query THEN data.query[key] ELSE <<>>

(* A list reaches the server with all its values, each once, in the order the
   caller first named them, blanks around them aside.                      *)
ListsSentOnceInOrder ==
    Built => \A key \in {"include", "fields", "excludes"} :
        LET sent == Sent(key)
            given == [i \in DOMAIN rawRequest[key] |-> UrlEncode(Trim(rawRequest[key][i]))]
            first(v) == CHOOSE i \in DOMAIN given :
                            given[i] = v /\ \A j \in 1 .. i - 1 : given[j] # v
        IN  /\ ToSet(sent) = ToSet(given)
            /\ \A i, j \in DOMAIN sent : i < j => first(sent[i]) < first(sent[j])

(* The addresses of a bulk request are sent one for one, repetitions included,
   since the results are matched to them by position; a request that was sent
   had at least one and no more than the API takes.                        *)
IpsSentOneForOne ==
    Built /\ bulk =>
        /\ Len(data.body) \in 1 .. MaxIps
        /\ Len(data.body) = Len(rawRequest.ips)
        /\ \A i \in DOMAIN data.body : data.body[i].word = rawRequest.ips[i].word

(* The authority of a base URL is refused exactly when it is not well formed in
   the sense of the SDK: a name or something in brackets that may be an IPv6
   address, with a port that exists if any.  Whatever the digits, dots and
   colons and wherever the labels are cut, nothing else is let through and none
   of these is turned away.  It is no claim about which hosts there are: what is
   in the brackets need not be an address, and names with underscores and
   addresses with a zone are out of reach.                                 *)
AuthoritiesWellFormed ==
    LET elsewhere == [rawConfig EXCEPT !.base_url.word.authority = <<"a">>]
    IN  phase # "new" /\ ValidConfig(elsewhere) =>
            (config # Absent <=> IsWellFormed(rawConfig.base_url.word.authority))

(* A timeout of any length arrives in libcurl as one no shorter than a long can
   hold: never as none at all, never as a negative one, and the connection is
   never given longer than the request.                                    *)
TimeoutsSurvive ==
    Built =>
        LET Kept(sent, given) == sent = given \/ (sent = LongMax /\ given > LongMax)
            connect == CurlTimeoutMilliseconds(data.connect_timeout)
            read == CurlTimeoutMilliseconds(data.read_timeout)
        IN  /\ Kept(connect, rawConfig.connect_timeout) /\ Kept(read, rawConfig.read_timeout)
            /\ 0 < connect /\ connect <= read

(* Normalizing once is enough: what came out is accepted and left as it is.
   The one exception is a base URL with a blank between the slashes at its end,
   or in front of them: the blank stays, and goes, with the slashes in front of
   it, only when the URL is normalized again.                              *)
NormalizedIsStable ==
    /\ phase \in {"configured", "normalized", "built"} =>
           LET again == NormalizeConfig(config)
           IN  /\ ValidConfig(config)
               /\ Len(rawConfig.base_url.word.slashes) = 1 => again = config
               /\ [again EXCEPT !.base_url = config.base_url] = config
    /\ phase \in {"normalized", "built"} =>
           LET again == [request EXCEPT !.lang = rawRequest.lang]
           IN  ValidRequest(again) /\ NormalizeRequest(again) = request
=============================================================================
