----------------------------- MODULE MCResponses -----------------------------
(* Responses for objects of up to two members, alone and in bulk answers of up
   to one item more than was asked for; and for typed answers that hold one
   field of one model with a value of every type, both names of a field, or
   everything at once.                                                     *)
EXTENDS Responses

Nested == {JString("text"), JNull, JObject([message |-> JString("nested")]),
           JObject([message |-> JNull])}
Singles ==
    {[message |-> v] : v \in {JString("text"), JString(""), JNull}}
    \cup {[error |-> v] : v \in Nested}
    \cup {[detail |-> v] : v \in Nested}
    \cup {[data |-> v] : v \in Nested}
    \cup {[ip |-> JString("text")], <<>>}
Pairs ==
    {[message |-> JString("text"), error |-> v] : v \in Nested}
    \cup {[error |-> v, detail |-> JObject([message |-> JString("other")])] : v \in Nested}
    \cup {[security |-> JObject(<<>>), message |-> JString("text")],
          [ip |-> JString("text"), error |-> JString("text")],
          [data |-> JObject(<<>>), message |-> JNull],
          [data |-> JObject(<<>>), status |-> JNumber("1")],
          [detail |-> JNull, message |-> JString("text")]}
Objects == {JObject(m) : m \in Singles \cup Pairs}
Items == {JObject([ip |-> JString("text")]), JObject([error |-> JString("text")]),
          JObject([message |-> JString("text")]), JObject([data |-> JObject(<<>>)]), JNull}

Roots == Objects \cup {JString("text"), JString(""), JNull}
         \cup {JArray(<<>>)} \cup {JArray(<<o>>) : o \in Objects}
         \cup {JArray(<<a, b>>) : a, b \in Items}
         \cup {JArray(<<a, b, b>>) : a, b \in Items}

Body(form, value) == [form |-> form, value |-> value]
Bodies == {Body("json", r) : r \in Roots}
          \cup {Body(f, JNull) : f \in {"text", "broken", "blank"}}

(* An object that holds the value at the path. *)
At(path, value) == FoldRight(LAMBDA name, v : JObject(name :> v), path, value)
AnyValue == {JNull, JBool("false"), JNumber("0"), JString(""), JObject(<<>>),
             JArray(<<JString("x"), JNull, JString("y")>>)}
Filled(model) ==
    [f \in DOMAIN model |->
        CASE model[f] = "bool" -> JBool("true")
          [] model[f] = "number" -> JNumber("1")
          [] model[f] = "strings" -> JArray(<<JString(f)>>)
          [] OTHER -> JString(f)]
Everything ==
    JObject(Filled(IpGeolocationResponse)
        @@ [m \in DOMAIN PlainModels |-> JObject(Filled(PlainModels[m]))]
        @@ [time_zone |-> JObject(Filled(TimeZoneInfo)
                              @@ [d \in {"dst_start", "dst_end"} |-> JObject(Filled(DstTransition))]),
            security |-> JObject(Filled(Security)), abuse |-> JObject(Filled(Abuse)),
            user_agent |-> JObject(Filled(UserAgent)
                               @@ [u \in DOMAIN UserAgentParts |->
                                      JObject(Filled(UserAgentParts[u]))])])
TwoNames ==
    {JObject([time_zone |-> JObject((f :> a) @@ (SecondNames[f] :> JString("second")))]) :
        f \in DOMAIN SecondNames, a \in AnyValue}
Answers ==
    {At(place.path, v) : place \in Places, v \in AnyValue}
    \cup {At(p.path, v) : p \in {q \in ModelPlaces : q.path # <<>>}, v \in AnyValue}
    \cup {At(OtherPath(place.path), JString("second")) : place \in Places}
    \cup TwoNames \cup {Everything}

Reply(bulk, typed, status, body) ==
    [bulk |-> bulk, typed |-> typed, status |-> status, body |-> body]
MCReplies ==
    {Reply(b, t, s, body) : b \in BOOLEAN, t \in BOOLEAN, s \in {199, 200, 299, 300, 404},
                            body \in Bodies}
    \cup {Reply(FALSE, TRUE, 200, Body("json", a)) : a \in Answers}
    \cup {Reply(TRUE, TRUE, 200, Body("json", JArray(<<a, Everything>>))) : a \in TwoNames}
=============================================================================
