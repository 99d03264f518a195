---------------------------- MODULE ResponseModels ----------------------------
(***************************************************************************)
(* The typed models of an answer (src/include/ipgeolocation/models.hpp)    *)
(* and how they are filled from JSON: GetMember, the Read functions and    *)
(* the Parse functions of src/src/internal.cpp.  std::optional<T> is a set *)
(* of at most one T.                                                       *)
(***************************************************************************)
EXTENDS Naturals, SequencesExt, TLC

(* JsonValue: the text is that of a string, a number or a Boolean. *)
Value(type, text, members, items) ==
    [type |-> type, text |-> text, members |-> members, items |-> items]
JNull == Value("null", "", <<>>, <<>>)
JBool(text) == Value("bool", text, <<>>, <<>>)
JNumber(text) == Value("number", text, <<>>, <<>>)
JString(text) == Value("string", text, <<>>, <<>>)
JObject(members) == Value("object", "", members, <<>>)
JArray(items) == Value("array", "", <<>>, items)

-----------------------------------------------------------------------------
(* A model: the types of its fields, of which so many are of each type. *)
Model(strings, numbers, bools, lists) ==
    [f \in strings \cup numbers \cup bools \cup lists |->
        CASE f \in strings -> "string" [] f \in numbers -> "number"
          [] f \in bools -> "bool" [] f \in lists -> "strings"]

Location ==
    Model({"continent_code", "continent_name", "country_code2", "country_code3", "country_name",
           "country_name_official", "country_capital", "state_prov", "state_code", "district",
           "city", "locality", "accuracy_radius", "confidence", "dma_code", "zipcode",
           "latitude", "longitude", "country_flag", "geoname_id", "country_emoji"},
          {}, {"is_eu"}, {})
CountryMetadata == Model({"calling_code", "tld"}, {}, {}, {"languages"})
Currency == Model({"code", "name", "symbol"}, {}, {}, {})
Network ==
    Model({"connection_type", "route", "cdn_provider_name"}, {}, {"is_anycast", "is_cdn"}, {})
Asn ==
    Model({"as_number", "organization", "country", "type", "domain", "date_allocated", "rir"},
          {}, {}, {})
Company == Model({"name", "type", "domain"}, {}, {}, {})
DstTransition ==
    Model({"utc_time", "duration", "date_time_after", "date_time_before"},
          {}, {"gap", "overlap"}, {})
TimeZoneInfo ==
    Model({"name", "current_time", "current_tz_abbreviation", "current_tz_full_name",
           "standard_tz_abbreviation", "standard_tz_full_name", "dst_tz_abbreviation",
           "dst_tz_full_name"},
          {"offset", "offset_with_dst", "current_time_unix", "dst_savings"},
          {"is_dst", "dst_exists"}, {})
Security ==
    Model({"proxy_last_seen", "vpn_last_seen", "relay_provider_name", "cloud_provider_name",
           "bot_operator_name", "bot_type", "bot_last_seen", "corporate_gateway_type",
           "corporate_gateway_provider_name"},
          {"threat_score", "proxy_confidence_score", "vpn_confidence_score",
           "proxy_days_seen_30d", "proxy_days_seen_7d", "proxy_provider_count_30d",
           "bot_confidence_score"},
          {"is_tor", "is_proxy", "is_residential_proxy", "is_vpn", "is_relay", "is_anonymous",
           "is_known_attacker", "is_bot", "is_spam", "is_cloud_provider", "is_known_good_bot",
           "is_corporate_gateway"},
          {"proxy_provider_names", "vpn_provider_names"})
Abuse ==
    Model({"route", "country", "name", "organization", "kind", "address"}, {}, {},
          {"emails", "phone_numbers"})
UserAgentDevice == Model({"name", "type", "brand", "cpu"}, {}, {}, {})
UserAgentEngine == Model({"name", "type", "version", "version_major"}, {}, {}, {})
UserAgentOperatingSystem ==
    Model({"name", "type", "version", "version_major", "build"}, {}, {}, {})
UserAgent == Model({"user_agent_string", "name", "type", "version", "version_major"}, {}, {}, {})
IpGeolocationResponse == Model({"ip", "hostname", "domain"}, {}, {}, {})

-----------------------------------------------------------------------------
(* Mutant: the last name wins. *)
GetMemberLast(object, names) ==
    LET there == {i \in DOMAIN names : names[i] \in DOMAIN object}
    IN  {object[names[i]] : i \in {j \in there : \A k \in there : k <= j}}

(* The member of the first name that there is, whatever its type. *)
GetMember(object, names) ==
    LET there == {i \in DOMAIN names : names[i] \in DOMAIN object}
    IN  {object[names[i]] : i \in {j \in there : \A k \in there : j <= k}}

(* ReadString, ReadNumber and ReadBool. *)
ReadScalar(type, found) == {v.text : v \in {w \in found : w.type = type}}

(* What is no string in the array is skipped. *)
ReadStringArray(found) ==
    LET strings(items) == SelectSeq(items, LAMBDA v : v.type = "string")
        texts(items) == [i \in DOMAIN strings(items) |-> strings(items)[i].text]
    IN  {texts(v.items) : v \in {w \in found : w.type = "array"}}

Read(type, found) ==
    IF type = "strings" THEN ReadStringArray(found) ELSE ReadScalar(type, found)

(* The objects, of which a parser then makes a model. *)
ReadObject(found) == {v.members : v \in {w \in found : w.type = "object"}}
ObjectAt(object, name) == ReadObject(GetMember(object, <<name>>))

(* The fields of both. *)
Joined(f, g) ==
    [x \in DOMAIN f \cup DOMAIN g |-> IF x \in DOMAIN f THEN f[x] ELSE g[x]]

(* Each field is read from the member of its own name. *)
ParseModel(model, object) == [f \in DOMAIN model |-> Read(model[f], GetMember(object, <<f>>))]

ParseDstTransition(object) == ParseModel(DstTransition, object)

(* The fields that the API has called by a second name. *)
SecondNames ==
    [current_tz_abbreviation |-> "current_timezone_abbreviation",
     current_tz_full_name |-> "current_timezone_name",
     standard_tz_abbreviation |-> "timezone_abbreviation",
     standard_tz_full_name |-> "timezone_name",
     dst_tz_abbreviation |-> "dst_timezone_abbreviation",
     dst_tz_full_name |-> "dst_timezone_name"]
Names(field) ==
    IF field \in DOMAIN SecondNames THEN <<field, SecondNames[field]>> ELSE <<field>>

ParseTimeZoneInfo(object) ==
    Joined([f \in DOMAIN TimeZoneInfo |-> Read(TimeZoneInfo[f], GetMember(object, Names(f)))],
           [f \in {"dst_start", "dst_end"} |->
               {ParseDstTransition(o) : o \in ObjectAt(object, f)}])

ParseSecurity(object) == ParseModel(Security, object)
ParseAbuse(object) == ParseModel(Abuse, object)

UserAgentParts ==
    [device |-> UserAgentDevice, engine |-> UserAgentEngine,
     operating_system |-> UserAgentOperatingSystem]
ParseUserAgentPart(part, object) == ParseModel(UserAgentParts[part], object)
ParseUserAgent(object) ==
    Joined(ParseModel(UserAgent, object),
           [p \in DOMAIN UserAgentParts |->
               {ParseUserAgentPart(p, o) : o \in ObjectAt(object, p)}])

PlainModels ==
    [location |-> Location, country_metadata |-> CountryMetadata, currency |-> Currency,
     network |-> Network, asn |-> Asn, company |-> Company]

ParseResponseObject(object) ==
    Joined(ParseModel(IpGeolocationResponse, object),
    Joined([m \in DOMAIN PlainModels |->
               {ParseModel(PlainModels[m], o) : o \in ObjectAt(object, m)}],
           [time_zone |-> {ParseTimeZoneInfo(o) : o \in ObjectAt(object, "time_zone")},
            security |-> {ParseSecurity(o) : o \in ObjectAt(object, "security")},
            user_agent |-> {ParseUserAgent(o) : o \in ObjectAt(object, "user_agent")},
            abuse |-> {ParseAbuse(o) : o \in ObjectAt(object, "abuse")}]))

-----------------------------------------------------------------------------
(* The models in a typed answer, at their paths, and the places of their fields,
   with the type of what is there.                                         *)
ModelPlace(path, model) == [path |-> path, model |-> model]
ModelPlaces ==
    {ModelPlace(<<>>, IpGeolocationResponse),
     ModelPlace(<<"time_zone">>, TimeZoneInfo), ModelPlace(<<"security">>, Security),
     ModelPlace(<<"abuse">>, Abuse), ModelPlace(<<"user_agent">>, UserAgent)}
    \cup {ModelPlace(<<m>>, PlainModels[m]) : m \in DOMAIN PlainModels}
    \cup {ModelPlace(<<"time_zone", d>>, DstTransition) : d \in {"dst_start", "dst_end"}}
    \cup {ModelPlace(<<"user_agent", u>>, UserAgentParts[u]) : u \in DOMAIN UserAgentParts}
Places ==
    UNION {{[path |-> Append(p.path, f), type |-> p.model[f]] : f \in DOMAIN p.model} :
               p \in ModelPlaces}

(* What stands in the answer, and in its typed form, at a path. *)
Named(found, name) ==
    {v.members[name] : v \in {w \in found : w.type = "object" /\ name \in DOMAIN w.members}}
JsonAt(value, path) ==
    LET found[n \in 0 .. Len(path)] ==
            IF n = 0 THEN {value} ELSE Named(found[n - 1], path[n])
    IN  found[Len(path)]

FieldOf(models, field) == UNION {m[field] : m \in models}
TypedAt(model, path) ==
    LET found[n \in 0 .. Len(path)] ==
            IF n = 0 THEN {model} ELSE FieldOf(found[n - 1], path[n])
    IN  found[Len(path)]

(* The path under the second name of its field. *)
OtherPath(path) ==
    IF Len(path) = 2 /\ path[1] = "time_zone" /\ path[2] \in DOMAIN SecondNames
    THEN <<"time_zone", SecondNames[path[2]]>> ELSE path

Content(type, value) ==
    CASE type = "strings" /\ value.type = "array" ->
            {[i \in DOMAIN s |-> s[i].text] :
                s \in {SelectSeq(value.items, LAMBDA v : v.type = "string")}}
      [] type # "strings" /\ type = value.type -> {value.text}
      [] OTHER -> {}

(* response is the typed form of the object value. *)
IsTypedFormOf(response, value) ==
    /\ \A place \in Places :
           LET named == JsonAt(value, place.path)
               found == IF named = {} THEN JsonAt(value, OtherPath(place.path)) ELSE named
           IN  TypedAt(response, place.path) = UNION {Content(place.type, v) : v \in found}
    /\ \A p \in ModelPlaces :
           TypedAt(response, p.path) = {} <=> \A v \in JsonAt(value, p.path) : v.type # "object"
=============================================================================
