---------------------------- MODULE NmcProvider ----------------------------
(***************************************************************************)
(* The NMC provider (updater/src/provider/nmc): an HTTP call with its      *)
(* connection retries (weather-utils), the download of a resource, the     *)
(* lists of the catalog and the tolerant mapping of a weather document.    *)
(*                                                                         *)
(* A JSON value is a record by its kind.  Scalars are named by what the    *)
(* conversions tell apart: a grade from 1 to 6, another count, a fraction, *)
(* an infinite number, the placeholder 9999 (or empty text), a dash, a     *)
(* word, a text that is no URL.  Of the fields of a section that are       *)
(* converted alike, a few stand for all.  A warning is the path it names;  *)
(* an optional value is a sequence of at most one.                         *)
(***************************************************************************)
EXTENDS FiniteLists, FiniteSets

CONSTANTS
    Values,          \* the JSON values a weather answer may be made of
    Depth, MaxDepth, \* how deep each nests; serde_json refuses what nests deeper
    WeatherBodies,   \* the bodies the weather endpoint may answer
    CatalogBodies,   \* the rows the province and city endpoints may answer
    MaxAttempts,     \* MAX_CONNECT_ATTEMPTS
    DownloadMax,     \* MAX_RESOURCE_BYTES of the transport
    ChunkSizes       \* of a download

ASSUME ProviderAssumption ==
    MaxAttempts \in Nat \ {0} /\ DownloadMax \in Nat \ {0} /\ ChunkSizes \subseteq Nat

\* What a JSON value consists of.
PartsOf(v) ==
    IF v.kind = "object" THEN {v.fields[f] : f \in DOMAIN v.fields}
    ELSE IF v.kind = "array" THEN ToSet(v.items) ELSE {}

\* JSON values are finite trees: the parts of a value nest less deep than it.
ASSUME JsonAssumption ==
    /\ MaxDepth \in Nat /\ Depth \in [Values -> 0..MaxDepth]
    /\ \A v \in Values :
          /\ v.kind \in {"null", "bool", "text", "number", "object", "array"}
          /\ v.kind = "array" => v.items \in Seq(PartsOf(v))
          /\ \A part \in PartsOf(v) : Depth[part] < Depth[v]
    /\ UNION {PartsOf(v) : v \in Values} \subseteq Values
    /\ {b.data : b \in WeatherBodies} \subseteq Values

VARIABLES
    call,      \* the HTTP call: its kind, attempts and received bytes
    body,      \* what upstream answered
    reply      \* what the provider returns: <<>> is an error

providerVars == <<call, body, reply>>

Text(is) == [kind |-> "text", is |-> is]
Number(is) == [kind |-> "number", is |-> is]
Null == [kind |-> "null"]
Bool == [kind |-> "bool"]
Object(fields) == [kind |-> "object", fields |-> fields]
Array(items) == [kind |-> "array", items |-> items]

ProviderInit ==
    /\ call = [kind |-> "weather", pc |-> "done", attempt |-> 1, got |-> 0]
    /\ body = <<>> /\ reply = <<>>

(***************************************************************************)
(* Values.                                                                 *)
(***************************************************************************)
\* Defect considered: only texts are compared with the placeholder.
IsSentinel_TextOnly(v) == v.kind = "text" /\ v.is \in {"sentinel", "dash"}

\* is_sentinel_string, is_sentinel_number.
IsSentinel(v) == v.is \in (IF v.kind = "text" THEN {"sentinel", "dash"} ELSE {"sentinel"})

\* is_missing_value: nothing but placeholders.
IsMissing[v \in Values] ==
    \/ v.kind = "null"
    \/ v.kind \in {"text", "number"} /\ IsSentinel(v)
    \/ v.kind \in {"object", "array"} /\ \A part \in PartsOf(v) : IsMissing[part]
Present == {v \in Values : ~IsMissing[v]}

Kept(x, warn) == [val |-> <<x>>, warn |-> warn]
Dropped(warn) == [val |-> <<>>, warn |-> warn]

Candidate(v, usable) == IF IsMissing[v] THEN "missing" ELSE IF usable THEN "value" ELSE "invalid"
IsScalar(v, kinds) == v.kind \in {"text", "number"} /\ v.is \in kinds

\* string_candidate: also a number is a string.
StringCandidate(v) == Candidate(v, v.kind \in {"text", "number"})

\* f64_candidate: also a text that parses, and only what is finite.
F64Candidate(v) == Candidate(v, IsScalar(v, {"grade", "count", "fraction"}))

\* u32_candidate.
U32Candidate(v) == Candidate(v, IsScalar(v, {"grade", "count"}))

\* resource_url, alias_resource_url: a text, that joins with the base URL.
Joins(v) == v.is # "no url"
IsReference(v) == v.kind = "text"
UrlCandidate(v) == Candidate(v, IsReference(v) /\ Joins(v))

\* The conversion a field asks for.
As(type, v) ==
    CASE type = "string" -> StringCandidate(v)
      [] type = "f64" -> F64Candidate(v)
      [] type = "u32" -> U32Candidate(v)
      [] type = "url" -> UrlCandidate(v)

\* alias: the first usable value of the names; a warning if all that is there is
\* unusable.
Alias(fields, names, type, path) ==
    LET there == {i \in DOMAIN names : names[i] \in DOMAIN fields}
        usable == {i \in there : As(type, fields[names[i]]) = "value"}
    IN IF usable # {} THEN Kept(fields[names[Min(usable)]].is, {})
       ELSE Dropped(IF \E i \in there : As(type, fields[names[i]]) = "invalid" THEN {path} ELSE {})

\* fixed: a field of one name.
Fixed(fields, name, type, path) == Alias(fields, <<name>>, type, path)

NoFields == [f \in {} |-> Null]
Get(fields, name) == IF name \in DOMAIN fields THEN <<fields[name]>> ELSE <<>>

SectionObject(opt, path) ==
    IF opt = <<>> THEN Dropped({})
    ELSE IF IsMissing[opt[1]] THEN Dropped({})
    ELSE IF opt[1].kind = "object" THEN Kept(opt[1].fields, {}) ELSE Dropped({path})

\* decode_section: every field of the sections is an optional value, so that an
\* object always decodes.
DecodeSection(opt, path) == SectionObject(opt, path)

\* The fields of a section that is optional itself.
FieldsOf(section) == IF section.val = <<>> THEN NoFields ELSE section.val[1]

\* sequence, alias_sequence: an object is a list of itself.
Items(v, path) ==
    IF IsMissing[v] THEN Kept(<<>>, {})
    ELSE CASE v.kind = "array" -> Kept(Only(v.items, Present), {})
           [] v.kind = "object" -> Kept(<<v>>, {})
           [] OTHER -> Kept(<<>>, {path})

Sequence(opt, path) == IF opt = <<>> THEN Kept(<<>>, {}) ELSE Items(opt[1], path)

\* The first of the names with a list.
AliasSequence(fields, names, path) ==
    LET there == {i \in DOMAIN names : names[i] \in DOMAIN fields /\ ~IsMissing[fields[names[i]]]}
        lists == {i \in there : fields[names[i]].kind \in {"array", "object"}}
    IN IF lists # {} THEN Items(fields[names[Min(lists)]], path)
       ELSE Kept(<<>>, IF there # {} THEN {path} ELSE {})

(***************************************************************************)
(* Sections.                                                               *)
(***************************************************************************)
WarningsOf(outcomes) == UNION {outcomes[f].warn : f \in DOMAIN outcomes}

\* A section with a usable field; else it is dropped and warn_if_unusable warns,
\* unless a field of it did.
Collected(fields, outcomes, path) ==
    LET warn == WarningsOf(outcomes)
    IN IF \E f \in DOMAIN outcomes : outcomes[f].val # <<>>
       THEN Kept([f \in DOMAIN outcomes |-> outcomes[f].val], warn)
       ELSE Dropped(IF warn = {} /\ \E f \in DOMAIN fields : ~IsMissing[fields[f]]
                    THEN {path} ELSE warn)

\* What a list's entries are mapped to: those that map, in their order, and the
\* warnings of all.
Entries(list, mapped) ==
    LET kept == Only(list.val[1], {v \in DOMAIN mapped : mapped[v].val # <<>>})
    IN Kept([i \in DOMAIN kept |-> mapped[kept[i]].val[1]], list.warn \union WarningsOf(mapped))

InSection(section, outcome) == IF section.val = <<>> THEN section ELSE outcome

MapTemperatureChart(v) ==
    LET section == SectionObject(<<v>>, "tempchart")
        fields == FieldsOf(section)
    IN InSection(section, Collected(fields,
           [date |-> Alias(fields, <<"date", "time">>, "string", "tempchart.date"),
            max |-> Alias(fields, <<"max_temperature", "max">>, "f64", "tempchart.max"),
            min |-> Alias(fields, <<"min_temperature", "min">>, "f64", "tempchart.min")],
           "tempchart"))

MapPassedChart(v) ==
    LET section == SectionObject(<<v>>, "passedchart")
        fields == FieldsOf(section)
    IN InSection(section, Collected(fields,
           [time |-> Alias(fields, <<"time", "publish_time">>, "string", "passedchart.time"),
            temperature |-> Alias(fields, <<"temperature", "temp">>, "f64", "passedchart.temperature")],
           "passedchart"))

MapTemperatureCharts(opt) ==
    LET list == Sequence(opt, "tempchart")
    IN Entries(list, [v \in ToSet(list.val[1]) |-> MapTemperatureChart(v)])

MapPassedCharts(opt) ==
    LET list == Sequence(opt, "passedchart")
    IN Entries(list, [v \in ToSet(list.val[1]) |-> MapPassedChart(v)])

\* map_air_level: the text of the level, else the grade if it is one of the six.
MapAirLevel(fields) ==
    LET level == Alias(fields, <<"level", "aqi_level">>, "string", "air.level")
        grade == Alias(fields, <<"aq">>, "u32", "air.level")
    IN IF level.val # <<>> THEN level
       ELSE IF grade.val = <<"count">> THEN Dropped(level.warn \union {"air.level"})
       ELSE [grade EXCEPT !.warn = @ \union level.warn]

MapAirQuality(opt) ==
    LET section == SectionObject(opt, "air")
        fields == FieldsOf(section)
    IN InSection(section, Collected(fields,
           [aqi |-> Alias(fields, <<"aqi", "AQI">>, "f64", "air.aqi"),
            level |-> MapAirLevel(fields)],
           "air"))

MapClimateMonth(v) ==
    LET section == SectionObject(<<v>>, "climate.month")
        fields == FieldsOf(section)
    IN InSection(section, Collected(fields,
           [month |-> Alias(fields, <<"month", "mon">>, "u32", "climate.month"),
            rain |-> Alias(fields, <<"precipitation", "rain">>, "f64", "climate.rain")],
           "climate.month"))

\* map_climate: a period or a month is enough.
MapClimate(opt) ==
    LET section == SectionObject(opt, "climate")
        fields == FieldsOf(section)
        list == AliasSequence(fields, <<"month", "months">>, "climate.month")
        months == Entries(list, [v \in ToSet(list.val[1]) |-> MapClimateMonth(v)])
    IN InSection(section, Collected(fields,
           [period |-> Alias(fields, <<"period", "range">>, "string", "climate.period"),
            month |-> IF months.val = <<<<>>>> THEN Dropped(months.warn) ELSE months],
           "climate"))

MapRadar(opt) ==
    LET section == SectionObject(opt, "radar")
        fields == FieldsOf(section)
    IN InSection(section, Collected(fields,
           [title |-> Alias(fields, <<"title", "name">>, "string", "radar.title"),
            image |-> Alias(fields, <<"image", "img">>, "url", "radar.image_url")],
           "radar"))

\* map_station: a province and a city, or none.
MapStation(opt) ==
    LET section == DecodeSection(opt, "station")
        province == Fixed(FieldsOf(section), "province", "string", "station.province")
        city == Fixed(FieldsOf(section), "city", "string", "station.city")
        warn == province.warn \union city.warn
    IN InSection(section,
           IF province.val # <<>> /\ city.val # <<>> THEN Kept(<<province.val[1], city.val[1]>>, warn)
           ELSE Dropped(IF warn = {} THEN {"station"} ELSE warn))

\* map_alert: no alert without its text, and then no warning.
MapAlert(opt) ==
    LET section == DecodeSection(opt, "warn")
        alert == Fixed(FieldsOf(section), "alert", "string", "warn.alert")
        icon == Fixed(FieldsOf(section), "pic", "url", "warn.pic")
    IN InSection(section,
           IF alert.val = <<>> THEN alert
           ELSE Kept([alert |-> alert.val, icon |-> icon.val], icon.warn))

\* map_real: the observation and its station.
MapReal(opt) ==
    LET section == DecodeSection(opt, "real")
        fields == FieldsOf(section)
        weather == DecodeSection(Get(fields, "weather"), "real.weather")
        wind == DecodeSection(Get(fields, "wind"), "real.wind")
        alert == MapAlert(Get(fields, "warn"))
        station == MapStation(Get(fields, "station"))
        temperature == Fixed(FieldsOf(weather), "temperature", "f64", "real.temperature")
        info == Fixed(FieldsOf(weather), "info", "string", "real.info")
        direct == Fixed(FieldsOf(wind), "direct", "string", "real.wind.direct")
    IN InSection(section,
           Kept([station |-> station.val, temperature |-> temperature.val, info |-> info.val,
                 wind |-> direct.val, alerts |-> alert.val],
                UNION {weather.warn, wind.warn, alert.warn, station.warn,
                       temperature.warn, info.warn, direct.warn}))

\* map_forecast_part.
MapForecastPart(opt) ==
    LET part == DecodeSection(opt, "predict.part")
        weather == DecodeSection(Get(FieldsOf(part), "weather"), "predict.weather")
        temperature == Fixed(FieldsOf(weather), "temperature", "string", "predict.temperature")
    IN [val |-> temperature.val, warn |-> part.warn \union weather.warn \union temperature.warn]

\* map_forecast_day: an entry without a date is dropped with a warning.
MapForecastDay(v) ==
    LET section == DecodeSection(<<v>>, "predict.detail")
        fields == FieldsOf(section)
        date == Fixed(fields, "date", "string", "predict.date")
        day == MapForecastPart(Get(fields, "day"))
        night == MapForecastPart(Get(fields, "night"))
    IN InSection(section,
           IF date.val = <<>> THEN Dropped(IF date.warn = {} THEN {"predict.detail"} ELSE date.warn)
           ELSE Kept([date |-> date.val[1], day |-> day.val, night |-> night.val],
                     day.warn \union night.warn))

MapPredict(opt) ==
    LET section == DecodeSection(opt, "predict")
        list == Sequence(Get(FieldsOf(section), "detail"), "predict.detail")
        days == Entries(list, [v \in ToSet(list.val[1]) |-> MapForecastDay(v)])
        station == MapStation(Get(FieldsOf(section), "station"))
    IN InSection(section,
           Kept([station |-> station.val, days |-> days.val[1]], days.warn \union station.warn))

StationOf(section) == IF section.val = <<>> THEN <<>> ELSE section.val[1].station

\* map_weather: the station is the observation's, else the forecast's.
MapWeather(data) ==
    LET sections == [real |-> MapReal(Get(data, "real")), predict |-> MapPredict(Get(data, "predict")),
                     air |-> MapAirQuality(Get(data, "air")),
                     tempchart |-> MapTemperatureCharts(Get(data, "tempchart")),
                     passedchart |-> MapPassedCharts(Get(data, "passedchart")),
                     climate |-> MapClimate(Get(data, "climate")), radar |-> MapRadar(Get(data, "radar"))]
    IN [station |-> IF StationOf(sections.real) # <<>> THEN StationOf(sections.real)
                    ELSE StationOf(sections.predict),
        snapshot |-> [s \in DOMAIN sections |-> sections[s].val],
        warnings |-> WarningsOf(sections)]

\* decode_weather_response: the code of success and an object.
DecodeWeatherResponse(b) == IF b.code = 0 /\ b.data.kind = "object" THEN <<MapWeather(b.data.fields)>> ELSE <<>>

\* validate_catalog_field: here a dash is a name.
FieldValid(v) == v.is # "sentinel"
RequiredUrl(v) == ~IsSentinel(v) /\ Joins(v)
RowValid(row) == FieldValid(row.code) /\ FieldValid(row.name) /\ RequiredUrl(row.url)

\* map_provinces, map_cities: one bad row fails the list.
MapRows(rows) == IF \A i \in DOMAIN rows : RowValid(rows[i]) THEN <<rows>> ELSE <<>>

(***************************************************************************)
(* Calls.                                                                  *)
(***************************************************************************)
EndCall(result) == call' = [call EXCEPT !.pc = "done"] /\ reply' = result

\* A resource of another origin is refused before any request.
BeginCall(kind, ownOrigin) ==
    /\ call.pc = "done" /\ kind # "resource" => ownOrigin
    /\ call' = [kind |-> kind, pc |-> IF ownOrigin THEN "connecting" ELSE "done", attempt |-> 1, got |-> 0]
    /\ body' = <<>> /\ reply' = <<>>

\* A failed connection is tried again, after a longer delay each time.
ConnectFails ==
    /\ call.pc = "connecting"
    /\ \/ call.attempt < MaxAttempts /\ call' = [call EXCEPT !.attempt = @ + 1] /\ UNCHANGED reply
       \/ call.attempt = MaxAttempts /\ EndCall(<<>>)
    /\ UNCHANGED body

\* Any other failure, an error status, or a body that is no JSON or breaks off.
RequestFails == call.pc \in {"connecting", "streaming"} /\ EndCall(<<>>) /\ UNCHANGED body

AnswerWeather(b) ==
    /\ call.pc = "connecting" /\ call.kind = "weather"
    /\ body' = <<b>> /\ EndCall(DecodeWeatherResponse(b))

AnswerCatalog(rows) ==
    /\ call.pc = "connecting" /\ call.kind = "catalog"
    /\ body' = <<rows>> /\ EndCall(MapRows(rows))

\* get_binary_url: a declared length above the limit is refused.
AnswerResource(length) ==
    /\ call.pc = "connecting" /\ call.kind = "resource"
    /\ \/ length > DownloadMax /\ EndCall(<<>>)
       \/ length <= DownloadMax /\ call' = [call EXCEPT !.pc = "streaming"] /\ UNCHANGED reply
    /\ UNCHANGED body

Chunk(n) ==
    /\ call.pc = "streaming"
    /\ \/ call.got + n > DownloadMax /\ EndCall(<<>>)
       \/ call.got + n <= DownloadMax /\ call' = [call EXCEPT !.got = @ + n] /\ UNCHANGED reply
    /\ UNCHANGED body

\* The transport takes only images.
DownloadEnds(image) ==
    /\ call.pc = "streaming"
    /\ EndCall(IF image THEN <<call.got>> ELSE <<>>)
    /\ UNCHANGED body

ProviderNext ==
    \/ \E kind \in {"weather", "catalog", "resource"}, own \in BOOLEAN : BeginCall(kind, own)
    \/ ConnectFails \/ RequestFails
    \/ \E b \in WeatherBodies : AnswerWeather(b)
    \/ \E rows \in CatalogBodies : AnswerCatalog(rows)
    \/ \E length \in {0, DownloadMax + 1} : AnswerResource(length)
    \/ \E n \in ChunkSizes : Chunk(n)
    \/ \E image \in BOOLEAN : DownloadEnds(image)

ProviderSpec == ProviderInit /\ [][ProviderNext]_providerVars

(***************************************************************************)
(* Properties.                                                             *)
(***************************************************************************)
Given(v) == v.kind \in {"text", "number"} /\ v.is # "sentinel" /\ (v.kind = "number" \/ v.is # "dash")
ObjectAt(opt) == IF opt # <<>> /\ opt[1].kind = "object" THEN opt[1].fields ELSE NoFields
Under(fields, name) == ObjectAt(Get(fields, name))
Holds(fields, names) == \E a \in names \intersect DOMAIN fields : Given(fields[a])
Listed(opt) ==
    IF opt = <<>> THEN <<>>
    ELSE IF opt[1].kind = "array" THEN opt[1].items ELSE IF opt[1].kind = "object" THEN opt ELSE <<>>
Holding(opt, names) ==
    Cardinality({i \in DOMAIN Listed(opt) : Holds(ObjectAt(<<Listed(opt)[i]>>), names)})
Has(section, field) == section # <<>> /\ section[1][field] # <<>>

\* What data maps to is faithful: a warning is the only excuse for a field lost.
Faithful(data, mapped) ==
    LET out == mapped.snapshot
        real == Under(data, "real")
        stations == {Under(real, "station"), Under(Under(data, "predict"), "station")}
        Same(kept, held) == (kept => held) /\ (mapped.warnings = {} => (held => kept))
        Count(kept, held) == kept <= held /\ (mapped.warnings = {} => kept = held)
    IN /\ Same(Has(out.real, "temperature"), Holds(Under(real, "weather"), {"temperature"}))
       /\ Same(Has(out.real, "alerts"), Holds(Under(real, "warn"), {"alert"}))
       /\ Same(mapped.station # <<>>,
               \E s \in stations : Holds(s, {"province"}) /\ Holds(s, {"city"}))
       /\ Same(Has(out.air, "aqi"), Holds(Under(data, "air"), {"aqi", "AQI"}))
       /\ Same(Has(out.air, "level"), Holds(Under(data, "air"), {"level", "aqi_level", "aq"}))
       /\ Same(Has(out.radar, "image"), Holds(Under(data, "radar"), {"image", "img"}))
       /\ Count(Len(out.tempchart[1]),
                Holding(Get(data, "tempchart"),
                        {"date", "time", "max_temperature", "max", "min_temperature", "min"}))
       /\ Count(Len(out.passedchart[1]),
                Holding(Get(data, "passedchart"), {"time", "publish_time", "temperature", "temp"}))
       /\ Count(IF out.predict = <<>> THEN 0 ELSE Len(out.predict[1].days),
                Holding(Get(Under(data, "predict"), "detail"), {"date"}))

\* A mapped weather document has no field that upstream did not fill, placeholders
\* do not count, and without a warning it has every field and entry that upstream
\* filled under one of the names the mapper knows: nothing is lost silently.  (An
\* alert without its text is no alert.)
SnapshotFaithful ==
    call.kind = "weather" /\ reply # <<>> => Faithful(body[1].data.fields, reply[1])
=============================================================================
