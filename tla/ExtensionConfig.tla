--------------------------- MODULE ExtensionConfig ---------------------------
(***************************************************************************)
(* How the extension's configuration is loaded (config.rs): defaults, the  *)
(* file, the OTEL_ variables and the LAMBDA_OTEL_ variables are merged in  *)
(* this order, the result is read into the Config struct, and the exporter *)
(* is made from it or refuses, which ends the start (service.rs:131).      *)
(*                                                                         *)
(* A source is a function from paths, the words of a section and those of  *)
(* a field, to values.  A value has a kind, as TOML and figment have it,   *)
(* and of the names the words are kept, for they are what is ambiguous.    *)
(***************************************************************************)
EXTENDS Naturals, FiniteSets, SequencesExt

CONSTANTS
    Files,      \* what the configuration file may be: see FilesOK
    OtelEnvs,   \* values of the OTEL_EXPORTER_OTLP_ variables: see OtelOK
    Prefixed,   \* sets of LAMBDA_OTEL_ variables, name and value: see PrefixedOK
    Memory      \* values of AWS_LAMBDA_FUNCTION_MEMORY_SIZE; 0 if it is not set

Text(value) == [kind |-> "text", is |-> value]
Number(value) == [kind |-> "number", is |-> value]
Flag(value) == [kind |-> "flag", is |-> value]
Headers(value) == [kind |-> "headers", is |-> value]  \* a function of names

Unset == Text("unset")
On == Flag(TRUE)
NoHeaders == Headers(<< >>)

-----------------------------------------------------------------------------
(* The Config struct. *)

Exporter == <<"exporter">>
Receiver == <<"receiver">>
Flush == <<"flush">>
Correlation == <<"correlation">>
TelemetryApi == <<"telemetry", "api">>

CONFIG_SECTIONS == {TelemetryApi, Exporter, Receiver, Flush, Correlation}

KiB == 1024

\* In KiB: a tenth of the memory between 4 and 32 MiB.
DefaultMaxQueueBytes(mb) ==
    IF mb = 0 THEN 16 * KiB
    ELSE LET tenth == (mb * KiB) \div 10
         IN  IF tenth < 4 * KiB THEN 4 * KiB ELSE IF tenth > 32 * KiB THEN 32 * KiB ELSE tenth

\* The fields of each struct: section, words, type and default; that of
\* max_queue_bytes depends.
ExporterConfig ==
    {<<Exporter, <<"endpoint">>, "text", Unset>>,
     <<Exporter, <<"protocol">>, "protocol", Text("http")>>,
     <<Exporter, <<"timeout">>, "number", Number(500)>>,
     <<Exporter, <<"compression">>, "compression", Text("gzip")>>,
     <<Exporter, <<"headers">>, "headers", NoHeaders>>}

ReceiverConfig ==
    {<<Receiver, <<"http", "port">>, "port", Number(4318)>>,
     <<Receiver, <<"http", "enabled">>, "flag", On>>}

FlushConfig ==
    {<<Flush, <<"strategy">>, "strategy", Text("default")>>,
     <<Flush, <<"interval">>, "number", Number(20000)>>,
     <<Flush, <<"max", "batch", "bytes">>, "number", Number(4 * KiB)>>,
     <<Flush, <<"max", "batch", "entries">>, "number", Number(1000)>>,
     <<Flush, <<"completion", "wait">>, "wait", Text("auto")>>,
     <<Flush, <<"max", "queue", "bytes">>, "number", Number(16 * KiB)>>,
     <<Flush, <<"max", "queue", "entries">>, "number", Number(4096)>>}

CorrelationConfig ==
    {<<Correlation, <<"max", "correlation", "delay">>, "number", Number(500)>>,
     <<Correlation, <<"max", "buffered", "events", "per", "invocation">>, "number", Number(50)>>,
     <<Correlation, <<"max", "total", "buffered", "events">>, "number", Number(500)>>,
     <<Correlation, <<"max", "invocation", "lifetime">>, "number", Number(900000)>>,
     <<Correlation, <<"emit", "orphaned", "spans">>, "flag", On>>}

TelemetryApiConfig ==
    {<<TelemetryApi, <<"enabled">>, "flag", On>>,
     <<TelemetryApi, <<"listener", "port">>, "port", Number(9999)>>,
     <<TelemetryApi, <<"buffer", "size">>, "number", Number(256)>>}

Config ==
    ExporterConfig \cup ReceiverConfig \cup FlushConfig \cup CorrelationConfig \cup TelemetryApiConfig

PathOf(row) == <<row[1], row[2]>>

Paths == {PathOf(row) : row \in Config}

RowOf(path) == CHOOSE row \in Config : PathOf(row) = path
TypeOf(path) == RowOf(path)[3]
DefaultOf(path) == RowOf(path)[4]

EndpointPath == <<Exporter, <<"endpoint">>>>
HeadersPath == <<Exporter, <<"headers">>>>
ProtocolPath == <<Exporter, <<"protocol">>>>

Words(type) ==
    CASE type = "protocol" -> {"grpc", "http"}
      [] type = "compression" -> {"none", "gzip"}
      [] type = "strategy" -> {"default", "end", "periodic", "continuous"}
      [] type = "wait" -> {"auto", "off"}

\* Deserialize: a number of the wait is its cap.
Accepts(type, value) ==
    CASE type \in {"text", "flag", "headers", "number"} -> value.kind = type
      [] type = "port" -> value.kind = "number" /\ value.is < 65536
      [] type = "wait" /\ value.kind = "number" -> TRUE
      [] OTHER -> value.kind = "text" /\ value.is \in Words(type)

-----------------------------------------------------------------------------
FilesOK == \A file \in Files : /\ {file.exists, file.valid} \subseteq BOOLEAN
                               /\ DOMAIN file.values \subseteq Paths

\* endpoint, protocol and compression are texts, in small letters; headers is the
\* sequence of what is between commas: pairs, or one text where there is no equals sign.
OtelOK ==
    \A otel \in OtelEnvs :
        /\ DOMAIN otel \subseteq {"endpoint", "protocol", "compression", "headers"}
        /\ "headers" \in DOMAIN otel => otel.headers \in Seq(Seq(STRING))

\* A name is the sequence of its words.
PrefixedOK == \A variables \in Prefixed : \A v \in variables : v.name \in Seq(STRING)

ASSUME ConfigAssumption == FilesOK /\ OtelOK /\ PrefixedOK /\ Memory \subseteq Nat

VARIABLES
    sources,  \* file, otel, prefixed and memory: what is there to load
    step,     \* the source to merge next: "file", "otel", "prefixed", "extract", "done"
    figment,  \* the sources merged so far
    loaded,   \* the configuration, or an empty function before and after an error
    exporter  \* "none", "made", or "refused": the extension does not start

configVars == <<sources, step, figment, loaded, exporter>>

Defaults(memory) ==
    [path \in Paths |->
        IF path = <<Flush, <<"max", "queue", "bytes">>>>
        THEN Number(DefaultMaxQueueBytes(memory))
        ELSE DefaultOf(path)]

\* A name is set once.  Between a variable named after a section and one of its fields
\* the order of the environment decides, so they do not come together here.
ConfigInit ==
    /\ sources \in [file : Files, otel : OtelEnvs, memory : Memory, prefixed : Prefixed]
    /\ \A v, w \in sources.prefixed : v # w =>
           /\ v.name # w.name
           /\ ~(v.name \in CONFIG_SECTIONS /\ IsPrefix(v.name, w.name))
    /\ step = "file" /\ figment = Defaults(sources.memory) /\ loaded = << >> /\ exporter = "none"

-----------------------------------------------------------------------------
\* Merging that replaces headers like every other value.
ReplaceValue(old, new) == new

\* figment merges tables, and replaces everything else.
MergeValue(old, new) ==
    IF old.kind = "headers" /\ new.kind = "headers"
    THEN Headers([name \in DOMAIN old.is \cup DOMAIN new.is |->
                     IF name \in DOMAIN new.is THEN new.is[name] ELSE old.is[name]])
    ELSE new

Merge(old, new) ==
    [path \in DOMAIN old \cup DOMAIN new |->
        IF path \notin DOMAIN new THEN old[path]
        ELSE IF path \notin DOMAIN old THEN new[path]
        ELSE MergeValue(old[path], new[path])]

\* An unreadable file is an error of the load.
MergeFile ==
    /\ step = "file"
    /\ IF sources.file.exists /\ ~sources.file.valid
       THEN step' = "done" /\ UNCHANGED figment
       ELSE /\ step' = "otel"
            /\ figment' = IF sources.file.exists THEN Merge(figment, sources.file.values) ELSE figment
    /\ UNCHANGED <<sources, loaded, exporter>>

\* The last pair of a name counts.
HeaderPairs(pairs) ==
    LET well == {i \in DOMAIN pairs : Len(pairs[i]) = 2}
        last(name) == CHOOSE i \in well :
            pairs[i][1] = name /\ \A j \in well : pairs[j][1] = name => j <= i
    IN  [name \in {pairs[i][1] : i \in well} |-> pairs[last(name)][2]]

\* What passes on every protocol it is told.
RawProtocol(text) == text

\* Both spellings of HTTP, and nothing for what is unknown.
KnownProtocol(text) ==
    CASE text = "grpc" -> "grpc"
      [] text \in {"http", "http/protobuf"} -> "http"
      [] OTHER -> ""

\* What standard_otel_env makes of a variable that is set.
OtelValue(otel, field) ==
    CASE field = "headers" -> Headers(HeaderPairs(otel.headers))
      [] field = "protocol" -> Text(KnownProtocol(otel.protocol))
      [] OTHER -> Text(otel[field])

\* PartialConfig leaves out what is not known, and headers that are none.
StandardOtelEnv(otel) ==
    LET known == {field \in DOMAIN otel :
                     /\ field = "protocol" => KnownProtocol(otel.protocol) # ""
                     /\ field = "compression" => otel.compression \in Words("compression")
                     /\ field = "headers" => DOMAIN HeaderPairs(otel.headers) # {}}
    IN  [path \in {<<Exporter, <<field>>>> : field \in known} |-> OtelValue(otel, path[2][1])]

MergeOtel ==
    /\ step = "otel" /\ step' = "prefixed"
    /\ figment' = Merge(figment, StandardOtelEnv(sources.otel))
    /\ UNCHANGED <<sources, loaded, exporter>>

\* A key for every word.
PlainSplit(name) == [i \in DOMAIN name |-> <<name[i]>>]

\* The words after those of a known section are one field; the rest is a key of its own.
KeyOf(name) ==
    IF \E section \in CONFIG_SECTIONS : IsStrictPrefix(section, name)
    THEN LET section == CHOOSE s \in CONFIG_SECTIONS : IsStrictPrefix(s, name)
         IN  <<section, SubSeq(name, Len(section) + 1, Len(name))>>
    ELSE <<name>>

\* A variable that is named after a section puts its value where the section was.
MergePrefixed ==
    /\ step = "prefixed" /\ step' = "extract"
    /\ LET key == {KeyOf(v.name) : v \in sources.prefixed}
           values == [k \in key |-> (CHOOSE v \in sources.prefixed : KeyOf(v.name) = k).value]
       IN  figment' = Merge([path \in {p \in DOMAIN figment : <<p[1]>> \notin key} |-> figment[path]],
                            values)
    /\ UNCHANGED <<sources, loaded, exporter>>

\* Keys that no struct knows are ignored.
Extract ==
    /\ step = "extract" /\ step' = "done"
    /\ loaded' = IF /\ \A section \in CONFIG_SECTIONS : <<section>> \notin DOMAIN figment
                    /\ \A path \in Paths \cap DOMAIN figment :
                          \/ path = EndpointPath /\ figment[path] = Unset
                          \/ Accepts(TypeOf(path), figment[path])
                 THEN [path \in Paths |-> figment[path]]
                 ELSE << >>
    /\ UNCHANGED <<sources, figment, exporter>>

\* OtlpExporter::new, of a configuration that was loaded.
NewExporter ==
    /\ step = "done" /\ loaded # << >> /\ exporter = "none"
    /\ exporter' = IF loaded[ProtocolPath].is = "http" THEN "made" ELSE "refused"
    /\ UNCHANGED <<sources, step, figment, loaded>>

ConfigNext == MergeFile \/ MergeOtel \/ MergePrefixed \/ Extract \/ NewExporter

ConfigSpec == ConfigInit /\ [][ConfigNext]_configVars

-----------------------------------------------------------------------------
(* Properties. *)

Loaded == step = "done" /\ loaded # << >>

VariableOf(path) == {v \in sources.prefixed : v.name = path[1] \o path[2]}

InFile(path) == sources.file.exists /\ path \in DOMAIN sources.file.values

InOtel(field) == field \in DOMAIN sources.otel

\* "Extension-specific variables with LAMBDA_OTEL_ prefix take precedence"
\* (config.rs:22), whatever words a field's name has; then the OTEL_ variables with a
\* value that is known, the file, and the default (config.rs:4-8).
HighestSourceWins ==
    Loaded =>
        \A path \in Paths \ {HeadersPath} :
            LET field == IF path[1] = Exporter THEN path[2][1] ELSE "none"
            IN  IF VariableOf(path) # {} THEN \A v \in VariableOf(path) : loaded[path] = v.value
                ELSE IF field = "endpoint" /\ InOtel(field)
                     THEN loaded[path] = Text(sources.otel.endpoint)
                ELSE IF field = "compression" /\ InOtel(field) /\ sources.otel.compression \in {"none", "gzip"}
                     THEN loaded[path] = Text(sources.otel.compression)
                ELSE IF field = "protocol" /\ InOtel(field) /\ sources.otel.protocol = "grpc"
                     THEN loaded[path] = Text("grpc")
                ELSE IF field = "protocol" /\ InOtel(field) /\ sources.otel.protocol \in {"http", "http/protobuf"}
                     THEN loaded[path] = Text("http")
                ELSE loaded[path] = IF InFile(path) THEN sources.file.values[path] ELSE Defaults(sources.memory)[path]

FileHeaders ==
    IF InFile(HeadersPath) /\ sources.file.values[HeadersPath].kind = "headers"
    THEN sources.file.values[HeadersPath].is ELSE << >>

OtelPairs == IF InOtel("headers") THEN sources.otel.headers ELSE << >>

OtelSays(i, name) == Len(OtelPairs[i]) = 2 /\ OtelPairs[i][1] = name

VariableHeaders ==
    IF VariableOf(HeadersPath) = {} THEN << >>
    ELSE (CHOOSE v \in VariableOf(HeadersPath) : TRUE).value.is

\* The headers of all sources are sent, and where two name one the higher source says:
\* an OTEL_ variable that adds a header does not remove the credentials in the file.
HeadersAreJoined ==
    Loaded =>
        LET sent == loaded[HeadersPath].is
        IN  /\ DOMAIN FileHeaders \cup DOMAIN VariableHeaders \subseteq DOMAIN sent
            /\ \A i \in DOMAIN OtelPairs : Len(OtelPairs[i]) = 2 => OtelPairs[i][1] \in DOMAIN sent
            /\ \A name \in DOMAIN sent :
                  IF name \in DOMAIN VariableHeaders THEN sent[name] = VariableHeaders[name]
                  ELSE IF \E i \in DOMAIN OtelPairs : OtelSays(i, name)
                  THEN \E i \in DOMAIN OtelPairs :
                          /\ OtelPairs[i] = <<name, sent[name]>>
                          /\ \A j \in i + 1 .. Len(OtelPairs) : ~OtelSays(j, name)
                  ELSE name \in DOMAIN FileHeaders /\ sent[name] = FileHeaders[name]

LoadFails == step = "done" /\ loaded = << >>

\* gRPC is what the highest source with a protocol it knows asks for.
GrpcIsAsked ==
    IF VariableOf(ProtocolPath) # {} THEN \E v \in VariableOf(ProtocolPath) : v.value.is = "grpc"
    ELSE IF InOtel("protocol") /\ sources.otel.protocol \in {"grpc", "http", "http/protobuf"}
         THEN sources.otel.protocol = "grpc"
    ELSE InFile(ProtocolPath) /\ sources.file.values[ProtocolPath].is = "grpc"

\* The OTEL_ variables, which other SDKs share, keep the extension from starting in one
\* way only, OTEL_EXPORTER_OTLP_PROTOCOL=grpc that no LAMBDA_OTEL_ variable overrides
\* (exporter.rs:111); a value that is not known, a malformed header or a variable that names
\* no field never does.  Else a start fails for the file, for a variable that names a
\* whole section, or for a value of the wrong type in one of these two.
FailedStartExplained ==
    /\ LoadFails =>
          \/ sources.file.exists /\ ~sources.file.valid
          \/ \E v \in sources.prefixed : v.name \in CONFIG_SECTIONS
          \/ \E path \in Paths : \/ \E v \in VariableOf(path) : ~Accepts(TypeOf(path), v.value)
                                 \/ InFile(path) /\ ~Accepts(TypeOf(path), sources.file.values[path])
    /\ exporter = "refused" => GrpcIsAsked
=============================================================================
