-------------------------- MODULE MCExtensionConfig --------------------------
EXTENDS ExtensionConfig

ExporterField(word, value) == <<Exporter, <<word>>>> :> value

NoFile == [exists |-> FALSE, valid |-> TRUE, values |-> << >>]

File(values) == [exists |-> TRUE, valid |-> TRUE, values |-> values]

MCFiles ==
    {NoFile, [NoFile EXCEPT !.exists = TRUE, !.valid = FALSE],
     File(ExporterField("headers", Headers([auth |-> "f", tenant |-> "f"]))
              @@ ExporterField("endpoint", Text("file"))
              @@ (<<Receiver, <<"http", "port">>>> :> Number(5318))),
     File(ExporterField("protocol", Text("grpc")) @@ ExporterField("compression", Text("none"))
              @@ (<<Flush, <<"completion", "wait">>>> :> Number(250))),
     File(<<Flush, <<"strategy">>>> :> Text("often")), File(ExporterField("headers", Text("f"))),
     File(<<Receiver, <<"http", "port">>>> :> Number(70000))}

MCOtelEnvs ==
    {<< >>,
     [protocol |-> "http/protobuf", headers |-> <<<<"auth", "o1">>, <<"auth", "o2">>, <<"auth">>>>],
     [protocol |-> "http/json", compression |-> "zstd", headers |-> <<<<"malformed">>>>],
     [endpoint |-> "otel", protocol |-> "grpc", compression |-> "gzip"]}

Var(name, value) == [name |-> name, value |-> value]

\* One for every field, of the right kind, and some that are none.
MCVariables ==
    {Var(path[1] \o path[2],
         LET default == DefaultOf(path)
         IN  CASE default.kind = "number" -> Number(7)
               [] default.kind = "flag" -> Flag(FALSE)
               [] default.kind = "headers" -> Headers([tenant |-> "v"])
               [] OTHER -> default) : path \in Paths}
        \cup {Var(<<"exporter", "endpoint">>, Text("variable")), Var(<<"exporter">>, Text("x")),
              Var(<<"exporter", "protocol">>, Text("grpc")),
              Var(<<"exporter", "url">>, Text("x")), Var(<<"log", "level">>, Text("debug")),
              Var(<<"flush", "strategy">>, Number(3)), Var(<<"receiver", "http", "port">>, Text("x"))}

\* None, one or two of them.
MCPrefixed == {{}} \cup {{v, w} : v, w \in MCVariables}
=============================================================================
