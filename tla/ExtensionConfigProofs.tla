------------------------ MODULE ExtensionConfigProofs ------------------------
(***************************************************************************)
(* What TLAPS proves of ExtensionConfig: for every file, every value of    *)
(* the OTEL_ variables and every set of LAMBDA_OTEL_ variables, which      *)
(* source decides each field, which headers are sent, and what makes a     *)
(* start fail.                                                             *)
(***************************************************************************)
EXTENDS ExtensionConfig, FiniteSetTheorems, WellFoundedInduction, TLAPS

-----------------------------------------------------------------------------
(* The fields. *)

Types == {"text", "protocol", "compression", "number", "port", "flag", "strategy", "wait", "headers"}

\* A sequence, whatever of.
IsSeq(s) == \E S : s \in Seq(S)

\* What the proofs need to know of a field: its path is a section and at least one word,
\* its default is of its type, but for the endpoint that is unset, and the types of those
\* fields that the OTEL_ variables set.
FieldOK(section, words, type, default) ==
    /\ section \in CONFIG_SECTIONS /\ IsSeq(words) /\ Len(words) >= 1
    /\ section = Exporter => Len(words) = 1
    /\ type \in Types
    /\ Accepts(type, default) \/ (section = Exporter /\ words[1] = "endpoint" /\ default = Unset)
    /\ type = "headers" <=> section = Exporter /\ words[1] = "headers"
    /\ type = "headers" => default = NoHeaders
    /\ section = Exporter =>
          /\ words[1] = "endpoint" => type = "text"
          /\ words[1] = "protocol" => type = "protocol" /\ default = Text("http")
          /\ words[1] = "compression" => type = "compression"
    /\ Len(words) = 3 /\ words[2] = "queue" => type = "number"

RowOK(row) == FieldOK(row[1], row[2], row[3], row[4])

LEMMA RowIs ==
    ASSUME NEW section, NEW words, NEW type, NEW default, FieldOK(section, words, type, default)
    PROVE  RowOK(<<section, words, type, default>>)
<1> DEFINE row == <<section, words, type, default>>
<1>1. row[1] = section /\ row[2] = words /\ row[3] = type /\ row[4] = default
  OBVIOUS
<1> HIDE DEF row
<1>2. RowOK(row)
  BY <1>1 DEF RowOK
<1> QED
  BY <1>2 DEF row

\* The sections are five.
LEMMA SectionsDiffer ==
    /\ Exporter \in CONFIG_SECTIONS /\ Receiver \in CONFIG_SECTIONS /\ Flush \in CONFIG_SECTIONS
    /\ Correlation \in CONFIG_SECTIONS /\ TelemetryApi \in CONFIG_SECTIONS
    /\ Exporter \notin {Receiver, Flush, Correlation, TelemetryApi}
BY DEF CONFIG_SECTIONS, Exporter, Receiver, Flush, Correlation, TelemetryApi

LEMMA DefaultsAccepted ==
    /\ Accepts("protocol", Text("http")) /\ Accepts("compression", Text("gzip"))
    /\ Accepts("strategy", Text("default")) /\ Accepts("wait", Text("auto"))
    /\ Accepts("headers", NoHeaders) /\ Accepts("flag", On)
    /\ \A n \in Nat : Accepts("number", Number(n))
BY SMT DEF Accepts, Text, Number, Flag, Headers, On, NoHeaders, Words

LEMMA PortsAccepted == Accepts("port", Number(4318)) /\ Accepts("port", Number(9999))
BY SMT DEF Accepts, Number

LEMMA ExporterField ==
    ASSUME NEW word, NEW type \in Types, NEW default,
           Accepts(type, default) \/ (word = "endpoint" /\ default = Unset),
           type = "headers" <=> word = "headers",
           type = "headers" => default = NoHeaders,
           word = "endpoint" => type = "text",
           word = "protocol" => type = "protocol" /\ default = Text("http"),
           word = "compression" => type = "compression"
    PROVE  RowOK(<<Exporter, <<word>>, type, default>>)
<1>1. <<word>> \in Seq({word}) /\ Len(<<word>>) = 1 /\ <<word>>[1] = word
  OBVIOUS
<1>2. IsSeq(<<word>>)
  BY <1>1, Zenon DEF IsSeq
<1>3. FieldOK(Exporter, <<word>>, type, default)
  BY <1>1, <1>2, SectionsDiffer DEF FieldOK
<1> QED
  BY Zenon, <1>3, RowIs

LEMMA OtherField ==
    ASSUME NEW section \in {Receiver, Flush, Correlation, TelemetryApi}, NEW words,
           IsSeq(words), Len(words) >= 1,
           NEW type \in Types \ {"headers"}, NEW default, Accepts(type, default),
           Len(words) = 3 /\ words[2] = "queue" => type = "number"
    PROVE  FieldOK(section, words, type, default)
BY SectionsDiffer DEF FieldOK

LEMMA OneWord ==
    ASSUME NEW section \in {Receiver, Flush, Correlation, TelemetryApi},
           NEW a,
           NEW type \in Types \ {"headers"}, NEW default, Accepts(type, default)
    PROVE  RowOK(<<section, <<a>>, type, default>>)
<1> DEFINE words == <<a>>
<1>1. words \in Seq({a}) /\ Len(words) = 1
  OBVIOUS
<1> HIDE DEF words
<1>2. IsSeq(words) /\ Len(words) >= 1 /\ (Len(words) = 3 /\ words[2] = "queue" => type = "number")
  BY <1>1 DEF IsSeq
<1>3. RowOK(<<section, words, type, default>>)
  BY Zenon, <1>2, OtherField, RowIs
<1> QED
  BY <1>3 DEF words

LEMMA TwoWords ==
    ASSUME NEW section \in {Receiver, Flush, Correlation, TelemetryApi},
           NEW a, NEW b,
           NEW type \in Types \ {"headers"}, NEW default, Accepts(type, default)
    PROVE  RowOK(<<section, <<a, b>>, type, default>>)
<1> DEFINE words == <<a, b>>
<1>1. words \in Seq({a, b}) /\ Len(words) = 2
  OBVIOUS
<1> HIDE DEF words
<1>2. IsSeq(words) /\ Len(words) >= 1 /\ (Len(words) = 3 /\ words[2] = "queue" => type = "number")
  BY <1>1 DEF IsSeq
<1>3. RowOK(<<section, words, type, default>>)
  BY Zenon, <1>2, OtherField, RowIs
<1> QED
  BY <1>3 DEF words

LEMMA ThreeWords ==
    ASSUME NEW section \in {Receiver, Flush, Correlation, TelemetryApi},
           NEW a, NEW b, NEW c,
           NEW type \in Types \ {"headers"}, NEW default, Accepts(type, default),
           b = "queue" => type = "number"
    PROVE  RowOK(<<section, <<a, b, c>>, type, default>>)
<1> DEFINE words == <<a, b, c>>
<1>1. words \in Seq({a, b, c}) /\ Len(words) = 3 /\ words[2] = b
  OBVIOUS
<1> HIDE DEF words
<1>2. IsSeq(words) /\ Len(words) >= 1 /\ (Len(words) = 3 /\ words[2] = "queue" => type = "number")
  BY <1>1 DEF IsSeq
<1>3. RowOK(<<section, words, type, default>>)
  BY Zenon, <1>2, OtherField, RowIs
<1> QED
  BY <1>3 DEF words

LEMMA FourWords ==
    ASSUME NEW section \in {Receiver, Flush, Correlation, TelemetryApi},
           NEW a, NEW b, NEW c, NEW d,
           NEW type \in Types \ {"headers"}, NEW default, Accepts(type, default)
    PROVE  RowOK(<<section, <<a, b, c, d>>, type, default>>)
<1> DEFINE words == <<a, b, c, d>>
<1>1. words \in Seq({a, b, c, d}) /\ Len(words) = 4
  OBVIOUS
<1> HIDE DEF words
<1>2. IsSeq(words) /\ Len(words) >= 1 /\ (Len(words) = 3 /\ words[2] = "queue" => type = "number")
  BY <1>1 DEF IsSeq
<1>3. RowOK(<<section, words, type, default>>)
  BY Zenon, <1>2, OtherField, RowIs
<1> QED
  BY <1>3 DEF words

LEMMA FiveWords ==
    ASSUME NEW section \in {Receiver, Flush, Correlation, TelemetryApi},
           NEW a, NEW b, NEW c, NEW d, NEW e,
           NEW type \in Types \ {"headers"}, NEW default, Accepts(type, default)
    PROVE  RowOK(<<section, <<a, b, c, d, e>>, type, default>>)
<1> DEFINE words == <<a, b, c, d, e>>
<1>1. words \in Seq({a, b, c, d, e}) /\ Len(words) = 5
  OBVIOUS
<1> HIDE DEF words
<1>2. IsSeq(words) /\ Len(words) >= 1 /\ (Len(words) = 3 /\ words[2] = "queue" => type = "number")
  BY <1>1 DEF IsSeq
<1>3. RowOK(<<section, words, type, default>>)
  BY Zenon, <1>2, OtherField, RowIs
<1> QED
  BY <1>3 DEF words

\* The types of the fields of the other sections.
LEMMA OtherTypes ==
    /\ "number" \in Types \ {"headers"} /\ "flag" \in Types \ {"headers"}
    /\ "port" \in Types \ {"headers"} /\ "strategy" \in Types \ {"headers"}
    /\ "wait" \in Types \ {"headers"}
BY DEF Types

LEMMA ExporterConfigOK == \A row \in ExporterConfig : RowOK(row)
<1> DEFINE n == Number(500)
           a == <<Exporter, <<"endpoint">>, "text", Unset>>
           b == <<Exporter, <<"protocol">>, "protocol", Text("http")>>
           c == <<Exporter, <<"timeout">>, "number", n>>
           d == <<Exporter, <<"compression">>, "compression", Text("gzip")>>
           e == <<Exporter, <<"headers">>, "headers", NoHeaders>>
<1>1. Accepts("number", n)
  BY SMT, DefaultsAccepted
<1> HIDE DEF n
<1>2. RowOK(a)
  BY ExporterField, DefaultsAccepted DEF Types
<1>3. RowOK(b)
  BY ExporterField, DefaultsAccepted DEF Types
<1>4. RowOK(c)
  BY ExporterField, <1>1 DEF Types
<1>5. RowOK(d)
  BY ExporterField, DefaultsAccepted DEF Types
<1>6. RowOK(e)
  BY ExporterField, DefaultsAccepted DEF Types
<1> HIDE DEF a, b, c, d, e
<1>7. \A row \in {a, b, c, d, e} : RowOK(row)
  BY <1>2, <1>3, <1>4, <1>5, <1>6
<1> QED
  BY SMT, <1>7 DEF ExporterConfig, n, a, b, c, d, e

LEMMA ReceiverConfigOK == \A row \in ReceiverConfig : RowOK(row)
<1> DEFINE n == Number(4318)
           a == <<Receiver, <<"http", "port">>, "port", n>>
           b == <<Receiver, <<"http", "enabled">>, "flag", On>>
<1>1. Accepts("port", n)
  BY SMT, PortsAccepted
<1> HIDE DEF n
<1>2. RowOK(a)
  BY TwoWords, <1>1, OtherTypes
<1>3. RowOK(b)
  BY TwoWords, DefaultsAccepted, OtherTypes
<1> HIDE DEF a, b
<1>4. \A row \in {a, b} : RowOK(row)
  BY <1>2, <1>3
<1> QED
  BY SMT, <1>4 DEF ReceiverConfig, n, a, b

LEMMA FlushConfigOK == \A row \in FlushConfig : RowOK(row)
<1> DEFINE n1 == Number(20000)
           n2 == Number(4 * KiB)
           n3 == Number(1000)
           n4 == Number(16 * KiB)
           n5 == Number(4096)
           a == <<Flush, <<"strategy">>, "strategy", Text("default")>>
           b == <<Flush, <<"interval">>, "number", n1>>
           c == <<Flush, <<"max", "batch", "bytes">>, "number", n2>>
           d == <<Flush, <<"max", "batch", "entries">>, "number", n3>>
           e == <<Flush, <<"completion", "wait">>, "wait", Text("auto")>>
           f == <<Flush, <<"max", "queue", "bytes">>, "number", n4>>
           g == <<Flush, <<"max", "queue", "entries">>, "number", n5>>
<1>1. Accepts("number", n1) /\ Accepts("number", n2) /\ Accepts("number", n3) /\ Accepts("number", n4) /\ Accepts("number", n5)
  BY SMT, DefaultsAccepted DEF KiB
<1> HIDE DEF n1, n2, n3, n4, n5
<1>2. RowOK(a)
  BY OneWord, DefaultsAccepted, OtherTypes
<1>3. RowOK(b)
  BY OneWord, <1>1, OtherTypes
<1>4. RowOK(c)
  BY ThreeWords, <1>1, OtherTypes
<1>5. RowOK(d)
  BY ThreeWords, <1>1, OtherTypes
<1>6. RowOK(e)
  BY TwoWords, DefaultsAccepted, OtherTypes
<1>7. RowOK(f)
  BY ThreeWords, <1>1, OtherTypes
<1>8. RowOK(g)
  BY ThreeWords, <1>1, OtherTypes
<1> HIDE DEF a, b, c, d, e, f, g
<1>9. \A row \in {a, b, c, d, e, f, g} : RowOK(row)
  BY <1>2, <1>3, <1>4, <1>5, <1>6, <1>7, <1>8
<1> QED
  BY SMT, <1>9 DEF FlushConfig, n1, n2, n3, n4, n5, a, b, c, d, e, f, g

LEMMA CorrelationConfigOK == \A row \in CorrelationConfig : RowOK(row)
<1> DEFINE n1 == Number(500)
           n2 == Number(50)
           n3 == Number(900000)
           a == <<Correlation, <<"max", "correlation", "delay">>, "number", n1>>
           b == <<Correlation, <<"max", "buffered", "events", "per", "invocation">>, "number", n2>>
           c == <<Correlation, <<"max", "total", "buffered", "events">>, "number", n1>>
           d == <<Correlation, <<"max", "invocation", "lifetime">>, "number", n3>>
           e == <<Correlation, <<"emit", "orphaned", "spans">>, "flag", On>>
<1>1. Accepts("number", n1) /\ Accepts("number", n2) /\ Accepts("number", n3)
  BY SMT, DefaultsAccepted
<1> HIDE DEF n1, n2, n3
<1>2. RowOK(a)
  BY ThreeWords, <1>1, OtherTypes
<1>3. RowOK(b)
  BY FiveWords, <1>1, OtherTypes
<1>4. RowOK(c)
  BY FourWords, <1>1, OtherTypes
<1>5. RowOK(d)
  BY ThreeWords, <1>1, OtherTypes
<1>6. RowOK(e)
  BY ThreeWords, DefaultsAccepted, OtherTypes
<1> HIDE DEF a, b, c, d, e
<1>7. \A row \in {a, b, c, d, e} : RowOK(row)
  BY <1>2, <1>3, <1>4, <1>5, <1>6
<1> QED
  BY SMT, <1>7 DEF CorrelationConfig, n1, n2, n3, a, b, c, d, e

LEMMA TelemetryApiConfigOK == \A row \in TelemetryApiConfig : RowOK(row)
<1> DEFINE n1 == Number(9999)
           n2 == Number(256)
           a == <<TelemetryApi, <<"enabled">>, "flag", On>>
           b == <<TelemetryApi, <<"listener", "port">>, "port", n1>>
           c == <<TelemetryApi, <<"buffer", "size">>, "number", n2>>
<1>1. Accepts("port", n1) /\ Accepts("number", n2)
  BY SMT, PortsAccepted, DefaultsAccepted
<1> HIDE DEF n1, n2
<1>2. RowOK(a)
  BY OneWord, DefaultsAccepted, OtherTypes
<1>3. RowOK(b)
  BY TwoWords, <1>1, OtherTypes
<1>4. RowOK(c)
  BY TwoWords, <1>1, OtherTypes
<1> HIDE DEF a, b, c
<1>5. \A row \in {a, b, c} : RowOK(row)
  BY <1>2, <1>3, <1>4
<1> QED
  BY SMT, <1>5 DEF TelemetryApiConfig, n1, n2, a, b, c

LEMMA ConfigOK == \A row \in Config : RowOK(row)
BY Zenon, ExporterConfigOK, ReceiverConfigOK, FlushConfigOK, CorrelationConfigOK, TelemetryApiConfigOK
   DEF Config

-----------------------------------------------------------------------------
(* Paths and names. *)

\* A path is that of a field, whose type and default are those of its row.
LEMMA PathIs ==
    ASSUME NEW path \in Paths
    PROVE  /\ path = <<path[1], path[2]>>
           /\ FieldOK(path[1], path[2], TypeOf(path), DefaultOf(path))
<1>1. PICK row \in Config : PathOf(row) = path
  BY Zenon DEF Paths
<1>2. RowOf(path) \in Config /\ PathOf(RowOf(path)) = path
  BY Zenon, <1>1 DEF RowOf
<1>3. FieldOK(RowOf(path)[1], RowOf(path)[2], RowOf(path)[3], RowOf(path)[4])
  BY Zenon, <1>2, ConfigOK DEF RowOK
<1>4. path = <<RowOf(path)[1], RowOf(path)[2]>>
  BY Zenon, <1>2 DEF PathOf
<1>5. path[1] = RowOf(path)[1] /\ path[2] = RowOf(path)[2]
  BY <1>4
<1> QED
  BY Zenon, <1>3, <1>4, <1>5 DEF TypeOf, DefaultOf

LEMMA NamedPaths == EndpointPath \in Paths /\ HeadersPath \in Paths /\ ProtocolPath \in Paths
<1>1. /\ <<Exporter, <<"endpoint">>, "text", Unset>> \in Config
      /\ <<Exporter, <<"headers">>, "headers", NoHeaders>> \in Config
      /\ <<Exporter, <<"protocol">>, "protocol", Text("http")>> \in Config
  BY DEF Config, ExporterConfig
<1>2. /\ PathOf(<<Exporter, <<"endpoint">>, "text", Unset>>) = EndpointPath
      /\ PathOf(<<Exporter, <<"headers">>, "headers", NoHeaders>>) = HeadersPath
      /\ PathOf(<<Exporter, <<"protocol">>, "protocol", Text("http")>>) = ProtocolPath
  BY DEF PathOf, EndpointPath, HeadersPath, ProtocolPath
<1> QED
  BY Zenon, <1>1, <1>2 DEF Paths

\* A field of the exporter has one word.
LEMMA ExporterPath ==
    ASSUME NEW path \in Paths, path[1] = Exporter
    PROVE  path = <<Exporter, <<path[2][1]>>>>
<1>1. path = <<path[1], path[2]>> /\ IsSeq(path[2]) /\ Len(path[2]) = 1
  BY Zenon, PathIs DEF FieldOK
<1>2. ASSUME NEW words, IsSeq(words), Len(words) = 1 PROVE words = <<words[1]>>
  BY <1>2 DEF IsSeq
<1> QED
  BY <1>1, <1>2

\* Headers is the one field of its type.
LEMMA HeadersIs ==
    /\ \A path \in Paths : TypeOf(path) = "headers" <=> path = HeadersPath
    /\ DefaultOf(HeadersPath) = Headers(<< >>)
<1>1. /\ HeadersPath[1] = Exporter /\ HeadersPath[2][1] = "headers"
  BY DEF HeadersPath
<1>2. TypeOf(HeadersPath) = "headers" /\ DefaultOf(HeadersPath) = Headers(<< >>)
  BY Zenon, <1>1, PathIs, NamedPaths DEF FieldOK, NoHeaders
<1>3. ASSUME NEW path \in Paths, TypeOf(path) = "headers" PROVE path = HeadersPath
  <2>1. path[1] = Exporter /\ path[2][1] = "headers"
    BY Zenon, PathIs, <1>3 DEF FieldOK
  <2> QED
    BY Zenon, ExporterPath, <2>1 DEF HeadersPath
<1> QED
  BY Zenon, <1>2, <1>3

\* A section is told by its first word.
LEMMA SectionIs ==
    /\ \A s \in CONFIG_SECTIONS : IsSeq(s) /\ Len(s) \in Nat /\ Len(s) >= 1
    /\ \A s, t \in CONFIG_SECTIONS : s[1] = t[1] => s = t
<1>1. /\ IsSeq(Exporter) /\ IsSeq(Receiver) /\ IsSeq(Flush) /\ IsSeq(Correlation)
      /\ IsSeq(TelemetryApi)
  <2>1. /\ Exporter \in Seq({"exporter"}) /\ Receiver \in Seq({"receiver"})
        /\ Flush \in Seq({"flush"}) /\ Correlation \in Seq({"correlation"})
        /\ TelemetryApi \in Seq({"telemetry", "api"})
    BY DEF Exporter, Receiver, Flush, Correlation, TelemetryApi
  <2> QED
    BY Zenon, <2>1 DEF IsSeq
<1>2. /\ Len(Exporter) = 1 /\ Len(Receiver) = 1 /\ Len(Flush) = 1 /\ Len(Correlation) = 1
      /\ Len(TelemetryApi) = 2
      /\ Exporter[1] = "exporter" /\ Receiver[1] = "receiver" /\ Flush[1] = "flush"
      /\ Correlation[1] = "correlation" /\ TelemetryApi[1] = "telemetry"
  BY DEF Exporter, Receiver, Flush, Correlation, TelemetryApi
<1> QED
  BY <1>1, <1>2 DEF CONFIG_SECTIONS

LEMMA PrefixMeans ==
    ASSUME NEW s, NEW t, IsSeq(s), IsSeq(t), Len(s) >= 1, IsStrictPrefix(s, t)
    PROVE  /\ s[1] = t[1] /\ t = s \o SubSeq(t, Len(s) + 1, Len(t))
           /\ IsSeq(SubSeq(t, Len(s) + 1, Len(t)))
<1>1. PICK S : s \in Seq(S)
  BY DEF IsSeq
<1>2. PICK T : t \in Seq(T)
  BY DEF IsSeq
<1>3. /\ Len(s) <= Len(t) /\ SubSeq(s, 1, Len(s)) = SubSeq(t, 1, Len(s))
  BY DEF IsStrictPrefix, IsPrefix
<1>4. Len(s) \in Nat /\ Len(t) \in Nat
  BY <1>1, <1>2
<1>5. \A i \in 1 .. Len(s) : s[i] = t[i]
  <2> SUFFICES ASSUME NEW i \in 1 .. Len(s) PROVE s[i] = t[i]
    OBVIOUS
  <2>1. SubSeq(s, 1, Len(s))[i] = s[i]
    BY <1>1
  <2>2. SubSeq(t, 1, Len(s))[i] = t[i]
    BY <1>2, <1>3, <1>4
  <2> QED
    BY <1>3, <2>1, <2>2
<1> DEFINE rest == SubSeq(t, Len(s) + 1, Len(t))
<1>6. /\ rest \in Seq(T) /\ Len(rest) = Len(t) - Len(s)
      /\ \A i \in 1 .. Len(rest) : rest[i] = t[Len(s) + i]
  BY <1>2, <1>3, <1>4
<1> HIDE DEF rest
<1> DEFINE U == S \cup T
<1>7. t \in Seq(U) /\ s \in Seq(U) /\ rest \in Seq(U)
  BY <1>1, <1>2, <1>6
<1> HIDE DEF U
<1> DEFINE u == s \o rest
<1>8. /\ u \in Seq(U) /\ Len(u) = Len(t)
      /\ \A i \in 1 .. Len(s) : u[i] = s[i]
      /\ \A i \in 1 .. Len(rest) : u[Len(s) + i] = rest[i]
  BY <1>3, <1>4, <1>6, <1>7
<1> HIDE DEF u
<1>9. ASSUME NEW i \in 1 .. Len(t) PROVE u[i] = t[i]
  <2>1. CASE i <= Len(s)
    BY <1>4, <1>5, <1>8, <2>1
  <2>2. CASE i > Len(s)
    <3>1. i - Len(s) \in 1 .. Len(rest) /\ Len(s) + (i - Len(s)) = i
      BY <1>4, <1>6, <2>2
    <3> QED
      BY <1>6, <1>8, <3>1
  <2> QED
    BY <1>4, <2>1, <2>2
<1>10. t = u
  BY <1>7, <1>8, <1>9
<1>11. IsSeq(rest) /\ s[1] = t[1]
  BY <1>4, <1>5, <1>6 DEF IsSeq
<1> QED
  BY Zenon, <1>11, <1>10 DEF rest, u

LEMMA PrefixOfJoined ==
    ASSUME NEW s, NEW w, IsSeq(s), IsSeq(w), Len(w) >= 1
    PROVE  /\ IsSeq(s \o w) /\ IsStrictPrefix(s, s \o w)
           /\ SubSeq(s \o w, Len(s) + 1, Len(s \o w)) = w
<1>1. PICK S : s \in Seq(S)
  BY DEF IsSeq
<1>2. PICK W : w \in Seq(W)
  BY DEF IsSeq
<1> DEFINE T == S \cup W
           t == s \o w
<1>3. s \in Seq(T) /\ w \in Seq(T)
  BY <1>1, <1>2
<1>4. /\ t \in Seq(T) /\ Len(t) = Len(s) + Len(w) /\ Len(s) \in Nat /\ Len(w) \in Nat
      /\ \A i \in 1 .. Len(s) : t[i] = s[i]
      /\ \A i \in 1 .. Len(w) : t[Len(s) + i] = w[i]
  BY <1>3
<1> HIDE DEF t, T
<1>5. SubSeq(t, 1, Len(s)) = SubSeq(s, 1, Len(s))
  <2>1. /\ SubSeq(t, 1, Len(s)) \in Seq(T) /\ SubSeq(s, 1, Len(s)) \in Seq(T)
        /\ Len(SubSeq(t, 1, Len(s))) = Len(s) /\ Len(SubSeq(s, 1, Len(s))) = Len(s)
    BY <1>3, <1>4
  <2>2. \A i \in 1 .. Len(s) : SubSeq(t, 1, Len(s))[i] = SubSeq(s, 1, Len(s))[i]
    BY <1>3, <1>4
  <2> QED
    BY <2>1, <2>2
<1>6. s # t
  BY <1>4
<1>7. SubSeq(t, Len(s) + 1, Len(t)) = w
  <2> DEFINE r == SubSeq(t, Len(s) + 1, Len(t))
  <2>1. r \in Seq(T) /\ Len(r) = Len(w)
    BY <1>4
  <2>2. \A i \in 1 .. Len(w) : r[i] = w[i]
    BY <1>4
  <2> HIDE DEF r
  <2>3. r = w
    BY <1>3, <2>1, <2>2
  <2> QED
    BY <2>3 DEF r
<1>8. IsSeq(t) /\ IsStrictPrefix(s, t)
  BY <1>4, <1>5, <1>6 DEF IsSeq, IsStrictPrefix, IsPrefix
<1> QED
  BY <1>7, <1>8 DEF t

\* At most one section begins a name.
LEMMA OneSection ==
    ASSUME NEW name, IsSeq(name), NEW s \in CONFIG_SECTIONS, NEW t \in CONFIG_SECTIONS,
           IsStrictPrefix(s, name), IsStrictPrefix(t, name)
    PROVE  s = t
<1>1. s[1] = name[1] /\ t[1] = name[1]
  BY PrefixMeans, SectionIs
<1> QED
  BY <1>1, SectionIs

\* The key of a name is the path of a field just when the name is that of the field, and
\* that of a section just when the name is that of the section (prefixed_env).
LEMMA KeyMeans ==
    ASSUME NEW name, IsSeq(name)
    PROVE  /\ \A path \in Paths : KeyOf(name) = path <=> name = path[1] \o path[2]
           /\ \A section \in CONFIG_SECTIONS : KeyOf(name) = <<section>> => name = section
<1> DEFINE named == \E section \in CONFIG_SECTIONS : IsStrictPrefix(section, name)
           s == CHOOSE s \in CONFIG_SECTIONS : IsStrictPrefix(s, name)
           rest == SubSeq(name, Len(s) + 1, Len(name))
<1>1. CASE named
  <2>1. s \in CONFIG_SECTIONS /\ IsStrictPrefix(s, name)
    BY Zenon, <1>1
  <2>2. KeyOf(name) = <<s, rest>>
    BY Zenon, <1>1 DEF KeyOf
  <2>3. name = s \o rest
    BY <2>1, SectionIs, PrefixMeans
  <2> HIDE DEF s, rest
  <2>4. ASSUME NEW path \in Paths, KeyOf(name) = path PROVE name = path[1] \o path[2]
    BY <2>2, <2>3, <2>4
  <2>5. ASSUME NEW path \in Paths, name = path[1] \o path[2] PROVE KeyOf(name) = path
    <3>1. /\ path = <<path[1], path[2]>> /\ path[1] \in CONFIG_SECTIONS
          /\ IsSeq(path[2]) /\ Len(path[2]) >= 1
      BY Zenon, PathIs DEF FieldOK
    <3>2. /\ IsStrictPrefix(path[1], name)
          /\ SubSeq(name, Len(path[1]) + 1, Len(name)) = path[2]
      BY Zenon, <2>5, <3>1, SectionIs, PrefixOfJoined
    <3>3. path[1] = s
      BY Zenon, <2>1, <3>1, <3>2, OneSection
    <3> QED
      BY Zenon, <2>2, <3>1, <3>2, <3>3 DEF rest
  <2>6. ASSUME NEW section PROVE KeyOf(name) # <<section>>
    BY <2>2
  <2> QED
    BY Zenon, <2>4, <2>5, <2>6
<1>2. CASE ~named
  <2>1. KeyOf(name) = <<name>>
    BY Zenon, <1>2 DEF KeyOf
  <2>2. ASSUME NEW path \in Paths PROVE KeyOf(name) # path
    <3>1. path = <<path[1], path[2]>>
      BY Zenon, PathIs
    <3> QED
      BY <2>1, <3>1
  <2>3. ASSUME NEW path \in Paths PROVE name # path[1] \o path[2]
    <3>1. /\ path[1] \in CONFIG_SECTIONS /\ IsSeq(path[2]) /\ Len(path[2]) >= 1
      BY Zenon, PathIs DEF FieldOK
    <3>2. IsStrictPrefix(path[1], path[1] \o path[2])
      BY Zenon, <3>1, SectionIs, PrefixOfJoined
    <3> QED
      BY Zenon, <1>2, <3>1, <3>2
  <2>4. ASSUME NEW section, KeyOf(name) = <<section>> PROVE name = section
    BY <2>1, <2>4
  <2> QED
    BY Zenon, <2>2, <2>3, <2>4
<1> QED
  BY Zenon, <1>1, <1>2

-----------------------------------------------------------------------------
(* Values. *)

\* A table is read where headers are, and nowhere else.
LEMMA TablesAreHeaders ==
    ASSUME NEW type \in Types, NEW value, value.kind = "headers"
    PROVE  Accepts(type, value) <=> type = "headers"
BY DEF Accepts, Types

\* Two tables are merged to a table; everything else is replaced.
LEMMA MergedOrReplaced ==
    ASSUME NEW old, NEW new
    PROVE  \/ MergeValue(old, new) = new
           \/ old.kind = "headers" /\ new.kind = "headers" /\ MergeValue(old, new).kind = "headers"
<1>1. CASE old.kind = "headers" /\ new.kind = "headers"
  <2>1. \A is : Headers(is).kind = "headers"
    BY DEF Headers
  <2> QED
    BY Zenon, <1>1, <2>1 DEF MergeValue
<1>2. CASE ~(old.kind = "headers" /\ new.kind = "headers")
  BY Zenon, <1>2 DEF MergeValue
<1> QED
  BY <1>1, <1>2

\* A merge acts on every path for itself.
Covers(all) == Paths \subseteq DOMAIN all

IsMerge(all, old, new) ==
    /\ DOMAIN all = DOMAIN old \cup DOMAIN new
    /\ \A path \in Paths :
          /\ path \notin DOMAIN new => all[path] = old[path]
          /\ path \in DOMAIN new => all[path] = MergeValue(old[path], new[path])

LEMMA MergeIs ==
    ASSUME NEW old, NEW new, Covers(old)
    PROVE  Covers(Merge(old, new)) /\ IsMerge(Merge(old, new), old, new)
<1> DEFINE D == DOMAIN old \cup DOMAIN new
           value(path) == IF path \notin DOMAIN new THEN old[path]
                          ELSE IF path \notin DOMAIN old THEN new[path]
                          ELSE MergeValue(old[path], new[path])
<1>1. Merge(old, new) = [path \in D |-> value(path)]
  BY DEF Merge
<1>2. /\ \A path \in Paths : path \notin DOMAIN new => value(path) = old[path]
      /\ \A path \in Paths : path \in DOMAIN new => value(path) = MergeValue(old[path], new[path])
  BY DEF Covers
<1>3. Paths \subseteq D
  BY DEF Covers
<1> HIDE DEF value
<1>4. DOMAIN Merge(old, new) = D /\ \A path \in D : Merge(old, new)[path] = value(path)
  BY <1>1
<1> QED
  BY Zenon, <1>2, <1>3, <1>4 DEF Covers, IsMerge

\* Every default is of its field's type, but for the endpoint, which is unset.
LEMMA DefaultIs ==
    ASSUME NEW memory, NEW path \in Paths
    PROVE  LET default == Defaults(memory)[path]
           IN  /\ Accepts(TypeOf(path), default) \/ (path = EndpointPath /\ default = Unset)
               /\ path = HeadersPath => default = Headers(<< >>)
<1> DEFINE queue == <<Flush, <<"max", "queue", "bytes">>>>
           bytes == Number(DefaultMaxQueueBytes(memory))
<1>1. FieldOK(path[1], path[2], TypeOf(path), DefaultOf(path))
  BY Zenon, PathIs
<1>2. CASE path = queue
  <2>1. Defaults(memory)[path] = bytes
    BY Zenon, <1>2 DEF Defaults
  <2>2. Len(path[2]) = 3 /\ path[2][2] = "queue" /\ path[1] = Flush
    BY <1>2
  <2>3. TypeOf(path) = "number"
    BY Zenon, <1>1, <2>2 DEF FieldOK
  <2>4. Accepts("number", bytes)
    BY SMT DEF Accepts, Number
  <2>5. path # HeadersPath
    <3>1. HeadersPath[1] = Exporter
      BY DEF HeadersPath
    <3> QED
      BY <2>2, <3>1, SectionsDiffer
  <2> HIDE DEF bytes
  <2> QED
    BY Zenon, <2>1, <2>3, <2>4, <2>5
<1>3. CASE path # queue
  <2>1. Defaults(memory)[path] = DefaultOf(path)
    BY Zenon, <1>3 DEF Defaults
  <2>2. path[1] = Exporter /\ path[2][1] = "endpoint" => path = EndpointPath
    BY Zenon, ExporterPath DEF EndpointPath
  <2> QED
    BY Zenon, <1>1, <2>1, <2>2, HeadersIs DEF FieldOK
<1> QED
  BY Zenon, <1>2, <1>3

-----------------------------------------------------------------------------
(* The inductive invariant: what is merged at each step is a function of the sources. *)

Readable(src) == src.file.exists => src.file.valid

WithFile(src) ==
    IF src.file.exists THEN Merge(Defaults(src.memory), src.file.values) ELSE Defaults(src.memory)

WithOtel(src) == Merge(WithFile(src), StandardOtelEnv(src.otel))

Keys(src) == {KeyOf(v.name) : v \in src.prefixed}

\* What a variable that is named after a section leaves.
Outside(keys, old) == [path \in {p \in DOMAIN old : <<p[1]>> \notin keys} |-> old[path]]

Values(src) == [k \in Keys(src) |-> (CHOOSE v \in src.prefixed : KeyOf(v.name) = k).value]

WithPrefixed(src) == Merge(Outside(Keys(src), WithOtel(src)), Values(src))

Extractable(all) ==
    /\ \A section \in CONFIG_SECTIONS : <<section>> \notin DOMAIN all
    /\ \A path \in Paths \cap DOMAIN all :
          \/ path = EndpointPath /\ all[path] = Unset
          \/ Accepts(TypeOf(path), all[path])

Extracted(all) == IF Extractable(all) THEN [path \in Paths |-> all[path]] ELSE << >>

SourcesOK(src) ==
    /\ src.file \in Files /\ src.otel \in OtelEnvs /\ src.memory \in Memory /\ src.prefixed \in Prefixed
    /\ \A v, w \in src.prefixed : v # w => v.name # w.name

\* An exporter is made, or refused, of what was loaded.
ExporterOK ==
    exporter # "none" => Loaded /\ (exporter = "refused" => loaded[ProtocolPath].is # "http")

ConfigInv ==
    /\ SourcesOK(sources) /\ ExporterOK
    /\ \/ step = "file" /\ figment = Defaults(sources.memory) /\ loaded = << >>
       \/ step = "otel" /\ Readable(sources) /\ figment = WithFile(sources) /\ loaded = << >>
       \/ step = "prefixed" /\ Readable(sources) /\ figment = WithOtel(sources) /\ loaded = << >>
       \/ step = "extract" /\ Readable(sources) /\ figment = WithPrefixed(sources) /\ loaded = << >>
       \/ step = "done" /\ Readable(sources) /\ loaded = Extracted(WithPrefixed(sources))
       \/ step = "done" /\ ~Readable(sources) /\ loaded = << >>

LEMMA InitEstablishesConfigInv == ConfigInit => ConfigInv
<1> SUFFICES ASSUME ConfigInit PROVE ConfigInv
  OBVIOUS
<1>1. /\ sources.file \in Files /\ sources.otel \in OtelEnvs /\ sources.memory \in Memory
      /\ sources.prefixed \in Prefixed
  BY DEF ConfigInit
<1> QED
  BY Zenon, <1>1 DEF ConfigInit, ConfigInv, SourcesOK, ExporterOK

LEMMA StepPreservesConfigInv == ConfigInv /\ [ConfigNext]_configVars => ConfigInv'
<1> SUFFICES ASSUME ConfigInv, [ConfigNext]_configVars PROVE ConfigInv'
  OBVIOUS
<1>0. ASSUME MergeFile \/ MergeOtel \/ MergePrefixed \/ Extract PROVE ExporterOK'
  <2>1. exporter' = exporter /\ step # "done"
    BY <1>0 DEF MergeFile, MergeOtel, MergePrefixed, Extract
  <2>2. exporter = "none"
    BY <2>1 DEF ConfigInv, ExporterOK, Loaded
  <2> QED
    BY Zenon, <2>1, <2>2 DEF ExporterOK
<1>1. CASE MergeFile
  <2>1. step = "file" /\ figment = Defaults(sources.memory) /\ loaded = << >>
    BY <1>1 DEF ConfigInv, MergeFile
  <2>2. CASE sources.file.exists /\ ~sources.file.valid
    BY Zenon, <1>0, <1>1, <2>1, <2>2 DEF ConfigInv, MergeFile, Readable
  <2>3. CASE ~(sources.file.exists /\ ~sources.file.valid)
    BY Zenon, <1>0, <1>1, <2>1, <2>3 DEF ConfigInv, MergeFile, Readable, WithFile
  <2> QED
    BY <2>2, <2>3
<1>2. CASE MergeOtel
  <2>1. step = "otel" /\ Readable(sources) /\ figment = WithFile(sources) /\ loaded = << >>
    BY <1>2 DEF ConfigInv, MergeOtel
  <2> QED
    BY Zenon, <1>0, <1>2, <2>1 DEF ConfigInv, MergeOtel, WithOtel
<1>3. CASE MergePrefixed
  <2>1. step = "prefixed" /\ Readable(sources) /\ figment = WithOtel(sources) /\ loaded = << >>
    BY <1>3 DEF ConfigInv, MergePrefixed
  <2>2. figment' = WithPrefixed(sources)
    BY Zenon, <1>3, <2>1 DEF MergePrefixed, WithPrefixed, Outside, Values, Keys
  <2> QED
    BY Zenon, <1>0, <1>3, <2>1, <2>2 DEF ConfigInv, MergePrefixed
<1>4. CASE Extract
  <2>1. step = "extract" /\ Readable(sources) /\ figment = WithPrefixed(sources)
    BY <1>4 DEF ConfigInv, Extract
  <2>2. loaded' = Extracted(figment)
    BY Zenon, <1>4 DEF Extract, Extracted, Extractable
  <2> QED
    BY Zenon, <1>0, <1>4, <2>1, <2>2 DEF ConfigInv, Extract
<1>5. CASE NewExporter
  <2>1. Loaded' /\ (exporter' = "refused" => loaded'[ProtocolPath].is # "http")
    BY <1>5 DEF NewExporter, Loaded
  <2>2. ExporterOK'
    BY Zenon, <2>1 DEF ExporterOK
  <2> QED
    BY Zenon, <1>5, <2>2 DEF ConfigInv, NewExporter
<1>6. CASE UNCHANGED configVars
  BY Zenon, <1>6 DEF ConfigInv, ExporterOK, Loaded, configVars
<1> QED
  BY <1>1, <1>2, <1>3, <1>4, <1>5, <1>6 DEF ConfigNext

\* After each source the configuration is what the sources so far make of the defaults,
\* whatever they are, a load that has ended read them all or found the file unreadable, and
\* an exporter is made or refused only of what was loaded.
THEOREM ConfigInvariant == ConfigSpec => []ConfigInv
BY InitEstablishesConfigInv, StepPreservesConfigInv, PTL DEF ConfigSpec

-----------------------------------------------------------------------------
(* What the sources say of one field. *)

\* What the file leaves of a field.
LEMMA WithFileIs ==
    ASSUME SourcesOK(sources)
    PROVE  /\ DOMAIN WithFile(sources) = Paths
           /\ \A path \in Paths :
                 WithFile(sources)[path] = IF InFile(path)
                                           THEN MergeValue(Defaults(sources.memory)[path],
                                                           sources.file.values[path])
                                           ELSE Defaults(sources.memory)[path]
<1> DEFINE old == Defaults(sources.memory)
           new == sources.file.values
<1>1. DOMAIN old = Paths
  BY DEF Defaults
<1>2. DOMAIN new \subseteq Paths
  BY Zenon, ConfigAssumption DEF SourcesOK, FilesOK
<1> HIDE DEF old, new
<1>3. CASE sources.file.exists
  <2>1. WithFile(sources) = Merge(old, new)
    BY Zenon, <1>3 DEF WithFile, old, new
  <2>2. \A path \in Paths : InFile(path) <=> path \in DOMAIN new
    BY Zenon, <1>3 DEF InFile, new
  <2>3. /\ DOMAIN Merge(old, new) = Paths
        /\ \A path \in Paths :
              Merge(old, new)[path] = IF path \in DOMAIN new THEN MergeValue(old[path], new[path])
                                                             ELSE old[path]
    <3>0. Covers(old)
      BY <1>1 DEF Covers
    <3>1. DOMAIN old \cup DOMAIN new = Paths
      BY <1>1, <1>2
    <3>2. IsMerge(Merge(old, new), old, new)
      BY Zenon, <3>0, MergeIs
    <3> QED
      BY Zenon, <3>1, <3>2 DEF IsMerge
  <2> QED
    BY Zenon, <2>1, <2>2, <2>3 DEF old, new
<1>4. CASE ~sources.file.exists
  <2>1. WithFile(sources) = old
    BY Zenon, <1>4 DEF WithFile, old
  <2>2. \A path \in Paths : ~InFile(path)
    BY Zenon, <1>4 DEF InFile
  <2> QED
    BY Zenon, <1>1, <2>1, <2>2 DEF old
<1> QED
  BY Zenon, <1>3, <1>4

\* The fields of the exporter that the OTEL_ variables set.
OtelKnown(field) ==
    /\ InOtel(field)
    /\ field = "protocol" => KnownProtocol(sources.otel.protocol) # ""
    /\ field = "compression" => sources.otel.compression \in Words("compression")
    /\ field = "headers" => DOMAIN HeaderPairs(sources.otel.headers) # {}

LEMMA OtelEnvIs ==
    ASSUME SourcesOK(sources)
    PROVE  /\ \A path \in DOMAIN StandardOtelEnv(sources.otel) :
                 \E field : OtelKnown(field) /\ path = <<Exporter, <<field>>>>
           /\ \A field : OtelKnown(field) =>
                 /\ field \in {"endpoint", "protocol", "compression", "headers"}
                 /\ <<Exporter, <<field>>>> \in DOMAIN StandardOtelEnv(sources.otel)
                 /\ StandardOtelEnv(sources.otel)[<<Exporter, <<field>>>>]
                       = OtelValue(sources.otel, field)
<1> DEFINE otel == sources.otel
           known == {field \in DOMAIN otel : OtelKnown(field)}
           at(field) == <<Exporter, <<field>>>>
           paths == {at(field) : field \in known}
<1>1. StandardOtelEnv(otel) = [path \in paths |-> OtelValue(otel, path[2][1])]
  BY Zenon DEF StandardOtelEnv, OtelKnown, InOtel
<1>2. \A field : OtelKnown(field) => field \in known
  BY Zenon DEF OtelKnown, InOtel
<1>3. DOMAIN otel \subseteq {"endpoint", "protocol", "compression", "headers"}
  BY Zenon, ConfigAssumption DEF SourcesOK, OtelOK
<1>4. \A field : at(field)[2][1] = field
  OBVIOUS
<1> HIDE DEF otel, at
<1>5. \A path \in paths : \E field : OtelKnown(field) /\ path = at(field)
  BY Zenon
<1>6. \A field : OtelKnown(field) =>
         field \in {"endpoint", "protocol", "compression", "headers"} /\ at(field) \in paths
  BY Zenon, <1>2, <1>3
<1> HIDE DEF paths, known
<1>7. DOMAIN StandardOtelEnv(otel) = paths
  BY Zenon, <1>1
<1>8. \A field : OtelKnown(field) => StandardOtelEnv(otel)[at(field)] = OtelValue(otel, field)
  BY Zenon, <1>1, <1>4, <1>6
<1> QED
  BY Zenon, <1>5, <1>6, <1>7, <1>8 DEF otel, at

LEMMA WithOtelIs ==
    ASSUME SourcesOK(sources)
    PROVE  /\ DOMAIN WithOtel(sources) = Paths
           /\ \A path \in Paths :
                 /\ path \notin DOMAIN StandardOtelEnv(sources.otel) =>
                       WithOtel(sources)[path] = WithFile(sources)[path]
                 /\ path \in DOMAIN StandardOtelEnv(sources.otel) =>
                       WithOtel(sources)[path] = MergeValue(WithFile(sources)[path],
                                                            StandardOtelEnv(sources.otel)[path])
<1> DEFINE old == WithFile(sources)
           new == StandardOtelEnv(sources.otel)
<1>1. DOMAIN old = Paths
  BY Zenon, WithFileIs
<1>2. DOMAIN new \subseteq Paths
  <2>1. /\ <<Exporter, <<"endpoint">>, "text", Unset>> \in Config
        /\ <<Exporter, <<"protocol">>, "protocol", Text("http")>> \in Config
        /\ <<Exporter, <<"compression">>, "compression", Text("gzip")>> \in Config
        /\ <<Exporter, <<"headers">>, "headers", NoHeaders>> \in Config
    BY DEF Config, ExporterConfig
  <2>2. \A a, b, c, d : PathOf(<<a, b, c, d>>) = <<a, b>>
    BY DEF PathOf
  <2>3. \A field \in {"endpoint", "protocol", "compression", "headers"} :
           <<Exporter, <<field>>>> \in Paths
    BY Zenon, <2>1, <2>2 DEF Paths
  <2> QED
    BY Zenon, <2>3, OtelEnvIs
<1>3. WithOtel(sources) = Merge(old, new)
  BY Zenon DEF WithOtel
<1> HIDE DEF old, new
<1>4. /\ DOMAIN Merge(old, new) = Paths
      /\ \A path \in Paths :
            /\ path \notin DOMAIN new => Merge(old, new)[path] = old[path]
            /\ path \in DOMAIN new => Merge(old, new)[path] = MergeValue(old[path], new[path])
  <2>0. Covers(old)
    BY <1>1 DEF Covers
  <2>1. DOMAIN old \cup DOMAIN new = Paths
    BY <1>1, <1>2
  <2>2. IsMerge(Merge(old, new), old, new)
    BY Zenon, <2>0, MergeIs
  <2> QED
    BY Zenon, <2>1, <2>2 DEF IsMerge
<1> QED
  BY Zenon, <1>3, <1>4 DEF old, new

\* A variable counts for the field it names, and for no other.
LEMMA ValuesAre ==
    ASSUME SourcesOK(sources)
    PROVE  /\ DOMAIN Values(sources) = Keys(sources)
           /\ \A path \in Paths : path \in Keys(sources) <=> VariableOf(path) # {}
           /\ \A path \in Paths : \A v \in VariableOf(path) : Values(sources)[path] = v.value
           /\ \A section \in CONFIG_SECTIONS :
                 <<section>> \in Keys(sources) => \E v \in sources.prefixed : v.name = section
<1> DEFINE variables == sources.prefixed
<1>1. \A v \in variables : IsSeq(v.name)
  BY Zenon, ConfigAssumption DEF SourcesOK, PrefixedOK, IsSeq
<1>2. \A path \in Paths : \A v \in variables : KeyOf(v.name) = path <=> v.name = path[1] \o path[2]
  BY Zenon, <1>1, KeyMeans
<1>3. \A section \in CONFIG_SECTIONS : \A v \in variables : KeyOf(v.name) = <<section>> => v.name = section
  BY Zenon, <1>1, KeyMeans
<1>4. \A path \in Paths : path \in Keys(sources) <=> VariableOf(path) # {}
  BY Zenon, <1>2 DEF Keys, VariableOf
<1>5. \A v, w \in variables : v.name = w.name => v = w
  BY Zenon DEF SourcesOK
<1>6. DOMAIN Values(sources) = Keys(sources)
  BY Zenon DEF Values
<1>7. ASSUME NEW path \in Paths, NEW v \in VariableOf(path) PROVE Values(sources)[path] = v.value
  <2> DEFINE chosen == CHOOSE w \in variables : KeyOf(w.name) = path
  <2>1. v \in variables /\ v.name = path[1] \o path[2]
    BY Zenon, <1>7 DEF VariableOf
  <2>2. KeyOf(v.name) = path
    BY Zenon, <1>2, <2>1
  <2>3. chosen \in variables /\ KeyOf(chosen.name) = path
    BY Zenon, <2>1, <2>2
  <2>4. path \in Keys(sources)
    BY Zenon, <2>1, <2>2 DEF Keys
  <2>5. Values(sources)[path] = chosen.value
    BY Zenon, <2>4 DEF Values
  <2> HIDE DEF chosen
  <2>6. chosen.name = path[1] \o path[2]
    BY Zenon, <1>2, <2>3
  <2>7. chosen = v
    BY Zenon, <1>5, <2>1, <2>3, <2>6
  <2> QED
    BY Zenon, <2>5, <2>7
<1>8. \A section \in CONFIG_SECTIONS : <<section>> \in Keys(sources) => \E v \in variables : v.name = section
  BY Zenon, <1>3 DEF Keys
<1> QED
  BY Zenon, <1>4, <1>6, <1>7, <1>8

\* Unless a variable is named after a section, all fields are there, and a variable has
\* the last word on its field.
LEMMA WithPrefixedIs ==
    ASSUME SourcesOK(sources), \A section \in CONFIG_SECTIONS : <<section>> \notin Keys(sources)
    PROVE  /\ Paths \subseteq DOMAIN WithPrefixed(sources)
           /\ \A path \in Paths :
                 /\ VariableOf(path) = {} => WithPrefixed(sources)[path] = WithOtel(sources)[path]
                 /\ \A v \in VariableOf(path) :
                       WithPrefixed(sources)[path] = MergeValue(WithOtel(sources)[path], v.value)
<1> DEFINE all == WithOtel(sources)
           old == Outside(Keys(sources), all)
           new == Values(sources)
<1>1. DOMAIN all = Paths
  BY Zenon, WithOtelIs
<1>2. \A path \in Paths : <<path[1]>> \notin Keys(sources)
  BY Zenon, PathIs DEF FieldOK
<1>3. Paths \subseteq DOMAIN old /\ \A path \in Paths : old[path] = all[path]
  BY Zenon, <1>1, <1>2 DEF Outside
<1>4. WithPrefixed(sources) = Merge(old, new)
  BY Zenon DEF WithPrefixed
<1>5. /\ \A path \in Paths : path \in DOMAIN new <=> VariableOf(path) # {}
      /\ \A path \in Paths : \A v \in VariableOf(path) : new[path] = v.value
  BY Zenon, ValuesAre
<1> HIDE DEF old, new, all
<1>6. /\ Paths \subseteq DOMAIN Merge(old, new)
      /\ \A path \in Paths :
            /\ path \notin DOMAIN new => Merge(old, new)[path] = all[path]
            /\ path \in DOMAIN new => Merge(old, new)[path] = MergeValue(all[path], new[path])
  <2>1. Covers(old)
    BY Zenon, <1>3 DEF Covers
  <2>2. Covers(Merge(old, new)) /\ IsMerge(Merge(old, new), old, new)
    BY Zenon, <2>1, MergeIs
  <2> QED
    BY Zenon, <1>3, <2>2 DEF Covers, IsMerge
<1>7. ASSUME NEW path \in Paths, VariableOf(path) = {} PROVE WithPrefixed(sources)[path] = all[path]
  BY Zenon, <1>4, <1>5, <1>6, <1>7
<1>8. ASSUME NEW path \in Paths, NEW v \in VariableOf(path)
      PROVE  WithPrefixed(sources)[path] = MergeValue(all[path], v.value)
  <2>1. VariableOf(path) # {}
    BY Zenon, <1>8
  <2> QED
    BY Zenon, <1>4, <1>5, <1>6, <2>1
<1> QED
  BY Zenon, <1>4, <1>6, <1>7, <1>8 DEF all

-----------------------------------------------------------------------------
(* What a load that succeeds has read. *)

LEMMA LoadedIs ==
    ASSUME ConfigInv, Loaded
    PROVE  /\ SourcesOK(sources)
           /\ \A section \in CONFIG_SECTIONS : <<section>> \notin Keys(sources)
           /\ \A path \in Paths :
                 /\ loaded[path] = WithPrefixed(sources)[path]
                 /\ \/ Accepts(TypeOf(path), loaded[path])
                    \/ path = EndpointPath /\ loaded[path] = Unset
<1> DEFINE all == WithPrefixed(sources)
<1>1. SourcesOK(sources)
  BY Zenon DEF ConfigInv
<1>2. loaded = Extracted(all) /\ loaded # << >>
  BY DEF ConfigInv, Loaded
<1> HIDE DEF all
<1>3. Extractable(all) /\ loaded = [path \in Paths |-> all[path]]
  BY Zenon, <1>2 DEF Extracted
<1>4. \A section \in CONFIG_SECTIONS : <<section>> \notin DOMAIN all
  BY Zenon, <1>3 DEF Extractable
<1>5. Keys(sources) \subseteq DOMAIN all
  <2>1. DOMAIN Values(sources) = Keys(sources)
    BY Zenon, <1>1, ValuesAre
  <2>2. DOMAIN all = DOMAIN Outside(Keys(sources), WithOtel(sources)) \cup DOMAIN Values(sources)
    BY DEF all, WithPrefixed, Merge
  <2> QED
    BY <2>1, <2>2
<1>6. \A section \in CONFIG_SECTIONS : <<section>> \notin Keys(sources)
  BY Zenon, <1>4, <1>5
<1>7. Paths \subseteq DOMAIN all
  BY Zenon, <1>1, <1>6, WithPrefixedIs DEF all
<1>8. \A path \in Paths : loaded[path] = all[path]
  BY Zenon, <1>3
<1>9. ASSUME NEW path \in Paths
      PROVE  Accepts(TypeOf(path), all[path]) \/ (path = EndpointPath /\ all[path] = Unset)
  <2>1. path \in Paths \cap DOMAIN all
    BY <1>7
  <2> QED
    BY Zenon, <1>3, <2>1 DEF Extractable
<1> QED
  BY Zenon, <1>1, <1>6, <1>8, <1>9 DEF all

\* No field but the headers is read from a table, so that what was merged last is read.
LEMMA NoTable ==
    ASSUME ConfigInv, Loaded, NEW path \in Paths
    PROVE  loaded[path].kind = "headers" <=> path = HeadersPath
<1> DEFINE value == loaded[path]
           type == TypeOf(path)
<1>1. Accepts(type, value) \/ (path = EndpointPath /\ value = Unset)
  BY Zenon, LoadedIs
<1>2. type \in Types /\ (type = "headers" <=> path = HeadersPath)
  BY Zenon, PathIs, HeadersIs DEF FieldOK
<1>3. EndpointPath # HeadersPath /\ Unset.kind # "headers"
  BY DEF EndpointPath, HeadersPath, Unset, Text
<1>4. type = "headers" /\ Accepts(type, value) => value.kind = "headers"
  BY DEF Accepts
<1>5. type # "headers" /\ Accepts(type, value) => value.kind # "headers"
  BY Zenon, <1>2, TablesAreHeaders
<1> HIDE DEF value, type
<1>6. CASE path = HeadersPath
  <2>1. Accepts(type, value)
    BY Zenon, <1>1, <1>3, <1>6
  <2>2. value.kind = "headers"
    BY Zenon, <1>2, <1>4, <1>6, <2>1
  <2> QED
    BY Zenon, <1>6, <2>2 DEF value
<1>7. CASE path # HeadersPath
  <2>1. value.kind # "headers"
    BY Zenon, <1>1, <1>2, <1>3, <1>5, <1>7
  <2> QED
    BY Zenon, <1>7, <2>1 DEF value
<1> QED
  BY Zenon, <1>6, <1>7

\* Any other field has the value of the highest source that has one.
LEMMA LastSourceIsRead ==
    ASSUME ConfigInv, Loaded, NEW path \in Paths, path # HeadersPath
    PROVE  /\ \A v \in VariableOf(path) : loaded[path] = v.value
           /\ VariableOf(path) = {} =>
                 IF path \in DOMAIN StandardOtelEnv(sources.otel)
                 THEN loaded[path] = StandardOtelEnv(sources.otel)[path]
                 ELSE loaded[path] = IF InFile(path) THEN sources.file.values[path]
                                                     ELSE Defaults(sources.memory)[path]
<1> DEFINE value == loaded[path]
           env == StandardOtelEnv(sources.otel)
           withOtel == WithOtel(sources)[path]
           withFile == WithFile(sources)[path]
           default == Defaults(sources.memory)[path]
<1>1. SourcesOK(sources) /\ value = WithPrefixed(sources)[path]
  BY Zenon, LoadedIs
<1>2. /\ VariableOf(path) = {} => value = withOtel
      /\ \A v \in VariableOf(path) : value = MergeValue(withOtel, v.value)
  BY Zenon, <1>1, LoadedIs, WithPrefixedIs
<1>3. /\ path \notin DOMAIN env => withOtel = withFile
      /\ path \in DOMAIN env => withOtel = MergeValue(withFile, env[path])
  BY Zenon, <1>1, WithOtelIs
<1>4. withFile = IF InFile(path) THEN MergeValue(default, sources.file.values[path]) ELSE default
  BY Zenon, <1>1, WithFileIs
<1>5. value.kind # "headers"
  BY Zenon, NoTable
<1> HIDE DEF value, env, withOtel, withFile, default
<1>6. \A old, new : value = MergeValue(old, new) => value = new
  BY Zenon, <1>5, MergedOrReplaced
<1>7. \A v \in VariableOf(path) : value = v.value
  BY Zenon, <1>2, <1>6
<1>8. ASSUME VariableOf(path) = {}, path \in DOMAIN env PROVE value = env[path]
  BY Zenon, <1>2, <1>3, <1>6, <1>8
<1>9. ASSUME VariableOf(path) = {}, path \notin DOMAIN env
      PROVE  value = IF InFile(path) THEN sources.file.values[path] ELSE default
  <2>1. value = withFile
    BY Zenon, <1>2, <1>3, <1>9
  <2>2. CASE InFile(path)
    BY Zenon, <1>4, <1>6, <2>1, <2>2
  <2>3. CASE ~InFile(path)
    BY Zenon, <1>4, <2>1, <2>3
  <2> QED
    BY Zenon, <2>2, <2>3
<1> QED
  BY Zenon, <1>7, <1>8, <1>9 DEF value, env, default

\* What the OTEL_ variables say of a field.
LEMMA OtelSaysOf ==
    ASSUME SourcesOK(sources), NEW path \in Paths
    PROVE  /\ path[1] # Exporter => path \notin DOMAIN StandardOtelEnv(sources.otel)
           /\ path[1] = Exporter =>
                 /\ path \in DOMAIN StandardOtelEnv(sources.otel) <=> OtelKnown(path[2][1])
                 /\ OtelKnown(path[2][1]) =>
                       StandardOtelEnv(sources.otel)[path] = OtelValue(sources.otel, path[2][1])
<1> DEFINE env == StandardOtelEnv(sources.otel)
           at(field) == <<Exporter, <<field>>>>
<1>1. /\ \A p \in DOMAIN env : \E field : OtelKnown(field) /\ p = at(field)
      /\ \A field : OtelKnown(field) =>
            at(field) \in DOMAIN env /\ env[at(field)] = OtelValue(sources.otel, field)
  BY Zenon, OtelEnvIs
<1>2. path[1] = Exporter => path = at(path[2][1])
  BY Zenon, ExporterPath
<1> HIDE DEF env, at
<1>3. ASSUME path \in DOMAIN env PROVE path[1] = Exporter /\ OtelKnown(path[2][1])
  <2>1. PICK field : OtelKnown(field) /\ path = at(field)
    BY Zenon, <1>1, <1>3
  <2>2. path[1] = Exporter /\ path[2][1] = field
    BY <2>1 DEF at
  <2> QED
    BY Zenon, <2>1, <2>2
<1>4. ASSUME path[1] = Exporter, OtelKnown(path[2][1])
      PROVE  path \in DOMAIN env /\ env[path] = OtelValue(sources.otel, path[2][1])
  BY Zenon, <1>1, <1>2, <1>4
<1> QED
  BY Zenon, <1>3, <1>4 DEF env

LEMMA KnownIs ==
    /\ KnownProtocol("grpc") = "grpc" /\ KnownProtocol("http") = "http"
    /\ KnownProtocol("http/protobuf") = "http"
    /\ \A text : text \notin {"grpc", "http", "http/protobuf"} => KnownProtocol(text) = ""
    /\ Words("compression") = {"none", "gzip"}
BY DEF KnownProtocol, Words

\* At the end of a load every field but the headers has the value of the highest source
\* that speaks of it: the LAMBDA_OTEL_ variable with its name, however many words that
\* has; then an OTEL_ variable with a value that is known; then the file; then the
\* default (config.rs:4-8, 22).
THEOREM HighestSourceAlwaysWins == ConfigSpec => []HighestSourceWins
<1>1. ConfigInv => HighestSourceWins
  <2> SUFFICES ASSUME ConfigInv, Loaded, NEW path \in Paths \ {HeadersPath}
               PROVE  LET field == IF path[1] = Exporter THEN path[2][1] ELSE "none"
            IN  IF VariableOf(path) # {} THEN \A v \in VariableOf(path) : loaded[path] = v.value
                ELSE IF field = "endpoint" /\ InOtel(field)
                     THEN loaded[path] = Text(sources.otel.endpoint)
                ELSE IF field = "compression" /\ InOtel(field) /\ sources.otel.compression \in {"none", "gzip"}
                     THEN loaded[path] = Text(sources.otel.compression)
                ELSE IF field = "protocol" /\ InOtel(field) /\ sources.otel.protocol = "grpc"
                     THEN loaded[path] = Text("grpc")
                ELSE IF field = "protocol" /\ InOtel(field) /\ sources.otel.protocol \in {"http", "http/protobuf"}
                     THEN loaded[path] = Text("http")
                ELSE loaded[path] = IF InFile(path) THEN sources.file.values[path] ELSE Defaults(sources.memory)[path]
    BY Zenon DEF HighestSourceWins
  <2> DEFINE value == loaded[path]
             word == path[2][1]
             otel == sources.otel
             below == IF InFile(path) THEN sources.file.values[path] ELSE Defaults(sources.memory)[path]
  <2>1. SourcesOK(sources) /\ path \in Paths /\ path # HeadersPath
    BY Zenon, LoadedIs
  <2>2. CASE VariableOf(path) # {}
    <3>1. \A v \in VariableOf(path) : value = v.value
      BY Zenon, <2>1, LastSourceIsRead
    <3> HIDE DEF value
    <3> QED
      BY Zenon, <2>2, <3>1 DEF value
  <2>3. CASE VariableOf(path) = {}
    <3>1. ASSUME path[1] = Exporter, OtelKnown(word) PROVE value = OtelValue(otel, word)
      BY Zenon, <2>1, <2>3, <3>1, LastSourceIsRead, OtelSaysOf
    <3>2. ASSUME ~(path[1] = Exporter /\ OtelKnown(word)) PROVE value = below
      BY Zenon, <2>1, <2>3, <3>2, LastSourceIsRead, OtelSaysOf
    <3>3. path[1] = Exporter => word # "headers"
      BY Zenon, <2>1, ExporterPath DEF HeadersPath
    <3>4. /\ OtelValue(otel, "endpoint") = Text(otel.endpoint)
          /\ OtelValue(otel, "compression") = Text(otel.compression)
          /\ OtelValue(otel, "protocol") = Text(KnownProtocol(otel.protocol))
      BY DEF OtelValue
    <3>5. OtelKnown(word) => word \in {"endpoint", "protocol", "compression", "headers"} /\ InOtel(word)
      BY Zenon, <2>1, OtelEnvIs DEF OtelKnown
    <3>6. InOtel("endpoint") => OtelKnown("endpoint")
      BY DEF OtelKnown
    <3>7. InOtel("compression") => (OtelKnown("compression") <=> otel.compression \in {"none", "gzip"})
      BY KnownIs DEF OtelKnown
    <3>8. InOtel("protocol") => (OtelKnown("protocol") <=> otel.protocol \in {"grpc", "http", "http/protobuf"})
      BY KnownIs DEF OtelKnown
    <3> HIDE DEF value, word, otel, below
    <3>9. CASE path[1] = Exporter
      <4>1. CASE word = "endpoint"
        BY <2>3, <3>1, <3>2, <3>4, <3>5, <3>6, <3>9, <4>1 DEF value, word, otel, below
      <4>2. CASE word = "compression"
        BY <2>3, <3>1, <3>2, <3>4, <3>5, <3>7, <3>9, <4>2 DEF value, word, otel, below
      <4>3. CASE word = "protocol"
        BY <2>3, <3>1, <3>2, <3>4, <3>5, <3>8, <3>9, <4>3, KnownIs DEF value, word, otel, below
      <4>4. CASE word \notin {"endpoint", "compression", "protocol"}
        BY <2>3, <3>2, <3>3, <3>5, <3>9, <4>4 DEF value, word, otel, below
      <4> QED
        BY <4>1, <4>2, <4>3, <4>4
    <3>10. CASE path[1] # Exporter
      BY <2>3, <3>2, <3>10 DEF value, below
    <3> QED
      BY <3>9, <3>10
  <2> QED
    BY <2>2, <2>3
<1> QED
  BY <1>1, ConfigInvariant, PTL

\* What the struct takes for a field.
Good(path, value) == Accepts(TypeOf(path), value) \/ (path = EndpointPath /\ value = Unset)

LEMMA MergeKeepsGood ==
    ASSUME NEW path \in Paths, NEW old, NEW new, Accepts(TypeOf(path), new)
    PROVE  Good(path, MergeValue(old, new))
<1>1. TypeOf(path) \in Types
  BY Zenon, PathIs DEF FieldOK
<1> QED
  BY Zenon, <1>1, MergedOrReplaced, TablesAreHeaders DEF Good

\* A value that an OTEL_ variable leaves in the configuration is one its field takes.
LEMMA KnownIsAccepted ==
    ASSUME SourcesOK(sources), NEW path \in Paths, path[1] = Exporter, OtelKnown(path[2][1])
    PROVE  Accepts(TypeOf(path), OtelValue(sources.otel, path[2][1]))
<1> DEFINE word == path[2][1]
           otel == sources.otel
           type == TypeOf(path)
<1>1. FieldOK(path[1], path[2], type, DefaultOf(path))
  BY Zenon, PathIs
<1>2. word \in {"endpoint", "protocol", "compression", "headers"}
  BY Zenon, OtelEnvIs
<1>3. /\ \A text : Accepts("text", Text(text)) /\ Accepts("headers", Headers(text))
      /\ \A text \in Words("protocol") : Accepts("protocol", Text(text))
      /\ \A text \in Words("compression") : Accepts("compression", Text(text))
  BY DEF Accepts, Text, Headers
<1>4. CASE word = "endpoint"
  <2>1. type = "text"
    BY Zenon, <1>1, <1>4 DEF FieldOK
  <2>2. OtelValue(otel, "endpoint") = Text(otel.endpoint)
    BY DEF OtelValue
  <2> QED
    BY Zenon, <1>3, <1>4, <2>1, <2>2
<1>5. CASE word = "protocol"
  <2>1. type = "protocol"
    BY Zenon, <1>1, <1>5 DEF FieldOK
  <2>2. OtelValue(otel, "protocol") = Text(KnownProtocol(otel.protocol))
    BY DEF OtelValue
  <2>3. KnownProtocol(otel.protocol) # ""
    BY Zenon, <1>5 DEF OtelKnown
  <2>4. \A text : KnownProtocol(text) # "" => KnownProtocol(text) \in Words("protocol")
    BY DEF KnownProtocol, Words
  <2> QED
    BY Zenon, <1>3, <1>5, <2>1, <2>2, <2>3, <2>4
<1>6. CASE word = "compression"
  <2>1. type = "compression"
    BY Zenon, <1>1, <1>6 DEF FieldOK
  <2>2. OtelValue(otel, "compression") = Text(otel.compression)
    BY DEF OtelValue
  <2>3. otel.compression \in Words("compression")
    BY Zenon, <1>6 DEF OtelKnown
  <2> QED
    BY Zenon, <1>3, <1>6, <2>1, <2>2, <2>3
<1>7. CASE word = "headers"
  <2>1. type = "headers"
    BY Zenon, <1>1, <1>7 DEF FieldOK
  <2>2. OtelValue(otel, "headers") = Headers(HeaderPairs(otel.headers))
    BY DEF OtelValue
  <2> QED
    BY Zenon, <1>3, <1>7, <2>1, <2>2
<1> QED
  BY Zenon, <1>2, <1>4, <1>5, <1>6, <1>7

\* A start fails for the file, for a variable that is named after a section, for a value
\* of the wrong type in a field of these two, or because the highest source that knows a
\* protocol asks for gRPC (OtlpExporter::new): of the OTEL_ variables nothing but that
\* one value is ever fatal (standard_otel_env), nor is a variable that names no field.
THEOREM StartFailsOnlyAsExplained == ConfigSpec => []FailedStartExplained
<1> DEFINE explained ==
             \/ sources.file.exists /\ ~sources.file.valid
             \/ \E v \in sources.prefixed : v.name \in CONFIG_SECTIONS
             \/ \E path \in Paths : \/ \E v \in VariableOf(path) : ~Accepts(TypeOf(path), v.value)
                                    \/ InFile(path) /\ ~Accepts(TypeOf(path), sources.file.values[path])
<1>1. ConfigInv /\ LoadFails => explained
  <2> SUFFICES ASSUME ConfigInv, LoadFails,
                      ~(sources.file.exists /\ ~sources.file.valid),
                      \A v \in sources.prefixed : v.name \notin CONFIG_SECTIONS,
                      \A path \in Paths :
                         /\ \A v \in VariableOf(path) : Accepts(TypeOf(path), v.value)
                         /\ InFile(path) => Accepts(TypeOf(path), sources.file.values[path])
               PROVE  FALSE
    BY Zenon
  <2> DEFINE all == WithPrefixed(sources)
             keys == Keys(sources)
             env == StandardOtelEnv(sources.otel)
  <2>1. SourcesOK(sources) /\ loaded = Extracted(all)
    BY Zenon DEF ConfigInv, Readable, LoadFails
  <2>2. \A section \in CONFIG_SECTIONS : <<section>> \notin keys
    BY Zenon, <2>1, ValuesAre
  <2>3. /\ Paths \subseteq DOMAIN all
        /\ \A path \in Paths :
              /\ VariableOf(path) = {} => all[path] = WithOtel(sources)[path]
              /\ \A v \in VariableOf(path) : all[path] = MergeValue(WithOtel(sources)[path], v.value)
    BY Zenon, <2>1, <2>2, WithPrefixedIs
  <2>4. ASSUME NEW section \in CONFIG_SECTIONS PROVE <<section>> \notin DOMAIN all
    <3>1. DOMAIN Values(sources) = keys
      BY Zenon, <2>1, ValuesAre
    <3>2. DOMAIN all = DOMAIN Outside(keys, WithOtel(sources)) \cup DOMAIN Values(sources)
      BY DEF WithPrefixed, Merge
    <3>3. DOMAIN Outside(keys, WithOtel(sources)) \subseteq Paths
      <4>1. DOMAIN WithOtel(sources) = Paths
        BY Zenon, <2>1, WithOtelIs
      <4> QED
        BY Zenon, <4>1 DEF Outside
    <3>4. \A path \in Paths : path # <<section>>
      <4>1. \A path \in Paths : path = <<path[1], path[2]>>
        BY Zenon, PathIs
      <4> QED
        BY <4>1
    <3> QED
      BY Zenon, <2>2, <3>1, <3>2, <3>3, <3>4
  <2>5. ASSUME NEW path \in Paths PROVE Good(path, all[path])
    <3>1. Good(path, Defaults(sources.memory)[path])
      BY Zenon, DefaultIs DEF Good
    <3>2. Good(path, WithFile(sources)[path])
      BY Zenon, <2>1, <3>1, WithFileIs, MergeKeepsGood
    <3>3. path \in DOMAIN env => Accepts(TypeOf(path), env[path])
      BY Zenon, <2>1, OtelSaysOf, KnownIsAccepted
    <3>4. Good(path, WithOtel(sources)[path])
      BY Zenon, <2>1, <3>2, <3>3, WithOtelIs, MergeKeepsGood
    <3>5. CASE VariableOf(path) = {}
      BY Zenon, <2>3, <3>4, <3>5
    <3>6. ASSUME NEW v \in VariableOf(path) PROVE Good(path, all[path])
      BY Zenon, <2>3, <3>6, MergeKeepsGood
    <3> QED
      BY Zenon, <3>5, <3>6
  <2>6. Extractable(all)
    BY Zenon, <2>4, <2>5 DEF Extractable, Good
  <2>7. << >> = [path \in Paths |-> all[path]]
    BY Zenon, <2>1, <2>6 DEF Extracted, LoadFails
  <2> HIDE DEF all
  <2>8. DOMAIN << >> = Paths
    BY Zenon, <2>7
  <2> QED
    BY <2>8, NamedPaths
<1>2. ASSUME ConfigInv, exporter = "refused" PROVE GrpcIsAsked
  <2> DEFINE value == loaded[ProtocolPath]
             env == StandardOtelEnv(sources.otel)
             default == Defaults(sources.memory)[ProtocolPath]
             known == sources.otel.protocol \in {"grpc", "http", "http/protobuf"}
  <2>1. Loaded /\ value.is # "http" /\ SourcesOK(sources) /\ ProtocolPath \in Paths
    BY <1>2, NamedPaths DEF ConfigInv, ExporterOK
  <2>2. /\ ProtocolPath # HeadersPath /\ ProtocolPath # EndpointPath
        /\ ProtocolPath[1] = Exporter /\ ProtocolPath[2][1] = "protocol" /\ Len(ProtocolPath[2]) = 1
    BY DEF ProtocolPath, HeadersPath, EndpointPath
  <2>3. TypeOf(ProtocolPath) = "protocol" /\ DefaultOf(ProtocolPath) = Text("http")
    BY Zenon, <2>1, <2>2, PathIs DEF FieldOK
  <2>4. Accepts("protocol", value)
    BY Zenon, <1>2, <2>1, <2>2, <2>3, LoadedIs
  <2>5. value.is = "grpc"
    BY <2>1, <2>4 DEF Accepts, Words
  <2>6. default.is # "grpc"
    <3>1. default = Text("http")
      BY <2>1, <2>2, <2>3 DEF Defaults
    <3>2. Text("http").is = "http"
      BY DEF Text
    <3> QED
      BY <3>1, <3>2
  <2>7. ASSUME VariableOf(ProtocolPath) # {}
        PROVE  \E v \in VariableOf(ProtocolPath) : v.value.is = "grpc"
    BY Zenon, <1>2, <2>1, <2>2, <2>5, <2>7, LastSourceIsRead
  <2>8. OtelKnown("protocol") <=> InOtel("protocol") /\ known
    BY KnownIs DEF OtelKnown
  <2>9. ASSUME VariableOf(ProtocolPath) = {}, InOtel("protocol") /\ known
        PROVE  sources.otel.protocol = "grpc"
    <3>1. value = OtelValue(sources.otel, "protocol")
      BY Zenon, <1>2, <2>1, <2>2, <2>8, <2>9, LastSourceIsRead, OtelSaysOf
    <3>2. OtelValue(sources.otel, "protocol").is = KnownProtocol(sources.otel.protocol)
      BY DEF OtelValue, Text
    <3> HIDE DEF value
    <3> QED
      BY <2>5, <2>9, <3>1, <3>2, KnownIs
  <2>10. ASSUME VariableOf(ProtocolPath) = {}, ~(InOtel("protocol") /\ known)
         PROVE  InFile(ProtocolPath) /\ sources.file.values[ProtocolPath].is = "grpc"
    <3>1. value = IF InFile(ProtocolPath) THEN sources.file.values[ProtocolPath] ELSE default
      BY Zenon, <1>2, <2>1, <2>2, <2>8, <2>10, LastSourceIsRead, OtelSaysOf
    <3> HIDE DEF value, default
    <3> QED
      BY Zenon, <2>5, <2>6, <3>1
  <2> QED
    BY Zenon, <2>7, <2>9, <2>10 DEF GrpcIsAsked
<1>3. ConfigInv => FailedStartExplained
  BY Zenon, <1>1, <1>2 DEF FailedStartExplained
<1> QED
  BY <1>3, ConfigInvariant, PTL

-----------------------------------------------------------------------------
(* The headers. *)

\* A set of natural numbers has a least one: the intervals 0 .. n are finite sets,
\* and proper inclusion of those is well-founded.
LEMMA LeastNumber ==
    ASSUME NEW S \in SUBSET Nat, S # {}
    PROVE  \E m \in S : \A n \in S : m <= n
<1> DEFINE T == {0 .. n : n \in S}
<1>1. IsWellFoundedOn(StrictSubsetOrdering(Nat), FiniteSubsetsOf(Nat))
  BY FS_StrictSubsetOrderingWellFounded
<1>2. T \subseteq FiniteSubsetsOf(Nat) /\ T # {}
  <2>1. ASSUME NEW n \in S PROVE 0 .. n \in FiniteSubsetsOf(Nat)
    <3>1. IsFiniteSet(0 .. n)
      BY FS_Interval
    <3>2. 0 .. n \subseteq Nat
      OBVIOUS
    <3> QED
      BY Zenon, <3>1, <3>2 DEF FiniteSubsetsOf
  <2> QED
    BY Zenon, <2>1
<1>3. \E x \in T : \A y \in T : ~ (<<y, x>> \in StrictSubsetOrdering(Nat))
  <2> HIDE DEF T
  <2> QED
    BY <1>1, <1>2, WFMin
<1>4. PICK m \in S : \A y \in T : ~ (<<y, 0 .. m>> \in StrictSubsetOrdering(Nat))
  BY <1>3
<1>5. ASSUME NEW n \in S, n < m PROVE FALSE
  <2>1. 0 .. n \subseteq 0 .. m /\ 0 .. n # 0 .. m /\ 0 .. n \in T
    BY <1>5
  <2>2. <<0 .. n, 0 .. m>> \in StrictSubsetOrdering(Nat)
    BY <2>1 DEF StrictSubsetOrdering
  <2> QED
    BY <1>4, <2>1, <2>2
<1> QED
  BY <1>5

\* Of indices there is a last one.
LEMMA LastIndex ==
    ASSUME NEW n \in Nat, NEW S \in SUBSET (1 .. n), S # {}
    PROVE  \E m \in S : \A i \in S : i <= m
<1> DEFINE T == {n - i : i \in S}
<1>1. T \in SUBSET Nat /\ T # {}
  <2>1. \A i \in S : n - i \in Nat
    OBVIOUS
  <2> QED
    BY Zenon, <2>1
<1>2. PICK k \in T : \A j \in T : k <= j
  BY <1>1, LeastNumber
<1>3. PICK m \in S : k = n - m
  BY Zenon
<1>4. ASSUME NEW i \in S PROVE i <= m
  <2>1. k <= n - i
    BY Zenon, <1>2
  <2> HIDE DEF T
  <2> QED
    BY <1>3, <2>1
<1> QED
  BY <1>4

\* Pairs, and what has another length.
PairsOK(pairs) == \E S : pairs \in Seq(Seq(S))

Says(pairs, i, name) == Len(pairs[i]) = 2 /\ pairs[i][1] = name

\* The last pair of a name is that of the table (headers of standard_otel_env).
LEMMA HeaderPairsIs ==
    ASSUME NEW pairs, PairsOK(pairs)
    PROVE  /\ \A i \in DOMAIN pairs : Len(pairs[i]) = 2 => pairs[i][1] \in DOMAIN HeaderPairs(pairs)
           /\ \A name \in DOMAIN HeaderPairs(pairs) :
                 \E i \in DOMAIN pairs :
                    /\ pairs[i] = <<name, HeaderPairs(pairs)[name]>>
                    /\ \A j \in i + 1 .. Len(pairs) : ~Says(pairs, j, name)
<1> DEFINE well == {i \in DOMAIN pairs : Len(pairs[i]) = 2}
           isLast(i, name) == pairs[i][1] = name /\ \A j \in well : pairs[j][1] = name => j <= i
           last(name) == CHOOSE i \in well : isLast(i, name)
           names == {pairs[i][1] : i \in well}
           table == HeaderPairs(pairs)
<1>1. table = [name \in names |-> pairs[last(name)][2]]
  BY Zenon DEF HeaderPairs
<1>2. /\ Len(pairs) \in Nat /\ DOMAIN pairs = 1 .. Len(pairs)
      /\ \A i \in well : pairs[i] = <<pairs[i][1], pairs[i][2]>>
  BY DEF PairsOK
<1>3. ASSUME NEW name \in names PROVE last(name) \in well /\ isLast(last(name), name)
  <2> DEFINE S == {i \in well : pairs[i][1] = name}
  <2>1. S \in SUBSET (1 .. Len(pairs)) /\ S # {}
    BY <1>2
  <2>2. PICK i \in S : \A j \in S : j <= i
    BY Zenon, <1>2, <2>1, LastIndex
  <2>3. i \in well /\ isLast(i, name)
    BY Zenon, <2>2
  <2> HIDE DEF well, isLast
  <2> QED
    BY Zenon, <2>3
<1>4. ASSUME NEW i \in DOMAIN pairs, Len(pairs[i]) = 2 PROVE pairs[i][1] \in DOMAIN table
  BY Zenon, <1>1, <1>4
<1>5. ASSUME NEW name \in DOMAIN table
      PROVE  \E i \in DOMAIN pairs :
                /\ pairs[i] = <<name, table[name]>>
                /\ \A j \in i + 1 .. Len(pairs) : ~Says(pairs, j, name)
  <2> DEFINE i == last(name)
  <2>1. name \in names /\ table[name] = pairs[i][2]
    BY Zenon, <1>1, <1>5
  <2>2. i \in well /\ pairs[i][1] = name /\ \A j \in well : pairs[j][1] = name => j <= i
    BY Zenon, <1>3, <2>1
  <2> HIDE DEF i, table
  <2>3. i \in DOMAIN pairs /\ pairs[i] = <<name, table[name]>>
    BY Zenon, <1>2, <2>1, <2>2
  <2>4. \A j \in i + 1 .. Len(pairs) : ~Says(pairs, j, name)
    BY <1>2, <2>2 DEF Says
  <2> QED
    BY Zenon, <2>3, <2>4
<1> QED
  BY Zenon, <1>4, <1>5

\* What the table has, if the value is one.
Table(value) == IF value.kind = "headers" THEN value.is ELSE << >>

\* The names of both, and where both have one the value of the new.
Joins(table, old, new) ==
    /\ DOMAIN table = DOMAIN old \cup DOMAIN new
    /\ \A name \in DOMAIN table :
          table[name] = IF name \in DOMAIN new THEN new[name] ELSE old[name]

LEMMA TablesJoin ==
    ASSUME NEW old, NEW new
    PROVE  /\ new.kind = "headers" =>
                 Joins(Table(MergeValue(old, new)), Table(old), new.is)
           /\ new.kind # "headers" => MergeValue(old, new) = new
<1>1. CASE old.kind = "headers" /\ new.kind = "headers"
  <2> DEFINE joined == [name \in DOMAIN old.is \cup DOMAIN new.is |->
                           IF name \in DOMAIN new.is THEN new.is[name] ELSE old.is[name]]
  <2>1. MergeValue(old, new) = Headers(joined) /\ Table(old) = old.is
    BY Zenon, <1>1 DEF MergeValue, Table
  <2>2. Joins(joined, old.is, new.is)
    BY DEF Joins
  <2> HIDE DEF joined
  <2>3. Table(Headers(joined)) = joined
    BY DEF Table, Headers
  <2> QED
    BY Zenon, <1>1, <2>1, <2>2, <2>3
<1>2. CASE old.kind # "headers" /\ new.kind = "headers"
  <2>1. MergeValue(old, new) = new /\ Table(old) = << >> /\ Table(new) = new.is
    BY Zenon, <1>2 DEF MergeValue, Table
  <2>2. \A table : Joins(table, << >>, table)
    BY DEF Joins
  <2> QED
    BY Zenon, <1>2, <2>1, <2>2
<1>3. CASE new.kind # "headers"
  BY Zenon, <1>3 DEF MergeValue
<1> QED
  BY Zenon, <1>1, <1>2, <1>3

LEMMA JoinedWithNone ==
    ASSUME NEW table, NEW none, DOMAIN none = {}
    PROVE  Joins(table, table, none)
BY DEF Joins

\* The headers of a configuration are those of the three sources, the last first.
LEMMA HeadersOf ==
    ASSUME ConfigInv, Loaded
    PROVE  \E withOtel, withFile :
              /\ Joins(loaded[HeadersPath].is, withOtel, VariableHeaders)
              /\ Joins(withOtel, withFile, HeaderPairs(OtelPairs))
              /\ Joins(withFile, << >>, FileHeaders)
<1> DEFINE path == HeadersPath
           value == loaded[path]
           env == StandardOtelEnv(sources.otel)
           withOtel == WithOtel(sources)[path]
           withFile == WithFile(sources)[path]
           default == Defaults(sources.memory)[path]
           file == sources.file.values[path]
           pairs == HeaderPairs(OtelPairs)
<1>1. /\ SourcesOK(sources) /\ value = WithPrefixed(sources)[path] /\ path \in Paths
      /\ \A section \in CONFIG_SECTIONS : <<section>> \notin Keys(sources)
  BY Zenon, LoadedIs, NamedPaths
<1>2. value.kind = "headers" /\ Table(value) = value.is
  BY Zenon, NoTable, NamedPaths DEF Table
<1>3. DOMAIN << >> = {} /\ \A table : DOMAIN table = {} => Joins(table, << >>, << >>)
  BY DEF Joins
<1>4. Joins(Table(withFile), << >>, FileHeaders)
  <2>1. default = Headers(<< >>)
    BY Zenon, <1>1, DefaultIs
  <2>2. Table(default) = << >>
    BY <2>1 DEF Table, Headers
  <2>3. withFile = IF InFile(path) THEN MergeValue(default, file) ELSE default
    BY Zenon, <1>1, WithFileIs
  <2> HIDE DEF default, file, withFile
  <2>4. CASE InFile(path) /\ file.kind = "headers"
    <3>1. FileHeaders = file.is
      BY Zenon, <2>4 DEF FileHeaders, file
    <3> QED
      BY Zenon, <2>2, <2>3, <2>4, <3>1, TablesJoin
  <2>5. CASE InFile(path) /\ file.kind # "headers"
    <3>1. FileHeaders = << >>
      BY Zenon, <2>5 DEF FileHeaders, file
    <3>2. withFile = file
      BY Zenon, <2>3, <2>5, TablesJoin
    <3>3. Table(withFile) = << >>
      BY Zenon, <2>5, <3>2 DEF Table
    <3> QED
      BY Zenon, <1>3, <3>1, <3>3
  <2>6. CASE ~InFile(path)
    <3>1. FileHeaders = << >>
      BY Zenon, <2>6 DEF FileHeaders
    <3> QED
      BY Zenon, <1>3, <2>2, <2>3, <2>6, <3>1
  <2> QED
    BY Zenon, <2>4, <2>5, <2>6
<1>5. Joins(Table(withOtel), Table(withFile), pairs)
  <2>1. path[1] = Exporter /\ path[2][1] = "headers"
    BY DEF HeadersPath
  <2>2. /\ path \notin DOMAIN env => withOtel = withFile
        /\ path \in DOMAIN env => withOtel = MergeValue(withFile, env[path])
    BY Zenon, <1>1, WithOtelIs
  <2>3. /\ path \in DOMAIN env <=> OtelKnown("headers")
        /\ OtelKnown("headers") => env[path] = OtelValue(sources.otel, "headers")
    BY Zenon, <1>1, <2>1, OtelSaysOf
  <2>4. OtelValue(sources.otel, "headers") = Headers(HeaderPairs(sources.otel.headers))
    BY DEF OtelValue
  <2>5. OtelKnown("headers") <=> InOtel("headers") /\ DOMAIN HeaderPairs(sources.otel.headers) # {}
    BY DEF OtelKnown
  <2>6. CASE OtelKnown("headers")
    <3>1. OtelPairs = sources.otel.headers
      BY Zenon, <2>5, <2>6 DEF OtelPairs
    <3>2. \A table : Headers(table).kind = "headers" /\ Headers(table).is = table
      BY DEF Headers
    <3>3. env[path].kind = "headers" /\ env[path].is = pairs
      BY Zenon, <2>3, <2>4, <2>6, <3>1, <3>2
    <3> HIDE DEF env, pairs, withOtel, withFile
    <3> QED
      BY Zenon, <2>2, <2>3, <2>6, <3>3, TablesJoin
  <2>7. CASE ~OtelKnown("headers")
    <3>1. DOMAIN HeaderPairs(<< >>) = {}
      BY DEF HeaderPairs
    <3>2. DOMAIN pairs = {}
      BY Zenon, <2>5, <2>7, <3>1 DEF OtelPairs
    <3> QED
      BY Zenon, <2>2, <2>3, <2>7, <3>2, JoinedWithNone
  <2> QED
    BY Zenon, <2>6, <2>7
<1>6. Joins(value.is, Table(withOtel), VariableHeaders)
  <2>1. /\ VariableOf(path) = {} => value = withOtel
        /\ \A v \in VariableOf(path) : value = MergeValue(withOtel, v.value)
    BY Zenon, <1>1, WithPrefixedIs
  <2>2. CASE VariableOf(path) = {}
    <3>1. VariableHeaders = << >>
      BY Zenon, <2>2 DEF VariableHeaders
    <3>2. value.is = Table(withOtel)
      BY Zenon, <1>2, <2>1, <2>2
    <3> QED
      BY Zenon, <1>3, <3>1, <3>2, JoinedWithNone
  <2>3. CASE VariableOf(path) # {}
    <3> DEFINE v == CHOOSE w \in VariableOf(path) : TRUE
    <3>1. v \in VariableOf(path) /\ VariableHeaders = v.value.is
      BY Zenon, <2>3 DEF VariableHeaders
    <3> HIDE DEF v, value, withOtel
    <3>2. value = MergeValue(withOtel, v.value)
      BY Zenon, <2>1, <3>1
    <3>3. v.value.kind = "headers"
      BY Zenon, <1>2, <3>2, TablesJoin
    <3>4. Joins(Table(value), Table(withOtel), v.value.is)
      BY Zenon, <3>2, <3>3, TablesJoin
    <3> QED
      BY Zenon, <1>2, <3>1, <3>4
  <2> QED
    BY Zenon, <2>2, <2>3
<1> QED
  BY Zenon, <1>4, <1>5, <1>6

\* The headers that are sent are those of the file, of the OTEL_ variable and of the
\* LAMBDA_OTEL_ variable together, none is lost, and where two sources name one the higher
\* says its value, of the OTEL_ variable the last pair (merge of figment, headers of
\* standard_otel_env).
THEOREM HeadersAlwaysJoined == ConfigSpec => []HeadersAreJoined
<1>1. ConfigInv => HeadersAreJoined
  <2> SUFFICES ASSUME ConfigInv, Loaded PROVE HeadersAreJoined
    BY Zenon DEF HeadersAreJoined
  <2> DEFINE sent == loaded[HeadersPath].is
             pairs == OtelPairs
             file == FileHeaders
             variable == VariableHeaders
             table == HeaderPairs(pairs)
  <2>1. PICK withOtel, withFile : /\ Joins(sent, withOtel, variable)
                                  /\ Joins(withOtel, withFile, table)
                                  /\ Joins(withFile, << >>, file)
    BY Zenon, HeadersOf
  <2>2. PairsOK(pairs)
    <3>1. CASE InOtel("headers")
      BY Zenon, <3>1, ConfigAssumption DEF ConfigInv, SourcesOK, OtelOK, InOtel, OtelPairs, PairsOK
    <3>2. CASE ~InOtel("headers")
      <4>1. << >> \in Seq(Seq({}))
        OBVIOUS
      <4> QED
        BY Zenon, <3>2, <4>1 DEF OtelPairs, PairsOK
    <3> QED
      BY Zenon, <3>1, <3>2
  <2>3. /\ \A i \in DOMAIN pairs : Len(pairs[i]) = 2 => pairs[i][1] \in DOMAIN table
        /\ \A name \in DOMAIN table :
              \E i \in DOMAIN pairs :
                 /\ pairs[i] = <<name, table[name]>>
                 /\ \A j \in i + 1 .. Len(pairs) : ~OtelSays(j, name)
    BY Zenon, <2>2, HeaderPairsIs DEF OtelSays, Says
  <2>4. /\ \A i \in DOMAIN pairs : \A name : OtelSays(i, name) => name \in DOMAIN table
        /\ \A name \in DOMAIN table : \E i \in DOMAIN pairs : OtelSays(i, name)
    <3>1. \A i, name : OtelSays(i, name) <=> Len(pairs[i]) = 2 /\ pairs[i][1] = name
      BY Zenon DEF OtelSays
    <3> HIDE DEF pairs, table
    <3>2. ASSUME NEW i \in DOMAIN pairs, NEW name, OtelSays(i, name) PROVE name \in DOMAIN table
      BY Zenon, <2>3, <3>1, <3>2
    <3>3. ASSUME NEW name \in DOMAIN table PROVE \E i \in DOMAIN pairs : OtelSays(i, name)
      <4>1. PICK i \in DOMAIN pairs : pairs[i] = <<name, table[name]>>
        BY Zenon, <2>3, <3>3
      <4>2. Len(pairs[i]) = 2 /\ pairs[i][1] = name
        BY <4>1
      <4> QED
        BY Zenon, <3>1, <4>2
    <3> QED
      BY Zenon, <3>2, <3>3
  <2> HIDE DEF sent, pairs, file, variable, table
  <2>5. DOMAIN << >> = {}
    OBVIOUS
  <2>6. /\ DOMAIN sent = DOMAIN withOtel \cup DOMAIN variable
        /\ \A name \in DOMAIN sent :
              sent[name] = IF name \in DOMAIN variable THEN variable[name] ELSE withOtel[name]
    BY Zenon, <2>1 DEF Joins
  <2>7. /\ DOMAIN withOtel = DOMAIN withFile \cup DOMAIN table
        /\ \A name \in DOMAIN withOtel :
              withOtel[name] = IF name \in DOMAIN table THEN table[name] ELSE withFile[name]
    BY Zenon, <2>1 DEF Joins
  <2>8. DOMAIN withFile = DOMAIN file /\ \A name \in DOMAIN file : withFile[name] = file[name]
    BY Zenon, <2>1, <2>5 DEF Joins
  <2>9. DOMAIN file \cup DOMAIN variable \subseteq DOMAIN sent
    BY Zenon, <2>6, <2>7, <2>8
  <2>10. \A i \in DOMAIN pairs : Len(pairs[i]) = 2 => pairs[i][1] \in DOMAIN sent
    BY Zenon, <2>3, <2>6, <2>7
  <2>11. ASSUME NEW name \in DOMAIN sent
         PROVE  IF name \in DOMAIN variable THEN sent[name] = variable[name]
                ELSE IF \E i \in DOMAIN pairs : OtelSays(i, name)
                THEN \E i \in DOMAIN pairs :
                        /\ pairs[i] = <<name, sent[name]>>
                        /\ \A j \in i + 1 .. Len(pairs) : ~OtelSays(j, name)
                ELSE name \in DOMAIN file /\ sent[name] = file[name]
    <3>1. CASE name \in DOMAIN variable
      BY Zenon, <2>6, <2>11, <3>1
    <3>2. CASE name \notin DOMAIN variable /\ name \in DOMAIN table
      <4>1. sent[name] = table[name]
        BY Zenon, <2>6, <2>7, <2>11, <3>2
      <4> QED
        BY Zenon, <2>3, <2>4, <3>2, <4>1
    <3>3. CASE name \notin DOMAIN variable /\ name \notin DOMAIN table
      <4>1. name \in DOMAIN file /\ sent[name] = file[name]
        BY Zenon, <2>6, <2>7, <2>8, <2>11, <3>3
      <4>2. ~\E i \in DOMAIN pairs : OtelSays(i, name)
        BY Zenon, <2>4, <3>3
      <4> QED
        BY Zenon, <3>3, <4>1, <4>2
    <3> QED
      BY Zenon, <3>1, <3>2, <3>3
  <2> QED
    BY Zenon, <2>9, <2>10, <2>11 DEF HeadersAreJoined, sent, pairs, file, variable
<1> QED
  BY <1>1, ConfigInvariant, PTL

=============================================================================
