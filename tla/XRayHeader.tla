----------------------------- MODULE XRayHeader -----------------------------
(***************************************************************************)
(* The X-Ray trace header, and the four readers the crates have of it: the *)
(* tower HTTP extractors, the SQS and SNS extractors, and the extension.   *)
(*                                                                         *)
(* A header is a sequence of its parts, and none at all is an empty one.   *)
(* Of a value only what the readers tell apart is kept: an id of Ids,      *)
(* which all of them accept, or                                            *)
(*   "zero"    an id of zeros, which OpenTelemetry holds invalid,          *)
(*   "moved"   a root of 32 hex digits that are not split 8 and 24,        *)
(*   "nothex"  the right length, but not hex digits,                       *)
(*   "bad"     anything else.                                              *)
(***************************************************************************)
EXTENDS Naturals, Sequences

CONSTANT Ids  \* well-formed ids

None == "none"

ASSUME IdsAssumption == Ids \cap {None, "zero", "moved", "nothex", "bad"} = {}

\* space: does the part begin or end with white space?
Part(key, value, space) == [key |-> key, value |-> value, space |-> space]

IsHeader(header) ==
    /\ DOMAIN header = 1 .. Len(header)
    /\ \A i \in DOMAIN header :
          /\ header[i] = Part(header[i].key, header[i].value, header[i].space)
          /\ header[i].space \in BOOLEAN

\* SpanContext: remote, and with an empty trace state, in all readers.
TraceContexts == [trace : Ids \cup {"zero", "moved"}, span : Ids \cup {"zero"}, sampled : BOOLEAN]

NoContext == [trace |-> None, span |-> None, sampled |-> FALSE]

IsValid(context) == {context.trace, context.span} \cap {None, "zero"} = {}

-----------------------------------------------------------------------------
\* Where the parts of that name are.
Named(parts, key) == {i \in DOMAIN parts : parts[i].key = key}

\* A loop over the parts assigns at each part of that name, so the last one decides.
LastValue(parts, key) ==
    LET named == Named(parts, key)
    IN  IF named = {} THEN None
        ELSE parts[CHOOSE i \in named : \A j \in named : j <= i].value

\* The HTTP extractors do not trim the parts: they see only those without white space.
Untrimmed(header) == [i \in {j \in DOMAIN header : ~header[j].space} |-> header[i]]

\* One "Sampled=1" is enough for the extractors.
SomeSampled(parts) == \E i \in DOMAIN parts : parts[i].key = "Sampled" /\ parts[i].value = "1"

\* parse_xray_trace_id, convert_xray_trace_id: version 1, three fields, 32 characters.
RootToTraceId(root) == IF root \in Ids \cup {"zero", "moved", "nothex"} THEN root ELSE None

IsHex(id) == id \in Ids \cup {"zero", "moved"}

\* convert_xray_to_traceparent checks lengths; the propagator that reads the
\* traceparent rejects what is not hex, and the extractor what is not valid.
HttpContext(header) ==
    LET parts   == Untrimmed(header)
        context == [trace   |-> RootToTraceId(LastValue(parts, "Root")),
                    span    |-> LastValue(parts, "Parent"),
                    sampled |-> SomeSampled(parts)]
    IN  IF IsHex(context.trace) /\ IsHex(context.span) /\ IsValid(context)
        THEN context
        ELSE NoContext

\* parse_xray_trace_header: as strict about hex, but an id of zeros passes.
MessageContext(header) ==
    LET context == [trace   |-> RootToTraceId(LastValue(header, "Root")),
                    span    |-> LastValue(header, "Parent"),
                    sampled |-> SomeSampled(header)]
    IN  IF IsHex(context.trace) /\ IsHex(context.span) THEN context ELSE NoContext

-----------------------------------------------------------------------------
(* The extension's XRayTraceHeader. *)

\* A value of Sampled that is neither 1 nor 0 unsets it.
SampledOf(parts) ==
    LET value == LastValue(parts, "Sampled") IN IF value \in {"0", "1"} THEN value ELSE None

\* A header without a root is no header, which ToW3C then makes nothing of.
ParseHeader(header) ==
    [root    |-> LastValue(header, "Root"),
     parent  |-> LastValue(header, "Parent"),
     sampled |-> SampledOf(header)]

\* xray_root_to_trace_id checks each field of the root.
RootFieldsToTraceId(root) == IF root \in Ids \cup {"zero"} THEN root ELSE None

ToW3C(xray) ==
    IF xray.parent \in Ids \cup {"zero"} /\ RootFieldsToTraceId(xray.root) # None
    THEN [trace |-> xray.root, span |-> xray.parent, sampled |-> xray.sampled = "1"]
    ELSE NoContext

\* The ids of a context: with what its sender sampled left out.
IdsOf(context) == [trace |-> context.trace, span |-> context.span]

\* extract_trace_context returns the ids only; the bytes of a hex id are always there.
ExtensionContext(header) == IdsOf(ToW3C(ParseHeader(header)))

-----------------------------------------------------------------------------
\* What X-Ray itself writes: one root and one parent, sampled at most once, in any
\* order and among other keys.
Canonical(header) ==
    /\ \A key \in {"Root", "Parent"} :
          \E i \in DOMAIN header : Named(header, key) = {i} /\ header[i].value \in Ids
    /\ \A i, j \in Named(header, "Sampled") : i = j
    /\ \A i \in DOMAIN header : ~header[i].space

\* What such a header says, without reference to the order of its parts.
Meaning(header) ==
    [trace   |-> CHOOSE id \in Ids : \E i \in DOMAIN header : header[i] = Part("Root", id, FALSE),
     span    |-> CHOOSE id \in Ids : \E i \in DOMAIN header : header[i] = Part("Parent", id, FALSE),
     sampled |-> \E i \in DOMAIN header : header[i] = Part("Sampled", "1", FALSE)]
=============================================================================
