----------------------------- MODULE HttpSource -----------------------------
(***************************************************************************)
(* One search over HTTP: the wire models of ports/federation.py (what a    *)
(* constructor accepts, what to_dict writes, what from_dict accepts) and   *)
(* the exchange of HttpSearchSource (adapters/federation/http.py).         *)
(* A field's value is one of a few kinds; a message is the set of its      *)
(* fields that differ from an ordinary valid message.                      *)
(***************************************************************************)
EXTENDS Integers

Kinds == {"text", "blank", "empty", "long", "none", "zero", "one", "many", "negative",
          "nan", "boolean", "time", "naive", "object", "list", "duplicates", "model",
          "status", "v1", "v2"}

\* The validators shared by constructors and parsers.
String == {"text", "long"}
StringOrEmpty == String \cup {"blank", "empty"}
Optional(kinds) == kinds \cup {"none"}
Boolean == {"boolean"}
StringTuple == {"list"}
JsonObject == {"object"}
PositiveInt == {"one", "many"}
NonNegative == {"zero", "one", "many"}
FiniteFloat == NonNegative \cup {"negative"}
Timestamp == {"time"}
Status == {"status"}
Version == {"v1"}
VersionTuple == {"list"}
Model == {"model"}
\* RecordIdentity only refuses what is empty
IdentityPart == String \cup {"blank"}

\* what the constructors accept ...
SourceBuilt == [source_kind |-> String, source_id |-> String, workspace_id |-> Optional(String)]
CallerBuilt == [caller_id |-> String, tenant_id |-> Optional(String),
                scopes |-> StringTuple, claims |-> JsonObject]
ProvenanceBuilt == [source |-> Optional(Model), request_id |-> Optional(String),
                    retrieval_method |-> Optional(String), details |-> JsonObject]
HitBuilt ==
  [source_kind |-> IdentityPart, source_id |-> IdentityPart,
   workspace_id |-> Optional(IdentityPart), title |-> StringOrEmpty,
   snippet |-> StringOrEmpty \ {"long"}, source_rank |-> PositiveInt,
   rerank_text |-> Optional(StringOrEmpty \ {"long"}), uri |-> Optional(String),
   native_score |-> Optional(FiniteFloat), created_at |-> Optional(Timestamp),
   updated_at |-> Optional(Timestamp), lifecycle |-> Status, metadata |-> JsonObject,
   provenance |-> Model]
DiagnosticsBuilt ==
  [candidate_count |-> Optional(NonNegative), candidate_counts |-> JsonObject,
   failures |-> StringTuple, stage_timings_ms |-> JsonObject]
CapabilitiesBuilt ==
  [contract_versions |-> VersionTuple, supports_filters |-> Boolean,
   supports_source_selection |-> Boolean, supports_rerank_text |-> Boolean,
   supports_partial_results |-> Boolean, supports_cancellation |-> Boolean,
   max_top_k |-> PositiveInt, max_rerank_text_length |-> PositiveInt]
RequestBuilt ==
  [query |-> String \ {"long"}, top_k |-> PositiveInt \ {"many"}, filters |-> JsonObject,
   source_selection |-> StringTuple, caller |-> Optional(Model),
   deadline_at |-> Optional(Timestamp), cancellation_id |-> Optional(String),
   request_id |-> StringOrEmpty, trace_id |-> StringOrEmpty, contract_version |-> Version]
ResponseBuilt ==
  [source |-> Model, hits |-> {"list"}, index_epoch |-> Optional(String),
   elapsed_ms |-> NonNegative, partial |-> Boolean, warnings |-> StringTuple,
   diagnostics |-> Optional(Model), capabilities |-> Model, contract_version |-> Version]

\* ... what to_dict writes ...
SourceKeys == {"source_kind", "source_id", "workspace_id"}
CallerKeys == {"caller_id", "tenant_id", "scopes", "claims"}
ProvenanceKeys == {"source", "request_id", "retrieval_method", "details"}
HitKeys == SourceKeys \cup {"title", "snippet", "rerank_text", "uri", "source_rank",
  "native_score", "created_at", "updated_at", "lifecycle", "metadata", "provenance"}
DiagnosticsKeys == {"candidate_count", "candidate_counts", "failures", "stage_timings_ms"}
CapabilitiesKeys == {"contract_versions", "supports_filters", "supports_source_selection",
  "supports_rerank_text", "supports_partial_results", "supports_cancellation",
  "max_top_k", "max_rerank_text_length"}
RequestKeys == {"query", "top_k", "filters", "source_selection", "caller", "deadline_at",
  "cancellation_id", "request_id", "trace_id", "contract_version"}
ResponseKeys == {"source", "contract_version", "hits", "index_epoch", "elapsed_ms",
  "partial", "warnings", "diagnostics", "capabilities"}

\* ... and what from_dict accepts, before it calls the constructor.
SourceParsed == SourceBuilt
CallerParsed == CallerBuilt
ProvenanceParsed == ProvenanceBuilt

\* Mutant of HitParsed: an empty snippet is refused.
HitParsedStrict ==
  [HitBuilt EXCEPT !.source_kind = String, !.source_id = String,
     !.workspace_id = Optional(String), !.snippet = String, !.rerank_text = Optional(String)]

HitParsed ==
  [HitBuilt EXCEPT !.source_kind = String, !.source_id = String,
     !.workspace_id = Optional(String), !.snippet = StringOrEmpty,
     !.rerank_text = Optional(String)]
DiagnosticsParsed == DiagnosticsBuilt
CapabilitiesParsed == CapabilitiesBuilt
RequestParsed == [RequestBuilt EXCEPT !.query = String, !.contract_version = String \cup {"v1", "v2"}]
ResponseParsed == [ResponseBuilt EXCEPT !.contract_version = String \cup {"v1", "v2"}]

RequestModels == {"request", "caller"}
ResponseModels == {"response", "source", "hit", "provenance", "diagnostics", "capabilities"}

Built == [request |-> RequestBuilt, caller |-> CallerBuilt, response |-> ResponseBuilt,
          source |-> SourceBuilt, hit |-> HitBuilt, provenance |-> ProvenanceBuilt,
          diagnostics |-> DiagnosticsBuilt, capabilities |-> CapabilitiesBuilt]
Keys == [request |-> RequestKeys, caller |-> CallerKeys, response |-> ResponseKeys,
         source |-> SourceKeys, hit |-> HitKeys, provenance |-> ProvenanceKeys,
         diagnostics |-> DiagnosticsKeys, capabilities |-> CapabilitiesKeys]
Parsed == [request |-> RequestParsed, caller |-> CallerParsed, response |-> ResponseParsed,
           source |-> SourceParsed, hit |-> HitParsed, provenance |-> ProvenanceParsed,
           diagnostics |-> DiagnosticsParsed, capabilities |-> CapabilitiesParsed]

\* a field set to an unusual value
Fields(models) ==
  UNION {{[model |-> m, field |-> f, value |-> v] : f \in Keys[m], v \in Kinds} : m \in models}

\* a response that has lost one of its fields
Absences ==
  UNION {{[model |-> m, field |-> f, value |-> "absent"] : f \in Keys[m]} : m \in ResponseModels}

Identification == {"source_kind", "source_id"}

\* Mutant of Required: a hit without a rank takes a default.
RequiredButRank ==
  [response |-> {"source", "capabilities"}, source |-> Identification,
   hit |-> Identification \cup {"title", "snippet"}, provenance |-> {},
   diagnostics |-> {}, capabilities |-> {"contract_versions"}]

\* The fields from_dict insists on: any other that is missing takes a default.
\* No capabilities are taken for {}, and refused for want of contract_versions.
Required ==
  [response |-> {"source", "capabilities"}, source |-> Identification,
   hit |-> Identification \cup {"title", "snippet", "source_rank"}, provenance |-> {},
   diagnostics |-> {}, capabilities |-> {"contract_versions"}]

Constructs(field) == field.value \in Built[field.model][field.field]
Parses(field) ==
  /\ field.field \in DOMAIN Parsed[field.model]
  /\ field.value \in Parsed[field.model][field.field]
  /\ Constructs(field)

-----------------------------------------------------------------------------
VARIABLES
  http,      \* [phase, outcome, open]: the exchange
  sent,      \* the request's unusual field
  answered,  \* the response's unusual or missing field, and whether the
             \* source it names, as it is read, is the configured one
  mangled    \* what happened to the response on its way

httpVars == <<http, sent, answered, mangled>>

Ordinary == [model |-> "response", field |-> "partial", value |-> "boolean"]
OrdinaryRequest == [model |-> "request", field |-> "query", value |-> "text"]
\* One thing is unusual at a time: the request, the response, or its way.
Damage == {"none", "declared too long", "too long", "unauthorized", "server error",
           "not json", "not an object", "unknown field"}

HttpInit ==
  /\ http = [phase |-> "idle", outcome |-> "none", open |-> TRUE]
  /\ sent = Ordinary
  /\ answered = [field |-> Ordinary, configured |-> TRUE]
  /\ mangled = "none"

Finishes(outcome) == http' = [http EXCEPT !.phase = "done", !.outcome = outcome]
Proceeds(phase) == http' = [http EXCEPT !.phase = phase]

\* A source that is closed while a request runs: later requests are refused.
CloseSource ==
  /\ http.open /\ http' = [http EXCEPT !.open = FALSE]
  /\ UNCHANGED <<sent, answered, mangled>>

BuildRequest ==
  /\ http.phase = "idle"
  /\ \E f \in Fields(RequestModels) :
       /\ sent' = f
       /\ IF Constructs(f) THEN Proceeds("send") ELSE Finishes("invalid request")
  /\ UNCHANGED <<answered, mangled>>

\* Size of the body, remaining time, the shared client, in this order; then
\* the request travels, and its timeout or the transport may fail.
SendRequest ==
  /\ http.phase = "send"
  /\ \/ Finishes("too large")
     \/ Finishes("timeout")
     \/ http.open /\ (Proceeds("remote") \/ Finishes("transport error"))
     \/ ~http.open /\ Finishes("closed")
  /\ UNCHANGED <<sent, answered, mangled>>

\* The remote source parses the request with the same models and builds its
\* response with them.
Remote ==
  /\ http.phase = "remote"
  /\ \/ /\ Parses(sent)
        /\ \E f \in {g \in Fields(ResponseModels) : Constructs(g)} \cup Absences, mine \in BOOLEAN :
             /\ sent # OrdinaryRequest => f = Ordinary
             /\ answered' = [field |-> f, configured |-> mine]
             /\ mangled' \in (IF f \in Absences THEN {"missing field"}
                             ELSE IF f = Ordinary THEN Damage ELSE {"none"})
     \/ ~Parses(sent) /\ mangled' = "server error" /\ UNCHANGED answered
  /\ Proceeds("response")
  /\ UNCHANGED sent

\* The checks on an HTTP response, in the order the code makes them.
ReceiveResponse ==
  /\ http.phase = "response"
  /\ CASE mangled \in {"declared too long", "too long"} -> Finishes("too large")
       [] mangled = "unauthorized" -> Finishes("unauthorized")
       [] mangled = "server error" -> Finishes("http error")
       [] mangled \in {"not json", "not an object"} -> Finishes("schema error")
       [] OTHER -> Proceeds("parse")
  /\ UNCHANGED <<sent, answered, mangled>>

RequestTimesOut ==
  /\ http.phase = "remote" /\ Finishes("timeout")
  /\ UNCHANGED <<sent, answered, mangled>>

\* SearchResponse.from_dict: a response it turns into one of its own.
Accepted ==
  \/ mangled = "none" /\ Parses(answered.field)
  \/ mangled = "missing field" /\ answered.field.field \notin Required[answered.field.model]

\* SearchResponse.from_dict, then the identity of the source.
ParseResponse ==
  /\ http.phase = "parse"
  /\ IF Accepted /\ answered.configured
     THEN Finishes("response") ELSE Finishes("schema error")
  /\ UNCHANGED <<sent, answered, mangled>>

HttpNext ==
  \/ BuildRequest \/ SendRequest \/ Remote \/ ReceiveResponse \/ RequestTimesOut \/ ParseResponse
  \/ CloseSource

HttpSpec == HttpInit /\ [][HttpNext]_httpVars

\* The hits a source may build but no client accepts: blank parts of an
\* identity, and a rerank_text without text.
LaxerThanTheWire(field) ==
  /\ field.model = "hit"
  /\ \/ field.field \in SourceKeys /\ field.value = "blank"
     \/ field.field = "rerank_text" /\ field.value \in {"blank", "empty"}

\* What a response that lost a field is read without: it has no hits, is
\* complete, took no time, or lacks a detail of a hit.  The source, what
\* identifies, ranks and shows a hit, and the versions a source speaks are not
\* among it.
ReadByDefault(field) ==
  /\ field.field \notin {"source_kind", "source_id", "source_rank", "title", "snippet",
                         "contract_versions"}
  /\ field.model = "response" => field.field \notin {"source", "capabilities"}

(* The response a caller gets over HTTP is the one the configured source      *)
(* built, but for a lost field that the parsers read by default; and          *)
(* whatever a source can build, for a request that can be built, gets        *)
(* through undamaged, but for the fields where the constructors accept more   *)
(* than the parsers (ports/federation.py).                                   *)
WireFaithful ==
  /\ http.outcome = "response" =>
       /\ answered.configured
       /\ \/ mangled = "none" /\ Constructs(answered.field)
          \/ mangled = "missing field" /\ ReadByDefault(answered.field)
  /\ http.phase = "remote" => Parses(sent)
  /\ (http.phase = "done" /\ http.outcome = "schema error") =>
       \/ mangled # "none" \/ ~answered.configured
       \/ LaxerThanTheWire(answered.field)
=============================================================================
