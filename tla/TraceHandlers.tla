---------------------------- MODULE TraceHandlers ----------------------------
(***************************************************************************)
(* The handlers of the trace exporters for Zipkin, the OC agent,           *)
(* Stackdriver and stdout: how each is registered, and sends a batch of    *)
(* spans to its service by HTTP or gRPC, or writes it.  Export of          *)
(* SpanExporterImpl holds handler_mu_ while it calls one handler after     *)
(* another, so it is one step, with the outcome of each call chosen with   *)
(* it.  A span is a number; what is sent of it is in SpanConversion.       *)
(***************************************************************************)
EXTENDS Integers, Sequences, SequencesExt, FiniteSets, Functions

CONSTANTS
  ZipkinSettings, \* fields of ZipkinExporterOptions that a program sets
  AgentSettings,  \* of OcAgentOptions
  StackdriverSettings, \* of StackdriverOptions
  MaxHandlers,    \* bound on the handlers
  MaxBatch,       \* bound on the spans of a batch
  MaxSpans        \* bound on the spans

VARIABLES
  interfaces, \* external: the machine's addresses, as getifaddrs lists them
  handlers,   \* of SpanExporterImpl
  batches,    \* history: the batches exported, each with the number of handlers then
  arrived     \* external: the requests that reached the services, in order

sendVars == <<interfaces, handlers, batches, arrived>>

SpanCount == FoldLeft(LAMBDA n, batch : n + Len(batch.spans), 0, batches)

----------------------------------------------------------------------------
\* Zipkin.

Loopback(af_type) == IF af_type = "kIpv4" THEN "127.0.0.1" ELSE "::1"

\* GetIpAddressHelper: the first address of the family that is not the loopback.
\* An interface may have no address, or one of another family.
GetIpAddress(af_type) ==
  LET sa_family == IF af_type = "kIpv4" THEN "AF_INET" ELSE "AF_INET6"
      usable == SelectSeq(interfaces, LAMBDA i : /\ i.sa_family = sa_family
                                                 /\ i.address # Loopback(af_type))
  IN IF usable = <<>> THEN Loopback(af_type) ELSE Head(usable).address

\* The constructor of the options, with the defaults of the others; times in ms.
ZipkinExporterOptions(url) ==
  [url |-> url, proxy |-> "", http_proxy_tunnel |-> FALSE, max_redirect_times |-> 3,
   connect_timeout |-> 5000, request_timeout |-> 15000, service_name |-> "",
   af_type |-> "kIpv4"]

ZipkinHandler(options) ==
  [service |-> "Zipkin", options |-> options,
   local |-> [service_name |-> options.service_name,
              ip_address |-> GetIpAddress(options.af_type)]]

Setting(option, value) == [option |-> option, value |-> value]

\* The calls of curl_easy_setopt in CurlSendMessage, in order.  The proxy is set if
\* the options have none.
CurlSettings(options, data) ==
  <<Setting("HTTPHEADER", "application/json"), Setting("ERRORBUFFER", "err_msg"),
    Setting("URL", options.url), Setting("USERAGENT", "zipkin/2.0"),
    Setting("POSTFIELDSIZE", Len(data)), Setting("POSTFIELDS", data),
    Setting("CONNECTTIMEOUT", options.connect_timeout),
    Setting("TIMEOUT_MS", options.request_timeout), Setting("NOSIGNAL", 1)>>
  \o (IF options.proxy # "" THEN <<>>
      ELSE <<Setting("PROXY", options.proxy)>>
           \o (IF options.http_proxy_tunnel
               THEN <<Setting("PROXYTYPE", "HTTP"), Setting("HTTPPROXYTUNNEL", 1)>>
               ELSE <<>>))
  \o (IF options.max_redirect_times > 0
      THEN <<Setting("FOLLOWLOCATION", 1), Setting("MAXREDIRS", options.max_redirect_times)>>
      ELSE <<>>)

\* What may reach the server: nothing, as each of the calls may fail, and then
\* curl_easy_perform is not called, or may fail itself; or the request that the
\* handle describes.
CurlSendMessage(options, data) ==
  LET settings == CurlSettings(options, data)
      Curl(option) == SelectSeq(settings, LAMBDA s : s.option = option)[1].value
  IN {<<>>, <<[url |-> Curl("URL"), type |-> Curl("HTTPHEADER"),
               body |-> SubSeq(Curl("POSTFIELDS"), 1, Curl("POSTFIELDSIZE"))]>>}

\* EncodeJson: an array of objects, each with the local endpoint.
EncodeJson(spans, local) == [i \in DOMAIN spans |-> [span |-> spans[i], local |-> local]]

\* Export and SendMessage.  The handle is new, and may fail to be made.
ZipkinExport(handler, spans) ==
  IF spans = <<>> THEN {<<>>}
  ELSE CurlSendMessage(handler.options, EncodeJson(spans, handler.local))

----------------------------------------------------------------------------
\* The OC agent.

\* The options, with their defaults.
OcAgentOptions ==
  [address |-> "", rpc_deadline |-> 5000, service_name |-> "", trace_service_stub |-> "null"]

\* ExportRpcRequest: no stream, a stream that is broken before the request has been
\* written, or one that fails later.
ExportRpcRequest(opts, request) ==
  {<<>>, <<[to |-> opts.trace_service_stub, deadline |-> opts.rpc_deadline] @@ request>>}

\* InitNode: the start time is when the handler was made, here their number.
InitNode(opts) ==
  [start_timestamp |-> Len(handlers),
   name |-> IF opts.service_name = "" THEN {} ELSE {opts.service_name}]

\* The stub, unless one is given, is of a channel to the address.
OcAgentHandler(opts) ==
  [service |-> "OcAgent", given |-> opts, nodeInfo_ |-> InitNode(opts),
   opts_ |-> IF opts.trace_service_stub = "null"
             THEN [opts EXCEPT !.trace_service_stub = opts.address] ELSE opts]

OcAgentExport(handler, spans) ==
  ExportRpcRequest(handler.opts_, [node |-> handler.nodeInfo_, spans |-> spans])

\* ConnectAgent: a request without spans.
ConnectAgent(handler) ==
  ExportRpcRequest(handler.opts_, [node |-> handler.nodeInfo_, spans |-> <<>>])

----------------------------------------------------------------------------
\* Stackdriver.
StackdriverOptions ==
  [project_id |-> "", rpc_deadline |-> 10000, trace_service_stub |-> "null",
   prepare_client_context |-> "nothing"]

\* The stub, unless one is given, is of a channel to Stackdriver.
WithStub(opts) ==
  IF opts.trace_service_stub = "null"
  THEN [opts EXCEPT !.trace_service_stub = "cloudtrace.googleapis.com"] ELSE opts

\* The three overloads of Register: opts are moved; copied, but for one field; or made of
\* a project id.
StackdriverHandlers(opts) ==
  LET of_project == [StackdriverOptions EXCEPT !.project_id = opts.project_id]
      Handler(by, given, opts_) ==
        [service |-> "Stackdriver", by |-> by, given |-> given, opts_ |-> WithStub(opts_)]
  IN {Handler("move", opts, opts),
      Handler("copy", opts, [opts EXCEPT !.prepare_client_context =
                                           StackdriverOptions.prepare_client_context]),
      Handler("move", of_project, of_project)}

\* The unary BatchWriteSpans, whose answer may be lost.
StackdriverExport(handler, spans) ==
  {<<>>, <<[to |-> handler.opts_.trace_service_stub, deadline |-> handler.opts_.rpc_deadline,
            context |-> handler.opts_.prepare_client_context,
            project |-> handler.opts_.project_id, spans |-> spans]>>}

----------------------------------------------------------------------------
\* Stdout, or any other stream: the text of each span is written, and flushed.
StdoutHandler(stream) == [service |-> "Stdout", stream_ |-> stream]

StdoutExport(handler, spans) == {<<[to |-> handler.stream_, spans |-> spans]>>}

----------------------------------------------------------------------------
HandlerExport(handler, spans) ==
  CASE handler.service = "Zipkin" -> ZipkinExport(handler, spans)
    [] handler.service = "OcAgent" -> OcAgentExport(handler, spans)
    [] handler.service = "Stackdriver" -> StackdriverExport(handler, spans)
    [] handler.service = "Stdout" -> StdoutExport(handler, spans)

\* The requests that have reached a service, each with its handler.
Arrive(number, requests) ==
  [i \in DOMAIN requests |-> [handler |-> number, request |-> requests[i]]]

RegisterHandler(handler) ==
  /\ Len(handlers) < MaxHandlers
  /\ handlers' = Append(handlers, handler)

RegisterZipkin(settings) ==
  /\ RegisterHandler(ZipkinHandler(settings @@ ZipkinExporterOptions(settings.url)))
  /\ UNCHANGED <<interfaces, batches, arrived>>

\* The constructor of the handler calls the agent.
RegisterOcAgent(opts) ==
  LET handler == OcAgentHandler(opts) IN
  /\ \E requests \in ConnectAgent(handler) :
       arrived' = arrived \o Arrive(Len(handlers) + 1, requests)
  /\ RegisterHandler(handler)
  /\ UNCHANGED <<interfaces, batches>>

RegisterStackdriver(opts) ==
  /\ \E handler \in StackdriverHandlers(opts) : RegisterHandler(handler)
  /\ UNCHANGED <<interfaces, batches, arrived>>

RegisterStdout(stream) ==
  /\ RegisterHandler(StdoutHandler(stream))
  /\ UNCHANGED <<interfaces, batches, arrived>>

\* SpanExporterImpl::Export.  The batch is empty if ExportForTesting finds no spans.
Export(count) ==
  LET spans == [i \in 1 .. count |-> SpanCount + i] IN
  /\ SpanCount + count <= MaxSpans /\ Len(batches) < MaxSpans
  /\ \E results \in [DOMAIN handlers -> UNION {HandlerExport(handlers[h], spans) :
                                                  h \in DOMAIN handlers}] :
       /\ \A h \in DOMAIN handlers : results[h] \in HandlerExport(handlers[h], spans)
       /\ arrived' = arrived \o
            FlattenSeq([h \in DOMAIN handlers |-> Arrive(h, results[h])])
  /\ batches' = Append(batches, [spans |-> spans, handlers |-> Len(handlers)])
  /\ UNCHANGED <<interfaces, handlers>>

\* An address of either family may be missing, the loopback, or another; interfaces
\* without address and of other families are listed too.
SendInit ==
  /\ interfaces \in
       {<<[sa_family |-> "AF_PACKET", address |-> "-"], a, [sa_family |-> "null", address |-> "-"]>>
          \o b : a \in {[sa_family |-> "AF_INET", address |-> "127.0.0.1"],
                        [sa_family |-> "AF_INET6", address |-> "fe80::1"]},
                 b \in {<<>>, <<[sa_family |-> "AF_INET", address |-> "10.0.0.1"]>>}}
  /\ handlers = <<>> /\ batches = <<>> /\ arrived = <<>>

SendNext ==
  \/ \E settings \in ZipkinSettings : RegisterZipkin(settings)
  \/ \E settings \in AgentSettings : RegisterOcAgent(settings @@ OcAgentOptions)
  \/ \E settings \in StackdriverSettings : RegisterStackdriver(settings @@ StackdriverOptions)
  \/ RegisterStdout("cout")
  \/ \E count \in 0 .. MaxBatch : Export(count)

----------------------------------------------------------------------------
RequestsOf(h) == SelectSeq(arrived, LAMBDA a : a.handler = h)

\* The spans in a request, whatever the service.
SpansIn(h, request) ==
  IF handlers[h].service = "Zipkin"
  THEN [i \in DOMAIN request.body |-> request.body[i].span]
  ELSE request.spans

\* A service is called by the stub and with the deadline and the credentials that its
\* options give, except that the deprecated Register of an lvalue drops the last.
CalledAsAsked(handler, request) ==
  /\ IF handler.given.trace_service_stub = "null"
     THEN request.to = IF handler.service = "OcAgent" THEN handler.given.address
                       ELSE "cloudtrace.googleapis.com"
     ELSE request.to = handler.given.trace_service_stub
  /\ request.deadline = handler.given.rpc_deadline
  /\ handler.service = "Stackdriver" =>
       /\ request.project = handler.given.project_id
       /\ handler.by = "move" => request.context = handler.given.prepare_client_context

\* A handler is sent only batches that were exported since it was registered, each
\* whole and at most once, in their order, whatever becomes of the calls of other
\* handlers and of its own; to Zipkin no batch that is empty, at the handler's URL,
\* with an address of the wanted family, which is the loopback only if the machine
\* has no other; and to the agent with the same node each time.  The services are
\* called as they were asked for, and stdout gets everything.
BatchesDelivered ==
  \A h \in DOMAIN handlers :
    LET sent == [i \in DOMAIN RequestsOf(h) |-> RequestsOf(h)[i].request]
        spans == [i \in DOMAIN sent |-> SpansIn(h, sent[i])]
        due == {b.spans : b \in {c \in ToSet(batches) : c.handlers >= h}}
        all == FlattenSeq(spans)
    IN
    /\ ToSet(spans) \subseteq due \cup {<<>>}
    /\ \A i \in 2 .. Len(all) : all[i - 1] < all[i]
    /\ Len(sent) <= Cardinality({n \in DOMAIN batches : batches[n].handlers >= h})
                      + (IF handlers[h].service = "OcAgent" THEN 1 ELSE 0)
    /\ handlers[h].service = "OcAgent" =>
         \A i \in DOMAIN sent : sent[i].node = handlers[h].nodeInfo_
    /\ handlers[h].service = "Zipkin" =>
         /\ \A i \in DOMAIN sent : sent[i].body # <<>> /\ sent[i].url = handlers[h].options.url
         /\ LET family == IF handlers[h].options.af_type = "kIpv4" THEN "AF_INET" ELSE "AF_INET6"
                all_of == {i.address : i \in {j \in ToSet(interfaces) : j.sa_family = family}}
                loopback == Loopback(handlers[h].options.af_type)
            IN IF all_of \subseteq {loopback} THEN handlers[h].local.ip_address = loopback
               ELSE handlers[h].local.ip_address \in all_of \ {loopback}
    /\ handlers[h].service \in {"OcAgent", "Stackdriver"} =>
         \A i \in DOMAIN sent : CalledAsAsked(handlers[h], sent[i])
    /\ handlers[h].service = "Stdout" =>
         all = FlattenSeq([n \in DOMAIN batches |->
                             IF batches[n].handlers >= h THEN batches[n].spans ELSE <<>>])
=============================================================================
