------------------------------- MODULE Endpoint -------------------------------
(***************************************************************************)
(* Where the telemetry of a run goes, with which transport and which       *)
(* header: the flags main.run parses, the endpoint and headers Setup       *)
(* resolves from them and from the environment, the gRPC connection, the   *)
(* exporters of one service, and what the startup log says of it.          *)
(*                                                                         *)
(* A URL is a scheme, a host, a port and whether a path follows; "none" is *)
(* no scheme and the host "" an empty one. That exporters and connections  *)
(* may fail is in Providers.                                               *)
(***************************************************************************)
EXTENDS Naturals

CONSTANTS
  FlagUrls,     \* what --endpoint may be given
  EnvUrls       \* what OTEL_EXPORTER_OTLP_ENDPOINT may hold: the standard asks for a full URL

URL == [scheme : {"none", "http", "https"}, host : STRING, port : Nat, path : BOOLEAN]
Unset == [scheme |-> "none", host |-> "", port |-> 0, path |-> FALSE]

ASSUME FlagAssumption == FlagUrls \subseteq URL
ASSUME EnvAssumption == EnvUrls \subseteq URL /\ \A u \in EnvUrls : u.scheme # "none"

Signal == {"traces", "metrics", "logs"}

VARIABLES
  flag, env,            \* inputs: the two URLs, or Unset
  backend, protocol,    \* inputs: the flags as words, then as parsed
  region, key,          \* inputs: --nr-region, and whether the license key is set
  pc,                   \* what has been done
  endpoint,             \* Setup's endpoint; Unset leaves it to the SDK
  target,               \* what is dialed, with gRPC
  exporters             \* what each signal's exporter was made with

options == <<flag, env, region, key>>
endpointVars == <<options, backend, protocol, pc, endpoint, target, exporters>>

\* A destination: the URL that is used, whether over TLS, and the header.
Nowhere == [to |-> Unset, tls |-> FALSE, key |-> FALSE]
Dest(url, tls, k) == [to |-> [url EXCEPT !.scheme = "none"], tls |-> tls, key |-> k]

EndpointInit ==
  /\ flag \in FlagUrls \cup {Unset} /\ env \in EnvUrls \cup {Unset}
  /\ backend \in {"newrelic", "otlp", "local", "other"}
  /\ protocol \in {"grpc", "http", "http/protobuf", "other"}
  /\ region \in {"", "us", "eu", "other"} /\ key \in BOOLEAN
  /\ pc = "parse" /\ endpoint = Unset /\ target = Nowhere
  /\ exporters = [s \in {} |-> Nowhere]

-----------------------------------------------------------------------------
(* The choice of an endpoint *)

ParseProtocol(word) == IF word = "http/protobuf" THEN "http" ELSE word

\* ParseBackend and ParseProtocol refuse a word they do not know.
Parse ==
  /\ pc = "parse"
  /\ protocol' = ParseProtocol(protocol)
  /\ pc' = IF "other" \in {backend, protocol} THEN "failed" ELSE "resolve"
  /\ UNCHANGED <<options, backend, endpoint, target, exporters>>

defaultPort == IF protocol = "http" THEN 4318 ELSE 4317
At(scheme, host) == [scheme |-> scheme, host |-> host, port |-> defaultPort, path |-> FALSE]

newRelicUS == At("https", "staging-otlp.nr-data.net")
newRelicEU == At("https", "otlp.eu01.nr-data.net")
localhost  == At("http", "localhost")

BadRegion == flag = Unset /\ env = Unset /\ backend = "newrelic" /\ region = "other"

\* resolveEndpoint, when the region is none it refuses.
ResolveEndpoint ==
  CASE flag # Unset                  -> flag
    [] flag = Unset /\ env # Unset   -> Unset
    [] OTHER ->
         CASE backend = "newrelic" -> IF region = "eu" THEN newRelicEU ELSE newRelicUS
           [] backend = "local"    -> localhost
           [] OTHER                -> Unset

\* Setup resolves the endpoint, then the headers.
Resolve ==
  /\ pc = "resolve"
  /\ IF BadRegion \/ (backend = "newrelic" /\ ~key)
     THEN pc' = "failed" /\ endpoint' = endpoint
     ELSE pc' = "connect" /\ endpoint' = ResolveEndpoint
  /\ UNCHANGED <<options, backend, protocol, target, exporters>>

headers == backend = "newrelic"

-----------------------------------------------------------------------------
(* gRPC: one connection for all exporters *)

\* Mutant: a bare host and port gets TLS from every backend.
BareUsesTLSAlways == TRUE

BareUsesTLS == backend # "local"

\* grpcTarget: the path of a URL without a scheme is kept.
GrpcTarget(url) ==
  IF url.scheme = "none" THEN Dest(url, BareUsesTLS, headers)
  ELSE Dest([url EXCEPT !.path = FALSE], url.scheme = "https", headers)

\* Mutant: without an endpoint from Setup gRPC goes to the backend's default.
FallbackToBackend ==
  IF endpoint # Unset THEN endpoint ELSE IF backend = "local" THEN localhost ELSE newRelicUS

\* What grpcTarget takes when Setup has no endpoint.
Fallback ==
  CASE endpoint # Unset                  -> endpoint
    [] endpoint = Unset /\ env # Unset   -> env
    [] OTHER                             -> IF backend = "local" THEN localhost ELSE newRelicUS

\* dialGRPC.
Connect ==
  /\ pc = "connect" /\ pc' = "build"
  /\ target' = IF protocol = "grpc" THEN GrpcTarget(Fallback) ELSE Nowhere
  /\ UNCHANGED <<options, backend, protocol, endpoint, exporters>>

-----------------------------------------------------------------------------
(* HTTP: a transport for each exporter *)

\* hostPort: no host means that the SDK is left to find one.
HostPortOk == endpoint.host # ""
Insecure == backend = "local" \/ endpoint.scheme = "http"

\* An HTTP exporter made without an endpoint: the environment's, or the SDK's default.
FromSDK ==
  IF env # Unset THEN Dest(env, env.scheme = "https", headers)
  ELSE Dest(At("https", "localhost"), TRUE, headers)

\* An HTTP exporter made WithEndpoint, and WithInsecure for plaintext: what no
\* option names, a path or plaintext, the SDK has from the environment.
AtHostPort ==
  Dest([endpoint EXCEPT !.path = env.path], ~Insecure /\ env.scheme # "http", headers)

\* Mutant: the metrics exporter is made without WithEndpoint.
HttpMetricsForgotten(signal) ==
  IF HostPortOk /\ signal # "metrics" THEN AtHostPort ELSE FromSDK

\* The options of traces, metrics and logs when the protocol is HTTP.
HttpExporter(signal) == IF HostPortOk THEN AtHostPort ELSE FromSDK

\* all builds the three exporters in order.
Build ==
  /\ pc = "build"
  /\ \E signal \in Signal :
       /\ CASE signal = "traces"  -> DOMAIN exporters = {}
            [] signal = "metrics" -> DOMAIN exporters = {"traces"}
            [] signal = "logs"    -> DOMAIN exporters = {"traces", "metrics"}
       /\ exporters' = [s \in DOMAIN exporters \cup {signal} |->
            IF s # signal THEN exporters[s]
            ELSE IF protocol = "grpc" THEN target ELSE HttpExporter(s)]
       /\ pc' = IF signal = "logs" THEN "done" ELSE "build"
  /\ UNCHANGED <<options, backend, protocol, endpoint, target>>

\* DescribeEndpoint, for a run that gets to log it: Unset is "SDK default (localhost)".
Described ==
  CASE flag # Unset                 -> flag
    [] flag = Unset /\ env # Unset  -> env
    [] OTHER                        -> ResolveEndpoint

Ready == pc \in {"failed", "done"} /\ UNCHANGED endpointVars

EndpointNext == Parse \/ Resolve \/ Connect \/ Build \/ Ready

EndpointSpec == EndpointInit /\ [][EndpointNext]_endpointVars

-----------------------------------------------------------------------------
(* What a run is promised *)

Host(url) == <<url.host, url.port>>

\* What the code takes as it is meant: a host, and no path without a scheme.
WellFormed(url) == url.host # "" /\ ~(url.scheme = "none" /\ url.path)

\* README, "Setting the endpoint": the flag wins over everything, then the
\* environment, then the backend's default with the port of the protocol,
\* although flag, fallback and environment are read at three different places.
\* Of host and port this is so; a path after the flag's URL is never dialed, but
\* over HTTP the path of the environment's URL is used beside the flag's host.
PrecedenceHolds ==
  pc = "done" => \A s \in Signal :
    LET to == Host(exporters[s].to)
    IN  CASE flag # Unset -> WellFormed(flag) =>
               to = Host(flag) /\ exporters[s].to.path = (protocol = "http" /\ env.path)
          [] flag = Unset /\ env # Unset -> to = Host(env)
          [] OTHER ->
               /\ to[2] = (IF protocol = "grpc" THEN 4317 ELSE 4318)
               /\ backend = "local" => to[1] = "localhost"
               /\ backend = "newrelic" =>
                    to[1] = (IF region = "eu" THEN "otlp.eu01.nr-data.net"
                             ELSE "staging-otlp.nr-data.net")

\* What Options.Endpoint documents: the scheme decides, and without one TLS is
\* used unless the backend is local.
TLSAsked == flag.scheme = "https" \/ (flag.scheme = "none" /\ backend # "local")

\* The local backend and an http URL in the environment reach every exporter
\* over HTTP, also one for which the flag asks for TLS.
PlaintextAnyway == protocol = "http" /\ (backend = "local" \/ env.scheme = "http")

\* An exporter uses TLS exactly when the flag asks for it, over either protocol
\* and for each signal, but for the two ways into plaintext that HTTP has
\* beside the flag: plaintext is never turned into TLS, and over gRPC, where
\* the environment is not read beside a flag, what is asked for is what is done.
TransportAsAsked ==
  pc = "done" /\ flag # Unset /\ WellFormed(flag) => \A s \in Signal :
    exporters[s].tls = (TLSAsked /\ ~PlaintextAnyway)

\* Whenever the startup log names a URL, that is where everything goes.
DescriptionIsTrue ==
  pc = "done" /\ WellFormed(Described) => \A s \in Signal :
    Host(exporters[s].to) = Host(Described)

\* README, "The startup log states which source won, so a run is never
\* ambiguous": when it says localhost, telemetry goes to localhost.
DefaultIsLocalhost ==
  pc = "done" /\ Described = Unset => \A s \in Signal : exporters[s].to.host = "localhost"

=============================================================================
