------------------------------- MODULE Config -------------------------------
(***************************************************************************)
(* The way of a setting through Azrath, with the default features: the     *)
(* sources ServerConfig::new reads (src/src/config.rs), Server::from_config *)
(* and Server::bind, the setters, and configure, which passes the options  *)
(* on to hyper when the server starts to serve (src/src/server.rs).        *)
(*                                                                         *)
(* All values are strings: "on" and "off" of a flag, others of a size, a   *)
(* name or a duration, and "bad" what does not parse.  "unset" is None.    *)
(*                                                                         *)
(* Not in src/: the crates dotenv and config, of which the source added    *)
(* last wins; and hyper's Http, whose options are not independent of each  *)
(* other.                                                                  *)
(***************************************************************************)
EXTENDS Integers, Sequences, Functions

CONSTANTS FileSettings,    \* the settings a config file may have
          EnvSettings,     \* those the environment or .env may have, one at a time
          SetterSettings,  \* those callers of the setters change
          Values,          \* the values of settings that are no flags
          MaxCalls         \* how many calls of setters there may be

Windows == {"http2_initial_stream_window_size", "http2_initial_connection_window_size"}

\* Option<_> fields of ServerConfig, missing if no source has them.
Optional == Windows \cup {"http2_max_frame_size", "http2_max_concurrent_streams"}

\* bool fields; all of them but one have a default, which is false.
Flags == {"http1_keep_alive", "http1_half_close", "http1_pipeline_flush", "http1_writev",
          "http1_title_case_headers", "http1_preserve_header_case", "http1_only",
          "http2_only", "http2_adaptive_window"}

\* Fields without #[serde(default)] that are no Option<_> either.
Required == {"http2_adaptive_window", "http2_max_send_buf_size"}

\* What only ServerConfig has: from_config binds a listener to it.
Address == {"host", "port"}

Settings == Address \cup Optional \cup Flags \cup Required \cup
            {"max_workers", "worker_keep_alive_secs", "http1_max_buf_size"}

ASSUME ConfigAssumption ==
  /\ FileSettings \cup EnvSettings \subseteq Settings
  /\ SetterSettings \subseteq Settings \ Address
  /\ MaxCalls \in Nat

VARIABLES phase,    \* "start", "loaded", "failed", "built" or "serving"
          sources,  \* what file, .env and environment say, each a partial function
          config,   \* the ServerConfig
          server,   \* the fields of Server
          calls,    \* how many setters were called so far
          http      \* hyper's Http

vars == <<phase, sources, config, server, calls, http>>

ValuesOf(s) == IF s \in Flags THEN {"on", "off"} ELSE Values

\* All a source can say about the settings in S; any string will do for the host.
Says(S) == {f \in [S -> {"on", "off", "bad"} \cup Values] :
              \A s \in S : f[s] \in ValuesOf(s) \cup IF s = "host" THEN {} ELSE {"bad"}}

Nothing == [s \in Settings |-> "unset"]
NewHttp == [mode |-> "both", option |-> Nothing]

Init ==
  /\ phase = "start"
  /\ sources = [file |-> <<>>, dotenv |-> <<>>, env |-> <<>>]
  /\ config = Nothing
  /\ server = Nothing
  /\ calls = 0
  /\ http = NewHttp

-----------------------------------------------------------------------------
(* ServerConfig::new and Server::from_config. *)

\* What f says, and what g adds to it.
Over(f, g) == [s \in DOMAIN f \cup DOMAIN g |-> IF s \in DOMAIN f THEN f[s] ELSE g[s]]

\* Merged with a bug: .env overrides variables that are there already.
MergedDotenvFirst(from) == Over(Over(from.dotenv, from.env), from.file)

\* .env only adds variables to the environment; the environment is the source
\* that is added last.
Merged(from) == LET environment == Over(from.env, from.dotenv)
                IN  Over(environment, from.file)

\* Deserialized with a bug: no defaults.
DeserializedOnly(m) == m

\* What is missing gets the default of its field.
Deserialized(m) ==
  [s \in Settings |-> IF s \in DOMAIN m THEN m[s]
                      ELSE CASE s \in Optional -> "unset"
                             [] s \in Flags    -> "off"
                             [] OTHER          -> "default"]

\* build and try_deserialize, of whatever there is in the sources.
LoadConfig ==
  /\ phase = "start"
  /\ \E F \in SUBSET FileSettings, D, E \in {{}} \cup {{s} : s \in EnvSettings} :
       sources' \in [file : Says(F), dotenv : Says(D), env : Says(E)]
  /\ LET m == Merged(sources') IN
     IF Required \subseteq DOMAIN m /\ "bad" \notin Range(m)
     THEN phase' = "loaded" /\ config' = Deserialized(m)
     ELSE phase' = "failed" /\ UNCHANGED config
  /\ UNCHANGED <<server, calls, http>>

\* The fields that from_config fills; the others stay None.
Carried == {"max_workers", "worker_keep_alive_secs", "http1_keep_alive", "http1_half_close",
            "http1_max_buf_size", "http2_max_send_buf_size", "http2_only"}

FromConfig ==
  /\ phase = "loaded"
  /\ phase' = "built"
  /\ server' = [s \in Settings |-> IF s \in Carried THEN config[s] ELSE "unset"]
  /\ UNCHANGED <<sources, config, calls, http>>

\* The address cannot be bound: from_config returns an error, Server::bind panics.
BindFails ==
  /\ phase \in {"start", "loaded"}
  /\ phase' = "failed"
  /\ UNCHANGED <<sources, config, server, calls, http>>

-----------------------------------------------------------------------------
(* Server::bind and the setters. *)

Bind ==
  /\ phase = "start"
  /\ phase' = "built"
  /\ UNCHANGED <<sources, config, server, calls, http>>

\* Those that take a value, and those that take an Option and may take None.
Setter(s) ==
  /\ phase = "built"
  /\ calls < MaxCalls
  /\ calls' = calls + 1
  /\ \E v \in ValuesOf(s) \cup IF s \in Optional THEN {"unset"} ELSE {} :
       server' = [server EXCEPT ![s] = v]
  /\ UNCHANGED <<phase, sources, config, http>>

-----------------------------------------------------------------------------
(* Server::configure, at the beginning of serve. *)

\* One option of Http.  Each of the two flags for the protocol sets the mode
\* afresh; a window size turns the adaptive window off, and turning that on sets
\* both window sizes to those of the HTTP/2 specification.
Pass(h, s, v) ==
  CASE s = "http1_only" -> [h EXCEPT !.mode = IF v = "on" THEN "http1" ELSE "both"]
    [] s = "http2_only" -> [h EXCEPT !.mode = IF v = "on" THEN "http2" ELSE "both"]
    [] s \in Windows    -> [h EXCEPT !.option[s] = v, !.option["http2_adaptive_window"] = "off"]
    [] s = "http2_adaptive_window" /\ v = "on" ->
         [h EXCEPT !.option = [o \in Settings |-> CASE o = s          -> "on"
                                                    [] o \in Windows  -> "spec"
                                                    [] OTHER          -> h.option[o]]]
    [] OTHER            -> [h EXCEPT !.option[s] = v]

\* Order with a bug: alphabetical, more or less.
OrderByName ==
  <<"http1_half_close", "http1_keep_alive", "http1_preserve_header_case",
    "http1_title_case_headers", "http1_writev", "http2_adaptive_window",
    "http2_initial_connection_window_size", "http2_initial_stream_window_size",
    "http2_max_concurrent_streams", "http2_max_frame_size", "http2_max_send_buf_size",
    "http2_only", "http1_only", "http1_max_buf_size", "http1_pipeline_flush">>

\* Order with a bug: an option is forgotten.
OrderForgets == SelectSeq(OrderByName, LAMBDA s : s # "http2_max_send_buf_size")

Order ==
  <<"http1_keep_alive", "http1_half_close", "http1_writev", "http1_title_case_headers",
    "http1_preserve_header_case", "http1_only", "http2_only",
    "http2_initial_stream_window_size", "http2_initial_connection_window_size",
    "http2_adaptive_window", "http2_max_frame_size", "http2_max_concurrent_streams",
    "http2_max_send_buf_size", "http1_max_buf_size", "http1_pipeline_flush">>

\* An option is passed on if it is set.
PassIfSet(h, s) == IF server[s] = "unset" THEN h ELSE Pass(h, s, server[s])

\* Http after the first n options.
Passed[n \in 0..Len(Order)] ==
  IF n = 0 THEN NewHttp ELSE PassIfSet(Passed[n - 1], Order[n])

Configured == Passed[Len(Order)]

Serve ==
  /\ phase = "built"
  /\ phase' = "serving"
  /\ http' = Configured
  /\ UNCHANGED <<sources, config, server, calls>>

Next == \/ LoadConfig \/ FromConfig \/ BindFails \/ Bind \/ Serve
        \/ \E s \in SetterSettings : Setter(s)

Spec == Init /\ [][Next]_vars

-----------------------------------------------------------------------------
(* Properties. *)

\* The settings that hyper keeps as they are, but for Windows.
Options == Settings \ (Address \cup {"max_workers", "worker_keep_alive_secs", "http1_only",
                                     "http2_only", "http2_adaptive_window"})

TypeOK ==
  /\ phase \in {"start", "loaded", "failed", "built", "serving"}
  /\ DOMAIN config = Settings /\ DOMAIN server = Settings
  /\ \A s \in Settings : config[s] \in ValuesOf(s) \cup {"unset", "default"}
  /\ \A s \in Settings : server[s] \in ValuesOf(s) \cup {"unset", "default"}
  /\ calls \in 0..MaxCalls
  /\ http.mode \in {"both", "http1", "http2"}

\* "Override with environment variables" (config.rs:73): a setting has the value
\* of the strongest source that has one - the environment, then .env, then the
\* file - and no source of another setting has a part in it.
StrongestSourceWins ==
  phase = "loaded" =>
    \A s \in Settings :
      \/ s \in DOMAIN sources.env /\ config[s] = sources.env[s]
      \/ s \notin DOMAIN sources.env
         /\ \/ s \in DOMAIN sources.dotenv /\ config[s] = sources.dotenv[s]
            \/ s \notin DOMAIN sources.dotenv
               /\ (s \in DOMAIN sources.file => config[s] = sources.file[s])

\* A protocol is required if that was asked for, and shut out only where the other was
\* asked for, in whatever order the setters are called, although each of the two flags
\* sets the mode afresh.  "Sets whether HTTP/1 is required" (server.rs:335) is true only
\* if nothing was said about HTTP/2: http2_only(false) makes it void (server.rs:335-350,
\* 459-460).
RequiredIsAskedFor ==
  phase = "serving" =>
    /\ http.mode = "http2" <=> server["http2_only"] = "on"
    /\ http.mode = "http1" => server["http1_only"] = "on"
    /\ server["http1_only"] = "on" /\ server["http2_only"] = "unset" => http.mode = "http1"

\* "Enabling this will override the limits set in http2_initial_stream_window_size and
\* http2_initial_connection_window_size" (server.rs:379-386), whichever is called last.
AdaptiveWindowOverrides ==
  phase = "serving" /\ server["http2_adaptive_window"] = "on" =>
    /\ http.option["http2_adaptive_window"] = "on"
    /\ \A w \in Windows : http.option[w] = "spec"

\* The options that do not exclude each other arrive as they were set, whatever was
\* passed on before and after them; window sizes do unless the adaptive window takes
\* their place (server.rs:434-472).
OptionsArrive ==
  phase = "serving" =>
    \A s \in Options :
      server[s] # "unset" /\ (s \in Windows => server["http2_adaptive_window"] # "on") =>
        http.option[s] = server[s]

\* "Server settings can be configured via: Environment variables ... Configuration
\* file" (lib.rs:41-43): what a source sets is set in a server made from the sources.
ConfigIsUsed ==
  phase = "serving" /\ config # Nothing /\ calls = 0 =>
    \A s \in DOMAIN Merged(sources) \ Address : server[s] = config[s]
=============================================================================
