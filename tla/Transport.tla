------------------------------- MODULE Transport -------------------------------
(***************************************************************************)
(* From the command line to a request: load_config of src/mcp_baf/config.py*)
(* merges defaults, environment and flags, main() of __main__.py installs, *)
(* serves stdio or listens, and _BearerAuthASGI stands before the          *)
(* streamable-http application. The server is stopped and started again    *)
(* with another configuration while clients keep the token they know.      *)
(*                                                                         *)
(* Abstractions.                                                           *)
(*  - A text is a member of a small set, "" the empty one; a secret file   *)
(*    is its text without the line ends at its end, or Unreadable.         *)
(*  - The numeric settings are read alike: `number` stands for all; so     *)
(*    does `hosts` for the texts that a flag, a variable or a default give.*)
(*    The password is read like the token; only that may fail counts here. *)
(*  - What the application does with a request it gets is left out.        *)
(***************************************************************************)
EXTENDS Integers

CONSTANTS
    Envs,       \* environments to start in
    Flags,      \* parsed command lines
    NoFile, Unreadable, Nothing,
    Default     \* the default of a numeric setting

Transports == {"stdio", "https", "http"}
Tokens == {"", "a", "b", "nonascii"}

VARIABLES
    env, flags,  \* where the server was started, Nothing while it is off
    config,      \* what load_config made of them
    serving,     \* "off", "failed", "install", "stdio" or "listening"
    asked,       \* the latest request: its scope and authorization headers
    given        \* "none", "401" or "passed" to the application

transportVars == <<env, flags, config, serving, asked, given>>

NoRequest == [scope |-> "lifespan", authorization |-> <<>>]

--------------------------------------------------------------------------------
(* config.py *)

\* What parse_args can return: a flag that was not given is "", 0 or FALSE, and
\* only the choices of --transport are checked here.
ParsedFlags ==
    [transport : Transports \cup {""}, insecure : BOOLEAN, token : Tokens,
     base : {"", "plain", "with credentials"}, cert : {"", "c"}, key : {"", "k"},
     hosts : {"", "h"}, number : Int, tty : BOOLEAN, verbose : BOOLEAN,
     quiet : BOOLEAN, debug : BOOLEAN, install : BOOLEAN, dump : BOOLEAN,
     dumpExtensions : BOOLEAN]

ASSUME TransportAssumption ==
    /\ Default \in Nat \ {0} /\ NoFile # Unreadable
    /\ Flags \subseteq ParsedFlags
    /\ \A e \in Envs : e.number \in Int

\* A flag that was not given has a false value, and leaves what is set.
Or(flag, value) == IF flag = "" THEN value ELSE flag

\* _env_secret: NAME, or the file NAME_FILE.
Secret(value, file) == IF file = NoFile THEN value ELSE file
SecretFails(value, file) == file # NoFile /\ (value # "" \/ file = Unreadable)

\* _env_int, where a text that is no number is 0; only a positive flag counts.
EnvInt(value) == IF value > 0 THEN value ELSE Default
Number(flag, value) == IF flag > 0 THEN flag ELSE EnvInt(value)

\* Mutant: the environment wins over the flag.
EnvOverFlags(e, f) ==
    [transport |-> IF Or(f.transport, e.transport) = "" THEN "stdio" ELSE Or(f.transport, e.transport),
     insecure  |-> f.insecure \/ e.insecure,
     token     |-> Or(Secret(e.token, e.tokenFile), f.token),
     cert      |-> Or(f.cert, e.cert),
     key       |-> Or(f.key, e.key),
     hosts     |-> Or(f.hosts, e.hosts),
     number    |-> Number(f.number, e.number),
     progress  |-> (f.tty \/ f.verbose) /\ ~f.quiet /\ ~f.debug]

\* load_config, for what can be read: defaults, then environment, then flags.
Merged(e, f) ==
    [transport |-> IF Or(f.transport, e.transport) = "" THEN "stdio" ELSE Or(f.transport, e.transport),
     insecure  |-> f.insecure \/ e.insecure,
     token     |-> Or(f.token, Secret(e.token, e.tokenFile)),
     cert      |-> Or(f.cert, e.cert),
     key       |-> Or(f.key, e.key),
     hosts     |-> Or(f.hosts, e.hosts),
     number    |-> Number(f.number, e.number),
     progress  |-> (f.tty \/ f.verbose) /\ ~f.quiet /\ ~f.debug]

\* _check_transport
TransportOk(c) ==
    /\ c.transport \in Transports
    /\ c.transport # "stdio" =>
          /\ c.transport = "http" => c.insecure
          /\ c.token # "" /\ c.token # "nonascii"
          /\ (c.cert = "") = (c.key = "")

ConfigError(e, f) ==
    \/ SecretFails(e.password, e.passwordFile)
    \/ SecretFails(e.token, e.tokenFile)
    \/ Or(f.base, e.base) = "with credentials"
    \/ ~TransportOk(Merged(e, f))

--------------------------------------------------------------------------------
(* __main__.py *)

\* The listener of _run_http, and its security settings: with a list of hosts
\* their origins have the scheme of the listener. tls is _resolve_tls.
Listener(c) ==
    [tls |-> IF c.transport = "http" THEN "none"
             ELSE IF c.cert # "" THEN "given" ELSE "kit",
     origins |-> IF c.hosts = "" THEN {}
                 ELSE {<<IF c.transport = "https" THEN "https" ELSE "http", c.hosts>>},
     token |-> c.token]

TransportInit ==
    /\ env = Nothing /\ flags = Nothing /\ config = Nothing
    /\ serving = "off"
    /\ asked = NoRequest /\ given = "none"

\* main(), up to the server: --dump-extensions only with --install and --dump.
Launch ==
    /\ serving = "off"
    /\ \E e \in Envs, f \in Flags :
          /\ env' = e /\ flags' = f /\ config' = Merged(e, f)
          /\ serving' = CASE ConfigError(e, f) -> "failed"
                          [] ~ConfigError(e, f) /\ f.dumpExtensions /\ ~(f.install /\ f.dump) -> "failed"
                          [] ~ConfigError(e, f) /\ f.install /\ (f.dumpExtensions => f.dump) -> "install"
                          [] OTHER -> IF config'.transport = "stdio" THEN "stdio" ELSE "listening"
    /\ asked' = NoRequest /\ given' = "none"

\* Exactly one authorization header, and the one expected.
Authorized(headers, token) ==
    DOMAIN headers = 1 .. 1 /\ headers[1] = <<"Bearer", token>>

\* _BearerAuthASGI.__call__: what is no http request is passed on.
HttpRequest ==
    /\ serving = "listening"
    /\ \E scope \in {"http", "lifespan", "websocket"},
          headers \in {<<>>} \cup {<<h>> : h \in {"Bearer", "Basic"} \X Tokens}
              \cup {<<<<"Bearer", "a">>, h>> : h \in {"Bearer"} \X Tokens} :
          /\ asked' = [scope |-> scope, authorization |-> headers]
          /\ given' = IF scope = "http" /\ ~Authorized(headers, Listener(config).token)
                      THEN "401" ELSE "passed"
    /\ UNCHANGED <<env, flags, config, serving>>

StopServer ==
    /\ serving # "off" /\ serving' = "off"
    /\ env' = Nothing /\ flags' = Nothing /\ config' = Nothing
    /\ asked' = NoRequest /\ given' = "none"

TransportNext == Launch \/ HttpRequest \/ StopServer

TransportSpec == TransportInit /\ [][TransportNext]_transportVars

--------------------------------------------------------------------------------
(* Properties *)

\* Every variable keeps its type; whatever was given, no number below 1 is served.
TransportTypeOK ==
    /\ env \in Envs \cup {Nothing} /\ flags \in ParsedFlags \cup {Nothing}
    /\ serving \in {"off", "failed", "install", "stdio", "listening"}
    /\ given \in {"none", "401", "passed"}
    /\ serving # "off" => config.number \in Nat \ {0}

\* Whatever comes from defaults, environment, secret files and flags: a server that
\* listens has a token that was set on purpose, the flag's before the file's and
\* the variable's, and has TLS unless plain http was chosen and allowed.
ListensAsTold ==
    serving = "listening" =>
        /\ config.token \notin {"", "nonascii"}
        /\ flags.token # "" => config.token = flags.token
        /\ flags.token = "" => config.token \in {env.token, env.tokenFile}
        /\ Listener(config).tls = "none" =>
              "http" \in {env.transport, flags.transport} /\ (env.insecure \/ flags.insecure)
        /\ Listener(config).tls = "given" => config.key # ""

\* A request that reaches the application carries the token of this start and
\* nothing else: not an older one, not none, not one beside another.
PassedHasToken ==
    serving = "listening" /\ given = "passed" /\ asked.scope = "http" =>
        /\ asked.authorization = <<<<"Bearer", config.token>>>>
        /\ config.token # ""

================================================================================
