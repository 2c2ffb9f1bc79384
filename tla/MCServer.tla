-------------------------------- MODULE MCServer --------------------------------
(***************************************************************************)
(* The server side for TLC: the gate of the HTTP tools, the life of a      *)
(* server with its requests to 1C, the way from the command line to a      *)
(* request, and the TLS kit. The four share no state, so that a behaviour  *)
(* is one of one of them: `part` says of which.                            *)
(***************************************************************************)
EXTENDS AccessGate, ServerLife, Transport, TlsKit

CONSTANTS c1, c2, query, metadata, p1

MCCalls == {c1, c2}
MCMethods == {query, metadata}

MCTools == {"tool"}
MCTasks == MCTools \cup {"check"}

OneProc == {p1}

\* Environments: each transport with and without tokens and secret files; and
\* credentials in the address, a secret given twice, a number below zero.
Env == [transport |-> "", insecure |-> FALSE, token |-> "", tokenFile |-> NoFile,
        password |-> "", passwordFile |-> NoFile, base |-> "plain", cert |-> "",
        key |-> "", hosts |-> "", number |-> 0]
MCEnvs ==
    {[Env EXCEPT !.transport = t, !.insecure = i, !.token = k, !.tokenFile = f] :
        t \in {"", "stdio", "http", "junk"}, i \in BOOLEAN, k \in {"", "a"},
        f \in {NoFile, Unreadable, "", "b"}}
    \cup {[Env EXCEPT !.base = "with credentials"],
          [Env EXCEPT !.password = "a", !.passwordFile = "a"],
          [Env EXCEPT !.number = 0 - 1],
          [Env EXCEPT !.number = 7, !.cert = "c", !.token = "a", !.hosts = "h"]}

\* Flags: likewise, and every combination of --install, --dump, --dump-extensions.
Flag == [transport |-> "", insecure |-> FALSE, token |-> "", base |-> "", cert |-> "",
         key |-> "", hosts |-> "", number |-> 0, tty |-> FALSE, verbose |-> FALSE,
         quiet |-> FALSE, debug |-> FALSE, install |-> FALSE, dump |-> FALSE,
         dumpExtensions |-> FALSE]
MCFlags ==
    {[Flag EXCEPT !.transport = t, !.insecure = i, !.token = k, !.cert = c] :
        t \in {"", "https", "http"}, i \in BOOLEAN, k \in {"", "b", "nonascii"},
        c \in {"", "c"}}
    \cup {[Flag EXCEPT !.key = "k", !.transport = "https", !.token = "a"],
          [Flag EXCEPT !.base = "with credentials", !.number = 3]}
    \cup {[Flag EXCEPT !.install = i, !.dump = d, !.dumpExtensions = x] :
              i \in BOOLEAN, d \in BOOLEAN, x \in BOOLEAN}

--------------------------------------------------------------------------------
VARIABLE part

lifeAndClient == <<clientVars, lifeVars>>
allVars == <<part, vars, lifeAndClient, transportVars, kitVars>>

\* What does not take part stands still in one state.
GateIdle == Init /\ granted = {} /\ up
LifeIdle == LifeInit /\ dumpBuilder = "none" /\ help = "none"

ServerInit ==
    /\ part \in {"gate", "life", "transport", "kit"}
    /\ IF part = "gate" THEN Init ELSE GateIdle
    /\ IF part = "life" THEN LifeInit ELSE LifeIdle
    /\ TransportInit /\ KitInit

ServerNext ==
    \/ part = "gate" /\ Next /\ UNCHANGED <<part, lifeAndClient, transportVars, kitVars>>
    \/ part = "life" /\ LifeNext /\ UNCHANGED <<part, vars, transportVars, kitVars>>
    \/ part = "transport" /\ TransportNext /\ UNCHANGED <<part, vars, lifeAndClient, kitVars>>
    \/ part = "kit" /\ KitNext /\ UNCHANGED <<part, vars, lifeAndClient, transportVars>>

\* The fairness of AccessGate, for the behaviours of the gate.
GateFairness ==
    /\ \A c \in Calls : WF_vars(part = "gate" /\ Gate(c)) /\ WF_vars(part = "gate" /\ Fetch(c))
    /\ WF_vars(part = "gate" /\ up /\ Answer)
    /\ SF_vars(part = "gate" /\ Tick)

ServerSpec == ServerInit /\ [][ServerNext]_allVars /\ GateFairness

================================================================================
