------------------------------- MODULE ServerLife -------------------------------
(***************************************************************************)
(* The life of the server of src/mcp_baf/server.py: create_server makes    *)
(* the client and the indexes, the lifespan starts the check of the        *)
(* extension's version, and takes everything down when the server ends.    *)
(* Its tools and its version check make requests with OneCClient.          *)
(*                                                                         *)
(* Abstractions.                                                           *)
(*  - The SDK enters the lifespan once; tool calls may still be in flight  *)
(*    when it leaves it.                                                   *)
(*  - Of the indexes only what close() is about is here: the connection of *)
(*    the dump index, which its builder opens and closes as it likes until *)
(*    it is over, and whether the help index is closed (its close() joins  *)
(*    the builder). The rest is in DumpIndex and HelpIndex.                *)
(*  - `asyncio.wait_for` may time out at any await of the check.           *)
(***************************************************************************)
EXTENDS OneCClient

CONSTANT Check  \* the task of _check_extension_version

ASSUME CheckAssumption == Check \in Tasks \ Tools

VARIABLES
    life,        \* "created", "serving", the step of the teardown that is next
                 \* ("aclose", "index", "help", "log"), "stopped" or "raised"
    check,       \* the version check: "none", "running" or "over"
    cancelled,   \* version_check.cancel() was called
    dumpBuilder, \* of the dump index: "none", "running" or "over"
    dumpOpen,    \* its connection is open
    overtaken,   \* history: its close() returned while the builder was running
    help,        \* the help index: "none", "open" or "closed"
    log          \* the events of the server

dumpVars == <<dumpBuilder, dumpOpen, overtaken>>
lifeVars == <<life, check, cancelled, dumpVars, help, log>>

\* create_server: the builders of the indexes run from here on.
LifeInit ==
    /\ ClientInit
    /\ life = "created" /\ check = "none" /\ cancelled = FALSE
    /\ dumpBuilder \in {"none", "running"} /\ dumpOpen = FALSE /\ overtaken = FALSE
    /\ help \in {"none", "open"}
    /\ log = <<>>

\* The builder of the dump index opens the cache, closes a broken one, goes on.
BuildDump ==
    /\ dumpBuilder = "running"
    /\ dumpBuilder' \in {"running", "over"} /\ dumpOpen' \in BOOLEAN
    /\ UNCHANGED <<clientVars, life, check, cancelled, overtaken, help, log>>

ToolStep(t) ==
    /\ t \in Tools
    /\ \/ life = "serving" /\ BeginCall(t)
       \/ RequestStep(t) \/ ToolEnds(t) \/ CancelTask(t)
    /\ UNCHANGED lifeVars

--------------------------------------------------------------------------------
(* _check_extension_version *)

CheckRuns ==
    /\ check = "running"
    /\ at[Check] = "idle" => ~cancelled
    /\ at[Check] # "tool" /\ RequestStep(Check)
    /\ UNCHANGED lifeVars

\* wait_for(..., timeout=3): the request is cancelled, the check is skipped.
CheckTimesOut ==
    /\ check = "running" /\ CancelTask(Check)
    /\ check' = "over"
    /\ UNCHANGED <<life, cancelled, dumpVars, help, log>>

\* Mutant: an answer without a version counts as one that differs, and so does
\* no answer.
CompareAnyway ==
    /\ check = "running" /\ at[Check] = "tool"
    /\ check' = "over" /\ GoTo(Check, "done")
    /\ log' \in {log, Append(log, "mismatch")}
    /\ UNCHANGED <<clientOpen, status, size, held, made, result, outcome, trail>>
    /\ UNCHANGED <<life, cancelled, dumpVars, help>>

\* The answer names the version expected, or another one; any error means that
\* the check is skipped. A cancellation that arrives together with the answer
\* wins, or is lost in the wait_for of Python 3.11.
CompareVersion ==
    /\ check = "running" /\ at[Check] = "tool"
    /\ check' = "over" /\ GoTo(Check, "done")
    /\ \/ UNCHANGED log
       \/ result[Check] = "answer" /\ log' = Append(log, "mismatch")
    /\ UNCHANGED <<clientOpen, status, size, held, made, result, outcome, trail>>
    /\ UNCHANGED <<life, cancelled, dumpVars, help>>

\* The cancellation reaches the task, which may not have started yet.
CheckCancelled ==
    /\ check = "running" /\ cancelled
    /\ \/ CancelTask(Check)
       \/ /\ at[Check] = "idle" /\ GoTo(Check, "done")
          /\ UNCHANGED <<clientOpen, status, size, held, made, result, outcome, trail>>
    /\ check' = "over"
    /\ UNCHANGED <<life, cancelled, dumpVars, help, log>>

--------------------------------------------------------------------------------
(* lifespan *)

EnterLifespan ==
    /\ life = "created" /\ life' = "serving"
    /\ log' = Append(log, "server_start")
    /\ check' = "running"
    /\ UNCHANGED <<clientVars, cancelled, dumpVars, help>>

\* The server ends: version_check.cancel(), without an await.
LeaveLifespan ==
    /\ life = "serving" /\ life' = "aclose"
    /\ cancelled' = TRUE
    /\ UNCHANGED <<clientVars, check, dumpVars, help, log>>

\* await client.aclose(), at which the lifespan itself can be cancelled.
CloseClient ==
    /\ life = "aclose"
    /\ \/ life' = "index" /\ clientOpen' = FALSE
       \/ life' = "raised" /\ clientOpen' \in BOOLEAN
    /\ UNCHANGED <<at, status, size, held, made, result, outcome, trail>>
    /\ UNCHANGED <<check, cancelled, dumpVars, help, log>>

\* Mutant: an error of index.close() is swallowed.
CloseDumpQuietly ==
    /\ life = "index" /\ life' = "help"
    /\ dumpOpen' \in {dumpOpen, FALSE} /\ overtaken' = (dumpBuilder = "running")
    /\ UNCHANGED <<clientVars, check, cancelled, dumpBuilder, help, log>>

\* index.close() closes the connection there is. It neither stops the builder nor
\* waits for it, and raises when the connection cannot be closed or the builder
\* closes it meanwhile.
CloseDump ==
    /\ life = "index"
    /\ \/ dumpBuilder = "none" /\ life' = "help" /\ UNCHANGED <<dumpOpen, overtaken>>
       \/ /\ dumpBuilder # "none" /\ life' = "help"
          /\ dumpOpen' = FALSE /\ overtaken' = (dumpBuilder = "running")
       \/ /\ dumpOpen /\ life' = "raised"
          /\ dumpOpen' \in BOOLEAN /\ UNCHANGED overtaken
    /\ UNCHANGED <<clientVars, check, cancelled, dumpBuilder, help, log>>

\* await to_thread(help_index.close): the lifespan can be cancelled meanwhile.
CloseHelp ==
    /\ life = "help"
    /\ \/ help = "none" /\ life' = "log" /\ UNCHANGED help
       \/ help = "open" /\ life' = "log" /\ help' = "closed"
       \/ help = "open" /\ life' = "raised" /\ help' \in {"open", "closed"}
    /\ UNCHANGED <<clientVars, check, cancelled, dumpVars, log>>

LogStop ==
    /\ life = "log" /\ life' = "stopped"
    /\ log' = Append(log, "server_stop")
    /\ UNCHANGED <<clientVars, check, cancelled, dumpVars, help>>

Teardown == CloseClient \/ CloseDump \/ CloseHelp \/ LogStop
CheckStep == CheckRuns \/ CheckTimesOut \/ CompareVersion \/ CheckCancelled

LifeNext ==
    \/ \E t \in Tasks : ToolStep(t)
    \/ BuildDump \/ CheckStep \/ EnterLifespan \/ LeaveLifespan \/ Teardown

LifeSpec == LifeInit /\ [][LifeNext]_<<clientVars, lifeVars>>

--------------------------------------------------------------------------------
(* Properties *)

LifeTypeOK ==
    /\ life \in {"created", "serving", "aclose", "index", "help", "log", "stopped", "raised"}
    /\ check \in {"none", "running", "over"} /\ cancelled \in BOOLEAN
    /\ dumpBuilder \in {"none", "running", "over"}
    /\ dumpOpen \in BOOLEAN /\ overtaken \in BOOLEAN
    /\ help \in {"none", "open", "closed"}
    /\ log \in Seq({"server_start", "mismatch", "server_stop"})

Logged(event) == \E i \in DOMAIN log : log[i] = event

\* Who reads server_stop in the audit can rely on it: the client and the help index
\* are closed, and so is the dump index unless its close() came while it was still
\* being built; although index.close() may have raised and the teardown may have
\* been cancelled at two awaits before it. (Without server_stop nothing is known:
\* what follows the step that raised was skipped.)
StopMeansClosed ==
    Logged("server_stop") => ~clientOpen /\ help # "open" /\ (dumpOpen => overtaken)

\* The version is reported as different at most once, and only when the extension
\* answered within the three seconds: neither an old extension without /version,
\* nor a time-out, a closed client or a cancellation is taken for a difference.
MismatchIsAnswered ==
    Logged("mismatch") =>
        /\ result[Check] = "answer" /\ check = "over"
        /\ \A i, j \in DOMAIN log : log[i] = "mismatch" /\ log[j] = "mismatch" => i = j

================================================================================
