------------------------------- MODULE OneCClient -------------------------------
(***************************************************************************)
(* The requests of src/mcp_baf/client.py, under the tools that make them:  *)
(* traced_text of src/mcp_baf/tools/common.py runs a tool, the tool makes  *)
(* HTTP calls one after the other, and both leave events in the audit.     *)
(*                                                                         *)
(* Abstractions.                                                           *)
(*  - An answer is its status and its length in bytes; the limit of the    *)
(*    configuration is a few bytes instead of MiB.                         *)
(*  - The coroutine can be cancelled, or the transport can fail, at every  *)
(*    await; between two awaits nothing else runs.                         *)
(*  - Endpoints, bodies, durations and trace ids are left out.             *)
(***************************************************************************)
EXTENDS Naturals, Sequences

CONSTANTS
    Tasks,       \* the coroutines that use the client
    Tools,       \* the ones that run a tool under traced_text
    MaxSize,     \* self._max_response_size
    MaxChunk,    \* the most bytes httpx hands over at a time
    MaxAnswer,   \* bound on the length of an answer
    MaxRequests  \* bound on the requests of one tool call

ASSUME ClientAssumption ==
    /\ Tools \subseteq Tasks
    /\ MaxSize \in Nat \ {0} /\ MaxChunk \in Nat \ {0}
    /\ MaxAnswer \in Nat /\ MaxRequests \in Nat

VARIABLES
    clientOpen, \* self._http is not closed
    at,         \* where each task is: "idle", in a request "sent", "body",
                \* "error_body", "closing" or "decode"; "tool" outside one; "done"
    status,     \* status_code, 0 for None
    size,       \* length of the answer
    held,       \* bytes of the answer in memory
    made,       \* requests of this call
    result,     \* how the latest request ended
    outcome,    \* how the tool call ended
    trail       \* the audit events of each task, in order

clientVars == <<clientOpen, at, status, size, held, made, result, outcome, trail>>

Awaiting == {"sent", "body", "error_body", "closing"}
InRequest == Awaiting \cup {"decode"}

ClientInit ==
    /\ clientOpen = TRUE
    /\ at = [t \in Tasks |-> "idle"]
    /\ status = [t \in Tasks |-> 0] /\ size = [t \in Tasks |-> 0]
    /\ held = [t \in Tasks |-> 0] /\ made = [t \in Tasks |-> 0]
    /\ result = [t \in Tasks |-> "none"] /\ outcome = [t \in Tasks |-> "none"]
    /\ trail = [t \in Tasks |-> <<>>]

HttpEvent(ok) == [event |-> "one_c.http", ok |-> ok]
ToolEvent(name) == [event |-> name]

GoTo(t, place) == at' = [at EXCEPT ![t] = place]

--------------------------------------------------------------------------------
(* The finally block of _do: one event, ok unless error_text was set: by what is *)
(* raised, or before the stream was closed. The answer in memory goes with it.   *)

\* OneCError is raised, with its text: that the answer is too large, or another.
Refusals == {"OneCError", "too_large"}

Freed(t) ==
    /\ status' = [status EXCEPT ![t] = 0]
    /\ size' = [size EXCEPT ![t] = 0] /\ held' = [held EXCEPT ![t] = 0]

\* Mutant: error_text is only set where the request itself fails.
EndedAlwaysOk(t, how) ==
    /\ Freed(t) /\ result' = [result EXCEPT ![t] = how]
    /\ trail' = [trail EXCEPT ![t] = Append(@, HttpEvent(how \notin Refusals \/ status[t] = 200))]

Ended(t, how) ==
    /\ Freed(t) /\ result' = [result EXCEPT ![t] = how]
    /\ trail' = [trail EXCEPT ![t] =
                    Append(@, HttpEvent(how \notin Refusals /\ at[t] # "closing"))]

--------------------------------------------------------------------------------
(* OneCClient._do *)

\* self._http.stream(...): a closed client raises at once, a RuntimeError that
\* is no httpx.HTTPError.
SendRequest(t) ==
    /\ at[t] = "tool" \/ (t \notin Tools /\ at[t] = "idle")
    /\ made[t] < MaxRequests
    /\ made' = [made EXCEPT ![t] = @ + 1]
    /\ IF clientOpen
       THEN /\ GoTo(t, "sent") /\ result' = [result EXCEPT ![t] = "none"]
            /\ UNCHANGED <<status, size, held, trail>>
       ELSE GoTo(t, "tool") /\ Ended(t, "other")
    /\ UNCHANGED <<clientOpen, outcome>>

HeadersArrive(t) ==
    /\ at[t] = "sent"
    /\ \E code \in {200, 500}, n \in 0 .. MaxAnswer :
          /\ status' = [status EXCEPT ![t] = code]
          /\ size' = [size EXCEPT ![t] = n]
          /\ GoTo(t, IF code = 200 THEN "body" ELSE "error_body")
    /\ UNCHANGED <<clientOpen, held, made, result, outcome, trail>>

\* await resp.aread(): all of it, then its first 4096 bytes go into the error.
ReadErrorBody(t) ==
    /\ at[t] = "error_body"
    /\ IF held[t] < size[t]
       THEN /\ \E n \in 1 .. MaxChunk :
                  /\ held[t] + n <= size[t]
                  /\ held' = [held EXCEPT ![t] = @ + n]
            /\ UNCHANGED <<at, status, size, result, trail>>
       ELSE Ended(t, "OneCError") /\ GoTo(t, "tool")
    /\ UNCHANGED <<clientOpen, made, outcome>>

\* Mutant: the limit is checked before the chunk is appended.
CheckThenExtend(t) ==
    /\ at[t] = "body"
    /\ IF held[t] = size[t]
       THEN GoTo(t, "decode") /\ UNCHANGED <<status, size, held, result, trail>>
       ELSE \E n \in 1 .. MaxChunk :
          /\ held[t] + n <= size[t]
          /\ held' = [held EXCEPT ![t] = @ + n]
          /\ GoTo(t, IF held[t] > MaxSize THEN "closing" ELSE "body")
          /\ UNCHANGED <<status, size, result, trail>>
    /\ UNCHANGED <<clientOpen, made, outcome>>

\* raw.extend(chunk), then the test of the limit: past it error_text is set and
\* the stream has to be closed before the error gets out.
ReadChunk(t) ==
    /\ at[t] = "body"
    /\ IF held[t] = size[t]
       THEN GoTo(t, "decode") /\ UNCHANGED <<status, size, held, result, trail>>
       ELSE \E n \in 1 .. MaxChunk :
          /\ held[t] + n <= size[t]
          /\ held' = [held EXCEPT ![t] = @ + n]
          /\ GoTo(t, IF held[t] + n > MaxSize THEN "closing" ELSE "body")
          /\ UNCHANGED <<status, size, result, trail>>
    /\ UNCHANGED <<clientOpen, made, outcome>>

\* await response.aclose(), and the OneCError of the limit.
CloseStream(t) ==
    /\ at[t] = "closing"
    /\ Ended(t, "too_large") /\ GoTo(t, "tool")
    /\ UNCHANGED <<clientOpen, made, outcome>>

\* json.loads, no await in it; afterwards the tool goes on with the answer.
DecodeBody(t) ==
    /\ at[t] = "decode"
    /\ \E how \in {"answer", "OneCError"} : Ended(t, how)
    /\ GoTo(t, "tool")
    /\ UNCHANGED <<clientOpen, made, outcome>>

\* httpx.HTTPError at an await becomes OneCError; anything else that httpx
\* raises there passes through and sets no error text.
RequestFails(t) ==
    /\ at[t] \in Awaiting
    /\ \E how \in {"OneCError", "other"} : Ended(t, how)
    /\ GoTo(t, "tool")
    /\ UNCHANGED <<clientOpen, made, outcome>>

--------------------------------------------------------------------------------
(* traced_text *)

\* A call in the place of none, or of one that is over.
BeginCall(t) ==
    /\ t \in Tools /\ at[t] \in {"idle", "done"}
    /\ GoTo(t, "tool") /\ made' = [made EXCEPT ![t] = 0]
    /\ result' = [result EXCEPT ![t] = "none"] /\ outcome' = [outcome EXCEPT ![t] = "none"]
    /\ trail' = [trail EXCEPT ![t] = <<>>]
    /\ UNCHANGED <<clientOpen, status, size, held>>

\* The tool makes its text, with requests or with none, or raises: any Exception
\* leaves tool_error, and the text of ValueError, PermissionError, RuntimeError
\* and OneCError reaches the client. (get_form_structure goes on after a
\* OneCError, the others do not.)
ToolEnds(t) ==
    /\ t \in Tools /\ at[t] = "tool"
    /\ \E how \in {"text", "ToolError", "hidden"} :
          /\ outcome' = [outcome EXCEPT ![t] = how]
          /\ trail' = [trail EXCEPT ![t] =
                 Append(@, ToolEvent(IF how = "text" THEN "tool_call" ELSE "tool_error"))]
    /\ GoTo(t, "done")
    /\ UNCHANGED <<clientOpen, status, size, held, made, result>>

\* CancelledError at an await of a request, where it sets no error text, or at one
\* outside (the searches run in asyncio.to_thread): no `except Exception` sees it.
CancelTask(t) ==
    /\ \/ at[t] \in Awaiting /\ Ended(t, "cancelled")
       \/ t \in Tools /\ at[t] = "tool" /\ UNCHANGED <<status, size, held, result, trail>>
    /\ outcome' = [outcome EXCEPT ![t] = "cancelled"]
    /\ GoTo(t, "done")
    /\ UNCHANGED <<clientOpen, made>>

RequestStep(t) ==
    \/ SendRequest(t) \/ HeadersArrive(t) \/ ReadErrorBody(t) \/ ReadChunk(t)
    \/ CloseStream(t) \/ DecodeBody(t) \/ RequestFails(t)

--------------------------------------------------------------------------------
(* Properties *)

ClientTypeOK ==
    /\ clientOpen \in BOOLEAN
    /\ at \in [Tasks -> InRequest \cup {"idle", "tool", "done"}]
    /\ status \in [Tasks -> {0, 200, 500}]
    /\ size \in [Tasks -> 0 .. MaxAnswer] /\ held \in [Tasks -> 0 .. MaxAnswer]
    /\ made \in [Tasks -> 0 .. MaxRequests]
    /\ result \in [Tasks -> Refusals \cup {"none", "answer", "cancelled", "other"}]
    /\ outcome \in [Tasks -> {"none", "text", "ToolError", "hidden", "cancelled"}]

\* The requests of this call that are over.
EndedRequests(t) == made[t] - IF at[t] \in InRequest THEN 1 ELSE 0

\* "Exactly one event one_c.http for each HTTP call, successful or not": at every
\* moment the trail begins with as many as requests have ended, on whichever path
\* out of _do, and has no other. The last one is ok if the caller got an answer
\* and not ok if it got a OneCError. (Of a request that was cancelled, or ended by
\* another exception, nothing is said: its event is ok unless the answer had
\* already been refused.)
OneEventPerRequest ==
    \A t \in Tasks :
        /\ EndedRequests(t) <= Len(trail[t])
        /\ \A i \in DOMAIN trail[t] :
              trail[t][i].event = "one_c.http" <=> i <= EndedRequests(t)
        /\ result[t] # "none" => EndedRequests(t) > 0
        /\ result[t] = "answer" => trail[t][EndedRequests(t)].ok
        /\ result[t] \in Refusals => ~trail[t][EndedRequests(t)].ok

\* What is decoded is the whole answer, also one exactly as long as the limit;
\* only a longer one is refused as too large; and of a good answer, however long
\* it is, no more than the limit is ever in memory, or the limit and one chunk
\* when it is being refused.
AnswerWithinLimit ==
    [][\A t \in Tasks :
          /\ at[t] = "body" /\ at'[t] = "decode" => held[t] = size[t] /\ size[t] <= MaxSize
          /\ at[t] = "body" /\ at'[t] = "closing" => size[t] > MaxSize
          /\ status'[t] = 200 =>
                held'[t] <= MaxSize + IF at'[t] = "closing" THEN MaxChunk ELSE 0]_clientVars

\* A call that returned or raised has exactly one of tool_call and tool_error, as its
\* last event and the one that says how it ended; one that was cancelled has none.
ToolEventIsLast ==
    \A t \in Tasks :
        IF t \in Tools /\ at[t] = "done" /\ outcome[t] # "cancelled"
        THEN /\ Len(trail[t]) = EndedRequests(t) + 1
             /\ trail[t][Len(trail[t])] =
                    ToolEvent(IF outcome[t] = "text" THEN "tool_call" ELSE "tool_error")
        ELSE Len(trail[t]) = EndedRequests(t)

\* "Every call leaves tool.call or tool.error."
EveryCallLeavesEvent ==
    \A t \in Tools : at[t] = "done" =>
        \E i \in DOMAIN trail[t] : trail[t][i].event \in {"tool_call", "tool_error"}

\* The audit is complete, whatever fails or is cancelled and wherever: an event for
\* each request that ended and one for each call that was not cancelled.
AuditIsComplete == OneEventPerRequest /\ ToolEventIsLast

================================================================================
