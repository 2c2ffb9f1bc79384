------------------------------- MODULE AccessGate -------------------------------
(***************************************************************************)
(* The access gate of src/mcp_baf/access.py: every tools/list and every    *)
(* call of an HTTP tool first asks AccessMCP._capabilities which methods   *)
(* the 1C user may use. The answer is cached, a refusal more briefly, and  *)
(* one asyncio.Lock lets a single request to /capabilities run at a time.  *)
(*                                                                         *)
(* Abstractions.                                                           *)
(*  - Time passes in ticks; deadlines are counted down: `ttl` is           *)
(*    self._expires - monotonic() and `timer` what asyncio.wait_for has    *)
(*    left. The event loop serves a timer that is due before time goes on. *)
(*  - The FIFO queue of the lock is kept as the waiters ahead of each one. *)
(*  - The tools themselves, local and HTTP, are left out: the gate ends in *)
(*    "served" (the tool runs, or the list is returned) or "denied".       *)
(***************************************************************************)
EXTENDS Naturals

CONSTANTS
    Calls,    \* the coroutines in list_tools or call_tool at one time
    Methods,  \* the HTTP methods of TOOL_METHODS
    List,     \* what tools/list asks for: all of them
    OkTtl,    \* ticks a non-empty answer is cached (30 s)
    FailTtl,  \* ticks a refusal is cached (5 s)
    Timeout   \* ticks asyncio.wait_for gives the request (15 s)

ASSUME ListAssumption == List \notin Methods
ASSUME TimesAssumption ==
    /\ OkTtl \in Nat \ {0} /\ FailTtl \in Nat \ {0} /\ Timeout \in Nat \ {0}
    /\ FailTtl <= OkTtl

\* How long ago a right may have been lost when the gate still honours it.
Horizon == OkTtl + Timeout

VARIABLES
    \* the 1C side
    granted,  \* methods the HTTP user may use now
    up,       \* 1C answers, and its answer arrives within the time limit
    \* the cache of AccessMCP
    allowed,  \* self._allowed
    failed,   \* self._access_error is not ""
    ttl,
    \* the request to /capabilities
    request,  \* "none", "asked", or how it was answered: "good" or "bad"
    reply,    \* the methods a good answer lists
    timer,
    \* the coroutines
    pc,       \* "idle", "waiting", "fetching", "served", "denied", "cancelled"
    asks,     \* the method of the tool, or List
    ahead,    \* the waiters of the lock ahead of each call
    \* history
    gone,     \* ticks since each method was last granted, at most Horizon + 1
    quiet     \* ticks since the last answer was recorded, at most OkTtl

onec == <<granted, up>>
cache == <<allowed, failed, ttl>>
exchange == <<request, reply, timer>>
calls == <<pc, asks, ahead>>
history == <<gone, quiet>>
vars == <<onec, cache, exchange, calls, history>>

--------------------------------------------------------------------------------
Waiters == {c \in Calls : pc[c] = "waiting"}
Locked == \E c \in Calls : pc[c] = "fetching"

\* The tools a call uses or shows when it is served.
Uses(c, rights) == IF asks[c] = List THEN rights ELSE {asks[c]}

\* Mutant: a recorded refusal never expires.
FreshOrFailed == ttl > 0 \/ failed

\* time.monotonic() < self._expires
Fresh == ttl > 0

Init ==
    /\ granted \in SUBSET Methods
    /\ up \in BOOLEAN
    /\ allowed = {} /\ failed = FALSE /\ ttl = 0
    /\ request = "none" /\ reply = {} /\ timer = 0
    /\ pc = [c \in Calls |-> "idle"]
    /\ asks = [c \in Calls |-> List]
    /\ ahead = [c \in Calls |-> {}]
    /\ gone = [m \in Methods |-> IF m \in granted THEN 0 ELSE Horizon + 1]
    /\ quiet = OkTtl

--------------------------------------------------------------------------------
(* The coroutines *)

\* list_tools, or call_tool for an HTTP tool, up to `async with self._access_lock`.
Call(c, a) ==
    /\ pc[c] \notin {"waiting", "fetching"}
    /\ pc' = [pc EXCEPT ![c] = "waiting"]
    /\ asks' = [asks EXCEPT ![c] = a]
    /\ ahead' = [ahead EXCEPT ![c] = Waiters]
    /\ UNCHANGED <<onec, cache, exchange, history>>

\* The lock is free and no waiter is ahead.
Acquires(c) == pc[c] = "waiting" /\ ahead[c] = {} /\ ~Locked
Overtaken(c) == [d \in Calls |-> ahead[d] \ {c}]

\* What list_tools or call_tool does with the answer of _capabilities.
Settle(c, rights) ==
    pc' = [pc EXCEPT ![c] =
              IF asks[c] = List \/ asks[c] \in rights THEN "served" ELSE "denied"]

\* The cached answer is still good.
Hit(c) ==
    /\ Acquires(c) /\ Fresh
    /\ Settle(c, allowed)
    /\ ahead' = Overtaken(c)
    /\ UNCHANGED <<onec, cache, exchange, asks, history>>

\* Mutant: a call that waited for the lock does not look at the cache again.
AskAgain(c) ==
    /\ Acquires(c)
    /\ pc' = [pc EXCEPT ![c] = "fetching"]
    /\ ahead' = Overtaken(c)
    /\ request' = "asked" /\ timer' = Timeout
    /\ UNCHANGED <<onec, cache, reply, asks, history>>

\* GET /capabilities, with the lock held.
Ask(c) ==
    /\ Acquires(c) /\ ~Fresh
    /\ pc' = [pc EXCEPT ![c] = "fetching"]
    /\ ahead' = Overtaken(c)
    /\ request' = "asked" /\ timer' = Timeout
    /\ UNCHANGED <<onec, cache, reply, asks, history>>

\* What _capabilities records, and when it expires.
Remember(rights, error) ==
    /\ allowed' = rights
    /\ failed' = error
    /\ ttl' = IF rights # {} THEN OkTtl ELSE FailTtl
    /\ quiet' = 0

EndRequest == request' = "none" /\ reply' = {} /\ timer' = 0

\* A well-formed answer arrives.
Receive(c) ==
    /\ pc[c] = "fetching" /\ request = "good"
    /\ Remember(reply, FALSE)
    /\ Settle(c, reply)
    /\ EndRequest
    /\ UNCHANGED <<onec, asks, ahead, gone>>

\* Mutant: the error branch leaves self._allowed as it was.
RefuseKeepsAllowed(c) ==
    /\ pc[c] = "fetching" /\ (request = "bad" \/ timer = 0)
    /\ Remember(allowed, TRUE)
    /\ Settle(c, allowed)
    /\ EndRequest
    /\ UNCHANGED <<onec, asks, ahead, gone>>

\* Mutant: no time limit on the request.
RefuseWithoutTimeout(c) ==
    /\ pc[c] = "fetching" /\ request = "bad"
    /\ Remember({}, TRUE)
    /\ Settle(c, {})
    /\ EndRequest
    /\ UNCHANGED <<onec, asks, ahead, gone>>

\* An error or a malformed answer arrives, or the time is up.
Refuse(c) ==
    /\ pc[c] = "fetching" /\ (request = "bad" \/ timer = 0)
    /\ Remember({}, TRUE)
    /\ Settle(c, {})
    /\ EndRequest
    /\ UNCHANGED <<onec, asks, ahead, gone>>

\* The client cancels the call, or disconnects: CancelledError is not an
\* Exception, so the cache stays, and leaving the block frees the lock.
Cancel(c) ==
    /\ pc[c] \in {"waiting", "fetching"}
    /\ pc' = [pc EXCEPT ![c] = "cancelled"]
    /\ ahead' = Overtaken(c)
    /\ IF pc[c] = "fetching" THEN EndRequest ELSE UNCHANGED exchange
    /\ UNCHANGED <<onec, cache, asks, history>>

--------------------------------------------------------------------------------
(* 1C and time *)

\* The extension computes its answer from the rights of that moment.
Answer ==
    /\ request = "asked"
    /\ request' = "good" /\ reply' = granted
    /\ UNCHANGED <<onec, cache, timer, calls, history>>

\* The connection fails, or the extension is old or answers nonsense.
Break ==
    /\ request = "asked" /\ ~up
    /\ request' = "bad"
    /\ UNCHANGED <<onec, cache, reply, timer, calls, history>>

\* An administrator changes the roles of the user.
Grant(rights) ==
    /\ granted' = rights
    /\ gone' = [m \in Methods |-> IF m \in rights \/ m \in granted THEN 0 ELSE gone[m]]
    /\ UNCHANGED <<up, cache, exchange, calls, quiet>>

\* 1C or the network goes away, or comes back.
Switch ==
    /\ up' = ~up
    /\ UNCHANGED <<granted, cache, exchange, calls, history>>

CountDown(n) == IF n > 0 THEN n - 1 ELSE 0
CountUp(n, limit) == IF n < limit THEN n + 1 ELSE limit

\* A second passes, unless a call still has to be told that its time is up; while
\* it is up, 1C answers within the time limit.
Tick ==
    /\ Locked => timer > 0
    /\ Locked /\ up => timer > 1
    /\ ttl' = CountDown(ttl)
    /\ timer' = CountDown(timer)
    /\ gone' = [m \in Methods |->
                   IF m \in granted THEN 0 ELSE CountUp(gone[m], Horizon + 1)]
    /\ quiet' = CountUp(quiet, OkTtl)
    /\ UNCHANGED <<onec, allowed, failed, request, reply, calls>>

--------------------------------------------------------------------------------
Gate(c) == Hit(c) \/ Ask(c)
Fetch(c) == Receive(c) \/ Refuse(c)

Next ==
    \/ \E c \in Calls, a \in Methods \cup {List} : Call(c, a)
    \/ \E c \in Calls : Gate(c) \/ Fetch(c) \/ Cancel(c)
    \/ \E rights \in SUBSET Methods : Grant(rights)
    \/ Answer \/ Break \/ Switch \/ Tick

Spec == Init /\ [][Next]_vars

\* The event loop runs the coroutines that can go on, in the order of the lock;
\* 1C answers while it is up; time passes, however often the network flickers.
FairSpec ==
    /\ Spec
    /\ \A c \in Calls : WF_vars(Gate(c)) /\ WF_vars(Fetch(c))
    /\ WF_vars(up /\ Answer)
    /\ SF_vars(Tick)

--------------------------------------------------------------------------------
(* Properties *)

OnecType == granted \subseteq Methods /\ up \in BOOLEAN

CacheType == allowed \subseteq Methods /\ failed \in BOOLEAN /\ ttl \in 0 .. OkTtl

ExchangeType ==
    /\ request \in {"none", "asked", "good", "bad"}
    /\ reply \subseteq Methods
    /\ timer \in 0 .. Timeout

CallsType ==
    /\ pc \in [Calls -> {"idle", "waiting", "fetching", "served", "denied", "cancelled"}]
    /\ asks \in [Calls -> Methods \cup {List}]
    /\ ahead \in [Calls -> SUBSET Calls]

HistoryType == gone \in [Methods -> 0 .. Horizon + 1] /\ quiet \in 0 .. OkTtl

TypeOK == OnecType /\ CacheType /\ ExchangeType /\ CallsType /\ HistoryType

\* A tool that is served, and every tool shown in a list, is one whose method
\* the 1C user held at some moment of the last 30 + 15 seconds, whoever made
\* the request, however slow the answer was and however often requests failed
\* since: a lost right cannot live on in the cache of _capabilities.
ServedRightsAreRecent ==
    [][\A c \in Calls :
          pc[c] # "served" /\ pc'[c] = "served"
             => \A m \in Uses(c, allowed') : gone'[m] <= Horizon]_vars

\* "A second request on every call would double the number of sessions": only
\* one call at a time asks, and not before the answer recorded last has
\* expired, also when many calls waited for that answer.
AsksOncePerExpiry ==
    [][\A c \in Calls :
          pc[c] # "fetching" /\ pc'[c] = "fetching"
             => /\ quiet >= IF allowed # {} THEN OkTtl ELSE FailTtl
                /\ \A d \in Calls : pc[d] # "fetching"]_vars

\* A call that reaches the gate gets its answer, or is cancelled, also when 1C
\* never answers and other calls before it were cancelled.
CallSettles ==
    \A c \in Calls :
        pc[c] = "waiting" ~> pc[c] \notin {"waiting", "fetching"}

\* Once 1C is back for good and grants every method, refusals come to an end:
\* neither a recorded failure nor an old answer is kept for ever.
RefusalsEnd ==
    <>[](up /\ granted = Methods)
        => <>[][\A c \in Calls : ~(pc[c] # "denied" /\ pc'[c] = "denied")]_vars

================================================================================
