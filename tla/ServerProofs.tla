---------------------------- MODULE ServerProofs ----------------------------
(***************************************************************************)
(* Whatever environments and flags it is started with, a server listens    *)
(* only as it was told to, and only requests with its token reach the      *)
(* application.  When it makes its TLS files itself and has their          *)
(* directory to itself, it never fails on them, however often it was       *)
(* killed while it wrote them.  For any calls, methods and time limits,    *)
(* the access gate serves no rights older than they may be.  And for any   *)
(* tools and requests, an answer is taken whole and within the limit,      *)
(* server_stop means that everything is closed, and a difference of        *)
(* versions is only reported of an answer.                                 *)
(***************************************************************************)
EXTENDS Transport, TlsKit, AccessGate, ServerLife, TLAPS

TransportInv == TransportTypeOK /\ ListensAsTold /\ PassedHasToken

\* A number that is served is positive, whatever was written.
LEMMA NumberIsPositive ==
    ASSUME NEW n \in Int, NEW m \in Int
    PROVE  Number(n, m) \in Nat \ {0}
  BY TransportAssumption DEF Number, EnvInt

\* Merging and checking together: what listens is what was asked for.
LEMMA LaunchListens ==
    ASSUME NEW e \in Envs, NEW f \in Flags, ~ConfigError(e, f), Merged(e, f).transport # "stdio"
    PROVE  /\ Merged(e, f).token \notin {"", "nonascii"}
           /\ f.token # "" => Merged(e, f).token = f.token
           /\ f.token = "" => Merged(e, f).token \in {e.token, e.tokenFile}
           /\ Listener(Merged(e, f)).tls = "none" =>
                 "http" \in {e.transport, f.transport} /\ (e.insecure \/ f.insecure)
           /\ Listener(Merged(e, f)).tls = "given" => Merged(e, f).key # ""
<1> DEFINE c == Merged(e, f)
<1>1. TransportOk(c)
  BY DEF ConfigError
<1>2. /\ c.token \notin {"", "nonascii"}
      /\ c.transport = "http" => c.insecure
      /\ (c.cert = "") = (c.key = "")
  BY <1>1 DEF TransportOk
<1>3. /\ c.token = Or(f.token, Secret(e.token, e.tokenFile))
      /\ c.insecure = (f.insecure \/ e.insecure)
      /\ c.transport = IF Or(f.transport, e.transport) = "" THEN "stdio"
                       ELSE Or(f.transport, e.transport)
  BY DEF Merged
<1>4. f.token # "" => c.token = f.token
  BY <1>3 DEF Or
<1>5. f.token = "" => c.token \in {e.token, e.tokenFile}
  BY <1>3 DEF Or, Secret
<1>6. Listener(c).tls = "none" =>
          "http" \in {e.transport, f.transport} /\ (e.insecure \/ f.insecure)
  <2>1. Listener(c).tls = "none" => c.transport = "http"
    BY DEF Listener
  <2>2. c.transport = "http" => "http" \in {e.transport, f.transport}
    BY <1>3 DEF Or
  <2> QED
    BY <1>2, <1>3, <2>1, <2>2
<1>7. Listener(c).tls = "given" => c.key # ""
  BY <1>2 DEF Listener
<1> QED
  BY <1>2, <1>4, <1>5, <1>6, <1>7

LEMMA InitStep == TransportInit => TransportInv
  BY DEF TransportInit, TransportInv, TransportTypeOK, ListensAsTold, PassedHasToken

LEMMA LaunchStep == TransportInv /\ Launch => TransportInv'
<1> SUFFICES ASSUME TransportInv, Launch PROVE TransportInv'
  OBVIOUS
<1>1. PICK e \in Envs, f \in Flags :
          /\ env' = e /\ flags' = f /\ config' = Merged(e, f)
          /\ serving' = CASE ConfigError(e, f) -> "failed"
                          [] ~ConfigError(e, f) /\ f.dumpExtensions /\ ~(f.install /\ f.dump) -> "failed"
                          [] ~ConfigError(e, f) /\ f.install /\ (f.dumpExtensions => f.dump) -> "install"
                          [] OTHER -> IF config'.transport = "stdio" THEN "stdio" ELSE "listening"
  BY DEF Launch
<1>2. given' = "none"
  BY DEF Launch
<1>3. serving' \in {"off", "failed", "install", "stdio", "listening"}
  BY <1>1
<1>4. config'.number \in Nat \ {0}
  <2>1. config'.number = Number(f.number, e.number)
    BY <1>1 DEF Merged
  <2>2. e.number \in Int /\ f.number \in Int
    BY TransportAssumption DEF ParsedFlags
  <2> QED
    BY <2>1, <2>2, NumberIsPositive
<1>5. TransportTypeOK'
  BY <1>1, <1>2, <1>3, <1>4, TransportAssumption DEF TransportTypeOK
<1>6. ListensAsTold'
  <2> SUFFICES ASSUME serving' = "listening" PROVE ListensAsTold'
    BY DEF ListensAsTold
  <2>1. ~ConfigError(e, f) /\ Merged(e, f).transport # "stdio"
    BY <1>1
  <2> QED
    BY <1>1, <2>1, LaunchListens DEF ListensAsTold
<1>7. PassedHasToken'
  BY <1>2 DEF PassedHasToken
<1> QED
  BY <1>5, <1>6, <1>7 DEF TransportInv

LEMMA RequestKeeps == TransportInv /\ HttpRequest => TransportInv'
<1> SUFFICES ASSUME TransportInv, HttpRequest PROVE TransportInv'
  OBVIOUS
<1>1. TransportTypeOK' /\ ListensAsTold'
  BY DEF TransportInv, HttpRequest, TransportTypeOK, ListensAsTold, Listener
<1>2. PassedHasToken'
  <2> SUFFICES ASSUME given' = "passed", asked'.scope = "http"
               PROVE  /\ asked'.authorization = <<<<"Bearer", config.token>>>>
                      /\ config.token # ""
    BY DEF HttpRequest, PassedHasToken
  <2>1. Authorized(asked'.authorization, config.token)
    BY DEF HttpRequest, Listener
  <2>2. \/ asked'.authorization = <<>>
        \/ \E h \in {"Bearer", "Basic"} \X Tokens : asked'.authorization = <<h>>
        \/ \E h \in {"Bearer"} \X Tokens : asked'.authorization = <<<<"Bearer", "a">>, h>>
    BY DEF HttpRequest
  <2>3. asked'.authorization = <<<<"Bearer", config.token>>>>
    <3>1. DOMAIN asked'.authorization = 1 .. 1 /\ asked'.authorization[1] = <<"Bearer", config.token>>
      BY <2>1 DEF Authorized
    <3>2. 1 .. 1 # 1 .. 0 /\ 1 .. 1 # 1 .. 2
      OBVIOUS
    <3>3. PICK h : asked'.authorization = <<h>>
      BY <2>2, <3>1, <3>2
    <3>4. h = <<"Bearer", config.token>>
      BY <3>1, <3>3
    <3> QED
      BY <3>3, <3>4
  <2>4. config.token # ""
    BY DEF TransportInv, ListensAsTold, HttpRequest
  <2> QED
    BY <2>3, <2>4
<1> QED
  BY <1>1, <1>2 DEF TransportInv

LEMMA NextStep == TransportInv /\ [TransportNext]_transportVars => TransportInv'
<1> SUFFICES ASSUME TransportInv, [TransportNext]_transportVars PROVE TransportInv'
  OBVIOUS
<1>1. CASE Launch
  BY <1>1, LaunchStep
<1>2. CASE HttpRequest
  BY <1>2, RequestKeeps
<1>3. CASE StopServer
  BY <1>3 DEF StopServer, TransportInv, TransportTypeOK, ListensAsTold, PassedHasToken
<1>4. CASE UNCHANGED transportVars
  <2>1. UNCHANGED <<env, flags, config, serving, asked, given>>
    BY <1>4 DEF transportVars
  <2>2. TransportTypeOK'
    BY <2>1 DEF TransportInv, TransportTypeOK
  <2>3. ListensAsTold'
    BY <2>1 DEF TransportInv, ListensAsTold, Listener
  <2>4. PassedHasToken'
    BY <2>1 DEF TransportInv, PassedHasToken
  <2> QED
    BY <2>2, <2>3, <2>4 DEF TransportInv
<1> QED
  BY <1>1, <1>2, <1>3, <1>4 DEF TransportNext

\* For all environments and flags: a listening server has the token it was given,
\* by the flag before the file or the variable, and TLS unless plain http was
\* chosen and allowed (load_config and _check_transport).
THEOREM ListensOnlyAsTold == TransportSpec => []ListensAsTold
<1>1. TransportSpec => []TransportInv
  BY InitStep, NextStep, PTL DEF TransportSpec
<1> QED
  BY <1>1, PTL DEF TransportInv

\* For all tokens, over any number of restarts: what _BearerAuthASGI passes on
\* carries the token of this start, and no second one.
THEOREM OnlyTheTokenPasses == TransportSpec => []PassedHasToken
<1>1. TransportSpec => []TransportInv
  BY InitStep, NextStep, PTL DEF TransportSpec
<1> QED
  BY <1>1, PTL DEF TransportInv

\* Whatever was written in the environment, a number that is used is positive.
THEOREM TransportTypeCorrect == TransportSpec => []TransportTypeOK
<1>1. TransportSpec => []TransportInv
  BY InitStep, NextStep, PTL DEF TransportSpec
<1> QED
  BY <1>1, PTL DEF TransportInv

--------------------------------------------------------------------------------
(* The self-signed TLS files: TlsKit *)

\* One process at a time uses the directory.
Alone == \A p, q \in Procs : p = q

KitTypeOK ==
    /\ onDisk \in [KitFiles -> Nat \cup {Absent, Empty}]
    /\ kitsMade \in Nat
    /\ kitPc \in [Procs -> {"off", "open", "write", "load", "up", "refused"}]
    /\ nextFile \in [Procs -> 1 .. 3]
    /\ kitOf \in [Procs -> Nat]

\* The files are written in their order: a CA is there only behind a pair that
\* fits, and a process that writes a file has written the ones before it.
Behind(p) ==
    /\ kitPc[p] \in {"load", "up"} => KitFits
    /\ kitPc[p] \in {"open", "write"} =>
          /\ onDisk["ca"] = Absent \/ (kitPc[p] = "write" /\ nextFile[p] = 3)
          /\ nextFile[p] >= 2 => onDisk["key"] = kitOf[p]
          /\ nextFile[p] = 3 => onDisk["cert"] = kitOf[p]
    /\ kitPc[p] # "refused"

InOrder == (onDisk["ca"] # Absent => KitFits) /\ \A p \in Procs : Behind(p)

KitInv == KitTypeOK /\ InOrder

USE SentinelAssumption DEF KitFiles, KitOrder, KitFits

\* Every step keeps the types.
LEMMA KitTypeStep == KitTypeOK /\ [KitNext]_kitVars => KitTypeOK'
<1> SUFFICES ASSUME KitTypeOK, [KitNext]_kitVars PROVE KitTypeOK'
  OBVIOUS
<1> USE DEF KitTypeOK
<1>1. ASSUME NEW p \in Procs, EnsureKit(p) PROVE KitTypeOK'
  BY <1>1 DEF EnsureKit, KitGoto
<1>2. ASSUME NEW p \in Procs, OpenFile(p) PROVE KitTypeOK'
  BY <1>2 DEF OpenFile, KitGoto
<1>3. ASSUME NEW p \in Procs, WriteFile(p) PROVE KitTypeOK'
  BY <1>3 DEF WriteFile, KitGoto
<1>4. ASSUME NEW p \in Procs, LoadKit(p) \/ StopUser(p) PROVE KitTypeOK'
  BY <1>4 DEF LoadKit, StopUser, KitGoto
<1>5. CASE RemoveDirectory
  BY <1>5 DEF RemoveDirectory
<1>6. CASE UNCHANGED kitVars
  BY <1>6 DEF kitVars
<1> QED
  BY <1>1, <1>2, <1>3, <1>4, <1>5, <1>6 DEF KitNext

\* A process that has the directory to itself keeps the files in their order.
LEMMA KitOrderStep ==
    ASSUME Alone, KitInv, [KitNext]_kitVars
    PROVE  InOrder'
<1> USE DEF KitInv, KitTypeOK, InOrder, Behind
<1>1. ASSUME NEW p \in Procs, EnsureKit(p) PROVE InOrder'
  BY <1>1 DEF EnsureKit, KitGoto, Alone
<1>2. ASSUME NEW p \in Procs, OpenFile(p) PROVE InOrder'
  BY <1>2 DEF OpenFile, KitGoto, Alone
<1>3. ASSUME NEW p \in Procs, WriteFile(p) PROVE InOrder'
  BY <1>3 DEF WriteFile, KitGoto, Alone
<1>4. ASSUME NEW p \in Procs, LoadKit(p) \/ StopUser(p) PROVE InOrder'
  BY <1>4 DEF LoadKit, StopUser, KitGoto, Alone
<1>5. CASE RemoveDirectory
  BY <1>5 DEF RemoveDirectory
<1>6. CASE UNCHANGED kitVars
  BY <1>6 DEF kitVars
<1> QED
  BY <1>1, <1>2, <1>3, <1>4, <1>5, <1>6 DEF KitNext

\* No start of a server that is alone in its directory is refused: after any
\* crashes, three files that exist hold a certificate that fits its key.
THEOREM LoneStartFindsPair == ASSUME Alone PROVE KitSpec => []StartFindsPair
<1>1. KitInit => KitInv
  BY DEF KitInit, KitInv, KitTypeOK, InOrder, Behind
<1>2. KitInv /\ [KitNext]_kitVars => KitInv'
  BY KitTypeStep, KitOrderStep DEF KitInv
<1>3. KitInv => StartFindsPair
  BY DEF KitInv, InOrder, Behind, StartFindsPair
<1> QED
  BY <1>1, <1>2, <1>3, PTL DEF KitSpec

--------------------------------------------------------------------------------
(* The access gate: AccessGate. The inductive invariant IInv bounds, for the      *)
(* cached and for the arriving answer, how long ago a method it lists may have    *)
(* been lost by what is left of the answer's deadline.                            *)

USE TimesAssumption

--------------------------------------------------------------------------------
(* Types *)

\* The initial state is well typed.
LEMMA TypeInit == Init => TypeOK
<1> SUFFICES ASSUME Init PROVE TypeOK
  OBVIOUS
<1>1. OnecType /\ ExchangeType
  BY DEF Init, OnecType, ExchangeType
<1>4. CacheType
  <2>1. failed \in BOOLEAN
    BY DEF Init
  <2> QED
    BY <2>1 DEF Init, CacheType
<1>2. CallsType
  BY DEF Init, CallsType
<1>3. HistoryType
  BY DEF Init, HistoryType, Horizon
<1> QED
  BY <1>1, <1>2, <1>3, <1>4 DEF TypeOK

\* Recording an answer and ending the request keep the types.
LEMMA RememberType ==
    ASSUME NEW rights \in SUBSET Methods, NEW error \in BOOLEAN,
           Remember(rights, error)
    PROVE  CacheType' /\ quiet' \in 0 .. OkTtl
BY DEF Remember, CacheType

\* The end of a call keeps the types of the calls.
LEMMA SettleType ==
    ASSUME CallsType, NEW c \in Calls, NEW rights \in SUBSET Methods,
           Settle(c, rights), UNCHANGED asks,
           ahead' = ahead \/ ahead' = Overtaken(c)
    PROVE  CallsType'
<1>1. ahead' \in [Calls -> SUBSET Calls]
  BY DEF CallsType, Overtaken
<1>2. pc' \in [Calls -> {"idle", "waiting", "fetching", "served", "denied", "cancelled"}]
  BY DEF CallsType, Settle
<1> QED
  BY <1>1, <1>2 DEF CallsType

\* Every step keeps the types.
LEMMA TypeStep == TypeOK /\ [Next]_vars => TypeOK'
<1> SUFFICES ASSUME TypeOK, [Next]_vars PROVE TypeOK'
  OBVIOUS
<1> USE DEF TypeOK
<1>1. ASSUME NEW c \in Calls, NEW a \in Methods \cup {List}, Call(c, a)
      PROVE  TypeOK'
  <2>1. Waiters \in SUBSET Calls
    BY DEF Waiters
  <2>2. CallsType'
    BY <1>1, <2>1 DEF Call, CallsType
  <2> QED
    BY <1>1, <2>2 DEF Call, OnecType, CacheType, ExchangeType, HistoryType,
                      onec, cache, exchange, history
<1>2. ASSUME NEW c \in Calls, Gate(c)
      PROVE  TypeOK'
  <2>1. CASE Hit(c)
    <3>1. CallsType'
      BY <2>1, SettleType DEF Hit, CacheType
    <3> QED
      BY <2>1, <3>1 DEF Hit, OnecType, CacheType, ExchangeType, HistoryType,
                        onec, cache, exchange, history
  <2>2. CASE Ask(c)
    <3>1. CallsType'
      BY <2>2 DEF Ask, CallsType, Overtaken
    <3>2. ExchangeType'
      BY <2>2 DEF Ask, ExchangeType
    <3> QED
      BY <2>2, <3>1, <3>2 DEF Ask, OnecType, CacheType, HistoryType,
                              onec, cache, history
  <2> QED
    BY <1>2, <2>1, <2>2 DEF Gate
<1>3. ASSUME NEW c \in Calls, Fetch(c)
      PROVE  TypeOK'
  <2>1. EndRequest /\ UNCHANGED <<onec, asks, ahead, gone>>
    BY <1>3 DEF Fetch, Receive, Refuse
  <2>2. PICK rights \in SUBSET Methods, error \in BOOLEAN :
           Remember(rights, error) /\ Settle(c, rights)
    BY <1>3 DEF Fetch, Receive, Refuse, ExchangeType
  <2>3. CacheType' /\ quiet' \in 0 .. OkTtl
    BY <2>2, RememberType
  <2>4. CallsType'
    BY <2>1, <2>2, SettleType
  <2>5. ExchangeType'
    BY <2>1 DEF EndRequest, ExchangeType
  <2> QED
    BY <2>1, <2>3, <2>4, <2>5 DEF OnecType, HistoryType, onec
<1>4. ASSUME NEW c \in Calls, Cancel(c)
      PROVE  TypeOK'
  <2>1. CallsType'
    BY <1>4 DEF Cancel, CallsType, Overtaken
  <2>2. ExchangeType'
    BY <1>4 DEF Cancel, EndRequest, ExchangeType, exchange
  <2> QED
    BY <1>4, <2>1, <2>2 DEF Cancel, OnecType, CacheType, HistoryType,
                            onec, cache, history
<1>5. ASSUME NEW rights \in SUBSET Methods, Grant(rights)
      PROVE  TypeOK'
  <2>1. HistoryType'
    BY <1>5 DEF Grant, HistoryType, Horizon
  <2> QED
    BY <1>5, <2>1 DEF Grant, OnecType, CacheType, ExchangeType, CallsType,
                      cache, exchange, calls
<1>6. CASE Answer \/ Break
  <2>1. ExchangeType'
    BY <1>6 DEF Answer, Break, ExchangeType, OnecType
  <2> QED
    BY <1>6, <2>1 DEF Answer, Break, OnecType, CacheType, CallsType, HistoryType,
                      onec, cache, calls, history
<1>7. CASE Switch
  BY <1>7 DEF Switch, OnecType, CacheType, ExchangeType, CallsType, HistoryType,
              cache, exchange, calls, history
<1>8. CASE Tick
  <2>1. CacheType' /\ ExchangeType'
    BY <1>8 DEF Tick, CacheType, ExchangeType, CountDown
  <2>2. HistoryType'
    BY <1>8 DEF Tick, HistoryType, CountUp, Horizon
  <2> QED
    BY <1>8, <2>1, <2>2 DEF Tick, OnecType, CallsType, onec, calls
<1>9. CASE UNCHANGED vars
  BY <1>9 DEF vars, onec, cache, exchange, calls, history, OnecType, CacheType,
              ExchangeType, CallsType, HistoryType
<1> QED
  BY <1>1, <1>2, <1>3, <1>4, <1>5, <1>6, <1>7, <1>8, <1>9 DEF Next

\* Every variable keeps its type; no deadline and no history counter leaves
\* its range.
THEOREM TypeCorrect == Spec => []TypeOK
BY TypeInit, TypeStep, PTL DEF Spec

--------------------------------------------------------------------------------
(* The inductive invariant *)

\* One call at most is in the request, and no request runs without its call.
Exclusive ==
    /\ \A c, d \in Calls : pc[c] = "fetching" /\ pc[d] = "fetching" => c = d
    /\ request # "none" => Locked

\* A method of the cached answer was lost at most OkTtl + Timeout - ttl ago, a
\* method of the arriving answer at most Timeout - timer ago.
CacheRecent == ttl > 0 => \A m \in allowed : gone[m] + ttl <= Horizon
ReplyRecent == request = "good" => \A m \in reply : gone[m] + timer <= Timeout

\* The history of a granted method starts anew.
Counted == \A m \in granted : gone[m] = 0

\* What is left of the time to live and what has passed make up the whole.
Expiry == quiet + ttl >= IF allowed # {} THEN OkTtl ELSE FailTtl

IInv == TypeOK /\ Counted /\ Exclusive /\ CacheRecent /\ ReplyRecent /\ Expiry

\* The inductive invariant holds before the first call.
LEMMA IInvInit == Init => IInv
<1> SUFFICES ASSUME Init PROVE IInv
  OBVIOUS
<1>1. TypeOK
  BY TypeInit
<1>2. Counted /\ Exclusive /\ CacheRecent /\ ReplyRecent /\ Expiry
  BY DEF Init, Counted, Exclusive, CacheRecent, ReplyRecent, Expiry
<1> QED
  BY <1>1, <1>2 DEF IInv

\* The history counters mean what they say across a tick.
LEMMA TickRecent ==
    ASSUME IInv, Tick
    PROVE  CacheRecent' /\ ReplyRecent' /\ Expiry'
<1>1. ASSUME NEW m \in Methods
      PROVE  gone[m] \in 0 .. Horizon + 1 /\ gone'[m] \in {0, gone[m] + 1, Horizon + 1}
             /\ (gone[m] < Horizon + 1 => gone'[m] <= gone[m] + 1)
  BY DEF IInv, TypeOK, HistoryType, Tick, CountUp, Horizon
<1>2. CacheRecent'
  <2> SUFFICES ASSUME ttl' > 0, NEW m \in allowed PROVE gone'[m] + ttl' <= Horizon
    BY DEF CacheRecent, Tick
  <2>1. ttl \in Nat /\ ttl > 0 /\ ttl' = ttl - 1
    BY DEF Tick, CountDown, IInv, TypeOK, CacheType
  <2>2. m \in Methods /\ gone[m] + ttl <= Horizon
    BY <2>1 DEF IInv, CacheRecent, TypeOK, CacheType
  <2> QED
    BY <1>1, <2>1, <2>2 DEF Horizon
<1>3. ReplyRecent'
  <2> SUFFICES ASSUME request = "good", NEW m \in reply PROVE gone'[m] + timer' <= Timeout
    BY DEF ReplyRecent, Tick
  <2>1. timer \in Nat /\ timer > 0 /\ timer' = timer - 1
    BY DEF Tick, CountDown, IInv, TypeOK, ExchangeType, Exclusive
  <2>2. m \in Methods /\ gone[m] + timer <= Timeout
    BY DEF IInv, ReplyRecent, TypeOK, ExchangeType
  <2> QED
    BY <1>1, <2>1, <2>2 DEF Horizon
<1>4. Expiry'
  BY DEF IInv, TypeOK, CacheType, HistoryType, Expiry, Tick, CountDown, CountUp
<1> QED
  BY <1>2, <1>3, <1>4

\* Every step keeps the inductive invariant.
LEMMA IInvStep == IInv /\ [Next]_vars => IInv'
<1> SUFFICES ASSUME IInv, [Next]_vars PROVE IInv'
  OBVIOUS
<1>1. TypeOK'
  BY TypeStep DEF IInv
<1>12. Counted'
  BY DEF IInv, TypeOK, OnecType, HistoryType, Counted, Next, Call, Gate, Hit, Ask, Fetch,
         Receive, Refuse, Cancel, Grant, Answer, Break, Switch, Tick, vars, onec, history
<1> SUFFICES Exclusive' /\ CacheRecent' /\ ReplyRecent' /\ Expiry'
  BY <1>1, <1>12 DEF IInv
<1>2. ASSUME NEW c \in Calls, NEW a \in Methods \cup {List}, Call(c, a)
      PROVE  Exclusive' /\ CacheRecent' /\ ReplyRecent' /\ Expiry'
  <2>1. Exclusive'
    BY <1>2 DEF Call, IInv, TypeOK, CallsType, Exclusive, Locked, exchange
  <2> QED
    BY <1>2, <2>1 DEF Call, IInv, CacheRecent, ReplyRecent, Expiry,
                      cache, exchange, history
<1>3. ASSUME NEW c \in Calls, Hit(c)
      PROVE  Exclusive' /\ CacheRecent' /\ ReplyRecent' /\ Expiry'
  <2>1. Exclusive'
    BY <1>3 DEF Hit, Settle, Acquires, IInv, TypeOK, CallsType, Exclusive, Locked, exchange
  <2> QED
    BY <1>3, <2>1 DEF Hit, IInv, CacheRecent, ReplyRecent, Expiry,
                      cache, exchange, history
<1>4. ASSUME NEW c \in Calls, Ask(c)
      PROVE  Exclusive' /\ CacheRecent' /\ ReplyRecent' /\ Expiry'
  <2>1. Exclusive'
    BY <1>4 DEF Ask, Acquires, IInv, TypeOK, CallsType, Exclusive, Locked
  <2> QED
    BY <1>4, <2>1 DEF Ask, IInv, CacheRecent, ReplyRecent, Expiry, cache, history
<1>5. ASSUME NEW c \in Calls, Fetch(c)
      PROVE  Exclusive' /\ CacheRecent' /\ ReplyRecent' /\ Expiry'
  <2>1. pc[c] = "fetching" /\ EndRequest /\ UNCHANGED gone
    BY <1>5 DEF Fetch, Receive, Refuse
  <2>2. PICK rights \in SUBSET Methods, error \in BOOLEAN :
           /\ Remember(rights, error) /\ Settle(c, rights)
           /\ \A m \in rights : request = "good" /\ m \in reply
    <3>1. CASE Receive(c)
      <4>1. Remember(reply, FALSE) /\ Settle(c, reply) /\ request = "good"
        BY <3>1 DEF Receive
      <4> QED
        BY <4>1 DEF IInv, TypeOK, ExchangeType
    <3>2. CASE Refuse(c)
      <4>1. Remember({}, TRUE) /\ Settle(c, {})
        BY <3>2 DEF Refuse
      <4>2. {} \in SUBSET Methods /\ TRUE \in BOOLEAN /\ \A m \in {} : m \in reply
        OBVIOUS
      <4> QED
        BY <4>1, <4>2, Zenon
    <3> QED
      BY <1>5, <3>1, <3>2 DEF Fetch
  <2>3. Exclusive'
    BY <2>1, <2>2 DEF Settle, EndRequest, IInv, TypeOK, CallsType, Exclusive
  <2>4. \A m \in rights : gone[m] \in Nat /\ gone[m] <= Timeout
    BY <2>2 DEF IInv, TypeOK, ReplyRecent, ExchangeType, HistoryType, Horizon
  <2>5. CacheRecent'
    BY <2>1, <2>2, <2>4 DEF Remember, CacheRecent, Horizon
  <2>6. ReplyRecent'
    BY <2>1 DEF EndRequest, ReplyRecent
  <2>7. Expiry'
    BY <2>2 DEF Remember, Expiry
  <2> QED
    BY <2>3, <2>5, <2>6, <2>7
<1>6. ASSUME NEW c \in Calls, Cancel(c)
      PROVE  Exclusive' /\ CacheRecent' /\ ReplyRecent' /\ Expiry'
  <2>1. Exclusive'
    BY <1>6 DEF Cancel, EndRequest, IInv, TypeOK, CallsType, Exclusive, Locked, exchange
  <2>2. ReplyRecent'
    BY <1>6 DEF Cancel, EndRequest, IInv, ReplyRecent, exchange, history
  <2> QED
    BY <1>6, <2>1, <2>2 DEF Cancel, IInv, CacheRecent, Expiry, cache, history
<1>7. ASSUME NEW rights \in SUBSET Methods, Grant(rights)
      PROVE  Exclusive' /\ CacheRecent' /\ ReplyRecent' /\ Expiry'
  <2>1. \A m \in Methods : gone[m] \in Nat /\ gone'[m] \in Nat /\ gone'[m] <= gone[m]
    BY <1>7 DEF Grant, IInv, TypeOK, HistoryType, Horizon
  <2>2. CacheRecent'
    BY <1>7, <2>1 DEF Grant, IInv, TypeOK, CacheType, CacheRecent, Horizon, cache
  <2>3. ReplyRecent'
    BY <1>7, <2>1 DEF Grant, IInv, TypeOK, ExchangeType, ReplyRecent, exchange
  <2> QED
    BY <1>7, <2>2, <2>3 DEF Grant, IInv, Exclusive, Locked, Expiry,
                            cache, exchange, calls
<1>8. CASE Answer
  <2>1. Exclusive'
    BY <1>8 DEF Answer, IInv, Exclusive, Locked, calls
  <2>2. ReplyRecent'
    BY <1>8 DEF Answer, IInv, TypeOK, ExchangeType, Counted, ReplyRecent, history
  <2> QED
    BY <1>8, <2>1, <2>2 DEF Answer, IInv, CacheRecent, Expiry, cache, history
<1>9. CASE Break \/ Switch
  BY <1>9 DEF Break, Switch, IInv, Exclusive, Locked, CacheRecent, ReplyRecent, Expiry,
              cache, exchange, calls, history
<1>10. CASE Tick
  <2>1. Exclusive'
    BY <1>10 DEF Tick, IInv, Exclusive, Locked, calls
  <2> QED
    BY <1>10, <2>1, TickRecent
<1>11. CASE UNCHANGED vars
  BY <1>11 DEF vars, IInv, Exclusive, Locked, CacheRecent, ReplyRecent, Expiry,
               cache, exchange, calls, history
<1> QED
  BY <1>2, <1>3, <1>4, <1>5, <1>6, <1>7, <1>8, <1>9, <1>10, <1>11 DEF Next, Gate

\* The inductive invariant holds throughout.
LEMMA IInvInvariant == Spec => []IInv
BY IInvInit, IInvStep, PTL DEF Spec

--------------------------------------------------------------------------------
(* The action properties *)

\* Whatever the time limits, no tool is served on a right that was lost longer
\* ago than the time to live of the answer and the time limit of its request.
THEOREM RightsAreRecent == Spec => ServedRightsAreRecent
<1> DEFINE Recent ==
      \A c \in Calls :
          pc[c] # "served" /\ pc'[c] = "served" => \A m \in Uses(c, allowed') : gone'[m] <= Horizon
<1>1. IInv /\ [Next]_vars => [Recent]_vars
  <2> SUFFICES ASSUME IInv, Next,
                      NEW c \in Calls, pc[c] # "served", pc'[c] = "served",
                      NEW m \in Uses(c, allowed')
               PROVE  gone'[m] <= Horizon
    OBVIOUS
  <2>1. CASE Hit(c)
    <3>1. m \in allowed /\ ttl > 0
      BY <2>1 DEF Hit, Fresh, Settle, Uses, cache, IInv, TypeOK, CallsType
    <3>2. m \in Methods /\ ttl \in Nat /\ gone[m] \in Nat
      BY <3>1 DEF IInv, TypeOK, CacheType, HistoryType
    <3> QED
      BY <2>1, <3>1, <3>2 DEF Hit, IInv, CacheRecent, Horizon, history
  <2>2. CASE Receive(c)
    <3>1. m \in reply /\ request = "good"
      BY <2>2 DEF Receive, Remember, Settle, Uses, IInv, TypeOK, CallsType
    <3>2. m \in Methods /\ timer \in Nat /\ gone[m] \in Nat
      BY <3>1 DEF IInv, TypeOK, ExchangeType, HistoryType
    <3> QED
      BY <2>2, <3>1, <3>2 DEF Receive, IInv, ReplyRecent, Horizon
  <2>3. CASE Refuse(c)
    BY <2>3 DEF Refuse, Remember, Settle, Uses, IInv, TypeOK, CallsType
  <2>4. Hit(c) \/ Receive(c) \/ Refuse(c)
    <3>1. ASSUME NEW d \in Calls, d # c, Gate(d) \/ Fetch(d) PROVE FALSE
      BY <3>1 DEF Gate, Hit, Ask, Fetch, Receive, Refuse, Settle, IInv, TypeOK, CallsType
    <3>2. ASSUME NEW d \in Calls, NEW a \in Methods \cup {List}, Call(d, a) \/ Cancel(d)
          PROVE  FALSE
      BY <3>2 DEF Call, Cancel, IInv, TypeOK, CallsType
    <3>3. ~Ask(c)
      BY DEF Ask, IInv, TypeOK, CallsType
    <3>4. ~(Answer \/ Break \/ Switch \/ Tick \/ \E rights \in SUBSET Methods : Grant(rights))
      BY DEF Answer, Break, Switch, Tick, Grant, calls
    <3> QED
      BY <3>1, <3>2, <3>3, <3>4 DEF Next, Gate, Fetch
  <2> QED
    BY <2>1, <2>2, <2>3, <2>4
<1> QED
  BY <1>1, IInvInvariant, PTL DEF Spec, ServedRightsAreRecent

\* Whoever waits, one call at a time asks, and only when the last answer has
\* expired.
THEOREM OneRequestPerExpiry == Spec => AsksOncePerExpiry
<1> DEFINE Once ==
      \A c \in Calls :
          pc[c] # "fetching" /\ pc'[c] = "fetching"
             => /\ quiet >= IF allowed # {} THEN OkTtl ELSE FailTtl
                /\ \A d \in Calls : pc[d] # "fetching"
<1>1. IInv /\ [Next]_vars => [Once]_vars
  <2> SUFFICES ASSUME IInv, Next,
                      NEW c \in Calls, pc[c] # "fetching", pc'[c] = "fetching"
               PROVE  /\ quiet >= IF allowed # {} THEN OkTtl ELSE FailTtl
                      /\ \A d \in Calls : pc[d] # "fetching"
    OBVIOUS
  <2>1. Ask(c)
    BY DEF Next, Gate, Fetch, Call, Hit, Ask, Receive, Refuse, Settle, Cancel, Grant,
           Answer, Break, Switch, Tick, calls, IInv, TypeOK, CallsType
  <2>2. ttl = 0
    BY <2>1 DEF Ask, Fresh, IInv, TypeOK, CacheType
  <2>3. quiet >= IF allowed # {} THEN OkTtl ELSE FailTtl
    BY <2>2 DEF IInv, Expiry, TypeOK, HistoryType
  <2> QED
    BY <2>1, <2>3 DEF Ask, Acquires, Locked
<1> QED
  BY <1>1, IInvInvariant, PTL DEF Spec, AsksOncePerExpiry

--------------------------------------------------------------------------------
(* The client *)

\* Of a good answer never more than the limit is in memory, and a chunk more only
\* while it is being refused; a request that is not over has no result.
TaskOK(t) ==
    /\ at[t] \in {"idle", "sent", "tool", "done"} => held[t] = 0
    /\ status[t] = 200 <=> at[t] \in {"body", "closing", "decode"}
    /\ at[t] \in {"body", "decode"} => held[t] <= MaxSize
    /\ at[t] = "closing" => held[t] <= MaxSize + MaxChunk
    /\ at[t] = "decode" => held[t] = size[t]
    /\ at[t] \in InRequest => result[t] = "none"

ClientInv == ClientTypeOK /\ \A t \in Tasks : TaskOK(t)

\* A step of task t leaves the other tasks alone.
OthersStay(t) ==
    \A u \in Tasks \ {t} :
        /\ at'[u] = at[u] /\ status'[u] = status[u] /\ size'[u] = size[u]
        /\ held'[u] = held[u] /\ result'[u] = result[u]

LEMMA NotNegative == ASSUME NEW n \in Nat PROVE 0 <= n
  OBVIOUS

LEMMA OneTask ==
    ASSUME ClientInv, NEW t \in Tasks, ClientTypeOK', OthersStay(t), TaskOK(t)'
    PROVE  ClientInv'
<1>1. ASSUME NEW u \in Tasks, u # t PROVE TaskOK(u)'
  BY <1>1 DEF ClientInv, OthersStay, TaskOK
<1> QED
  BY <1>1 DEF ClientInv

\* The end of a request: memory is freed and the result is known.
LEMMA EndedFact ==
    ASSUME ClientTypeOK, NEW t \in Tasks,
           NEW how \in Refusals \cup {"answer", "cancelled", "other"}, Ended(t, how)
    PROVE  /\ status' \in [Tasks -> {0, 200, 500}] /\ status'[t] = 0
           /\ size' \in [Tasks -> 0 .. MaxAnswer]
           /\ held' \in [Tasks -> 0 .. MaxAnswer] /\ held'[t] = 0
           /\ result' \in [Tasks -> Refusals \cup {"none", "answer", "cancelled", "other"}]
           /\ result'[t] = how
           /\ \A u \in Tasks \ {t} : /\ status'[u] = status[u] /\ size'[u] = size[u]
                                     /\ held'[u] = held[u] /\ result'[u] = result[u]
<1>0. 0 \in 0 .. MaxAnswer
  BY ClientAssumption
<1>1. status' = [status EXCEPT ![t] = 0] /\ size' = [size EXCEPT ![t] = 0]
      /\ held' = [held EXCEPT ![t] = 0] /\ result' = [result EXCEPT ![t] = how]
  BY DEF Ended, Freed
<1> QED
  BY <1>0, <1>1 DEF ClientTypeOK

LEMMA PlaceFact ==
    ASSUME ClientTypeOK, NEW t \in Tasks,
           NEW place \in InRequest \cup {"idle", "tool", "done"}, GoTo(t, place)
    PROVE  /\ at' \in [Tasks -> InRequest \cup {"idle", "tool", "done"}]
           /\ at'[t] = place /\ \A u \in Tasks \ {t} : at'[u] = at[u]
  BY DEF GoTo, ClientTypeOK

\* Where a request ends, whichever way, a task without an answer is left.
LEMMA EndStep ==
    ASSUME ClientInv, NEW t \in Tasks,
           NEW how \in Refusals \cup {"answer", "cancelled", "other"}, Ended(t, how),
           NEW place \in {"tool", "done"}, GoTo(t, place),
           clientOpen' \in BOOLEAN, made' \in [Tasks -> 0 .. MaxRequests],
           outcome' \in [Tasks -> {"none", "text", "ToolError", "hidden", "cancelled"}]
    PROVE  ClientInv' /\ OthersStay(t)
<1>1. ClientTypeOK
  BY DEF ClientInv
<1>2. place \in InRequest \cup {"idle", "tool", "done"} /\ place \notin InRequest
  BY DEF InRequest, Awaiting
<1>3. /\ status' \in [Tasks -> {0, 200, 500}] /\ status'[t] = 0
      /\ size' \in [Tasks -> 0 .. MaxAnswer]
      /\ held' \in [Tasks -> 0 .. MaxAnswer] /\ held'[t] = 0
      /\ result' \in [Tasks -> Refusals \cup {"none", "answer", "cancelled", "other"}]
      /\ \A u \in Tasks \ {t} : /\ status'[u] = status[u] /\ size'[u] = size[u]
                                /\ held'[u] = held[u] /\ result'[u] = result[u]
  BY <1>1, EndedFact
<1>4. /\ at' \in [Tasks -> InRequest \cup {"idle", "tool", "done"}]
      /\ at'[t] = place /\ \A u \in Tasks \ {t} : at'[u] = at[u]
  BY <1>1, <1>2, PlaceFact
<1>5. ClientTypeOK'
  BY <1>3, <1>4 DEF ClientTypeOK
<1>6. OthersStay(t)
  BY <1>3, <1>4 DEF OthersStay
<1>7. TaskOK(t)'
  BY <1>2, <1>3, <1>4, ClientAssumption DEF TaskOK
<1> QED
  BY <1>5, <1>6, <1>7, OneTask

LEMMA MadeFact ==
    ASSUME NEW m \in 0 .. MaxRequests, m < MaxRequests
    PROVE  m + 1 \in 0 .. MaxRequests
  BY ClientAssumption

LEMMA SendStep ==
    ASSUME ClientInv, NEW t \in Tasks, SendRequest(t)
    PROVE  ClientInv' /\ OthersStay(t)
<1>1. ClientTypeOK /\ TaskOK(t)
  BY DEF ClientInv
<1>2. made' \in [Tasks -> 0 .. MaxRequests]
  <2>1. made' = [made EXCEPT ![t] = made[t] + 1] /\ made[t] < MaxRequests
    BY DEF SendRequest
  <2> QED
    BY <1>1, <2>1, MadeFact DEF ClientTypeOK
<1>3. CASE clientOpen
  <2>1. GoTo(t, "sent") /\ result' = [result EXCEPT ![t] = "none"]
        /\ UNCHANGED <<status, size, held, clientOpen, outcome>>
    BY <1>3 DEF SendRequest
  <2>2. "sent" \in InRequest
    BY DEF InRequest, Awaiting
  <2>3. ClientTypeOK'
    BY <1>1, <1>2, <2>1, <2>2, PlaceFact DEF ClientTypeOK
  <2>4. OthersStay(t)
    BY <1>1, <2>1, <2>2, PlaceFact DEF OthersStay, ClientTypeOK
  <2>5. TaskOK(t)'
    <3>1. at'[t] = "sent" /\ result'[t] = "none" /\ held'[t] = held[t] /\ status'[t] = status[t]
      BY <1>1, <2>1, <2>2, PlaceFact DEF ClientTypeOK
    <3>2. at[t] \in {"idle", "tool"}
      BY DEF SendRequest
    <3> QED
      BY <1>1, <3>1, <3>2 DEF TaskOK
  <2> QED
    BY <2>3, <2>4, <2>5, OneTask
<1>4. CASE ~clientOpen
  <2>1. GoTo(t, "tool") /\ Ended(t, "other") /\ UNCHANGED <<clientOpen, outcome>>
    BY <1>4 DEF SendRequest
  <2> QED
    BY <1>1, <1>2, <2>1, EndStep DEF ClientTypeOK
<1> QED
  BY <1>3, <1>4

LEMMA HeadersStep ==
    ASSUME ClientInv, NEW t \in Tasks, HeadersArrive(t)
    PROVE  ClientInv' /\ OthersStay(t)
<1>1. ClientTypeOK /\ TaskOK(t) /\ at[t] = "sent"
  <2>1. ClientTypeOK /\ TaskOK(t)
    BY DEF ClientInv
  <2>2. at[t] = "sent"
    BY DEF HeadersArrive
  <2> QED
    BY <2>1, <2>2
<1>2. PICK code \in {200, 500}, n \in 0 .. MaxAnswer :
          /\ status' = [status EXCEPT ![t] = code]
          /\ size' = [size EXCEPT ![t] = n]
          /\ GoTo(t, IF code = 200 THEN "body" ELSE "error_body")
  BY DEF HeadersArrive
<1>3. UNCHANGED <<clientOpen, held, made, result, outcome>>
  BY DEF HeadersArrive
<1>4. PICK place \in {"body", "error_body"} :
          GoTo(t, place) /\ (code = 200 <=> place = "body")
  BY <1>2
<1>5. /\ at' \in [Tasks -> InRequest \cup {"idle", "tool", "done"}]
      /\ at'[t] = place /\ \A u \in Tasks \ {t} : at'[u] = at[u]
  <2>1. place \in InRequest \cup {"idle", "tool", "done"}
    BY DEF InRequest, Awaiting
  <2> QED
    BY <1>1, <1>4, <2>1, PlaceFact
<1>6. /\ status' \in [Tasks -> {0, 200, 500}] /\ status'[t] = code
      /\ size' \in [Tasks -> 0 .. MaxAnswer]
      /\ \A u \in Tasks \ {t} : status'[u] = status[u] /\ size'[u] = size[u]
  BY <1>1, <1>2 DEF ClientTypeOK
<1>7. ClientTypeOK'
  BY <1>1, <1>3, <1>5, <1>6 DEF ClientTypeOK
<1>8. OthersStay(t)
  BY <1>3, <1>5, <1>6 DEF OthersStay
<1>9. TaskOK(t)'
  <2>1. held'[t] = 0 /\ result'[t] = "none"
    BY <1>1, <1>3 DEF TaskOK, InRequest, Awaiting
  <2>2. 0 <= MaxSize
    <3>1. MaxSize \in Nat
      BY ClientAssumption
    <3> QED
      BY <3>1, NotNegative, Zenon
  <2>3. at'[t] \in {"body", "error_body"} /\ (status'[t] = 200 <=> at'[t] = "body")
    BY <1>4, <1>5, <1>6
  <2> QED
    BY <2>1, <2>2, <2>3 DEF TaskOK
<1> QED
  BY <1>7, <1>8, <1>9, OneTask

\* A chunk more, within the answer.
LEMMA ChunkFact ==
    ASSUME NEW h \in 0 .. MaxAnswer, NEW z \in 0 .. MaxAnswer, NEW n \in 1 .. MaxChunk, h + n <= z
    PROVE  h + n \in 0 .. MaxAnswer
  BY ClientAssumption

LEMMA ErrorBodyStep ==
    ASSUME ClientInv, NEW t \in Tasks, ReadErrorBody(t)
    PROVE  ClientInv' /\ OthersStay(t)
<1>1. ClientTypeOK /\ TaskOK(t) /\ at[t] = "error_body" /\ UNCHANGED <<clientOpen, made, outcome>>
  BY DEF ClientInv, ReadErrorBody
<1>2. CASE held[t] < size[t]
  <2>1. PICK n \in 1 .. MaxChunk : held[t] + n <= size[t] /\ held' = [held EXCEPT ![t] = held[t] + n]
    BY <1>2 DEF ReadErrorBody
  <2>2. UNCHANGED <<at, status, size, result>>
    BY <1>2 DEF ReadErrorBody
  <2>3. ClientTypeOK'
    BY <1>1, <2>1, <2>2, ChunkFact DEF ClientTypeOK
  <2>4. OthersStay(t)
    BY <1>1, <2>1, <2>2 DEF OthersStay, ClientTypeOK
  <2>5. TaskOK(t)'
    BY <1>1, <2>2 DEF TaskOK
  <2> QED
    BY <2>3, <2>4, <2>5, OneTask
<1>3. CASE ~(held[t] < size[t])
  <2>1. Ended(t, "OneCError") /\ GoTo(t, "tool")
    BY <1>3 DEF ReadErrorBody
  <2> QED
    BY <1>1, <2>1, EndStep DEF ClientTypeOK, Refusals
<1> QED
  BY <1>2, <1>3

LEMMA ChunkStep ==
    ASSUME ClientInv, NEW t \in Tasks, ReadChunk(t)
    PROVE  ClientInv' /\ OthersStay(t)
<1>1. ClientTypeOK /\ TaskOK(t) /\ at[t] = "body" /\ UNCHANGED <<clientOpen, made, outcome>>
  BY DEF ClientInv, ReadChunk
<1>2. CASE held[t] = size[t]
  <2>1. GoTo(t, "decode") /\ UNCHANGED <<status, size, held, result>>
    BY <1>2 DEF ReadChunk
  <2>2. "decode" \in InRequest
    BY DEF InRequest, Awaiting
  <2>3. ClientTypeOK'
    BY <1>1, <2>1, <2>2, PlaceFact DEF ClientTypeOK
  <2>4. OthersStay(t)
    BY <1>1, <2>1, <2>2, PlaceFact DEF OthersStay
  <2>5. TaskOK(t)'
    <3>1. at'[t] = "decode"
      BY <1>1, <2>1, <2>2, PlaceFact
    <3>2. held[t] <= MaxSize /\ status[t] = 200 /\ result[t] = "none"
      BY <1>1 DEF TaskOK, InRequest, Awaiting
    <3> QED
      BY <1>2, <2>1, <3>1, <3>2 DEF TaskOK
  <2> QED
    BY <2>3, <2>4, <2>5, OneTask
<1>3. CASE held[t] # size[t]
  <2>1. PICK n \in 1 .. MaxChunk :
            /\ held[t] + n <= size[t] /\ held' = [held EXCEPT ![t] = held[t] + n]
            /\ GoTo(t, IF held[t] + n > MaxSize THEN "closing" ELSE "body")
    BY <1>3 DEF ReadChunk
  <2>2. UNCHANGED <<status, size, result>>
    BY <1>3 DEF ReadChunk
  <2>3. PICK place \in {"closing", "body"} :
            GoTo(t, place) /\ (place = "closing" <=> held[t] + n > MaxSize)
    BY <2>1
  <2>4. place \in InRequest
    BY DEF InRequest, Awaiting
  <2>5. ClientTypeOK'
    BY <1>1, <2>1, <2>2, <2>3, <2>4, PlaceFact, ChunkFact DEF ClientTypeOK
  <2>6. OthersStay(t)
    BY <1>1, <2>1, <2>2, <2>3, <2>4, PlaceFact DEF OthersStay, ClientTypeOK
  <2>7. TaskOK(t)'
    <3>1. at'[t] = place /\ held'[t] = held[t] + n
      BY <1>1, <2>1, <2>3, <2>4, PlaceFact DEF ClientTypeOK
    <3>2. held[t] <= MaxSize /\ status[t] = 200 /\ result[t] = "none"
      BY <1>1 DEF TaskOK, InRequest, Awaiting
    <3>3. held[t] \in Nat /\ n \in Nat /\ n <= MaxChunk /\ MaxSize \in Nat /\ MaxChunk \in Nat
      BY <1>1, ClientAssumption DEF ClientTypeOK
    <3>4. held[t] + n <= MaxSize + MaxChunk /\ (place = "body" => held[t] + n <= MaxSize)
      BY <2>3, <3>2, <3>3
    <3> QED
      BY <2>2, <3>1, <3>2, <3>4 DEF TaskOK
  <2> QED
    BY <2>5, <2>6, <2>7, OneTask
<1> QED
  BY <1>2, <1>3

LEMMA DecodeStep ==
    ASSUME ClientInv, NEW t \in Tasks, DecodeBody(t) \/ RequestFails(t) \/ CloseStream(t)
    PROVE  ClientInv' /\ OthersStay(t)
<1>1. ClientTypeOK /\ UNCHANGED <<clientOpen, made, outcome>> /\ GoTo(t, "tool")
  BY DEF ClientInv, DecodeBody, RequestFails, CloseStream
<1>2. PICK how \in {"answer", "OneCError", "too_large", "other"} : Ended(t, how)
  BY DEF DecodeBody, RequestFails, CloseStream
<1> QED
  BY <1>1, <1>2, EndStep DEF ClientTypeOK, Refusals

LEMMA RequestStepStep ==
    ASSUME ClientInv, NEW t \in Tasks, RequestStep(t)
    PROVE  ClientInv' /\ OthersStay(t)
  BY SendStep, HeadersStep, ErrorBodyStep, ChunkStep, DecodeStep DEF RequestStep

\* A task outside of a request begins or ends a call.
LEMMA MoveStep ==
    ASSUME ClientInv, NEW t \in Tasks, at[t] \in {"idle", "tool", "done"},
           NEW place \in {"tool", "done"}, GoTo(t, place), UNCHANGED <<clientOpen, status, size, held>>,
           result' \in [Tasks -> Refusals \cup {"none", "answer", "cancelled", "other"}],
           \A u \in Tasks \ {t} : result'[u] = result[u],
           made' \in [Tasks -> 0 .. MaxRequests],
           outcome' \in [Tasks -> {"none", "text", "ToolError", "hidden", "cancelled"}]
    PROVE  ClientInv' /\ OthersStay(t)
<1>1. ClientTypeOK /\ TaskOK(t)
  BY DEF ClientInv
<1>2. place \in InRequest \cup {"idle", "tool", "done"}
  OBVIOUS
<1>3. ClientTypeOK'
  BY <1>1, <1>2, PlaceFact DEF ClientTypeOK
<1>4. OthersStay(t)
  BY <1>1, <1>2, PlaceFact DEF OthersStay
<1>5. TaskOK(t)'
  BY <1>1, <1>2, PlaceFact DEF TaskOK, InRequest, Awaiting
<1> QED
  BY <1>3, <1>4, <1>5, OneTask

LEMMA CancelStep ==
    ASSUME ClientInv, NEW t \in Tasks, CancelTask(t)
    PROVE  ClientInv' /\ OthersStay(t)
<1>1. ClientTypeOK /\ UNCHANGED <<clientOpen, made>> /\ GoTo(t, "done")
  BY DEF ClientInv, CancelTask
<1>2. outcome' \in [Tasks -> {"none", "text", "ToolError", "hidden", "cancelled"}]
  BY <1>1 DEF CancelTask, ClientTypeOK
<1>3. CASE Ended(t, "cancelled")
  BY <1>1, <1>2, <1>3, EndStep DEF ClientTypeOK
<1>4. CASE at[t] = "tool" /\ UNCHANGED <<status, size, held, result>>
  BY <1>1, <1>2, <1>4, MoveStep DEF ClientTypeOK
<1> QED
  BY <1>3, <1>4 DEF CancelTask

LEMMA ToolEndStep ==
    ASSUME ClientInv, NEW t \in Tasks, ToolEnds(t)
    PROVE  ClientInv' /\ OthersStay(t)
<1>1. ClientTypeOK
  BY DEF ClientInv
<1>2. outcome' \in [Tasks -> {"none", "text", "ToolError", "hidden", "cancelled"}]
  BY <1>1 DEF ToolEnds, ClientTypeOK
<1> QED
  BY <1>1, <1>2, MoveStep DEF ToolEnds, ClientTypeOK

LEMMA BeginCallStep ==
    ASSUME ClientInv, NEW t \in Tasks, BeginCall(t)
    PROVE  ClientInv' /\ OthersStay(t)
<1>1. ClientTypeOK /\ 0 \in 0 .. MaxRequests
  BY ClientAssumption DEF ClientInv
<1>2. /\ made' \in [Tasks -> 0 .. MaxRequests]
      /\ outcome' \in [Tasks -> {"none", "text", "ToolError", "hidden", "cancelled"}]
      /\ result' \in [Tasks -> Refusals \cup {"none", "answer", "cancelled", "other"}]
      /\ \A u \in Tasks \ {t} : result'[u] = result[u]
  BY <1>1 DEF BeginCall, ClientTypeOK
<1> QED
  BY <1>2, MoveStep DEF BeginCall

\* What a step of a task does to its answer: decoded whole and within the limit,
\* refused as too large only beyond it.
Limited(t) ==
    /\ at[t] = "body" /\ at'[t] = "decode" => held[t] = size[t] /\ size[t] <= MaxSize
    /\ at[t] = "body" /\ at'[t] = "closing" => size[t] > MaxSize

LEMMA BeyondFact ==
    ASSUME NEW h \in Nat, NEW n \in Nat, NEW z \in Nat, NEW m \in Nat, h + n <= z, h + n > m
    PROVE  z > m
  OBVIOUS

LEMMA ChunkIsLimited ==
    ASSUME ClientInv, NEW t \in Tasks, ReadChunk(t)
    PROVE  Limited(t)
<1>1. ClientTypeOK /\ TaskOK(t) /\ at[t] = "body"
  BY DEF ClientInv, ReadChunk
<1>2. CASE held[t] = size[t]
  <2>1. at'[t] = "decode"
    BY <1>1, <1>2 DEF ReadChunk, GoTo, ClientTypeOK
  <2> QED
    BY <1>1, <1>2, <2>1 DEF Limited, TaskOK
<1>3. CASE held[t] # size[t]
  <2>1. PICK n \in 1 .. MaxChunk :
            /\ held[t] + n <= size[t]
            /\ GoTo(t, IF held[t] + n > MaxSize THEN "closing" ELSE "body")
    BY <1>3 DEF ReadChunk
  <2>2. at'[t] = IF held[t] + n > MaxSize THEN "closing" ELSE "body"
    BY <1>1, <2>1 DEF GoTo, ClientTypeOK
  <2>3. CASE held[t] + n > MaxSize
    <3>1. held[t] \in Nat /\ n \in Nat /\ size[t] \in Nat /\ MaxSize \in Nat
      BY <1>1, ClientAssumption DEF ClientTypeOK
    <3>2. size[t] > MaxSize
      BY <2>1, <2>3, <3>1, BeyondFact
    <3> QED
      BY <2>2, <2>3, <3>2 DEF Limited
  <2>4. CASE ~(held[t] + n > MaxSize)
    BY <2>2, <2>4 DEF Limited
  <2> QED
    BY <2>3, <2>4
<1> QED
  BY <1>2, <1>3

LEMMA LeavesLimited ==
    ASSUME ClientTypeOK, NEW t \in Tasks, NEW place \in {"tool", "done"}, GoTo(t, place)
    PROVE  Limited(t)
  BY DEF GoTo, ClientTypeOK, Limited

LEMMA RequestIsLimited ==
    ASSUME ClientInv, NEW t \in Tasks,
           RequestStep(t) \/ CancelTask(t) \/ ToolEnds(t) \/ BeginCall(t)
    PROVE  Limited(t)
<1>1. ClientTypeOK
  BY DEF ClientInv
<1>2. CASE SendRequest(t) \/ HeadersArrive(t) \/ ReadErrorBody(t) \/ DecodeBody(t)
           \/ CloseStream(t)
  BY <1>2 DEF Limited, SendRequest, HeadersArrive, ReadErrorBody, DecodeBody, CloseStream
<1>3. CASE ReadChunk(t)
  BY <1>3, ChunkIsLimited
<1>4. CASE RequestFails(t) \/ BeginCall(t)
  BY <1>1, <1>4, LeavesLimited DEF RequestFails, BeginCall
<1>5. CASE CancelTask(t) \/ ToolEnds(t)
  BY <1>1, <1>5, LeavesLimited DEF CancelTask, ToolEnds
<1> QED
  BY <1>2, <1>3, <1>4, <1>5 DEF RequestStep

--------------------------------------------------------------------------------
(* The server *)

\* No client but the closed one once the teardown is past it, and so on with the
\* indexes: server_stop is the last step of all.
TeardownInOrder ==
    /\ life \in {"index", "help", "log", "stopped"} => ~clientOpen
    /\ dumpBuilder = "none" => ~dumpOpen
    /\ life \in {"help", "log", "stopped"} /\ (dumpOpen \/ dumpBuilder = "running") => overtaken
    /\ life \in {"log", "stopped"} => help # "open"
    /\ Logged("server_stop") => life = "stopped"

\* The check runs once; its task is left alone when it is over.
CheckOnce ==
    /\ life = "created" => check = "none"
    /\ check = "over" => at[Check] = "done"
    /\ MismatchIsAnswered

LifeInv == ClientInv /\ LifeTypeOK /\ TeardownInOrder /\ CheckOnce

\* A step of one task, or of none.
OneTaskOnly ==
    /\ ClientInv' /\ UNCHANGED clientOpen
    /\ \/ \E t \in Tasks : OthersStay(t) /\ Limited(t)
       \/ UNCHANGED <<at, status, size, held, result>>

LEMMA KeepsOpen ==
    ASSUME NEW t \in Tasks, RequestStep(t) \/ CancelTask(t) \/ ToolEnds(t) \/ BeginCall(t)
    PROVE  UNCHANGED clientOpen
  BY DEF RequestStep, SendRequest, HeadersArrive, ReadErrorBody, ReadChunk, CloseStream,
         DecodeBody, RequestFails, CancelTask, ToolEnds, BeginCall

LEMMA ToolStepStep ==
    ASSUME ClientInv, NEW t \in Tasks, ToolStep(t)
    PROVE  OneTaskOnly /\ OthersStay(t) /\ t # Check /\ UNCHANGED lifeVars
<1>1. /\ RequestStep(t) \/ CancelTask(t) \/ ToolEnds(t) \/ BeginCall(t)
      /\ t \in Tools /\ UNCHANGED lifeVars
  BY DEF ToolStep
<1>2. ClientInv' /\ OthersStay(t)
  BY <1>1, RequestStepStep, CancelStep, ToolEndStep, BeginCallStep
<1>3. Limited(t)
  BY <1>1, RequestIsLimited
<1> QED
  BY <1>1, <1>2, <1>3, KeepsOpen, CheckAssumption DEF OneTaskOnly

\* The events after one more has been written.
LEMMA AppendFact ==
    ASSUME NEW S, NEW s \in Seq(S), NEW e \in S
    PROVE  /\ Append(s, e) \in Seq(S) /\ DOMAIN s = 1 .. Len(s) /\ Len(s) \in Nat
           /\ DOMAIN Append(s, e) = 1 .. Len(s) + 1
           /\ \A i \in 1 .. Len(s) : Append(s, e)[i] = s[i]
           /\ Append(s, e)[Len(s) + 1] = e
  OBVIOUS

Events == {"server_start", "mismatch", "server_stop"}

LEMMA LoggedFact ==
    ASSUME log \in Seq(Events), NEW e \in Events, log' = Append(log, e), NEW x \in Events, x # e
    PROVE  Logged(x)' => Logged(x)
  BY AppendFact DEF Logged

\* A step of a task other than Check: the events and what they say of Check stay.
LEMMA OthersKeepOrder ==
    ASSUME LifeInv, UNCHANGED clientOpen, UNCHANGED lifeVars
    PROVE  LifeTypeOK' /\ TeardownInOrder'
  BY DEF LifeInv, lifeVars, dumpVars, LifeTypeOK, TeardownInOrder, Logged

LEMMA OthersKeepCheck ==
    ASSUME LifeInv, NEW t \in Tasks, OthersStay(t), t # Check, UNCHANGED lifeVars
    PROVE  CheckOnce'
<1>1. at'[Check] = at[Check] /\ result'[Check] = result[Check]
  BY CheckAssumption DEF OthersStay
<1> QED
  BY <1>1 DEF LifeInv, lifeVars, CheckOnce, MismatchIsAnswered, Logged

LEMMA CheckRunsStep ==
    ASSUME LifeInv, CheckRuns
    PROVE  LifeInv' /\ OneTaskOnly
<1>1. Check \in Tasks /\ RequestStep(Check) /\ check = "running" /\ UNCHANGED lifeVars
  BY CheckAssumption DEF CheckRuns
<1>2. OneTaskOnly
  BY <1>1, RequestStepStep, RequestIsLimited, KeepsOpen DEF OneTaskOnly, LifeInv
<1>3. LifeTypeOK' /\ TeardownInOrder'
  BY <1>1, <1>2, OthersKeepOrder DEF OneTaskOnly
<1>4. CheckOnce'
  BY <1>1 DEF LifeInv, lifeVars, CheckOnce, MismatchIsAnswered, Logged
<1> QED
  BY <1>2, <1>3, <1>4 DEF LifeInv, OneTaskOnly

\* The check ends without an event.
LEMMA SilentEnd ==
    ASSUME LifeInv, check = "running", check' = "over", UNCHANGED <<life, cancelled, dumpVars, help, log>>,
           UNCHANGED clientOpen, at'[Check] = "done"
    PROVE  LifeTypeOK' /\ TeardownInOrder' /\ CheckOnce'
<1>1. ~Logged("mismatch") /\ life # "created"
  BY DEF LifeInv, CheckOnce, MismatchIsAnswered
<1>2. LifeTypeOK' /\ TeardownInOrder'
  BY DEF LifeInv, LifeTypeOK, TeardownInOrder, Logged, dumpVars
<1>3. ~Logged("mismatch")'
  BY <1>1 DEF Logged
<1> QED
  BY <1>1, <1>2, <1>3 DEF CheckOnce, MismatchIsAnswered

LEMMA CancelledCheck ==
    ASSUME ClientInv, CancelTask(Check)
    PROVE  OneTaskOnly /\ at'[Check] = "done"
<1>1. Check \in Tasks /\ GoTo(Check, "done")
  BY CheckAssumption DEF CancelTask
<1>2. OneTaskOnly
  BY <1>1, CancelStep, RequestIsLimited, KeepsOpen DEF OneTaskOnly
<1> QED
  BY <1>1, <1>2 DEF GoTo, ClientInv, ClientTypeOK

\* The task of the check is done, and its result stays.
DoneOnly ==
    /\ GoTo(Check, "done")
    /\ UNCHANGED <<clientOpen, status, size, held, made, result, outcome, trail>>

LEMMA DoneStep ==
    ASSUME ClientInv, at[Check] \in {"idle", "tool"}, DoneOnly
    PROVE  OneTaskOnly /\ at'[Check] = "done"
<1>1. ClientTypeOK /\ Check \in Tasks
  BY CheckAssumption DEF ClientInv
<1>2. at'[Check] = "done"
  BY <1>1 DEF DoneOnly, GoTo, ClientTypeOK
<1>3. ClientInv' /\ OthersStay(Check)
  BY <1>1, MoveStep DEF DoneOnly, ClientTypeOK
<1>4. Limited(Check)
  BY <1>2 DEF Limited
<1> QED
  BY <1>1, <1>2, <1>3, <1>4 DEF OneTaskOnly, DoneOnly

LEMMA CheckEndsStep ==
    ASSUME LifeInv, CheckTimesOut \/ CheckCancelled
    PROVE  LifeInv' /\ OneTaskOnly
<1>1. check = "running" /\ check' = "over" /\ UNCHANGED <<life, cancelled, dumpVars, help, log>>
  BY DEF CheckTimesOut, CheckCancelled
<1>2. CancelTask(Check) \/ (at[Check] = "idle" /\ DoneOnly)
  BY DEF CheckTimesOut, CheckCancelled, DoneOnly
<1>3. OneTaskOnly /\ at'[Check] = "done"
  BY <1>2, CancelledCheck, DoneStep DEF LifeInv
<1> QED
  BY <1>1, <1>3, SilentEnd DEF LifeInv, OneTaskOnly

LEMMA CompareStep ==
    ASSUME LifeInv, CompareVersion
    PROVE  LifeInv' /\ OneTaskOnly
<1>1. /\ check = "running" /\ check' = "over" /\ at[Check] = "tool" /\ DoneOnly
      /\ UNCHANGED <<life, cancelled, dumpVars, help>>
  BY DEF CompareVersion, DoneOnly
<1>2. OneTaskOnly /\ at'[Check] = "done" /\ UNCHANGED <<clientOpen, result>>
  BY <1>1, DoneStep DEF LifeInv, DoneOnly
<1>3. CASE UNCHANGED log
  BY <1>1, <1>2, <1>3, SilentEnd DEF LifeInv, OneTaskOnly
<1>4. CASE result[Check] = "answer" /\ log' = Append(log, "mismatch")
  <2>1. log \in Seq(Events) /\ "mismatch" \in Events /\ "server_stop" \in Events
    BY DEF LifeInv, LifeTypeOK, Events
  <2>2. LifeTypeOK'
    <3>1. log' \in Seq(Events)
      BY <1>4, <2>1, AppendFact
    <3> QED
      BY <1>1, <3>1 DEF LifeInv, LifeTypeOK, Events, dumpVars
  <2>3. TeardownInOrder'
    <3>1. Logged("server_stop")' => Logged("server_stop")
      BY <1>4, <2>1, LoggedFact
    <3> QED
      BY <1>1, <1>2, <3>1 DEF LifeInv, TeardownInOrder, dumpVars
  <2>4. ~Logged("mismatch") /\ life # "created"
    BY <1>1 DEF LifeInv, CheckOnce, MismatchIsAnswered
  <2>5. \A i \in DOMAIN log' : log'[i] = "mismatch" => i = Len(log) + 1
    BY <1>4, <2>1, <2>4, AppendFact DEF Logged
  <2>6. CheckOnce'
    BY <1>1, <1>2, <1>4, <2>4, <2>5 DEF CheckOnce, MismatchIsAnswered
  <2> QED
    BY <1>2, <2>2, <2>3, <2>6 DEF LifeInv, OneTaskOnly
<1> QED
  BY <1>3, <1>4 DEF CompareVersion

LEMMA EnterStep ==
    ASSUME LifeInv, EnterLifespan
    PROVE  LifeInv'
<1>1. /\ life = "created" /\ life' = "serving" /\ log' = Append(log, "server_start")
      /\ check' = "running" /\ UNCHANGED <<clientVars, cancelled, dumpVars, help>>
  BY DEF EnterLifespan
<1>2. log \in Seq(Events) /\ Events = {"server_start", "mismatch", "server_stop"}
  BY DEF LifeInv, LifeTypeOK, Events
<1>3. LifeTypeOK'
  <2>1. log' \in Seq(Events)
    BY <1>1, <1>2, AppendFact
  <2> QED
    BY <1>1, <2>1 DEF LifeInv, LifeTypeOK, Events, dumpVars
<1>4. ~Logged("mismatch")' /\ ~Logged("server_stop")'
  <2>1. ~Logged("mismatch") /\ ~Logged("server_stop")
    BY <1>1 DEF LifeInv, CheckOnce, MismatchIsAnswered, TeardownInOrder
  <2> QED
    BY <1>1, <1>2, <2>1, LoggedFact
<1>5. ClientInv'
  BY <1>1 DEF LifeInv, ClientInv, ClientTypeOK, TaskOK, clientVars
<1> QED
  BY <1>1, <1>3, <1>4, <1>5
     DEF LifeInv, TeardownInOrder, CheckOnce, MismatchIsAnswered, clientVars, dumpVars

\* Closing the client leaves every task where it is.
LEMMA ClientStays ==
    ASSUME ClientInv, clientOpen' \in BOOLEAN,
           UNCHANGED <<at, status, size, held, made, result, outcome, trail>>
    PROVE  ClientInv'
  BY DEF ClientInv, ClientTypeOK, TaskOK

LEMMA TeardownStep ==
    ASSUME LifeInv, LeaveLifespan \/ CloseClient \/ CloseDump \/ CloseHelp
    PROVE  LifeInv'
<1>1. /\ UNCHANGED <<at, status, size, held, made, result, outcome, trail>>
      /\ UNCHANGED <<check, log>>
  BY DEF LeaveLifespan, CloseClient, CloseDump, CloseHelp, clientVars
<1>2. ClientInv'
  <2>1. clientOpen' \in BOOLEAN
    BY DEF LifeInv, ClientInv, ClientTypeOK, LeaveLifespan, CloseClient, CloseDump, CloseHelp,
           clientVars
  <2> QED
    BY <1>1, <2>1, ClientStays DEF LifeInv
<1>3. (Logged("server_stop")' <=> Logged("server_stop"))
      /\ (Logged("mismatch")' <=> Logged("mismatch"))
  BY <1>1 DEF Logged
<1>4. CheckOnce'
  <2>1. life' # "created"
    BY DEF LeaveLifespan, CloseClient, CloseDump, CloseHelp
  <2> QED
    BY <1>1, <1>3, <2>1 DEF LifeInv, CheckOnce, MismatchIsAnswered
<1>5. CASE LeaveLifespan
  <2>1. life = "serving" /\ life' = "aclose" /\ cancelled' = TRUE
        /\ UNCHANGED <<clientVars, check, dumpVars, help, log>>
    BY <1>5 DEF LeaveLifespan
  <2>2. LifeTypeOK'
    BY <2>1 DEF LifeInv, LifeTypeOK, dumpVars
  <2>3. ~Logged("server_stop")
    BY <2>1 DEF LifeInv, TeardownInOrder
  <2> HIDE DEF Logged
  <2> QED
    BY <1>2, <1>3, <1>4, <2>1, <2>2, <2>3 DEF LifeInv, TeardownInOrder, clientVars, dumpVars
<1>6. CASE CloseClient
  <2>1. /\ life = "aclose" /\ UNCHANGED <<check, cancelled, dumpVars, help, log>>
        /\ (life' = "index" /\ ~clientOpen') \/ life' = "raised"
    BY <1>6 DEF CloseClient
  <2>2. LifeTypeOK'
    BY <2>1 DEF LifeInv, LifeTypeOK, dumpVars
  <2>3. ~Logged("server_stop")
    BY <2>1 DEF LifeInv, TeardownInOrder
  <2> HIDE DEF Logged
  <2> QED
    BY <1>2, <1>3, <1>4, <2>1, <2>2, <2>3 DEF LifeInv, TeardownInOrder, dumpVars
<1>7. CASE CloseDump
  <2>1. /\ life = "index" /\ life' \in {"help", "raised"}
        /\ UNCHANGED <<clientOpen, check, cancelled, dumpBuilder, help, log>>
    BY <1>7 DEF CloseDump, clientVars
  <2>2. ~Logged("server_stop") /\ ~clientOpen /\ (dumpBuilder = "none" => dumpOpen = FALSE)
    BY <2>1 DEF LifeInv, LifeTypeOK, TeardownInOrder
  <2>3. /\ dumpOpen' \in BOOLEAN /\ overtaken' \in BOOLEAN
        /\ dumpBuilder = "none" => ~dumpOpen'
        /\ life' = "help" /\ (dumpOpen' \/ dumpBuilder = "running") => overtaken'
    <3>1. CASE dumpBuilder = "none" /\ life' = "help" /\ UNCHANGED <<dumpOpen, overtaken>>
      BY <2>2, <3>1 DEF LifeInv, LifeTypeOK
    <3>2. CASE /\ dumpBuilder # "none" /\ life' = "help"
               /\ dumpOpen' = FALSE /\ overtaken' = (dumpBuilder = "running")
      BY <3>2
    <3>3. CASE dumpOpen /\ life' = "raised" /\ dumpOpen' \in BOOLEAN /\ UNCHANGED overtaken
      BY <2>2, <3>3 DEF LifeInv, LifeTypeOK
    <3> QED
      BY <1>7, <3>1, <3>2, <3>3 DEF CloseDump
  <2>4. LifeTypeOK'
    BY <2>1, <2>3 DEF LifeInv, LifeTypeOK
  <2> HIDE DEF Logged
  <2> QED
    BY <1>2, <1>3, <1>4, <2>1, <2>2, <2>3, <2>4 DEF LifeInv, TeardownInOrder
<1>8. CASE CloseHelp
  BY <1>1, <1>2, <1>3, <1>4, <1>8
     DEF LifeInv, LifeTypeOK, TeardownInOrder, CloseHelp, clientVars, dumpVars
<1> QED
  BY <1>5, <1>6, <1>7, <1>8

\* The builder of the dump index works on.
LEMMA BuildStep ==
    ASSUME LifeInv, BuildDump
    PROVE  LifeInv'
<1>1. /\ UNCHANGED <<clientVars, life, check, cancelled, overtaken, help, log>>
      /\ dumpBuilder = "running" /\ dumpBuilder' \in {"running", "over"}
      /\ dumpOpen' \in BOOLEAN
  BY DEF BuildDump
<1>2. ClientInv'
  BY <1>1, ClientStays DEF LifeInv, clientVars, ClientInv, ClientTypeOK
<1>3. LifeTypeOK'
  BY <1>1 DEF LifeInv, LifeTypeOK
<1>4. TeardownInOrder' /\ CheckOnce'
  BY <1>1 DEF LifeInv, TeardownInOrder, CheckOnce, MismatchIsAnswered, Logged, clientVars
<1> QED
  BY <1>2, <1>3, <1>4 DEF LifeInv

LEMMA StopStep ==
    ASSUME LifeInv, LogStop
    PROVE  LifeInv'
<1>1. /\ life = "log" /\ life' = "stopped" /\ log' = Append(log, "server_stop")
      /\ UNCHANGED <<clientVars, check, cancelled, dumpVars, help>>
  BY DEF LogStop
<1>2. log \in Seq(Events) /\ Events = {"server_start", "mismatch", "server_stop"}
  BY DEF LifeInv, LifeTypeOK, Events
<1>3. LifeTypeOK'
  <2>1. log' \in Seq(Events)
    BY <1>1, <1>2, AppendFact
  <2> QED
    BY <1>1, <2>1 DEF LifeInv, LifeTypeOK, Events, dumpVars
<1>4. TeardownInOrder'
  BY <1>1 DEF LifeInv, TeardownInOrder, clientVars, dumpVars
<1>5. ClientInv'
  BY <1>1, ClientStays DEF LifeInv, clientVars, ClientInv, ClientTypeOK
<1>6. CheckOnce'
  <2>1. /\ Append(log, "server_stop")[Len(log) + 1] = "server_stop"
        /\ DOMAIN log = 1 .. Len(log) /\ DOMAIN log' = 1 .. Len(log) + 1
        /\ \A i \in 1 .. Len(log) : log'[i] = log[i]
        /\ Len(log) \in Nat
    BY <1>1, <1>2, AppendFact
  <2>2. \A i \in DOMAIN log' : log'[i] = "mismatch" => i \in DOMAIN log /\ log[i] = "mismatch"
    BY <1>1, <2>1
  <2>3. Logged("mismatch")' => Logged("mismatch")
    BY <2>2 DEF Logged
  <2>4. \A i, j \in DOMAIN log' : log'[i] = "mismatch" /\ log'[j] = "mismatch" => i = j
    BY <2>2 DEF LifeInv, CheckOnce, MismatchIsAnswered, Logged
  <2> QED
    BY <1>1, <2>3, <2>4 DEF LifeInv, CheckOnce, MismatchIsAnswered, clientVars
<1> QED
  BY <1>3, <1>4, <1>5, <1>6 DEF LifeInv

--------------------------------------------------------------------------------

LEMMA EmptyFact == \A S : <<>> \in Seq(S)
  OBVIOUS

LEMMA LifeInitially == LifeInit => LifeInv
<1> SUFFICES ASSUME LifeInit PROVE LifeInv
  OBVIOUS
<1>1. 0 \in 0 .. MaxAnswer /\ 0 \in 0 .. MaxRequests /\ Check \in Tasks
  BY ClientAssumption, CheckAssumption
<1>2. ClientInv
  BY <1>1 DEF LifeInit, ClientInit, ClientInv, ClientTypeOK, TaskOK, InRequest, Awaiting, Refusals
<1>3. log = <<>> /\ ~Logged("mismatch") /\ ~Logged("server_stop")
  BY DEF LifeInit, Logged
<1>4. LifeTypeOK
  <2>1. log \in Seq({"server_start", "mismatch", "server_stop"})
    BY <1>3, EmptyFact
  <2> QED
    BY <2>1 DEF LifeInit, LifeTypeOK
<1> QED
  BY <1>2, <1>3, <1>4 DEF LifeInit, LifeInv, TeardownInOrder, CheckOnce, MismatchIsAnswered

\* Every step keeps the invariant, and is one of at most one task.
LEMMA LifeStep ==
    ASSUME LifeInv, [LifeNext]_<<clientVars, lifeVars>>
    PROVE  /\ LifeInv'
           /\ \/ \E t \in Tasks : OthersStay(t) /\ Limited(t)
              \/ UNCHANGED <<at, status, size, held, result>>
<1>1. ASSUME NEW t \in Tasks, ToolStep(t)
      PROVE  LifeInv' /\ OneTaskOnly
  <2>1. OneTaskOnly /\ OthersStay(t) /\ t # Check /\ UNCHANGED lifeVars
    BY <1>1, ToolStepStep DEF LifeInv
  <2>2. LifeTypeOK' /\ TeardownInOrder' /\ CheckOnce'
    BY <1>1, <2>1, OthersKeepOrder, OthersKeepCheck DEF OneTaskOnly
  <2> QED
    BY <2>1, <2>2 DEF LifeInv, OneTaskOnly
<1>2. CASE CheckStep
  BY <1>2, CheckRunsStep, CheckEndsStep, CompareStep DEF CheckStep, OneTaskOnly
<1>3. CASE EnterLifespan
  BY <1>3, EnterStep DEF EnterLifespan, clientVars
<1>4. CASE LeaveLifespan
  BY <1>4, TeardownStep DEF LeaveLifespan, clientVars
<1>5. CASE Teardown
  <2>1. UNCHANGED <<at, status, size, held, result>>
    BY <1>5 DEF Teardown, CloseClient, CloseDump, CloseHelp, LogStop, clientVars
  <2> QED
    BY <1>5, <2>1, TeardownStep, StopStep DEF Teardown
<1>6. CASE UNCHANGED <<clientVars, lifeVars>>
  BY <1>6 DEF LifeInv, ClientInv, ClientTypeOK, TaskOK, LifeTypeOK, TeardownInOrder, CheckOnce,
              MismatchIsAnswered, Logged, clientVars, lifeVars, dumpVars
<1>7. CASE BuildDump
  BY <1>7, BuildStep DEF BuildDump, clientVars
<1> QED
  BY <1>1, <1>2, <1>3, <1>4, <1>5, <1>6, <1>7 DEF LifeNext, OneTaskOnly

LEMMA LifeInductive == LifeSpec => []LifeInv
<1>1. LifeInv /\ [LifeNext]_<<clientVars, lifeVars>> => LifeInv'
  BY LifeStep
<1> QED
  BY LifeInitially, <1>1, PTL DEF LifeSpec

\* server_stop is in the audit only after client, dump index and help index were
\* closed without an error, for any number of tools and requests; what is open
\* afterwards is a dump index whose builder its close() did not wait for.
THEOREM StopIsClosed == LifeSpec => []StopMeansClosed
<1>1. LifeInv => StopMeansClosed
  BY DEF LifeInv, TeardownInOrder, StopMeansClosed
<1> QED
  BY LifeInductive, <1>1, PTL

\* A difference of versions is reported at most once, and only of an answer.
THEOREM MismatchIsOfAnAnswer == LifeSpec => []MismatchIsAnswered
<1>1. LifeInv => MismatchIsAnswered
  BY DEF LifeInv, CheckOnce
<1> QED
  BY LifeInductive, <1>1, PTL

\* For every limit, size of chunk and length of the answer, what is decoded is
\* whole and within the limit, and no more than the limit is ever in memory.
THEOREM AnswersAreWithinLimit == LifeSpec => AnswerWithinLimit
<1>1. ASSUME LifeInv, [LifeNext]_<<clientVars, lifeVars>>, NEW t \in Tasks
      PROVE  /\ at[t] = "body" /\ at'[t] = "decode" => held[t] = size[t] /\ size[t] <= MaxSize
             /\ at[t] = "body" /\ at'[t] = "closing" => size[t] > MaxSize
             /\ status'[t] = 200 =>
                   held'[t] <= MaxSize + IF at'[t] = "closing" THEN MaxChunk ELSE 0
  <2>1. LifeInv' /\ (\/ \E u \in Tasks : OthersStay(u) /\ Limited(u)
                    \/ UNCHANGED <<at, status, size, held, result>>)
    BY <1>1, LifeStep
  <2>2. status'[t] = 200 => held'[t] <= MaxSize + IF at'[t] = "closing" THEN MaxChunk ELSE 0
    <3>1. CASE at'[t] = "closing"
      BY <2>1, <3>1 DEF LifeInv, ClientInv, TaskOK
    <3>2. CASE at'[t] # "closing"
      <4>1. status'[t] = 200 => held'[t] <= MaxSize
        BY <2>1, <3>2 DEF LifeInv, ClientInv, TaskOK
      <4>2. MaxSize + (IF at'[t] = "closing" THEN MaxChunk ELSE 0) = MaxSize
        BY <3>2, ClientAssumption
      <4> QED
        BY <4>1, <4>2
    <3> QED
      BY <3>1, <3>2
  <2>3. ASSUME NEW u \in Tasks, OthersStay(u), Limited(u) PROVE Limited(t)
    BY <2>3 DEF OthersStay, Limited
  <2>4. CASE UNCHANGED <<at, status, size, held, result>>
    BY <2>2, <2>4
  <2> QED
    BY <2>1, <2>2, <2>3, <2>4 DEF Limited
<1>2. LifeInv /\ [LifeNext]_<<clientVars, lifeVars>> =>
          [\A t \in Tasks :
              /\ at[t] = "body" /\ at'[t] = "decode" => held[t] = size[t] /\ size[t] <= MaxSize
              /\ at[t] = "body" /\ at'[t] = "closing" => size[t] > MaxSize
              /\ status'[t] = 200 =>
                    held'[t] <= MaxSize + IF at'[t] = "closing" THEN MaxChunk ELSE 0]_clientVars
  BY <1>1
<1> QED
  BY LifeInductive, <1>2, PTL DEF LifeSpec, AnswerWithinLimit

--------------------------------------------------------------------------------
(* The audit *)

TrailEvents ==
    [event : {"one_c.http"}, ok : BOOLEAN] \cup [event : {"tool_call", "tool_error"}]

\* The trail of a call begins with the events of its requests and ends, if the call
\* ended without a cancellation, with its own.
HasToolEvent(t) == t \in Tools /\ at[t] = "done" /\ outcome[t] # "cancelled"

TrailOK(t) ==
    /\ trail[t] \in Seq(TrailEvents)
    /\ at[t] \in InRequest => made[t] > 0
    /\ EndedRequests(t) <= Len(trail[t])
    /\ \A i \in DOMAIN trail[t] : trail[t][i].event = "one_c.http" <=> i <= EndedRequests(t)
    /\ result[t] # "none" => EndedRequests(t) > 0
    /\ result[t] = "answer" => trail[t][EndedRequests(t)].ok
    /\ result[t] \in Refusals => ~trail[t][EndedRequests(t)].ok
    /\ IF HasToolEvent(t)
       THEN /\ Len(trail[t]) = EndedRequests(t) + 1
            /\ trail[t][Len(trail[t])] =
                   ToolEvent(IF outcome[t] = "text" THEN "tool_call" ELSE "tool_error")
       ELSE Len(trail[t]) = EndedRequests(t)

Trailed == /\ trail = [t \in Tasks |-> trail[t]]
           /\ \A t \in Tasks : TrailOK(t)

\* A step of task t leaves the trails of the others alone.
TrailsStay(t) ==
    \A u \in Tasks \ {t} :
        /\ at'[u] = at[u] /\ made'[u] = made[u] /\ result'[u] = result[u]
        /\ outcome'[u] = outcome[u] /\ trail'[u] = trail[u]

LEMMA OneTrail ==
    ASSUME Trailed, NEW t \in Tasks, TrailsStay(t), TrailOK(t)',
           trail' = [trail EXCEPT ![t] = trail'[t]]
    PROVE  Trailed'
<1>1. ASSUME NEW u \in Tasks, u # t PROVE TrailOK(u)'
  <2>1. /\ at'[u] = at[u] /\ made'[u] = made[u] /\ result'[u] = result[u]
        /\ outcome'[u] = outcome[u] /\ trail'[u] = trail[u] /\ TrailOK(u)
    BY <1>1 DEF Trailed, TrailsStay
  <2>2. EndedRequests(u)' = EndedRequests(u) /\ (HasToolEvent(u)' <=> HasToolEvent(u))
    BY <2>1 DEF EndedRequests, HasToolEvent
  <2> QED
    BY <2>1, <2>2 DEF TrailOK
<1>2. trail' = [u \in Tasks |-> trail'[u]]
  BY DEF Trailed
<1> QED
  BY <1>1, <1>2 DEF Trailed

LEMMA EndedType ==
    ASSUME ClientTypeOK, NEW t \in Tasks, TrailOK(t)
    PROVE  EndedRequests(t) \in Nat
  BY DEF ClientTypeOK, TrailOK, EndedRequests

\* One more request is over: its event is the last of the trail.
LEMMA RequestEvent ==
    ASSUME Trailed, NEW t \in Tasks, NEW how, how # "none",
           how = "answer" => at[t] # "closing",
           EndedRequests(t) \in Nat, ~HasToolEvent(t),
           trail' = [trail EXCEPT ![t] = Append(trail[t], HttpEvent(how \notin Refusals /\ at[t] # "closing"))],
           result'[t] = how, EndedRequests(t)' = EndedRequests(t) + 1,
           at'[t] \notin InRequest, ~HasToolEvent(t)'
    PROVE  TrailOK(t)'
<1> DEFINE e == HttpEvent(how \notin Refusals /\ at[t] # "closing")
           n == EndedRequests(t)
<1>1. trail[t] \in Seq(TrailEvents) /\ Len(trail[t]) = n /\ trail'[t] = Append(trail[t], e)
      /\ \A i \in DOMAIN trail[t] : trail[t][i].event = "one_c.http"
  BY DEF Trailed, TrailOK
<1>2. e \in TrailEvents /\ e.event = "one_c.http"
      /\ (how = "answer" => e.ok) /\ (how \in Refusals => ~e.ok)
  BY DEF HttpEvent, TrailEvents, Refusals
<1>3. /\ trail'[t] \in Seq(TrailEvents) /\ Len(trail'[t]) = n + 1
      /\ \A i \in 1 .. n : trail'[t][i] = trail[t][i]
      /\ trail'[t][n + 1] = e /\ DOMAIN trail'[t] = 1 .. n + 1 /\ DOMAIN trail[t] = 1 .. n
  BY <1>1, <1>2, AppendFact
<1> HIDE DEF e, n
<1>4. \A i \in 1 .. n + 1 : trail'[t][i].event = "one_c.http"
  BY <1>1, <1>2, <1>3 DEF n
<1>5. EndedRequests(t)' = n + 1 /\ n \in Nat
  BY DEF n
<1> QED
  BY <1>2, <1>3, <1>4, <1>5 DEF TrailOK

\* Steps inside of a request, and its start, leave no event.
LEMMA QuietTrail ==
    ASSUME Trailed, NEW t \in Tasks, UNCHANGED trail, EndedRequests(t)' = EndedRequests(t),
           at'[t] \in InRequest => made'[t] > 0,
           result'[t] \in {"none", result[t]}, ~HasToolEvent(t), ~HasToolEvent(t)'
    PROVE  TrailOK(t)'
<1>1. TrailOK(t) /\ trail'[t] = trail[t]
  BY DEF Trailed
<1>2. /\ result'[t] # "none" => EndedRequests(t) > 0
      /\ result'[t] = "answer" => trail[t][EndedRequests(t)].ok
      /\ result'[t] \in Refusals => ~trail[t][EndedRequests(t)].ok
  BY <1>1 DEF TrailOK, Refusals
<1>3. /\ trail[t] \in Seq(TrailEvents)
      /\ EndedRequests(t) =< Len(trail[t]) /\ Len(trail[t]) = EndedRequests(t)
      /\ \A i \in DOMAIN trail[t] :
            trail[t][i].event = "one_c.http" <=> i =< EndedRequests(t)
  BY <1>1 DEF TrailOK
<1> QED
  BY <1>1, <1>2, <1>3 DEF TrailOK

\* The end of a request, whichever way.
LEMMA EndTrail ==
    ASSUME ClientInv, Trailed, NEW t \in Tasks,
           NEW how \in Refusals \cup {"answer", "cancelled", "other"}, Ended(t, how),
           NEW place \in {"tool", "done"}, GoTo(t, place), at[t] # "done",
           \/ at[t] \in InRequest /\ made' = made
           \/ at[t] \notin InRequest /\ made' = [made EXCEPT ![t] = made[t] + 1],
           \A u \in Tasks \ {t} : outcome'[u] = outcome[u],
           place = "done" => outcome'[t] = "cancelled",
           how = "answer" => at[t] # "closing"
    PROVE  Trailed'
<1>1. ClientTypeOK /\ TrailOK(t)
  BY DEF ClientInv, Trailed
<1>2. /\ trail' = [trail EXCEPT ![t] =
                       Append(trail[t], HttpEvent(how \notin Refusals /\ at[t] # "closing"))]
      /\ result' = [result EXCEPT ![t] = how] /\ at' = [at EXCEPT ![t] = place]
  BY DEF Ended, GoTo
<1>3. TrailsStay(t) /\ result'[t] = how /\ at'[t] = place
  BY <1>1, <1>2 DEF TrailsStay, ClientTypeOK, Trailed
<1>4. place \notin InRequest /\ how # "none"
  BY DEF InRequest, Awaiting, Refusals
<1>5. EndedRequests(t) \in Nat /\ EndedRequests(t)' = EndedRequests(t) + 1
  <2>1. made[t] \in Nat
    BY <1>1 DEF ClientTypeOK
  <2>2. CASE at[t] \in InRequest /\ made' = made
    BY <1>1, <1>3, <1>4, <2>1, <2>2 DEF EndedRequests, TrailOK
  <2>3. CASE at[t] \notin InRequest /\ made' = [made EXCEPT ![t] = made[t] + 1]
    <3>1. made'[t] = made[t] + 1
      BY <1>1, <2>3 DEF ClientTypeOK
    <3> QED
      BY <1>3, <1>4, <2>1, <2>3, <3>1 DEF EndedRequests
  <2> QED
    BY <2>2, <2>3
<1>6. ~HasToolEvent(t) /\ ~HasToolEvent(t)'
  BY <1>3 DEF HasToolEvent
<1>7. TrailOK(t)'
  BY <1>2, <1>3, <1>4, <1>5, <1>6, RequestEvent
<1>8. trail' = [trail EXCEPT ![t] = trail'[t]]
  BY <1>2 DEF Trailed
<1> QED
  BY <1>3, <1>7, <1>8, OneTrail

\* A step inside of a request, or its start.
LEMMA InsideTrail ==
    ASSUME ClientInv, Trailed, NEW t \in Tasks, UNCHANGED <<trail, outcome>>,
           at[t] # "done", at'[t] # "done",
           EndedRequests(t)' = EndedRequests(t),
           at'[t] \in InRequest => made'[t] > 0, result'[t] \in {"none", result[t]},
           \A u \in Tasks \ {t} :
               at'[u] = at[u] /\ made'[u] = made[u] /\ result'[u] = result[u]
    PROVE  Trailed'
<1>1. TrailOK(t)'
  BY QuietTrail DEF HasToolEvent
<1>2. TrailsStay(t) /\ trail' = [trail EXCEPT ![t] = trail'[t]]
  BY DEF TrailsStay, Trailed
<1> QED
  BY <1>1, <1>2, OneTrail

LEMMA RequestTrail ==
    ASSUME ClientInv, Trailed, NEW t \in Tasks, RequestStep(t)
    PROVE  Trailed'
<1>1. ClientTypeOK /\ TaskOK(t) /\ TrailOK(t) /\ made[t] \in Nat
  BY DEF ClientInv, Trailed, ClientTypeOK
<1>2. CASE SendRequest(t) /\ clientOpen
  <2>1. /\ at[t] \in {"idle", "tool"} /\ made' = [made EXCEPT ![t] = made[t] + 1]
        /\ at' = [at EXCEPT ![t] = "sent"] /\ result' = [result EXCEPT ![t] = "none"]
        /\ UNCHANGED <<trail, outcome>>
    BY <1>2 DEF SendRequest, GoTo
  <2>2. made'[t] = made[t] + 1 /\ at'[t] = "sent" /\ result'[t] = "none"
    BY <1>1, <2>1 DEF ClientTypeOK
  <2>3. EndedRequests(t)' = EndedRequests(t)
    BY <1>1, <2>1, <2>2 DEF EndedRequests, InRequest, Awaiting
  <2> QED
    BY <1>1, <2>1, <2>2, <2>3, InsideTrail DEF ClientTypeOK
<1>3. CASE SendRequest(t) /\ ~clientOpen
  <2>1. /\ at[t] \in {"idle", "tool"} /\ made' = [made EXCEPT ![t] = made[t] + 1]
        /\ GoTo(t, "tool") /\ Ended(t, "other") /\ UNCHANGED outcome
    BY <1>3 DEF SendRequest
  <2> QED
    BY <2>1, EndTrail DEF InRequest, Awaiting
<1>4. ASSUME at[t] \in InRequest, made' = made, UNCHANGED outcome, GoTo(t, "tool"),
             NEW how \in Refusals \cup {"answer", "other"}, Ended(t, how),
             how = "answer" => at[t] # "closing"
      PROVE  Trailed'
  BY <1>4, EndTrail DEF InRequest, Awaiting
<1>5. ASSUME at[t] \in InRequest, UNCHANGED <<made, outcome, result, trail>>,
             NEW place \in InRequest, at' = [at EXCEPT ![t] = place]
      PROVE  Trailed'
  <2>1. at'[t] = place /\ at[t] # "done" /\ place # "done"
    BY <1>1, <1>5 DEF ClientTypeOK, InRequest, Awaiting
  <2>2. EndedRequests(t)' = EndedRequests(t) /\ made'[t] > 0
    BY <1>1, <1>5, <2>1 DEF EndedRequests, TrailOK
  <2> QED
    BY <1>1, <1>5, <2>1, <2>2, InsideTrail DEF ClientTypeOK
<1>6. CASE HeadersArrive(t)
  <2>1. /\ at[t] = "sent" /\ UNCHANGED <<made, outcome, result, trail>>
        /\ at' = [at EXCEPT ![t] = "body"] \/ at' = [at EXCEPT ![t] = "error_body"]
    BY <1>6 DEF HeadersArrive, GoTo
  <2> QED
    BY <1>5, <2>1 DEF InRequest, Awaiting
<1>7. CASE ReadErrorBody(t)
  <2>1. at[t] = "error_body" /\ UNCHANGED <<made, outcome>>
    BY <1>7 DEF ReadErrorBody
  <2>2. \/ UNCHANGED <<at, result, trail>>
        \/ Ended(t, "OneCError") /\ GoTo(t, "tool")
    BY <1>7 DEF ReadErrorBody
  <2>3. at = [at EXCEPT ![t] = "error_body"]
    BY <1>1, <2>1 DEF ClientTypeOK
  <2> QED
    BY <1>4, <1>5, <2>1, <2>2, <2>3 DEF InRequest, Awaiting, Refusals
<1>8. CASE ReadChunk(t)
  <2>1. at[t] = "body" /\ UNCHANGED <<made, outcome>>
    BY <1>8 DEF ReadChunk
  <2>2. UNCHANGED <<result, trail>> /\ \E place \in {"decode", "closing", "body"} : GoTo(t, place)
    BY <1>8 DEF ReadChunk
  <2> QED
    BY <1>5, <2>1, <2>2 DEF InRequest, Awaiting, GoTo
<1>9. CASE DecodeBody(t) \/ RequestFails(t) \/ CloseStream(t)
  <2>1. at[t] \in InRequest /\ UNCHANGED <<made, outcome>> /\ GoTo(t, "tool")
    BY <1>9 DEF DecodeBody, RequestFails, CloseStream, InRequest, Awaiting
  <2>2. PICK how \in {"answer", "OneCError", "too_large", "other"} :
            Ended(t, how) /\ (how = "answer" => at[t] # "closing")
    BY <1>9 DEF DecodeBody, RequestFails, CloseStream
  <2> QED
    BY <1>4, <2>1, <2>2 DEF Refusals
<1> QED
  BY <1>2, <1>3, <1>6, <1>7, <1>8, <1>9 DEF RequestStep

LEMMA CancelTrail ==
    ASSUME ClientInv, Trailed, NEW t \in Tasks, CancelTask(t)
    PROVE  Trailed'
<1>1. ClientTypeOK /\ UNCHANGED made /\ GoTo(t, "done")
      /\ outcome' = [outcome EXCEPT ![t] = "cancelled"]
  BY DEF ClientInv, CancelTask
<1>2. outcome'[t] = "cancelled" /\ \A u \in Tasks \ {t} : outcome'[u] = outcome[u]
  BY <1>1 DEF ClientTypeOK
<1>3. CASE at[t] \in Awaiting /\ Ended(t, "cancelled")
  <2>1. at[t] \in InRequest /\ at[t] # "done"
    BY <1>3 DEF InRequest, Awaiting
  <2> QED
    BY <1>1, <1>2, <1>3, <2>1, EndTrail
<1>4. CASE at[t] = "tool" /\ UNCHANGED <<result, trail>>
  <2>1. at'[t] = "done" /\ \A u \in Tasks \ {t} : at'[u] = at[u]
    BY <1>1, PlaceFact DEF InRequest
  <2>2. EndedRequests(t)' = EndedRequests(t) /\ ~HasToolEvent(t) /\ ~HasToolEvent(t)'
    BY <1>1, <1>2, <1>4, <2>1 DEF EndedRequests, HasToolEvent, InRequest, Awaiting
  <2>3. at'[t] \notin InRequest
    BY <2>1 DEF InRequest, Awaiting
  <2>4. TrailOK(t)'
    BY <1>4, <2>2, <2>3, QuietTrail
  <2>5. TrailsStay(t) /\ trail' = [trail EXCEPT ![t] = trail'[t]]
    BY <1>1, <1>2, <1>4, <2>1 DEF TrailsStay, Trailed
  <2> QED
    BY <2>4, <2>5, OneTrail
<1> QED
  BY <1>3, <1>4 DEF CancelTask

\* The event of the tool itself comes last.
LEMMA ToolTrail ==
    ASSUME ClientInv, Trailed, NEW t \in Tasks, ToolEnds(t)
    PROVE  Trailed'
<1>1. PICK how \in {"text", "ToolError", "hidden"} :
          /\ outcome' = [outcome EXCEPT ![t] = how]
          /\ trail' = [trail EXCEPT ![t] = Append(trail[t],
                 ToolEvent(IF how = "text" THEN "tool_call" ELSE "tool_error"))]
  BY DEF ToolEnds
<1> DEFINE e == ToolEvent(IF how = "text" THEN "tool_call" ELSE "tool_error")
           n == EndedRequests(t)
<1>2. ClientTypeOK /\ TrailOK(t) /\ t \in Tools /\ at[t] = "tool" /\ UNCHANGED <<made, result>>
      /\ at' = [at EXCEPT ![t] = "done"]
  BY DEF ClientInv, Trailed, ToolEnds, GoTo
<1>3. at'[t] = "done" /\ outcome'[t] = how /\ trail'[t] = Append(trail[t], e)
      /\ made'[t] = made[t] /\ result'[t] = result[t] /\ TrailsStay(t)
  BY <1>1, <1>2 DEF ClientTypeOK, TrailsStay, Trailed
<1>4. n' = n /\ n \in Nat
  BY <1>2, <1>3, EndedType DEF EndedRequests, InRequest, Awaiting
<1>5. /\ trail[t] \in Seq(TrailEvents) /\ Len(trail[t]) = n
      /\ \A i \in DOMAIN trail[t] : trail[t][i].event = "one_c.http"
      /\ result[t] # "none" => n > 0
      /\ result[t] = "answer" => trail[t][n].ok
      /\ result[t] \in Refusals => ~trail[t][n].ok
  BY <1>2 DEF TrailOK, HasToolEvent
<1>6. e \in TrailEvents /\ e.event # "one_c.http"
  BY DEF ToolEvent, TrailEvents
<1>7. /\ trail'[t] \in Seq(TrailEvents) /\ Len(trail'[t]) = n + 1
      /\ \A i \in 1 .. n : trail'[t][i] = trail[t][i]
      /\ trail'[t][n + 1] = e /\ DOMAIN trail'[t] = 1 .. n + 1 /\ DOMAIN trail[t] = 1 .. n
  BY <1>3, <1>5, <1>6, AppendFact
<1>8. HasToolEvent(t)'
  BY <1>2, <1>3 DEF HasToolEvent
<1>9. e = ToolEvent(IF outcome'[t] = "text" THEN "tool_call" ELSE "tool_error")
  BY <1>3
<1> HIDE DEF e
<1>10. ASSUME NEW i \in DOMAIN trail'[t] PROVE trail'[t][i].event = "one_c.http" <=> i <= n
  <2> HIDE DEF n
  <2>1. CASE i \in 1 .. n
    BY <1>4, <1>5, <1>7, <2>1
  <2>2. CASE i = n + 1
    BY <1>4, <1>6, <1>7, <2>2
  <2> QED
    BY <1>4, <1>7, <2>1, <2>2
<1>11. TrailOK(t)'
  <2>1. EndedRequests(t)' = EndedRequests(t) /\ at'[t] \notin InRequest
    BY <1>3, <1>4 DEF InRequest, Awaiting
  <2>2. /\ result'[t] # "none" => n > 0
        /\ result'[t] = "answer" => trail'[t][n].ok
        /\ result'[t] \in Refusals => ~trail'[t][n].ok
    BY <1>3, <1>4, <1>5, <1>7 DEF Refusals
  <2> QED
    BY <1>4, <1>7, <1>8, <1>9, <1>10, <2>1, <2>2 DEF TrailOK
<1>12. trail' = [trail EXCEPT ![t] = trail'[t]]
  BY <1>1 DEF Trailed
<1> QED
  BY <1>3, <1>11, <1>12, OneTrail

LEMMA BeginTrail ==
    ASSUME ClientInv, Trailed, NEW t \in Tasks, BeginCall(t)
    PROVE  Trailed'
<1>1. ClientTypeOK
  BY DEF ClientInv
<1>2. /\ at' = [at EXCEPT ![t] = "tool"] /\ made' = [made EXCEPT ![t] = 0]
      /\ result' = [result EXCEPT ![t] = "none"] /\ outcome' = [outcome EXCEPT ![t] = "none"]
      /\ trail' = [trail EXCEPT ![t] = <<>>]
  BY DEF BeginCall, GoTo
<1>3. at'[t] = "tool" /\ made'[t] = 0 /\ result'[t] = "none" /\ trail'[t] = <<>> /\ TrailsStay(t)
  BY <1>1, <1>2 DEF ClientTypeOK, TrailsStay, Trailed
<1>4. TrailOK(t)'
  <2>1. EndedRequests(t)' = 0 /\ at'[t] \notin InRequest /\ ~HasToolEvent(t)'
    <3>1. at'[t] \notin InRequest /\ at'[t] # "done"
      BY <1>3 DEF InRequest, Awaiting
    <3>2. EndedRequests(t)' = 0
      <4>1. EndedRequests(t)' = made'[t] - 0
        BY <3>1 DEF EndedRequests
      <4>2. made'[t] \in Nat
        BY <1>3
      <4> QED
        BY <1>3, <4>1, <4>2
    <3> QED
      BY <3>1, <3>2 DEF HasToolEvent
  <2>2. trail'[t] \in Seq(TrailEvents) /\ Len(trail'[t]) = 0 /\ DOMAIN trail'[t] = {}
    BY <1>3, EmptyFact
  <2> QED
    BY <1>3, <2>1, <2>2 DEF TrailOK, Refusals
<1>5. trail' = [trail EXCEPT ![t] = trail'[t]]
  BY <1>2 DEF Trailed
<1> QED
  BY <1>3, <1>4, <1>5, OneTrail

\* The task of the check ends without an event of its own; it is no tool.
LEMMA CheckTrail ==
    ASSUME ClientInv, Trailed, at[Check] \in {"idle", "tool"}, GoTo(Check, "done"),
           UNCHANGED <<made, result, outcome, trail>>
    PROVE  Trailed'
<1>1. Check \in Tasks /\ Check \notin Tools
  BY CheckAssumption
<1>2. at'[Check] = "done" /\ \A u \in Tasks \ {Check} : at'[u] = at[u]
  BY <1>1 DEF GoTo, ClientInv, ClientTypeOK
<1>3. TrailOK(Check)'
  BY <1>1, <1>2 DEF Trailed, TrailOK, HasToolEvent, EndedRequests, InRequest, Awaiting
<1>4. TrailsStay(Check) /\ trail' = [trail EXCEPT ![Check] = trail'[Check]]
  BY <1>1, <1>2 DEF TrailsStay, Trailed
<1> QED
  BY <1>1, <1>3, <1>4, OneTrail

LEMMA TrailStep ==
    ASSUME LifeInv, Trailed, [LifeNext]_<<clientVars, lifeVars>>
    PROVE  Trailed'
<1>1. ClientInv /\ Check \in Tasks
  BY CheckAssumption DEF LifeInv
<1>2. ASSUME NEW t \in Tasks, ToolStep(t) PROVE Trailed'
  BY <1>1, <1>2, RequestTrail, ToolTrail, CancelTrail, BeginTrail DEF ToolStep
<1>3. CASE CheckStep
  <2>1. CASE CheckRuns
    BY <1>1, <2>1, RequestTrail DEF CheckRuns
  <2>2. CASE CheckTimesOut
    BY <1>1, <2>2, CancelTrail DEF CheckTimesOut
  <2>3. CASE CompareVersion
    BY <1>1, <2>3, CheckTrail DEF CompareVersion
  <2>4. CASE CheckCancelled
    BY <1>1, <2>4, CheckTrail, CancelTrail DEF CheckCancelled
  <2> QED
    BY <1>3, <2>1, <2>2, <2>3, <2>4 DEF CheckStep
<1>4. CASE UNCHANGED <<at, made, result, outcome, trail>>
  BY <1>4 DEF Trailed, TrailOK, HasToolEvent, EndedRequests
<1>5. BuildDump \/ EnterLifespan \/ LeaveLifespan \/ Teardown \/ UNCHANGED <<clientVars, lifeVars>>
          => UNCHANGED <<at, made, result, outcome, trail>>
  BY DEF BuildDump, EnterLifespan, LeaveLifespan, Teardown, CloseClient, CloseDump, CloseHelp, LogStop,
         clientVars
<1> QED
  BY <1>2, <1>3, <1>4, <1>5 DEF LifeNext

\* For any number of tools, requests and cancellations, inside a request and outside:
\* at every moment the audit of a call is one event for each request that is over,
\* the last one ok after an answer and not ok after a OneCError, then the one event
\* of the tool once it returned or raised, and none of it once it was cancelled.
THEOREM EveryCallIsAudited == LifeSpec => []AuditIsComplete
<1>1. LifeInit => Trailed
  <2> SUFFICES ASSUME LifeInit, NEW t \in Tasks PROVE TrailOK(t)
    BY DEF LifeInit, ClientInit, Trailed
  <2> QED
    <3>1. /\ at[t] = "idle" /\ made[t] = 0 /\ result[t] = "none" /\ trail[t] = <<>>
      BY DEF LifeInit, ClientInit
    <3>2. at[t] \notin InRequest /\ ~HasToolEvent(t)
      BY <3>1 DEF InRequest, Awaiting, HasToolEvent
    <3>3. EndedRequests(t) = 0
      <4>1. EndedRequests(t) = made[t] - 0
        BY <3>2 DEF EndedRequests
      <4> QED
        BY <3>1, <4>1
    <3>4. trail[t] \in Seq(TrailEvents) /\ Len(trail[t]) = 0 /\ DOMAIN trail[t] = {}
      BY <3>1, EmptyFact
    <3> QED
      BY <3>1, <3>2, <3>3, <3>4 DEF TrailOK, Refusals
<1>2. Trailed => AuditIsComplete
  BY DEF Trailed, TrailOK, HasToolEvent, AuditIsComplete, OneEventPerRequest, ToolEventIsLast
<1>3. LifeInv /\ Trailed /\ [LifeNext]_<<clientVars, lifeVars>> => Trailed'
  BY TrailStep
<1> QED
  BY <1>1, <1>2, <1>3, LifeInductive, PTL DEF LifeSpec

================================================================================
