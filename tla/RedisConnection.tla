--------------------------- MODULE RedisConnection ---------------------------
(***************************************************************************)
(* hiredis/net.c and the connecting half of hiredis.c: how a redisContext  *)
(* gets, keeps, replaces and gives up its socket.  A step is one system    *)
(* call, which may fail; between two steps another thread of the program   *)
(* may open or close a file of its own, so a number that was closed may    *)
(* already be somebody else's.  Descriptor 0 is taken to be open for good. *)
(***************************************************************************)
EXTENDS Integers, FiniteSets

CONSTANTS MaxFd,                  \* highest descriptor
          MaxAddresses,           \* most addresses of a host
          REDIS_CONNECT_RETRIES   \* at most this many tries of a busy local port

ASSUME ConnectionAssumption ==
    MaxFd \in Nat \ {0} /\ MaxAddresses \in Nat \ {0} /\ REDIS_CONNECT_RETRIES \in Nat \ {0}

VARIABLES ctx,    \* the redisContext, or NoContext
          owner,  \* who has each descriptor open: "free", "ctx" or "app"
          call,   \* the connecting call in progress: its next system call and its locals
          ret,    \* what the last connecting call returned
          flaw,   \* "reconnect": one has failed before it had a new socket; "retry": a busy port was tried again
          stray   \* the library has closed a descriptor that was not its own

connVars == <<ctx, owner, call, ret, flaw, stray>>

Fds == 1..MaxFd
NoContext == [fd |-> -1, alive |-> FALSE]
NoCall == [at |-> "idle", addrs |-> 0, reuses |-> 0, errno |-> "none", re |-> FALSE]
Timeouts == {"none", "fine", "excessive"}    \* no timeout; one that fits; one beyond __MAX_MSEC

redisContextInit(block, reuse, source) ==
    [fd |-> 0, alive |-> TRUE, err |-> "none", block |-> block, reuse |-> reuse, connected |-> FALSE,
     type |-> "none", timeout |-> "none", source |-> source]

FreeFds == {f \in Fds : owner[f] = "free"}
Lowest == CHOOSE f \in FreeFds : \A g \in FreeFds : f <= g      \* the number socket and open return
Close(f) == /\ owner' = IF f \in Fds THEN [owner EXCEPT ![f] = "free"] ELSE owner
            /\ stray' = (stray \/ (f \in Fds /\ owner[f] = "app"))
Keep == UNCHANGED <<owner, stray>>

(***************************************************************************)
(* Ends of a connecting call                                               *)
(***************************************************************************)
__redisSetError(c, type) == [c EXCEPT !.err = type]

Finish(c, code) ==
    /\ ctx' = c /\ ret' = code /\ call' = NoCall
    /\ flaw' = IF code = "ERR" /\ call.re /\ c.fd > 0 /\ owner[c.fd] # "ctx" THEN flaw \cup {"reconnect"} ELSE flaw

Fail(type) == Finish(__redisSetError(ctx, type), "ERR") /\ Keep      \* goto error, the socket stays in c->fd

redisContextCloseFd_keep(c) == c
redisContextCloseFd(c) == [c EXCEPT !.fd = IF @ >= 0 THEN -1 ELSE @]

FailClosed(type) ==      \* __redisSetErrorFromErrno, then redisContextCloseFd
    /\ Finish(redisContextCloseFd(__redisSetError(ctx, type)), "ERR")
    /\ Close(ctx.fd)

Silent == Finish(ctx, "ERR") /\ Keep      \* goto error without an error set

StepTo(next) == call' = [call EXCEPT !.at = next] /\ UNCHANGED <<ctx, ret, flaw>> /\ Keep
CallAt(place) == call.at = place

(***************************************************************************)
(* _redisContextConnectTcp                                                 *)
(***************************************************************************)
getaddrinfo ==
    /\ CallAt("resolve")
    /\ \/ \E n \in 1..MaxAddresses : /\ call' = [call EXCEPT !.at = "socket", !.addrs = n]
                                     /\ UNCHANGED <<ctx, ret, flaw>> /\ Keep
       \/ Fail("OTHER")

\* The loop over the addresses; when they run out the call fails.
NextSocket ==
    /\ CallAt("socket")
    /\ \/ call.addrs = 0 /\ Fail("OTHER")
       \/ /\ call.addrs > 0
          /\ call' = [call EXCEPT !.addrs = @ - 1]
          /\ UNCHANGED <<ctx, ret, flaw>> /\ Keep
       \/ /\ call.addrs > 0 /\ FreeFds # {}
          /\ ctx' = [ctx EXCEPT !.fd = Lowest]
          /\ owner' = [owner EXCEPT ![Lowest] = "ctx"]
          /\ call' = [call EXCEPT !.at = "nonblock"]
          /\ UNCHANGED <<ret, flaw, stray>>

redisSetBlocking(place, next) ==
    /\ CallAt(place)
    /\ StepTo(next) \/ FailClosed("IO")

SetNonBlocking == redisSetBlocking("nonblock", IF ctx.source THEN "source" ELSE "connect")

BindAddress == /\ CallAt("source") /\ (StepTo(IF ctx.reuse THEN "reuse" ELSE "bind") \/ Fail("OTHER"))

Reuse == CallAt("reuse") /\ (StepTo("bind") \/ Silent)

Bind == CallAt("bind") /\ (StepTo("connect") \/ Fail("OTHER"))

Wait(errno) == /\ call' = [call EXCEPT !.at = "wait", !.errno = errno]
               /\ UNCHANGED <<ctx, ret, flaw>> /\ Keep

\* connect(2): an unreachable host tries the next address; a busy local port
\* tries again from a new socket.
Connect ==
    /\ CallAt("connect")
    /\ \/ StepTo("reblock")
       \/ /\ ctx' = redisContextCloseFd(ctx) /\ Close(ctx.fd)
          /\ call' = [call EXCEPT !.at = "socket", !.addrs = @ - 1]
          /\ UNCHANGED <<ret, flaw>>
       \/ ~ctx.block /\ StepTo("reblock")
       \/ /\ ctx.reuse
          /\ IF call.reuses + 1 >= REDIS_CONNECT_RETRIES THEN Silent
             ELSE /\ call' = [call EXCEPT !.at = "socket", !.reuses = @ + 1]
                  /\ flaw' = flaw \cup {"retry"}
                  /\ UNCHANGED <<ctx, ret>> /\ Keep
       \/ ctx.block /\ Wait("EINPROGRESS")
       \/ Wait("other")

redisCheckSocketError == StepTo("reblock") \/ Fail("IO")

redisContextWaitReady ==
    /\ CallAt("wait")
    /\ \/ (ctx.timeout = "excessive" \/ call.errno # "EINPROGRESS") /\ FailClosed("IO")
       \/ /\ ctx.timeout # "excessive" /\ call.errno = "EINPROGRESS"
          /\ FailClosed("IO") \/ redisCheckSocketError      \* poll fails or times out; or is ready

SetBackBlocking ==
    /\ CallAt("reblock")
    /\ LET next == IF ctx.type = "tcp" THEN "nodelay" ELSE "done"
       IN  IF ctx.block THEN redisSetBlocking("reblock", next) ELSE StepTo(next)

redisSetTcpNoDelay == CallAt("nodelay") /\ (StepTo("done") \/ FailClosed("IO"))

Connected == CallAt("done") /\ Finish([ctx EXCEPT !.connected = TRUE], "OK") /\ Keep

(***************************************************************************)
(* redisContextConnectUnix                                                 *)
(***************************************************************************)
redisCreateSocket ==
    /\ CallAt("create")
    /\ \/ Fail("IO")
       \/ /\ FreeFds # {}
          /\ ctx' = [ctx EXCEPT !.fd = Lowest] /\ owner' = [owner EXCEPT ![Lowest] = "ctx"]
          /\ call' = [call EXCEPT !.at = "unixblock"]
          /\ UNCHANGED <<ret, flaw, stray>>

UnixNonBlocking ==
    /\ CallAt("unixblock")
    /\ \/ /\ ctx' = [ctx EXCEPT !.type = "unix", !.timeout = call.errno]
          /\ call' = [call EXCEPT !.at = "unixconnect", !.errno = "none"]
          /\ UNCHANGED <<ret, flaw>> /\ Keep
       \/ FailClosed("IO")

UnixConnect ==
    /\ CallAt("unixconnect")
    /\ \/ StepTo("reblock")
       \/ ~ctx.block /\ StepTo("reblock")
       \/ ctx.block /\ Wait("EINPROGRESS")
       \/ Wait("other")

(***************************************************************************)
(* The calls of the application                                            *)
(***************************************************************************)
ContextConnectTcp(c, timeout, again) ==
    /\ ctx' = [c EXCEPT !.type = "tcp", !.timeout = timeout]
    /\ call' = [NoCall EXCEPT !.at = "resolve", !.re = again]

\* The timeout waits in the call until the socket exists.
ContextConnectUnix(c, timeout, again) ==
    /\ ctx' = c
    /\ call' = [NoCall EXCEPT !.at = "create", !.errno = timeout, !.re = again]

Fresh == ~ctx.alive /\ call = NoCall /\ ret' = "none" /\ UNCHANGED flaw /\ Keep

redisConnect == Fresh /\ ContextConnectTcp(redisContextInit(TRUE, FALSE, FALSE), "none", FALSE)
redisConnectWithTimeout ==
    Fresh /\ \E tv \in Timeouts \ {"none"} : ContextConnectTcp(redisContextInit(TRUE, FALSE, FALSE), tv, FALSE)
redisConnectNonBlock == Fresh /\ ContextConnectTcp(redisContextInit(FALSE, FALSE, FALSE), "none", FALSE)
redisConnectBindNonBlock == Fresh /\ ContextConnectTcp(redisContextInit(FALSE, FALSE, TRUE), "none", FALSE)
redisConnectBindNonBlockWithReuse == Fresh /\ ContextConnectTcp(redisContextInit(FALSE, TRUE, TRUE), "none", FALSE)
redisConnectUnix == Fresh /\ ContextConnectUnix(redisContextInit(TRUE, FALSE, FALSE), "none", FALSE)
redisConnectUnixWithTimeout ==
    Fresh /\ \E tv \in Timeouts \ {"none"} : ContextConnectUnix(redisContextInit(TRUE, FALSE, FALSE), tv, FALSE)
redisConnectUnixNonBlock == Fresh /\ ContextConnectUnix(redisContextInit(FALSE, FALSE, FALSE), "none", FALSE)

\* The application hands over a descriptor of its own.
redisConnectFd ==
    /\ ~ctx.alive /\ call = NoCall
    /\ \E f \in Fds :
          /\ owner[f] = "app"
          /\ owner' = [owner EXCEPT ![f] = "ctx"]
          /\ ctx' = [redisContextInit(TRUE, FALSE, FALSE) EXCEPT !.fd = f, !.connected = TRUE]
    /\ ret' = "OK" /\ UNCHANGED <<call, flaw, stray>>

Ready == ctx.alive /\ call = NoCall

redisReconnect ==
    /\ Ready
    /\ LET c == [ctx EXCEPT !.err = "none"]
       IN  \/ ctx.type = "tcp" /\ ContextConnectTcp(c, c.timeout, TRUE) /\ UNCHANGED <<ret, flaw>>
           \/ ctx.type = "unix" /\ ContextConnectUnix(c, c.timeout, TRUE) /\ UNCHANGED <<ret, flaw>>
           \/ /\ ctx.type = "none"
              /\ ctx' = __redisSetError(c, "OTHER") /\ call' = NoCall /\ ret' = "ERR"
              /\ flaw' = IF c.fd > 0 THEN flaw \cup {"reconnect"} ELSE flaw
    /\ IF ctx.fd > 0 THEN Close(ctx.fd) ELSE Keep

redisFree ==
    /\ Ready
    /\ ctx' = NoContext /\ ret' = "none" /\ UNCHANGED <<call, flaw>>
    /\ IF ctx.fd > 0 THEN Close(ctx.fd) ELSE Keep

\* The descriptor goes back to the application.
redisFreeKeepFd ==
    /\ Ready
    /\ ctx' = NoContext /\ ret' = "none" /\ UNCHANGED <<call, flaw, stray>>
    /\ owner' = IF ctx.fd \in Fds /\ owner[ctx.fd] = "ctx" THEN [owner EXCEPT ![ctx.fd] = "app"] ELSE owner

\* redisSetTimeout and redisEnableKeepAlive: system calls on the socket that
\* may set an error; so may a read or a write (RedisClient).
redisContextSetTimeout == Ready /\ ctx.block /\ ctx' = __redisSetError(ctx, "IO") /\ UNCHANGED <<owner, call, ret, flaw, stray>>
redisKeepAlive == Ready /\ ctx' = __redisSetError(ctx, "OTHER") /\ UNCHANGED <<owner, call, ret, flaw, stray>>

\* Other threads open and close files of the program at any time.
AppOpens == /\ FreeFds # {} /\ owner' = [owner EXCEPT ![Lowest] = "app"]
            /\ UNCHANGED <<ctx, call, ret, flaw, stray>>
AppCloses == \E f \in Fds : /\ owner[f] = "app" /\ owner' = [owner EXCEPT ![f] = "free"]
                            /\ UNCHANGED <<ctx, call, ret, flaw, stray>>

ConnInit == /\ ctx = NoContext /\ call = NoCall /\ owner = [f \in Fds |-> "free"]
            /\ ret = "none" /\ flaw = {} /\ stray = FALSE

ConnNext ==
    \/ redisConnect \/ redisConnectWithTimeout \/ redisConnectNonBlock \/ redisConnectBindNonBlock
    \/ redisConnectBindNonBlockWithReuse \/ redisConnectUnix \/ redisConnectUnixWithTimeout
    \/ redisConnectUnixNonBlock \/ redisConnectFd \/ redisReconnect \/ redisFree \/ redisFreeKeepFd
    \/ redisContextSetTimeout \/ redisKeepAlive
    \/ getaddrinfo \/ NextSocket \/ SetNonBlocking \/ BindAddress \/ Reuse \/ Bind \/ Connect
    \/ redisContextWaitReady \/ SetBackBlocking \/ redisSetTcpNoDelay \/ Connected
    \/ redisCreateSocket \/ UnixNonBlocking \/ UnixConnect
    \/ AppOpens \/ AppCloses

ConnSpec == ConnInit /\ [][ConnNext]_connVars

------------------------------------------------------------------------------
OwnedByContext == {f \in Fds : owner[f] = "ctx"}

\* net.c neither loses nor borrows a descriptor: while no call is in progress
\* the library has open exactly the descriptor that c->fd names, none once the
\* context is freed, and it has closed nobody else's, whatever failed on the
\* way.  Two paths are excepted and listed as hazards: the retry of a busy port
\* leaves its first socket open, and a reconnect that fails before it has a
\* socket leaves a closed number in c->fd, which the next call closes again.
DescriptorsKept ==
    (call = NoCall /\ flaw = {}) =>
        /\ OwnedByContext = (IF ctx.fd > 0 THEN {ctx.fd} ELSE {})
        /\ ~stray

\* A connecting function tells of its failure: a context without an error has
\* an open socket of its own, and a returned error is in the context too.
FailureReported ==
    (Ready /\ flaw = {} /\ ~ctx.reuse) =>
        /\ ctx.err = "none" => ctx.fd \in OwnedByContext
        /\ ret = "ERR" => ctx.err # "none"

\* Sockets are accounted for on every path of net.c: the library owns exactly
\* c->fd, and a context without it says so.
SocketsAccounted == DescriptorsKept /\ FailureReported
==============================================================================
