---------------------------- MODULE RedisProofs -----------------------------
(***************************************************************************)
(* Proofs about the Redis client: the sockets of hiredis, for any          *)
(* number of descriptors, of addresses of a host and of retries, and       *)
(* whatever other threads of the program open and close between two system *)
(* calls; and the dialogue of RedisDB with the server, for any values and  *)
(* any number of operations, however the bytes are cut; and the events of  *)
(* the asynchronous client, for any set of the adapters.                   *)
(***************************************************************************)
EXTENDS RedisConnection, RedisClient, RedisAsync, FiniteSetTheorems, WellFoundedInduction, TLAPS

(* The lowest free descriptor exists: open and socket return a free number. *)
LEMMA LowestIsFree ==
  ASSUME FreeFds # {}
  PROVE  Lowest \in Fds /\ owner[Lowest] = "free"
<1> DEFINE R == OpToRel(<, Nat)
<1>1. FreeFds \subseteq Nat BY ConnectionAssumption DEF FreeFds, Fds
<1>2. PICK f \in FreeFds : \A g \in FreeFds : <<g, f>> \notin R
  BY <1>1, NatLessThanWellFounded, WFMin
<1>3. \A g \in FreeFds : ~(g < f) BY <1>1, <1>2 DEF OpToRel
<1>4. \A g \in FreeFds : f <= g BY <1>1, <1>3
<1>5. Lowest \in FreeFds BY <1>4 DEF Lowest
<1>q. QED BY <1>5 DEF FreeFds

-----------------------------------------------------------------------------
(* The places of a connecting call: before the socket exists, and after.    *)
Seeking == {"resolve", "socket", "create"}
Holding == {"nonblock", "source", "reuse", "bind", "connect", "wait", "reblock",
            "nodelay", "done", "unixblock", "unixconnect"}
Reasons == Timeouts \cup {"EINPROGRESS", "other"}

Contexts == [fd : -1..MaxFd, alive : {TRUE}, err : {"none", "IO", "OTHER"},
             block : BOOLEAN, reuse : BOOLEAN, connected : BOOLEAN,
             type : {"none", "tcp", "unix"}, timeout : Reasons, source : BOOLEAN]
Calls == [at : {"idle"} \cup Seeking \cup Holding, addrs : Int, reuses : Int,
          errno : Reasons, re : BOOLEAN]

ConnTypeOK ==
  /\ ctx \in Contexts \cup {NoContext}
  /\ owner \in [Fds -> {"free", "ctx", "app"}]
  /\ call \in Calls
  /\ ret \in {"none", "OK", "ERR"}
  /\ flaw \subseteq {"reconnect", "retry"}
  /\ stray \in BOOLEAN

(* A call in progress has a context, and asks for a local port only where   *)
(* the context does.                                                        *)
CallSane ==
  /\ call.at = "idle" => call = NoCall
  /\ call.at # "idle" => ctx \in Contexts
  /\ call.at = "reuse" => ctx.reuse

(* The library has open the descriptor c->fd and no other. *)
OwnsItsOwn == ctx.fd > 0 /\ \A f \in Fds : owner[f] = "ctx" <=> f = ctx.fd
OwnsNone   == \A f \in Fds : owner[f] # "ctx"

(* While none of the two excepted paths was taken: before the socket exists *)
(* the library owns none, and c->fd names none unless it is the closed one  *)
(* of a reconnect; from socket(2) to the end of the call it owns c->fd; and *)
(* what a call returns agrees with c->fd and c->err.                        *)
Told(c, r) == (c.err = "none" => c.fd > 0) /\ (r = "ERR" => c.err # "none")
AtRest == /\ IF ctx.fd > 0 THEN OwnsItsOwn ELSE OwnsNone
          /\ (ctx \in Contexts /\ ~ctx.reuse) => Told(ctx, ret)

SocketsSound ==
  flaw = {} =>
    /\ ~stray
    /\ call.at \in Holding => OwnsItsOwn
    /\ call.at \in Seeking => OwnsNone /\ (call.re \/ ctx.fd <= 0)
    /\ call.at = "idle" => AtRest

ConnInv == ConnTypeOK /\ CallSane /\ SocketsSound

-----------------------------------------------------------------------------
(* Records *)
LEMMA NoCallType == NoCall \in Calls /\ NoCall.at = "idle"
BY DEF NoCall, Calls, Reasons, Timeouts

LEMMA CallMoves ==
  ASSUME NEW c \in Calls, NEW at \in Seeking \cup Holding
  PROVE  LET d == [c EXCEPT !.at = at]
         IN  d \in Calls /\ d.at = at /\ d.re = c.re
BY DEF Calls

LEMMA CallSeeksAgain ==
  ASSUME NEW c \in Calls, NEW n \in Int
  PROVE  /\ LET d == [c EXCEPT !.at = "socket", !.addrs = n]
            IN  d \in Calls /\ d.at = "socket" /\ d.re = c.re
         /\ LET d == [c EXCEPT !.at = "socket", !.reuses = n]
            IN  d \in Calls /\ d.at = "socket" /\ d.re = c.re
BY DEF Calls, Seeking

LEMMA ErrorSet ==
  ASSUME NEW c \in Contexts, NEW type \in {"IO", "OTHER"}
  PROVE  LET d == __redisSetError(c, type)
         IN  d \in Contexts /\ d.err = type /\ d.fd = c.fd
BY DEF Contexts, __redisSetError

LEMMA FdSet ==
  ASSUME NEW c \in Contexts, NEW f \in -1..MaxFd
  PROVE  LET d == [c EXCEPT !.fd = f]
         IN  d \in Contexts /\ d.fd = f /\ d.err = c.err /\ d.reuse = c.reuse
BY DEF Contexts

LEMMA FdClosed ==
  ASSUME NEW c \in Contexts
  PROVE  LET d == redisContextCloseFd(c)
         IN  d \in Contexts /\ d.fd = -1 /\ d.err = c.err /\ d.reuse = c.reuse
<1>1. c.fd \in -1..MaxFd BY DEF Contexts
<1>2. -1 \in -1..MaxFd BY ConnectionAssumption
<1>3. (IF c.fd >= 0 THEN -1 ELSE c.fd) = -1 BY <1>1, ConnectionAssumption
<1>4. redisContextCloseFd(c) = [c EXCEPT !.fd = -1] BY <1>3 DEF redisContextCloseFd
<1>q. QED BY <1>2, <1>4, FdSet

-----------------------------------------------------------------------------
(* The two ways a step leaves the library: the call has ended, or goes on.  *)
LEMMA CallEnds ==
  ASSUME (ctx \in Contexts \cup {NoContext})', (owner \in [Fds -> {"free", "ctx", "app"}])',
         call' = NoCall, ret' \in {"none", "OK", "ERR"}, flaw' \subseteq {"reconnect", "retry"},
         stray' \in BOOLEAN,
         flaw' = {} => ~stray' /\ AtRest'
  PROVE  ConnInv'
<1>1. call' \in Calls /\ call'.at = "idle" BY NoCallType
<1>2. ConnTypeOK' BY <1>1 DEF ConnTypeOK
<1>3. CallSane' BY <1>1 DEF CallSane
<1>4. SocketsSound' BY <1>1 DEF SocketsSound, Seeking, Holding
<1>q. QED BY <1>2, <1>3, <1>4 DEF ConnInv

LEMMA CallGoesOn ==
  ASSUME (ctx \in Contexts)', (owner \in [Fds -> {"free", "ctx", "app"}])',
         call' \in Calls, ret' \in {"none", "OK", "ERR"}, flaw' \subseteq {"reconnect", "retry"},
         stray' \in BOOLEAN, call'.at \in Seeking \cup Holding, call'.at = "reuse" => ctx'.reuse,
         flaw' = {} => /\ ~stray'
                       /\ call'.at \in Holding => OwnsItsOwn'
                       /\ call'.at \in Seeking => OwnsNone' /\ (call'.re \/ ctx'.fd <= 0)
  PROVE  ConnInv'
<1>1. call'.at # "idle" BY DEF Seeking, Holding
<1>2. ConnTypeOK' BY DEF ConnTypeOK
<1>3. CallSane' BY <1>1 DEF CallSane
<1>4. SocketsSound' BY <1>1 DEF SocketsSound
<1>q. QED BY <1>2, <1>3, <1>4 DEF ConnInv

(* close(2) of the descriptor that is the library's own leaves it none. *)
LEMMA OwnClosed ==
  ASSUME ctx \in Contexts, owner \in [Fds -> {"free", "ctx", "app"}], stray \in BOOLEAN, Close(ctx.fd)
  PROVE  /\ owner' \in [Fds -> {"free", "ctx", "app"}] /\ stray' \in BOOLEAN
         /\ OwnsItsOwn => OwnsNone' /\ stray' = stray
<1>1. owner' \in [Fds -> {"free", "ctx", "app"}] /\ stray' \in BOOLEAN BY DEF Close
<1>2. ASSUME OwnsItsOwn PROVE OwnsNone' /\ stray' = stray
  <2>1. ctx.fd \in Fds BY <1>2, ConnectionAssumption DEF OwnsItsOwn, Contexts, Fds
  <2>2. owner[ctx.fd] = "ctx" BY <1>2, <2>1 DEF OwnsItsOwn
  <2>3. owner' = [owner EXCEPT ![ctx.fd] = "free"] /\ stray' = stray BY <2>1, <2>2 DEF Close
  <2>4. OwnsNone' BY <1>2, <2>1, <2>3 DEF OwnsItsOwn, OwnsNone
  <2>q. QED BY <2>3, <2>4
<1>q. QED BY <1>1, <1>2

(* A number of the system that the library takes for its socket. *)
LEMMA FdTaken ==
  ASSUME NEW f \in Fds, owner \in [Fds -> {"free", "ctx", "app"}], OwnsNone,
         owner' = [owner EXCEPT ![f] = "ctx"], ctx'.fd = f
  PROVE  OwnsItsOwn'
BY ConnectionAssumption DEF OwnsItsOwn, OwnsNone, Fds

LEMMA ConnInvInit == ConnInit => ConnInv
<1> SUFFICES ASSUME ConnInit PROVE ConnInv OBVIOUS
<1>1. ConnTypeOK BY NoCallType DEF ConnInit, ConnTypeOK
<1>2. CallSane BY NoCallType DEF ConnInit, CallSane
<1>3. OwnsNone /\ ctx.fd = -1 BY DEF ConnInit, OwnsNone, NoContext
<1>4. ctx \notin Contexts BY DEF ConnInit, NoContext, Contexts
<1>5. AtRest BY <1>3, <1>4 DEF AtRest
<1>6. SocketsSound BY <1>5, NoCallType DEF ConnInit, SocketsSound, Seeking, Holding
<1>q. QED BY <1>1, <1>2, <1>6 DEF ConnInv

-----------------------------------------------------------------------------
(* The ends of a step inside a connecting call. *)
InCall == call.at \in Seeking \cup Holding

LEMMA InCallContext ==
  ASSUME ConnInv, InCall
  PROVE  /\ ctx \in Contexts /\ call \in Calls /\ owner \in [Fds -> {"free", "ctx", "app"}]
         /\ ret \in {"none", "OK", "ERR"} /\ flaw \subseteq {"reconnect", "retry"} /\ stray \in BOOLEAN
<1>1. call.at # "idle" BY DEF InCall, Seeking, Holding
<1>q. QED BY <1>1 DEF ConnInv, CallSane, ConnTypeOK

(* A call that ends where the socket is as it was owns c->fd, or c->fd is no *)
(* number of the library and the excepted reconnect has happened.            *)
LEMMA KeptAtEnd ==
  ASSUME ConnInv, InCall, NEW c \in Contexts, NEW code, c.fd = ctx.fd, Finish(c, code), Keep, code = "ERR",
         c.reuse \/ c.err # "none"
  PROVE  ConnInv'
<1>1. ctx' = c /\ ret' = code /\ call' = NoCall /\ UNCHANGED <<owner, stray>> BY DEF Finish, Keep
<1>2. /\ flaw' \subseteq {"reconnect", "retry"}
      /\ flaw' = {} => flaw = {} /\ ~(call.re /\ ctx.fd > 0 /\ owner[ctx.fd] # "ctx")
  BY InCallContext DEF Finish
<1>3. ASSUME flaw' = {} PROVE ~stray' /\ AtRest'
  <2>1. ~stray BY <1>2, <1>3 DEF ConnInv, SocketsSound
  <2>2. IF ctx.fd > 0 THEN OwnsItsOwn ELSE OwnsNone
    <3>1. CASE call.at \in Holding BY <3>1, <1>2, <1>3 DEF ConnInv, SocketsSound, OwnsItsOwn
    <3>2. CASE call.at \in Seeking
      <4>1. OwnsNone /\ (call.re \/ ctx.fd <= 0) BY <3>2, <1>2, <1>3 DEF ConnInv, SocketsSound
      <4>2. ctx.fd \in -1..MaxFd BY InCallContext DEF Contexts
      <4>3. ctx.fd > 0 => ctx.fd \in Fds BY <4>2, ConnectionAssumption DEF Fds
      <4>4. ctx.fd > 0 => owner[ctx.fd] # "ctx" BY <4>1, <4>3 DEF OwnsNone
      <4>5. ~(ctx.fd > 0) \/ ~call.re BY <4>4, <1>2, <1>3
      <4>6. ~(ctx.fd > 0) BY <4>1, <4>2, <4>5, ConnectionAssumption
      <4>q. QED BY <4>1, <4>6
    <3>q. QED BY <3>1, <3>2 DEF InCall
  <2>3. IF ctx'.fd > 0 THEN OwnsItsOwn' ELSE OwnsNone' BY <2>2, <1>1 DEF OwnsItsOwn, OwnsNone
  <2>4. (ctx'.reuse) \/ Told(ctx', ret') BY <1>1 DEF Told
  <2>q. QED BY <1>1, <2>1, <2>3, <2>4 DEF AtRest
<1>q. QED BY <1>1, <1>2, <1>3, InCallContext, CallEnds

LEMMA FailSound ==
  ASSUME ConnInv, InCall, NEW type \in {"IO", "OTHER"}, Fail(type)
  PROVE  ConnInv'
<1>1. ctx \in Contexts BY InCallContext
<1> DEFINE c == __redisSetError(ctx, type)
<1>2. c \in Contexts /\ c.err = type /\ c.fd = ctx.fd BY <1>1, ErrorSet
<1>3. Finish(c, "ERR") /\ Keep BY DEF Fail
<1> HIDE DEF c
<1>q. QED BY <1>2, <1>3, KeptAtEnd

LEMMA SilentSound ==
  ASSUME ConnInv, InCall, ctx.reuse, Silent
  PROVE  ConnInv'
<1>1. ctx \in Contexts BY InCallContext
<1>2. Finish(ctx, "ERR") /\ Keep BY DEF Silent
<1>q. QED BY <1>1, <1>2, KeptAtEnd

LEMMA FailClosedSound ==
  ASSUME ConnInv, call.at \in Holding, NEW type \in {"IO", "OTHER"}, FailClosed(type)
  PROVE  ConnInv'
<1>1. InCall BY DEF InCall
<1>2. ctx \in Contexts /\ __redisSetError(ctx, type) \in Contexts BY <1>1, InCallContext, ErrorSet
<1> DEFINE d == redisContextCloseFd(__redisSetError(ctx, type))
<1>3. d \in Contexts /\ d.fd = -1 /\ d.err = type BY <1>2, ErrorSet, FdClosed
<1>4. Finish(d, "ERR") /\ Close(ctx.fd) BY DEF FailClosed
<1> HIDE DEF d
<1>5. ctx' = d /\ ret' = "ERR" /\ call' = NoCall BY <1>4 DEF Finish
<1>6. flaw' = flaw BY <1>3, <1>4 DEF Finish
<1>7. ASSUME flaw' = {} PROVE ~stray' /\ AtRest'
  <2>1. ~stray /\ OwnsItsOwn BY <1>6, <1>7 DEF ConnInv, SocketsSound
  <2>2. ~stray' /\ OwnsNone' BY <2>1, <1>1, <1>2, <1>4, InCallContext, OwnClosed
  <2>3. ~(ctx'.fd > 0) BY <1>3, <1>5
  <2>4. ctx'.err # "none" BY <1>3, <1>5
  <2>q. QED BY <2>2, <2>3, <2>4 DEF AtRest, Told
<1>8. owner' \in [Fds -> {"free", "ctx", "app"}] /\ stray' \in BOOLEAN
  BY <1>1, <1>4, InCallContext, OwnClosed
<1>q. QED BY <1>1, <1>3, <1>5, <1>6, <1>7, <1>8, InCallContext, CallEnds

(* A step that keeps the socket, from a place that holds it to such a place. *)
LEMMA HoldsOn ==
  ASSUME ConnInv, call.at \in Holding, call' \in Calls, call'.at \in Holding,
         call'.at = "reuse" => ctx.reuse, UNCHANGED <<ctx, ret, flaw, owner, stray>>
  PROVE  ConnInv'
<1>1. InCall BY DEF InCall
<1>2. flaw = {} => ~stray /\ OwnsItsOwn BY DEF ConnInv, SocketsSound
<1>3. call'.at \notin Seeking BY DEF Seeking, Holding
<1>4. OwnsItsOwn' <=> OwnsItsOwn BY DEF OwnsItsOwn
<1>q. QED BY <1>1, <1>2, <1>3, <1>4, InCallContext, CallGoesOn

LEMMA StepSound ==
  ASSUME ConnInv, call.at \in Holding, NEW next \in Holding,
         next = "reuse" => ctx.reuse, StepTo(next)
  PROVE  ConnInv'
<1>1. InCall BY DEF InCall
<1>2. call' = [call EXCEPT !.at = next] /\ UNCHANGED <<ctx, ret, flaw, owner, stray>> BY DEF StepTo, Keep
<1>3. call' \in Calls /\ call'.at = next BY <1>1, <1>2, InCallContext, CallMoves
<1>q. QED BY <1>2, <1>3, HoldsOn

LEMMA WaitSound ==
  ASSUME ConnInv, call.at \in Holding, NEW errno \in {"EINPROGRESS", "other"}, Wait(errno)
  PROVE  ConnInv'
<1>1. call \in Calls BY DEF ConnInv, ConnTypeOK
<1>2. call' = [call EXCEPT !.at = "wait", !.errno = errno] /\ UNCHANGED <<ctx, ret, flaw, owner, stray>>
  BY DEF Wait, Keep
<1>3. call' \in Calls /\ call'.at = "wait" BY <1>1, <1>2 DEF Calls, Holding, Reasons
<1>q. QED BY <1>2, <1>3, HoldsOn DEF Holding

(* A socket is made: from a place that seeks one to a place that holds it. *)
LEMMA SocketMade ==
  ASSUME ConnInv, call.at \in Seeking, FreeFds # {}, NEW next \in {"nonblock", "unixblock"},
         ctx' = [ctx EXCEPT !.fd = Lowest], owner' = [owner EXCEPT ![Lowest] = "ctx"],
         call' = [call EXCEPT !.at = next], UNCHANGED <<ret, flaw, stray>>
  PROVE  ConnInv'
<1>1. InCall BY DEF InCall
<1>2. Lowest \in Fds BY LowestIsFree
<1>3. Lowest \in -1..MaxFd BY <1>2, ConnectionAssumption DEF Fds
<1>4. ctx' \in Contexts /\ ctx'.fd = Lowest BY <1>1, <1>3, InCallContext, FdSet
<1>5. next \in Holding /\ next \notin Seeking /\ next # "reuse" BY DEF Holding, Seeking
<1>6. call' \in Calls /\ call'.at = next BY <1>1, <1>5, InCallContext, CallMoves
<1>7. owner' \in [Fds -> {"free", "ctx", "app"}] BY <1>1, <1>2, InCallContext
<1>8. ASSUME flaw' = {} PROVE ~stray' /\ OwnsItsOwn'
  <2>1. ~stray /\ OwnsNone BY <1>8 DEF ConnInv, SocketsSound
  <2>q. QED BY <2>1, <1>1, <1>2, <1>4, InCallContext, FdTaken
<1>q. QED BY <1>1, <1>4, <1>5, <1>6, <1>7, <1>8, InCallContext, CallGoesOn

(* A step that looks on for a socket. *)
LEMMA SeeksOn ==
  ASSUME ConnInv, call.at \in Seeking, call' \in Calls, call'.at \in Seeking, call'.re = call.re,
         UNCHANGED <<ctx, ret, flaw, owner, stray>>
  PROVE  ConnInv'
<1>1. InCall BY DEF InCall
<1>2. flaw = {} => ~stray /\ OwnsNone /\ (call.re \/ ctx.fd <= 0) BY DEF ConnInv, SocketsSound
<1>3. call'.at \notin Holding /\ call'.at # "reuse" BY DEF Seeking, Holding
<1>4. OwnsNone' <=> OwnsNone BY DEF OwnsNone
<1>q. QED BY <1>1, <1>2, <1>3, <1>4, InCallContext, CallGoesOn

-----------------------------------------------------------------------------
(* _redisContextConnectTcp and redisContextConnectUnix, call by call. *)
LEMMA ResolveSound == ASSUME ConnInv, getaddrinfo PROVE ConnInv'
<1>1. call.at = "resolve" /\ call.at \in Seeking BY DEF getaddrinfo, CallAt, Seeking
<1>2. InCall BY <1>1 DEF InCall
<1>3. CASE Fail("OTHER") BY <1>2, <1>3, FailSound
<1>4. ASSUME NEW n \in 1..MaxAddresses, call' = [call EXCEPT !.at = "socket", !.addrs = n],
             UNCHANGED <<ctx, ret, flaw>>, Keep
      PROVE  ConnInv'
  <2>1. call' \in Calls /\ call'.at = "socket" /\ call'.re = call.re
    <3>1. call \in Calls /\ n \in Int BY <1>2, InCallContext, ConnectionAssumption
    <3>q. QED BY <1>4, <3>1, CallSeeksAgain
  <2>2. call'.at \in Seeking BY <2>1 DEF Seeking
  <2>q. QED BY <1>1, <1>4, <2>1, <2>2, SeeksOn DEF Keep
<1>q. QED BY <1>3, <1>4 DEF getaddrinfo

LEMMA SocketSound == ASSUME ConnInv, NextSocket PROVE ConnInv'
<1>1. call.at = "socket" /\ call.at \in Seeking BY DEF NextSocket, CallAt, Seeking
<1>2. InCall BY <1>1 DEF InCall
<1>3. CASE Fail("OTHER") BY <1>2, <1>3, FailSound
<1>4. CASE call' = [call EXCEPT !.addrs = @ - 1] /\ UNCHANGED <<ctx, ret, flaw>> /\ Keep
  <2>1. call' \in Calls /\ call'.at = call.at /\ call'.re = call.re
    BY <1>2, <1>4, InCallContext DEF Calls
  <2>q. QED BY <1>1, <1>4, <2>1, SeeksOn DEF Keep
<1>5. CASE /\ FreeFds # {} /\ ctx' = [ctx EXCEPT !.fd = Lowest]
           /\ owner' = [owner EXCEPT ![Lowest] = "ctx"]
           /\ call' = [call EXCEPT !.at = "nonblock"] /\ UNCHANGED <<ret, flaw, stray>>
  BY <1>1, <1>5, SocketMade
<1>q. QED BY <1>3, <1>4, <1>5 DEF NextSocket

LEMMA CreateSound == ASSUME ConnInv, redisCreateSocket PROVE ConnInv'
<1>1. call.at \in Seeking BY DEF redisCreateSocket, CallAt, Seeking
<1>2. InCall BY <1>1 DEF InCall
<1>3. CASE Fail("IO") BY <1>2, <1>3, FailSound
<1>4. CASE /\ FreeFds # {} /\ ctx' = [ctx EXCEPT !.fd = Lowest]
           /\ owner' = [owner EXCEPT ![Lowest] = "ctx"]
           /\ call' = [call EXCEPT !.at = "unixblock"] /\ UNCHANGED <<ret, flaw, stray>>
  BY <1>1, <1>4, SocketMade
<1>q. QED BY <1>3, <1>4 DEF redisCreateSocket

LEMMA BlockingSound ==
  ASSUME ConnInv, NEW place \in Holding, NEW next \in Holding \ {"reuse"}, redisSetBlocking(place, next)
  PROVE  ConnInv'
<1>1. call.at \in Holding BY DEF redisSetBlocking, CallAt
<1>2. CASE StepTo(next) BY <1>1, <1>2, StepSound
<1>3. CASE FailClosed("IO") BY <1>1, <1>3, FailClosedSound
<1>q. QED BY <1>2, <1>3 DEF redisSetBlocking

LEMMA SetNonBlockingSound == ASSUME ConnInv, SetNonBlocking PROVE ConnInv'
<1> DEFINE next == IF ctx.source THEN "source" ELSE "connect"
<1>1. "nonblock" \in Holding /\ next \in Holding \ {"reuse"} BY DEF Holding
<1>2. redisSetBlocking("nonblock", next) BY DEF SetNonBlocking
<1> HIDE DEF next
<1>q. QED BY <1>1, <1>2, BlockingSound

LEMMA BindAddressSound == ASSUME ConnInv, BindAddress PROVE ConnInv'
<1>1. call.at \in Holding BY DEF BindAddress, CallAt, Holding
<1>2. CASE Fail("OTHER") BY <1>1, <1>2, FailSound DEF InCall
<1>3. CASE ctx.reuse /\ StepTo("reuse")
  <2>1. "reuse" \in Holding BY DEF Holding
  <2>q. QED BY <1>1, <1>3, <2>1, StepSound
<1>4. CASE StepTo("bind")
  <2>1. "bind" \in Holding BY DEF Holding
  <2>q. QED BY <1>1, <1>4, <2>1, StepSound
<1>q. QED BY <1>2, <1>3, <1>4 DEF BindAddress

LEMMA ReuseSound == ASSUME ConnInv, Reuse PROVE ConnInv'
<1>1. call.at = "reuse" /\ call.at \in Holding /\ "bind" \in Holding BY DEF Reuse, CallAt, Holding
<1>2. InCall /\ ctx.reuse BY <1>1 DEF InCall, ConnInv, CallSane
<1>3. CASE StepTo("bind") BY <1>1, <1>3, StepSound
<1>4. CASE Silent BY <1>2, <1>4, SilentSound
<1>q. QED BY <1>3, <1>4 DEF Reuse

LEMMA BindSound == ASSUME ConnInv, Bind PROVE ConnInv'
<1>1. call.at \in Holding /\ "connect" \in Holding BY DEF Bind, CallAt, Holding
<1>2. CASE StepTo("connect") BY <1>1, <1>2, StepSound
<1>3. CASE Fail("OTHER") BY <1>1, <1>3, FailSound DEF InCall
<1>q. QED BY <1>2, <1>3 DEF Bind

(* The next address: the socket of the last one is closed. *)
LEMMA ConnectSound == ASSUME ConnInv, Connect PROVE ConnInv'
<1>1. call.at = "connect" /\ call.at \in Holding /\ "reblock" \in Holding BY DEF Connect, CallAt, Holding
<1>2. InCall BY <1>1 DEF InCall
<1>3. CASE StepTo("reblock") BY <1>1, <1>3, StepSound
<1>4. CASE Wait("EINPROGRESS") BY <1>1, <1>4, WaitSound
<1>5. CASE Wait("other") BY <1>1, <1>5, WaitSound
<1>6. CASE /\ ctx' = redisContextCloseFd(ctx) /\ Close(ctx.fd)
           /\ call' = [call EXCEPT !.at = "socket", !.addrs = @ - 1] /\ UNCHANGED <<ret, flaw>>
  <2>1. ctx' \in Contexts /\ ctx'.fd = -1 BY <1>2, <1>6, InCallContext, FdClosed
  <2>2. call' \in Calls /\ call'.at = "socket"
    <3>1. call \in Calls /\ call.addrs - 1 \in Int BY <1>2, InCallContext DEF Calls
    <3>2. call' = [call EXCEPT !.at = "socket", !.addrs = call.addrs - 1] BY <1>6
    <3>q. QED BY <3>1, <3>2, CallSeeksAgain
  <2>3. "socket" \in Seeking /\ "socket" \notin Holding BY DEF Seeking, Holding
  <2>4. /\ owner' \in [Fds -> {"free", "ctx", "app"}] /\ stray' \in BOOLEAN
        /\ OwnsItsOwn => OwnsNone' /\ stray' = stray
    BY <1>2, <1>6, InCallContext, OwnClosed
  <2>5. flaw = {} => ~stray /\ OwnsItsOwn BY <1>1 DEF ConnInv, SocketsSound
  <2>6. ctx'.fd <= 0 BY <2>1
  <2>q. QED BY <1>2, <1>6, <2>1, <2>2, <2>3, <2>4, <2>5, <2>6, InCallContext, CallGoesOn
<1>7. CASE ctx.reuse /\ Silent BY <1>2, <1>7, SilentSound
<1>8. CASE /\ call' = [call EXCEPT !.at = "socket", !.reuses = @ + 1]
           /\ flaw' = flaw \cup {"retry"} /\ UNCHANGED <<ctx, ret>> /\ Keep
  <2>1. call' \in Calls /\ call'.at = "socket"
    <3>1. call \in Calls /\ call.reuses + 1 \in Int BY <1>2, InCallContext DEF Calls
    <3>2. call' = [call EXCEPT !.at = "socket", !.reuses = call.reuses + 1] BY <1>8
    <3>q. QED BY <3>1, <3>2, CallSeeksAgain
  <2>2. "socket" \in Seeking BY DEF Seeking
  <2>3. flaw' # {} /\ flaw' \subseteq {"reconnect", "retry"} BY <1>2, <1>8, InCallContext
  <2>q. QED BY <1>2, <1>8, <2>1, <2>2, <2>3, InCallContext, CallGoesOn DEF Keep
<1>q. QED BY <1>3, <1>4, <1>5, <1>6, <1>7, <1>8 DEF Connect

LEMMA WaitReadySound == ASSUME ConnInv, redisContextWaitReady PROVE ConnInv'
<1>1. call.at \in Holding /\ "reblock" \in Holding BY DEF redisContextWaitReady, CallAt, Holding
<1>2. CASE FailClosed("IO") BY <1>1, <1>2, FailClosedSound
<1>3. CASE StepTo("reblock") BY <1>1, <1>3, StepSound
<1>4. CASE Fail("IO") BY <1>1, <1>4, FailSound DEF InCall
<1>q. QED BY <1>2, <1>3, <1>4 DEF redisContextWaitReady, redisCheckSocketError

LEMMA SetBackBlockingSound == ASSUME ConnInv, SetBackBlocking PROVE ConnInv'
<1> DEFINE next == IF ctx.type = "tcp" THEN "nodelay" ELSE "done"
<1>1. "reblock" \in Holding /\ next \in Holding \ {"reuse"} BY DEF Holding
<1>2. redisSetBlocking("reblock", next) \/ (CallAt("reblock") /\ StepTo(next)) BY DEF SetBackBlocking
<1> HIDE DEF next
<1>q. QED BY <1>1, <1>2, BlockingSound, StepSound DEF CallAt

LEMMA NoDelaySound == ASSUME ConnInv, redisSetTcpNoDelay PROVE ConnInv'
<1>1. call.at \in Holding /\ "done" \in Holding BY DEF redisSetTcpNoDelay, CallAt, Holding
<1>2. CASE StepTo("done") BY <1>1, <1>2, StepSound
<1>3. CASE FailClosed("IO") BY <1>1, <1>3, FailClosedSound
<1>q. QED BY <1>2, <1>3 DEF redisSetTcpNoDelay

LEMMA ConnectedSound == ASSUME ConnInv, Connected PROVE ConnInv'
<1>1. call.at \in Holding BY DEF Connected, CallAt, Holding
<1>2. InCall BY <1>1 DEF InCall
<1>3. /\ ctx' = [ctx EXCEPT !.connected = TRUE] /\ ret' = "OK" /\ call' = NoCall
      /\ flaw' = flaw /\ UNCHANGED <<owner, stray>>
  BY DEF Connected, Finish, Keep
<1>4. ctx' \in Contexts /\ ctx'.fd = ctx.fd BY <1>2, <1>3, InCallContext DEF Contexts
<1>5. ASSUME flaw' = {} PROVE ~stray' /\ AtRest'
  <2>1. ~stray /\ OwnsItsOwn BY <1>1, <1>3, <1>5 DEF ConnInv, SocketsSound
  <2>2. OwnsItsOwn' BY <2>1, <1>3, <1>4 DEF OwnsItsOwn
  <2>3. ctx'.fd > 0 BY <2>2 DEF OwnsItsOwn
  <2>q. QED BY <2>1, <2>2, <2>3, <1>3 DEF AtRest, Told
<1>q. QED BY <1>2, <1>3, <1>4, <1>5, InCallContext, CallEnds

LEMMA UnixBlockSound == ASSUME ConnInv, UnixNonBlocking PROVE ConnInv'
<1>1. call.at \in Holding BY DEF UnixNonBlocking, CallAt, Holding
<1>2. InCall BY <1>1 DEF InCall
<1>3. CASE FailClosed("IO") BY <1>1, <1>3, FailClosedSound
<1>4. CASE /\ ctx' = [ctx EXCEPT !.type = "unix", !.timeout = call.errno]
           /\ call' = [call EXCEPT !.at = "unixconnect", !.errno = "none"]
           /\ UNCHANGED <<ret, flaw>> /\ Keep
  <2>1. call.errno \in Reasons BY <1>2, InCallContext DEF Calls
  <2>2. ctx' \in Contexts /\ ctx'.fd = ctx.fd BY <1>2, <1>4, <2>1, InCallContext DEF Contexts
  <2>3. call' \in Calls /\ call'.at = "unixconnect"
    BY <1>2, <1>4, InCallContext DEF Calls, Holding, Reasons, Timeouts
  <2>4. "unixconnect" \in Holding /\ "unixconnect" \notin Seeking BY DEF Holding, Seeking
  <2>5. flaw = {} => ~stray /\ OwnsItsOwn BY <1>1 DEF ConnInv, SocketsSound
  <2>6. OwnsItsOwn => OwnsItsOwn' BY <1>4, <2>2 DEF OwnsItsOwn, Keep
  <2>q. QED BY <1>2, <1>4, <2>2, <2>3, <2>4, <2>5, <2>6, InCallContext, CallGoesOn DEF Keep
<1>q. QED BY <1>3, <1>4 DEF UnixNonBlocking

LEMMA UnixConnectSound == ASSUME ConnInv, UnixConnect PROVE ConnInv'
<1>1. call.at \in Holding /\ "reblock" \in Holding BY DEF UnixConnect, CallAt, Holding
<1>2. CASE StepTo("reblock") BY <1>1, <1>2, StepSound
<1>3. CASE Wait("EINPROGRESS") BY <1>1, <1>3, WaitSound
<1>4. CASE Wait("other") BY <1>1, <1>4, WaitSound
<1>q. QED BY <1>2, <1>3, <1>4 DEF UnixConnect

-----------------------------------------------------------------------------
(* The calls of the application. *)
LEMMA AtRestContext ==
  ASSUME ConnInv, call = NoCall
  PROVE  /\ ctx \in Contexts \cup {NoContext} /\ owner \in [Fds -> {"free", "ctx", "app"}]
         /\ ctx.alive => ctx \in Contexts
         /\ ~ctx.alive => ctx = NoContext /\ ctx.fd = -1
         /\ ret \in {"none", "OK", "ERR"} /\ flaw \subseteq {"reconnect", "retry"} /\ stray \in BOOLEAN
         /\ flaw = {} => ~stray /\ AtRest
<1>1. flaw = {} => ~stray /\ AtRest BY NoCallType DEF ConnInv, SocketsSound
<1>2. ctx \in Contexts => ctx.alive = TRUE BY DEF Contexts
<1>3. NoContext.alive = FALSE /\ NoContext.fd = -1 BY DEF NoContext
<1>q. QED BY <1>1, <1>2, <1>3 DEF ConnInv, ConnTypeOK

(* A new call starts without a socket. *)
LEMMA CallStarts ==
  ASSUME ConnInv, call = NoCall, NEW c \in Contexts, NEW timeout \in Reasons, NEW again \in BOOLEAN,
         ContextConnectTcp(c, timeout, again) \/ ContextConnectUnix(c, timeout, again),
         owner' \in [Fds -> {"free", "ctx", "app"}], stray' \in BOOLEAN,
         ret' \in {"none", "OK", "ERR"}, flaw' = flaw, again \/ c.fd <= 0,
         flaw = {} => ~stray' /\ OwnsNone'
  PROVE  ConnInv'
<1>1. ctx' \in Contexts /\ ctx'.fd = c.fd
  BY DEF ContextConnectTcp, ContextConnectUnix, Contexts
<1>2. PICK d \in Calls : call' = d /\ d.at \in Seeking /\ d.re = again
  <2>1. NoCall \in Calls /\ "resolve" \in Seeking /\ "create" \in Seeking BY NoCallType DEF Seeking
  <2> DEFINE t == [NoCall EXCEPT !.at = "resolve", !.re = again]
             u == [NoCall EXCEPT !.at = "create", !.errno = timeout, !.re = again]
  <2>2. t \in Calls /\ t.at \in Seeking /\ t.re = again BY <2>1 DEF Calls
  <2>3. u \in Calls /\ u.at \in Seeking /\ u.re = again BY <2>1 DEF Calls
  <2>4. call' = t \/ call' = u BY DEF ContextConnectTcp, ContextConnectUnix
  <2> HIDE DEF t, u
  <2>q. QED BY <2>2, <2>3, <2>4
<1>3. call'.at \in Seeking /\ call'.at \notin Holding /\ call'.at # "reuse" BY <1>2 DEF Seeking, Holding
<1>4. flaw' \subseteq {"reconnect", "retry"} BY AtRestContext
<1>q. QED BY <1>1, <1>2, <1>3, <1>4, CallGoesOn

LEMMA InitContext ==
  ASSUME NEW b \in BOOLEAN, NEW r \in BOOLEAN, NEW s \in BOOLEAN
  PROVE  /\ redisContextInit(b, r, s) \in Contexts /\ redisContextInit(b, r, s).fd = 0
BY ConnectionAssumption DEF redisContextInit, Contexts, Reasons, Timeouts

LEMMA FreshSound ==
  ASSUME ConnInv, Fresh, NEW b \in BOOLEAN, NEW r \in BOOLEAN, NEW s \in BOOLEAN, NEW timeout \in Timeouts,
         \/ ContextConnectTcp(redisContextInit(b, r, s), timeout, FALSE)
         \/ ContextConnectUnix(redisContextInit(b, r, s), timeout, FALSE)
  PROVE  ConnInv'
<1> DEFINE c == redisContextInit(b, r, s)
<1>1. c \in Contexts /\ c.fd = 0 BY InitContext
<1>2. ~ctx.alive /\ call = NoCall /\ ret' = "none" /\ flaw' = flaw /\ UNCHANGED <<owner, stray>> BY DEF Fresh, Keep
<1>3. flaw = {} => ~stray /\ OwnsNone BY <1>2, AtRestContext DEF AtRest
<1>4. OwnsNone' <=> OwnsNone BY <1>2 DEF OwnsNone
<1>5. timeout \in Reasons BY DEF Reasons
<1>6. ContextConnectTcp(c, timeout, FALSE) \/ ContextConnectUnix(c, timeout, FALSE) OBVIOUS
<1>7. c.fd <= 0 BY <1>1
<1> HIDE DEF c
<1>q. QED BY <1>1, <1>2, <1>3, <1>4, <1>5, <1>6, <1>7, AtRestContext, CallStarts

LEMMA ConnectCallsSound ==
  ASSUME ConnInv,
         \/ redisConnect \/ redisConnectWithTimeout \/ redisConnectNonBlock
         \/ redisConnectBindNonBlock \/ redisConnectBindNonBlockWithReuse
         \/ redisConnectUnix \/ redisConnectUnixWithTimeout \/ redisConnectUnixNonBlock
  PROVE  ConnInv'
<1>1. "none" \in Timeouts BY DEF Timeouts
<1>2. CASE redisConnect BY <1>1, <1>2, FreshSound DEF redisConnect
<1>3. CASE redisConnectWithTimeout BY <1>3, FreshSound DEF redisConnectWithTimeout
<1>4. CASE redisConnectNonBlock BY <1>1, <1>4, FreshSound DEF redisConnectNonBlock
<1>5. CASE redisConnectBindNonBlock BY <1>1, <1>5, FreshSound DEF redisConnectBindNonBlock
<1>6. CASE redisConnectBindNonBlockWithReuse BY <1>1, <1>6, FreshSound DEF redisConnectBindNonBlockWithReuse
<1>7. CASE redisConnectUnix BY <1>1, <1>7, FreshSound DEF redisConnectUnix
<1>8. CASE redisConnectUnixWithTimeout BY <1>8, FreshSound DEF redisConnectUnixWithTimeout
<1>9. CASE redisConnectUnixNonBlock BY <1>1, <1>9, FreshSound DEF redisConnectUnixNonBlock
<1>q. QED BY <1>2, <1>3, <1>4, <1>5, <1>6, <1>7, <1>8, <1>9

LEMMA ConnectFdSound == ASSUME ConnInv, redisConnectFd PROVE ConnInv'
<1>1. PICK f \in Fds : /\ owner[f] = "app" /\ owner' = [owner EXCEPT ![f] = "ctx"]
                       /\ ctx' = [redisContextInit(TRUE, FALSE, FALSE) EXCEPT !.fd = f, !.connected = TRUE]
  BY DEF redisConnectFd
<1>2. ~ctx.alive /\ call = NoCall /\ ret' = "OK" /\ UNCHANGED <<call, flaw, stray>> BY DEF redisConnectFd
<1>3. f \in -1..MaxFd /\ f > 0 BY ConnectionAssumption DEF Fds
<1>4. ctx' \in Contexts /\ ctx'.fd = f
  <2>1. redisContextInit(TRUE, FALSE, FALSE) \in Contexts BY InitContext
  <2>q. QED BY <1>1, <1>3, <2>1 DEF Contexts
<1>5. owner' \in [Fds -> {"free", "ctx", "app"}] BY <1>1, <1>2, AtRestContext
<1>6. ASSUME flaw' = {} PROVE ~stray' /\ AtRest'
  <2>1. ~stray /\ OwnsNone BY <1>2, <1>6, AtRestContext DEF AtRest
  <2>2. OwnsItsOwn' BY <1>1, <1>2, <1>4, <2>1, AtRestContext, FdTaken
  <2>3. ctx'.fd > 0 BY <1>3, <1>4
  <2>q. QED BY <1>2, <2>1, <2>2, <2>3 DEF AtRest, Told
<1>q. QED BY <1>2, <1>4, <1>5, <1>6, AtRestContext, CallEnds

(* The old socket is closed before the new one is asked for. *)
LEMMA OldClosed ==
  ASSUME ConnInv, Ready, IF ctx.fd > 0 THEN Close(ctx.fd) ELSE Keep
  PROVE  /\ owner' \in [Fds -> {"free", "ctx", "app"}] /\ stray' \in BOOLEAN
         /\ flaw = {} => ~stray' /\ OwnsNone'
<1>1. ctx \in Contexts /\ call = NoCall BY AtRestContext DEF Ready
<1>2. CASE ctx.fd > 0
  <2>1. Close(ctx.fd) BY <1>2
  <2>2. flaw = {} => ~stray /\ OwnsItsOwn BY <1>1, <1>2, AtRestContext DEF AtRest
  <2>q. QED BY <1>1, <2>1, <2>2, AtRestContext, OwnClosed
<1>3. CASE ~(ctx.fd > 0)
  <2>1. UNCHANGED <<owner, stray>> BY <1>3 DEF Keep
  <2>2. flaw = {} => ~stray /\ OwnsNone BY <1>1, <1>3, AtRestContext DEF AtRest
  <2>q. QED BY <1>1, <2>1, <2>2, AtRestContext DEF OwnsNone
<1>q. QED BY <1>2, <1>3

LEMMA ReconnectSound == ASSUME ConnInv, redisReconnect PROVE ConnInv'
<1> DEFINE c == [ctx EXCEPT !.err = "none"]
<1>1. Ready /\ ctx \in Contexts /\ call = NoCall BY AtRestContext DEF redisReconnect, Ready
<1>2. c \in Contexts /\ c.fd = ctx.fd /\ c.timeout \in Reasons BY <1>1 DEF Contexts
<1>3. /\ owner' \in [Fds -> {"free", "ctx", "app"}] /\ stray' \in BOOLEAN
      /\ flaw = {} => ~stray' /\ OwnsNone'
  BY <1>1, OldClosed DEF redisReconnect
<1>4. \/ (ContextConnectTcp(c, c.timeout, TRUE) \/ ContextConnectUnix(c, c.timeout, TRUE)) /\ UNCHANGED <<ret, flaw>>
      \/ /\ ctx' = __redisSetError(c, "OTHER") /\ call' = NoCall /\ ret' = "ERR"
         /\ flaw' = IF c.fd > 0 THEN flaw \cup {"reconnect"} ELSE flaw
  BY DEF redisReconnect
<1> HIDE DEF c
<1>5. CASE (ContextConnectTcp(c, c.timeout, TRUE) \/ ContextConnectUnix(c, c.timeout, TRUE)) /\ UNCHANGED <<ret, flaw>>
  <2>1. c.timeout \in Reasons /\ TRUE \in BOOLEAN BY <1>2
  <2>2. ret' \in {"none", "OK", "ERR"} /\ flaw' = flaw BY <1>1, <1>5, AtRestContext
  <2>q. QED BY <1>1, <1>2, <1>3, <1>5, <2>1, <2>2, CallStarts
<1>6. CASE /\ ctx' = __redisSetError(c, "OTHER") /\ call' = NoCall /\ ret' = "ERR"
           /\ flaw' = IF c.fd > 0 THEN flaw \cup {"reconnect"} ELSE flaw
  <2>1. ctx' \in Contexts /\ ctx'.err = "OTHER" /\ ctx'.fd = c.fd BY <1>2, <1>6, ErrorSet
  <2>2. flaw' \subseteq {"reconnect", "retry"} /\ (flaw' = {} => flaw = {} /\ ~(c.fd > 0))
    BY <1>1, <1>6, AtRestContext
  <2>3. flaw' = {} => ~stray' /\ AtRest' BY <1>3, <1>6, <2>1, <2>2 DEF AtRest, Told
  <2>q. QED BY <1>3, <1>6, <2>1, <2>2, <2>3, CallEnds
<1>q. QED BY <1>4, <1>5, <1>6

LEMMA NoContextType == NoContext \notin Contexts /\ ~(NoContext.fd > 0)
<1>1. NoContext.alive = FALSE /\ NoContext.fd = -1 BY DEF NoContext
<1>2. \A c \in Contexts : c.alive = TRUE BY DEF Contexts
<1>q. QED BY <1>1, <1>2

LEMMA FreeSound == ASSUME ConnInv, redisFree PROVE ConnInv'
<1>1. Ready /\ call' = NoCall /\ ctx' = NoContext /\ ret' = "none" /\ flaw' = flaw
  BY DEF redisFree, Ready
<1>2. /\ owner' \in [Fds -> {"free", "ctx", "app"}] /\ stray' \in BOOLEAN
      /\ flaw = {} => ~stray' /\ OwnsNone'
  BY <1>1, OldClosed DEF redisFree
<1>3. flaw' = {} => ~stray' /\ AtRest' BY <1>1, <1>2, NoContextType DEF AtRest
<1>4. flaw' \subseteq {"reconnect", "retry"} BY <1>1, AtRestContext DEF Ready
<1>q. QED BY <1>1, <1>2, <1>3, <1>4, CallEnds

LEMMA FreeKeepFdSound == ASSUME ConnInv, redisFreeKeepFd PROVE ConnInv'
<1>1. /\ Ready /\ call = NoCall /\ call' = NoCall /\ ctx' = NoContext /\ ret' = "none"
      /\ flaw' = flaw /\ stray' = stray
  BY DEF redisFreeKeepFd, Ready
<1>2. owner' = IF ctx.fd \in Fds /\ owner[ctx.fd] = "ctx" THEN [owner EXCEPT ![ctx.fd] = "app"] ELSE owner
  BY DEF redisFreeKeepFd
<1>3. owner' \in [Fds -> {"free", "ctx", "app"}] BY <1>1, <1>2, AtRestContext
<1>4. ASSUME flaw' = {} PROVE ~stray' /\ AtRest'
  <2>1. ~stray /\ (IF ctx.fd > 0 THEN OwnsItsOwn ELSE OwnsNone) BY <1>1, <1>4, AtRestContext DEF AtRest
  <2>2. OwnsNone'
    <3>1. CASE OwnsItsOwn BY <1>1, <1>2, <3>1, AtRestContext DEF OwnsItsOwn, OwnsNone
    <3>2. CASE OwnsNone BY <1>2, <3>2 DEF OwnsNone
    <3>q. QED BY <2>1, <3>1, <3>2
  <2>q. QED BY <1>1, <2>1, <2>2, NoContextType DEF AtRest
<1>q. QED BY <1>1, <1>3, <1>4, AtRestContext, CallEnds

LEMMA ErrorNoted ==
  ASSUME ConnInv, Ready, NEW type \in {"IO", "OTHER"}, ctx' = __redisSetError(ctx, type),
         UNCHANGED <<owner, call, ret, flaw, stray>>
  PROVE  ConnInv'
<1>1. ctx \in Contexts /\ call = NoCall BY AtRestContext DEF Ready
<1>2. ctx' \in Contexts /\ ctx'.fd = ctx.fd /\ ctx'.err = type BY <1>1, ErrorSet
<1>3. flaw' = {} => ~stray' /\ AtRest'
  BY <1>1, <1>2, AtRestContext DEF AtRest, Told, OwnsItsOwn, OwnsNone
<1>q. QED BY <1>1, <1>2, <1>3, AtRestContext, CallEnds

(* A file of another thread is no matter of the library's sockets. *)
LEMMA OthersFiles ==
  ASSUME ConnInv, NEW f \in Fds, NEW s \in {"free", "app"}, owner[f] # "ctx",
         owner' = [owner EXCEPT ![f] = s], UNCHANGED <<ctx, call, ret, flaw, stray>>
  PROVE  ConnInv'
<1>1. owner \in [Fds -> {"free", "ctx", "app"}] BY DEF ConnInv, ConnTypeOK
<1>2. \A g \in Fds : owner'[g] = "ctx" <=> owner[g] = "ctx" BY <1>1
<1>3. (OwnsItsOwn' <=> OwnsItsOwn) /\ (OwnsNone' <=> OwnsNone) BY <1>2 DEF OwnsItsOwn, OwnsNone
<1>4. AtRest' <=> AtRest BY <1>3 DEF AtRest
<1>5. ConnTypeOK' BY <1>1 DEF ConnInv, ConnTypeOK
<1>6. CallSane' BY DEF ConnInv, CallSane
<1>7. SocketsSound' BY <1>3, <1>4 DEF ConnInv, SocketsSound
<1>q. QED BY <1>5, <1>6, <1>7 DEF ConnInv

LEMMA AppSound == ASSUME ConnInv, AppOpens \/ AppCloses PROVE ConnInv'
<1>1. CASE AppOpens
  <2>1. Lowest \in Fds /\ owner[Lowest] # "ctx" BY <1>1, LowestIsFree DEF AppOpens
  <2>q. QED BY <1>1, <2>1, OthersFiles DEF AppOpens
<1>2. CASE AppCloses BY <1>2, OthersFiles DEF AppCloses
<1>q. QED BY <1>1, <1>2

-----------------------------------------------------------------------------
LEMMA ConnInvStutters == ASSUME ConnInv, UNCHANGED connVars PROVE ConnInv'
BY DEF connVars, ConnInv, ConnTypeOK, CallSane, SocketsSound, AtRest, OwnsItsOwn, OwnsNone

LEMMA ConnInvInductive == ConnInv /\ [ConnNext]_connVars => ConnInv'
<1> SUFFICES ASSUME ConnInv, [ConnNext]_connVars PROVE ConnInv' OBVIOUS
<1>1. CASE UNCHANGED connVars BY <1>1, ConnInvStutters
<1>2. CASE \/ redisConnect \/ redisConnectWithTimeout \/ redisConnectNonBlock
           \/ redisConnectBindNonBlock \/ redisConnectBindNonBlockWithReuse
           \/ redisConnectUnix \/ redisConnectUnixWithTimeout \/ redisConnectUnixNonBlock
  BY <1>2, ConnectCallsSound
<1>3. CASE redisConnectFd BY <1>3, ConnectFdSound
<1>4. CASE redisReconnect BY <1>4, ReconnectSound
<1>5. CASE redisFree BY <1>5, FreeSound
<1>6. CASE redisFreeKeepFd BY <1>6, FreeKeepFdSound
<1>7. CASE redisContextSetTimeout BY <1>7, ErrorNoted DEF redisContextSetTimeout
<1>8. CASE redisKeepAlive BY <1>8, ErrorNoted DEF redisKeepAlive
<1>9. CASE getaddrinfo \/ NextSocket \/ SetNonBlocking \/ BindAddress \/ Reuse \/ Bind
  BY <1>9, ResolveSound, SocketSound, SetNonBlockingSound, BindAddressSound, ReuseSound, BindSound
<1>10. CASE Connect \/ redisContextWaitReady \/ SetBackBlocking \/ redisSetTcpNoDelay \/ Connected
  BY <1>10, ConnectSound, WaitReadySound, SetBackBlockingSound, NoDelaySound, ConnectedSound
<1>11. CASE redisCreateSocket \/ UnixNonBlocking \/ UnixConnect
  BY <1>11, CreateSound, UnixBlockSound, UnixConnectSound
<1>12. CASE AppOpens \/ AppCloses BY <1>12, AppSound
<1>q. QED
  BY <1>1, <1>2, <1>3, <1>4, <1>5, <1>6, <1>7, <1>8, <1>9, <1>10, <1>11, <1>12 DEF ConnNext

LEMMA ConnInvAccounts == ConnInv => SocketsAccounted
<1> SUFFICES ASSUME ConnInv PROVE SocketsAccounted OBVIOUS
<1>1. ASSUME call = NoCall, flaw = {}
      PROVE  /\ OwnedByContext = (IF ctx.fd > 0 THEN {ctx.fd} ELSE {})
             /\ ~stray
             /\ ctx.fd > 0 => ctx.fd \in OwnedByContext
  <2>1. ~stray /\ AtRest /\ ctx \in Contexts \cup {NoContext} BY <1>1, AtRestContext
  <2>2. CASE ctx.fd > 0
    <3>1. ctx \in Contexts /\ OwnsItsOwn BY <2>1, <2>2, NoContextType DEF AtRest
    <3>2. ctx.fd \in Fds BY <2>2, <3>1, ConnectionAssumption DEF Contexts, Fds
    <3>q. QED BY <2>1, <2>2, <3>1, <3>2 DEF OwnsItsOwn, OwnedByContext
  <2>3. CASE ~(ctx.fd > 0)
    <3>1. OwnsNone BY <2>1, <2>3 DEF AtRest
    <3>q. QED BY <2>1, <2>3, <3>1 DEF OwnsNone, OwnedByContext
  <2>q. QED BY <2>2, <2>3
<1>2. DescriptorsKept BY <1>1 DEF DescriptorsKept
<1>3. FailureReported
  <2> SUFFICES ASSUME Ready, flaw = {}, ~ctx.reuse
               PROVE  (ctx.err = "none" => ctx.fd \in OwnedByContext) /\ (ret = "ERR" => ctx.err # "none")
    BY DEF FailureReported
  <2>1. call = NoCall /\ AtRest /\ ctx \in Contexts BY AtRestContext DEF Ready
  <2>2. Told(ctx, ret) BY <2>1 DEF AtRest
  <2>q. QED BY <1>1, <2>1, <2>2 DEF Told
<1>q. QED BY <1>2, <1>3 DEF SocketsAccounted

(* The library accounts for its sockets: between two calls it has open the  *)
(* descriptor that c->fd names and no other, and has closed nobody else's,  *)
(* whatever system call failed on the way, unless it has taken one of the   *)
(* two paths the hazards list; and a failed call has told the context.      *)
THEOREM SocketsKept == ConnSpec => []SocketsAccounted
<1>1. ConnInit => ConnInv BY ConnInvInit
<1>2. ConnInv /\ [ConnNext]_connVars => ConnInv' BY ConnInvInductive
<1>3. ConnInv => SocketsAccounted BY ConnInvAccounts
<1>q. QED BY <1>1, <1>2, <1>3, PTL DEF ConnSpec

-----------------------------------------------------------------------------
(***************************************************************************)
(* The dialogue of RedisDB with the server                                 *)
(***************************************************************************)

(* The messages of the protocol; each of them travels in two halves.        *)
Messages == {[type |-> "read"], [type |-> "wait"], [type |-> "del", value |-> 0]}
            \cup {[type |-> "hmset", value |-> v] : v \in Values}
Replies == {Nonsense, [type |-> "integer"], [type |-> "status"], [type |-> "error"]}
           \cup {[type |-> "array", value |-> v] : v \in Values \cup {0}}
Halves(S) == S \X {1, 2}

Busy == {"get", "write", "read"}
Records == Values \cup {0}

Clients == [at : {"start", "idle"} \cup Busy \cup Dead, slaves : BOOLEAN,
            op : Messages \cup {[type |-> "none"]}, wants : 0..2]
Buffers == [obuf : Seq(Halves(Messages)), reader : Seq(Halves(Replies)),
            err : {"none", "OTHER", "IO", "EOF", "PROTOCOL"}]
Wires == [out : Seq(Halves(Messages)), in : Seq(Halves(Replies)), up : BOOLEAN]
Outcomes == [result : {"none", "kOK"}, value : Records, answered : BOOLEAN]

ClientTypeOK ==
  /\ client \in Clients
  /\ client.op.type = "read" => client.wants = 1
  /\ context \in Buffers
  /\ wire \in Wires
  /\ store \in Records
  /\ done \in [begun : Nat, outcome : Outcomes]

(* What is under way, in halves, is at most what the operation in progress  *)
(* still waits for; between two operations it waits for nothing.            *)
UnderWay(c, w) == Len(c.obuf) + Len(w.out) + Len(w.in) + Len(c.reader)
Owed == IF client.at \in Busy THEN 2 * client.wants ELSE 0
Budget(c, w) == (client.at \notin Dead /\ c.err = "none") => UnderWay(c, w) <= Owed

(* While a Read waits, only its request and its answer are under way, and   *)
(* an answer that holds a record holds the server's.                        *)
Asks(s) == \A i \in 1..Len(s) : s[i][1].type = "read"
Tells(s) == \A i \in 1..Len(s) : s[i][1].type = "array" => s[i][1].value = store
Current(c, w) ==
  (client.at \in Busy /\ c.err = "none" /\ client.op.type = "read") =>
    Asks(c.obuf) /\ Asks(w.out) /\ Tells(c.reader) /\ Tells(w.in)

(* A context with an error holds no reply that could be taken, and the      *)
(* client waits for the socket only when the reader holds none.             *)
Nothing(c) == ~Whole(c.reader) \/ c.reader[1][1] = Nonsense
Barren ==
  /\ (client.at \notin Dead /\ context.err # "none") => Nothing(context)
  /\ client.at \in {"write", "read"} => Nothing(context)
  /\ client.at \in {"start", "read"} => context.err = "none"

(* A Read that met an error, or none yet, has no answer; the last answer is *)
(* the server's record.                                                     *)
Honest ==
  /\ client.at = "start" => ~done.outcome.answered
  /\ (client.at = "idle" /\ context.err # "none") => ~done.outcome.answered
  /\ (client.at = "idle" /\ done.outcome.answered) => done.outcome.value = store

ClientInv == ClientTypeOK /\ Budget(context, wire) /\ Current(context, wire) /\ Barren /\ Honest

-----------------------------------------------------------------------------
(* Sequences of halves *)
LEMMA Behind ==
  ASSUME NEW S, NEW s \in Seq(S), NEW n \in 0..Len(s)
  PROVE  /\ SubSeq(s, n + 1, Len(s)) \in Seq(S)
         /\ Len(SubSeq(s, n + 1, Len(s))) = Len(s) - n
         /\ \A i \in 1 .. Len(s) - n : SubSeq(s, n + 1, Len(s))[i] = s[i + n]
OBVIOUS

LEMMA Before ==
  ASSUME NEW S, NEW s \in Seq(S), NEW n \in 0..Len(s)
  PROVE  /\ SubSeq(s, 1, n) \in Seq(S)
         /\ Len(SubSeq(s, 1, n)) = n
         /\ \A i \in 1..n : SubSeq(s, 1, n)[i] = s[i]
OBVIOUS

LEMMA Joined ==
  ASSUME NEW S, NEW s \in Seq(S), NEW t \in Seq(S)
  PROVE  /\ s \o t \in Seq(S)
         /\ Len(s \o t) = Len(s) + Len(t)
         /\ \A i \in 1..Len(s) : (s \o t)[i] = s[i]
         /\ \A i \in Len(s) + 1 .. Len(s) + Len(t) : (s \o t)[i] = t[i - Len(s)]
OBVIOUS

LEMMA JoinedElement ==
  ASSUME NEW S, NEW s \in Seq(S), NEW t \in Seq(S), NEW i \in 1..Len(s \o t)
  PROVE  \/ \E j \in 1..Len(s) : (s \o t)[i] = s[j]
         \/ \E j \in 1..Len(t) : (s \o t)[i] = t[j]
<1>1. Len(s) \in Nat /\ Len(t) \in Nat /\ i \in 1 .. Len(s) + Len(t) BY Joined
<1>2. CASE i <= Len(s) BY <1>1, <1>2, Joined
<1>3. CASE i > Len(s)
  <2>1. i - Len(s) \in 1..Len(t) /\ i \in Len(s) + 1 .. Len(s) + Len(t) BY <1>1, <1>3
  <2>2. (s \o t)[i] = t[i - Len(s)] BY <2>1, Joined
  <2>q. QED BY <2>1, <2>2
<1>q. QED BY <1>1, <1>2, <1>3

LEMMA TwoHalves ==
  ASSUME NEW S, NEW m \in S
  PROVE  /\ Bytes(m) \in Seq(Halves(S)) /\ Len(Bytes(m)) = 2
         /\ \A i \in 1..2 : Bytes(m)[i][1] = m
BY DEF Bytes, Halves

-----------------------------------------------------------------------------
(* What happens without a reply, and with one *)
Outcomed == [begun : Nat, outcome : Outcomes]

LEMMA FailedEffect ==
  ASSUME ClientTypeOK, Failed
  PROVE  /\ client' \in Clients /\ client'.op = client.op /\ done' \in Outcomed
         /\ client'.op.type = "read" => client'.wants = 1
         /\ client'.at \in {"idle"} \cup Dead
         /\ client'.at = "idle" => ~done'.outcome.answered
<1> USE DEF ClientTypeOK, Clients, Outcomed, Dead, ClientAt
<1>1. CASE client.op.type = "read"
  <2>1. client' = [client EXCEPT !.at = "idle"] BY <1>1 DEF Failed
  <2>2. done' = [done EXCEPT !.outcome = [result |-> "kOK", value |-> 0, answered |-> FALSE]]
    BY <1>1 DEF Failed, Outcome
  <2>3. [result |-> "kOK", value |-> 0, answered |-> FALSE] \in Outcomes BY DEF Outcomes, Records
  <2>q. QED BY <2>1, <2>2, <2>3
<1>2. CASE client.op.type # "read"
  BY <1>2 DEF Failed
<1>q. QED BY <1>1, <1>2

LEMMA DeliverEffect ==
  ASSUME ClientTypeOK, client.at \in Busy, NEW r \in Replies, Deliver(r),
         (client.op.type = "read" /\ r.type = "array") => r.value = store
  PROVE  /\ client' \in Clients /\ client'.op = client.op /\ done' \in Outcomed
         /\ client'.op.type = "read" => client'.wants = 1
         /\ \/ client'.at \in Dead
            \/ /\ client'.at = "idle"
               /\ client.wants <= 1
               /\ done'.outcome.answered => done'.outcome.value = store
            \/ /\ client'.at = "get" /\ client'.op = client.op /\ client.op.type # "read"
               /\ client'.wants = client.wants - 1
<1> USE DEF ClientTypeOK, Clients, Outcomed, Dead, ClientAt, Busy
<1> DEFINE Empty == [result |-> "kOK", value |-> 0, answered |-> FALSE]
<1>0. Empty \in Outcomes BY DEF Outcomes, Records
<1>1. CASE client.op.type = "read" /\ r.type = "array"
  <2> DEFINE Said == [result |-> "kOK", value |-> r.value, answered |-> TRUE]
  <2>1. r.value = store BY <1>1
  <2>2. Said \in Outcomes /\ Said.value = store BY <2>1 DEF Outcomes
  <2>3. client' = [client EXCEPT !.at = "idle"] /\ done' = [done EXCEPT !.outcome = Said]
    BY <1>1 DEF Deliver, ReadReply, Outcome
  <2> HIDE DEF Said
  <2>q. QED BY <2>2, <2>3, <1>1
<1>2. CASE client.op.type = "read" /\ r.type # "array"
  BY <1>2 DEF Deliver, ReadReply
<1>3. CASE client.op.type # "read" /\ client.wants > 1
  <2>1. client' = [client EXCEPT !.at = "get", !.wants = @ - 1] /\ done' = done
    BY <1>3 DEF Deliver, CommandReply
  <2>2. client.wants \in Int /\ client.wants - 1 \in 0..2 BY <1>3
  <2>3. /\ client'.at = "get" /\ client'.op = client.op
        /\ client'.wants = client.wants - 1 /\ client'.slaves = client.slaves
    BY <2>1
  <2>4. client' \in Clients BY <2>1, <2>2
  <2>q. QED BY <2>1, <2>3, <2>4, <1>3
<1>4. CASE client.op.type # "read" /\ ~(client.wants > 1)
  <2>1. client' = [client EXCEPT !.at = "idle"] /\ done' = [done EXCEPT !.outcome = Empty]
    BY <1>4 DEF Deliver, CommandReply, Outcome
  <2>2. ~Empty.answered OBVIOUS
  <2> HIDE DEF Empty
  <2>3. done'.outcome = Empty /\ done' \in Outcomed BY <2>1, <1>0
  <2>4. ~done'.outcome.answered BY <2>2, <2>3
  <2>q. QED BY <2>1, <2>3, <2>4, <1>4
<1>q. QED BY <1>1, <1>2, <1>3, <1>4
(* Steps that touch nothing of the client's but its place keep the parts of *)
(* the invariant about it.                                                  *)
LEMMA Taken ==
  ASSUME ClientTypeOK, client.at \in Busy,
         NEW c \in Buffers, NEW w \in Wires, NEW otherwise \in {"write", "read"},
         Budget(c, w), Current(c, w),
         c.err # "none" => Nothing(c),
         otherwise = "read" => c.err = "none",
         TakeReply(c, otherwise), wire' = w, store' = store
  PROVE  ClientInv'
<1> DEFINE first == c.reader[1][1]
           broken == [c EXCEPT !.err = "PROTOCOL"]
           shorter == [c EXCEPT !.reader = SubSeq(@, 3, Len(@))]
<1>0. /\ c.reader \in Seq(Halves(Replies)) /\ c.obuf \in Seq(Halves(Messages))
      /\ w.in \in Seq(Halves(Replies)) /\ w.out \in Seq(Halves(Messages))
      /\ client \in Clients /\ client.wants \in 0..2 /\ client.at \notin Dead
  BY DEF Buffers, Wires, ClientTypeOK, Clients, Busy, Dead
<1>1. CASE c.reader # <<>> /\ first = Nonsense
  <2>1. redisGetReplyFromReader(c) = <<"error", broken>> BY <1>1 DEF redisGetReplyFromReader
  <2>2. context' = broken /\ Failed BY <2>1 DEF TakeReply
  <2>3. /\ context' \in Buffers /\ context'.err = "PROTOCOL" /\ context'.reader = c.reader
    BY <2>2 DEF Buffers
  <2>4. /\ client' \in Clients /\ done' \in Outcomed /\ client'.at \in {"idle"} \cup Dead
        /\ client'.op.type = "read" => client'.wants = 1
        /\ client'.at = "idle" => ~done'.outcome.answered
    BY <2>2, FailedEffect
  <2>5. ClientTypeOK' BY <2>3, <2>4 DEF ClientTypeOK, Outcomed
  <2>6. Nothing(context') BY <2>3, <1>1 DEF Nothing
  <2>q. QED BY <2>3, <2>4, <2>5, <2>6 DEF ClientInv, Budget, Current, Barren, Honest, Busy, Dead
<1>2. CASE ~(c.reader # <<>> /\ first = Nonsense) /\ Whole(c.reader)
  <2>1. redisGetReplyFromReader(c) = <<"reply", shorter>> BY <1>2 DEF redisGetReplyFromReader
  <2>2. context' = shorter /\ Deliver(first) BY <2>1 DEF TakeReply
  <2>3. Len(c.reader) >= 2 /\ c.reader # <<>> BY <1>2, <1>0 DEF Whole
  <2>4. first \in Replies BY <2>3, <1>0 DEF Halves
  <2>5. c.err = "none" BY <1>2, <2>3 DEF Nothing
  <2>6. /\ SubSeq(c.reader, 3, Len(c.reader)) \in Seq(Halves(Replies))
        /\ Len(SubSeq(c.reader, 3, Len(c.reader))) = Len(c.reader) - 2
        /\ \A i \in 1 .. Len(c.reader) - 2 : SubSeq(c.reader, 3, Len(c.reader))[i] = c.reader[i + 2]
    BY <2>3, <1>0, Behind
  <2>7. /\ context' \in Buffers /\ context'.err = "none" /\ context'.obuf = c.obuf
        /\ context'.reader = SubSeq(c.reader, 3, Len(c.reader))
    BY <2>2, <2>5, <2>6 DEF Buffers
  <2>8. (client.op.type = "read" /\ first.type = "array") => first.value = store
    BY <2>3, <2>5, <1>0 DEF Current, Tells
  <2>9. /\ client' \in Clients /\ done' \in Outcomed
        /\ client'.op.type = "read" => client'.wants = 1
        /\ \/ client'.at \in Dead
           \/ /\ client'.at = "idle"
              /\ client.wants <= 1
              /\ done'.outcome.answered => done'.outcome.value = store
           \/ /\ client'.at = "get" /\ client'.op = client.op /\ client.op.type # "read"
              /\ client'.wants = client.wants - 1
    BY <2>2, <2>4, <2>8, DeliverEffect
  <2>10. ClientTypeOK' BY <2>7, <2>9 DEF ClientTypeOK, Outcomed
  <2>11. UnderWay(c, w) <= 2 * client.wants BY <2>5, <1>0 DEF Budget, Owed
  <2>12. /\ Len(c.obuf) \in Nat /\ Len(c.reader) \in Nat /\ Len(w.out) \in Nat /\ Len(w.in) \in Nat
    BY <1>0
  <2>13. Len(context'.obuf) = Len(c.obuf) /\ Len(context'.reader) = Len(c.reader) - 2
    BY <2>6, <2>7
  <2>14. UnderWay(context', wire') = UnderWay(c, w) - 2 /\ UnderWay(c, w) \in Int
    BY <2>12, <2>13 DEF UnderWay
  <2>15. Budget(context, wire)'
    <3>1. CASE client'.at \in Dead BY <3>1 DEF Budget
    <3>2. CASE client'.at = "idle"
      <4>1. UnderWay(context', wire') <= 0 BY <3>2, <2>9, <2>11, <2>14, <1>0 DEF Dead
      <4>2. Owed' = 0 BY <3>2 DEF Owed, Busy
      <4>q. QED BY <4>1, <4>2 DEF Budget
    <3>3. CASE client'.at = "get"
      <4>1. UnderWay(context', wire') <= 2 * client'.wants
        BY <3>3, <2>9, <2>11, <2>14, <1>0 DEF Dead
      <4>2. Owed' = 2 * client'.wants BY <3>3 DEF Owed, Busy
      <4>q. QED BY <4>1, <4>2 DEF Budget
    <3>q. QED BY <3>1, <3>2, <3>3, <2>9
  <2>16. Current(context, wire)' BY <2>9 DEF Current, Busy, Dead
  <2>17. Barren' /\ Honest' BY <2>7, <2>9 DEF Barren, Honest, Dead
  <2>q. QED BY <2>10, <2>15, <2>16, <2>17 DEF ClientInv
<1>3. CASE ~(c.reader # <<>> /\ first = Nonsense) /\ ~Whole(c.reader)
  <2>1. redisGetReplyFromReader(c) = <<"none", c>> BY <1>3 DEF redisGetReplyFromReader
  <2>2. context' = c /\ client' = [client EXCEPT !.at = otherwise] /\ done' = done
    BY <2>1 DEF TakeReply, ClientAt
  <2>3. /\ client' \in Clients /\ client'.at = otherwise /\ client'.op = client.op
        /\ client'.wants = client.wants
    BY <2>2, <1>0 DEF Clients, Busy
  <2>q. QED BY <2>2, <2>3, <1>0, <1>3
        DEF ClientInv, ClientTypeOK, Budget, Owed, Current, Asks, Tells, Barren, Honest, Busy, Dead, Nothing
<1>q. QED BY <1>1, <1>2, <1>3

-----------------------------------------------------------------------------
(* The steps of the client *)
LEMMA Empty ==
  ASSUME ClientInv, client.at = "idle", context.err = "none"
  PROVE  context.obuf = <<>> /\ context.reader = <<>> /\ wire.out = <<>> /\ wire.in = <<>>
<1>1. /\ context.obuf \in Seq(Halves(Messages)) /\ context.reader \in Seq(Halves(Replies))
      /\ wire.out \in Seq(Halves(Messages)) /\ wire.in \in Seq(Halves(Replies))
  BY DEF ClientInv, ClientTypeOK, Buffers, Wires
<1>2. UnderWay(context, wire) <= 0 BY DEF ClientInv, Budget, Owed, Busy, Dead
<1>3. /\ Len(context.obuf) \in Nat /\ Len(context.reader) \in Nat
      /\ Len(wire.out) \in Nat /\ Len(wire.in) \in Nat
  BY <1>1
<1>4. /\ Len(context.obuf) = 0 /\ Len(context.reader) = 0
      /\ Len(wire.out) = 0 /\ Len(wire.in) = 0
  <2> DEFINE a == Len(context.obuf)
             b == Len(wire.out)
             c == Len(wire.in)
             d == Len(context.reader)
  <2>1. a + b + c + d <= 0 BY <1>2 DEF UnderWay
  <2>2. a \in Nat /\ b \in Nat /\ c \in Nat /\ d \in Nat BY <1>3
  <2> HIDE DEF a, b, c, d
  <2>3. a = 0 /\ b = 0 /\ c = 0 /\ d = 0 BY <2>1, <2>2
  <2>q. QED BY <2>3 DEF a, b, c, d
<1>q. QED BY <1>1, <1>4

LEMMA FailureKept ==
  ASSUME ClientInv, client.at \in Busy, Failed, Nothing(context),
         context' \in Buffers, context'.err # "none", context'.reader = context.reader,
         wire' \in Wires, store' = store
  PROVE  ClientInv'
<1>1. /\ client' \in Clients /\ client'.op = client.op /\ done' \in Outcomed
      /\ client'.op.type = "read" => client'.wants = 1
      /\ client'.at \in {"idle"} \cup Dead
      /\ client'.at = "idle" => ~done'.outcome.answered
  BY FailedEffect DEF ClientInv
<1>2. Nothing(context') BY DEF Nothing
<1>3. ClientTypeOK' BY <1>1 DEF ClientInv, ClientTypeOK, Outcomed
<1>q. QED BY <1>1, <1>2, <1>3 DEF ClientInv, Budget, Current, Barren, Honest, Busy, Dead

LEMMA BeginKept ==
  ASSUME ClientInv, NEW op \in Messages, NEW wants \in 1..2, NEW c \in Buffers,
         c.reader = context.reader,
         context.err # "none" => c.err # "none",
         c.err = "none" => Len(c.obuf) <= Len(context.obuf) + 2 * wants,
         op.type = "read" => wants = 1 /\ (c.err = "none" => Asks(c.obuf)),
         Begin(op, wants, c)
  PROVE  ClientInv'
<1>1. /\ client.at = "idle" /\ client' = [client EXCEPT !.at = "get", !.op = op, !.wants = wants]
      /\ context' = c /\ done' = [done EXCEPT !.begun = @ + 1] /\ wire' = wire /\ store' = store
  BY DEF Begin
<1>2. /\ client' \in Clients /\ client'.at = "get" /\ client'.op = op /\ client'.wants = wants
  <2>1. client \in Clients BY DEF ClientInv, ClientTypeOK
  <2>2. wants \in 0..2 BY SMT
  <2>q. QED BY <2>1, <2>2, <1>1 DEF Clients, Busy
<1>3. done' \in Outcomed BY <1>1 DEF ClientInv, ClientTypeOK, Outcomed
<1>4. ClientTypeOK' BY <1>1, <1>2, <1>3 DEF ClientInv, ClientTypeOK, Outcomed
<1>5. CASE c.err = "none"
  <2>1. /\ context.obuf = <<>> /\ context.reader = <<>> /\ wire.out = <<>> /\ wire.in = <<>>
    BY <1>1, <1>5, Empty
  <2>2. Len(c.obuf) \in Nat /\ Len(c.obuf) <= 2 * wants
    BY <2>1, <1>5 DEF Buffers
  <2>3. UnderWay(c, wire) <= 2 * wants BY <2>1, <2>2 DEF UnderWay
  <2>4. Owed' = 2 * wants BY <1>2 DEF Owed, Busy
  <2>5. Budget(context, wire)' BY <2>3, <2>4, <1>1 DEF Budget
  <2>6. Current(context, wire)' BY <1>1, <1>2, <1>5, <2>1 DEF Current, Asks, Tells
  <2>q. QED BY <1>1, <1>2, <1>4, <1>5, <2>5, <2>6 DEF ClientInv, Barren, Honest
<1>6. CASE c.err # "none"
  <2>1. Nothing(c)
    <3>1. CASE context.err = "none" BY <3>1, <1>1, Empty DEF Nothing, Whole
    <3>2. CASE context.err # "none" BY <3>2, <1>1 DEF ClientInv, Barren, Dead, Nothing
    <3>q. QED BY <3>1, <3>2
  <2>q. QED BY <1>1, <1>2, <1>4, <1>6, <2>1 DEF ClientInv, Budget, Current, Barren, Honest
<1>q. QED BY <1>5, <1>6

LEMMA Appended ==
  ASSUME NEW c \in Buffers, NEW m \in Messages
  PROVE  /\ __redisAppendCommand(c, m) \in Buffers
         /\ __redisAppendCommand(c, m).reader = c.reader
         /\ __redisAppendCommand(c, m).err = c.err
         /\ Len(__redisAppendCommand(c, m).obuf) = Len(c.obuf) + 2
<1>1. Bytes(m) \in Seq(Halves(Messages)) /\ Len(Bytes(m)) = 2 BY TwoHalves
<1>2. c.obuf \in Seq(Halves(Messages)) BY DEF Buffers
<1>3. c.obuf \o Bytes(m) \in Seq(Halves(Messages)) /\ Len(c.obuf \o Bytes(m)) = Len(c.obuf) + 2
  <2> DEFINE S == Halves(Messages)
             b == Bytes(m)
  <2>1. b \in Seq(S) /\ Len(b) = 2 /\ c.obuf \in Seq(S) BY <1>1, <1>2
  <2> HIDE DEF S, b
  <2>2. c.obuf \o b \in Seq(S) /\ Len(c.obuf \o b) = Len(c.obuf) + Len(b) BY <2>1, Joined
  <2>q. QED BY <2>1, <2>2 DEF S, b
<1>q. QED BY <1>3 DEF __redisAppendCommand, Buffers

LEMMA MaybeAppended ==
  ASSUME NEW c \in Buffers, NEW m \in Messages, NEW plain \in BOOLEAN
  PROVE  LET d == redisAppendCommand(c, m, plain)
         IN  /\ d \in Buffers /\ d.reader = c.reader
             /\ c.err # "none" => d.err # "none"
             /\ d.err = "none" => c.err = "none" /\ Len(d.obuf) = Len(c.obuf) + 2
BY Appended DEF redisAppendCommand, Buffers

LEMMA ReadKept == ASSUME ClientInv, Read PROVE ClientInv'
<1> DEFINE m == [type |-> "read"]
           c == __redisAppendCommand(context, m)
<1>1. m \in Messages /\ context \in Buffers BY DEF Messages, ClientInv, ClientTypeOK
<1>2. /\ c \in Buffers /\ c.reader = context.reader /\ c.err = context.err
      /\ Len(c.obuf) = Len(context.obuf) + 2
  BY <1>1, Appended
<1>3. Begin(m, 1, c) BY DEF Read
<1>4. client.at = "idle" BY <1>3 DEF Begin
<1>5. c.err = "none" => Asks(c.obuf)
  <2> SUFFICES ASSUME c.err = "none" PROVE Asks(c.obuf) OBVIOUS
  <2>1. context.obuf = <<>> BY <1>2, <1>4, Empty
  <2>2. c.obuf = <<>> \o Bytes(m) BY <2>1, <1>1 DEF __redisAppendCommand, Buffers
  <2>3. Bytes(m) \in Seq(Halves(Messages)) /\ Len(Bytes(m)) = 2 /\ \A i \in 1..2 : Bytes(m)[i][1] = m
    BY <1>1, TwoHalves
  <2>4. <<>> \o Bytes(m) = Bytes(m) BY <2>3
  <2>q. QED BY <2>2, <2>3, <2>4 DEF Asks
<1>6. Len(c.obuf) <= Len(context.obuf) + 2 * 1 BY <1>1, <1>2 DEF Buffers
<1> HIDE DEF m, c
<1>q. QED BY <1>1, <1>2, <1>3, <1>5, <1>6, BeginKept

LEMMA CommandKept ==
  ASSUME ClientInv, NEW m \in Messages, m.type # "read", NEW plain \in BOOLEAN, ClientCommand(m, plain)
  PROVE  ClientInv'
<1> DEFINE c == redisAppendCommand(context, m, plain)
           wait == [type |-> "wait"]
           both == redisAppendCommand(c, wait, TRUE)
<1>1. context \in Buffers /\ wait \in Messages /\ Len(context.obuf) \in Nat
  BY DEF Messages, ClientInv, ClientTypeOK, Buffers
<1>2. /\ c \in Buffers /\ c.reader = context.reader
      /\ context.err # "none" => c.err # "none"
      /\ c.err = "none" => Len(c.obuf) = Len(context.obuf) + 2
  BY <1>1, MaybeAppended
<1>3. /\ both \in Buffers /\ both.reader = context.reader
      /\ context.err # "none" => both.err # "none"
      /\ both.err = "none" => Len(both.obuf) = Len(context.obuf) + 4
  <2>1. LET d == redisAppendCommand(c, wait, TRUE)
        IN  /\ d \in Buffers /\ d.reader = c.reader
            /\ c.err # "none" => d.err # "none"
            /\ d.err = "none" => c.err = "none" /\ Len(d.obuf) = Len(c.obuf) + 2
    <3> HIDE DEF c
    <3>q. QED BY <1>1, <1>2, MaybeAppended
  <2> HIDE DEF c, wait
  <2>2. both.err = "none" => Len(both.obuf) = Len(c.obuf) + 2 /\ Len(c.obuf) = Len(context.obuf) + 2
    BY <1>2, <2>1
  <2>3. both.err = "none" => Len(both.obuf) = Len(context.obuf) + 4
    <3> HIDE DEF both
    <3>q. QED BY <2>2, <1>1
  <2>q. QED BY <1>1, <1>2, <2>1, <2>3
<1>4. Begin(m, IF client.slaves THEN 2 ELSE 1, IF client.slaves THEN both ELSE c)
  BY DEF ClientCommand
<1> HIDE DEF c, both
<1>5. CASE client.slaves
  BY <1>1, <1>3, <1>4, <1>5, BeginKept
<1>6. CASE ~client.slaves
  BY <1>1, <1>2, <1>4, <1>6, BeginKept
<1>q. QED BY <1>5, <1>6

LEMMA GetKept == ASSUME ClientInv, redisGetReply PROVE ClientInv'
<1>1. /\ client.at = "get" /\ TakeReply(context, "write") /\ wire' = wire /\ store' = store
  BY DEF redisGetReply
<1>2. context.err # "none" => Nothing(context) BY <1>1 DEF ClientInv, Barren, Dead
<1>q. QED BY <1>1, <1>2, Taken DEF ClientInv, ClientTypeOK, Busy

LEMMA WriteKept == ASSUME ClientInv, redisBufferWrite PROVE ClientInv'
<1>0. /\ client.at = "write" /\ store' = store /\ client \in Clients /\ context \in Buffers
      /\ wire \in Wires /\ Nothing(context) /\ client.at \in Busy
  BY DEF redisBufferWrite, ClientInv, ClientTypeOK, Barren, Busy
<1>1. CASE context.err # "none" /\ Failed /\ UNCHANGED <<context, wire>>
  BY <1>0, <1>1, FailureKept
<1>2. CASE context.err = "none" /\ context.obuf = <<>> /\ ClientAt("read") /\ UNCHANGED <<context, wire, done>>
  <2>1. /\ client' \in Clients /\ client'.at = "read" /\ client'.op = client.op
        /\ client'.wants = client.wants
    BY <1>0, <1>2 DEF ClientAt, Clients, Busy
  <2>q. QED BY <1>0, <1>2, <2>1
        DEF ClientInv, ClientTypeOK, Budget, Owed, Current, Asks, Tells, Barren, Honest, Busy, Dead
<1>3. CASE UNCHANGED <<client, context, wire, done>>
  BY <1>0, <1>3 DEF ClientInv, ClientTypeOK, Budget, Owed, Current, Asks, Tells, Barren, Honest
<1>4. CASE IoError /\ UNCHANGED wire
  <2>1. /\ context' \in Buffers /\ context'.err # "none" /\ context'.reader = context.reader /\ Failed
    BY <1>0, <1>4 DEF IoError, Buffers
  <2>q. QED BY <1>0, <1>4, <2>1, FailureKept
<1>5. ASSUME context.err = "none", NEW n \in 1..Len(context.obuf),
             wire' = IF wire.up THEN [wire EXCEPT !.out = @ \o SubSeq(context.obuf, 1, n)] ELSE wire,
             context' = [context EXCEPT !.obuf = SubSeq(@, n + 1, Len(@))],
             UNCHANGED <<client, done>>
      PROVE  ClientInv'
  <2> DEFINE S == Halves(Messages)
             sent == SubSeq(context.obuf, 1, n)
             rest == SubSeq(context.obuf, n + 1, Len(context.obuf))
  <2>1. context.obuf \in Seq(S) /\ wire.out \in Seq(S) BY <1>0 DEF Buffers, Wires
  <2> HIDE DEF S
  <2>2. n \in 0..Len(context.obuf) /\ n \in Nat BY <2>1
  <2>3. /\ rest \in Seq(S) /\ Len(rest) = Len(context.obuf) - n
        /\ \A i \in 1 .. Len(context.obuf) - n : rest[i] = context.obuf[i + n]
    BY <2>1, <2>2, Behind
  <2>4. /\ sent \in Seq(S) /\ Len(sent) = n
        /\ \A i \in 1..n : sent[i] = context.obuf[i]
    BY <2>1, <2>2, Before
  <2> HIDE DEF sent, rest
  <2>5. wire.out \o sent \in Seq(S) /\ Len(wire.out \o sent) = Len(wire.out) + Len(sent)
    BY <2>1, <2>4, Joined
  <2>6. /\ context' \in Buffers /\ context'.err = "none" /\ context'.reader = context.reader
        /\ context'.obuf = rest
    BY <1>0, <1>5, <2>3 DEF Buffers, rest, S
  <2>7. /\ wire' \in Wires /\ wire'.in = wire.in /\ wire'.out \in {wire.out, wire.out \o sent}
    <3>1. wire' = IF wire.up THEN [wire EXCEPT !.out = wire.out \o sent] ELSE wire BY <1>5 DEF sent
    <3>q. QED BY <1>0, <2>5, <3>1 DEF Wires, S
  <2>8. ClientTypeOK' BY <1>0, <1>5, <2>6, <2>7 DEF ClientInv, ClientTypeOK
  <2>9. UnderWay(context', wire') <= UnderWay(context, wire) /\ UnderWay(context', wire') \in Int
        /\ UnderWay(context, wire) \in Int
    <3> DEFINE o == Len(context.obuf)
               q == Len(wire.out)
               i == Len(wire.in)
               r == Len(context.reader)
    <3>1. o \in Nat /\ q \in Nat /\ i \in Nat /\ r \in Nat BY <1>0 DEF Buffers, Wires
    <3>2. UnderWay(context, wire) = o + q + i + r BY DEF UnderWay
    <3>3. UnderWay(context', wire') \in {(o - n) + q + i + r, (o - n) + (q + n) + i + r}
      BY <2>3, <2>4, <2>5, <2>6, <2>7 DEF UnderWay
    <3> HIDE DEF o, q, i, r
    <3>4. /\ (o - n) + q + i + r \in Int /\ (o - n) + q + i + r <= o + q + i + r
          /\ (o - n) + (q + n) + i + r = o + q + i + r /\ o + q + i + r \in Int
      BY <3>1, <2>2
    <3>q. QED BY <3>2, <3>3, <3>4
  <2>10. Budget(context, wire)'
    <3>1. UnderWay(context, wire) <= 2 * client.wants BY <1>0, <1>5 DEF ClientInv, Budget, Owed, Busy, Dead
    <3>2. Owed' = 2 * client.wants BY <1>0, <1>5 DEF Owed
    <3>3. 2 * client.wants \in Int BY <1>0 DEF Clients
    <3>q. QED BY <2>9, <3>1, <3>2, <3>3 DEF Budget
  <2>11. Current(context, wire)'
    <3> SUFFICES ASSUME client.op.type = "read"
                 PROVE  /\ Asks(context.obuf)' /\ Asks(wire.out)'
                        /\ Tells(context.reader)' /\ Tells(wire.in)'
      BY <1>5 DEF Current
    <3>1. Asks(context.obuf) /\ Asks(wire.out) /\ Tells(context.reader) /\ Tells(wire.in)
      BY <1>0, <1>5 DEF ClientInv, Current
    <3>2. Asks(rest)
      <4> SUFFICES ASSUME NEW i \in 1..Len(rest) PROVE rest[i][1].type = "read" BY DEF Asks
      <4>1. i \in 1 .. Len(context.obuf) - n /\ rest[i] = context.obuf[i + n] BY <2>3
      <4>2. i + n \in 1..Len(context.obuf) BY <4>1, <2>1, <2>2
      <4>q. QED BY <4>1, <4>2, <3>1 DEF Asks
    <3>3. Asks(sent) BY <3>1, <2>1, <2>2, <2>4 DEF Asks
    <3>4. Asks(wire.out \o sent)
      <4> SUFFICES ASSUME NEW i \in 1 .. Len(wire.out \o sent)
                   PROVE  (wire.out \o sent)[i][1].type = "read"
        BY DEF Asks
      <4>q. QED BY <2>1, <2>4, <3>1, <3>3, JoinedElement DEF Asks
    <3>5. Asks(context.obuf)' BY <2>6, <3>2 DEF Asks
    <3>6. Asks(wire.out)' BY <2>7, <3>1, <3>4 DEF Asks
    <3>7. Tells(context.reader)' /\ Tells(wire.in)' BY <1>0, <2>6, <2>7, <3>1 DEF Tells
    <3>q. QED BY <3>5, <3>6, <3>7
  <2>q. QED BY <1>0, <1>5, <2>6, <2>8, <2>10, <2>11 DEF ClientInv, Barren, Nothing, Honest, Busy
<1>q. QED BY <1>1, <1>2, <1>3, <1>4, <1>5 DEF redisBufferWrite

LEMMA ReadFromWireKept == ASSUME ClientInv, redisBufferRead PROVE ClientInv'
<1>0. /\ client.at = "read" /\ store' = store /\ client \in Clients /\ context \in Buffers
      /\ wire \in Wires /\ Nothing(context) /\ client.at \in Busy /\ context.err = "none"
  BY DEF redisBufferRead, ClientInv, ClientTypeOK, Barren, Busy
<1>1. CASE UNCHANGED <<client, context, wire, done>>
  BY <1>0, <1>1 DEF ClientInv, ClientTypeOK, Budget, Owed, Current, Asks, Tells, Barren, Honest
<1>2. CASE IoError /\ UNCHANGED wire
  <2>1. /\ context' \in Buffers /\ context'.err # "none" /\ context'.reader = context.reader /\ Failed
    BY <1>0, <1>2 DEF IoError, Buffers
  <2>q. QED BY <1>0, <1>2, <2>1, FailureKept
<1>3. CASE context' = [context EXCEPT !.err = "EOF"] /\ Failed /\ UNCHANGED wire
  <2>1. /\ context' \in Buffers /\ context'.err # "none" /\ context'.reader = context.reader
    BY <1>0, <1>3 DEF Buffers
  <2>q. QED BY <1>0, <1>3, <2>1, FailureKept
<1>4. ASSUME NEW n \in 1..Len(wire.in),
             wire' = [wire EXCEPT !.in = SubSeq(@, n + 1, Len(@))],
             TakeReply([context EXCEPT !.reader = @ \o SubSeq(wire.in, 1, n)], "read")
      PROVE  ClientInv'
  <2> DEFINE S == Halves(Replies)
             came == SubSeq(wire.in, 1, n)
             rest == SubSeq(wire.in, n + 1, Len(wire.in))
             c == [context EXCEPT !.reader = context.reader \o came]
             w == [wire EXCEPT !.in = rest]
  <2>1. wire.in \in Seq(S) /\ context.reader \in Seq(S) BY <1>0 DEF Buffers, Wires
  <2> HIDE DEF S
  <2>2. n \in 0..Len(wire.in) /\ n \in Nat BY <2>1
  <2>3. /\ rest \in Seq(S) /\ Len(rest) = Len(wire.in) - n
        /\ \A i \in 1 .. Len(wire.in) - n : rest[i] = wire.in[i + n]
    BY <2>1, <2>2, Behind
  <2>4. /\ came \in Seq(S) /\ Len(came) = n
        /\ \A i \in 1..n : came[i] = wire.in[i]
    BY <2>1, <2>2, Before
  <2>5. w = wire' /\ TakeReply(c, "read") BY <1>4
  <2> HIDE DEF came, rest
  <2>6. /\ context.reader \o came \in Seq(S)
        /\ Len(context.reader \o came) = Len(context.reader) + Len(came)
    BY <2>1, <2>4, Joined
  <2>7. /\ c \in Buffers /\ c.err = "none" /\ c.obuf = context.obuf
        /\ c.reader = context.reader \o came
    BY <1>0, <2>6 DEF Buffers, S
  <2>8. w \in Wires /\ w.in = rest /\ w.out = wire.out BY <1>0, <2>3 DEF Wires, S
  <2> HIDE DEF c, w
  <2>9. Budget(c, w)
    <3> DEFINE o == Len(context.obuf)
               q == Len(wire.out)
               i == Len(wire.in)
               r == Len(context.reader)
    <3>1. o \in Nat /\ q \in Nat /\ i \in Nat /\ r \in Nat BY <1>0 DEF Buffers, Wires
    <3>2. UnderWay(context, wire) = o + q + i + r BY DEF UnderWay
    <3>3. UnderWay(c, w) = o + q + (i - n) + (r + n)
      BY <2>3, <2>4, <2>6, <2>7, <2>8 DEF UnderWay
    <3> HIDE DEF o, q, i, r
    <3>4. o + q + (i - n) + (r + n) = o + q + i + r BY <3>1, <2>2
    <3>5. UnderWay(c, w) = UnderWay(context, wire) BY <3>2, <3>3, <3>4
    <3>q. QED BY <1>0, <3>5, <2>7 DEF ClientInv, Budget
  <2>10. Current(c, w)
    <3> SUFFICES ASSUME client.op.type = "read"
                 PROVE  Asks(c.obuf) /\ Asks(w.out) /\ Tells(c.reader) /\ Tells(w.in)
      BY DEF Current
    <3>1. Asks(context.obuf) /\ Asks(wire.out) /\ Tells(context.reader) /\ Tells(wire.in)
      BY <1>0 DEF ClientInv, Current
    <3>2. Tells(rest)
      <4> SUFFICES ASSUME NEW i \in 1..Len(rest), rest[i][1].type = "array"
                   PROVE  rest[i][1].value = store
        BY DEF Tells
      <4>1. i \in 1 .. Len(wire.in) - n /\ rest[i] = wire.in[i + n] BY <2>3
      <4>2. i + n \in 1..Len(wire.in) BY <4>1, <2>1, <2>2
      <4>q. QED BY <4>1, <4>2, <3>1 DEF Tells
    <3>3. Tells(came) BY <3>1, <2>1, <2>2, <2>4 DEF Tells
    <3>4. Tells(context.reader \o came)
      <4> SUFFICES ASSUME NEW i \in 1 .. Len(context.reader \o came),
                          (context.reader \o came)[i][1].type = "array"
                   PROVE  (context.reader \o came)[i][1].value = store
        BY DEF Tells
      <4>q. QED BY <2>1, <2>4, <3>1, <3>3, JoinedElement DEF Tells
    <3>q. QED BY <2>7, <2>8, <3>1, <3>2, <3>4
  <2>q. QED BY <1>0, <2>5, <2>7, <2>8, <2>9, <2>10, Taken DEF ClientInv
<1>q. QED BY <1>0, <1>1, <1>2, <1>3, <1>4 DEF redisBufferRead

-----------------------------------------------------------------------------
(* The steps of the server *)
LEMMA ServerEffect ==
  ASSUME ClientInv, Server
  PROVE  \E m \in Messages, r \in Replies :
           /\ m = wire.out[1][1] /\ Len(wire.out) >= 2
           /\ m.type = "read" => store' = store
           /\ r.type = "array" => r.value = store
           /\ store' \in Records
           /\ wire' = [wire EXCEPT !.out = SubSeq(@, 3, Len(@)), !.in = @ \o Bytes(r)]
           /\ UNCHANGED <<client, context, done>>
<1> DEFINE m == wire.out[1][1]
<1>0. /\ wire.out \in Seq(Halves(Messages)) /\ store \in Records /\ Len(wire.out) >= 2
      /\ UNCHANGED <<client, context, done>>
  BY DEF Server, Whole, ClientInv, ClientTypeOK, Wires
<1>1. m \in Messages BY <1>0 DEF Halves
<1>2. PICK refused \in BOOLEAN, r \in {ReplyTo(m), Nonsense, [type |-> "error"]} :
        /\ store' = IF ~refused /\ m.type \in {"hmset", "del"} THEN m.value ELSE store
        /\ wire' = [wire EXCEPT !.out = SubSeq(@, 3, Len(@)), !.in = @ \o Bytes(r)]
  BY DEF Server
<1>3. ReplyTo(m) \in Replies /\ (ReplyTo(m).type = "array" => ReplyTo(m).value = store)
  BY <1>0, <1>1 DEF ReplyTo, Replies, Messages, Records
<1>4. r \in Replies /\ (r.type = "array" => r.value = store)
  <2>1. CASE r = ReplyTo(m) BY <2>1, <1>3
  <2>2. CASE r = Nonsense BY <2>2 DEF Nonsense, Replies
  <2>3. CASE r = [type |-> "error"] BY <2>3 DEF Replies
  <2>q. QED BY <2>1, <2>2, <2>3, <1>2
<1>5. m.type \in {"hmset", "del"} => m.value \in Records BY <1>1 DEF Messages, Records
<1>6. store' \in Records /\ (m.type = "read" => store' = store) BY <1>0, <1>2, <1>5
<1>q. QED BY <1>0, <1>1, <1>2, <1>4, <1>6

LEMMA ServerKept == ASSUME ClientInv, Server PROVE ClientInv'
<1>1. PICK m \in Messages, r \in Replies :
           /\ m = wire.out[1][1] /\ Len(wire.out) >= 2
           /\ m.type = "read" => store' = store
           /\ r.type = "array" => r.value = store
           /\ store' \in Records
           /\ wire' = [wire EXCEPT !.out = SubSeq(@, 3, Len(@)), !.in = @ \o Bytes(r)]
           /\ UNCHANGED <<client, context, done>>
  BY ServerEffect
<1> DEFINE S == Halves(Messages)
           T == Halves(Replies)
           b == Bytes(r)
           rest == SubSeq(wire.out, 3, Len(wire.out))
<1>2. wire \in Wires /\ wire.out \in Seq(S) /\ wire.in \in Seq(T) /\ context \in Buffers /\ client \in Clients
  BY DEF ClientInv, ClientTypeOK, Wires
<1>3. b \in Seq(T) /\ Len(b) = 2 /\ \A i \in 1..2 : b[i][1] = r BY TwoHalves
<1> HIDE DEF S, T, b
<1>4. /\ rest \in Seq(S) /\ Len(rest) = Len(wire.out) - 2
      /\ \A i \in 1 .. Len(wire.out) - 2 : rest[i] = wire.out[i + 2]
  BY <1>1, <1>2, Behind
<1>5. wire.in \o b \in Seq(T) /\ Len(wire.in \o b) = Len(wire.in) + 2
  <2>1. wire.in \o b \in Seq(T) /\ Len(wire.in \o b) = Len(wire.in) + Len(b) BY <1>2, <1>3, Joined
  <2>q. QED BY <2>1, <1>3
<1>6. wire' \in Wires /\ wire'.out = rest /\ wire'.in = wire.in \o b
  BY <1>1, <1>2, <1>4, <1>5 DEF Wires, S, T, b
<1> HIDE DEF rest
<1>7. ClientTypeOK' BY <1>1, <1>6 DEF ClientInv, ClientTypeOK
<1>8. Budget(context, wire)'
  <2> DEFINE o == Len(context.obuf)
             q == Len(wire.out)
             i == Len(wire.in)
             d == Len(context.reader)
  <2>1. o \in Nat /\ q \in Nat /\ i \in Nat /\ d \in Nat BY <1>2 DEF Buffers
  <2>2. UnderWay(context, wire) = o + q + i + d BY DEF UnderWay
  <2>3. UnderWay(context', wire') = o + (q - 2) + (i + 2) + d BY <1>1, <1>4, <1>5, <1>6 DEF UnderWay
  <2> HIDE DEF o, q, i, d
  <2>4. UnderWay(context', wire') = UnderWay(context, wire) BY <2>1, <2>2, <2>3
  <2>q. QED BY <1>1, <2>4 DEF ClientInv, Budget, Owed
<1>9. Current(context, wire)'
  <2> SUFFICES ASSUME client.at \in Busy, context.err = "none", client.op.type = "read"
               PROVE  /\ Asks(context.obuf)' /\ Asks(wire.out)'
                      /\ Tells(context.reader)' /\ Tells(wire.in)'
    BY <1>1 DEF Current
  <2>1. Asks(context.obuf) /\ Asks(wire.out) /\ Tells(context.reader) /\ Tells(wire.in)
    BY DEF ClientInv, Current
  <2>2. m.type = "read" BY <1>1, <1>2, <2>1 DEF Asks
  <2>3. Asks(rest)
    <3> SUFFICES ASSUME NEW i \in 1..Len(rest) PROVE rest[i][1].type = "read" BY DEF Asks
    <3>1. i \in 1 .. Len(wire.out) - 2 BY <1>4
    <3>2. i + 2 \in 1..Len(wire.out) BY <3>1, <1>2
    <3>q. QED BY <3>1, <3>2, <1>4, <2>1 DEF Asks
  <2>4. Tells(b) BY <1>1, <1>3 DEF Tells
  <2>5. Tells(wire.in \o b)
    <3> SUFFICES ASSUME NEW i \in 1 .. Len(wire.in \o b), (wire.in \o b)[i][1].type = "array"
                 PROVE  (wire.in \o b)[i][1].value = store
      BY DEF Tells
    <3>1. b \in Seq(T) BY <1>3
    <3>2. \/ \E j \in 1..Len(wire.in) : (wire.in \o b)[i] = wire.in[j]
          \/ \E j \in 1..Len(b) : (wire.in \o b)[i] = b[j]
      BY <1>2, <3>1, JoinedElement
    <3>q. QED BY <3>2, <2>1, <2>4 DEF Tells
  <2>6. context' = context /\ store' = store BY <1>1, <2>2
  <2>7. Asks(context.obuf)' /\ Tells(context.reader)' BY <2>6, <2>1 DEF Asks, Tells
  <2>8. Asks(wire.out)' BY <1>1, <1>6, <2>3 DEF Asks
  <2>9. Tells(wire.in)' BY <1>1, <1>6, <2>2, <2>5 DEF Tells
  <2>q. QED BY <2>7, <2>8, <2>9
<1>10. Barren' BY <1>1 DEF ClientInv, Barren, Nothing
<1>11. Honest'
  <2>1. CASE client.at = "idle" /\ done.outcome.answered
    <3>1. context.err = "none" BY <2>1 DEF ClientInv, Honest
    <3>2. wire.out = <<>> BY <2>1, <3>1, Empty
    <3>q. QED BY <3>2, <1>1
  <2>2. CASE ~(client.at = "idle" /\ done.outcome.answered)
    BY <2>2, <1>1 DEF ClientInv, Honest
  <2>q. QED BY <2>1, <2>2
<1>q. QED BY <1>7, <1>8, <1>9, <1>10, <1>11 DEF ClientInv

LEMMA HangUpKept == ASSUME ClientInv, ServerHangsUp PROVE ClientInv'
<1>1. wire' = [wire EXCEPT !.up = FALSE, !.out = <<>>] /\ UNCHANGED <<client, context, store, done>>
  BY DEF ServerHangsUp
<1>2. wire \in Wires /\ context \in Buffers /\ client \in Clients BY DEF ClientInv, ClientTypeOK
<1>3. wire' \in Wires /\ wire'.out = <<>> /\ wire'.in = wire.in
  <2>1. <<>> \in Seq(Halves(Messages)) OBVIOUS
  <2>q. QED BY <2>1, <1>1, <1>2 DEF Wires
<1>4. ClientTypeOK' BY <1>1, <1>3 DEF ClientInv, ClientTypeOK
<1>5. Budget(context, wire)'
  <2> DEFINE o == Len(context.obuf)
             q == Len(wire.out)
             i == Len(wire.in)
             d == Len(context.reader)
  <2>1. o \in Nat /\ q \in Nat /\ i \in Nat /\ d \in Nat BY <1>2 DEF Buffers, Wires
  <2>2. UnderWay(context, wire) = o + q + i + d BY DEF UnderWay
  <2>3. UnderWay(context', wire') = o + 0 + i + d BY <1>1, <1>3 DEF UnderWay
  <2> HIDE DEF o, q, i, d
  <2>4. /\ UnderWay(context', wire') <= UnderWay(context, wire)
        /\ UnderWay(context', wire') \in Int /\ UnderWay(context, wire) \in Int
    BY <2>1, <2>2, <2>3
  <2>5. Owed \in Int BY <1>2 DEF Owed, Clients
  <2>6. Owed' = Owed BY <1>1 DEF Owed
  <2>q. QED BY <1>1, <2>4, <2>5, <2>6 DEF ClientInv, Budget
<1>6. Current(context, wire)' BY <1>1, <1>3 DEF ClientInv, Current, Asks, Tells
<1>q. QED BY <1>1, <1>4, <1>5, <1>6 DEF ClientInv, Barren, Nothing, Honest

LEMMA ConstructKept == ASSUME ClientInv, Construct PROVE ClientInv'
<1>1. /\ client.at = "start" /\ UNCHANGED <<context, wire, store, done>>
      /\ client' = [client EXCEPT !.at = "idle"] \/ client' = [client EXCEPT !.at = "exited"]
  BY DEF Construct, ClientAt
<1>2. client \in Clients BY DEF ClientInv, ClientTypeOK
<1>3. /\ client' \in Clients /\ client'.at \in {"idle", "exited"} /\ client'.op = client.op
      /\ client'.wants = client.wants
  BY <1>1, <1>2 DEF Clients, Dead
<1>q. QED BY <1>1, <1>2, <1>3
      DEF ClientInv, ClientTypeOK, Budget, Owed, Current, Barren, Honest, Busy, Dead

-----------------------------------------------------------------------------
LEMMA ClientInitInv == ClientInit => ClientInv
<1> SUFFICES ASSUME ClientInit PROVE ClientInv OBVIOUS
<1>1. PICK s \in BOOLEAN : client = [at |-> "start", slaves |-> s, op |-> [type |-> "none"], wants |-> 0]
  BY DEF ClientInit
<1>2. client \in Clients /\ client.at = "start" /\ client.op.type # "read" BY <1>1 DEF Clients
<1>3. context \in Buffers /\ context.err = "none" BY DEF ClientInit, Buffers
<1>4. wire \in Wires BY DEF ClientInit, Wires
<1>5. store \in Records BY DEF ClientInit, Records
<1>6. done \in Outcomed /\ ~done.outcome.answered
  <2> DEFINE o == [result |-> "none", value |-> 0, answered |-> FALSE]
  <2>1. o \in Outcomes /\ ~o.answered BY DEF Outcomes, Records
  <2> HIDE DEF o
  <2>2. done = [begun |-> 0, outcome |-> o] BY DEF ClientInit, o
  <2>q. QED BY <2>1, <2>2 DEF Outcomed
<1>7. UnderWay(context, wire) <= 0 BY DEF ClientInit, UnderWay
<1>q. QED BY <1>2, <1>3, <1>4, <1>5, <1>6, <1>7
      DEF ClientInv, ClientTypeOK, Outcomed, Budget, Owed, Current, Barren, Honest, Busy

LEMMA ClientStep == ClientInv /\ [ClientNext]_clientVars => ClientInv'
<1> SUFFICES ASSUME ClientInv, [ClientNext]_clientVars PROVE ClientInv' OBVIOUS
<1>1. CASE Construct BY <1>1, ConstructKept
<1>2. CASE Read BY <1>2, ReadKept
<1>3. CASE Update
  <2>1. PICK v \in Values, plain \in BOOLEAN : ClientCommand([type |-> "hmset", value |-> v], plain)
    BY <1>3 DEF Update
  <2> DEFINE m == [type |-> "hmset", value |-> v]
  <2>2. m \in Messages /\ m.type # "read" BY DEF Messages
  <2> HIDE DEF m
  <2>q. QED BY <2>1, <2>2, CommandKept DEF m
<1>4. CASE RedisDelete
  <2> DEFINE m == [type |-> "del", value |-> 0]
  <2>1. m \in Messages /\ m.type # "read" /\ ClientCommand(m, TRUE) BY <1>4 DEF Messages, RedisDelete
  <2> HIDE DEF m
  <2>q. QED BY <2>1, CommandKept
<1>5. CASE redisGetReply BY <1>5, GetKept
<1>6. CASE redisBufferWrite BY <1>6, WriteKept
<1>7. CASE redisBufferRead BY <1>7, ReadFromWireKept
<1>8. CASE Server BY <1>8, ServerKept
<1>9. CASE ServerHangsUp BY <1>9, HangUpKept
<1>10. CASE UNCHANGED clientVars
  BY <1>10 DEF clientVars, ClientInv, ClientTypeOK, Budget, Owed, Current, Asks, Tells, Barren, Honest
<1>q. QED BY <1>1, <1>2, <1>3, <1>4, <1>5, <1>6, <1>7, <1>8, <1>9, <1>10 DEF ClientNext

(* Every request finds its reply: nothing is under way between operations,  *)
(* and an answered Read has read the record as it is, however the bytes of  *)
(* requests and replies were split and whenever a system call failed or the *)
(* server hung up (redis_client.h 52-69, hiredis.c 870-898).                *)
THEOREM RepliesInStep == ClientSpec => []RepliesMatched
<1>1. ClientInv => RepliesMatched
  <2>1. ASSUME ClientInv PROVE InStep BY <2>1, Empty DEF InStep
  <2>2. ASSUME ClientInv PROVE ReadIsCurrent BY <2>2 DEF ClientInv, Honest, ReadIsCurrent
  <2>q. QED BY <2>1, <2>2 DEF RepliesMatched
<1>q. QED BY <1>1, ClientInitInv, ClientStep, PTL DEF ClientSpec

-----------------------------------------------------------------------------
(* The steps of a connection with an error *)
LEMMA FailedAnswersNothing ==
  ASSUME ClientTypeOK, Failed
  PROVE  done'.outcome # done.outcome => ~done'.outcome.answered
<1> DEFINE o == [result |-> "kOK", value |-> 0, answered |-> FALSE]
<1>1. done' = [done EXCEPT !.outcome = o] \/ done' = done BY DEF Failed, Outcome
<1>2. ~o.answered OBVIOUS
<1> HIDE DEF o
<1>3. done' = [done EXCEPT !.outcome = o] => done'.outcome = o BY DEF ClientTypeOK
<1>q. QED BY <1>1, <1>2, <1>3

LEMMA TakesNothing ==
  ASSUME ClientTypeOK, NEW c \in Buffers, NEW otherwise, c.err # "none", Nothing(c), TakeReply(c, otherwise)
  PROVE  context'.err # "none" /\ (done'.outcome # done.outcome => ~done'.outcome.answered)
<1> DEFINE broken == [c EXCEPT !.err = "PROTOCOL"]
<1>1. CASE c.reader # <<>> /\ c.reader[1][1] = Nonsense
  <2>1. redisGetReplyFromReader(c) = <<"error", broken>> BY <1>1 DEF redisGetReplyFromReader
  <2>2. context' = broken /\ Failed BY <2>1 DEF TakeReply
  <2>q. QED BY <2>2, FailedAnswersNothing DEF Buffers
<1>2. CASE ~(c.reader # <<>> /\ c.reader[1][1] = Nonsense)
  <2>1. c.reader \in Seq(Halves(Replies)) BY DEF Buffers
  <2>2. ~Whole(c.reader) BY <1>2, <2>1 DEF Nothing, Whole
  <2>3. redisGetReplyFromReader(c) = <<"none", c>> BY <1>2, <2>2 DEF redisGetReplyFromReader
  <2>q. QED BY <2>3 DEF TakeReply
<1>q. QED BY <1>1, <1>2

Final == /\ context'.err # "none"
         /\ wire'.out \in {wire.out, SubSeq(wire.out, 3, Len(wire.out)), <<>>}
         /\ done'.outcome # done.outcome => ~done'.outcome.answered

LEMMA FinalStep ==
  ASSUME ClientInv, ClientNext, context.err # "none"
  PROVE  Final
<1>0. /\ ClientTypeOK /\ context \in Buffers /\ wire \in Wires /\ client.at # "read" /\ client.at # "start"
      /\ client.at \notin Dead => Nothing(context)
      /\ done \in Outcomed
  BY DEF ClientInv, ClientTypeOK, Barren, Outcomed
<1>1. ASSUME NEW op, NEW wants, NEW c, c.err # "none", Begin(op, wants, c)
      PROVE  Final
  BY <1>0, <1>1 DEF Begin, Final, Outcomed
<1>2. CASE Read
  <2>1. [type |-> "read"] \in Messages BY DEF Messages
  <2>2. __redisAppendCommand(context, [type |-> "read"]).err # "none" BY <1>0, <2>1, Appended
  <2>q. QED BY <1>1, <1>2, <2>2 DEF Read
<1>3. ASSUME NEW m \in Messages, NEW plain \in BOOLEAN, ClientCommand(m, plain)
      PROVE  Final
  <2> DEFINE c == redisAppendCommand(context, m, plain)
             wait == [type |-> "wait"]
             both == redisAppendCommand(c, wait, TRUE)
  <2>1. c \in Buffers /\ c.err # "none" BY <1>0, MaybeAppended
  <2>2. both.err # "none"
    <3>1. wait \in Messages BY DEF Messages
    <3> HIDE DEF c, wait
    <3>q. QED BY <2>1, <3>1, MaybeAppended
  <2>3. Begin(m, IF client.slaves THEN 2 ELSE 1, IF client.slaves THEN both ELSE c)
    BY <1>3 DEF ClientCommand
  <2> HIDE DEF c, both
  <2>4. (IF client.slaves THEN both ELSE c).err # "none" BY <2>1, <2>2
  <2>q. QED BY <1>1, <2>3, <2>4
<1>4. CASE Update
  <2>1. PICK v \in Values, plain \in BOOLEAN : ClientCommand([type |-> "hmset", value |-> v], plain)
    BY <1>4 DEF Update
  <2>2. [type |-> "hmset", value |-> v] \in Messages BY DEF Messages
  <2>q. QED BY <1>3, <2>1, <2>2
<1>5. CASE RedisDelete
  <2>1. [type |-> "del", value |-> 0] \in Messages BY DEF Messages
  <2>q. QED BY <1>3, <1>5, <2>1 DEF RedisDelete
<1>6. CASE redisGetReply
  <2>1. client.at = "get" /\ TakeReply(context, "write") /\ wire' = wire BY <1>6 DEF redisGetReply
  <2>2. Nothing(context) BY <2>1, <1>0 DEF Dead
  <2>q. QED BY <1>0, <2>1, <2>2, TakesNothing DEF Final
<1>7. CASE redisBufferWrite
  <2>1. Failed /\ UNCHANGED <<context, wire>> BY <1>0, <1>7 DEF redisBufferWrite
  <2>q. QED BY <1>0, <2>1, FailedAnswersNothing DEF Final
<1>8. CASE Server
  BY <1>0, <1>8 DEF Server, Final, Wires
<1>9. CASE ServerHangsUp
  BY <1>0, <1>9 DEF ServerHangsUp, Final, Wires
<1>10. CASE Construct BY <1>0, <1>10 DEF Construct
<1>11. CASE redisBufferRead BY <1>0, <1>11 DEF redisBufferRead
<1>q. QED BY <1>2, <1>4, <1>5, <1>6, <1>7, <1>8, <1>9, <1>10, <1>11 DEF ClientNext

(* A connection with an error gives no more answers and sends nothing more, *)
(* not even when the awaited reply arrives after all (hiredis.c 794-850).   *)
THEOREM NoAnswerAfterError == ClientSpec => ErrorIsFinal
<1>1. ClientInv /\ [ClientNext]_clientVars =>
        [context.err # "none" =>
          /\ context'.err # "none" /\ wire'.out \in {wire.out, SubSeq(wire.out, 3, Len(wire.out)), <<>>}
          /\ done'.outcome # done.outcome => ~done'.outcome.answered]_clientVars
  BY FinalStep DEF Final
<1>q. QED BY <1>1, ClientInitInv, ClientStep, PTL DEF ClientSpec, ErrorIsFinal


Directions == {"read", "write"}
Hooks == {"attach", "addRead", "delRead", "addWrite", "delWrite", "cleanup"}
Registrations == [data : BOOLEAN, flags : SUBSET Directions, watch : SUBSET Directions]
AsyncFlags == {"IN_CALLBACK", "DISCONNECTING", "FREEING", "SUBSCRIBED", "MONITORING", "CONNECTED"}
Topics == {"channel", "pattern"}
Subscriptions == [name : Topics, cb : Nat]
AsyncCommands == [kind : UNION {CommandKinds[a] : a \in AdapterNames}, cb : Nat, n : Nat, name : Topics]
Answers == [kind : Subscribing \cup Unsubscribing \cup {"ok", "error", "message", "malformed"}, of : Nat,
            name : Topics \cup {"monitor", ""}, count : Nat]
Statuses == [kind : {"NULL", "OK", "ERR"}]
AsyncContexts ==
    [life : {"live", "freed"}, flags : SUBSET AsyncFlags, err : {0, 1}, onConnect : BOOLEAN, onDisconnect : BOOLEAN,
     replies : Seq(Nat), invalid : Seq(Nat), channels : SUBSET Subscriptions, patterns : SUBSET Subscriptions,
     obuf : Seq(AsyncCommands), ibuf : Seq(Answers), cb : Nat, ev : Registrations, late : BOOLEAN]
Servers == [in : Seq(AsyncCommands), out : Seq(Answers), subs : SUBSET Topics,
            monitored : BOOLEAN, messages : Nat, closed : BOOLEAN]
Places == {"idle", "process", "after", "free", "callback", "disconnected", "aborted", "handleRead", "handleWrite"}
LogEntries == [cb : Int, reply : Answers \cup Statuses]
Issues == [commands : Seq(AsyncCommands), answered : SUBSET Nat, orderly : BOOLEAN]

AsyncTypeOK ==
    /\ adapter \in AdapterNames
    /\ ac \in AsyncContexts
    /\ pc \in Places
    /\ return \in Places
    /\ second \in Directions \cup {"none", "stale"}
    /\ server \in Servers
    /\ log \in Seq(LogEntries)
    /\ issued \in Issues

LEMMA HookTyped ==
  ASSUME NEW a \in AdapterNames, NEW e \in Registrations, NEW op \in Hooks
  PROVE  Hook(a, e, op) \in Registrations
<1>1. /\ \A x \in Registrations, d \in Directions : Watch(x, d) \in Registrations /\ Unwatch(x, d) \in Registrations
  BY DEF Registrations, Watch, Unwatch
<1>2. \A x \in Registrations, d \in Directions : Start(x, d) \in Registrations /\ Stop(x, d) \in Registrations
  BY DEF Registrations, Watch, Unwatch, Start, Stop
<1>3. \A x \in Registrations, m \in SUBSET Directions : Poll(x, m) \in Registrations BY DEF Registrations, Poll
<1>4. \A x \in Registrations, m \in SUBSET Directions : Attach(x, m) \in Registrations
  BY DEF Registrations, Attach, Unattached
<1>5. Unattached \in Registrations BY DEF Registrations, Unattached
<1>6. op # "attach" => FlagHook(e, op) \in Registrations /\ WatchHook(e, op) \in Registrations
  BY <1>1, <1>2 DEF FlagHook, WatchHook, Hooks, Directions
<1>7. redisAe(e, op) \in Registrations /\ redisLibev(e, op) \in Registrations /\ redisQt(e, op) \in Registrations
      /\ redisLibevent(e, op) \in Registrations
  BY <1>4, <1>6 DEF redisAe, redisLibev, redisQt, redisLibevent
<1>8. redisGlib(e, op) \in Registrations /\ redisIvykis(e, op) \in Registrations /\ redisMacOS(e, op) \in Registrations
  BY <1>4, <1>5, <1>6 DEF redisGlib, redisIvykis, redisMacOS, Directions
<1>9. redisLibuv(e, op) \in Registrations
  <2>1. e.flags \in SUBSET Directions /\ "read" \in Directions /\ "write" \in Directions BY DEF Registrations, Directions
  <2>2. op = "cleanup" => [e EXCEPT !.watch = {}] \in Registrations BY DEF Registrations
  <2>3. e.flags \cup {"read"} \in SUBSET Directions /\ e.flags \ {"read"} \in SUBSET Directions
        /\ e.flags \cup {"write"} \in SUBSET Directions /\ e.flags \ {"write"} \in SUBSET Directions
        /\ {} \in SUBSET Directions
    BY <2>1
  <2>q. QED BY <1>3, <1>4, <2>2, <2>3 DEF redisLibuv, Hooks
<1>q. QED BY <1>7, <1>8, <1>9 DEF Hook, AdapterNames

LEMMA FiredTyped ==
  ASSUME NEW a \in AdapterNames, NEW e \in Registrations, NEW d \in Directions
  PROVE  Fired(a, e, d) \in Registrations
BY DEF Fired, Unwatch, Registrations

LEMMA ContextTyped ==
  ASSUME NEW c \in AsyncContexts, adapter \in AdapterNames
  PROVE  /\ \A op \in Hooks : EL(c, op) \in AsyncContexts
         /\ \A d \in Directions : [c EXCEPT !.ev = Fired(adapter, @, d)] \in AsyncContexts
         /\ [c EXCEPT !.err = 1] \in AsyncContexts
         /\ [c EXCEPT !.late = TRUE] \in AsyncContexts
         /\ [c EXCEPT !.onConnect = TRUE] \in AsyncContexts
         /\ [c EXCEPT !.onDisconnect = TRUE] \in AsyncContexts
         /\ [c EXCEPT !.life = "freed"] \in AsyncContexts
<1>1. c.ev \in Registrations BY DEF AsyncContexts
<1>2. \A e \in Registrations : [c EXCEPT !.ev = e] \in AsyncContexts BY DEF AsyncContexts
<1>3. ASSUME NEW op \in Hooks PROVE EL(c, op) \in AsyncContexts
  BY <1>1, <1>2, HookTyped DEF EL
<1>5. ASSUME NEW d \in Directions PROVE [c EXCEPT !.ev = Fired(adapter, @, d)] \in AsyncContexts
  BY <1>1, <1>2, FiredTyped
<1>6. /\ [c EXCEPT !.err = 1] \in AsyncContexts
      /\ [c EXCEPT !.late = TRUE] \in AsyncContexts
      /\ [c EXCEPT !.onConnect = TRUE] \in AsyncContexts
      /\ [c EXCEPT !.onDisconnect = TRUE] \in AsyncContexts
      /\ [c EXCEPT !.life = "freed"] \in AsyncContexts
  BY DEF AsyncContexts
<1>q. QED BY <1>3, <1>5, <1>6

LEMMA FlagTyped ==
  ASSUME NEW c \in AsyncContexts, NEW f \in AsyncFlags
  PROVE  SetFlag(c, f) \in AsyncContexts /\ ClearFlag(c, f) \in AsyncContexts
BY DEF SetFlag, ClearFlag, AsyncContexts

LEMMA QueueTyped ==
  ASSUME NEW c \in AsyncContexts
  PROVE  /\ CanShift(c.replies) => /\ [c EXCEPT !.replies = Tail(@)] \in AsyncContexts /\ Head(c.replies) \in Nat
                                   /\ [c EXCEPT !.replies = Tail(@), !.cb = Head(c.replies)] \in AsyncContexts
         /\ CanShift(c.invalid) => /\ [c EXCEPT !.invalid = Tail(@)] \in AsyncContexts /\ Head(c.invalid) \in Nat
                                   /\ [c EXCEPT !.invalid = Tail(@), !.cb = Head(c.invalid)] \in AsyncContexts
         /\ \A x \in Nat : /\ [c EXCEPT !.replies = __redisPushCallback(@, x)] \in AsyncContexts
                           /\ [c EXCEPT !.invalid = __redisPushCallback(@, x)] \in AsyncContexts
         /\ c.ibuf # <<>> => [c EXCEPT !.ibuf = Tail(@)] \in AsyncContexts /\ Head(c.ibuf) \in Answers
<1>1. c.replies \in Seq(Nat) /\ c.invalid \in Seq(Nat) /\ c.ibuf \in Seq(Answers) BY DEF AsyncContexts
<1>2. \A s \in Seq(Nat), n \in Nat : /\ [c EXCEPT !.replies = s] \in AsyncContexts /\ [c EXCEPT !.invalid = s] \in AsyncContexts
                     /\ [c EXCEPT !.replies = s, !.cb = n] \in AsyncContexts /\ [c EXCEPT !.invalid = s, !.cb = n] \in AsyncContexts
  BY DEF AsyncContexts
<1>3. \A s \in Seq(Answers) : [c EXCEPT !.ibuf = s] \in AsyncContexts BY DEF AsyncContexts
<1>4. \A s \in Seq(Nat) : s # <<>> => Tail(s) \in Seq(Nat) /\ Head(s) \in Nat OBVIOUS
<1>5. \A s \in Seq(Answers) : s # <<>> => Tail(s) \in Seq(Answers) /\ Head(s) \in Answers OBVIOUS
<1>6. \A s \in Seq(Nat), x \in Nat : Append(s, x) \in Seq(Nat) OBVIOUS
<1>q. QED BY <1>1, <1>2, <1>3, <1>4, <1>5, <1>6 DEF CanShift, __redisPushCallback


Moved == ac' \in AsyncContexts /\ pc' \in Places /\ return' \in Places /\ log' \in Seq(LogEntries)

LEMMA GotoTyped ==
  ASSUME AsyncTypeOK, NEW c \in AsyncContexts, NEW place \in Places, Goto(c, place)
  PROVE  Moved
BY DEF AsyncTypeOK, Goto, Moved

LEMMA RunTyped ==
  ASSUME AsyncTypeOK, NEW c \in AsyncContexts, NEW cb \in Nat, NEW reply \in Answers \cup {NULL}, NEW back \in Places,
         __redisRunCallback(c, cb, reply, back)
  PROVE  Moved
<1>1. [cb |-> cb, reply |-> reply] \in LogEntries
  <2>1. reply \in Answers \cup Statuses BY DEF NULL, Statuses
  <2>2. cb \in Int OBVIOUS
  <2>q. QED BY <2>1, <2>2 DEF LogEntries
<1>2. log \in Seq(LogEntries) /\ return \in Places BY DEF AsyncTypeOK
<1>3. Append(log, [cb |-> cb, reply |-> reply]) \in Seq(LogEntries) BY <1>1, <1>2
<1>4. SetFlag(c, "IN_CALLBACK") \in AsyncContexts BY FlagTyped DEF AsyncFlags
<1>5. "callback" \in Places BY DEF Places
<1>q. QED BY <1>2, <1>3, <1>4, <1>5 DEF __redisRunCallback, Moved

LEMMA DisconnectTyped ==
  ASSUME AsyncTypeOK, NEW c \in AsyncContexts
  PROVE  /\ __redisAsyncDisconnect(c) => Moved
         /\ redisAsyncDisconnect(c) => Moved
         /\ redisAsyncFree(c) => Moved
<1>1. adapter \in AdapterNames /\ pc \in Places BY DEF AsyncTypeOK
<1>2. SetFlag(c, "DISCONNECTING") \in AsyncContexts /\ SetFlag(c, "FREEING") \in AsyncContexts BY FlagTyped DEF AsyncFlags
<1>3. "aborted" \in Places /\ "free" \in Places BY DEF Places
<1>4. ASSUME NEW x \in AsyncContexts, __redisAsyncDisconnect(x) PROVE Moved
  <2>1. SetFlag(x, "DISCONNECTING") \in AsyncContexts BY FlagTyped DEF AsyncFlags
  <2>2. Goto(x, "aborted") => Moved BY <1>3, GotoTyped
  <2>3. Goto(x, "free") => Moved BY <1>3, GotoTyped
  <2>4. Goto(SetFlag(x, "DISCONNECTING"), "free") => Moved BY <2>1, <1>3, GotoTyped
  <2>q. QED BY <1>4, <2>2, <2>3, <2>4 DEF __redisAsyncDisconnect
<1>5. redisAsyncDisconnect(c) => Moved
  <2>1. Goto(SetFlag(c, "DISCONNECTING"), pc) => Moved BY <1>1, <1>2, GotoTyped
  <2>q. QED BY <2>1, <1>2, <1>4 DEF redisAsyncDisconnect
<1>6. redisAsyncFree(c) => Moved
  <2>1. Goto(SetFlag(c, "FREEING"), pc) => Moved BY <1>1, <1>2, GotoTyped
  <2>2. Goto(SetFlag(c, "FREEING"), "free") => Moved BY <1>2, <1>3, GotoTyped
  <2>q. QED BY <2>1, <2>2 DEF redisAsyncFree
<1>q. QED BY <1>4, <1>5, <1>6

LEMMA RegisteredTyped ==
  ASSUME NEW c \in AsyncContexts, NEW cmd \in AsyncCommands, adapter \in AdapterNames
  PROVE  __redisAsyncCommand(c, cmd) \in AsyncContexts
<1>1. [name |-> cmd.name, cb |-> cmd.cb] \in Subscriptions /\ cmd.cb \in Nat BY DEF AsyncCommands, Subscriptions
<1>2. \A D \in SUBSET Subscriptions : Replaced(D, cmd) \in SUBSET Subscriptions BY <1>1 DEF Replaced
<1>3. c.channels \in SUBSET Subscriptions /\ c.patterns \in SUBSET Subscriptions BY DEF AsyncContexts
<1>4. \A D \in SUBSET Subscriptions : [c EXCEPT !.channels = D] \in AsyncContexts /\ [c EXCEPT !.patterns = D] \in AsyncContexts
  BY DEF AsyncContexts
<1>5. \A x \in AsyncContexts, f \in AsyncFlags : SetFlag(x, f) \in AsyncContexts BY FlagTyped DEF AsyncFlags
<1>6. [c EXCEPT !.replies = __redisPushCallback(@, cmd.cb)] \in AsyncContexts
      /\ [c EXCEPT !.invalid = __redisPushCallback(@, cmd.cb)] \in AsyncContexts
  BY <1>1, QueueTyped
<1>7. Registered(c, cmd) \in AsyncContexts
  <2>1. [c EXCEPT !.channels = Replaced(@, cmd)] \in AsyncContexts BY <1>2, <1>3, <1>4
  <2>2. [c EXCEPT !.patterns = Replaced(@, cmd)] \in AsyncContexts BY <1>2, <1>3, <1>4
  <2>3. SetFlag([c EXCEPT !.channels = Replaced(@, cmd)], "SUBSCRIBED") \in AsyncContexts BY <2>1, FlagTyped DEF AsyncFlags
  <2>4. SetFlag([c EXCEPT !.patterns = Replaced(@, cmd)], "SUBSCRIBED") \in AsyncContexts BY <2>2, FlagTyped DEF AsyncFlags
  <2>5. SetFlag([c EXCEPT !.replies = __redisPushCallback(@, cmd.cb)], "MONITORING") \in AsyncContexts BY <1>6, FlagTyped DEF AsyncFlags
  <2>q. QED BY <2>3, <2>4, <2>5, <1>6 DEF Registered
<1>8. \A x \in AsyncContexts : [x EXCEPT !.obuf = Append(@, cmd)] \in AsyncContexts
  <2>1. \A x \in AsyncContexts : Append(x.obuf, cmd) \in Seq(AsyncCommands) BY DEF AsyncContexts
  <2>2. \A x \in AsyncContexts, s \in Seq(AsyncCommands) : [x EXCEPT !.obuf = s] \in AsyncContexts BY DEF AsyncContexts
  <2>q. QED BY <2>1, <2>2
<1>9. \A x \in AsyncContexts : EL(x, "addWrite") \in AsyncContexts BY ContextTyped DEF Hooks
<1>q. QED BY <1>7, <1>8, <1>9 DEF __redisAsyncCommand

LEMMA SubscribeTyped ==
  ASSUME NEW c \in AsyncContexts, NEW reply \in Answers, adapter \in AdapterNames
  PROVE  __redisGetSubscribeCallback(c, reply) \in AsyncContexts
<1> DEFINE dict == IF reply.kind \in {"psubscribe", "punsubscribe"} THEN c.patterns ELSE c.channels
           entry == {d \in dict : d.name = reply.name}
           last == entry # {} /\ reply.kind \in Unsubscribing
           kept == CASE last /\ reply.kind = "unsubscribe" -> [c EXCEPT !.channels = @ \ entry]
                     [] last /\ reply.kind = "punsubscribe" -> [c EXCEPT !.patterns = @ \ entry]
                     [] OTHER -> c
           found == IF entry = {} THEN kept ELSE [kept EXCEPT !.cb = (CHOOSE d \in entry : TRUE).cb]
<1>1. c.channels \in SUBSET Subscriptions /\ c.patterns \in SUBSET Subscriptions BY DEF AsyncContexts
<1>2. entry \in SUBSET Subscriptions BY <1>1
<1>3. kept \in AsyncContexts
  <2>1. \A E : [c EXCEPT !.channels = @ \ E] \in AsyncContexts /\ [c EXCEPT !.patterns = @ \ E] \in AsyncContexts
    BY DEF AsyncContexts
  <2>q. QED BY <2>1
<1>4. found \in AsyncContexts
  <2>1. entry # {} => (CHOOSE d \in entry : TRUE).cb \in Nat BY <1>2 DEF Subscriptions
  <2>2. \A x \in AsyncContexts, k \in Nat : [x EXCEPT !.cb = k] \in AsyncContexts BY DEF AsyncContexts
  <2> HIDE DEF kept, entry
  <2>q. QED BY <2>1, <2>2, <1>3
<1>5. ClearFlag(found, "SUBSCRIBED") \in AsyncContexts BY <1>4, FlagTyped DEF AsyncFlags
<1>6. CanShift(c.invalid) => [c EXCEPT !.invalid = Tail(@), !.cb = Head(c.invalid)] \in AsyncContexts BY QueueTyped
<1>7. __redisGetSubscribeCallback(c, reply) =
        IF reply.kind = "ok"
        THEN IF CanShift(c.invalid) THEN [c EXCEPT !.invalid = Tail(@), !.cb = Head(c.invalid)] ELSE c
        ELSE IF last /\ reply.count = 0 THEN ClearFlag(found, "SUBSCRIBED") ELSE found
  BY DEF __redisGetSubscribeCallback
<1> HIDE DEF last, found
<1>q. QED BY <1>4, <1>5, <1>6, <1>7


LEMMA SpeakTyped ==
  ASSUME NEW s \in Seq(LogEntries), NEW x \in {"OK", "ERR"}, NEW b \in {OnConnect, OnDisconnect}
  PROVE  Append(s, [cb |-> b, reply |-> [kind |-> x]]) \in Seq(LogEntries)
<1>1. [kind |-> x] \in Statuses BY DEF Statuses
<1>2. b \in Int BY DEF OnConnect, OnDisconnect
<1>3. [cb |-> b, reply |-> [kind |-> x]] \in LogEntries BY <1>1, <1>2 DEF LogEntries
<1>q. QED BY <1>3

LEMMA ConnectTyped ==
  ASSUME AsyncTypeOK, NEW c \in AsyncContexts, NEW d \in Places, __redisAsyncHandleConnect(c, d)
  PROVE  Moved
<1>1. adapter \in AdapterNames /\ log \in Seq(LogEntries) /\ return \in Places BY DEF AsyncTypeOK
<1>2. LogConnect("OK") \in Seq(LogEntries) /\ LogConnect("ERR") \in Seq(LogEntries) BY <1>1, SpeakTyped DEF LogConnect
<1>3. "idle" \in Places /\ "free" \in Places BY DEF Places
<1>4. [c EXCEPT !.late = TRUE] \in AsyncContexts /\ [c EXCEPT !.err = 1] \in AsyncContexts BY <1>1, ContextTyped
<1>5. SetFlag([c EXCEPT !.err = 1], "DISCONNECTING") \in AsyncContexts /\ SetFlag(c, "CONNECTED") \in AsyncContexts
  BY <1>4, FlagTyped DEF AsyncFlags
<1>6. CASE Goto([c EXCEPT !.late = TRUE], "idle") BY <1>6, <1>3, <1>4, GotoTyped
<1>7. CASE /\ log' = LogConnect("ERR")
           /\ ac' = SetFlag([c EXCEPT !.err = 1], "DISCONNECTING") /\ pc' = "free" /\ UNCHANGED return
  BY <1>7, <1>1, <1>2, <1>3, <1>5 DEF Moved
<1>8. CASE /\ log' = LogConnect("OK")
           /\ ac' = SetFlag(c, "CONNECTED") /\ pc' = d /\ UNCHANGED return
  BY <1>8, <1>1, <1>2, <1>5 DEF Moved
<1>q. QED BY <1>6, <1>7, <1>8 DEF __redisAsyncHandleConnect

(* What is left of a queue, and what is taken from it. *)
LEMMA CutTyped ==
  ASSUME NEW S, NEW s \in Seq(S), NEW n \in 0 .. Len(s)
  PROVE  /\ SubSeq(s, 1, n) \in Seq(S) /\ SubSeq(s, n + 1, Len(s)) \in Seq(S)
         /\ Len(SubSeq(s, 1, n)) = n /\ Len(SubSeq(s, n + 1, Len(s))) = Len(s) - n
         /\ \A i \in 1 .. n : SubSeq(s, 1, n)[i] = s[i]
         /\ \A i \in 1 .. Len(s) - n : SubSeq(s, n + 1, Len(s))[i] = s[n + i]
OBVIOUS

LEMMA ReadTyped ==
  ASSUME AsyncTypeOK, NEW c \in AsyncContexts, redisAsyncHandleRead(c)
  PROVE  Moved /\ server' \in Servers
<1>1. adapter \in AdapterNames /\ server \in Servers BY DEF AsyncTypeOK
<1>2. "process" \in Places /\ "handleRead" \in Places BY DEF Places
<1>3. server.out \in Seq(Answers) /\ c.ibuf \in Seq(Answers) BY <1>1 DEF Servers, AsyncContexts
<1>4. CASE ~Has(c, "CONNECTED")
  <2>1. __redisAsyncHandleConnect(c, "handleRead") /\ UNCHANGED server BY <1>4 DEF redisAsyncHandleRead
  <2>2. Moved BY <2>1, <1>2, ConnectTyped
  <2>q. QED BY <2>1, <2>2, <1>1
<1>5. CASE Has(c, "CONNECTED")
  <2>1. ASSUME NEW n \in 0 .. Len(server.out), server' = [server EXCEPT !.out = SubSeq(@, n + 1, Len(@))],
               Goto(EL([c EXCEPT !.ibuf = @ \o SubSeq(server.out, 1, n), !.cb = 0], "addRead"), "process")
        PROVE  Moved /\ server' \in Servers
    <3>1. SubSeq(server.out, n + 1, Len(server.out)) \in Seq(Answers) /\ SubSeq(server.out, 1, n) \in Seq(Answers)
      BY <1>3, CutTyped
    <3>2. \A s \in Seq(Answers) : [server EXCEPT !.out = s] \in Servers BY <1>1 DEF Servers
    <3>3. server' \in Servers BY <2>1, <3>1, <3>2
    <3>4. c.ibuf \o SubSeq(server.out, 1, n) \in Seq(Answers) BY <1>3, <3>1
    <3>5. \A s \in Seq(Answers) : [c EXCEPT !.ibuf = s, !.cb = 0] \in AsyncContexts BY DEF AsyncContexts
    <3>6. [c EXCEPT !.ibuf = @ \o SubSeq(server.out, 1, n), !.cb = 0] \in AsyncContexts BY <3>4, <3>5
    <3>7. EL([c EXCEPT !.ibuf = @ \o SubSeq(server.out, 1, n), !.cb = 0], "addRead") \in AsyncContexts
      BY <1>1, <3>6, ContextTyped DEF Hooks
    <3>8. Moved BY <2>1, <3>7, <1>2, GotoTyped
    <3>q. QED BY <3>3, <3>8
  <2>2. ASSUME __redisAsyncDisconnect([c EXCEPT !.err = 1]), UNCHANGED server
        PROVE  Moved /\ server' \in Servers
    <3>1. [c EXCEPT !.err = 1] \in AsyncContexts BY <1>1, ContextTyped
    <3>2. Moved BY <2>2, <3>1, DisconnectTyped
    <3>q. QED BY <2>2, <3>2, <1>1
  <2>q. QED BY <1>5, <2>1, <2>2 DEF redisAsyncHandleRead
<1>q. QED BY <1>4, <1>5

LEMMA WriteTyped ==
  ASSUME AsyncTypeOK, NEW c \in AsyncContexts, redisAsyncHandleWrite(c)
  PROVE  Moved /\ server' \in Servers
<1>1. adapter \in AdapterNames /\ server \in Servers BY DEF AsyncTypeOK
<1>2. "idle" \in Places /\ "handleWrite" \in Places BY DEF Places
<1>3. server.in \in Seq(AsyncCommands) /\ c.obuf \in Seq(AsyncCommands) BY <1>1 DEF Servers, AsyncContexts
<1>4. CASE ~Has(c, "CONNECTED")
  <2>1. __redisAsyncHandleConnect(c, "handleWrite") /\ UNCHANGED server BY <1>4 DEF redisAsyncHandleWrite
  <2>2. Moved BY <2>1, <1>2, ConnectTyped
  <2>q. QED BY <2>1, <2>2, <1>1
<1>5. CASE Has(c, "CONNECTED")
  <2>1. ASSUME NEW n \in 0 .. Len(c.obuf),
               NEW rest, rest = SubSeq(c.obuf, n + 1, Len(c.obuf)),
               NEW wrote, wrote = EL([c EXCEPT !.obuf = rest], IF rest = <<>> THEN "delWrite" ELSE "addWrite"),
               server' = [server EXCEPT !.in = @ \o SubSeq(c.obuf, 1, n)],
               Goto(EL(wrote, "addRead"), "idle")
        PROVE  Moved /\ server' \in Servers
    <3>1. rest \in Seq(AsyncCommands) /\ SubSeq(c.obuf, 1, n) \in Seq(AsyncCommands)
      BY <1>3, <2>1, CutTyped
    <3>2. \A s \in Seq(AsyncCommands) : [server EXCEPT !.in = s] \in Servers BY <1>1 DEF Servers
    <3>3. server.in \o SubSeq(c.obuf, 1, n) \in Seq(AsyncCommands) BY <1>3, <3>1
    <3>4. server' \in Servers BY <2>1, <3>2, <3>3
    <3>5. [c EXCEPT !.obuf = rest] \in AsyncContexts BY <3>1 DEF AsyncContexts
    <3>6. wrote \in AsyncContexts BY <1>1, <2>1, <3>5, ContextTyped DEF Hooks
    <3>7. EL(wrote, "addRead") \in AsyncContexts BY <1>1, <3>6, ContextTyped DEF Hooks
    <3>8. Moved BY <2>1, <3>7, <1>2, GotoTyped
    <3>q. QED BY <3>4, <3>8
  <2>2. ASSUME __redisAsyncDisconnect([c EXCEPT !.err = 1]), UNCHANGED server
        PROVE  Moved /\ server' \in Servers
    <3>1. [c EXCEPT !.err = 1] \in AsyncContexts BY <1>1, ContextTyped
    <3>2. Moved BY <2>2, <3>1, DisconnectTyped
    <3>q. QED BY <2>2, <3>2, <1>1
  <2>q. QED BY <1>5, <2>1, <2>2 DEF redisAsyncHandleWrite
<1>q. QED BY <1>4, <1>5

LEMMA TurnTyped ==
  ASSUME AsyncTypeOK, redisProcessCallbacks
  PROVE  Moved
<1> DEFINE reply == Head(ac.ibuf)
           taken == [ac EXCEPT !.ibuf = Tail(@)]
           shifted == [taken EXCEPT !.replies = Tail(@), !.cb = Head(ac.replies)]
           subscribed == IF Has(ac, "SUBSCRIBED") THEN __redisGetSubscribeCallback(taken, reply) ELSE taken
<1>1. adapter \in AdapterNames /\ ac \in AsyncContexts BY DEF AsyncTypeOK
<1>2. "idle" \in Places /\ "after" \in Places /\ "aborted" \in Places BY DEF Places
<1>3. CASE ac.ibuf = <<>>
  <2>1. ac.cb \in Nat BY <1>1 DEF AsyncContexts
  <2>2. [ac EXCEPT !.replies = __redisPushCallback(@, ac.cb)] \in AsyncContexts BY <1>1, <2>1, QueueTyped
  <2>3. __redisAsyncDisconnect(ac) => Moved BY <1>1, DisconnectTyped
  <2>4. Goto(ac, "idle") => Moved BY <1>1, <1>2, GotoTyped
  <2>5. Goto([ac EXCEPT !.replies = __redisPushCallback(@, ac.cb)], "idle") => Moved BY <2>2, <1>2, GotoTyped
  <2>q. QED BY <1>3, <2>3, <2>4, <2>5 DEF redisProcessCallbacks
<1>4. CASE ac.ibuf # <<>>
  <2>1. taken \in AsyncContexts /\ reply \in Answers BY <1>1, <1>4, QueueTyped
  <2>2. [taken EXCEPT !.err = 1] \in AsyncContexts BY <1>1, <2>1, ContextTyped
  <2>3. __redisAsyncDisconnect([taken EXCEPT !.err = 1]) => Moved BY <2>2, DisconnectTyped
  <2>4. subscribed \in AsyncContexts BY <1>1, <2>1, SubscribeTyped
  <2>5. subscribed.cb \in Nat BY <2>4 DEF AsyncContexts
  <2>6. Goto(taken, "aborted") => Moved BY <2>1, <1>2, GotoTyped
  <2>7. CanShift(ac.replies) => shifted \in AsyncContexts
    <3>1. taken.replies = ac.replies BY <1>1 DEF AsyncContexts
    <3>2. CanShift(ac.replies) => [taken EXCEPT !.replies = Tail(@), !.cb = Head(taken.replies)] \in AsyncContexts
      BY <2>1, <3>1, QueueTyped
    <3>q. QED BY <3>1, <3>2
  <2>8. CanShift(ac.replies) => shifted.cb \in Nat BY <2>7 DEF AsyncContexts
  <2> HIDE DEF shifted, subscribed, taken, reply
  <2>9. CanShift(ac.replies) /\ __redisRunCallback(shifted, shifted.cb, reply, "after") => Moved
    <3>1. SUFFICES ASSUME CanShift(ac.replies), __redisRunCallback(shifted, shifted.cb, reply, "after") PROVE Moved OBVIOUS
    <3>q. QED BY <3>1, <2>1, <2>7, <2>8, <1>2, RunTyped
  <2>10. __redisRunCallback(subscribed, subscribed.cb, reply, "after") => Moved
    <3>1. SUFFICES ASSUME __redisRunCallback(subscribed, subscribed.cb, reply, "after") PROVE Moved OBVIOUS
    <3>q. QED BY <3>1, <2>1, <2>4, <2>5, <1>2, RunTyped
  <2>q. QED BY <1>4, <2>3, <2>6, <2>9, <2>10 DEF redisProcessCallbacks, reply, taken, shifted, subscribed
<1>q. QED BY <1>3, <1>4

LEMMA FreeTyped ==
  ASSUME AsyncTypeOK, __redisAsyncFree
  PROVE  Moved
<1>1. adapter \in AdapterNames /\ ac \in AsyncContexts BY DEF AsyncTypeOK
<1>2. "free" \in Places /\ "disconnected" \in Places BY DEF Places
<1>3. NULL \in Answers \cup {NULL} OBVIOUS
<1>4. CanShift(ac.replies) /\ __redisRunCallback([ac EXCEPT !.replies = Tail(@)], Head(ac.replies), NULL, "free") => Moved
  <2>1. SUFFICES ASSUME CanShift(ac.replies), __redisRunCallback([ac EXCEPT !.replies = Tail(@)], Head(ac.replies), NULL, "free")
                 PROVE  Moved
    OBVIOUS
  <2>2. [ac EXCEPT !.replies = Tail(@)] \in AsyncContexts /\ Head(ac.replies) \in Nat BY <2>1, <1>1, QueueTyped
  <2>q. QED BY <2>1, <2>2, <1>2, <1>3, RunTyped
<1>5. CanShift(ac.invalid) /\ __redisRunCallback([ac EXCEPT !.invalid = Tail(@)], Head(ac.invalid), NULL, "free") => Moved
  <2>1. SUFFICES ASSUME CanShift(ac.invalid), __redisRunCallback([ac EXCEPT !.invalid = Tail(@)], Head(ac.invalid), NULL, "free")
                 PROVE  Moved
    OBVIOUS
  <2>2. [ac EXCEPT !.invalid = Tail(@)] \in AsyncContexts /\ Head(ac.invalid) \in Nat BY <2>1, <1>1, QueueTyped
  <2>q. QED BY <2>1, <2>2, <1>2, <1>3, RunTyped
<1>6. ASSUME NEW d \in ac.channels, __redisRunCallback([ac EXCEPT !.channels = @ \ {d}], d.cb, NULL, "free") PROVE Moved
  <2>1. d.cb \in Nat /\ [ac EXCEPT !.channels = @ \ {d}] \in AsyncContexts BY <1>1 DEF AsyncContexts, Subscriptions
  <2>q. QED BY <2>1, <1>6, <1>2, <1>3, RunTyped
<1>7. ASSUME NEW d \in ac.patterns, __redisRunCallback([ac EXCEPT !.patterns = @ \ {d}], d.cb, NULL, "free") PROVE Moved
  <2>1. d.cb \in Nat /\ [ac EXCEPT !.patterns = @ \ {d}] \in AsyncContexts BY <1>1 DEF AsyncContexts, Subscriptions
  <2>q. QED BY <2>1, <1>7, <1>2, <1>3, RunTyped
<1>8. Goto(EL(ac, "cleanup"), "disconnected") => Moved
  <2>1. EL(ac, "cleanup") \in AsyncContexts BY <1>1, ContextTyped DEF Hooks
  <2>q. QED BY <2>1, <1>2, GotoTyped
<1>9. ac.channels # {} => (CHOOSE d \in ac.channels : TRUE) \in ac.channels OBVIOUS
<1>10. ac.patterns # {} => (CHOOSE d \in ac.patterns : TRUE) \in ac.patterns OBVIOUS
<1>q. QED BY <1>4, <1>5, <1>6, <1>7, <1>8, <1>9, <1>10 DEF __redisAsyncFree


LEMMA CommandTyped ==
  ASSUME AsyncTypeOK, NEW kind \in CommandKinds[adapter],
         NEW n, n = Len(issued.commands) + 1
  PROVE  [kind |-> kind, cb |-> IF kind \in Unsubscribing THEN 0 ELSE n, n |-> n,
          name |-> IF kind \in {"psubscribe", "punsubscribe"} THEN "pattern" ELSE "channel"] \in AsyncCommands
<1>1. adapter \in AdapterNames /\ issued.commands \in Seq(AsyncCommands) BY DEF AsyncTypeOK, Issues
<1>2. n \in Nat BY <1>1
<1>3. kind \in UNION {CommandKinds[a] : a \in AdapterNames} BY <1>1
<1>q. QED BY <1>2, <1>3 DEF AsyncCommands, Topics

LEMMA TopicsFinite == IsFiniteSet(Topics)
<1>1. IsFiniteSet({"channel"}) BY FS_Singleton
<1>2. IsFiniteSet({"channel"} \cup {"pattern"}) BY <1>1, FS_AddElement
<1>3. Topics = {"channel"} \cup {"pattern"} BY DEF Topics
<1>q. QED BY <1>2, <1>3

LEMMA AnswerTyped ==
  ASSUME AsyncTypeOK, server.in # <<>>
  PROVE  Answer(Head(server.in)) \in Servers /\ Head(server.in) \in AsyncCommands
<1> DEFINE cmd == Head(server.in)
           subs == CASE cmd.kind \in Subscribing -> server.subs \cup {cmd.name}
                     [] cmd.kind \in Unsubscribing -> server.subs \ {cmd.name}
                     [] OTHER -> server.subs
           kind == IF cmd.kind \in Subscribing \cup Unsubscribing THEN cmd.kind
                   ELSE IF server.subs # {} THEN "error" ELSE "ok"
           reply == [kind |-> kind, of |-> cmd.n, name |-> cmd.name, count |-> Cardinality(subs)]
<1>1. server \in Servers /\ server.in \in Seq(AsyncCommands) /\ server.out \in Seq(Answers) /\ server.subs \in SUBSET Topics
      /\ server.monitored \in BOOLEAN
  BY DEF AsyncTypeOK, Servers
<1>2. cmd \in AsyncCommands /\ Tail(server.in) \in Seq(AsyncCommands) BY <1>1
<1>3. cmd.name \in Topics /\ cmd.n \in Nat BY <1>2 DEF AsyncCommands
<1>4. subs \in SUBSET Topics BY <1>1, <1>3
<1>5. Cardinality(subs) \in Nat
  <2>1. IsFiniteSet(Topics) BY TopicsFinite
  <2>2. IsFiniteSet(subs) BY <1>4, <2>1, FS_Subset
  <2>q. QED BY <2>2, FS_CardinalityType
<1>6. kind \in Subscribing \cup Unsubscribing \cup {"ok", "error", "message", "malformed"} OBVIOUS
<1> HIDE DEF cmd, subs, kind
<1>7. reply \in Answers BY <1>3, <1>5, <1>6 DEF Answers
<1>8. Append(server.out, reply) \in Seq(Answers) BY <1>1, <1>7
<1>9. Answer(cmd) = [server EXCEPT !.in = Tail(@), !.subs = subs, !.monitored = @ \/ cmd.kind = "monitor",
                                   !.out = Append(@, reply)]
  BY DEF Answer, subs, kind
<1>10. \A a \in Seq(AsyncCommands), b \in SUBSET Topics, c \in BOOLEAN, d \in Seq(Answers) :
          [server EXCEPT !.in = a, !.subs = b, !.monitored = c, !.out = d] \in Servers
  BY <1>1 DEF Servers
<1>11. (server.monitored \/ cmd.kind = "monitor") \in BOOLEAN OBVIOUS
<1>12. [server EXCEPT !.in = Tail(server.in), !.subs = subs, !.monitored = server.monitored \/ cmd.kind = "monitor",
                     !.out = Append(server.out, reply)] \in Servers
  <2> HIDE DEF reply
  <2>q. QED BY <1>2, <1>4, <1>8, <1>10, <1>11
<1>13. Answer(cmd) \in Servers BY <1>9, <1>12
<1>q. QED BY <1>2, <1>13 DEF cmd

LEMMA AppendTyped == ASSUME NEW S, NEW s \in Seq(S), NEW x \in S PROVE Append(s, x) \in Seq(S)
OBVIOUS

LEMMA SpontaneousTyped ==
  ASSUME AsyncTypeOK, NEW kind \in {"message", "ok", "error", "malformed"}, NEW name \in Topics \cup {"monitor", ""}
  PROVE  Append(server.out, Spontaneous(kind, name)) \in Seq(Answers)
<1>1. server.out \in Seq(Answers) /\ server.subs \in SUBSET Topics BY DEF AsyncTypeOK, Servers
<1>2. Cardinality(server.subs) \in Nat
  <2>1. IsFiniteSet(Topics) BY TopicsFinite
  <2>2. IsFiniteSet(server.subs) BY <1>1, <2>1, FS_Subset
  <2>q. QED BY <2>2, FS_CardinalityType
<1>3. Spontaneous(kind, name) \in Answers BY <1>2 DEF Spontaneous, Answers
<1>q. QED BY <1>1, <1>3, AppendTyped

LEMMA AsyncTypeInit == AsyncInit => AsyncTypeOK
<1> SUFFICES ASSUME AsyncInit PROVE AsyncTypeOK OBVIOUS
<1>1. adapter \in AdapterNames BY AsyncAssumption DEF AsyncInit
<1>2. Unattached \in Registrations BY DEF Unattached, Registrations
<1>3. ac \in AsyncContexts BY <1>2 DEF AsyncInit, redisAsyncInitialize, AsyncContexts
<1>4. server \in Servers BY DEF AsyncInit, Servers
<1>5. issued \in Issues BY DEF AsyncInit, Issues
<1>6. pc \in Places /\ return \in Places /\ second \in Directions \cup {"none", "stale"} /\ log \in Seq(LogEntries)
  BY DEF AsyncInit, Places
<1>q. QED BY <1>1, <1>3, <1>4, <1>5, <1>6 DEF AsyncTypeOK

LEMMA AsyncTypeStep ==
  ASSUME AsyncTypeOK, [AsyncNext]_asyncVars
  PROVE  AsyncTypeOK'
<1>0. /\ adapter \in AdapterNames /\ ac \in AsyncContexts /\ pc \in Places /\ return \in Places
      /\ second \in Directions \cup {"none", "stale"} /\ server \in Servers /\ log \in Seq(LogEntries) /\ issued \in Issues
  BY DEF AsyncTypeOK
<1>s. ASSUME Moved, adapter' = adapter, second' \in Directions \cup {"none", "stale"}, server' \in Servers, issued' \in Issues
      PROVE  AsyncTypeOK'
  BY <1>0, <1>s DEF Moved, AsyncTypeOK
<1>t. ASSUME ac' \in AsyncContexts, UNCHANGED <<adapter, pc, return, second, server, log, issued>> PROVE AsyncTypeOK'
  BY <1>0, <1>t DEF AsyncTypeOK
<1>u. ASSUME server' \in Servers, issued' \in Issues, UNCHANGED <<adapter, ac, pc, return, second, log>> PROVE AsyncTypeOK'
  BY <1>0, <1>u DEF AsyncTypeOK
<1>1. CASE redisAsyncAttach
  <2>1. EL(ac, "attach") \in AsyncContexts BY <1>0, ContextTyped DEF Hooks
  <2>q. QED BY <2>1, <1>1, <1>t DEF redisAsyncAttach
<1>2. CASE redisAsyncSetConnectCallback
  <2>1. [ac EXCEPT !.onConnect = TRUE] \in AsyncContexts BY <1>0, ContextTyped
  <2>2. EL([ac EXCEPT !.onConnect = TRUE], "addWrite") \in AsyncContexts BY <1>0, <2>1, ContextTyped DEF Hooks
  <2>q. QED BY <2>2, <1>2, <1>t DEF redisAsyncSetConnectCallback
<1>3. CASE redisAsyncSetDisconnectCallback
  <2>1. [ac EXCEPT !.onDisconnect = TRUE] \in AsyncContexts BY <1>0, ContextTyped
  <2>q. QED BY <2>1, <1>3, <1>t DEF redisAsyncSetDisconnectCallback
<1>4. ASSUME NEW kind \in CommandKinds[adapter], Command(kind) PROVE AsyncTypeOK'
  <2>1. PICK n : n = Len(issued.commands) + 1 OBVIOUS
  <2>2. PICK cmd : cmd = [kind |-> kind, cb |-> IF kind \in Unsubscribing THEN 0 ELSE n, n |-> n,
                          name |-> IF kind \in {"psubscribe", "punsubscribe"} THEN "pattern" ELSE "channel"]
    OBVIOUS
  <2>3. cmd \in AsyncCommands BY <2>1, <2>2, CommandTyped
  <2>4. /\ ac' = __redisAsyncCommand(ac, cmd)
        /\ issued' = [issued EXCEPT !.commands = Append(@, cmd), !.orderly = @ /\ ~Unsettled /\ kind # "monitor"]
        /\ UNCHANGED <<adapter, pc, return, second, server, log>>
    BY <1>4, <2>1, <2>2 DEF Command
  <2>5. ac' \in AsyncContexts BY <1>0, <2>3, <2>4, RegisteredTyped
  <2>6. Append(issued.commands, cmd) \in Seq(AsyncCommands) BY <1>0, <2>3 DEF Issues
  <2>7. \A s \in Seq(AsyncCommands), b \in BOOLEAN : [issued EXCEPT !.commands = s, !.orderly = b] \in Issues BY <1>0 DEF Issues
  <2>8. (issued.orderly /\ ~Unsettled /\ kind # "monitor") \in BOOLEAN OBVIOUS
  <2>9. [issued EXCEPT !.commands = Append(issued.commands, cmd), !.orderly = issued.orderly /\ ~Unsettled /\ kind # "monitor"] \in Issues
    BY <2>6, <2>7, <2>8
  <2>10. issued' \in Issues BY <2>4, <2>9
  <2>q. QED BY <2>4, <2>5, <2>10, <1>0 DEF AsyncTypeOK
<1>5. CASE UserDisconnects
  <2>1. Moved BY <1>0, <1>5, DisconnectTyped DEF UserDisconnects
  <2>q. QED BY <2>1, <1>0, <1>5, <1>s DEF UserDisconnects
<1>6. CASE UserFrees
  <2>1. Moved BY <1>0, <1>6, DisconnectTyped DEF UserFrees
  <2>q. QED BY <2>1, <1>0, <1>6, <1>s DEF UserFrees
<1>7. CASE CallbackReturns
  <2>1. ClearFlag(ac, "IN_CALLBACK") \in AsyncContexts BY <1>0, FlagTyped DEF AsyncFlags
  <2>q. QED BY <2>1, <1>0, <1>7 DEF CallbackReturns, AsyncTypeOK
<1>8. CASE Event
  <2>1. PICK d \in ac.ev.watch :
          /\ Handle([ac EXCEPT !.ev = Fired(adapter, @, d)], d)
          /\ second' = IF BothInOneCall(adapter) /\ FirstOf(adapter) = d /\ ac.ev.watch = {"read", "write"}
                       THEN (IF d = "read" THEN "write" ELSE "read") ELSE "none"
    BY <1>8 DEF Event
  <2>2. d \in Directions BY <1>0 DEF AsyncContexts, Registrations
  <2>3. [ac EXCEPT !.ev = Fired(adapter, @, d)] \in AsyncContexts BY <1>0, <2>2, ContextTyped
  <2>4. second' \in Directions \cup {"none", "stale"} BY <2>1 DEF Directions
  <2>5. Moved /\ server' \in Servers
    <3>1. PICK c \in AsyncContexts : c = [ac EXCEPT !.ev = Fired(adapter, @, d)] BY <2>3
    <3>2. redisAsyncHandleRead(c) \/ redisAsyncHandleWrite(c) BY <2>1, <3>1 DEF Handle
    <3>3. redisAsyncHandleRead(c) => Moved /\ server' \in Servers BY ReadTyped
    <3>4. redisAsyncHandleWrite(c) => Moved /\ server' \in Servers BY WriteTyped
    <3>q. QED BY <3>2, <3>3, <3>4
  <2>q. QED BY <2>4, <2>5, <1>0, <1>8, <1>s DEF Event
<1>9. CASE SecondEvent
  <2>1. second' \in Directions \cup {"none", "stale"} BY <1>9 DEF SecondEvent
  <2>2. CASE ac.life = "live"
    <3>1. redisAsyncHandleRead(ac) \/ redisAsyncHandleWrite(ac) BY <1>9, <2>2 DEF SecondEvent, Handle
    <3>2. redisAsyncHandleRead(ac) => Moved /\ server' \in Servers BY <1>0, ReadTyped
    <3>3. redisAsyncHandleWrite(ac) => Moved /\ server' \in Servers BY <1>0, WriteTyped
    <3>q. QED BY <2>1, <3>1, <3>2, <3>3, <1>0, <1>9, <1>s DEF SecondEvent
  <2>3. CASE ac.life # "live"
    BY <2>1, <2>3, <1>0, <1>9 DEF SecondEvent, AsyncTypeOK
  <2>q. QED BY <2>2, <2>3
<1>10. CASE HandleConnected
  <2>1. redisAsyncHandleRead(ac) \/ redisAsyncHandleWrite(ac) BY <1>10 DEF HandleConnected
  <2>2. redisAsyncHandleRead(ac) => Moved /\ server' \in Servers BY <1>0, ReadTyped
  <2>3. redisAsyncHandleWrite(ac) => Moved /\ server' \in Servers BY <1>0, WriteTyped
  <2>q. QED BY <2>1, <2>2, <2>3, <1>0, <1>10, <1>s DEF HandleConnected
<1>11. CASE ProcessReplies
  <2>1. redisProcessCallbacks \/ AfterCallback \/ __redisAsyncFree BY <1>11 DEF ProcessReplies
  <2>2. AfterCallback => Moved
    <3>1. (IF Has(ac, "FREEING") THEN "free" ELSE "process") \in Places BY DEF Places
    <3>q. QED BY <1>0, <3>1, GotoTyped DEF AfterCallback
  <2>3. Moved BY <2>1, <2>2, TurnTyped, FreeTyped
  <2>q. QED BY <2>3, <1>0, <1>11, <1>s DEF ProcessReplies
<1>12. CASE Disconnected
  <2>1. log' \in Seq(LogEntries)
    <3>1. PICK x \in {"OK", "ERR"} : x = IF Has(ac, "FREEING") \/ ac.err = 0 THEN "OK" ELSE "ERR" OBVIOUS
    <3>2. Append(log, [cb |-> OnDisconnect, reply |-> [kind |-> x]]) \in Seq(LogEntries) BY <1>0, SpeakTyped
    <3>q. QED BY <3>1, <3>2, <1>0, <1>12 DEF Disconnected
  <2>2. [ac EXCEPT !.life = "freed"] \in AsyncContexts BY <1>0, ContextTyped
  <2>3. "idle" \in Places BY DEF Places
  <2>4. Moved BY <2>1, <2>2, <2>3, <1>0, <1>12 DEF Moved, Disconnected
  <2>q. QED BY <2>4, <1>0, <1>12, <1>s DEF Disconnected
<1>13. CASE ServerAnswers
  <2>1. server' \in Servers BY <1>13, AnswerTyped DEF ServerAnswers
  <2>2. Head(server.in).n \in Nat BY <1>13, AnswerTyped DEF ServerAnswers, AsyncCommands
  <2>3. issued' \in Issues
    <3>1. [issued EXCEPT !.answered = @ \cup {Head(server.in).n}] \in Issues BY <1>0, <2>2 DEF Issues
    <3>q. QED BY <3>1, <1>13 DEF ServerAnswers
  <2>q. QED BY <2>1, <2>3, <1>13, <1>u DEF ServerAnswers
<1>14. CASE ServerSends
  <2>1. Append(server.out, Spontaneous("message", "channel")) \in Seq(Answers)
        /\ Append(server.out, Spontaneous("ok", "monitor")) \in Seq(Answers)
    BY SpontaneousTyped DEF Topics
  <2>2. \A s \in Seq(Answers) : [server EXCEPT !.out = s, !.messages = @ + 1] \in Servers
    <3>1. server.messages + 1 \in Nat BY <1>0 DEF Servers
    <3>2. \A s \in Seq(Answers), k \in Nat : [server EXCEPT !.out = s, !.messages = k] \in Servers BY <1>0 DEF Servers
    <3>q. QED BY <3>1, <3>2
  <2>3. server' \in Servers
    <3>1. [server EXCEPT !.out = Append(server.out, Spontaneous("message", "channel")), !.messages = @ + 1] \in Servers BY <2>1, <2>2
    <3>2. [server EXCEPT !.out = Append(server.out, Spontaneous("ok", "monitor")), !.messages = @ + 1] \in Servers BY <2>1, <2>2
    <3>q. QED BY <3>1, <3>2, <1>14 DEF ServerSends
  <2>q. QED BY <2>3, <1>0, <1>14, <1>u DEF ServerSends
<1>15. CASE ServerCloses
  <2>1. Append(server.out, Spontaneous("malformed", "")) \in Seq(Answers)
        /\ Append(server.out, Spontaneous("error", "")) \in Seq(Answers)
    BY SpontaneousTyped DEF Topics
  <2>2. \A s \in Seq(Answers) : [server EXCEPT !.closed = TRUE, !.out = s] \in Servers BY <1>0 DEF Servers
  <2>3. [server EXCEPT !.closed = TRUE] \in Servers BY <1>0 DEF Servers
  <2>4. server' \in Servers
    <3>1. [server EXCEPT !.closed = TRUE, !.out = Append(server.out, Spontaneous("malformed", ""))] \in Servers BY <2>1, <2>2
    <3>2. [server EXCEPT !.closed = TRUE, !.out = Append(server.out, Spontaneous("error", ""))] \in Servers BY <2>1, <2>2
    <3>q. QED BY <2>3, <3>1, <3>2, <1>15 DEF ServerCloses
  <2>q. QED BY <2>4, <1>0, <1>15, <1>u DEF ServerCloses
<1>16. CASE UNCHANGED asyncVars
  <2>1. UNCHANGED <<adapter, ac, pc, return, second, server, log, issued>> BY <1>16 DEF asyncVars
  <2>q. QED BY <1>0, <2>1 DEF AsyncTypeOK
<1>q. QED BY <1>1, <1>2, <1>3, <1>4, <1>5, <1>6, <1>7, <1>8, <1>9, <1>10, <1>11, <1>12, <1>13, <1>14, <1>15, <1>16 DEF AsyncNext


(* The adapters that keep flags for what the library watches. *)
Flagged == {"ae", "libev", "qt", "libuv"}
Fits(e) == adapter \in Flagged => e.flags = e.watch

LEMMA HookKeeps ==
  ASSUME adapter \in AdapterNames, NEW e \in Registrations, Fits(e)
  PROVE  /\ \A d \in Directions :
              LET x == Hook(adapter, e, IF d = "read" THEN "addRead" ELSE "addWrite")
              IN  Fits(x) /\ x.data = e.data /\ x.watch = e.watch \cup {d}
         /\ LET x == Hook(adapter, e, "delWrite")
            IN  Fits(x) /\ x.data = e.data /\ x.watch = e.watch \ {"write"}
         /\ Hook(adapter, e, "cleanup").data = e.data
         /\ ~e.data => Hook(adapter, e, "attach").data /\ Fits(Hook(adapter, e, "attach"))
<1>1. CASE adapter \in {"ae", "libev", "qt"}
  <2>1. \A op : Hook(adapter, e, op) = IF op = "attach" THEN Attach(e, {}) ELSE FlagHook(e, op)
    BY <1>1 DEF Hook, redisAe, redisLibev, redisQt
  <2>2. e.flags = e.watch BY <1>1 DEF Fits, Flagged
  <2>3. \A d \in Directions : /\ Start(e, d) \in Registrations /\ Start(e, d).data = e.data
                              /\ Start(e, d).watch = e.watch \cup {d} /\ Start(e, d).flags = e.watch \cup {d}
                              /\ Stop(e, d) \in Registrations /\ Stop(e, d).data = e.data
                              /\ Stop(e, d).watch = e.watch \ {d} /\ Stop(e, d).flags = e.watch \ {d}
    BY <2>2 DEF Start, Stop, Watch, Unwatch, Registrations
  <2>4. \A y \in Registrations, d \in Directions : Stop(y, d).data = y.data BY DEF Stop, Unwatch, Registrations
  <2>5. /\ FlagHook(e, "addRead") = Start(e, "read") /\ FlagHook(e, "addWrite") = Start(e, "write")
        /\ FlagHook(e, "delWrite") = Stop(e, "write") /\ FlagHook(e, "cleanup") = Stop(Stop(e, "read"), "write")
    BY DEF FlagHook
  <2>6. FlagHook(e, "cleanup").data = e.data BY <2>3, <2>4, <2>5 DEF Directions
  <2>7. ~e.data => Attach(e, {}).data /\ Attach(e, {}).flags = Attach(e, {}).watch BY DEF Attach, Unattached
  <2>8. \A d \in Directions : Hook(adapter, e, IF d = "read" THEN "addRead" ELSE "addWrite") = Start(e, d)
    BY <2>1, <2>5 DEF Directions
  <2>9. Hook(adapter, e, "delWrite") = Stop(e, "write") /\ Hook(adapter, e, "cleanup") = FlagHook(e, "cleanup")
        /\ Hook(adapter, e, "attach") = Attach(e, {})
    BY <2>1, <2>5
  <2>q. QED BY <2>3, <2>6, <2>7, <2>8, <2>9 DEF Fits, Directions
<1>2. CASE adapter = "libuv"
  <2>1. e.flags = e.watch BY <1>2 DEF Fits, Flagged
  <2>2. \A op : Hook(adapter, e, op) = redisLibuv(e, op) BY <1>2 DEF Hook
  <2>3. /\ redisLibuv(e, "attach") = Attach(e, {})
        /\ redisLibuv(e, "addRead") = Poll(e, e.watch \cup {"read"})
        /\ redisLibuv(e, "addWrite") = Poll(e, e.watch \cup {"write"})
        /\ redisLibuv(e, "delWrite") = Poll(e, e.watch \ {"write"})
        /\ redisLibuv(e, "cleanup") = [e EXCEPT !.watch = {}]
    BY <2>1 DEF redisLibuv
  <2>4. \A m : Poll(e, m).data = e.data /\ Poll(e, m).watch = m /\ Poll(e, m).flags = m BY DEF Poll, Registrations
  <2>5. ~e.data => Attach(e, {}).data /\ Attach(e, {}).flags = Attach(e, {}).watch BY DEF Attach, Unattached
  <2>6. [e EXCEPT !.watch = {}].data = e.data BY DEF Registrations
  <2>7. \A d \in Directions : Hook(adapter, e, IF d = "read" THEN "addRead" ELSE "addWrite") = Poll(e, e.watch \cup {d})
    BY <2>2, <2>3 DEF Directions
  <2>8. \A m : Fits(Poll(e, m)) BY <2>4 DEF Fits
  <2>9. Hook(adapter, e, "delWrite") = Poll(e, e.watch \ {"write"}) BY <2>2, <2>3
  <2>10. Hook(adapter, e, "cleanup").data = e.data BY <2>2, <2>3, <2>6
  <2>11. ~e.data => Hook(adapter, e, "attach").data /\ Fits(Hook(adapter, e, "attach")) BY <2>2, <2>3, <2>5 DEF Fits
  <2>12. ASSUME NEW d \in Directions, NEW x, x = Hook(adapter, e, IF d = "read" THEN "addRead" ELSE "addWrite")
         PROVE  Fits(x) /\ x.data = e.data /\ x.watch = e.watch \cup {d}
    <3>1. x = Poll(e, e.watch \cup {d}) BY <2>7, <2>12
    <3>q. QED BY <3>1, <2>4, <2>8
  <2>13. ASSUME NEW x, x = Hook(adapter, e, "delWrite")
         PROVE  Fits(x) /\ x.data = e.data /\ x.watch = e.watch \ {"write"}
    <3>1. x = Poll(e, e.watch \ {"write"}) BY <2>9, <2>13
    <3>q. QED BY <3>1, <2>4, <2>8
  <2>q. QED BY <2>10, <2>11, <2>12, <2>13
<1>3. CASE adapter \in {"libevent", "glib", "ivykis", "macosx"}
  <2>1. \A op : op # "attach" => Hook(adapter, e, op) = WatchHook(e, op)
    BY <1>3 DEF Hook, redisLibevent, redisGlib, redisIvykis, redisMacOS
  <2>2. \A y \in Registrations, d \in Directions :
           /\ Watch(y, d) \in Registrations /\ Watch(y, d).data = y.data /\ Watch(y, d).watch = y.watch \cup {d}
           /\ Unwatch(y, d) \in Registrations /\ Unwatch(y, d).data = y.data /\ Unwatch(y, d).watch = y.watch \ {d}
    BY DEF Watch, Unwatch, Registrations
  <2>3. /\ WatchHook(e, "addRead") = Watch(e, "read") /\ WatchHook(e, "addWrite") = Watch(e, "write")
        /\ WatchHook(e, "delWrite") = Unwatch(e, "write") /\ WatchHook(e, "cleanup") = Unwatch(Unwatch(e, "read"), "write")
    BY DEF WatchHook
  <2>4. WatchHook(e, "cleanup").data = e.data BY <2>2, <2>3 DEF Directions
  <2>5. adapter \notin Flagged BY <1>3 DEF Flagged
  <2>6. ~e.data => Hook(adapter, e, "attach").data
    BY <1>3 DEF Hook, redisLibevent, redisGlib, redisIvykis, redisMacOS, Attach, Unattached
  <2>7. \A d \in Directions : Hook(adapter, e, IF d = "read" THEN "addRead" ELSE "addWrite") = Watch(e, d)
    BY <2>1, <2>3 DEF Directions
  <2>8. Hook(adapter, e, "delWrite") = Unwatch(e, "write") /\ Hook(adapter, e, "cleanup") = WatchHook(e, "cleanup")
    BY <2>1, <2>3
  <2>q. QED BY <2>2, <2>4, <2>5, <2>6, <2>7, <2>8 DEF Fits, Directions
<1>q. QED BY <1>1, <1>2, <1>3 DEF AdapterNames

(* What adding or removing an interest does to the context. *)
LEMMA InterestAdded ==
  ASSUME adapter \in AdapterNames, NEW c \in AsyncContexts, Fits(c.ev), NEW d \in Directions,
         NEW x, x = EL(c, IF d = "read" THEN "addRead" ELSE "addWrite")
  PROVE  /\ x \in AsyncContexts /\ Fits(x.ev) /\ x.ev.data = c.ev.data /\ x.ev.watch = c.ev.watch \cup {d}
         /\ x.life = c.life /\ x.flags = c.flags /\ x.obuf = c.obuf /\ x.onConnect = c.onConnect /\ x.late = c.late
<1>1. c.ev \in Registrations BY DEF AsyncContexts
<1>2. PICK op \in Hooks : op = IF d = "read" THEN "addRead" ELSE "addWrite" BY DEF Hooks
<1>3. PICK e \in Registrations : e = Hook(adapter, c.ev, op) BY <1>1, HookTyped
<1>4. Fits(e) /\ e.data = c.ev.data /\ e.watch = c.ev.watch \cup {d} BY <1>1, <1>2, <1>3, HookKeeps
<1>5. x = [c EXCEPT !.ev = e] BY <1>2, <1>3 DEF EL
<1>q. QED BY <1>4, <1>5 DEF AsyncContexts

LEMMA WriteAdded ==
  ASSUME adapter \in AdapterNames, NEW c \in AsyncContexts, Fits(c.ev), NEW x, x = EL(c, "addWrite")
  PROVE  /\ x \in AsyncContexts /\ Fits(x.ev) /\ x.ev.data = c.ev.data /\ x.ev.watch = c.ev.watch \cup {"write"}
         /\ x.life = c.life /\ x.flags = c.flags /\ x.obuf = c.obuf /\ x.onConnect = c.onConnect /\ x.late = c.late
<1>1. PICK d \in Directions : d = "write" BY DEF Directions
<1>2. x = EL(c, IF d = "read" THEN "addRead" ELSE "addWrite") BY <1>1
<1>3. /\ x \in AsyncContexts /\ Fits(x.ev) /\ x.ev.data = c.ev.data /\ x.ev.watch = c.ev.watch \cup {d}
      /\ x.life = c.life /\ x.flags = c.flags /\ x.obuf = c.obuf /\ x.onConnect = c.onConnect /\ x.late = c.late
  BY <1>2, InterestAdded
<1>q. QED BY <1>1, <1>3

LEMMA WriteDropped ==
  ASSUME adapter \in AdapterNames, NEW c \in AsyncContexts, Fits(c.ev), NEW x, x = EL(c, "delWrite")
  PROVE  /\ x \in AsyncContexts /\ Fits(x.ev) /\ x.ev.data = c.ev.data /\ x.ev.watch = c.ev.watch \ {"write"}
         /\ x.life = c.life /\ x.flags = c.flags /\ x.obuf = c.obuf /\ x.onConnect = c.onConnect /\ x.late = c.late
<1>1. c.ev \in Registrations BY DEF AsyncContexts
<1>2. PICK e \in Registrations : e = Hook(adapter, c.ev, "delWrite") BY <1>1, HookTyped DEF Hooks
<1>3. Fits(e) /\ e.data = c.ev.data /\ e.watch = c.ev.watch \ {"write"} BY <1>1, <1>2, HookKeeps
<1>4. x = [c EXCEPT !.ev = e] BY <1>2 DEF EL
<1>q. QED BY <1>3, <1>4 DEF AsyncContexts

-----------------------------------------------------------------------------
Going(p, r) == p \in {"idle", "process", "after"} \/ (p = "callback" /\ r # "free")
WantsWrite(c) == c.obuf # <<>> \/ (c.onConnect /\ ~Has(c, "CONNECTED"))
WantsRead(s) == s.in # <<>> \/ \E r \in ToSet(s.out) : r.of # 0

(* While the context lives and the handler in progress will leave it alive, *)
(* the library watches what the connection waits for; between an event and  *)
(* the end of its handler the interest in that event may be missing, which  *)
(* the handler asks for again.  An adapter with flags keeps them equal to   *)
(* what is watched, or the library would not be told.                       *)
Interested(c, s, p, r, more) ==
    /\ c.life = "live"
    /\ p # "disconnected" => Fits(c.ev)
    /\ p # "idle" \/ more # "none" \/ WantsWrite(c) \/ WantsRead(s) \/ c.ev.watch # {} => c.ev.data
    /\ p \in {"handleRead", "handleWrite"} => Has(c, "CONNECTED")
    /\ (c.late => adapter \notin OneShot) =>
         /\ (Going(p, r) \/ p = "handleRead") /\ WantsWrite(c) => "write" \in c.ev.watch
         /\ Going(p, r) /\ WantsRead(s) => "read" \in c.ev.watch
InterestInv ==
    /\ return \in {"idle", "after", "free"}
    /\ Interested(ac, server, pc, return, second) \/ (ac.life = "freed" /\ pc = "idle")

LEMMA InterestImplies == InterestInv => InterestKept
BY DEF InterestInv, Interested, InterestKept, Going, WantsWrite, WantsRead

(* The invariant of the next state, in the terms of this one. *)
LEMMA InterestNext ==
  ASSUME adapter' = adapter, return' \in {"idle", "after", "free"},
         Interested(ac', server', pc', return', second') \/ (ac'.life = "freed" /\ pc' = "idle")
  PROVE  InterestInv'
BY DEF InterestInv, Interested, Fits, Going, WantsWrite, WantsRead, Has

(* Steps that change neither the interest nor what the connection waits for. *)
Quiet(c, d) ==
    /\ d.ev = c.ev /\ d.late = c.late /\ d.obuf = c.obuf /\ d.onConnect = c.onConnect /\ d.life = c.life
    /\ Has(c, "CONNECTED") => Has(d, "CONNECTED")

LEMMA QuietStep ==
  ASSUME InterestInv, adapter' = adapter, server' = server, second' = second, Quiet(ac, ac'), pc # "disconnected",
         pc' \notin {"handleRead", "handleWrite"}, pc' # "idle" => pc # "idle" \/ ac.ev.data,
         ac.life = "live",
         return' \in {"idle", "after", "free"}, Going(pc', return') => Going(pc, return)
  PROVE  InterestInv'
<1>1. WantsWrite(ac') => WantsWrite(ac) BY DEF WantsWrite, Quiet
<1>2. ac'.life = ac.life /\ ac'.ev = ac.ev /\ ac'.late = ac.late BY DEF Quiet
<1>3. Has(ac, "CONNECTED") => Has(ac', "CONNECTED") BY DEF Quiet
<1>4. CASE Interested(ac, server, pc, return, second)
  <2>1. Interested(ac', server', pc', return', second') BY <1>1, <1>2, <1>3, <1>4 DEF Interested
  <2>q. QED BY <2>1, InterestNext
<1>q. QED BY <1>4 DEF InterestInv


(* What a handler needs of the context it is called on, while the library   *)
(* has not forgotten an event of a connection attempt in progress.          *)
ReadReady(c) ==
    /\ c.life = "live" /\ Fits(c.ev) /\ c.ev.data
    /\ (c.late => adapter \notin OneShot) => (WantsWrite(c) => "write" \in c.ev.watch)
    /\ ~Has(c, "CONNECTED") /\ adapter \notin OneShot /\ WantsRead(server) => "read" \in c.ev.watch
WriteReady(c) ==
    /\ c.life = "live" /\ Fits(c.ev) /\ c.ev.data
    /\ ~Has(c, "CONNECTED") /\ adapter \notin OneShot =>
         /\ WantsWrite(c) => "write" \in c.ev.watch
         /\ WantsRead(server) => "read" \in c.ev.watch

(* A context with an error is closed, whatever its interest. *)
LEMMA ClosesUnwatched ==
  ASSUME NEW c \in AsyncContexts, c.life = "live", Fits(c.ev), c.ev.data, adapter' = adapter, return \in {"idle", "after", "free"},
         __redisAsyncDisconnect([c EXCEPT !.err = 1])
  PROVE  InterestInv'
<1>1. PICK x : x = [c EXCEPT !.err = 1] OBVIOUS
<1>2. x.err # 0 /\ x.ev = c.ev /\ x.life = c.life BY <1>1 DEF AsyncContexts
<1>3. Goto(SetFlag(x, "DISCONNECTING"), "free") BY <1>1, <1>2 DEF __redisAsyncDisconnect
<1>4. SetFlag(x, "DISCONNECTING").ev = c.ev /\ SetFlag(x, "DISCONNECTING").life = c.life BY <1>1, <1>2 DEF SetFlag, AsyncContexts
<1>5. ac'.ev = c.ev /\ ac'.life = "live" /\ pc' = "free" /\ return' = return BY <1>3, <1>4 DEF Goto
<1>6. Interested(ac', server', pc', return', second') BY <1>5 DEF Interested, Going
<1>q. QED BY <1>5, <1>6, InterestNext

LEMMA ConnectInterest ==
  ASSUME NEW c \in AsyncContexts, ~Has(c, "CONNECTED"), c.life = "live", Fits(c.ev), c.ev.data,
         adapter' = adapter, return \in {"idle", "after", "free"}, server' = server,
         NEW d \in {"handleRead", "handleWrite"},
         d = "handleRead" => ReadReady(c), d = "handleWrite" => WriteReady(c),
         __redisAsyncHandleConnect(c, d)
  PROVE  InterestInv'
<1>1. CASE Goto([c EXCEPT !.late = TRUE], "idle")
  <2>1. PICK x : x = [c EXCEPT !.late = TRUE] OBVIOUS
  <2>2. /\ x.life = "live" /\ x.ev = c.ev /\ x.late /\ x.obuf = c.obuf /\ x.onConnect = c.onConnect /\ x.flags = c.flags
    BY <2>1 DEF AsyncContexts
  <2>3. ac' = x /\ pc' = "idle" /\ return' = return BY <1>1, <2>1 DEF Goto
  <2>4. WantsWrite(x) = WantsWrite(c) BY <2>2 DEF WantsWrite, Has
  <2>5. adapter \notin OneShot => (WantsWrite(c) => "write" \in c.ev.watch) /\ (WantsRead(server) => "read" \in c.ev.watch)
    BY DEF ReadReady, WriteReady
  <2>6. Interested(x, server, "idle", return, second') BY <2>2, <2>4, <2>5 DEF Interested
  <2>q. QED BY <2>3, <2>6, InterestNext
<1>2. CASE ac' = SetFlag([c EXCEPT !.err = 1], "DISCONNECTING") /\ pc' = "free" /\ UNCHANGED return
  <2>1. ac'.ev = c.ev /\ ac'.life = "live" BY <1>2 DEF SetFlag, AsyncContexts
  <2>2. Interested(ac', server', pc', return', second') BY <1>2, <2>1 DEF Interested, Going
  <2>q. QED BY <1>2, <2>2, InterestNext
<1>3. CASE ac' = SetFlag(c, "CONNECTED") /\ pc' = d /\ UNCHANGED return
  <2>1. PICK x : x = SetFlag(c, "CONNECTED") OBVIOUS
  <2>2. /\ x.life = "live" /\ x.ev = c.ev /\ x.late = c.late /\ x.obuf = c.obuf /\ x.onConnect = c.onConnect
        /\ x.flags = c.flags \cup {"CONNECTED"}
    BY <2>1 DEF SetFlag, AsyncContexts
  <2>3. Has(x, "CONNECTED") BY <2>2 DEF Has
  <2>4. WantsWrite(x) => WantsWrite(c) BY <2>2, <2>3 DEF WantsWrite
  <2>5. ~Going(d, return) BY DEF Going
  <2>6. d = "handleRead" => ((c.late => adapter \notin OneShot) => (WantsWrite(c) => "write" \in c.ev.watch)) BY DEF ReadReady
  <2>7. Interested(x, server, d, return, second') BY <2>2, <2>3, <2>4, <2>5, <2>6 DEF Interested
  <2>q. QED BY <1>3, <2>1, <2>7, InterestNext
<1>q. QED BY <1>1, <1>2, <1>3 DEF __redisAsyncHandleConnect

LEMMA ReadInterest ==
  ASSUME adapter \in AdapterNames, NEW c \in AsyncContexts, ReadReady(c), adapter' = adapter,
         return \in {"idle", "after", "free"}, redisAsyncHandleRead(c)
  PROVE  InterestInv'
<1>0. c.life = "live" /\ Fits(c.ev) /\ c.ev.data BY DEF ReadReady
<1>1. CASE ~Has(c, "CONNECTED")
  <2>1. __redisAsyncHandleConnect(c, "handleRead") /\ server' = server BY <1>1 DEF redisAsyncHandleRead
  <2>q. QED BY <1>0, <1>1, <2>1, ConnectInterest
<1>2. CASE Has(c, "CONNECTED")
  <2>1. ASSUME NEW n \in 0 .. Len(server.out),
               Goto(EL([c EXCEPT !.ibuf = @ \o SubSeq(server.out, 1, n), !.cb = 0], "addRead"), "process")
        PROVE  InterestInv'
    <3>1. PICK m : m = SubSeq(server.out, 1, n) OBVIOUS
    <3>2. PICK x : x = [c EXCEPT !.ibuf = @ \o m, !.cb = 0] OBVIOUS
    <3>3. x.life = "live" /\ x.ev = c.ev /\ x.late = c.late /\ x.obuf = c.obuf /\ x.onConnect = c.onConnect /\ x.flags = c.flags
      BY <1>0, <3>2 DEF AsyncContexts
    <3>4. PICK y : y = EL(x, "addRead") OBVIOUS
    <3>5. \E e : y = [x EXCEPT !.ev = e] /\ e = Hook(adapter, c.ev, "addRead") BY <3>3, <3>4 DEF EL
    <3>6. PICK e : y = [x EXCEPT !.ev = e] /\ e = Hook(adapter, c.ev, "addRead") BY <3>5
    <3>7. c.ev \in Registrations BY DEF AsyncContexts
    <3>8. Fits(e) /\ e.data = c.ev.data /\ e.watch = c.ev.watch \cup {"read"} BY <1>0, <3>6, <3>7, HookKeeps DEF Directions
    <3>9. y.life = "live" /\ y.ev = e /\ y.late = c.late /\ y.obuf = c.obuf /\ y.onConnect = c.onConnect /\ y.flags = c.flags
      BY <1>0, <3>2, <3>3, <3>6 DEF AsyncContexts
    <3>10. WantsWrite(y) = WantsWrite(c) BY <3>9 DEF WantsWrite, Has
    <3>11. (c.late => adapter \notin OneShot) => (WantsWrite(c) => "write" \in c.ev.watch) BY DEF ReadReady
    <3>12. Interested(y, server', "process", return, second') BY <1>0, <3>8, <3>9, <3>10, <3>11 DEF Interested
    <3>13. ac' = y /\ pc' = "process" /\ return' = return BY <2>1, <3>1, <3>2, <3>4 DEF Goto
    <3>q. QED BY <3>12, <3>13, InterestNext
  <2>2. ASSUME __redisAsyncDisconnect([c EXCEPT !.err = 1]) PROVE InterestInv' BY <2>2, <1>0, ClosesUnwatched
  <2>q. QED BY <1>2, <2>1, <2>2 DEF redisAsyncHandleRead
<1>q. QED BY <1>1, <1>2

LEMMA WriteInterest ==
  ASSUME adapter \in AdapterNames, NEW c \in AsyncContexts, WriteReady(c), adapter' = adapter,
         server \in Servers, return \in {"idle", "after", "free"}, redisAsyncHandleWrite(c)
  PROVE  InterestInv'
<1>0. c.life = "live" /\ Fits(c.ev) /\ c.ev.data BY DEF WriteReady
<1>1. CASE ~Has(c, "CONNECTED")
  <2>1. __redisAsyncHandleConnect(c, "handleWrite") /\ server' = server BY <1>1 DEF redisAsyncHandleWrite
  <2>q. QED BY <1>0, <1>1, <2>1, ConnectInterest
<1>2. CASE Has(c, "CONNECTED")
  <2>1. ASSUME NEW n \in 0 .. Len(c.obuf),
               NEW rest, rest = SubSeq(c.obuf, n + 1, Len(c.obuf)),
               NEW wrote, wrote = EL([c EXCEPT !.obuf = rest], IF rest = <<>> THEN "delWrite" ELSE "addWrite"),
               Goto(EL(wrote, "addRead"), "idle")
        PROVE  InterestInv'
    <3>1. c.obuf \in Seq(AsyncCommands) BY DEF AsyncContexts
    <3>2. rest \in Seq(AsyncCommands) BY <2>1, <3>1, CutTyped
    <3>3. PICK x : x = [c EXCEPT !.obuf = rest] OBVIOUS
    <3>4. x \in AsyncContexts /\ x.life = "live" /\ x.ev = c.ev /\ x.obuf = rest /\ x.flags = c.flags BY <1>0, <3>2, <3>3 DEF AsyncContexts
    <3>5. Fits(x.ev) BY <1>0, <3>4
    <3>6. /\ wrote \in AsyncContexts /\ Fits(wrote.ev) /\ wrote.ev.data = c.ev.data /\ wrote.life = "live"
          /\ wrote.flags = c.flags /\ wrote.obuf = rest /\ (rest # <<>> => "write" \in wrote.ev.watch)
      <4>1. CASE rest = <<>>
        <5>1. wrote = EL(x, "delWrite") BY <4>1, <2>1, <3>3
        <5>q. QED BY <4>1, <5>1, <3>4, <3>5, WriteDropped
      <4>2. CASE rest # <<>>
        <5>1. wrote = EL(x, "addWrite") BY <4>2, <2>1, <3>3
        <5>2. /\ wrote \in AsyncContexts /\ Fits(wrote.ev) /\ wrote.ev.data = x.ev.data
              /\ wrote.ev.watch = x.ev.watch \cup {"write"} /\ wrote.flags = x.flags /\ wrote.obuf = x.obuf /\ wrote.life = x.life
          BY <5>1, <3>4, <3>5, WriteAdded
        <5>q. QED BY <5>2, <3>4
      <4>q. QED BY <4>1, <4>2
    <3>7. PICK y : y = EL(wrote, "addRead") OBVIOUS
    <3>8. /\ Fits(y.ev) /\ y.ev.data = wrote.ev.data /\ y.ev.watch = wrote.ev.watch \cup {"read"}
          /\ y.flags = wrote.flags /\ y.obuf = wrote.obuf /\ y.life = wrote.life
      <4>1. y = EL(wrote, IF "read" = "read" THEN "addRead" ELSE "addWrite") BY <3>7
      <4>2. "read" \in Directions BY DEF Directions
      <4>q. QED BY <4>1, <4>2, <3>6, InterestAdded
    <3>9. WantsWrite(y) => rest # <<>> BY <1>2, <3>6, <3>8 DEF WantsWrite, Has
    <3>10. Interested(y, server', "idle", return, second') BY <1>0, <3>6, <3>8, <3>9 DEF Interested
    <3>11. ac' = y /\ pc' = "idle" /\ return' = return BY <2>1, <3>7 DEF Goto
    <3>q. QED BY <3>10, <3>11, InterestNext
  <2>2. ASSUME __redisAsyncDisconnect([c EXCEPT !.err = 1]) PROVE InterestInv' BY <2>2, <1>0, ClosesUnwatched
  <2>q. QED BY <1>2, <2>1, <2>2 DEF redisAsyncHandleWrite
<1>q. QED BY <1>1, <1>2


(* The turns of redisProcessCallbacks and of the freeing are quiet; only    *)
(* the last one of the freeing takes the interest away.                     *)
LEMMA QuietIs ==
  ASSUME NEW c \in AsyncContexts
  PROVE  /\ Quiet(c, c)
         /\ \A f \in AsyncFlags : Quiet(c, SetFlag(c, f))
         /\ Quiet(c, ClearFlag(c, "IN_CALLBACK")) /\ Quiet(c, ClearFlag(c, "SUBSCRIBED"))
         /\ Quiet(c, [c EXCEPT !.err = 1]) /\ Quiet(c, [c EXCEPT !.ibuf = Tail(@)])
         /\ \A s : Quiet(c, [c EXCEPT !.replies = s]) /\ Quiet(c, [c EXCEPT !.invalid = s])
         /\ \A s, n : Quiet(c, [c EXCEPT !.replies = s, !.cb = n]) /\ Quiet(c, [c EXCEPT !.invalid = s, !.cb = n])
         /\ \A n : Quiet(c, [c EXCEPT !.cb = n])
         /\ \A s : Quiet(c, [c EXCEPT !.channels = s]) /\ Quiet(c, [c EXCEPT !.patterns = s])
BY DEF Quiet, SetFlag, ClearFlag, Has, AsyncContexts

LEMMA QuietTwice == ASSUME NEW c, NEW d, NEW e, Quiet(c, d), Quiet(d, e) PROVE Quiet(c, e)
BY DEF Quiet

LEMMA RunQuiet ==
  ASSUME NEW c \in AsyncContexts, Quiet(ac, c), NEW cb, NEW reply, NEW back \in {"after", "free"},
         __redisRunCallback(c, cb, reply, back)
  PROVE  Quiet(ac, ac') /\ ((pc' = back /\ return' = return) \/ (pc' = "callback" /\ return' = back))
<1>1. Quiet(c, SetFlag(c, "IN_CALLBACK")) BY QuietIs DEF AsyncFlags
<1>2. Quiet(ac, SetFlag(c, "IN_CALLBACK")) BY <1>1, QuietTwice
<1>q. QED BY <1>2 DEF __redisRunCallback

LEMMA DisconnectQuiet ==
  ASSUME NEW c \in AsyncContexts, Quiet(ac, c), __redisAsyncDisconnect(c)
  PROVE  Quiet(ac, ac') /\ pc' \in {"free", "aborted"} /\ return' = return
<1>1. Quiet(c, SetFlag(c, "DISCONNECTING")) BY QuietIs DEF AsyncFlags
<1>2. Quiet(ac, SetFlag(c, "DISCONNECTING")) BY <1>1, QuietTwice
<1>q. QED BY <1>2 DEF __redisAsyncDisconnect, Goto

LEMMA SubscribeQuiet ==
  ASSUME NEW c \in AsyncContexts, NEW reply \in Answers, adapter \in AdapterNames
  PROVE  Quiet(c, __redisGetSubscribeCallback(c, reply))
<1> DEFINE dict == IF reply.kind \in {"psubscribe", "punsubscribe"} THEN c.patterns ELSE c.channels
           entry == {d \in dict : d.name = reply.name}
           last == entry # {} /\ reply.kind \in Unsubscribing
           kept == CASE last /\ reply.kind = "unsubscribe" -> [c EXCEPT !.channels = @ \ entry]
                     [] last /\ reply.kind = "punsubscribe" -> [c EXCEPT !.patterns = @ \ entry]
                     [] OTHER -> c
           found == IF entry = {} THEN kept ELSE [kept EXCEPT !.cb = (CHOOSE d \in entry : TRUE).cb]
<1>1. c.channels \in SUBSET Subscriptions /\ c.patterns \in SUBSET Subscriptions BY DEF AsyncContexts
<1>2. entry \in SUBSET Subscriptions BY <1>1
<1>3. kept \in AsyncContexts
  <2>1. \A E : [c EXCEPT !.channels = @ \ E] \in AsyncContexts /\ [c EXCEPT !.patterns = @ \ E] \in AsyncContexts
    BY DEF AsyncContexts
  <2>q. QED BY <2>1
<1>4. Quiet(c, kept)
  <2>1. \A E : Quiet(c, [c EXCEPT !.channels = c.channels \ E]) /\ Quiet(c, [c EXCEPT !.patterns = c.patterns \ E]) BY QuietIs
  <2>2. Quiet(c, c) BY QuietIs
  <2>q. QED BY <2>1, <2>2
<1>5. Quiet(kept, found) /\ found \in AsyncContexts
  <2>1. Quiet(kept, kept) /\ \A n : Quiet(kept, [kept EXCEPT !.cb = n]) BY <1>3, QuietIs
  <2>2. entry # {} => (CHOOSE d \in entry : TRUE).cb \in Nat BY <1>2 DEF Subscriptions
  <2>3. \A x \in AsyncContexts, k \in Nat : [x EXCEPT !.cb = k] \in AsyncContexts BY DEF AsyncContexts
  <2> HIDE DEF kept, entry
  <2>q. QED BY <2>1, <2>2, <2>3, <1>3
<1>6. Quiet(c, found) BY <1>4, <1>5, QuietTwice
<1>7. Quiet(found, ClearFlag(found, "SUBSCRIBED")) BY <1>5, QuietIs
<1>8. Quiet(c, ClearFlag(found, "SUBSCRIBED")) BY <1>6, <1>7, QuietTwice
<1>9. Quiet(c, c) /\ Quiet(c, [c EXCEPT !.invalid = Tail(c.invalid), !.cb = Head(c.invalid)]) BY QuietIs
<1>10. __redisGetSubscribeCallback(c, reply) =
        IF reply.kind = "ok"
        THEN IF CanShift(c.invalid) THEN [c EXCEPT !.invalid = Tail(@), !.cb = Head(c.invalid)] ELSE c
        ELSE IF last /\ reply.count = 0 THEN ClearFlag(found, "SUBSCRIBED") ELSE found
  BY DEF __redisGetSubscribeCallback
<1> HIDE DEF last, found
<1>q. QED BY <1>6, <1>8, <1>9, <1>10

Stepped == Quiet(ac, ac') /\ (\/ pc' \in {"idle", "after", "free", "aborted"} /\ return' = return
                              \/ pc' = "callback" /\ return' = "after")

LEMMA TurnQuiet ==
  ASSUME AsyncTypeOK, redisProcessCallbacks
  PROVE  Stepped
<1> DEFINE reply == Head(ac.ibuf)
           taken == [ac EXCEPT !.ibuf = Tail(@)]
           shifted == [taken EXCEPT !.replies = Tail(@), !.cb = Head(ac.replies)]
           subscribed == IF Has(ac, "SUBSCRIBED") THEN __redisGetSubscribeCallback(taken, reply) ELSE taken
<1>1. adapter \in AdapterNames /\ ac \in AsyncContexts BY DEF AsyncTypeOK
<1>2. ASSUME NEW c \in AsyncContexts, Quiet(ac, c), __redisAsyncDisconnect(c) PROVE Stepped
  BY <1>2, DisconnectQuiet DEF Stepped
<1>3. ASSUME NEW c \in AsyncContexts, Quiet(ac, c), NEW cb, NEW r, __redisRunCallback(c, cb, r, "after") PROVE Stepped
  BY <1>3, RunQuiet DEF Stepped
<1>4. ASSUME NEW c, Quiet(ac, c), Goto(c, "idle") \/ Goto(c, "aborted") PROVE Stepped
  BY <1>4 DEF Stepped, Goto
<1>5. Quiet(ac, ac) BY <1>1, QuietIs
<1>6. CASE ac.ibuf = <<>>
  <2>1. Quiet(ac, [ac EXCEPT !.replies = __redisPushCallback(ac.replies, ac.cb)]) BY <1>1, QuietIs
  <2>2. __redisAsyncDisconnect(ac) => Stepped BY <1>1, <1>2, <1>5
  <2>3. Goto(ac, "idle") => Stepped BY <1>4, <1>5
  <2>4. Goto([ac EXCEPT !.replies = __redisPushCallback(@, ac.cb)], "idle") => Stepped BY <1>4, <2>1
  <2>q. QED BY <1>6, <2>2, <2>3, <2>4 DEF redisProcessCallbacks
<1>7. CASE ac.ibuf # <<>>
  <2>1. taken \in AsyncContexts /\ reply \in Answers BY <1>1, <1>7, QueueTyped
  <2>2. Quiet(ac, taken) BY <1>1, QuietIs
  <2>3. [taken EXCEPT !.err = 1] \in AsyncContexts BY <1>1, <2>1, ContextTyped
  <2>4. Quiet(taken, [taken EXCEPT !.err = 1]) BY <2>1, QuietIs
  <2>5. Quiet(ac, [taken EXCEPT !.err = 1]) BY <2>2, <2>4, QuietTwice
  <2>6. subscribed \in AsyncContexts BY <1>1, <2>1, SubscribeTyped
  <2>7. Quiet(ac, subscribed)
    <3>1. Quiet(taken, __redisGetSubscribeCallback(taken, reply)) BY <1>1, <2>1, SubscribeQuiet
    <3>2. Quiet(ac, __redisGetSubscribeCallback(taken, reply)) BY <2>2, <3>1, QuietTwice
    <3>q. QED BY <2>2, <3>2
  <2>8. CanShift(ac.replies) => shifted \in AsyncContexts
    <3>1. taken.replies = ac.replies BY <1>1 DEF AsyncContexts
    <3>2. CanShift(ac.replies) => [taken EXCEPT !.replies = Tail(@), !.cb = Head(taken.replies)] \in AsyncContexts
      BY <2>1, <3>1, QueueTyped
    <3>q. QED BY <3>1, <3>2
  <2>9. Quiet(ac, shifted)
    <3>1. Quiet(taken, [taken EXCEPT !.replies = Tail(taken.replies), !.cb = Head(ac.replies)]) BY <2>1, QuietIs
    <3>q. QED BY <3>1, <2>2, QuietTwice
  <2> HIDE DEF shifted, subscribed, taken, reply
  <2>10. __redisAsyncDisconnect([taken EXCEPT !.err = 1]) => Stepped BY <2>3, <2>5, <1>2
  <2>11. CanShift(ac.replies) /\ __redisRunCallback(shifted, shifted.cb, reply, "after") => Stepped BY <2>8, <2>9, <1>3
  <2>12. __redisRunCallback(subscribed, subscribed.cb, reply, "after") => Stepped BY <2>6, <2>7, <1>3
  <2>13. Goto(taken, "aborted") => Stepped BY <2>2, <1>4
  <2>q. QED BY <1>7, <2>10, <2>11, <2>12, <2>13 DEF redisProcessCallbacks, reply, taken, shifted, subscribed
<1>q. QED BY <1>6, <1>7

LEMMA FreeQuiet ==
  ASSUME AsyncTypeOK, __redisAsyncFree
  PROVE  \/ Quiet(ac, ac') /\ ((pc' = "free" /\ return' = return) \/ (pc' = "callback" /\ return' = "free"))
         \/ Goto(EL(ac, "cleanup"), "disconnected")
<1> DEFINE Goal == Quiet(ac, ac') /\ ((pc' = "free" /\ return' = return) \/ (pc' = "callback" /\ return' = "free"))
<1>1. ac \in AsyncContexts BY DEF AsyncTypeOK
<1>2. ASSUME NEW c \in AsyncContexts, Quiet(ac, c), NEW cb, __redisRunCallback(c, cb, NULL, "free") PROVE Goal
  BY <1>2, RunQuiet
<1>3. CanShift(ac.replies) => [ac EXCEPT !.replies = Tail(@)] \in AsyncContexts BY <1>1, QueueTyped
<1>4. CanShift(ac.invalid) => [ac EXCEPT !.invalid = Tail(@)] \in AsyncContexts BY <1>1, QueueTyped
<1>5. \A E : [ac EXCEPT !.channels = @ \ E] \in AsyncContexts /\ [ac EXCEPT !.patterns = @ \ E] \in AsyncContexts
  BY <1>1 DEF AsyncContexts
<1>6. Quiet(ac, [ac EXCEPT !.replies = Tail(ac.replies)]) /\ Quiet(ac, [ac EXCEPT !.invalid = Tail(ac.invalid)])
      /\ \A E : Quiet(ac, [ac EXCEPT !.channels = ac.channels \ E]) /\ Quiet(ac, [ac EXCEPT !.patterns = ac.patterns \ E])
  BY <1>1, QuietIs
<1>7. CanShift(ac.replies) /\ __redisRunCallback([ac EXCEPT !.replies = Tail(@)], Head(ac.replies), NULL, "free") => Goal
  BY <1>2, <1>3, <1>6
<1>8. CanShift(ac.invalid) /\ __redisRunCallback([ac EXCEPT !.invalid = Tail(@)], Head(ac.invalid), NULL, "free") => Goal
  BY <1>2, <1>4, <1>6
<1>9. ASSUME NEW d, __redisRunCallback([ac EXCEPT !.channels = @ \ {d}], d.cb, NULL, "free") PROVE Goal
  BY <1>2, <1>5, <1>6, <1>9
<1>10. ASSUME NEW d, __redisRunCallback([ac EXCEPT !.patterns = @ \ {d}], d.cb, NULL, "free") PROVE Goal
  BY <1>2, <1>5, <1>6, <1>10
<1> HIDE DEF Goal
<1>11. Goal \/ Goto(EL(ac, "cleanup"), "disconnected") BY <1>7, <1>8, <1>9, <1>10 DEF __redisAsyncFree
<1>q. QED BY <1>11 DEF Goal


(* The user's calls, in a callback or outside. *)
LEMMA UserInterest ==
  ASSUME AsyncTypeOK, InterestInv, UserMayAct, adapter' = adapter, server' = server, second' = second,
         redisAsyncDisconnect(ac) \/ redisAsyncFree(ac)
  PROVE  InterestInv'
<1>1. ac \in AsyncContexts BY DEF AsyncTypeOK
<1>2. pc # "disconnected" /\ pc \notin {"handleRead", "handleWrite"} /\ (pc # "idle" \/ ac.ev.data) BY DEF UserMayAct
<1>3. return \in {"idle", "after", "free"} /\ ac.life = "live" BY DEF InterestInv, Interested, UserMayAct
<1>4. Quiet(ac, ac') /\ return' = return /\ (pc' = pc \/ pc' \in {"free", "aborted"})
  <2>1. PICK x : x = SetFlag(ac, "DISCONNECTING") OBVIOUS
  <2>2. x \in AsyncContexts /\ Quiet(ac, x) BY <1>1, <2>1, FlagTyped, QuietIs DEF AsyncFlags
  <2>3. Quiet(ac, SetFlag(ac, "FREEING")) BY <1>1, QuietIs DEF AsyncFlags
  <2>4. redisAsyncFree(ac) => Quiet(ac, ac') /\ return' = return /\ (pc' = pc \/ pc' \in {"free", "aborted"})
    BY <2>3 DEF redisAsyncFree, Goto
  <2>5. __redisAsyncDisconnect(x) => Quiet(ac, ac') /\ return' = return /\ pc' \in {"free", "aborted"}
    BY <2>2, DisconnectQuiet
  <2>6. Goto(x, pc) => Quiet(ac, ac') /\ return' = return /\ pc' = pc BY <2>2 DEF Goto
  <2>q. QED BY <2>1, <2>4, <2>5, <2>6 DEF redisAsyncDisconnect
<1>5. Going(pc', return') => Going(pc, return) BY <1>4 DEF Going
<1>q. QED BY <1>2, <1>3, <1>4, <1>5, QuietStep

LEMMA AddWriteInterest ==
  ASSUME AsyncTypeOK, InterestInv, ac.life = "live", ac.ev.data, pc = "idle" \/ pc = "callback",
         UNCHANGED <<adapter, pc, return, second, server>>,
         NEW c \in AsyncContexts, c.life = "live", c.ev = ac.ev, c.late = ac.late, Has(ac, "CONNECTED") => Has(c, "CONNECTED"),
         ac' = EL(c, "addWrite")
  PROVE  InterestInv'
<1>1. adapter \in AdapterNames /\ "write" \in Directions BY DEF AsyncTypeOK, Directions
<1>2. Interested(ac, server, pc, return, second) /\ return \in {"idle", "after", "free"} BY DEF InterestInv
<1>3. Fits(c.ev) BY <1>2 DEF Interested
<1>4. PICK y : y = EL(c, "addWrite") OBVIOUS
<1>5. Fits(y.ev) /\ y.ev.data = c.ev.data /\ y.ev.watch = c.ev.watch \cup {"write"} /\ y.late = c.late /\ y.life = c.life
  BY <1>1, <1>3, <1>4, WriteAdded
<1>6. Interested(y, server, pc, return, second) BY <1>2, <1>5 DEF Interested
<1>7. ac' = y BY <1>4
<1>q. QED BY <1>2, <1>6, <1>7, InterestNext

LEMMA CommandInterest ==
  ASSUME AsyncTypeOK, InterestInv, NEW kind \in CommandKinds[adapter], Command(kind)
  PROVE  InterestInv'
<1>1. ac \in AsyncContexts /\ adapter \in AdapterNames BY DEF AsyncTypeOK
<1>2. PICK n : n = Len(issued.commands) + 1 OBVIOUS
<1>3. PICK cmd : cmd = [kind |-> kind, cb |-> IF kind \in Unsubscribing THEN 0 ELSE n, n |-> n,
                        name |-> IF kind \in {"psubscribe", "punsubscribe"} THEN "pattern" ELSE "channel"]
  OBVIOUS
<1>4. cmd \in AsyncCommands BY <1>2, <1>3, CommandTyped
<1>5. UserMayAct /\ ac' = __redisAsyncCommand(ac, cmd) /\ UNCHANGED <<adapter, pc, return, second, server, log>>
  BY <1>2, <1>3 DEF Command
<1>6. Quiet(ac, Registered(ac, cmd)) /\ Registered(ac, cmd) \in AsyncContexts
  <2>1. [name |-> cmd.name, cb |-> cmd.cb] \in Subscriptions /\ cmd.cb \in Nat BY <1>4 DEF AsyncCommands, Subscriptions
  <2>2. \A D \in SUBSET Subscriptions : Replaced(D, cmd) \in SUBSET Subscriptions BY <2>1 DEF Replaced
  <2>3. ac.channels \in SUBSET Subscriptions /\ ac.patterns \in SUBSET Subscriptions BY <1>1 DEF AsyncContexts
  <2>4. \A D \in SUBSET Subscriptions : [ac EXCEPT !.channels = D] \in AsyncContexts /\ [ac EXCEPT !.patterns = D] \in AsyncContexts
    BY <1>1 DEF AsyncContexts
  <2>5. [ac EXCEPT !.replies = __redisPushCallback(@, cmd.cb)] \in AsyncContexts
        /\ [ac EXCEPT !.invalid = __redisPushCallback(@, cmd.cb)] \in AsyncContexts
    BY <1>1, <2>1, QueueTyped
  <2>6. /\ Quiet(ac, ac)
        /\ \A s : Quiet(ac, [ac EXCEPT !.replies = s]) /\ Quiet(ac, [ac EXCEPT !.invalid = s])
        /\ \A s : Quiet(ac, [ac EXCEPT !.channels = s]) /\ Quiet(ac, [ac EXCEPT !.patterns = s])
    BY <1>1, QuietIs
  <2>7. ASSUME NEW x \in AsyncContexts, Quiet(ac, x), NEW f \in AsyncFlags
        PROVE  Quiet(ac, SetFlag(x, f)) /\ SetFlag(x, f) \in AsyncContexts
    <3>1. Quiet(x, SetFlag(x, f)) BY QuietIs
    <3>2. Quiet(ac, SetFlag(x, f)) BY <2>7, <3>1, QuietTwice
    <3>3. SetFlag(x, f) \in AsyncContexts BY FlagTyped
    <3>q. QED BY <3>2, <3>3
  <2>8. "SUBSCRIBED" \in AsyncFlags /\ "MONITORING" \in AsyncFlags BY DEF AsyncFlags
  <2>9. PICK ch : ch = [ac EXCEPT !.channels = Replaced(@, cmd)] OBVIOUS
  <2>10. PICK pa : pa = [ac EXCEPT !.patterns = Replaced(@, cmd)] OBVIOUS
  <2>11. PICK re : re = [ac EXCEPT !.replies = __redisPushCallback(@, cmd.cb)] OBVIOUS
  <2>12. PICK iv : iv = [ac EXCEPT !.invalid = __redisPushCallback(@, cmd.cb)] OBVIOUS
  <2>13. ch \in AsyncContexts /\ Quiet(ac, ch) BY <2>2, <2>3, <2>4, <2>6, <2>9
  <2>14. pa \in AsyncContexts /\ Quiet(ac, pa) BY <2>2, <2>3, <2>4, <2>6, <2>10
  <2>15. re \in AsyncContexts /\ Quiet(ac, re) BY <2>5, <2>6, <2>11
  <2>16. iv \in AsyncContexts /\ Quiet(ac, iv) BY <2>5, <2>6, <2>12
  <2>17. Registered(ac, cmd) \in {ac, re, iv, SetFlag(ch, "SUBSCRIBED"), SetFlag(pa, "SUBSCRIBED"), SetFlag(re, "MONITORING")}
    BY <2>9, <2>10, <2>11, <2>12 DEF Registered
  <2>q. QED BY <2>17, <2>13, <2>14, <2>15, <2>16, <2>7, <2>8, <2>6, <1>1
<1>7. PICK r \in AsyncContexts : r = Registered(ac, cmd) BY <1>6
<1>8. PICK c : c = [r EXCEPT !.obuf = Append(@, cmd)] OBVIOUS
<1>9. c \in AsyncContexts /\ c.life = r.life /\ c.ev = r.ev /\ c.late = r.late /\ c.flags = r.flags
  <2>1. Append(r.obuf, cmd) \in Seq(AsyncCommands) BY <1>4 DEF AsyncContexts
  <2>q. QED BY <1>8, <2>1 DEF AsyncContexts
<1>10. c.life = ac.life /\ c.ev = ac.ev /\ c.late = ac.late /\ (Has(ac, "CONNECTED") => Has(c, "CONNECTED")) BY <1>6, <1>7, <1>9 DEF Quiet, Has
<1>11. ac' = EL(c, "addWrite") BY <1>5, <1>7, <1>8 DEF __redisAsyncCommand
<1>12. (pc = "idle" \/ pc = "callback") /\ (pc = "idle" => ac.life = "live" /\ ac.ev.data) BY <1>5 DEF UserMayAct
<1>13. ac.life = "live" /\ ac.ev.data BY <1>12 DEF InterestInv, Interested
<1>q. QED BY <1>5, <1>9, <1>10, <1>11, <1>12, <1>13, AddWriteInterest


LEMMA EventInterest ==
  ASSUME AsyncTypeOK, InterestInv, Event
  PROVE  InterestInv'
<1>0. adapter \in AdapterNames /\ ac \in AsyncContexts /\ server \in Servers BY DEF AsyncTypeOK
<1>1. pc = "idle" /\ ac.life = "live" /\ adapter' = adapter BY DEF Event
<1>2. PICK d \in ac.ev.watch : Handle([ac EXCEPT !.ev = Fired(adapter, @, d)], d) BY DEF Event
<1>3. d \in Directions /\ ac.ev \in Registrations BY <1>0 DEF AsyncContexts, Registrations
<1>4. PICK c : c = [ac EXCEPT !.ev = Fired(adapter, @, d)] OBVIOUS
<1>5. c \in AsyncContexts BY <1>0, <1>3, <1>4, ContextTyped
<1>6. /\ c.life = ac.life /\ c.late = ac.late /\ c.obuf = ac.obuf /\ c.onConnect = ac.onConnect /\ c.flags = ac.flags
      /\ c.ev = Fired(adapter, ac.ev, d)
  BY <1>0, <1>4 DEF AsyncContexts
<1>7. WantsWrite(c) = WantsWrite(ac) BY <1>6 DEF WantsWrite, Has
<1>8. Interested(ac, server, pc, return, second) /\ return \in {"idle", "after", "free"} BY <1>1 DEF InterestInv
<1>9. Fits(ac.ev) /\ ac.ev.data BY <1>1, <1>2, <1>8 DEF Interested
<1>10. (ac.late => adapter \notin OneShot) => (WantsWrite(ac) => "write" \in ac.ev.watch) /\ (WantsRead(server) => "read" \in ac.ev.watch)
  BY <1>1, <1>8 DEF Interested, Going
<1>11. c.ev.data /\ Fits(c.ev)
  <2>1. CASE adapter \in Flagged
    <3>1. c.ev = ac.ev BY <2>1, <1>6 DEF Fired, Flagged
    <3>q. QED BY <3>1, <1>9
  <2>2. CASE adapter \notin Flagged
    <3>1. c.ev.data = ac.ev.data BY <1>3, <1>6 DEF Fired, Unwatch, Registrations
    <3>q. QED BY <3>1, <2>2, <1>9 DEF Fits
  <2>q. QED BY <2>1, <2>2
<1>12. adapter \notin OneShot => c.ev = ac.ev BY <1>6 DEF Fired, OneShot
<1>13. d = "read" => ("write" \in ac.ev.watch => "write" \in c.ev.watch) BY <1>3, <1>6 DEF Fired, Unwatch, Registrations
<1>14. CASE d = "read"
  <2>1. ReadReady(c) BY <1>1, <1>6, <1>7, <1>10, <1>11, <1>12, <1>13, <1>14 DEF ReadReady
  <2>2. redisAsyncHandleRead(c) BY <1>2, <1>4, <1>14 DEF Handle
  <2>q. QED BY <2>1, <2>2, <1>0, <1>1, <1>5, <1>8, ReadInterest
<1>15. CASE d = "write"
  <2>1. WriteReady(c) BY <1>1, <1>6, <1>7, <1>10, <1>11, <1>12 DEF WriteReady
  <2>2. redisAsyncHandleWrite(c) BY <1>2, <1>4, <1>15 DEF Handle
  <2>q. QED BY <2>1, <2>2, <1>0, <1>1, <1>5, <1>8, WriteInterest
<1>q. QED BY <1>3, <1>14, <1>15 DEF Directions

LEMMA SecondInterest ==
  ASSUME AsyncTypeOK, InterestInv, SecondEvent
  PROVE  InterestInv'
<1>0. adapter \in AdapterNames /\ ac \in AsyncContexts /\ server \in Servers BY DEF AsyncTypeOK
<1>1. pc = "idle" /\ second # "none" /\ adapter' = adapter BY DEF SecondEvent
<1>2. return \in {"idle", "after", "free"} BY DEF InterestInv
<1>3. CASE ac.life = "live"
  <2>1. Interested(ac, server, pc, return, second) BY <1>3 DEF InterestInv
  <2>2. Fits(ac.ev) /\ ac.ev.data BY <1>1, <2>1 DEF Interested
  <2>3. (ac.late => adapter \notin OneShot) => (WantsWrite(ac) => "write" \in ac.ev.watch) /\ (WantsRead(server) => "read" \in ac.ev.watch)
    BY <1>1, <2>1 DEF Interested, Going
  <2>4. ReadReady(ac) BY <1>3, <2>2, <2>3 DEF ReadReady
  <2>5. WriteReady(ac) BY <1>3, <2>2, <2>3 DEF WriteReady
  <2>6. redisAsyncHandleRead(ac) \/ redisAsyncHandleWrite(ac) BY <1>3 DEF SecondEvent, Handle
  <2>7. redisAsyncHandleRead(ac) => InterestInv' BY <1>0, <1>1, <1>2, <2>4, ReadInterest
  <2>8. redisAsyncHandleWrite(ac) => InterestInv' BY <1>0, <1>1, <1>2, <2>5, WriteInterest
  <2>q. QED BY <2>6, <2>7, <2>8
<1>4. CASE ac.life # "live"
  <2>1. ac' = ac /\ pc' = pc /\ return' = return /\ ac.life = "freed" BY <1>0, <1>4 DEF SecondEvent, AsyncContexts
  <2>q. QED BY <1>1, <1>2, <1>4, <2>1, InterestNext
<1>q. QED BY <1>3, <1>4

LEMMA ConnectedInterest ==
  ASSUME AsyncTypeOK, InterestInv, HandleConnected
  PROVE  InterestInv'
<1>0. adapter \in AdapterNames /\ ac \in AsyncContexts /\ server \in Servers BY DEF AsyncTypeOK
<1>1. Interested(ac, server, pc, return, second) /\ return \in {"idle", "after", "free"} BY DEF InterestInv, HandleConnected
<1>2. pc \in {"handleRead", "handleWrite"} /\ adapter' = adapter BY DEF HandleConnected
<1>3. ac.life = "live" /\ Fits(ac.ev) /\ ac.ev.data /\ Has(ac, "CONNECTED") BY <1>1, <1>2 DEF Interested
<1>4. CASE pc = "handleRead"
  <2>1. ReadReady(ac) BY <1>1, <1>3, <1>4 DEF ReadReady, Interested
  <2>2. redisAsyncHandleRead(ac) BY <1>4 DEF HandleConnected
  <2>q. QED BY <2>1, <2>2, <1>0, <1>1, <1>2, ReadInterest
<1>5. CASE pc = "handleWrite"
  <2>1. WriteReady(ac) BY <1>3 DEF WriteReady
  <2>2. redisAsyncHandleWrite(ac) BY <1>5 DEF HandleConnected
  <2>q. QED BY <2>1, <2>2, <1>0, <1>1, <1>2, WriteInterest
<1>q. QED BY <1>2, <1>4, <1>5

LEMMA TurnInterest ==
  ASSUME AsyncTypeOK, InterestInv, ProcessReplies
  PROVE  InterestInv'
<1>0. adapter \in AdapterNames /\ ac \in AsyncContexts /\ server \in Servers BY DEF AsyncTypeOK
<1>1. /\ Interested(ac, server, pc, return, second) /\ return \in {"idle", "after", "free"}
      /\ ac.life = "live"
  BY DEF InterestInv, ProcessReplies, Interested
<1>2. pc \in {"process", "after", "free"} /\ adapter' = adapter /\ server' = server /\ second' = second BY DEF ProcessReplies
<1>3. CASE pc = "process"
  <2>1. Stepped BY <1>3, TurnQuiet DEF ProcessReplies
  <2>2. Quiet(ac, ac') /\ pc' \notin {"handleRead", "handleWrite"} /\ return' \in {"idle", "after", "free"}
    BY <1>1, <2>1 DEF Stepped
  <2>3. Going(pc, return) BY <1>3 DEF Going
  <2>q. QED BY <2>2, <2>3, <1>1, <1>2, <1>3, QuietStep
<1>4. CASE pc = "after"
  <2>1. AfterCallback BY <1>4 DEF ProcessReplies
  <2>2. ac' = ac /\ pc' \in {"free", "process"} /\ return' = return BY <2>1 DEF AfterCallback, Goto
  <2>3. Quiet(ac, ac') BY <2>2, <1>0, QuietIs
  <2>4. Going(pc, return) BY <1>4 DEF Going
  <2>q. QED BY <2>2, <2>3, <2>4, <1>1, <1>2, <1>4, QuietStep
<1>5. CASE pc = "free"
  <2>1. __redisAsyncFree BY <1>5 DEF ProcessReplies
  <2>2. CASE Quiet(ac, ac') /\ ((pc' = "free" /\ return' = return) \/ (pc' = "callback" /\ return' = "free"))
    <3>1. ~Going(pc', return') BY <2>2 DEF Going
    <3>q. QED BY <2>2, <3>1, <1>1, <1>2, <1>5, QuietStep
  <2>3. CASE Goto(EL(ac, "cleanup"), "disconnected")
    <3>1. PICK e : e = Hook(adapter, ac.ev, "cleanup") OBVIOUS
    <3>2. ac.ev \in Registrations /\ Fits(ac.ev) /\ ac.ev.data BY <1>0, <1>1, <1>5 DEF AsyncContexts, Interested
    <3>3. e.data BY <1>0, <3>1, <3>2, HookKeeps
    <3>4. ac' = [ac EXCEPT !.ev = e] /\ pc' = "disconnected" /\ return' = return BY <2>3, <3>1 DEF Goto, EL
    <3>5. ac'.ev = e /\ ac'.life = ac.life BY <3>4, <1>0 DEF AsyncContexts
    <3>6. Interested(ac', server', pc', return', second') BY <1>1, <3>3, <3>4, <3>5 DEF Interested, Going
    <3>q. QED BY <3>4, <3>6, <1>1, <1>2, InterestNext
  <2>q. QED BY <2>1, <2>2, <2>3, FreeQuiet
<1>q. QED BY <1>2, <1>3, <1>4, <1>5

(* The server takes a command from one stream and gives its answer to the other. *)
LEMMA ServerInterest ==
  ASSUME AsyncTypeOK, InterestInv, ServerAnswers \/ ServerSends \/ ServerCloses
  PROVE  InterestInv'
<1>0. server \in Servers /\ server.in \in Seq(AsyncCommands) /\ server.out \in Seq(Answers) BY DEF AsyncTypeOK, Servers
<1>1. UNCHANGED <<adapter, ac, pc, return, second>> BY DEF ServerAnswers, ServerSends, ServerCloses
<1>2. WantsRead(server') => WantsRead(server)
  <2>1. CASE ServerAnswers BY <2>1 DEF ServerAnswers, WantsRead
  <2>2. ASSUME NEW kind, NEW name, server'.in = server.in,
               server'.out = server.out \/ server'.out = Append(server.out, Spontaneous(kind, name))
        PROVE  WantsRead(server') => WantsRead(server)
    <3>1. PICK x : x = Spontaneous(kind, name) OBVIOUS
    <3>2. x.of = 0 BY <3>1 DEF Spontaneous
    <3>3. \A r \in ToSet(Append(server.out, x)) : r = x \/ r \in ToSet(server.out) BY <1>0 DEF ToSet
    <3>4. \A r \in ToSet(server'.out) : r.of # 0 => r \in ToSet(server.out) BY <2>2, <3>1, <3>2, <3>3
    <3>q. QED BY <2>2, <3>4 DEF WantsRead
  <2>3. \A s, n : LET t == [server EXCEPT !.out = s, !.messages = n] IN t.in = server.in /\ t.out = s
    BY <1>0 DEF Servers
  <2>4. CASE ServerSends
    <3>1. \/ server' = [server EXCEPT !.out = Append(server.out, Spontaneous("message", "channel")), !.messages = server.messages + 1]
          \/ server' = [server EXCEPT !.out = Append(server.out, Spontaneous("ok", "monitor")), !.messages = server.messages + 1]
      BY <2>4 DEF ServerSends
    <3>2. server'.in = server.in /\ (\/ server'.out = Append(server.out, Spontaneous("message", "channel"))
                                     \/ server'.out = Append(server.out, Spontaneous("ok", "monitor")))
      <4>1. PICK s, n : /\ server' = [server EXCEPT !.out = s, !.messages = n]
                        /\ \/ s = Append(server.out, Spontaneous("message", "channel"))
                           \/ s = Append(server.out, Spontaneous("ok", "monitor"))
        BY <3>1
      <4>q. QED BY <4>1, <2>3
    <3>q. QED BY <3>2, <2>2
  <2>5. CASE ServerCloses
    <3>1. \/ server' = [server EXCEPT !.closed = TRUE]
          \/ server' = [server EXCEPT !.closed = TRUE, !.out = Append(server.out, Spontaneous("malformed", ""))]
          \/ server' = [server EXCEPT !.closed = TRUE, !.out = Append(server.out, Spontaneous("error", ""))]
      BY <2>5 DEF ServerCloses
    <3>2. /\ [server EXCEPT !.closed = TRUE].in = server.in /\ [server EXCEPT !.closed = TRUE].out = server.out
          /\ \A s : /\ [server EXCEPT !.closed = TRUE, !.out = s].in = server.in
                    /\ [server EXCEPT !.closed = TRUE, !.out = s].out = s
      BY <1>0 DEF Servers
    <3>3. server'.in = server.in /\ (\/ server'.out = server.out
                                     \/ server'.out = Append(server.out, Spontaneous("malformed", ""))
                                     \/ server'.out = Append(server.out, Spontaneous("error", "")))
      BY <3>1, <3>2
    <3>q. QED BY <3>3, <2>2
  <2>q. QED BY <2>1, <2>4, <2>5
<1>3. return \in {"idle", "after", "free"} BY DEF InterestInv
<1>4. Interested(ac, server, pc, return, second) => Interested(ac, server', pc, return, second) BY <1>2 DEF Interested
<1>5. Interested(ac, server, pc, return, second) \/ (ac.life = "freed" /\ pc = "idle") BY DEF InterestInv
<1>q. QED BY <1>1, <1>3, <1>4, <1>5, InterestNext

LEMMA InterestStep ==
  ASSUME AsyncTypeOK, InterestInv, [AsyncNext]_asyncVars
  PROVE  InterestInv'
<1>0. /\ adapter \in AdapterNames /\ ac \in AsyncContexts /\ ac.ev \in Registrations
      /\ return \in {"idle", "after", "free"}
  BY DEF AsyncTypeOK, AsyncContexts, InterestInv
<1>i. Interested(ac, server, pc, return, second) \/ (ac.life = "freed" /\ pc = "idle") BY DEF InterestInv
<1>1. CASE redisAsyncAttach
  <2>1. PICK e : e = Hook(adapter, ac.ev, "attach") OBVIOUS
  <2>2. pc = "idle" /\ ac.life = "live" /\ ~ac.ev.data /\ ac' = [ac EXCEPT !.ev = e]
        /\ UNCHANGED <<adapter, pc, return, second, server>>
    BY <1>1, <2>1 DEF redisAsyncAttach, EL
  <2>3. Fits(ac.ev) BY <1>i, <2>2 DEF Interested
  <2>4. e.data /\ Fits(e) BY <1>0, <2>1, <2>2, <2>3, HookKeeps
  <2>5. ~WantsWrite(ac) /\ ~WantsRead(server) BY <1>i, <2>2 DEF Interested
  <2>6. ac'.life = "live" /\ ac'.ev = e /\ ac'.obuf = ac.obuf /\ ac'.onConnect = ac.onConnect /\ ac'.flags = ac.flags BY <1>0, <2>2 DEF AsyncContexts
  <2>7. ~WantsWrite(ac') BY <2>5, <2>6 DEF WantsWrite, Has
  <2>8. Interested(ac', server', pc', return', second') BY <2>2, <2>4, <2>5, <2>6, <2>7 DEF Interested
  <2>q. QED BY <2>2, <2>8, <1>0, InterestNext
<1>2. CASE redisAsyncSetConnectCallback
  <2>1. PICK c : c = [ac EXCEPT !.onConnect = TRUE] OBVIOUS
  <2>2. c \in AsyncContexts BY <1>0, <2>1, ContextTyped
  <2>3. c.life = ac.life /\ c.ev = ac.ev /\ c.late = ac.late /\ (Has(ac, "CONNECTED") => Has(c, "CONNECTED")) BY <1>0, <2>1 DEF AsyncContexts, Has
  <2>4. pc = "idle" /\ ac.life = "live" /\ ac.ev.data /\ ac' = EL(c, "addWrite")
        /\ UNCHANGED <<adapter, pc, return, second, server>>
    BY <1>2, <2>1 DEF redisAsyncSetConnectCallback
  <2>q. QED BY <2>2, <2>3, <2>4, AddWriteInterest
<1>3. CASE redisAsyncSetDisconnectCallback
  <2>1. Quiet(ac, [ac EXCEPT !.onDisconnect = TRUE]) BY <1>0 DEF Quiet, Has, AsyncContexts
  <2>2. pc = "idle" /\ ac.life = "live" /\ ac' = [ac EXCEPT !.onDisconnect = TRUE] /\ UNCHANGED <<adapter, pc, return, second, server>>
    BY <1>3 DEF redisAsyncSetDisconnectCallback
  <2>3. Quiet(ac, ac') BY <2>1, <2>2
  <2>q. QED BY <2>2, <2>3, <1>0, QuietStep
<1>4. ASSUME NEW kind \in CommandKinds[adapter], Command(kind) PROVE InterestInv'
  BY <1>4, CommandInterest
<1>5. CASE UserDisconnects BY <1>5, UserInterest DEF UserDisconnects
<1>6. CASE UserFrees BY <1>6, UserInterest DEF UserFrees
<1>7. CASE CallbackReturns
  <2>1. Quiet(ac, ClearFlag(ac, "IN_CALLBACK")) BY <1>0, QuietIs
  <2>2. pc = "callback" /\ ac' = ClearFlag(ac, "IN_CALLBACK") /\ pc' = return /\ UNCHANGED <<adapter, return, second, server>>
    BY <1>7 DEF CallbackReturns
  <2>3. Quiet(ac, ac') BY <2>1, <2>2
  <2>4. Going(pc', return') => Going(pc, return) BY <2>2, <1>0 DEF Going
  <2>5. ac.life = "live" BY <2>2, <1>i DEF Interested
  <2>q. QED BY <2>2, <2>3, <2>4, <2>5, <1>0, QuietStep
<1>8. CASE Event BY <1>8, EventInterest
<1>9. CASE SecondEvent BY <1>9, SecondInterest
<1>10. CASE HandleConnected BY <1>10, ConnectedInterest
<1>11. CASE ProcessReplies BY <1>11, TurnInterest
<1>12. CASE Disconnected
  <2>1. ac'.life = "freed" /\ pc' = "idle" /\ adapter' = adapter /\ return' = return BY <1>0, <1>12 DEF Disconnected, AsyncContexts
  <2>q. QED BY <2>1, <1>0, InterestNext
<1>13. CASE ServerAnswers \/ ServerSends \/ ServerCloses BY <1>13, ServerInterest
<1>14. CASE UNCHANGED asyncVars
  <2>1. UNCHANGED <<adapter, ac, pc, return, second, server>> BY <1>14 DEF asyncVars
  <2>q. QED BY <2>1, <1>0, <1>i, InterestNext
<1>q. QED BY <1>1, <1>2, <1>3, <1>4, <1>5, <1>6, <1>7, <1>8, <1>9, <1>10, <1>11, <1>12, <1>13, <1>14 DEF AsyncNext

(* For every set of the adapters and any number of commands: a connection   *)
(* that has to go on is watched, its writes while there is something to     *)
(* send and its reads while a reply is awaited (InterestKept).  Excepted is  *)
(* a one-shot library whose first event found the connection in progress.   *)
THEOREM InterestStays == AsyncSpec => []InterestKept
<1>1. AsyncInit => InterestInv
  <2>1. SUFFICES ASSUME AsyncInit PROVE InterestInv OBVIOUS
  <2>2. Interested(ac, server, pc, return, second)
    <3>1. ac.obuf = <<>> /\ ac.onConnect = FALSE /\ ac.ev = Unattached /\ ac.life = "live"
      BY <2>1 DEF AsyncInit, redisAsyncInitialize
    <3>2. server.in = <<>> /\ server.out = <<>> /\ pc = "idle" /\ second = "none" BY <2>1 DEF AsyncInit
    <3>3. ~WantsWrite(ac) BY <3>1 DEF WantsWrite
    <3>4. ~WantsRead(server) BY <3>2 DEF WantsRead, ToSet
    <3>q. QED BY <3>1, <3>2, <3>3, <3>4 DEF Interested, Fits, Unattached
  <2>q. QED BY <2>1, <2>2 DEF AsyncInit, InterestInv
<1>2. AsyncTypeOK /\ InterestInv /\ [AsyncNext]_asyncVars => InterestInv' BY InterestStep
<1>q. QED BY <1>1, <1>2, AsyncTypeInit, AsyncTypeStep, InterestImplies, PTL DEF AsyncSpec

=============================================================================
