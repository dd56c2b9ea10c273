----------------------------- MODULE RedisAsync -----------------------------
(***************************************************************************)
(* hiredis/async.c: the asynchronous client.  One thread runs the event    *)
(* loop; a handler runs to its end, but calls the user's callbacks on the  *)
(* way, and these may issue commands, disconnect or free the context: pc   *)
(* says where the handler in progress is, and Return where it goes on.     *)
(*                                                                         *)
(* Whole commands and replies travel: the parsing is RedisReader's, the    *)
(* dictionaries RedisDict's.  A command's callback is named by the number  *)
(* of the command.  The server, the socket and the user are external.      *)
(***************************************************************************)
EXTENDS RedisAdapters, Integers, Sequences, SequencesExt, FiniteSets

CONSTANTS Adapters,      \* the event libraries, among AdapterNames
          CommandKinds,  \* commands the user issues, for each library
          MaxCommands,   \* most commands of a connection, for each library
          MaxMessages,   \* most messages the server sends unasked, for each library
          MaxPending     \* most pending callbacks at a read that brings no reply

ASSUME AsyncAssumption == Adapters \subseteq AdapterNames

VARIABLES adapter,  \* the event library in use
          ac,       \* the redisAsyncContext
          pc,       \* "idle", "process", "free", "callback", "connected", "disconnected" or "aborted"
          return,   \* where a callback returns to
          second,   \* the event the library still delivers in the call in progress
          server,   \* the server: its two streams, its view of the connection
          log,      \* the callbacks that ran: command and reply
          issued    \* the commands that were accepted, and whether they were in order

asyncVars == <<adapter, ac, pc, return, second, server, log, issued>>

NULL == [kind |-> "NULL"]      \* no reply
OnConnect == -1                \* the two callbacks that belong to no command
OnDisconnect == -2
Subscribing == {"subscribe", "psubscribe"}
Unsubscribing == {"unsubscribe", "punsubscribe"}

(***************************************************************************)
(* The context                                                             *)
(***************************************************************************)
redisAsyncInitialize(err) ==
    [life |-> "live", flags |-> {}, err |-> err, onConnect |-> FALSE, onDisconnect |-> FALSE, replies |-> <<>>,
     invalid |-> <<>>, channels |-> {}, patterns |-> {}, obuf |-> <<>>, ibuf |-> <<>>, cb |-> 0, ev |-> Unattached,
     late |-> FALSE]      \* some event found the connection attempt still in progress

Has(c, flag) == flag \in c.flags
SetFlag(c, flag) == [c EXCEPT !.flags = @ \cup {flag}]
ClearFlag(c, flag) == [c EXCEPT !.flags = @ \ {flag}]
EL(c, op) == [c EXCEPT !.ev = Hook(adapter, @, op)]      \* the _EL_ macros

__redisPushCallback(list, cb) == Append(list, cb)
CanShift(list) == list # <<>>

\* The callback runs, unless it is NULL; it comes back to the place named.
__redisRunCallback(c, cb, reply, back) ==
    IF cb = 0 THEN /\ ac' = c /\ pc' = back /\ UNCHANGED <<return, log>>
    ELSE /\ ac' = SetFlag(c, "IN_CALLBACK")
         /\ pc' = "callback" /\ return' = back
         /\ log' = Append(log, [cb |-> cb, reply |-> reply])

Goto(c, place) == ac' = c /\ pc' = place /\ UNCHANGED <<return, log>>

\* To the pending callbacks; an error also forbids new commands.
__redisAsyncDisconnect(c) ==
    IF c.err = 0
    THEN IF CanShift(c.replies) THEN Goto(c, "aborted") ELSE Goto(c, "free")
    ELSE Goto(SetFlag(c, "DISCONNECTING"), "free")

redisAsyncFree(c) == IF Has(c, "IN_CALLBACK") THEN Goto(SetFlag(c, "FREEING"), pc) ELSE Goto(SetFlag(c, "FREEING"), "free")
redisAsyncDisconnect(c) ==
    IF Has(c, "IN_CALLBACK") \/ CanShift(c.replies) THEN Goto(SetFlag(c, "DISCONNECTING"), pc)
    ELSE __redisAsyncDisconnect(SetFlag(c, "DISCONNECTING"))

(***************************************************************************)
(* Commands                                                                *)
(***************************************************************************)
Replaced(dict, cmd) == {d \in dict : d.name # cmd.name} \cup {[name |-> cmd.name, cb |-> cmd.cb]}
\* The context after the callback was registered.
Registered(c, cmd) ==
    CASE cmd.kind = "subscribe" -> SetFlag([c EXCEPT !.channels = Replaced(@, cmd)], "SUBSCRIBED")
      [] cmd.kind = "psubscribe" -> SetFlag([c EXCEPT !.patterns = Replaced(@, cmd)], "SUBSCRIBED")
      [] cmd.kind \in Unsubscribing -> c
      [] cmd.kind = "monitor" -> SetFlag([c EXCEPT !.replies = __redisPushCallback(@, cmd.cb)], "MONITORING")
      [] OTHER -> IF Has(c, "SUBSCRIBED") THEN [c EXCEPT !.invalid = __redisPushCallback(@, cmd.cb)]
                  ELSE [c EXCEPT !.replies = __redisPushCallback(@, cmd.cb)]
Accepts(c, cmd) ==
    /\ ~Has(c, "DISCONNECTING") /\ ~Has(c, "FREEING")
    /\ cmd.kind \in Unsubscribing => Has(c, "SUBSCRIBED")
__redisAsyncCommand(c, cmd) == EL([Registered(c, cmd) EXCEPT !.obuf = Append(@, cmd)], "addWrite")

(***************************************************************************)
(* Replies                                                                 *)
(***************************************************************************)
\* The callback and the context for a message of a subscription; a reply
\* that is no array is the answer to an invalid command.
__redisGetSubscribeCallback(c, reply) ==
    LET dict == IF reply.kind \in {"psubscribe", "punsubscribe"} THEN c.patterns ELSE c.channels
        entry == {d \in dict : d.name = reply.name}
        last == entry # {} /\ reply.kind \in Unsubscribing
        kept == CASE last /\ reply.kind = "unsubscribe" -> [c EXCEPT !.channels = @ \ entry]
                  [] last /\ reply.kind = "punsubscribe" -> [c EXCEPT !.patterns = @ \ entry]
                  [] OTHER -> c
    IN  IF reply.kind = "ok"
        THEN IF CanShift(c.invalid) THEN [c EXCEPT !.invalid = Tail(@), !.cb = Head(c.invalid)] ELSE c
        ELSE LET found == IF entry = {} THEN kept ELSE [kept EXCEPT !.cb = (CHOOSE d \in entry : TRUE).cb]
             IN  IF last /\ reply.count = 0 THEN ClearFlag(found, "SUBSCRIBED") ELSE found

\* One turn of the loop of redisProcessCallbacks; ac.cb is its variable cb,
\* which keeps the callback of the turn before.
redisProcessCallbacks ==
    LET reply == Head(ac.ibuf)
        taken == [ac EXCEPT !.ibuf = Tail(@)]
        shifted == [taken EXCEPT !.replies = Tail(@), !.cb = Head(ac.replies)]
        subscribed == IF Has(ac, "SUBSCRIBED") THEN __redisGetSubscribeCallback(taken, reply) ELSE taken
    IN  IF ac.ibuf = <<>>
        THEN IF Has(ac, "DISCONNECTING") /\ ac.obuf = <<>> /\ ~CanShift(ac.replies) THEN __redisAsyncDisconnect(ac)
             ELSE Goto(IF Has(ac, "MONITORING") THEN [ac EXCEPT !.replies = __redisPushCallback(@, ac.cb)] ELSE ac, "idle")
        ELSE IF reply.kind = "malformed" THEN __redisAsyncDisconnect([taken EXCEPT !.err = 1])
        ELSE IF CanShift(ac.replies) THEN __redisRunCallback(shifted, shifted.cb, reply, "after")
        ELSE IF reply.kind = "error" THEN __redisAsyncDisconnect([taken EXCEPT !.err = 1])
        ELSE IF ~Has(ac, "SUBSCRIBED") /\ ~Has(ac, "MONITORING") THEN Goto(taken, "aborted")
        ELSE __redisRunCallback(subscribed, subscribed.cb, reply, "after")

\* Behind the callback: the context is freed if the callback asked for it.
AfterCallback == Goto(ac, IF Has(ac, "FREEING") THEN "free" ELSE "process")

(***************************************************************************)
(* Freeing: the pending callbacks get a NULL reply, one turn each.         *)
(***************************************************************************)
__redisAsyncFree_quick ==
    IF CanShift(ac.replies) THEN __redisRunCallback([ac EXCEPT !.replies = Tail(@)], Head(ac.replies), NULL, "free")
    ELSE Goto(EL(ac, "cleanup"), "disconnected")
__redisAsyncFree ==
    IF CanShift(ac.replies) THEN __redisRunCallback([ac EXCEPT !.replies = Tail(@)], Head(ac.replies), NULL, "free")
    ELSE IF CanShift(ac.invalid) THEN __redisRunCallback([ac EXCEPT !.invalid = Tail(@)], Head(ac.invalid), NULL, "free")
    ELSE IF ac.channels # {}
    THEN LET d == CHOOSE d \in ac.channels : TRUE
         IN  __redisRunCallback([ac EXCEPT !.channels = @ \ {d}], d.cb, NULL, "free")
    ELSE IF ac.patterns # {}
    THEN LET d == CHOOSE d \in ac.patterns : TRUE
         IN  __redisRunCallback([ac EXCEPT !.patterns = @ \ {d}], d.cb, NULL, "free")
    ELSE Goto(EL(ac, "cleanup"), "disconnected")

\* The disconnect callback, for a connection that was established, and the
\* memory of the context.
Disconnected ==
    /\ pc = "disconnected"
    /\ log' = IF ac.onDisconnect /\ Has(ac, "CONNECTED")
              THEN Append(log, [cb |-> OnDisconnect,
                                reply |-> [kind |-> IF Has(ac, "FREEING") \/ ac.err = 0 THEN "OK" ELSE "ERR"]])
              ELSE log
    /\ ac' = [ac EXCEPT !.life = "freed"]
    /\ pc' = "idle"
    /\ UNCHANGED <<adapter, return, second, server, issued>>

(***************************************************************************)
(* The handlers                                                            *)
(***************************************************************************)
\* The first event decides the connection attempt: in progress still, failed
\* or established; the connect callback runs in the last two cases.
LogConnect(status) == IF ac.onConnect THEN Append(log, [cb |-> OnConnect, reply |-> [kind |-> status]]) ELSE log
__redisAsyncHandleConnect(c, d) ==
    \/ Goto([c EXCEPT !.late = TRUE], "idle")
    \/ /\ log' = LogConnect("ERR")
       /\ ac' = SetFlag([c EXCEPT !.err = 1], "DISCONNECTING") /\ pc' = "free" /\ UNCHANGED return
    \/ /\ log' = LogConnect("OK")
       /\ ac' = SetFlag(c, "CONNECTED") /\ pc' = d /\ UNCHANGED return

redisAsyncHandleRead(c) ==
    IF ~Has(c, "CONNECTED") THEN __redisAsyncHandleConnect(c, "handleRead") /\ UNCHANGED server
    ELSE \/ \* what has arrived is read: nothing, or any number of whole replies
            \E n \in 0 .. Len(server.out) :
               /\ server.out # <<>> \/ ~server.closed
               /\ n = 0 => Len(c.replies) < MaxPending
               /\ server' = [server EXCEPT !.out = SubSeq(@, n + 1, Len(@))]
               /\ Goto(EL([c EXCEPT !.ibuf = @ \o SubSeq(server.out, 1, n), !.cb = 0], "addRead"), "process")
         \/ \* end of file, or an error of the socket
            /\ server.closed /\ server.out = <<>>
            /\ __redisAsyncDisconnect([c EXCEPT !.err = 1])
            /\ UNCHANGED server

redisAsyncHandleWrite_deaf(c) ==
    IF ~Has(c, "CONNECTED") THEN __redisAsyncHandleConnect(c, "handleWrite") /\ UNCHANGED server
    ELSE \/ \E n \in 0 .. Len(c.obuf) :
               LET wrote == EL([c EXCEPT !.obuf = SubSeq(@, n + 1, Len(@))], "delWrite")
               IN  /\ server' = [server EXCEPT !.in = @ \o SubSeq(c.obuf, 1, n)]
                   /\ Goto(EL(wrote, "addRead"), "idle")
         \/ /\ server.closed
            /\ __redisAsyncDisconnect([c EXCEPT !.err = 1])
            /\ UNCHANGED server
redisAsyncHandleWrite(c) ==
    IF ~Has(c, "CONNECTED") THEN __redisAsyncHandleConnect(c, "handleWrite") /\ UNCHANGED server
    ELSE \/ \E n \in 0 .. Len(c.obuf) :
               LET rest == SubSeq(c.obuf, n + 1, Len(c.obuf))
                   wrote == EL([c EXCEPT !.obuf = rest], IF rest = <<>> THEN "delWrite" ELSE "addWrite")
               IN  /\ server' = [server EXCEPT !.in = @ \o SubSeq(c.obuf, 1, n)]
                   /\ Goto(EL(wrote, "addRead"), "idle")
         \/ /\ server.closed
            /\ __redisAsyncDisconnect([c EXCEPT !.err = 1])
            /\ UNCHANGED server

Handle(c, d) == IF d = "read" THEN redisAsyncHandleRead(c) ELSE redisAsyncHandleWrite(c)

\* The rest of a handler whose connection attempt has just succeeded.
HandleConnected ==
    /\ pc \in {"handleRead", "handleWrite"}
    /\ IF pc = "handleRead" THEN redisAsyncHandleRead(ac) ELSE redisAsyncHandleWrite(ac)
    /\ UNCHANGED <<adapter, second, issued>>

\* The library wakes up for a direction it watches; two of them go on with
\* the other direction in the same call.
Event ==
    /\ pc = "idle" /\ second = "none" /\ ac.life = "live"
    /\ \E d \in ac.ev.watch :
         /\ Handle([ac EXCEPT !.ev = Fired(adapter, @, d)], d)
         /\ second' = IF BothInOneCall(adapter) /\ FirstOf(adapter) = d /\ ac.ev.watch = {"read", "write"}
                      THEN (IF d = "read" THEN "write" ELSE "read") ELSE "none"
    /\ UNCHANGED <<adapter, issued>>

\* The second event of a call, on a context that may be gone.
SecondEvent ==
    /\ pc = "idle" /\ second # "none"
    /\ second' = IF ac.life = "live" THEN "none" ELSE "stale"
    /\ second # "stale"
    /\ IF ac.life = "live" THEN Handle(ac, second) ELSE UNCHANGED <<ac, pc, return, log, server>>
    /\ UNCHANGED <<adapter, issued>>

ProcessReplies ==
    /\ \/ pc = "process" /\ redisProcessCallbacks
       \/ pc = "after" /\ AfterCallback
       \/ pc = "free" /\ __redisAsyncFree
    /\ UNCHANGED <<adapter, second, server, issued>>

(***************************************************************************)
(* The user: outside the handlers, or in a callback.                       *)
(***************************************************************************)
UserMayAct == (pc = "idle" /\ second = "none" /\ ac.life = "live" /\ ac.ev.data) \/ pc = "callback"

\* The user first attaches the event library and sets the callbacks.
redisAsyncAttach ==
    /\ pc = "idle" /\ ac.life = "live" /\ ~ac.ev.data
    /\ ac' = EL(ac, "attach")
    /\ UNCHANGED <<adapter, pc, return, second, server, log, issued>>
redisAsyncSetConnectCallback ==
    /\ pc = "idle" /\ ac.life = "live" /\ ac.ev.data /\ ~ac.onConnect /\ issued.commands = <<>>
    /\ ac' = EL([ac EXCEPT !.onConnect = TRUE], "addWrite")
    /\ UNCHANGED <<adapter, pc, return, second, server, log, issued>>
redisAsyncSetDisconnectCallback ==
    /\ pc = "idle" /\ ac.life = "live" /\ ~ac.onDisconnect /\ issued.commands = <<>>
    /\ ac' = [ac EXCEPT !.onDisconnect = TRUE]
    /\ UNCHANGED <<adapter, pc, return, second, server, log, issued>>

\* The commands whose answer the client has not taken from its buffers.
InFlight == {c.n : c \in ToSet(ac.obuf \o server.in)} \cup {r.of : r \in ToSet(server.out \o ac.ibuf)}
Unsettled == \E i \in InFlight \ {0} : issued.commands[i].kind \in Unsubscribing
Command(kind) ==
    LET n == Len(issued.commands) + 1
        cmd == [kind |-> kind, cb |-> IF kind \in Unsubscribing THEN 0 ELSE n, n |-> n,
                name |-> IF kind \in {"psubscribe", "punsubscribe"} THEN "pattern" ELSE "channel"]
    IN  /\ UserMayAct /\ Len(issued.commands) < MaxCommands[adapter]
        /\ Accepts(ac, cmd)
        /\ ac' = __redisAsyncCommand(ac, cmd)
        /\ issued' = [issued EXCEPT !.commands = Append(@, cmd), !.orderly = @ /\ ~Unsettled /\ kind # "monitor"]
        /\ UNCHANGED <<adapter, pc, return, second, server, log>>
\* A context that is being closed refuses the command.
UserDisconnects ==
    /\ UserMayAct /\ redisAsyncDisconnect(ac)
    /\ UNCHANGED <<adapter, second, server, issued>>
UserFrees ==
    /\ UserMayAct /\ redisAsyncFree(ac)
    /\ UNCHANGED <<adapter, second, server, issued>>
CallbackReturns ==
    /\ pc = "callback"
    /\ ac' = ClearFlag(ac, "IN_CALLBACK") /\ pc' = return
    /\ UNCHANGED <<adapter, return, second, server, log, issued>>

(***************************************************************************)
(* The server                                                              *)
(***************************************************************************)
Answer(cmd) ==
    LET subs == CASE cmd.kind \in Subscribing -> server.subs \cup {cmd.name}
                  [] cmd.kind \in Unsubscribing -> server.subs \ {cmd.name}
                  [] OTHER -> server.subs
        kind == IF cmd.kind \in Subscribing \cup Unsubscribing THEN cmd.kind
                ELSE IF server.subs # {} THEN "error" ELSE "ok"
    IN  [server EXCEPT !.in = Tail(@), !.subs = subs, !.monitored = @ \/ cmd.kind = "monitor",
                       !.out = Append(@, [kind |-> kind, of |-> cmd.n, name |-> cmd.name, count |-> Cardinality(subs)])]
Spontaneous(kind, name) == [kind |-> kind, of |-> 0, name |-> name, count |-> Cardinality(server.subs)]
ServerAnswers ==
    /\ ~server.closed /\ server.in # <<>>
    /\ server' = Answer(Head(server.in))
    /\ issued' = [issued EXCEPT !.answered = @ \cup {Head(server.in).n}]
    /\ UNCHANGED <<adapter, ac, pc, return, second, log>>
ServerSends ==
    /\ ~server.closed /\ server.messages < MaxMessages[adapter]
    /\ \/ /\ "channel" \in server.subs
          /\ server' = [server EXCEPT !.out = Append(@, Spontaneous("message", "channel")), !.messages = @ + 1]
       \/ /\ server.monitored
          /\ server' = [server EXCEPT !.out = Append(@, Spontaneous("ok", "monitor")), !.messages = @ + 1]
    /\ UNCHANGED <<adapter, ac, pc, return, second, log, issued>>
\* The connection ends, behind a last reply that is cut off, or, when there
\* are too many clients, behind the error that says so.
ServerCloses ==
    /\ ~server.closed
    /\ \/ server' = [server EXCEPT !.closed = TRUE]
       \/ server' = [server EXCEPT !.closed = TRUE, !.out = Append(@, Spontaneous("malformed", ""))]
       \/ /\ issued.answered = {}
          /\ server' = [server EXCEPT !.closed = TRUE, !.out = Append(@, Spontaneous("error", ""))]
    /\ UNCHANGED <<adapter, ac, pc, return, second, log, issued>>

AsyncInit ==
    /\ adapter \in Adapters
    /\ ac = redisAsyncInitialize(0)
    /\ pc = "idle" /\ return = "idle" /\ second = "none"
    /\ server = [in |-> <<>>, out |-> <<>>, subs |-> {}, monitored |-> FALSE, messages |-> 0, closed |-> FALSE]
    /\ log = <<>>
    /\ issued = [commands |-> <<>>, answered |-> {}, orderly |-> TRUE]

AsyncNext ==
    \/ redisAsyncAttach \/ redisAsyncSetConnectCallback \/ redisAsyncSetDisconnectCallback
    \/ \E kind \in CommandKinds[adapter] : Command(kind)
    \/ UserDisconnects \/ UserFrees \/ CallbackReturns
    \/ Event \/ SecondEvent \/ HandleConnected \/ ProcessReplies \/ Disconnected
    \/ ServerAnswers \/ ServerSends \/ ServerCloses

AsyncSpec == AsyncInit /\ [][AsyncNext]_asyncVars

Regular == {i \in 1 .. Len(issued.commands) : issued.commands[i].kind \notin Subscribing \cup Unsubscribing}
Runs(i) == {k \in 1 .. Len(log) : log[k].cb = i}

\* The callback of every command runs once: with the command's own reply, and
\* then in the order of the commands, or with NULL; none is left when the
\* context is freed, whoever ended the connection, in a callback or outside;
\* the disconnect callback is the last (async.c __redisShiftCallback,
\* __redisAsyncFree).  The user waits for the answer to an unsubscription
\* before the next command, and does not monitor.
CallbackOnce ==
    issued.orderly /\ pc # "aborted" =>
      /\ \A i \in Regular :
           /\ Cardinality(Runs(i)) <= 1
           /\ \A k \in Runs(i) : log[k].reply # NULL =>
                 /\ log[k].reply.of = i \/ (log[k].reply.of = 0 /\ log[k].reply.kind = "error")
                 /\ \A j \in Regular : j < i => \E l \in Runs(j) : l < k
           /\ ac.life = "freed" => Runs(i) # {}
      /\ \A k \in Runs(OnDisconnect) : k = Len(log)

\* Such a user meets none of the assertions of async.c: a clean disconnect
\* has no pending callback (async.c:339), and a reply that no callback
\* expects belongs to a subscription (async.c:463).
OrderlyNeverAborts == issued.orderly => pc # "aborted"

\* "No more regular callbacks and no errors, the context *must* be subscribed
\* or monitoring" (async.c:462), for every user.
MustBeSubscribed == pc # "aborted"

\* The event library is never left without the interest that the connection
\* needs to go on, for any adapter: in writing while there is something to
\* write, in reading once a command was written.  (A one-shot library loses
\* the interest if the first event finds the connection still in progress.)
OneShot == {"libevent", "macosx"}
InterestKept ==
    (pc = "idle" /\ second = "none" /\ ac.life = "live" /\ (ac.late => adapter \notin OneShot)) =>
      /\ ac.obuf # <<>> \/ (ac.onConnect /\ ~Has(ac, "CONNECTED")) => "write" \in ac.ev.watch
      /\ server.in # <<>> \/ (\E r \in ToSet(server.out) : r.of # 0) => "read" \in ac.ev.watch

\* A user that waits for the answer to an unsubscription has every callback
\* called once, in order, and meets no assertion (async.c 339, 463).
CallbacksOrderly == CallbackOnce /\ OrderlyNeverAborts
=============================================================================
