--------------------------- MODULE RedisAdapters ---------------------------
(***************************************************************************)
(* hiredis/adapters: how each event library is told which events of the    *)
(* socket a connection waits for.  A registration e has the pointer        *)
(* ev.data (data: it is not NULL), the adapter's own flags (reading and    *)
(* writing, where it keeps them) and the directions the library watches.   *)
(* An operator gives the registration after a hook was called.             *)
(***************************************************************************)
EXTENDS Naturals

Unattached == [data |-> FALSE, flags |-> {}, watch |-> {}]
Watch(e, d) == [e EXCEPT !.watch = @ \cup {d}]
Unwatch(e, d) == [e EXCEPT !.watch = @ \ {d}]
\* "Nothing should be attached when something is already attached."
Attach(e, watch) == IF e.data THEN e ELSE [Unattached EXCEPT !.data = TRUE, !.watch = watch]

\* Adapters with a flag for each direction: the library is called only when
\* the flag changes.
Start(e, d) == IF d \in e.flags THEN e ELSE [Watch(e, d) EXCEPT !.flags = @ \cup {d}]
Stop(e, d) == IF d \in e.flags THEN [Unwatch(e, d) EXCEPT !.flags = @ \ {d}] ELSE e
FlagHook(e, op) ==
    CASE op = "addRead" -> Start(e, "read")
      [] op = "delRead" -> Stop(e, "read")
      [] op = "addWrite" -> Start(e, "write")
      [] op = "delWrite" -> Stop(e, "write")
      [] op = "cleanup" -> Stop(Stop(e, "read"), "write")
redisAe(e, op) == IF op = "attach" THEN Attach(e, {}) ELSE FlagHook(e, op)
redisLibev(e, op) == IF op = "attach" THEN Attach(e, {}) ELSE FlagHook(e, op)
redisQt(e, op) == IF op = "attach" THEN Attach(e, {}) ELSE FlagHook(e, op)

\* Adapters that tell the library every time.
WatchHook(e, op) ==
    CASE op = "addRead" -> Watch(e, "read")
      [] op = "delRead" -> Unwatch(e, "read")
      [] op = "addWrite" -> Watch(e, "write")
      [] op = "delWrite" -> Unwatch(e, "write")
      [] op = "cleanup" -> Unwatch(Unwatch(e, "read"), "write")
redisLibevent(e, op) == IF op = "attach" THEN Attach(e, {}) ELSE WatchHook(e, op)
\* redis_source_new does not look whether something is attached.
redisGlib(e, op) == IF op = "attach" THEN Attach(Unattached, {}) ELSE WatchHook(e, op)
\* Both handlers are installed from the start.
redisIvykis(e, op) == IF op = "attach" THEN Attach(e, {"read", "write"}) ELSE WatchHook(e, op)
redisMacOS(e, op) == IF op = "attach" THEN Attach(e, {"read", "write"}) ELSE WatchHook(e, op)

\* One mask for both directions; the poll is restarted with the new mask.
Poll(e, mask) == [e EXCEPT !.flags = mask, !.watch = mask]
redisLibuv(e, op) ==
    CASE op = "attach" -> Attach(e, {})
      [] op = "addRead" -> Poll(e, e.flags \cup {"read"})
      [] op = "delRead" -> Poll(e, e.flags \ {"read"})
      [] op = "addWrite" -> Poll(e, e.flags \cup {"write"})
      [] op = "delWrite" -> Poll(e, e.flags \ {"write"})
      [] op = "cleanup" -> [e EXCEPT !.watch = {}]

AdapterNames == {"ae", "libev", "qt", "libevent", "libuv", "glib", "ivykis", "macosx"}
Hook(adapter, e, op) ==
    CASE adapter = "ae" -> redisAe(e, op)
      [] adapter = "libev" -> redisLibev(e, op)
      [] adapter = "qt" -> redisQt(e, op)
      [] adapter = "libevent" -> redisLibevent(e, op)
      [] adapter = "libuv" -> redisLibuv(e, op)
      [] adapter = "glib" -> redisGlib(e, op)
      [] adapter = "ivykis" -> redisIvykis(e, op)
      [] adapter = "macosx" -> redisMacOS(e, op)

\* Libevent forgets an event that fired, CFSocket a write callback.
Fired(adapter, e, d) ==
    IF adapter = "libevent" \/ (adapter = "macosx" /\ d = "write") THEN Unwatch(e, d) ELSE e

\* The directions that one wakeup of the library may deliver: libuv and glib
\* call both handlers from one callback, libuv the reading one first.
BothInOneCall(adapter) == adapter \in {"libuv", "glib"}
FirstOf(adapter) == IF adapter = "libuv" THEN "read" ELSE "write"
=============================================================================
