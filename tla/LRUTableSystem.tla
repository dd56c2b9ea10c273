--------------------------- MODULE LRUTableSystem ---------------------------
(***************************************************************************)
(* The LRUTable testbed: sender.cc, the switch and recver.cc, joined by    *)
(* cables that keep order and may lose packets.  The sender queries one    *)
(* key at a time and polls until some packet arrives; it has no timeout,   *)
(* does not compare the answer with its query, and may be interrupted and  *)
(* started again while its packets are still under way.                    *)
(***************************************************************************)
EXTENDS LRUTableSwitch, Sequences, FiniteSets

CONSTANTS MaxQueries,    \* length of the trace the sender replays
          MaxRestarts,   \* bound on the number of sender restarts
          MaxLost,       \* bound on the number of keys whose packets get lost
          Preloaded      \* the random entries recver.cc fills its table with

ASSUME PreloadedAssumption == Preloaded \in [Key -> Key]
ASSUME BoundsAssumption == {MaxQueries, MaxRestarts, MaxLost} \subseteq Nat

VARIABLES sender,        \* [waiting, key]: the query the sender polls for
          sent,          \* history: queries sent by all runs of the sender
          restarts,      \* times the sender was interrupted and run again
          table,         \* recver.cc: the server's address table
          up,            \* packets from the sender to the switch
          toServer,      \* packets from the switch to the server
          fromServer,    \* packets from the server to the switch
          down,          \* packets from the switch to the sender
          lost           \* keys of which some packet has been lost

hostVars == <<sender, sent, restarts, table>>
linkVars == <<up, toServer, fromServer, down>>
vars     == <<key, reg_dfa, value, out, sender, sent, restarts, table,
              up, toServer, fromServer, down, lost>>

Message == [type : {Query, QueryBack}, key : Key, value : Key]
Idle    == [waiting |-> FALSE, key |-> Cleared]

SystemTypeOK ==
  /\ TypeOK
  /\ sender \in [waiting : BOOLEAN, key : Key]
  /\ sent \in 0..MaxQueries
  /\ restarts \in 0..MaxRestarts
  /\ table \in [Key -> Key]
  /\ {up, toServer, fromServer, down} \subseteq Seq(Message)
  /\ lost \subseteq Key

SystemInit ==
  /\ Init
  /\ sender = Idle
  /\ sent = 0
  /\ restarts = 0
  /\ table = Preloaded
  /\ up = <<>> /\ toServer = <<>> /\ fromServer = <<>> /\ down = <<>>
  /\ lost = {}

(* Faulty variant of SendQuery: the answer is not waited for. *)
SendQuery_eager(k) ==
  /\ sent < MaxQueries
  /\ sender'  = [waiting |-> TRUE, key |-> k]
  /\ sent'   = sent + 1
  /\ up' = Append(up, [type |-> Query, key |-> k, value |-> Cleared])
  /\ UNCHANGED <<switchVars, restarts, table, toServer, fromServer, down, lost>>

(* send_caida_pkt: send the query, then poll until a packet arrives. *)
SendQuery(k) ==
  /\ ~sender.waiting
  /\ sent < MaxQueries
  /\ sender'  = [waiting |-> TRUE, key |-> k]
  /\ sent'   = sent + 1
  /\ up' = Append(up, [type |-> Query, key |-> k, value |-> Cleared])
  /\ UNCHANGED <<switchVars, restarts, table, toServer, fromServer, down, lost>>

(* Faulty variant of ReceiveAnswer: only the answer asked for is taken. *)
ReceiveAnswer_picky ==
  /\ sender.waiting
  /\ down # <<>>
  /\ Head(down).key = sender.key
  /\ sender' = Idle
  /\ down' = Tail(down)
  /\ UNCHANGED <<switchVars, sent, restarts, table, up, toServer, fromServer, lost>>

(* recv_pkt returns the first packet that arrived, whatever its key. *)
ReceiveAnswer ==
  /\ sender.waiting
  /\ down # <<>>
  /\ sender' = Idle
  /\ down' = Tail(down)
  /\ UNCHANGED <<switchVars, sent, restarts, table, up, toServer, fromServer, lost>>

(* SIGINT ends the sender at any time and it is run again: packets already  *)
(* received by the old process are gone, packets on the wire are not.       *)
RestartSender ==
  /\ restarts < MaxRestarts
  /\ sender' = Idle
  /\ restarts' = restarts + 1
  /\ \E n \in 0..Len(down) : down' = SubSeq(down, n + 1, Len(down))
  /\ UNCHANGED <<switchVars, sent, table, up, toServer, fromServer, lost>>

Deliver(pkt) ==
  LET msg == [type |-> pkt.type, key |-> pkt.key, value |-> pkt.value]
  IN IF pkt.to = Client
     THEN down' = Append(down, msg) /\ UNCHANGED toServer
     ELSE toServer' = Append(toServer, msg) /\ UNCHANGED down

(* A packet from the client's port reaches the switch. *)
SwitchFromClient ==
  /\ up # <<>>
  /\ up' = Tail(up)
  /\ HandleQuery(Head(up).key)
  /\ Deliver(out')
  /\ UNCHANGED <<hostVars, fromServer, lost>>

(* A packet from the server's port reaches the switch. *)
SwitchFromServer ==
  /\ fromServer # <<>>
  /\ fromServer' = Tail(fromServer)
  /\ HandleQueryBack(Head(fromServer).key, Head(fromServer).value)
  /\ Deliver(out')
  /\ UNCHANGED <<hostVars, up, lost>>

(* Faulty variants of ServeQuery: the answer is read before the entry is    *)
(* overwritten; a query that does not change the entry is not answered.     *)
ServeQuery_stale ==
  /\ toServer # <<>>
  /\ LET k == Head(toServer).key
     IN /\ table' = [table EXCEPT ![k] = TableEntry(k)]
        /\ fromServer' = Append(fromServer,
                           [type |-> QueryBack, key |-> k, value |-> table[k]])
  /\ toServer' = Tail(toServer)
  /\ UNCHANGED <<switchVars, sender, sent, restarts, up, down, lost>>

ServeQuery_silent ==
  /\ toServer # <<>>
  /\ LET k == Head(toServer).key
     IN /\ table' = [table EXCEPT ![k] = TableEntry(k)]
        /\ fromServer' = IF table' = table THEN fromServer
                         ELSE Append(fromServer,
                                [type |-> QueryBack, key |-> k, value |-> table'[k]])
  /\ toServer' = Tail(toServer)
  /\ UNCHANGED <<switchVars, sender, sent, restarts, up, down, lost>>

(* recv_caida_pkt: overwrite the entry, then answer with it. *)
ServeQuery ==
  /\ toServer # <<>>
  /\ LET k == Head(toServer).key
     IN /\ table' = [table EXCEPT ![k] = TableEntry(k)]
        /\ fromServer' = Append(fromServer,
                           [type |-> QueryBack, key |-> k, value |-> table'[k]])
  /\ toServer' = Tail(toServer)
  /\ UNCHANGED <<switchVars, sender, sent, restarts, up, down, lost>>

(* send_pkt frees a packet the NIC does not take, and a cable or a full     *)
(* queue may drop one: the packet at the head of a link disappears.         *)
Lose(link) ==
  /\ link # <<>>
  /\ Cardinality(lost) < MaxLost
  /\ lost' = lost \cup {Head(link).key}

LosePacket ==
  \/ Lose(up) /\ up' = Tail(up)
       /\ UNCHANGED <<switchVars, hostVars, toServer, fromServer, down>>
  \/ Lose(toServer) /\ toServer' = Tail(toServer)
       /\ UNCHANGED <<switchVars, hostVars, up, fromServer, down>>
  \/ Lose(fromServer) /\ fromServer' = Tail(fromServer)
       /\ UNCHANGED <<switchVars, hostVars, up, toServer, down>>
  \/ Lose(down) /\ down' = Tail(down)
       /\ UNCHANGED <<switchVars, hostVars, up, toServer, fromServer>>

SystemNext ==
  \/ \E k \in Key : SendQuery(k)
  \/ ReceiveAnswer
  \/ RestartSender
  \/ SwitchFromClient
  \/ SwitchFromServer
  \/ ServeQuery
  \/ LosePacket

(* The switch forwards at line rate and both hosts poll without pause. *)
Fairness ==
  /\ WF_vars(ReceiveAnswer)
  /\ WF_vars(SwitchFromClient)
  /\ WF_vars(SwitchFromServer)
  /\ WF_vars(ServeQuery)

SystemSpec == SystemInit /\ [][SystemNext]_vars /\ Fairness

-----------------------------------------------------------------------------
InFlight == up \o toServer \o fromServer \o down
Keys(link) == {link[i].key : i \in DOMAIN link}

(* The assertion of recver.cc and the stronger form of the sender's: the    *)
(* server is handed queries only and the sender answers only, each answer   *)
(* carrying the server's entry for its own key, also when evictions,        *)
(* restarts and losses came between the query and its answer.               *)
LinksWellFormed ==
  /\ \A i \in DOMAIN toServer : toServer[i].type = Query
  /\ \A i \in DOMAIN down : /\ down[i].type = QueryBack
                            /\ down[i].value = TableEntry(down[i].key)

(* As long as the sender was never restarted, the answer it takes is the    *)
(* answer to its query, although it does not look at the key.               *)
AnswerIsForQuery ==
  restarts = 0 => \A i \in DOMAIN down : sender.waiting /\ down[i].key = sender.key

(* A cached key without a value is being fetched: its query or its answer   *)
(* is between switch and server, unless a packet of that key was lost.      *)
PlaceholderIsPending ==
  \A b \in Bucket, p \in Position :
     /\ key[b][p] \notin lost \cup {Cleared}
     /\ ValueAt(b, p) = 0
     => key[b][p] \in Keys(toServer) \cup Keys(fromServer)

(* The sender polls in vain only if a packet was lost. *)
StuckOnlyByLoss == sender.waiting /\ InFlight = <<>> => lost # {}

(* A query the sender waits on is answered, unless packets are lost. *)
QueryAnswered == sender.waiting ~> (~sender.waiting \/ lost # {})

\* What the links and the hosts hold at any moment is what sender.cc, recver.cc
\* and the switch put there.
LinksSound == SystemTypeOK /\ LinksWellFormed
=============================================================================
