---------------------------- MODULE ChatPipeline ----------------------------
(***************************************************************************)
(* The chat engine of the master: PostMessage and Connect of               *)
(* grpc/server/chat_server.go, the orchestrator's three channels with the  *)
(* pool and moderation workers between them, the fanout workers, the       *)
(* registry of connected participants, the sinks, and the shutdown of      *)
(* cmd/master/main.go.                                                     *)
(*                                                                         *)
(* Every connection and every message gets a fresh identifier, so a        *)
(* connection is a participant, and is in one room.  Censoring changes the *)
(* content only and is left out here.                                      *)
(***************************************************************************)
EXTENDS Integers, Sequences, Functions

CONSTANTS
  Messages,
  Conns,           \* Connect streams
  Room,            \* Room[x]: the room of a message or of a stream
  PoolWorkers,
  FanoutWorkers,
  BufferSize,      \* capacity of the engine's channels
  ConnBufferSize,  \* capacity of a stream's buffer (CONNECTION_BUFFER_SIZE)
  MayShutdown,     \* whether the process receives a signal
  MayFail,         \* whether the message repository can return errors
  MayRace          \* whether unsynchronised map accesses can crash the process

ModerationWorker == "moderation"
Workers == PoolWorkers \cup FanoutWorkers \cup {ModerationWorker}
Channels == {"globalCommands", "moderationChan", "eventChan"}
Rooms == {Room[x] : x \in Messages \cup Conns}
Disk == "disk"
Nobody == "nobody"  \* no message

ASSUME ChatPipelineAssumption ==
  /\ DOMAIN Room = Messages \cup Conns
  /\ PoolWorkers \cap FanoutWorkers = {}
  /\ ModerationWorker \notin PoolWorkers \cup FanoutWorkers
  /\ BufferSize \in Nat \ {0}
  /\ ConnBufferSize \in Nat \ {0}
  /\ Nobody \notin Messages
  /\ Disk \notin Conns

VARIABLES
  post,         \* post[m]: how far PostMessage is with m
  channel,      \* channel[ch]: contents of a channel
  closed,       \* the channels closed by orchestrator.Stop
  worker,       \* worker[w]: running or stopped
  hold,         \* hold[w]: the message w has received and not passed on
  rooms,        \* keys of the orchestrator's map of rooms
  Sessions,     \* the registry: participants with a sink,
  RoomMembers,  \* and the members of each room
  conn,         \* conn[c]: how far Connect is with c
  deliveries,   \* goroutines of Fanout: the message and the sink
  buffer,       \* buffer[c]: ConnectedUserEvent of c's sink
  received,     \* received[c]: what was sent on the stream
  stored,       \* messages in the message repository
  refused,      \* messages the message repository returned an error for
  dropped,      \* messages lost by a worker that stopped
  phase,        \* progress of the shutdown
  crashed       \* no, panic (a send on a closed channel) or race

engineVars == <<channel, closed, worker, hold>>
registryVars == <<rooms, Sessions, RoomMembers, conn>>
sinkVars == <<deliveries, buffer, received, stored, refused>>
vars == <<post, engineVars, registryVars, sinkVars, dropped, phase, crashed>>

\* The workers' context is the one the signal cancels.
ctxDone == phase # "run"
Up == phase # "exited" /\ crashed = "no"

In(w) == CASE w \in PoolWorkers -> "globalCommands"
           [] w = ModerationWorker -> "moderationChan"
           [] w \in FanoutWorkers -> "eventChan"
Out(w) == IF w \in PoolWorkers THEN "moderationChan" ELSE "eventChan"
Stages == PoolWorkers \cup {ModerationWorker}

Init ==
  /\ post = [m \in Messages |-> "new"]
  /\ channel = [ch \in Channels |-> <<>>]
  /\ closed = {}
  /\ worker = [w \in Workers |-> "running"]
  /\ hold = [w \in Workers |-> Nobody]
  /\ rooms = {}
  /\ Sessions = {}
  /\ RoomMembers = <<>>
  /\ conn = [c \in Conns |-> "new"]
  /\ deliveries = {}
  /\ buffer = [c \in Conns |-> <<>>]
  /\ received = [c \in Conns |-> <<>>]
  /\ stored = {}
  /\ refused = {}
  /\ dropped = {}
  /\ phase = "run"
  /\ crashed = "no"

-----------------------------------------------------------------------------
(* PostMessage                                                             *)

\* The server accepts calls until GracefulStop, some time after the signal.
PostMessage(m) ==
  /\ Up
  /\ phase \in {"run", "graceful"}
  /\ post[m] = "new"
  /\ post' = [post EXCEPT ![m] = "posting"]
  /\ UNCHANGED <<engineVars, registryVars, sinkVars, dropped, phase, crashed>>

\* The command is buffered; on a closed channel the send panics.
Enqueue(m) ==
  /\ Up
  /\ post[m] = "posting"
  /\ IF "globalCommands" \in closed
     THEN crashed' = "panic" /\ UNCHANGED <<post, channel>>
     ELSE /\ Len(channel["globalCommands"]) < BufferSize
          /\ channel' = [channel EXCEPT !["globalCommands"] = Append(@, m)]
          /\ post' = [post EXCEPT ![m] = "acked"]
          /\ UNCHANGED crashed
  /\ UNCHANGED <<closed, worker, hold, registryVars, sinkVars, dropped, phase>>

\* Mutant: PostMessage waits for room in the channel without a timer.
RejectWhileOpen(m) ==
  /\ Up /\ ~ctxDone
  /\ post[m] = "posting"
  /\ post' = [post EXCEPT ![m] = "rejected"]
  /\ UNCHANGED <<engineVars, registryVars, sinkVars, dropped, phase, crashed>>

\* Content too large, server overloaded, or the caller has gone.
Reject(m) ==
  /\ Up
  /\ post[m] = "posting"
  /\ post' = [post EXCEPT ![m] = "rejected"]
  /\ UNCHANGED <<engineVars, registryVars, sinkVars, dropped, phase, crashed>>

-----------------------------------------------------------------------------
(* Workers                                                                 *)

\* A worker receives from its channel.
Take(w) ==
  /\ Up
  /\ worker[w] = "running"
  /\ hold[w] = Nobody
  /\ channel[In(w)] # <<>>
  /\ hold' = [hold EXCEPT ![w] = Head(channel[In(w)])]
  /\ channel' = [channel EXCEPT ![In(w)] = Tail(@)]
  /\ UNCHANGED <<post, closed, worker, registryVars, sinkVars, dropped, phase, crashed>>

\* The channel is closed and empty: Run returns nil.
Finish(w) ==
  /\ Up
  /\ worker[w] = "running"
  /\ hold[w] = Nobody
  /\ channel[In(w)] = <<>>
  /\ In(w) \in closed
  /\ worker' = [worker EXCEPT ![w] = "stopped"]
  /\ UNCHANGED <<post, channel, closed, hold, registryVars, sinkVars, dropped, phase, crashed>>

\* A pool or moderation worker passes its message on.
Forward(w) ==
  /\ Up
  /\ worker[w] = "running"
  /\ hold[w] # Nobody
  /\ Out(w) \notin closed
  /\ Len(channel[Out(w)]) < BufferSize
  /\ channel' = [channel EXCEPT ![Out(w)] = Append(@, hold[w])]
  /\ hold' = [hold EXCEPT ![w] = Nobody]
  /\ UNCHANGED <<post, closed, worker, registryVars, sinkVars, dropped, phase, crashed>>

Held(w) == {hold[w]} \ {Nobody}

\* It sees ctx.Done, or its send panics on a closed channel; the supervisor
\* recovers and, the context being cancelled, does not restart it.
Abandon(w) ==
  /\ Up
  /\ worker[w] = "running"
  /\ ctxDone \/ (hold[w] # Nobody /\ Out(w) \in closed)
  /\ worker' = [worker EXCEPT ![w] = "stopped"]
  /\ hold' = [hold EXCEPT ![w] = Nobody]
  /\ dropped' = dropped \cup Held(w)
  /\ UNCHANGED <<post, channel, closed, registryVars, sinkVars, phase, crashed>>

\* PoolUnitWorker looks the room up in a map that RegisterRoom, under a lock
\* the worker does not take, is adding a room to: Go's runtime may detect it
\* and end the process.
ConcurrentMapAccess(w) ==
  /\ MayRace
  /\ Up
  /\ worker[w] = "running"
  /\ hold[w] # Nobody
  /\ \E c \in Conns : conn[c] = "registering" /\ Room[c] \notin rooms
  /\ crashed' = "race"
  /\ UNCHANGED <<post, engineVars, registryVars, sinkVars, dropped, phase>>

\* Mutant: everybody who is connected.
AllSinks(r) == Sessions

\* GetSinksForRoom, and one goroutine per sink and one for the disk.
GetSinksForRoom(r) == IF r \in DOMAIN RoomMembers THEN RoomMembers[r] \cap Sessions ELSE {}

\* Mutant: the disk is forgotten.
SinksWithoutDisk(m) == GetSinksForRoom(Room[m])

Sinks(m) == GetSinksForRoom(Room[m]) \cup {Disk}

Fanout(w) ==
  /\ Up
  /\ hold[w] # Nobody
  /\ deliveries' = deliveries \cup ({hold[w]} \X Sinks(hold[w]))
  /\ hold' = [hold EXCEPT ![w] = Nobody]
  /\ UNCHANGED <<post, channel, closed, worker, registryVars, buffer, received, stored,
                 refused, dropped, phase, crashed>>

-----------------------------------------------------------------------------
(* Sinks                                                                   *)

\* Consume of the disk sink; an error is logged and the message forgotten.
StoreMessage(m, ok) ==
  /\ Up
  /\ <<m, Disk>> \in deliveries
  /\ ok \/ MayFail
  /\ stored' = IF ok THEN stored \cup {m} ELSE stored
  /\ refused' = IF ok THEN refused ELSE refused \cup {m}
  /\ deliveries' = deliveries \ {<<m, Disk>>}
  /\ UNCHANGED <<post, engineVars, registryVars, buffer, received, dropped, phase, crashed>>

\* Consume of the gRPC sink: into the stream's buffer, or dropped after the
\* delivery timeout.
Consume(m, c, delivered) ==
  /\ Up
  /\ <<m, c>> \in deliveries
  /\ IF delivered
     THEN /\ Len(buffer[c]) < ConnBufferSize
          /\ buffer' = [buffer EXCEPT ![c] = Append(@, m)]
     ELSE UNCHANGED buffer
  /\ deliveries' = deliveries \ {<<m, c>>}
  /\ UNCHANGED <<post, engineVars, registryVars, received, stored, refused, dropped, phase,
                 crashed>>

-----------------------------------------------------------------------------
(* Connect                                                                 *)

\* JoinRoom takes the orchestrator's lock for RegisterRoom.
Connect(c) ==
  /\ Up
  /\ phase \in {"run", "graceful"}
  /\ conn[c] = "new"
  /\ \A d \in Conns : conn[d] # "registering"
  /\ conn' = [conn EXCEPT ![c] = "registering"]
  /\ UNCHANGED <<post, engineVars, rooms, Sessions, RoomMembers, sinkVars, dropped, phase,
                 crashed>>

\* End of RegisterRoom, then Subscribe.
Subscribe(c) ==
  /\ Up
  /\ conn[c] = "registering"
  /\ conn' = [conn EXCEPT ![c] = "open"]
  /\ rooms' = rooms \cup {Room[c]}
  /\ Sessions' = Sessions \cup {c}
  /\ RoomMembers' = [r \in DOMAIN RoomMembers \cup {Room[c]} |->
                       (IF r \in DOMAIN RoomMembers THEN RoomMembers[r] ELSE {})
                         \cup (IF r = Room[c] THEN {c} ELSE {})]
  /\ UNCHANGED <<post, engineVars, sinkVars, dropped, phase, crashed>>

\* The stream's loop sends the next event.
Send(c) ==
  /\ Up
  /\ conn[c] = "open"
  /\ buffer[c] # <<>>
  /\ received' = [received EXCEPT ![c] = Append(@, Head(buffer[c]))]
  /\ buffer' = [buffer EXCEPT ![c] = Tail(@)]
  /\ UNCHANGED <<post, engineVars, registryVars, deliveries, stored, refused, dropped, phase,
                 crashed>>

\* Mutant: a room keeps its set when the last member leaves.
KeepEmpty(members) == members

DropEmpty(members) == Restrict(members, {r \in DOMAIN members : members[r] # {}})

\* The client disconnects or a send fails: Connect returns, and its deferred
\* LeaveRoom runs Unsubscribe.  What the buffer still holds is garbage.
Unsubscribe(c) ==
  /\ Up
  /\ conn[c] = "open"
  /\ conn' = [conn EXCEPT ![c] = "closed"]
  /\ Sessions' = Sessions \ {c}
  /\ RoomMembers' = DropEmpty([RoomMembers EXCEPT ![Room[c]] = @ \ {c}])
  /\ UNCHANGED <<post, engineVars, rooms, sinkVars, dropped, phase, crashed>>

-----------------------------------------------------------------------------
(* Shutdown                                                                *)

Advance(from, to) == Up /\ phase = from /\ phase' = to

Signal ==
  /\ MayShutdown
  /\ Advance("run", "graceful")
  /\ UNCHANGED <<post, engineVars, registryVars, sinkVars, dropped, crashed>>

\* Mutant: calls that are not streams are not waited for.
NoStreamInProgress == \A c \in Conns : conn[c] \notin {"registering", "open"}

NoCallInProgress ==
  /\ \A m \in Messages : post[m] # "posting"
  /\ \A c \in Conns : conn[c] \notin {"registering", "open"}

\* GracefulStop returns once no call is in progress.
GracefulStop ==
  /\ NoCallInProgress
  /\ Advance("graceful", "closeCommands")
  /\ UNCHANGED <<post, engineVars, registryVars, sinkVars, dropped, crashed>>

\* orchestrator.Stop closes the channels one after the other; main returns.
Close(ch, from, to) ==
  /\ Advance(from, to)
  /\ closed' = closed \cup {ch}
  /\ UNCHANGED <<post, channel, worker, hold, registryVars, sinkVars, dropped, crashed>>

Stop ==
  \/ Close("globalCommands", "closeCommands", "closeModeration")
  \/ Close("moderationChan", "closeModeration", "closeEvents")
  \/ Close("eventChan", "closeEvents", "stopped")

Exit ==
  /\ Advance("stopped", "exited")
  /\ UNCHANGED <<post, engineVars, registryVars, sinkVars, dropped, crashed>>

-----------------------------------------------------------------------------
Next ==
  \/ \E m \in Messages : PostMessage(m) \/ Enqueue(m) \/ Reject(m)
  \/ \E m \in Messages, ok \in BOOLEAN : StoreMessage(m, ok)
  \/ \E w \in Workers : Take(w) \/ Finish(w)
  \/ \E w \in Stages : Forward(w) \/ Abandon(w)
  \/ \E w \in PoolWorkers : ConcurrentMapAccess(w)
  \/ \E w \in FanoutWorkers : Fanout(w)
  \/ \E m \in Messages, c \in Conns, delivered \in BOOLEAN : Consume(m, c, delivered)
  \/ \E c \in Conns : Connect(c) \/ Subscribe(c) \/ Send(c) \/ Unsubscribe(c)
  \/ Signal \/ GracefulStop \/ Stop \/ Exit

Spec == Init /\ [][Next]_vars

(* The workers and the goroutines they start keep running.  A pool worker  *)
(* that competes for a full channel gets its turn: blocked senders of a Go *)
(* channel are served first come, first served.  PostMessage ends with its *)
(* timer, and main goes on once what it waits for has happened; that a     *)
(* client closes its stream is not assumed.                                *)
Fairness ==
  /\ \A w \in Workers : WF_vars(Take(w))
  /\ \A w \in Stages : SF_vars(Forward(w))
  /\ \A w \in FanoutWorkers : WF_vars(Fanout(w))
  /\ \A m \in Messages : WF_vars(\E ok \in BOOLEAN : StoreMessage(m, ok))
  /\ \A m \in Messages : WF_vars(Enqueue(m) \/ Reject(m))
  /\ WF_vars(\E c \in Conns : Subscribe(c))
  /\ WF_vars(GracefulStop \/ Stop \/ Exit)

FairSpec == Spec /\ Fairness
-----------------------------------------------------------------------------
(* Every variable keeps the values its Go type allows.                     *)
TypeOK ==
  /\ post \in [Messages -> {"new", "posting", "acked", "rejected"}]
  /\ channel \in [Channels -> Seq(Messages)]
  /\ closed \subseteq Channels
  /\ worker \in [Workers -> {"running", "stopped"}]
  /\ hold \in [Workers -> Messages \cup {Nobody}]
  /\ rooms \subseteq Rooms
  /\ Sessions \subseteq Conns
  /\ DOMAIN RoomMembers \subseteq Rooms
  /\ RoomMembers \in [DOMAIN RoomMembers -> SUBSET Conns]
  /\ conn \in [Conns -> {"new", "registering", "open", "closed"}]
  /\ deliveries \subseteq Messages \X (Conns \cup {Disk})
  /\ buffer \in [Conns -> Seq(Messages)] /\ received \in [Conns -> Seq(Messages)]
  /\ stored \subseteq Messages
  /\ refused \subseteq Messages
  /\ dropped \subseteq Messages
  /\ phase \in {"run", "graceful", "closeCommands", "closeModeration", "closeEvents", "stopped",
               "exited"}
  /\ crashed \in {"no", "panic", "race"}

\* Everywhere a message on its way to the disk can be.
Places(m) ==
  {<<"channel", ch>> : ch \in {x \in Channels : m \in Range(channel[x])}}
    \cup {<<"worker", w>> : w \in {x \in Workers : hold[x] = m}}
    \cup (IF <<m, Disk>> \in deliveries THEN {<<"outcome", "due">>} ELSE {})
    \cup (IF m \in stored THEN {<<"outcome", "stored">>} ELSE {})
    \cup (IF m \in refused THEN {<<"outcome", "refused">>} ELSE {})
    \cup (IF m \in dropped THEN {<<"outcome", "dropped">>} ELSE {})

(* A message whose PostMessage succeeded is in exactly one place of the    *)
(* pipeline, in the repository or refused by it; before that it is nowhere.*)
(* Workers drop messages only when the engine is shutting down.            *)
MessageConservation ==
  /\ \A m \in Messages :
       IF post[m] = "acked" THEN \E p \in Places(m) : Places(m) = {p} ELSE Places(m) = {}
  /\ \A ch \in Channels : IsInjective(channel[ch])
  /\ dropped # {} => ctxDone

(* The registry agrees with the streams: a stream past JoinRoom has a      *)
(* session and is a member of its room, one that ended has neither, and no *)
(* empty room is kept ("ensures no empty sets are left in the room map").  *)
RegistryConsistent ==
  /\ Sessions = {c \in Conns : conn[c] = "open"}
  /\ \A r \in DOMAIN RoomMembers : RoomMembers[r] # {}
  /\ \A c \in Conns : conn[c] = "open" <=> c \in GetSinksForRoom(Room[c])

(* Nobody but a supervised worker can hit a closed channel: GracefulStop   *)
(* has let every call finish before Stop closes the channels.              *)
NoUnrecoveredPanic == crashed # "panic"

\* The engine as its clients see it.
Status(m) ==
  CASE post[m] = "posting" -> "new"
    [] post[m] \in {"new", "rejected"} -> post[m]
    [] m \in stored -> "stored"
    [] m \in refused -> "failed"
    [] m \in dropped -> "lost"
    [] OTHER -> "accepted"
InRoom(c, m) == Room[c] = Room[m]

Delivery == INSTANCE MessageDelivery WITH
  Participants <- Conns,
  status       <- [m \in Messages |-> Status(m)],
  seen         <- received,
  stopping     <- ctxDone

(* The engine implements the delivery promise: at most once to every       *)
(* participant, of the own room, after acceptance, and no loss before the  *)
(* shutdown unless the repository refuses the message.                     *)
ImplementsDelivery == Delivery!Spec

(* A message whose PostMessage succeeded is eventually stored or refused   *)
(* by the repository, unless the process is stopped: full channels and     *)
(* workers that compete for them only delay it.                            *)
AckedIsSettled ==
  \A m \in Messages :
    post[m] = "acked" ~> m \in stored \cup refused \/ ctxDone \/ crashed # "no"

\* A client holds its stream, and GracefulStop waits for it: Connect does
\* not look at the context of the engine.
StreamIsOpen == \E c \in Conns : conn[c] = "open"

(* After the signal the master exits as soon as the clients have closed    *)
(* their streams: the workers leave full channels behind, but no call      *)
(* waits for them forever.                                                 *)
ShutdownEnds ==
  ctxDone /\ ~StreamIsOpen ~> phase = "exited" \/ StreamIsOpen \/ crashed # "no"
=============================================================================
