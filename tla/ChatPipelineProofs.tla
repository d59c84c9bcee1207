------------------------- MODULE ChatPipelineProofs -------------------------
(***************************************************************************)
(* Proofs about the chat engine, for any number of messages, streams,      *)
(* workers and rooms, and any capacity of the channels.                    *)
(***************************************************************************)
EXTENDS ChatPipeline, TLAPS

-----------------------------------------------------------------------------
(* Sequences without repetition.                                           *)

\* A send on a channel adds one message and repeats none.
LEMMA AppendFacts ==
  ASSUME NEW S, NEW q \in Seq(S), NEW x \in S
  PROVE  /\ Append(q, x) \in Seq(S)
         /\ Range(Append(q, x)) = Range(q) \cup {x}
         /\ IsInjective(q) /\ x \notin Range(q) => IsInjective(Append(q, x))
<1>1. /\ Append(q, x) \in Seq(S) /\ DOMAIN q = 1 .. Len(q) /\ Len(q) \in Nat
      /\ DOMAIN Append(q, x) = 1 .. Len(q) + 1
      /\ \A i \in 1 .. Len(q) : Append(q, x)[i] = q[i]
      /\ Append(q, x)[Len(q) + 1] = x
  OBVIOUS
<1>2. Range(Append(q, x)) = Range(q) \cup {x}
  <2>1. ASSUME NEW y \in Range(Append(q, x)) PROVE y \in Range(q) \cup {x}
    BY <1>1, <2>1 DEF Range
  <2>2. ASSUME NEW y \in Range(q) \cup {x} PROVE y \in Range(Append(q, x))
    BY <1>1, <2>2 DEF Range
  <2> QED
    BY <2>1, <2>2
<1>3. IsInjective(q) /\ x \notin Range(q) => IsInjective(Append(q, x))
  BY <1>1 DEF IsInjective, Range
<1> QED
  BY <1>1, <1>2, <1>3

\* A receive from a channel takes away its first message, and that only.
LEMMA TailFacts ==
  ASSUME NEW S, NEW q \in Seq(S), q # <<>>
  PROVE  /\ Tail(q) \in Seq(S) /\ Head(q) \in S /\ Head(q) \in Range(q)
         /\ Range(q) = Range(Tail(q)) \cup {Head(q)}
         /\ IsInjective(q) => IsInjective(Tail(q)) /\ Head(q) \notin Range(Tail(q))
<1>1. /\ Tail(q) \in Seq(S) /\ Head(q) = q[1] /\ DOMAIN q = 1 .. Len(q) /\ Len(q) \in Nat \ {0}
      /\ DOMAIN Tail(q) = 1 .. Len(q) - 1
      /\ \A i \in 1 .. Len(q) - 1 : Tail(q)[i] = q[i + 1]
  OBVIOUS
<1>2. Range(q) = Range(Tail(q)) \cup {Head(q)}
  <2>1. ASSUME NEW i \in DOMAIN q PROVE q[i] \in Range(Tail(q)) \cup {Head(q)}
    <3>1. CASE i = 1
      BY <1>1, <3>1
    <3>2. CASE i # 1
      <4>1. i - 1 \in DOMAIN Tail(q) /\ Tail(q)[i - 1] = q[i]
        BY <1>1, <3>2
      <4> QED
        BY <4>1 DEF Range
    <3> QED
      BY <3>1, <3>2
  <2>2. ASSUME NEW i \in DOMAIN Tail(q) PROVE Tail(q)[i] \in Range(q)
    BY <1>1 DEF Range
  <2>3. Head(q) \in Range(q)
    BY <1>1 DEF Range
  <2> QED
    BY <2>1, <2>2, <2>3, Zenon DEF Range
<1>3. ASSUME IsInjective(q) PROVE IsInjective(Tail(q)) /\ Head(q) \notin Range(Tail(q))
  <2>1. ASSUME NEW i \in 1 .. Len(q) - 1, NEW j \in 1 .. Len(q) - 1, Tail(q)[i] = Tail(q)[j]
        PROVE  i = j
    <3>1. i + 1 \in DOMAIN q /\ j + 1 \in DOMAIN q /\ q[i + 1] = q[j + 1]
      BY <1>1, <2>1
    <3>2. i + 1 = j + 1
      BY <1>3, <3>1, Zenon DEF IsInjective
    <3> QED
      BY <3>2
  <2>2. ASSUME NEW i \in 1 .. Len(q) - 1 PROVE Tail(q)[i] # Head(q)
    <3>1. /\ i + 1 \in DOMAIN q /\ 1 \in DOMAIN q /\ i + 1 # 1
          /\ Tail(q)[i] = q[i + 1] /\ Head(q) = q[1]
      BY <1>1
    <3> QED
      BY <1>3, <3>1, Zenon DEF IsInjective
  <2> QED
    BY <1>1, <2>1, <2>2, Zenon DEF IsInjective, Range
<1> QED
  BY <1>1, <1>2, <1>3

-----------------------------------------------------------------------------
(* Types.                                                                  *)
LEMMA Channelled ==
  /\ \A w \in Workers : In(w) \in Channels
  /\ \A w \in Stages : w \in Workers /\ Out(w) \in Channels
  /\ \A m \in Messages : Room[m] \in Rooms
  /\ \A c \in Conns : Room[c] \in Rooms
  /\ FanoutWorkers \subseteq Workers /\ PoolWorkers \subseteq Stages
BY DEF Workers, In, Out, Stages, Channels, Rooms, ModerationWorker

\* NewOrchestrator starts with empty channels and an empty registry.
LEMMA InitTypes == Init => TypeOK
<1> SUFFICES ASSUME Init PROVE TypeOK
  OBVIOUS
<1>1. <<>> \in Seq(Messages) /\ DOMAIN <<>> = {} /\ <<>> \in [{} -> SUBSET Conns]
  OBVIOUS
<1>2. RoomMembers \in [DOMAIN RoomMembers -> SUBSET Conns] /\ DOMAIN RoomMembers = {}
  BY <1>1 DEF Init
<1> QED
  BY <1>1, <1>2 DEF Init, TypeOK, Channels

\* Every step keeps the types.
LEMMA TypeStep == TypeOK /\ [Next]_vars => TypeOK'
<1> SUFFICES ASSUME TypeOK, [Next]_vars PROVE TypeOK'
  OBVIOUS
<1> USE DEF engineVars, registryVars, sinkVars
<1>1. ASSUME NEW m \in Messages, PostMessage(m) \/ Enqueue(m) \/ Reject(m) PROVE TypeOK'
  <2>1. CASE PostMessage(m) \/ Reject(m)
    BY <2>1, Zenon DEF PostMessage, Reject, TypeOK
  <2>2. CASE Enqueue(m)
    <3>1. Append(channel["globalCommands"], m) \in Seq(Messages)
      BY AppendFacts DEF TypeOK, Channels
    <3>2. channel' \in [Channels -> Seq(Messages)]
      BY <2>2, <3>1, Zenon DEF Enqueue, TypeOK
    <3> QED
      BY <2>2, <3>2 DEF Enqueue, TypeOK
  <2> QED
    BY <1>1, <2>1, <2>2
<1>2. ASSUME NEW m \in Messages, NEW ok \in BOOLEAN, StoreMessage(m, ok) PROVE TypeOK'
  BY <1>2 DEF StoreMessage, TypeOK
<1>3. ASSUME NEW w \in Workers, Take(w) PROVE TypeOK'
  <2>1. channel' \in [Channels -> Seq(Messages)] /\ Head(channel[In(w)]) \in Messages
    BY <1>3, TailFacts, Channelled DEF Take, TypeOK
  <2> QED
    BY <1>3, <2>1 DEF Take, TypeOK
<1>4. ASSUME NEW w \in Workers, Finish(w) PROVE TypeOK'
  BY <1>4 DEF Finish, TypeOK
<1>5. ASSUME NEW w \in Stages, Forward(w) PROVE TypeOK'
  <2>1. hold[w] \in Messages
    BY <1>5, Channelled DEF Forward, TypeOK
  <2>2. channel' \in [Channels -> Seq(Messages)]
    BY <1>5, <2>1, AppendFacts, Channelled DEF Forward, TypeOK
  <2> QED
    BY <1>5, <2>2, Zenon DEF Forward, TypeOK
<1>6. ASSUME NEW w \in Stages, Abandon(w) PROVE TypeOK'
  BY <1>6, Channelled DEF Abandon, Held, TypeOK
<1>7. ASSUME NEW w \in PoolWorkers, ConcurrentMapAccess(w) PROVE TypeOK'
  BY <1>7 DEF ConcurrentMapAccess, TypeOK
<1>8. ASSUME NEW w \in FanoutWorkers, Fanout(w) PROVE TypeOK'
  <2>1. hold[w] \in Messages /\ Sinks(hold[w]) \subseteq Conns \cup {Disk}
    BY <1>8, Channelled DEF Fanout, Sinks, GetSinksForRoom, TypeOK
  <2> QED
    BY <1>8, <2>1, Zenon DEF Fanout, TypeOK
<1>9. ASSUME NEW m \in Messages, NEW c \in Conns, NEW delivered \in BOOLEAN,
             Consume(m, c, delivered)
      PROVE  TypeOK'
  <2>1. Append(buffer[c], m) \in Seq(Messages)
    BY AppendFacts DEF TypeOK
  <2>2. buffer' \in [Conns -> Seq(Messages)]
    BY <1>9, <2>1, Zenon DEF Consume, TypeOK
  <2> QED
    BY <1>9, <2>2, Zenon DEF Consume, TypeOK
<1>10. ASSUME NEW c \in Conns, Connect(c) PROVE TypeOK'
  BY <1>10 DEF Connect, TypeOK
<1>11. ASSUME NEW c \in Conns, Subscribe(c) PROVE TypeOK'
  BY <1>11, Channelled DEF Subscribe, TypeOK
<1>12. ASSUME NEW c \in Conns, Send(c) PROVE TypeOK'
  <2>1. buffer' \in [Conns -> Seq(Messages)] /\ received' \in [Conns -> Seq(Messages)]
    BY <1>12, TailFacts, AppendFacts DEF Send, TypeOK
  <2> QED
    BY <1>12, <2>1, Zenon DEF Send, TypeOK
<1>13. ASSUME NEW c \in Conns, Unsubscribe(c) PROVE TypeOK'
  BY <1>13, Zenon DEF Unsubscribe, DropEmpty, Restrict, TypeOK
<1>14. CASE Signal \/ GracefulStop \/ Stop \/ Exit
  BY <1>14 DEF Signal, GracefulStop, Stop, Close, Exit, Advance, TypeOK, Channels
<1>15. CASE UNCHANGED vars
  BY <1>15 DEF vars, TypeOK
<1> QED
  BY <1>1, <1>2, <1>3, <1>4, <1>5, <1>6, <1>7, <1>8, <1>9, <1>10, <1>11, <1>12, <1>13, <1>14,
     <1>15 DEF Next

-----------------------------------------------------------------------------
(* The shutdown.                                                           *)

\* Channels are closed after GracefulStop, when no PostMessage is left.
ClosedInv ==
  /\ closed # {} => phase \notin {"run", "graceful", "closeCommands"}
  /\ phase \notin {"run", "graceful"} => \A m \in Messages : post[m] # "posting"
  /\ crashed # "panic"

\* Stop closes the channels only after the calls in progress have ended.
LEMMA ClosedStep == TypeOK /\ ClosedInv /\ [Next]_vars => ClosedInv'
<1> SUFFICES ASSUME TypeOK, ClosedInv, [Next]_vars PROVE ClosedInv'
  OBVIOUS
<1> USE DEF engineVars, registryVars, sinkVars, ClosedInv
<1>1. ASSUME NEW m \in Messages, PostMessage(m) \/ Enqueue(m) \/ Reject(m) PROVE ClosedInv'
  BY <1>1 DEF PostMessage, Enqueue, Reject, TypeOK
<1>2. CASE Signal \/ GracefulStop \/ Stop \/ Exit
  BY <1>2 DEF Signal, GracefulStop, Stop, Close, Exit, Advance, NoCallInProgress
<1>3. CASE \E w \in PoolWorkers : ConcurrentMapAccess(w)
  BY <1>3 DEF ConcurrentMapAccess
<1>4. CASE UNCHANGED <<post, closed, phase, crashed>>
  BY <1>4
<1> QED
  BY <1>1, <1>2, <1>3, <1>4, Zenon
     DEF Next, StoreMessage, Take, Finish, Forward, Abandon, Fanout, Consume, Connect, Subscribe,
         Send, Unsubscribe, vars

\* No send of PostMessage meets a closed channel: GracefulStop has waited for
\* the calls in progress before orchestrator.Stop closes it.
THEOREM NeverPanics == Spec => []NoUnrecoveredPanic
<1>1. Init => ClosedInv
  BY DEF Init, ClosedInv
<1>2. ClosedInv => NoUnrecoveredPanic
  BY DEF ClosedInv, NoUnrecoveredPanic
<1> QED
  BY <1>1, <1>2, InitTypes, TypeStep, ClosedStep, PTL DEF Spec

-----------------------------------------------------------------------------
(* The registry.                                                           *)

Open(r) == {c \in Conns : conn[c] = "open" /\ Room[c] = r}

\* The registry is a function of the open streams.
RegistryInv ==
  /\ Sessions = {c \in Conns : conn[c] = "open"}
  /\ DOMAIN RoomMembers = {r \in Rooms : Open(r) # {}}
  /\ \A r \in DOMAIN RoomMembers : RoomMembers[r] = Open(r)

\* Subscribe and Unsubscribe keep the registry in step with the streams.
LEMMA RegistryStep == TypeOK /\ RegistryInv /\ [Next]_vars => RegistryInv'
<1> SUFFICES ASSUME TypeOK, RegistryInv, [Next]_vars PROVE RegistryInv'
  OBVIOUS
<1> USE DEF engineVars, registryVars, sinkVars
<1>1. ASSUME NEW c \in Conns, Connect(c) PROVE RegistryInv'
  <2>1. \A d \in Conns : conn'[d] = "open" <=> conn[d] = "open"
    BY <1>1 DEF Connect, TypeOK
  <2>2. \A r : Open(r)' = Open(r)
    BY <2>1 DEF Open
  <2> QED
    BY <1>1, <2>1, <2>2 DEF Connect, RegistryInv
<1>2. ASSUME NEW c \in Conns, Subscribe(c) PROVE RegistryInv'
  <2>1. \A d \in Conns : conn'[d] = "open" <=> d = c \/ conn[d] = "open"
    BY <1>2 DEF Subscribe, TypeOK
  <2>2. \A r : Open(r)' = IF r = Room[c] THEN Open(r) \cup {c} ELSE Open(r)
    BY <2>1 DEF Open
  <2>3. Room[c] \in Rooms
    BY Channelled
  <2>4. DOMAIN RoomMembers' = {r \in Rooms : Open(r)' # {}}
    BY <1>2, <2>2, <2>3, Zenon DEF Subscribe, RegistryInv
  <2>5. ASSUME NEW r \in DOMAIN RoomMembers' PROVE RoomMembers'[r] = Open(r)'
    BY <1>2, <2>2, <2>4 DEF Subscribe, RegistryInv
  <2>6. Sessions' = {d \in Conns : conn'[d] = "open"}
    BY <1>2, <2>1 DEF Subscribe, RegistryInv
  <2> QED
    BY <2>4, <2>5, <2>6 DEF RegistryInv
<1>3. ASSUME NEW c \in Conns, Unsubscribe(c) PROVE RegistryInv'
  <2>1. \A d \in Conns : conn'[d] = "open" <=> d # c /\ conn[d] = "open"
    BY <1>3 DEF Unsubscribe, TypeOK
  <2>2. \A r : Open(r)' = IF r = Room[c] THEN Open(r) \ {c} ELSE Open(r)
    BY <2>1 DEF Open
  <2> DEFINE left == [RoomMembers EXCEPT ![Room[c]] = @ \ {c}]
  <2>3. DOMAIN left = DOMAIN RoomMembers /\ \A r \in DOMAIN left : left[r] = Open(r)'
    BY <2>2 DEF RegistryInv
  <2>4. \A r \in Rooms : Open(r)' # {} => r \in DOMAIN left
    BY <2>2, <2>3 DEF RegistryInv
  <2>5. RoomMembers' = [r \in {x \in DOMAIN left : left[x] # {}} |-> left[r]]
    BY <1>3 DEF Unsubscribe, DropEmpty, Restrict
  <2>6. DOMAIN RoomMembers' = {r \in Rooms : Open(r)' # {}}
    BY <2>3, <2>4, <2>5 DEF RegistryInv
  <2>7. \A r \in DOMAIN RoomMembers' : RoomMembers'[r] = Open(r)'
    BY <2>3, <2>5
  <2>8. Sessions' = {d \in Conns : conn'[d] = "open"}
    BY <1>3, <2>1 DEF Unsubscribe, RegistryInv
  <2> QED
    BY <2>6, <2>7, <2>8 DEF RegistryInv
<1>4. CASE UNCHANGED <<Sessions, RoomMembers, conn>>
  BY <1>4 DEF RegistryInv, Open
<1> QED
  BY <1>1, <1>2, <1>3, <1>4, Zenon
     DEF Next, PostMessage, Enqueue, Reject, StoreMessage, Take, Finish, Forward, Abandon,
         ConcurrentMapAccess, Fanout, Consume, Send, Signal, GracefulStop, Stop, Close, Exit, vars

\* What Fanout finds: the open streams of the room.
LEMMA SinksAreOpen == ASSUME RegistryInv, NEW r PROVE GetSinksForRoom(r) \subseteq Open(r)
BY DEF RegistryInv, GetSinksForRoom

\* The registry is empty while no stream is open.
LEMMA InitRegistry == Init => RegistryInv
<1> SUFFICES ASSUME Init PROVE RegistryInv
  OBVIOUS
<1>1. DOMAIN RoomMembers = {} /\ \A c \in Conns : conn[c] # "open"
  BY DEF Init
<1> QED
  BY <1>1 DEF Init, RegistryInv, Open

\* The registry always agrees with the streams: no participant is left behind
\* or forgotten in it, and no room stays in it without a member.
THEOREM RegistryAgrees == Spec => []RegistryConsistent
<1>1. RegistryInv => RegistryConsistent
  <2> SUFFICES ASSUME RegistryInv PROVE RegistryConsistent
    OBVIOUS
  <2>1. \A c \in Conns : conn[c] = "open" => Room[c] \in DOMAIN RoomMembers
    BY Channelled DEF RegistryInv, Open
  <2> QED
    BY <2>1 DEF RegistryInv, RegistryConsistent, GetSinksForRoom, Open
<1> QED
  BY <1>1, InitTypes, InitRegistry, TypeStep, RegistryStep, PTL DEF Spec

-----------------------------------------------------------------------------
(* Conservation of messages.                                               *)

\* m is at the place p.
At(m, p) ==
  \/ \E ch \in Channels : p = <<"channel", ch>> /\ m \in Range(channel[ch])
  \/ \E w \in Workers : p = <<"worker", w>> /\ hold[w] = m
  \/ p = <<"outcome", "due">> /\ <<m, Disk>> \in deliveries
  \/ p = <<"outcome", "stored">> /\ m \in stored
  \/ p = <<"outcome", "refused">> /\ m \in refused
  \/ p = <<"outcome", "dropped">> /\ m \in dropped

\* A message that was accepted is at one place, the others are nowhere.
PlaceInv ==
  \A m \in Messages :
    IF post[m] = "acked" THEN \E p : At(m, p) /\ \A q : At(m, q) => q = p
                         ELSE \A p : ~At(m, p)

ConservationInv ==
  /\ PlaceInv
  /\ \A ch \in Channels : IsInjective(channel[ch])
  /\ dropped # {} => ctxDone

\* A step that does not touch m leaves it where it is.
LEMMA Untouched ==
  ASSUME NEW m,
         \A ch \in Channels : m \in Range(channel'[ch]) <=> m \in Range(channel[ch]),
         \A w \in Workers : hold'[w] = m <=> hold[w] = m,
         <<m, Disk>> \in deliveries' <=> <<m, Disk>> \in deliveries,
         m \in stored' <=> m \in stored, m \in refused' <=> m \in refused,
         m \in dropped' <=> m \in dropped
  PROVE  \A p : At(m, p)' <=> At(m, p)
BY DEF At

\* At is membership in Places.
LEMMA PlacesAre == \A m, p : p \in Places(m) <=> At(m, p)
<1> SUFFICES ASSUME NEW m, NEW p PROVE p \in Places(m) <=> At(m, p)
  OBVIOUS
<1>1. p \in {<<"channel", ch>> : ch \in {x \in Channels : m \in Range(channel[x])}} <=>
        \E ch \in Channels : p = <<"channel", ch>> /\ m \in Range(channel[ch])
  OBVIOUS
<1>2. p \in {<<"worker", w>> : w \in {x \in Workers : hold[x] = m}} <=>
        \E w \in Workers : p = <<"worker", w>> /\ hold[w] = m
  OBVIOUS
<1> QED
  BY <1>1, <1>2 DEF At, Places

\* One place for each accepted message is what MessageConservation asks.
LEMMA ConservationHolds == ConservationInv => MessageConservation
<1> SUFFICES ASSUME ConservationInv PROVE MessageConservation
  OBVIOUS
<1>1. ASSUME NEW m \in Messages, post[m] = "acked" PROVE \E p \in Places(m) : Places(m) = {p}
  <2>1. PICK p : At(m, p) /\ \A q : At(m, q) => q = p
    BY <1>1 DEF ConservationInv, PlaceInv
  <2>2. p \in Places(m) /\ \A q \in Places(m) : q = p
    BY <2>1, PlacesAre
  <2> QED
    BY <2>2
<1>2. ASSUME NEW m \in Messages, post[m] # "acked" PROVE Places(m) = {}
  BY <1>2, PlacesAre DEF ConservationInv, PlaceInv
<1> QED
  BY <1>1, <1>2 DEF MessageConservation, ConservationInv

\* A step that moves m from one place to another and touches no other message.
LEMMA Moved ==
  ASSUME PlaceInv, NEW m \in Messages, NEW q,
         post[m] = "acked" \/ post'[m] = "acked", post'[m] = "acked",
         \A x \in Messages \ {m} : post'[x] = post[x] /\ \A p : At(x, p)' <=> At(x, p),
         At(m, q)', \A p : At(m, p)' => p = q
  PROVE  PlaceInv'
BY DEF PlaceInv

\* PostMessage puts the message it acknowledges into one channel.
LEMMA EnqueueMoves ==
  ASSUME TypeOK, ConservationInv, NEW m \in Messages, Enqueue(m)
  PROVE  ConservationInv'
<1> USE DEF engineVars, registryVars, sinkVars, ConservationInv
<1>1. CASE UNCHANGED <<post, channel>>
  BY <1>1 DEF Enqueue, PlaceInv, At, ctxDone
<1>2. CASE ~UNCHANGED <<post, channel>>
  <2> DEFINE gc == "globalCommands"
  <2>1. /\ gc \in Channels /\ channel[gc] \in Seq(Messages) /\ post[m] = "posting"
        /\ channel' = [channel EXCEPT ![gc] = Append(channel[gc], m)]
        /\ post' = [post EXCEPT ![m] = "acked"]
        /\ UNCHANGED <<hold, deliveries, stored, refused, dropped, phase>>
    BY <1>2 DEF Enqueue, TypeOK, Channels
  <2>2. \A p : ~At(m, p)
    BY <2>1 DEF PlaceInv
  <2>3. /\ \A ch \in Channels : m \notin Range(channel[ch])
        /\ \A w \in Workers : hold[w] # m
        /\ <<m, Disk>> \notin deliveries /\ m \notin stored \cup refused \cup dropped
    BY <2>2, Zenon DEF At
  <2>4. /\ Range(channel'[gc]) = Range(channel[gc]) \cup {m} /\ IsInjective(channel'[gc])
        /\ \A ch \in Channels \ {gc} : channel'[ch] = channel[ch]
    BY <2>1, <2>3, AppendFacts DEF TypeOK
  <2>5. \A x \in Messages \ {m} : post'[x] = post[x] /\ \A p : At(x, p)' <=> At(x, p)
    BY <2>1, <2>4, Untouched, Zenon DEF TypeOK
  <2>6. At(m, <<"channel", gc>>)' /\ \A p : At(m, p)' => p = <<"channel", gc>>
    BY <2>1, <2>3, <2>4 DEF At
  <2>7. PlaceInv'
    BY <2>1, <2>5, <2>6, Moved, Zenon DEF TypeOK
  <2>8. \A ch \in Channels : IsInjective(channel'[ch])
    BY <2>4
  <2> QED
    BY <2>1, <2>7, <2>8 DEF ctxDone
<1> QED
  BY <1>1, <1>2

\* Where an accepted message is, it is alone.
LEMMA Only ==
  ASSUME PlaceInv, NEW m \in Messages, NEW p, At(m, p)
  PROVE  post[m] = "acked" /\ \A q : At(m, q) => q = p
BY DEF PlaceInv

\* A worker takes a message out of its channel into its hands.
LEMMA TakeMoves ==
  ASSUME TypeOK, ConservationInv, NEW w \in Workers, Take(w)
  PROVE  ConservationInv'
<1> USE DEF engineVars, registryVars, sinkVars, ConservationInv
<1> DEFINE ch == In(w)
<1> PICK m : m = Head(channel[ch])
  OBVIOUS
<1>1. /\ ch \in Channels /\ channel[ch] \in Seq(Messages) /\ channel[ch] # <<>>
      /\ hold[w] = Nobody /\ hold' = [hold EXCEPT ![w] = m]
      /\ channel' = [channel EXCEPT ![ch] = Tail(channel[ch])]
      /\ UNCHANGED <<post, deliveries, stored, refused, dropped, phase>>
  BY Channelled, Zenon DEF Take, TypeOK
<1> HIDE DEF ch
<1>2. /\ m \in Messages /\ m \in Range(channel[ch])
      /\ Range(channel[ch]) = Range(channel'[ch]) \cup {m} /\ m \notin Range(channel'[ch])
      /\ IsInjective(channel'[ch])
      /\ \A x \in Channels \ {ch} : channel'[x] = channel[x]
  BY <1>1, TailFacts DEF TypeOK
<1>3. At(m, <<"channel", ch>>)
  BY <1>1, <1>2 DEF At
<1>4. /\ post[m] = "acked"
      /\ \A x \in Channels \ {ch} : m \notin Range(channel[x])
      /\ \A v \in Workers : hold[v] # m
      /\ <<m, Disk>> \notin deliveries /\ m \notin stored \cup refused \cup dropped
  <2>1. post[m] = "acked" /\ \A q : At(m, q) => q = <<"channel", ch>>
    BY <1>2, <1>3, Only
  <2> QED
    BY <2>1, Zenon DEF At
<1>5. hold'[w] = m /\ \A v \in Workers \ {w} : hold'[v] = hold[v]
  BY <1>1 DEF TypeOK
<1>6. \A x \in Messages \ {m} : post'[x] = post[x] /\ \A p : At(x, p)' <=> At(x, p)
  BY <1>1, <1>2, <1>5, Untouched, ChatPipelineAssumption
<1>7. At(m, <<"worker", w>>)' /\ \A p : At(m, p)' => p = <<"worker", w>>
  BY <1>1, <1>2, <1>4, <1>5, Zenon DEF At
<1>8. PlaceInv'
  BY <1>1, <1>2, <1>4, <1>6, <1>7, Moved, Zenon
<1>9. \A x \in Channels : IsInjective(channel'[x])
  BY <1>2
<1> QED
  BY <1>1, <1>8, <1>9 DEF ctxDone

\* A worker passes on or drops the message it holds, or a fanout worker starts
\* the goroutines for it.
LEMMA HeldMoves ==
  ASSUME TypeOK, ConservationInv, RegistryInv, ClosedInv, NEW w \in Workers,
         (Forward(w) /\ w \in Stages) \/ (Abandon(w) /\ w \in Stages) \/ Fanout(w)
  PROVE  ConservationInv'
<1> USE DEF engineVars, registryVars, sinkVars, ConservationInv
<1>1. CASE hold[w] = Nobody
  <2>1. Abandon(w) /\ Held(w) = {} /\ hold' = hold
    BY <1>1, Zenon DEF Forward, Abandon, Fanout, Held, TypeOK
  <2> QED
    BY <2>1, SMTT(20) DEF Abandon, PlaceInv, At, ctxDone
<1>2. CASE hold[w] # Nobody
  <2> PICK m \in Messages : m = hold[w]
    BY <1>2 DEF TypeOK
  <2>1. /\ UNCHANGED <<post, stored, refused, phase>> /\ hold' = [hold EXCEPT ![w] = Nobody]
    BY Zenon DEF Forward, Abandon, Fanout
  <2>2. At(m, <<"worker", w>>)
    BY DEF At
  <2>3. /\ post[m] = "acked"
        /\ \A ch \in Channels : m \notin Range(channel[ch])
        /\ \A v \in Workers \ {w} : hold[v] # m
        /\ <<m, Disk>> \notin deliveries /\ m \notin stored \cup refused \cup dropped
    <3>1. post[m] = "acked" /\ \A q : At(m, q) => q = <<"worker", w>>
      BY <2>2, Only, Zenon
    <3> QED
      BY <3>1, Zenon DEF At
  <2>4. hold'[w] = Nobody /\ m # Nobody /\ \A v \in Workers \ {w} : hold'[v] = hold[v]
    BY <2>1, <1>2, Zenon DEF TypeOK
  <2>5. CASE Forward(w) /\ w \in Stages
    <3> DEFINE ch == Out(w)
    <3>1. /\ ch \in Channels /\ channel[ch] \in Seq(Messages)
          /\ channel' = [channel EXCEPT ![ch] = Append(channel[ch], m)]
          /\ UNCHANGED <<deliveries, dropped>>
      BY <2>5, Channelled, Zenon DEF Forward, TypeOK
    <3> HIDE DEF ch
    <3>2. /\ Range(channel'[ch]) = Range(channel[ch]) \cup {m} /\ IsInjective(channel'[ch])
          /\ \A x \in Channels \ {ch} : channel'[x] = channel[x]
      BY <3>1, <2>3, AppendFacts DEF TypeOK
    <3>3. \A x \in Messages \ {m} : post'[x] = post[x] /\ \A p : At(x, p)' <=> At(x, p)
      BY <2>1, <2>4, <3>1, <3>2, Untouched, ChatPipelineAssumption
    <3>4. At(m, <<"channel", ch>>)' /\ \A p : At(m, p)' => p = <<"channel", ch>>
      BY <2>1, <2>3, <2>4, <3>1, <3>2 DEF At
    <3>5. PlaceInv'
      BY <2>1, <2>3, <3>3, <3>4, Moved, Zenon
    <3>6. \A x \in Channels : IsInjective(channel'[x])
      BY <3>2, Zenon
    <3> QED
      BY <2>1, <3>1, <3>5, <3>6, Zenon DEF ctxDone
  <2>6. CASE Abandon(w) /\ w \in Stages
    <3>1. dropped' = dropped \cup {m} /\ UNCHANGED <<channel, deliveries>>
      BY <2>6, <1>2, Zenon DEF Abandon, Held
    <3>2. ctxDone
      <4>1. Out(w) \in closed => ctxDone
        BY Zenon DEF ClosedInv, ctxDone
      <4> QED
        BY <2>6, <4>1, Zenon DEF Abandon
    <3>3. \A x \in Messages \ {m} : post'[x] = post[x] /\ \A p : At(x, p)' <=> At(x, p)
      BY <2>1, <2>4, <3>1, Untouched, ChatPipelineAssumption, Zenon
    <3>4. At(m, <<"outcome", "dropped">>)' /\ \A p : At(m, p)' => p = <<"outcome", "dropped">>
      BY <2>1, <2>3, <2>4, <3>1, Zenon DEF At
    <3>5. PlaceInv'
      BY <2>1, <2>3, <3>3, <3>4, Moved, Zenon
    <3> QED
      BY <2>1, <3>1, <3>2, <3>5 DEF ctxDone
  <2>7. CASE Fanout(w)
    <3>1. /\ deliveries' = deliveries \cup ({m} \X Sinks(m)) /\ Disk \in Sinks(m)
          /\ UNCHANGED <<channel, dropped>>
      BY <2>7, Zenon DEF Fanout, Sinks
    <3>2. <<m, Disk>> \in deliveries' /\
          \A x \in Messages \ {m} : <<x, Disk>> \in deliveries' <=> <<x, Disk>> \in deliveries
      BY <3>1, Zenon
    <3>3. \A x \in Messages \ {m} : post'[x] = post[x] /\ \A p : At(x, p)' <=> At(x, p)
      BY <2>1, <2>4, <3>1, <3>2, Untouched, ChatPipelineAssumption, Zenon
    <3>4. At(m, <<"outcome", "due">>)' /\ \A p : At(m, p)' => p = <<"outcome", "due">>
      BY <2>1, <2>3, <2>4, <3>1, <3>2, Zenon DEF At
    <3>5. PlaceInv'
      BY <2>1, <2>3, <3>3, <3>4, Moved, Zenon
    <3> QED
      BY <2>1, <3>1, <3>5, Zenon DEF ctxDone
  <2> QED
    BY <2>5, <2>6, <2>7, Zenon
<1> QED
  BY <1>1, <1>2

\* The DiskSink's goroutine settles the message it was started for.
LEMMA StoreMoves ==
  ASSUME TypeOK, ConservationInv, NEW m \in Messages, NEW ok \in BOOLEAN, StoreMessage(m, ok)
  PROVE  ConservationInv'
<1> USE DEF engineVars, registryVars, sinkVars, ConservationInv
<1>1. At(m, <<"outcome", "due">>)
  BY Zenon DEF StoreMessage, At
<1>2. /\ post[m] = "acked"
      /\ \A ch \in Channels : m \notin Range(channel[ch])
      /\ \A v \in Workers : hold[v] # m
      /\ m \notin stored \cup refused \cup dropped
  <2>1. post[m] = "acked" /\ \A q : At(m, q) => q = <<"outcome", "due">>
    BY <1>1, Only
  <2> QED
    BY <2>1, Zenon DEF At
<1>3. /\ UNCHANGED <<post, channel, hold, dropped, phase>>
      /\ deliveries' = deliveries \ {<<m, Disk>>}
      /\ stored' = (IF ok THEN stored \cup {m} ELSE stored)
      /\ refused' = (IF ok THEN refused ELSE refused \cup {m})
  BY DEF StoreMessage
<1> DEFINE q == IF ok THEN <<"outcome", "stored">> ELSE <<"outcome", "refused">>
<1>4. At(m, q)' /\ \A p : At(m, p)' => p = q
  BY <1>2, <1>3, Zenon DEF At
<1>5. \A x \in Messages \ {m} : post'[x] = post[x] /\ \A p : At(x, p)' <=> At(x, p)
  BY <1>3, Untouched, Zenon
<1> HIDE DEF q
<1>6. PlaceInv'
  BY <1>2, <1>3, <1>4, <1>5, Moved, Zenon
<1> QED
  BY <1>3, <1>6 DEF ctxDone

\* No step loses, doubles or invents a message.
LEMMA ConservationStep ==
  TypeOK /\ ConservationInv /\ RegistryInv /\ ClosedInv /\ [Next]_vars => ConservationInv'
<1> SUFFICES ASSUME TypeOK, ConservationInv, RegistryInv, ClosedInv, [Next]_vars
             PROVE  ConservationInv'
  OBVIOUS
<1> USE DEF engineVars, registryVars, sinkVars
<1>1. ASSUME NEW m \in Messages, PostMessage(m) \/ Reject(m) PROVE ConservationInv'
  <2>1. /\ post[m] # "acked" /\ post'[m] # "acked"
        /\ \A x \in Messages \ {m} : post'[x] = post[x]
        /\ UNCHANGED <<channel, hold, deliveries, stored, refused, dropped, phase>>
    BY <1>1, Zenon DEF PostMessage, Reject, TypeOK
  <2> QED
    BY <2>1, SMTT(20) DEF ConservationInv, PlaceInv, At, ctxDone
<1>2. ASSUME NEW m \in Messages, NEW c \in Conns, NEW delivered \in BOOLEAN,
             Consume(m, c, delivered)
      PROVE  ConservationInv'
  <2>1. /\ UNCHANGED <<post, channel, hold, stored, refused, dropped, phase>>
        /\ \A x : <<x, Disk>> \in deliveries' <=> <<x, Disk>> \in deliveries
    BY <1>2, ChatPipelineAssumption, Zenon DEF Consume
  <2> QED
    BY <2>1 DEF ConservationInv, PlaceInv, At, ctxDone
<1>3. CASE Signal \/ GracefulStop \/ Stop \/ Exit
  <2>1. /\ UNCHANGED <<post, channel, hold, deliveries, stored, refused, dropped>>
        /\ ctxDone => ctxDone'
    BY <1>3, Zenon DEF Signal, GracefulStop, Stop, Close, Exit, Advance, ctxDone
  <2> QED
    BY <2>1, SMTT(20) DEF ConservationInv, PlaceInv, At
<1>4. CASE UNCHANGED <<post, channel, hold, deliveries, stored, refused, dropped, phase>>
  BY <1>4, SMTT(20) DEF ConservationInv, PlaceInv, At, ctxDone
<1>5. CASE \/ \E w \in Workers : Finish(w)
           \/ \E w \in PoolWorkers : ConcurrentMapAccess(w)
           \/ \E c \in Conns : Connect(c) \/ Subscribe(c) \/ Send(c) \/ Unsubscribe(c)
           \/ UNCHANGED vars
  BY <1>4, <1>5, Zenon DEF Finish, ConcurrentMapAccess, Connect, Subscribe, Send, Unsubscribe, vars
<1> QED
  BY <1>1, <1>2, <1>3, <1>5, EnqueueMoves, TakeMoves, HeldMoves, StoreMoves, Channelled, Zenon DEF Next

\* What the engine knows about itself in every reachable state.
IInv == TypeOK /\ ClosedInv /\ RegistryInv /\ ConservationInv

\* The inductive invariant holds before the first call.
LEMMA InitIInv == Init => IInv
<1> SUFFICES ASSUME Init PROVE ClosedInv /\ ConservationInv
  BY InitTypes, InitRegistry DEF IInv
<1>1. \A ch \in Channels : Range(channel[ch]) = {} /\ IsInjective(channel[ch])
  <2>1. \A ch \in Channels : channel[ch] = <<>>
    BY Zenon DEF Init
  <2>2. DOMAIN <<>> = {}
    OBVIOUS
  <2>3. Range(<<>>) = {} /\ IsInjective(<<>>)
    BY <2>2, Zenon DEF Range, IsInjective
  <2> QED
    BY <2>1, <2>3, Zenon
<1>2. \A p : \A m \in Messages : ~At(m, p)
  BY <1>1, ChatPipelineAssumption, Zenon DEF Init, At
<1> QED
  BY <1>1, <1>2, Zenon DEF Init, ClosedInv, ConservationInv, PlaceInv

\* The inductive invariant is kept: each part by its own lemma above.
LEMMA NextIInv == IInv /\ [Next]_vars => IInv'
BY TypeStep, ClosedStep, RegistryStep, ConservationStep DEF IInv

\* The registry, the channels and the places of the messages agree in every
\* state that PostMessage, the workers, the streams and Stop can reach.
THEOREM Invariance == Spec => []IInv
BY InitIInv, NextIInv, PTL DEF Spec

\* No message is lost, duplicated or invented between PostMessage and the
\* repository, however many workers compete for the channels, except by
\* workers that stop during the shutdown.
THEOREM MessagesAreConserved == Spec => []MessageConservation
<1>1. IInv => MessageConservation
  BY ConservationHolds DEF IInv
<1> QED
  BY <1>1, Invariance, PTL

-----------------------------------------------------------------------------
(* The engine implements MessageDelivery.                                  *)

\* The goroutines of Fanout have been started for m.
Fanned(m) == <<m, Disk>> \in deliveries \/ m \in stored \/ m \in refused

\* What is on its way to a participant, or was sent, is a message of the own
\* room that was fanned out, and it is on one leg of the way.
SeenAt(c, m) ==
  /\ <<m, c>> \in deliveries \/ m \in Range(buffer[c]) \cup Range(received[c]) =>
       Fanned(m) /\ Room[c] = Room[m]
  /\ <<m, c>> \in deliveries => m \notin Range(buffer[c]) \cup Range(received[c])
  /\ m \in Range(buffer[c]) => m \notin Range(received[c])
  /\ IsInjective(buffer[c])
SeenInv == \A c \in Conns, m \in Messages : SeenAt(c, m)

\* A participant receives a message once, and only from the own room.
LEMMA SeenStep == IInv /\ SeenInv /\ [Next]_vars => SeenInv'
<1> SUFFICES ASSUME IInv, SeenInv, [Next]_vars PROVE SeenInv'
  OBVIOUS
<1> USE ChatPipelineAssumption DEF engineVars, registryVars, sinkVars
<1>1. ASSUME NEW w \in FanoutWorkers, Fanout(w) PROVE SeenInv'
  <2> PICK m \in Messages : m = hold[w]
    BY <1>1, Channelled, Zenon DEF Fanout, IInv, TypeOK
  <2>1. ~Fanned(m)
    <3>1. At(m, <<"worker", w>>)
      BY Channelled, Zenon DEF At
    <3>2. \A q : At(m, q) => q = <<"worker", w>>
      BY <3>1, Only, Zenon DEF IInv, ConservationInv
    <3> QED
      BY <3>2, Zenon DEF At, Fanned
  <2>2. \A c \in Conns : c \in Sinks(m) => Room[c] = Room[m]
    BY SinksAreOpen, Zenon DEF Sinks, Open, IInv
  <2>3. deliveries' = deliveries \cup ({m} \X Sinks(m)) /\ Disk \in Sinks(m)
    BY <1>1, Zenon DEF Fanout, Sinks
  <2>4. UNCHANGED <<buffer, received, stored, refused>>
    BY <1>1, Zenon DEF Fanout
  <2>5. \A x \in Messages : (Fanned(x) => Fanned(x)') /\ Fanned(m)'
    BY <2>3, <2>4, Zenon DEF Fanned
  <2>6. \A c \in Conns, x \in Messages :
          <<x, c>> \in deliveries' <=> <<x, c>> \in deliveries \/ (x = m /\ c \in Sinks(m))
    BY <2>3, Zenon
  <2> SUFFICES ASSUME NEW c \in Conns, NEW x \in Messages PROVE SeenAt(c, x)'
    BY Zenon DEF SeenInv
  <2>7. SeenAt(c, x)
    BY Zenon DEF SeenInv
  <2>8. CASE x = m
    BY <2>1, <2>2, <2>4, <2>5, <2>6, <2>7, <2>8, Zenon DEF SeenAt
  <2>9. CASE x # m
    BY <2>4, <2>5, <2>6, <2>7, <2>9, Zenon DEF SeenAt
  <2> QED
    BY <2>8, <2>9, Zenon
<1>2. ASSUME NEW m \in Messages, NEW ok \in BOOLEAN, StoreMessage(m, ok) PROVE SeenInv'
  <2>1. /\ \A c \in Conns, x \in Messages : <<x, c>> \in deliveries' <=> <<x, c>> \in deliveries
        /\ \A x \in Messages : Fanned(x) => Fanned(x)'
        /\ UNCHANGED <<buffer, received>>
    BY <1>2, Zenon DEF StoreMessage, Fanned
  <2> QED
    BY <2>1, Zenon DEF SeenInv, SeenAt
<1>3. ASSUME NEW m \in Messages, NEW c \in Conns, NEW delivered \in BOOLEAN,
             Consume(m, c, delivered)
      PROVE  SeenInv'
  <2>1. /\ <<m, c>> \in deliveries /\ UNCHANGED <<received, stored, refused>>
        /\ \A d \in Conns, x \in Messages :
             <<x, d>> \in deliveries' <=> <<x, d>> \in deliveries /\ <<x, d>> # <<m, c>>
        /\ \A x \in Messages : Fanned(x)' <=> Fanned(x)
    BY <1>3, Zenon DEF Consume, Fanned
  <2>2. \A d \in Conns \ {c} : buffer'[d] = buffer[d]
    BY <1>3, Zenon DEF Consume, IInv, TypeOK
  <2>3. CASE buffer' = buffer
    BY <2>1, <2>3, Zenon DEF SeenInv, SeenAt
  <2>4. CASE buffer' = [buffer EXCEPT ![c] = Append(buffer[c], m)]
    <3>1. Range(buffer'[c]) = Range(buffer[c]) \cup {m} /\ IsInjective(buffer'[c])
      BY <2>1, <2>4, AppendFacts DEF SeenInv, SeenAt, IInv, TypeOK
    <3>2. ASSUME NEW x \in Messages PROVE SeenAt(c, x)'
      <4>1. SeenAt(c, x) /\ SeenAt(c, m)
        BY Zenon DEF SeenInv
      <4>2. <<x, c>> \in deliveries' => <<x, c>> \in deliveries /\ x # m
        BY <2>1, Zenon
      <4> QED
        BY <2>1, <3>1, <4>1, <4>2, Zenon DEF SeenAt
    <3>3. ASSUME NEW d \in Conns \ {c}, NEW x \in Messages PROVE SeenAt(d, x)'
      <4>1. SeenAt(d, x) /\ buffer'[d] = buffer[d]
        BY <2>2, Zenon DEF SeenInv
      <4> QED
        BY <2>1, <4>1, Zenon DEF SeenAt
    <3> QED
      BY <3>2, <3>3, Zenon DEF SeenInv
  <2> QED
    BY <1>3, <2>3, <2>4, Zenon DEF Consume
<1>4. ASSUME NEW c \in Conns, Send(c) PROVE SeenInv'
  <2> PICK m : m = Head(buffer[c])
    OBVIOUS
  <2>1. /\ buffer[c] \in Seq(Messages) /\ received[c] \in Seq(Messages) /\ buffer[c] # <<>>
        /\ buffer'[c] = Tail(buffer[c]) /\ received'[c] = Append(received[c], m)
        /\ \A d \in Conns \ {c} : buffer'[d] = buffer[d] /\ received'[d] = received[d]
        /\ UNCHANGED <<deliveries, stored, refused>>
    BY <1>4, Zenon DEF Send, IInv, TypeOK
  <2>2. IsInjective(buffer[c])
    BY <2>1, TailFacts, Zenon DEF SeenInv, SeenAt
  <2>3. /\ m \in Messages /\ Range(buffer[c]) = Range(buffer'[c]) \cup {m}
        /\ m \notin Range(buffer'[c]) /\ IsInjective(buffer'[c])
    BY <2>1, <2>2, TailFacts
  <2>4. Range(received'[c]) = Range(received[c]) \cup {m}
    BY <2>1, <2>3, AppendFacts
  <2>5. \A x \in Messages : Fanned(x)' <=> Fanned(x)
    BY <2>1, Zenon DEF Fanned
  <2> SUFFICES ASSUME NEW d \in Conns, NEW x \in Messages PROVE SeenAt(d, x)'
    BY Zenon DEF SeenInv
  <2>6. SeenAt(d, x)
    BY Zenon DEF SeenInv
  <2>7. CASE d = c
    BY <2>1, <2>3, <2>4, <2>5, <2>6, <2>7, Zenon DEF SeenAt
  <2>8. CASE d # c
    BY <2>1, <2>5, <2>6, <2>8, Zenon DEF SeenAt
  <2> QED
    BY <2>7, <2>8, Zenon
<1>5. CASE UNCHANGED sinkVars
  BY <1>5, Zenon DEF SeenInv, SeenAt, Fanned
<1> QED
  BY <1>1, <1>2, <1>3, <1>4, <1>5, Zenon
     DEF Next, PostMessage, Enqueue, Reject, Take, Finish, Forward, Abandon, ConcurrentMapAccess,
         Connect, Subscribe, Unsubscribe, Signal, GracefulStop, Stop, Close, Exit, vars

\* Nobody has received anything at first.
LEMMA InitSeen == Init => SeenInv
BY DEF Init, SeenInv, SeenAt, Range, IsInjective

\* Where a message is decides its status.
StatusInv ==
  \A m \in Messages :
    /\ \A ch \in Channels : m \in Range(channel[ch]) => Status(m) = "accepted"
    /\ \A w \in Workers : hold[w] = m => Status(m) = "accepted"
    /\ <<m, Disk>> \in deliveries => Status(m) = "accepted"
    /\ m \in stored => Status(m) = "stored"
    /\ m \in refused => Status(m) = "failed"
    /\ m \in dropped => Status(m) = "lost"
    /\ post[m] \in {"new", "posting"} => Status(m) = "new"
    /\ post[m] = "rejected" => Status(m) = "rejected"

\* The place of a message in the engine decides its status.
LEMMA StatusHolds == IInv => StatusInv
<1> SUFFICES ASSUME IInv, NEW m \in Messages PROVE StatusInv!(m)
  BY Zenon DEF StatusInv
<1>1. ASSUME NEW p, At(m, p) PROVE post[m] = "acked" /\ \A q : At(m, q) => q = p
  BY <1>1, Only DEF IInv, ConservationInv
<1>2. \A ch \in Channels : m \in Range(channel[ch]) => At(m, <<"channel", ch>>)
  BY DEF At
<1>3. \A w \in Workers : hold[w] = m => At(m, <<"worker", w>>)
  BY DEF At
<1>4. /\ <<m, Disk>> \in deliveries => At(m, <<"outcome", "due">>)
      /\ m \in stored => At(m, <<"outcome", "stored">>)
      /\ m \in refused => At(m, <<"outcome", "refused">>)
      /\ m \in dropped => At(m, <<"outcome", "dropped">>)
  BY Zenon DEF At
<1>5. /\ \A ch \in Channels : m \in Range(channel[ch]) => Status(m) = "accepted"
      /\ \A w \in Workers : hold[w] = m => Status(m) = "accepted"
  BY <1>1, <1>2, <1>3, <1>4, Zenon DEF Status
<1>6. /\ <<m, Disk>> \in deliveries => Status(m) = "accepted"
      /\ m \in stored => Status(m) = "stored"
      /\ m \in refused => Status(m) = "failed"
      /\ m \in dropped => Status(m) = "lost"
  BY <1>1, <1>4 DEF Status
<1>7. post[m] # "acked" => m \notin stored \cup refused \cup dropped
  BY <1>1, <1>4
<1>8. post[m] = "posting" => Status(m) = "new"
  BY <1>7 DEF Status
<1>9. post[m] \in {"new", "rejected"} => Status(m) = post[m]
  BY <1>7 DEF Status
<1> QED
  BY <1>5, <1>6, <1>8, <1>9, Zenon

\* The same in the state after a step.
LEMMA StatusHoldsNext == IInv' => StatusInv'
BY StatusHolds, PTL

\* Every step of the engine is a step of the delivery or leaves it alone.
LEMMA DeliveryStep == IInv /\ IInv' /\ SeenInv /\ [Next]_vars => [Delivery!Next]_Delivery!vars
<1> SUFFICES ASSUME IInv, IInv', SeenInv, [Next]_vars
             PROVE  Delivery!Next \/ UNCHANGED Delivery!vars
  OBVIOUS
<1> USE DEF engineVars, registryVars, sinkVars
<1> DEFINE status == [m \in Messages |-> Status(m)]
<1>0. StatusInv /\ StatusInv'
  BY StatusHolds, StatusHoldsNext
<1>1. ASSUME UNCHANGED <<post, stored, refused, dropped>> PROVE UNCHANGED status
  BY <1>1 DEF Status
<1>2. ASSUME NEW m \in Messages,
             \A x \in Messages \ {m} :
               /\ post'[x] = post[x]
               /\ x \in stored' <=> x \in stored
               /\ x \in refused' <=> x \in refused
               /\ x \in dropped' <=> x \in dropped
      PROVE  status' = [status EXCEPT ![m] = Status(m)']
  <2>1. ASSUME NEW x \in Messages \ {m} PROVE Status(x)' = Status(x)
    <3>1. /\ post'[x] = post[x]
          /\ x \in stored' <=> x \in stored
          /\ x \in refused' <=> x \in refused
          /\ x \in dropped' <=> x \in dropped
      BY <1>2, Zenon
    <3> QED
      BY <3>1 DEF Status
  <2> QED
    BY <2>1, Zenon
<1>3. ASSUME UNCHANGED <<post, stored, refused, dropped, received, phase>>
      PROVE  UNCHANGED Delivery!vars
  BY <1>1, <1>3, Zenon DEF Delivery!vars, ctxDone
<1>4. ASSUME NEW m \in Messages, PostMessage(m) PROVE UNCHANGED Delivery!vars
  <2>1. /\ post[m] = "new" /\ post'[m] = "posting"
        /\ \A x \in Messages \ {m} : post'[x] = post[x]
        /\ UNCHANGED <<stored, refused, dropped, received, phase>>
    BY <1>4 DEF PostMessage, IInv, TypeOK
  <2>2. Status(m) = "new" /\ Status(m)' = "new"
    BY <1>0, <2>1, Zenon DEF StatusInv
  <2>3. UNCHANGED status
    BY <1>2, <2>1, <2>2, Zenon
  <2> QED
    BY <2>1, <2>3, Zenon DEF Delivery!vars, ctxDone
<1>5. ASSUME NEW m \in Messages, Enqueue(m), ~UNCHANGED post PROVE Delivery!Next
  <2>1. /\ post[m] = "posting" /\ \A x \in Messages \ {m} : post'[x] = post[x]
        /\ channel'["globalCommands"] = Append(channel["globalCommands"], m)
        /\ UNCHANGED <<stored, refused, dropped, received, phase>>
    BY <1>5 DEF Enqueue, IInv, TypeOK, Channels
  <2>2. m \in Range(channel'["globalCommands"])
    BY <2>1, AppendFacts DEF IInv, TypeOK, Channels
  <2>3. Status(m) = "new" /\ Status(m)' = "accepted"
    BY <1>0, <2>1, <2>2, Zenon DEF StatusInv, Channels
  <2>4. status[m] = "new" /\ status' = [status EXCEPT ![m] = "accepted"]
    BY <1>2, <2>1, <2>3, Zenon
  <2>5. Delivery!Settle(m, "new", "accepted")
    BY <2>1, <2>4, Zenon DEF Delivery!Settle, ctxDone
  <2> QED
    BY <2>5 DEF Delivery!Next
<1>6. ASSUME NEW m \in Messages, Reject(m) PROVE Delivery!Next
  <2>1. /\ post[m] = "posting" /\ post'[m] = "rejected"
        /\ \A x \in Messages \ {m} : post'[x] = post[x]
        /\ UNCHANGED <<stored, refused, dropped, received, phase>>
    BY <1>6 DEF Reject, IInv, TypeOK
  <2>2. Status(m) = "new" /\ Status(m)' = "rejected"
    BY <1>0, <2>1, Zenon DEF StatusInv
  <2>3. status[m] = "new" /\ status' = [status EXCEPT ![m] = "rejected"]
    BY <1>2, <2>1, <2>2, Zenon
  <2>4. Delivery!Settle(m, "new", "rejected")
    BY <2>1, <2>3, Zenon DEF Delivery!Settle, ctxDone
  <2> QED
    BY <2>4, Zenon DEF Delivery!Next
<1>7. ASSUME NEW m \in Messages, NEW ok \in BOOLEAN, StoreMessage(m, ok) PROVE Delivery!Next
  <2>1. /\ <<m, Disk>> \in deliveries /\ UNCHANGED <<post, dropped, received, phase>>
        /\ stored' = (IF ok THEN stored \cup {m} ELSE stored)
        /\ refused' = (IF ok THEN refused ELSE refused \cup {m})
    BY <1>7, Zenon DEF StoreMessage
  <2>2. Status(m) = "accepted" /\ Status(m)' = IF ok THEN "stored" ELSE "failed"
    BY <1>0, <2>1, Zenon DEF StatusInv
  <2>3. status[m] = "accepted" /\ status' = [status EXCEPT ![m] = Status(m)']
    BY <1>2, <2>1, <2>2, Zenon
  <2>4. Delivery!Settle(m, "accepted", "stored") \/ Delivery!Settle(m, "accepted", "failed")
    BY <2>1, <2>2, <2>3, Zenon DEF Delivery!Settle, ctxDone
  <2> QED
    BY <2>4, Zenon DEF Delivery!Next
<1>8. ASSUME NEW w \in Stages, Abandon(w) PROVE Delivery!Next \/ UNCHANGED Delivery!vars
  <2>1. UNCHANGED <<post, stored, refused, received, phase>>
    BY <1>8, Zenon DEF Abandon
  <2>2. CASE hold[w] = Nobody
    BY <1>3, <1>8, <2>1, <2>2, Zenon DEF Abandon, Held
  <2>3. CASE hold[w] # Nobody
    <3> PICK m \in Messages : m = hold[w]
      BY <2>3, Channelled, Zenon DEF IInv, TypeOK
    <3>1. dropped' = dropped \cup {m} /\ ctxDone'
      BY <1>8, <2>3, Zenon DEF Abandon, Held, IInv, ConservationInv
    <3>2. Status(m) = "accepted" /\ Status(m)' = "lost"
      BY <1>0, <3>1, Channelled, Zenon DEF StatusInv
    <3>3. status[m] = "accepted" /\ status' = [status EXCEPT ![m] = "lost"]
      BY <1>2, <2>1, <3>1, <3>2, Zenon
    <3>4. Delivery!Lose(m)
      BY <2>1, <3>1, <3>3, Zenon DEF Delivery!Lose, Delivery!Settle, ctxDone
    <3> QED
      BY <3>4, Zenon DEF Delivery!Next
  <2> QED
    BY <2>2, <2>3
<1>9. ASSUME NEW c \in Conns, Send(c) PROVE Delivery!Next
  <2> PICK m \in Messages : m = Head(buffer[c]) /\ m \in Range(buffer[c])
    BY <1>9, TailFacts, Zenon DEF Send, IInv, TypeOK
  <2>1. /\ received' = [received EXCEPT ![c] = Append(received[c], m)]
        /\ UNCHANGED <<post, stored, refused, dropped, phase>>
    BY <1>9, Zenon DEF Send
  <2>2. Fanned(m) /\ InRoom(c, m) /\ m \notin Range(received[c])
    BY Zenon DEF SeenInv, SeenAt, InRoom
  <2>3. Status(m) \in {"accepted", "stored", "failed"}
    BY <1>0, <2>2, Zenon DEF StatusInv, Fanned
  <2>4. UNCHANGED status
    BY <1>1, <2>1, Zenon
  <2>5. Delivery!See(c, m)
    BY <2>1, <2>2, <2>3, <2>4, Zenon DEF Delivery!See, Delivery!Range, Range, ctxDone
  <2> QED
    BY <2>5, Zenon DEF Delivery!Next
<1>10. CASE Signal
  <2>1. /\ UNCHANGED <<post, stored, refused, dropped, received>> /\ ctxDone'
    BY <1>10 DEF Signal, Advance, ctxDone
  <2> QED
    BY <1>1, <2>1, Zenon DEF Delivery!Next, Delivery!Shutdown
<1>11. CASE GracefulStop \/ Stop \/ Exit
  <2>1. /\ UNCHANGED <<post, stored, refused, dropped, received>> /\ ctxDone' = ctxDone
    BY <1>11, Zenon DEF GracefulStop, Stop, Close, Exit, Advance, ctxDone
  <2> QED
    BY <1>1, <2>1 DEF Delivery!vars
<1>12. CASE \E m \in Messages : Enqueue(m) /\ UNCHANGED post
  BY <1>3, <1>12, Zenon DEF Enqueue
<1>13. CASE \/ \E w \in Workers : Take(w) \/ Finish(w)
            \/ \E w \in Stages : Forward(w)
            \/ \E w \in PoolWorkers : ConcurrentMapAccess(w)
            \/ \E w \in FanoutWorkers : Fanout(w)
            \/ \E m \in Messages, c \in Conns, delivered \in BOOLEAN : Consume(m, c, delivered)
            \/ \E c \in Conns : Connect(c) \/ Subscribe(c) \/ Unsubscribe(c)
            \/ UNCHANGED vars
  BY <1>3, <1>13, Zenon
     DEF Take, Finish, Forward, ConcurrentMapAccess, Fanout, Consume, Connect, Subscribe,
         Unsubscribe, vars
<1> HIDE DEF status
<1> QED
  BY <1>4, <1>5, <1>6, <1>7, <1>8, <1>9, <1>10, <1>11, <1>12, <1>13, Zenon DEF Next

\* The engine implements MessageDelivery: a message is accepted or rejected
\* once, stored, refused or lost once, lost only after the signal, and seen by
\* a participant at most once, in the own room and after it was accepted.
THEOREM Refinement == Spec => ImplementsDelivery
<1>1. Init => Delivery!Init
  <2> SUFFICES ASSUME Init PROVE Delivery!Init
    OBVIOUS
  <2>1. \A m \in Messages : Status(m) = "new"
    BY InitIInv, StatusHolds, Zenon DEF Init, StatusInv
  <2> QED
    BY <2>1, Zenon DEF Init, Delivery!Init, ctxDone
<1> QED
  BY <1>1, DeliveryStep, InitSeen, SeenStep, Invariance, PTL
     DEF Spec, ImplementsDelivery, Delivery!Spec
=============================================================================
