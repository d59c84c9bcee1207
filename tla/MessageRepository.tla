------------------------- MODULE MessageRepository --------------------------
(***************************************************************************)
(* infrastructure/storage/message_repository.go, and ScanAnalysesByRoom of *)
(* analysis_repository.go: records under keys <room>:<time>:<id>, and the  *)
(* pages read backwards from a cursor.                                     *)
(*                                                                         *)
(* A key is a number that sorts like the text of the key: the room first,  *)
(* then the padded time, then the id.  A cursor is the part of the key     *)
(* after the room; the empty string is 0 and sorts before every key of the *)
(* room.                                                                   *)
(***************************************************************************)
EXTENDS Integers, Sequences, FiniteSets, FiniteSetsExt, SortedSets

CONSTANTS
  Messages,
  Rooms,       \* the rooms, naturals
  MaxTime,     \* bound: times are 1 .. MaxTime
  MaxId,       \* ids are 0 .. MaxId; 0 is uuid.Nil
  Limit,       \* limitMessages and badgerLimit
  Prefetch,    \* how many items Badger's iterator fetches ahead
  MaxPages     \* bound: how many pages a reader asks for

ASSUME MessageRepositoryAssumption ==
  /\ IsFiniteSet(Messages)
  /\ Rooms \subseteq Nat
  /\ MaxTime \in Nat \ {0} /\ MaxId \in Nat
  /\ Limit \in Nat \ {0} /\ Prefetch \in Nat \ {0} /\ MaxPages \in Nat

VARIABLES
  prefix,   \* which of the two repositories: the prefix of its keys
  db,       \* db[k]: the message under key k; the keys are its domain
  stored,   \* messages for which StoreMessage has returned
  reader    \* a client: the room it reads, its cursor, the keys and the
            \* messages it was given, the keys there were when it began

vars == <<prefix, db, stored, reader>>

Width == (MaxTime + 1) * (MaxId + 1)
Key(room, at, id) == room * Width + at * (MaxId + 1) + id

Offset(k) == k % Width
InRoom(k, room) == k \div Width = room

NoCursor == -1
NewReader == [room |-> 0, cursor |-> NoCursor, keys |-> <<>>, got |-> <<>>,
              pages |-> 0, done |-> FALSE, before |-> {}]

Init ==
  /\ prefix \in {"msg", "analysis"}
  /\ db = <<>>
  /\ stored = {}
  /\ reader = NewReader

Set(m, k) ==
  /\ m \notin stored
  /\ db' = [x \in DOMAIN db \cup {k} |-> IF x = k THEN m ELSE db[x]]
  /\ stored' = stored \cup {m}
  /\ UNCHANGED <<prefix, reader>>

\* The moderated message that reaches the disk has no id: it is uuid.Nil, the
\* last part of every key.
NilId == 0
StoreMessage(m, room, at) ==
  /\ prefix = "msg"
  /\ Set(m, Key(room, at, NilId))

\* The id of an analysis is that of its file, a fresh uuid.
StoreAnalysis(m, room, at, id) ==
  /\ prefix = "analysis"
  /\ \A k \in DOMAIN db : k % (MaxId + 1) # id
  /\ Set(m, Key(room, at, id))

-----------------------------------------------------------------------------
\* Reverse iteration: Seek goes to the greatest key not above the one sought,
\* and with a cursor one key is skipped when it belongs to the room.
Seek(room, cursor) ==
  room * Width + (IF cursor = NoCursor THEN Width - 1 ELSE cursor)

\* Mutants: the key of the cursor is read again; a key is always skipped.
IteratedAgain(room, cursor) == {k \in DOMAIN db : k <= Seek(room, cursor)}
IteratedAfter(room, cursor) ==
  LET from == {k \in DOMAIN db : k <= Seek(room, cursor)}
  IN  IF from = {} THEN from ELSE from \ {Max(from)}

Iterated(room, cursor) ==
  LET from == {k \in DOMAIN db : k <= Seek(room, cursor)}
  IN  IF cursor # NoCursor /\ from # {} /\ InRoom(Max(from), room)
        THEN from \ {Max(from)} ELSE from

\* The keys of the room the loop comes to, and the page it makes of them.
Ahead(room, cursor) == {k \in Iterated(room, cursor) : InRoom(k, room)}
Page(ahead) == SubSeq(Descending(ahead), 1, Min({Limit, Cardinality(ahead)}))

\* GetMessages keeps the slice Badger hands to the callback.  Once the
\* iterator has moved on it may reuse an item, and its slice, for the item it
\* fetches next, of whatever room that is.
Kept(items, i) ==
  {db[items[i]]} \cup {db[items[j]] : j \in DOMAIN items \cap {i + Prefetch}}

Read(room, page, got, cursor, done) ==
  reader' = [reader EXCEPT
    !.room = room, !.cursor = cursor, !.keys = @ \o page, !.got = @ \o got,
    !.pages = @ + 1, !.done = done,
    !.before = IF reader.pages = 0 THEN DOMAIN db ELSE @]

\* A client asks for the next page until it is told, or sees, that there is none.
Asks(room) ==
  /\ ~reader.done /\ reader.pages < MaxPages
  /\ reader.pages > 0 => room = reader.room

\* The cursor of an empty page is the empty string; only an empty page tells
\* that nothing is left.
GetMessages(room) ==
  /\ prefix = "msg"
  /\ Asks(room)
  /\ LET ahead == Ahead(room, reader.cursor)
         page == Page(ahead)
     IN  \E got \in [DOMAIN page -> stored] :
           /\ \A i \in DOMAIN page : got[i] \in Kept(Descending(Iterated(room, reader.cursor)), i)
           /\ Read(room, page, got, IF page = <<>> THEN 0 ELSE Offset(page[Len(page)]), page = <<>>)
  /\ UNCHANGED <<prefix, db, stored>>

\* A record is decoded in the callback.  The cursor is nil when nothing is left.
ScanAnalysesByRoom(room) ==
  /\ prefix = "analysis"
  /\ Asks(room)
  /\ LET ahead == Ahead(room, reader.cursor)
         page == Page(ahead)
         hasMore == Cardinality(ahead) > Limit
     IN  Read(room, page, [i \in DOMAIN page |-> db[page[i]]],
              IF hasMore THEN Offset(page[Len(page)]) ELSE NoCursor, ~hasMore)
  /\ UNCHANGED <<prefix, db, stored>>

Next ==
  \/ \E m \in Messages, room \in Rooms, at \in 1 .. MaxTime :
       \/ StoreMessage(m, room, at)
       \/ \E id \in 1 .. MaxId : StoreAnalysis(m, room, at, id)
  \/ \E room \in Rooms : GetMessages(room) \/ ScanAnalysesByRoom(room)

Spec == Init /\ [][Next]_vars

-----------------------------------------------------------------------------
(* The store and the reader's cursor keep the types the code gives them.    *)
TypeOK ==
  /\ prefix \in {"msg", "analysis"}
  /\ DOMAIN db \subseteq {Key(room, at, id) : room \in Rooms, at \in 1 .. MaxTime, id \in 0 .. MaxId}
  /\ \A k \in DOMAIN db : db[k] \in stored
  /\ stored \subseteq Messages
  /\ reader.cursor \in {NoCursor} \cup 0 .. (Width - 1)
  /\ reader.pages \in 0 .. MaxPages
  /\ Len(reader.keys) = Len(reader.got)

\* No slice a reader was given was used again: analyses are decoded at once, and
\* an iterator that has fetched the whole store ahead fetches nothing more.
SlicesLast == prefix = "analysis" \/ Cardinality(DOMAIN db) <= Prefetch

\* Pages read one after the other go back in time and repeat nothing, also when
\* records arrive in between: no key (the cursor's own is skipped) and, until
\* the store is larger than what Badger fetches ahead, no message under another
\* key (a value kept after Badger's callback).
PagesGoBack ==
  /\ \A i, j \in DOMAIN reader.keys : i < j => reader.keys[i] > reader.keys[j]
  /\ SlicesLast => IsInjective(reader.got)

\* A client that has paged to the end has seen every record that was in the
\* room when it began, and it never sees one of another room (the prefix).
PagingIsComplete ==
  /\ \A k \in Range(reader.keys) : InRoom(k, reader.room)
  /\ reader.done => {k \in reader.before : InRoom(k, reader.room)} \subseteq Range(reader.keys)

\* A stored message stays stored: the key is there to "prevent data loss by
\* using UUID as a collision disconnector if two messages arrive at the same
\* nanosecond".
StoredStays == \A m \in stored : \E k \in DOMAIN db : db[k] = m
=============================================================================
