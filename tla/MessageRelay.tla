----------------------------- MODULE MessageRelay -----------------------------
(***************************************************************************)
(* The server's message store for one conversation: MessageRelayService    *)
(* and the ChatHub and MessagesController calls that use it.  Calls run    *)
(* concurrently, each on a database context of its own, and interleave     *)
(* between SQL statements: a tracked row is read, changed in memory and    *)
(* written back, with no row version to detect that it changed meanwhile.  *)
(***************************************************************************)
EXTENDS Integers, FiniteSets

CONSTANTS User,          \* the participants of the conversation
          Device,
          Owner,         \* Owner[d]: the user device d belongs to
          Worker,        \* calls in progress at once (a bound)
          Sender,        \* the devices that send in this instance (a bound)
          Reader,        \* the users that fetch and read in it (a bound)
          NoRow,         \* FirstOrDefaultAsync found no read pointer
          MaxMessages,   \* messages stored over time (a bound)
          MaxDeletions   \* calls that delete messages (a bound)

VARIABLES messages,      \* the rows of EncryptedMessages
          lastId,        \* ids handed out so far
          pointers,      \* pointers[u]: the ConversationReadPointer row of u
          active,        \* the devices with IsActive set
          held,          \* held[d]: ids of messages device d has received
          calls,         \* calls[w]: the call w is executing, and how far it is
          toldDelivered, \* ids whose sender got MessageDelivered
          toldRead,      \* ids whose sender got MessageRead
          overtaken,     \* history: ids of messages stored while an acknowledge-all
                         \*   of their device was between its query and its UPDATE
          deletions      \* deleting calls so far

vars == <<messages, lastId, pointers, active, held, calls,
          toldDelivered, toldRead, overtaken, deletions>>

ASSUME RelayAssumption ==
  /\ Owner \in [Device -> User]
  /\ MaxMessages \in Nat /\ MaxDeletions \in Nat
  /\ NoRow \notin [last : Nat, unread : Nat]

Message    == [id : Nat, from : Device, to : Device, seq : Nat, delivered : BOOLEAN]
PointerRow == [last : Nat, unread : Nat]
Pointer    == PointerRow \cup {NoRow}

Idle == [step |-> "idle"]
Call ==
  {Idle}
  \cup [step : {"store"}, from : Device, to : Device]
  \cup [step : {"count"}, from : Device, to : Device, id : Nat]
  \cup [step : {"increment"}, from : Device, to : Device, id : Nat, seen : [User -> Pointer]]
  \cup [step : {"relay"}, to : Device, id : Nat]
  \cup [step : {"query"}, user : User, upTo : Nat, seen : Pointer]
  \cup [step : {"advance"}, user : User, upTo : Nat, seen : Pointer,
        read : SUBSET Nat, unread : Nat]
  \cup [step : {"opened"}, device : Device]
  \cup [step : {"acknowledge"}, device : Device, told : SUBSET Nat]

TypeOK ==
  /\ messages \subseteq Message
  /\ \A m, n \in messages : m.id = n.id => m = n
  /\ \A m \in messages : m.id \in 1 .. lastId
  /\ lastId \in Nat /\ deletions \in Nat
  /\ pointers \in [User -> Pointer]
  /\ active \subseteq Device
  /\ held \in [Device -> SUBSET Nat]
  /\ calls \in [Worker -> Call]
  /\ toldDelivered \subseteq Nat /\ toldRead \subseteq Nat /\ overtaken \subseteq Nat

-----------------------------------------------------------------------------
ActiveDevices(u) == {d \in active : Owner[d] = u}

\* A mutant: the MAX of the messages not yet delivered.
TopUndelivered ==
  {n \in {m.seq : m \in {k \in messages : ~k.delivered}} \cup {0} :
     \A m \in messages : m.delivered \/ m.seq <= n}

\* ISNULL(MAX(SequenceNumber), 0), as the set of its one value.
TopSequence ==
  {n \in {m.seq : m \in messages} \cup {0} : \A m \in messages : m.seq <= n}

Unread(u, last) == {m \in messages : m.to \in ActiveDevices(u) /\ m.seq > last}

LastRead(row) == IF row = NoRow THEN 0 ELSE row.last

Advanced(w, call) == calls' = [calls EXCEPT ![w] = call]
Returned(w)       == Advanced(w, Idle)

Init ==
  /\ messages = {} /\ lastId = 0 /\ deletions = 0
  /\ pointers = [u \in User |-> NoRow]
  /\ active = Device
  /\ held = [d \in Device |-> {}]
  /\ calls = [w \in Worker |-> Idle]
  /\ toldDelivered = {} /\ toldRead = {} /\ overtaken = {}

-----------------------------------------------------------------------------
(* ChatHub.SendMessage: the checks, then StoreMessage, the unread counts   *)
(* and the push, each its own database round trip.                         *)
SendMessage(w, from, to) ==
  /\ calls[w] = Idle
  /\ lastId + Cardinality({v \in Worker : calls[v].step = "store"}) < MaxMessages
  /\ from \in active \cap Sender /\ to \in active /\ Owner[from] # Owner[to]
  /\ Advanced(w, [step |-> "store", from |-> from, to |-> to])
  /\ UNCHANGED <<messages, lastId, pointers, active, held,
                 toldDelivered, toldRead, overtaken, deletions>>

\* Acknowledge-all of device d has selected whom to notify, and not updated.
Acknowledging(d) == \E w \in Worker : calls[w].step = "acknowledge" /\ calls[w].device = d

\* One INSERT that computes MAX + 1 itself.
StoreMessage(w) ==
  LET c == calls[w]
  IN /\ c.step = "store"
     /\ lastId' = lastId + 1
     /\ \E top \in TopSequence :
          messages' = messages \cup
            {[id |-> lastId', from |-> c.from, to |-> c.to, seq |-> top + 1,
              delivered |-> FALSE]}
     /\ Advanced(w, [step |-> "count", from |-> c.from, to |-> c.to, id |-> lastId'])
     /\ overtaken' = IF Acknowledging(c.to) THEN overtaken \cup {lastId'} ELSE overtaken
     /\ UNCHANGED <<pointers, active, held, toldDelivered, toldRead, deletions>>

\* IncrementUnreadCountsForNewMessage reads the pointer rows ...
ReadUnreadCounts(w) ==
  LET c == calls[w]
  IN /\ c.step = "count"
     /\ Advanced(w, [step |-> "increment", from |-> c.from, to |-> c.to,
                     id |-> c.id, seen |-> pointers])
     /\ UNCHANGED <<messages, lastId, pointers, active, held,
                    toldDelivered, toldRead, overtaken, deletions>>

Inserts(u, seen) == seen = NoRow /\ pointers[u] # NoRow   \* duplicate primary key

\* ... and writes them back in one SaveChanges, which fails as a whole if a row
\* it inserts exists by now.  The message then stays stored but is not pushed.
IncrementUnreadCounts(w) ==
  LET c == calls[w]
      others == User \ {Owner[c.from]}
  IN /\ c.step = "increment"
     /\ IF \E u \in others : Inserts(u, c.seen[u])
        THEN Returned(w) /\ UNCHANGED pointers
        ELSE /\ pointers' = [u \in User |->
                  IF u \notin others THEN pointers[u]
                  ELSE IF c.seen[u] = NoRow THEN [last |-> 0, unread |-> 1]
                  ELSE [pointers[u] EXCEPT !.unread = c.seen[u].unread + 1]]
             /\ Advanced(w, [step |-> "relay", to |-> c.to, id |-> c.id])
     /\ UNCHANGED <<messages, lastId, active, held,
                    toldDelivered, toldRead, overtaken, deletions>>

\* A push to the device's SignalR group: lost unless it is connected, and
\* ignored by a page that shows another conversation.
TryRelayToOnlineRecipient(w) ==
  LET c == calls[w]
  IN /\ c.step = "relay"
     /\ held' \in {held, [held EXCEPT ![c.to] = @ \cup {c.id}]}
     /\ Returned(w)
     /\ UNCHANGED <<messages, lastId, pointers, active, toldDelivered, toldRead, overtaken,
                    deletions>>

-----------------------------------------------------------------------------
(* AdvanceReadPointer, of the hub or of POST /read: read the tracked row,  *)
(* query the messages, save the row, notify the senders.  The number named *)
(* by the client is any.                                                   *)
AdvanceReadPointer(w, u, upTo) ==
  /\ calls[w] = Idle /\ u \in Reader
  /\ Advanced(w, [step |-> "query", user |-> u, upTo |-> upTo, seen |-> pointers[u]])
  /\ UNCHANGED <<messages, lastId, pointers, active, held,
                 toldDelivered, toldRead, overtaken, deletions>>

\* A mutant: the client's number is taken as it comes.
Unclamped(upTo, top) == upTo

Clamped(upTo, top) == IF upTo <= top THEN upTo ELSE top

\* A mutant: only the same number again is refused.
ReadToThere(target, last) == target = last

AlreadyRead(target, last) == target <= last

\* A mutant: the last message of the interval is left out.
ReadBefore(u, last, target) == {m.id : m \in Unread(u, last) \ Unread(u, target - 1)}

NewlyRead(u, last, target) == {m.id : m \in Unread(u, last) \ Unread(u, target)}

RemainingUnread(u, target) == Cardinality(Unread(u, target))

QueryNewlyRead(w) ==
  LET c == calls[w]
  IN /\ c.step = "query"
     /\ \E top \in TopSequence :
          LET target == Clamped(c.upTo, top)
              last   == LastRead(c.seen)
          IN IF AlreadyRead(target, last)
             THEN Returned(w)
             ELSE Advanced(w,
                    [step |-> "advance", user |-> c.user, upTo |-> target, seen |-> c.seen,
                     read   |-> NewlyRead(c.user, last, target),
                     unread |-> RemainingUnread(c.user, target)])
     /\ UNCHANGED <<messages, lastId, pointers, active, held,
                    toldDelivered, toldRead, overtaken, deletions>>

\* The change tracker writes a column only if it differs from what was read.
SaveReadPointer(w) ==
  LET c == calls[w]
  IN /\ c.step = "advance"
     /\ Returned(w)
     /\ IF Inserts(c.user, c.seen)
        THEN UNCHANGED <<pointers, toldRead>>
        ELSE /\ pointers' = [pointers EXCEPT ![c.user] =
                  IF c.seen = NoRow \/ c.unread # c.seen.unread
                  THEN [last |-> c.upTo, unread |-> c.unread]
                  ELSE [@ EXCEPT !.last = c.upTo]]
             /\ toldRead' = toldRead \cup c.read
     /\ UNCHANGED <<messages, lastId, active, held, toldDelivered, overtaken, deletions>>

-----------------------------------------------------------------------------
(* Delivery.                                                               *)
\* A mutant: the changed row is stored beside the one that was read.
CopyDelivered(selected) ==
  messages' = messages \cup {[m EXCEPT !.delivered = TRUE] : m \in selected}

MarkDelivered(selected) ==
  messages' = {IF m \in selected THEN [m EXCEPT !.delivered = TRUE] ELSE m : m \in messages}

\* Hub.AcknowledgeDelivery of a message the device received.
AcknowledgeDelivery(d, id) ==
  /\ id \in held[d]
  /\ \E m \in messages : m.id = id
  /\ MarkDelivered({m \in messages : m.id = id})
  /\ toldDelivered' = toldDelivered \cup {id}
  /\ UNCHANGED <<lastId, pointers, active, held, calls, toldRead, overtaken, deletions>>

Pending(d) == {m \in messages : m.to = d /\ ~m.delivered}

\* A mutant: the query runs after the update and finds nothing undelivered.
ToNotifyLate(d) == {}

ToNotify(d) == {m.id : m \in Pending(d)}

\* The Chat page opens: GET pending, which may fail, and whatever came of it
\* POST acknowledge-all ...
GetPendingMessages(w, d) ==
  /\ calls[w] = Idle
  /\ d \in active /\ Owner[d] \in Reader
  /\ held' \in {held, [held EXCEPT ![d] = @ \cup {m.id : m \in Pending(d)}]}
  /\ Advanced(w, [step |-> "opened", device |-> d])
  /\ UNCHANGED <<messages, lastId, pointers, active, toldDelivered, toldRead, overtaken, deletions>>

\* ... which selects the messages to notify about, if the device is still owned,
\* and then updates whatever is pending by then.
BulkAcknowledgeDelivery(w) ==
  LET c == calls[w]
  IN /\ c.step = "opened"
     /\ IF c.device \in active
        THEN Advanced(w, [step |-> "acknowledge", device |-> c.device,
                          told |-> ToNotify(c.device)])
        ELSE Returned(w)
     /\ UNCHANGED <<messages, lastId, pointers, active, held,
                    toldDelivered, toldRead, overtaken, deletions>>

UpdateDelivered(w) ==
  LET c == calls[w]
  IN /\ c.step = "acknowledge"
     /\ MarkDelivered(Pending(c.device))
     /\ toldDelivered' = toldDelivered \cup c.told
     /\ Returned(w)
     /\ UNCHANGED <<lastId, pointers, active, held, toldRead, overtaken, deletions>>

-----------------------------------------------------------------------------
(* Devices, deletion.                                                      *)
\* RevokeDevice with CleanupDeactivatedDeviceMessages, one transaction.
RevokeDevice(d) ==
  /\ d \in active
  /\ active' = active \ {d}
  /\ MarkDelivered(Pending(d))
  /\ UNCHANGED <<lastId, pointers, held, calls, toldDelivered, toldRead, overtaken, deletions>>

Delete(gone) ==
  /\ deletions < MaxDeletions
  /\ gone # {}
  /\ messages' = messages \ gone
  /\ deletions' = deletions + 1
  /\ UNCHANGED <<lastId, pointers, active, held, calls, toldDelivered, toldRead,
                 overtaken>>

DeleteForEveryone(u, m) == Owner[m.from] = u /\ Delete({m})

\* Timestamps follow ids: a time window is an interval of ids.
ClearMessages(u, first, last) ==
  Delete({m \in messages : /\ m.id \in first .. last
                           /\ {m.from, m.to} \cap ActiveDevices(u) # {}})

\* The disappearing timer has run out for everything up to an id.
CleanupExpiredMessages(last) ==
  Delete({m \in messages : m.delivered /\ m.id <= last})

-----------------------------------------------------------------------------
Next ==
  \/ \E w \in Worker :
       \/ \E from, to \in Device : SendMessage(w, from, to)
       \/ StoreMessage(w)
       \/ ReadUnreadCounts(w)
       \/ IncrementUnreadCounts(w)
       \/ TryRelayToOnlineRecipient(w)
       \/ \E u \in User, upTo \in 1 .. MaxMessages + 1 : AdvanceReadPointer(w, u, upTo)
       \/ QueryNewlyRead(w)
       \/ SaveReadPointer(w)
       \/ \E d \in Device : GetPendingMessages(w, d)
       \/ BulkAcknowledgeDelivery(w)
       \/ UpdateDelivered(w)
  \/ \E d \in Device :
       \/ \E id \in 1 .. lastId : AcknowledgeDelivery(d, id)
       \/ RevokeDevice(d)
  \/ \E u \in User :
       \/ \E m \in messages : DeleteForEveryone(u, m)
       \/ \E first, last \in 1 .. lastId : ClearMessages(u, first, last)
  \/ \E last \in 1 .. lastId : CleanupExpiredMessages(last)

Spec == Init /\ [][Next]_vars

-----------------------------------------------------------------------------
(* Properties.                                                             *)

\* Among the messages that coexist, the order of arrival is the order of the
\* sequence numbers, and no two share one, whatever is deleted in between
\* (StoreMessage; clients sort pending messages by sequence number).
SequenceOrder ==
  \A m, n \in messages : m.id < n.id => m.seq < n.seq

\* A message is stored above the read pointer of whoever it is for: nothing is
\* read before it arrives (StoreMessage's MAX + 1, AdvanceReadPointer's clamp).
\* So it is up to the first deletion, after which MAX + 1 may give out a number
\* again that the pointer has passed.
NeverBornRead ==
  [][\A m \in messages' :
       deletions = 0 /\ m.id > lastId => m.seq > LastRead(pointers[Owner[m.to]])]_vars

\* Everything the read pointer has passed was reported to its sender: no "read"
\* mark is missing (AdvanceReadPointer notifies the interval it moved over), up
\* to the first deletion.
SendersToldRead ==
  \A m \in messages :
    deletions = 0 /\ m.to \in active /\ m.seq <= LastRead(pointers[Owner[m.to]]) => m.id \in toldRead

\* Everything marked delivered for a device still in use was reported to its
\* sender, whatever calls acknowledge the same messages at once; but for those
\* stored between the query of an acknowledge-all and its UPDATE, which may mark
\* them untold (AcknowledgeDelivery, BulkAcknowledgeDelivery).
SendersToldDelivered ==
  \A m \in messages :
    m.delivered /\ m.to \in active => m.id \in toldDelivered \cup overtaken

\* The row of u that call w is about to save is not the one it has read.
Stale(w, u) == calls[w].step = "advance" /\ calls[w].user = u /\ calls[w].seen # pointers[u]

\* The read pointer moves back only where a call saves a row that changed since
\* it was read, which a row version would refuse: the early return and the clamp
\* hold against whatever is stored, counted or read meanwhile
\* (AdvanceReadPointer, IncrementUnreadCountsForNewMessage).
OnlyStaleSavesRegress ==
  [][\A u \in User : LastRead(pointers'[u]) < LastRead(pointers[u]) =>
       \E w \in Worker : Stale(w, u) /\ calls'[w] = Idle]_vars

\* A message marked delivered for a device in use has reached it, or is about
\* to be pushed to it (BulkAcknowledgeDelivery against SendMessage).
DeliveredMeansReceived ==
  \A m \in messages :
    m.delivered /\ m.to \in active =>
      \/ m.id \in held[m.to]
      \/ \E w \in Worker :
           calls[w].step \in {"count", "increment", "relay"} /\ calls[w].id = m.id

=============================================================================
