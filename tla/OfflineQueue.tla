---------------------------- MODULE OfflineQueue ----------------------------
(***************************************************************************)
(* Messages written while disconnected: the offlineQueue store of          *)
(* storage.js, the two places that fill it (MessageInput and Chat) and the *)
(* flush that Chat starts when SignalR reconnects.                         *)
(*                                                                         *)
(* All tabs of the browser share the store; each has its own connection    *)
(* and at most one Chat page, all on one conversation (a flush reads only  *)
(* the conversation of its page, so others would not meet it).  An action  *)
(* is a stretch of code between two awaits.  An IndexedDB transaction is   *)
(* atomic: the browser runs those that overlap one after the other.        *)
(***************************************************************************)
EXTENDS Naturals, FiniteSets, Sequences

CONSTANTS
    Tab,             \* the tabs of one browser
    Message,         \* the messages a user writes, each at most once
    MediaMessage,    \* those with an attachment
    Device,          \* the devices each message goes to
    Capacity,        \* _maxOfflineQueueSize
    MaxDrops,        \* bound: connection losses
    Leavers,         \* bound: the tabs whose Chat page is left, once each
    MayFailToLoad    \* whether Chat may open without its participants

ASSUME OfflineQueueAssumption ==
    /\ MediaMessage \subseteq Message
    /\ Leavers \subseteq Tab
    /\ Capacity \in Nat /\ MaxDrops \in Nat
    /\ MayFailToLoad \in BOOLEAN
    /\ IsFiniteSet(Tab) /\ IsFiniteSet(Message)

VARIABLES
    queue,   \* the object store offlineQueue
    nextId,  \* its key generator
    conn,    \* the SignalR connection of each tab
    page,    \* the Chat page of each tab: "away", "chat", or "bare": open
             \*   without participants
    call,    \* MessageInput.SendMessage of each message: where it waits, in
             \*   which tab, and the type of the conversation id it will store
    flush,   \* the flush started after the n-th drop
    sent,    \* history: what the server stored of each message, and for which
             \*   devices
    missed,  \* history: the devices a flush passed over with each message
    refused, \* history: the messages whose sending failed on a connection
    drops,   \* connections lost so far
    left     \* history: the tabs whose page was left

vars == <<queue, nextId, conn, page, call, flush, sent, missed, refused, drops, left>>

Flush == 1 .. MaxDrops
Entry == [id : Nat, msg : Message, key : {"number", "string"}]

NoCall == [at |-> "unsent"]
NoFlush == [at |-> "idle"]

TypeOK ==
    /\ queue \subseteq Entry /\ nextId \in Nat
    /\ conn \in [Tab -> {"connected", "registering", "unregistered", "dropped", "closed"}]
    /\ page \in [Tab -> {"away", "chat", "bare"}]
    /\ call \in [Message -> {NoCall} \union
            [at : {"preparing", "counting", "adding", "queued", "refused", "live"},
             tab : Tab, key : {"number", "string"}]]
    /\ flush \in [Flush -> {NoFlush} \union
            [at : {"reading", "next", "encrypting", "sending", "stored", "failing",
                   "removing", "done"},
             tab : Tab, list : Seq(Entry), to : SUBSET Device, bare : BOOLEAN]]
    /\ sent \in [Message -> SUBSET (Device \X {"text", "media"})]
    /\ missed \in [Message -> SUBSET Device] /\ refused \subseteq Message
    /\ drops \in 0 .. MaxDrops /\ left \subseteq Leavers

\* Chat goes on when its participants cannot be loaded.
PageOnLoad == IF MayFailToLoad THEN {"chat", "bare"} ELSE {"chat"}

\* Every tab has just opened the conversation.
Init ==
    /\ queue = {} /\ nextId = 1
    /\ conn = [t \in Tab |-> "connected"]
    /\ page \in [Tab -> PageOnLoad]
    /\ call = [m \in Message |-> NoCall]
    /\ flush = [f \in Flush |-> NoFlush]
    /\ sent = [m \in Message |-> {}]
    /\ missed = [m \in Message |-> {}] /\ refused = {}
    /\ drops = 0 /\ left = {}

\* IsConnected is true as soon as the transport is, before the device is
\* registered again, and also when it could not be.
IsConnected(t) == conn[t] \in {"connected", "registering", "unregistered"}

\* The entries of message m in the store.
Queued(m) == {e \in queue : e.msg = m}

-----------------------------------------------------------------------------
(* Writing a message.                                                      *)

\* The user waits for one message to be taken before writing the next.
Busy(t) == \E m \in Message : /\ call[m].at \in {"preparing", "counting", "adding"}
                              /\ call[m].tab = t

\* MessageInput queues the message itself when there is no connection, with
\* the conversation id as a number.  Otherwise HandleSend has it; for media it
\* awaits the preview before it looks at the connection again.
Compose(t, m) ==
    /\ call[m] = NoCall /\ page[t] # "away" /\ ~Busy(t)
    /\ call' = [call EXCEPT ![m] =
            [at |-> IF ~IsConnected(t) THEN "counting"
                    ELSE IF m \in MediaMessage THEN "preparing" ELSE "live",
             tab |-> t, key |-> "number"]]
    /\ UNCHANGED <<queue, nextId, conn, page, flush, sent, missed, refused, drops, left>>

\* HandleSend after the preview: it queues the message with the conversation
\* id as a string if the connection was lost meanwhile.
Prepared(m) ==
    /\ call[m].at = "preparing"
    /\ call' = [call EXCEPT ![m] =
            IF IsConnected(@.tab) THEN [@ EXCEPT !.at = "live"]
            ELSE [@ EXCEPT !.at = "counting", !.key = "string"]]
    /\ UNCHANGED <<queue, nextId, conn, page, flush, sent, missed, refused, drops, left>>

\* A mutant: the capacity is compared with >.
IsFullLate == Cardinality(queue) > Capacity

IsFull == Cardinality(queue) >= Capacity

\* addToOfflineQueue, first transaction: the count.
CountQueue(m) ==
    /\ call[m].at = "counting"
    /\ call' = [call EXCEPT ![m].at = IF IsFull THEN "refused" ELSE "adding"]
    /\ UNCHANGED <<queue, nextId, conn, page, flush, sent, missed, refused, drops, left>>

\* A mutant: the store has no key generator.
EntryWithoutId(m) == [msg |-> m, key |-> call[m].key]

\* The entry that store.add makes of a message.
NewEntry(m) == [id |-> nextId, msg |-> m, key |-> call[m].key]

\* addToOfflineQueue, second transaction: the add.
AddToQueue(m) ==
    /\ call[m].at = "adding"
    /\ queue' = queue \union {NewEntry(m)}
    /\ nextId' = nextId + 1
    /\ call' = [call EXCEPT ![m].at = "queued"]
    /\ UNCHANGED <<conn, page, flush, sent, missed, refused, drops, left>>

-----------------------------------------------------------------------------
(* The connection and the page.                                            *)

\* The connection is lost: every invocation without its result fails.
Drop(t) ==
    /\ IsConnected(t) /\ drops < MaxDrops
    /\ conn' = [conn EXCEPT ![t] = "dropped"]
    /\ flush' = [f \in Flush |->
            IF flush[f].at \in {"sending", "stored"} /\ flush[f].tab = t
            THEN [flush[f] EXCEPT !.at = "failing"] ELSE flush[f]]
    /\ drops' = drops + 1
    /\ UNCHANGED <<queue, nextId, page, call, sent, missed, refused, left>>

\* The transport is back and _reconnectedHandler invokes RegisterDevice.
Reconnect(t) ==
    /\ conn[t] = "dropped"
    /\ conn' = [conn EXCEPT ![t] = "registering"]
    /\ UNCHANGED <<queue, nextId, page, call, flush, sent, missed, refused, drops, left>>

\* RegisterDevice throws: the handler ignores it, and no flush starts.
RegistrationFails(t) ==
    /\ conn[t] = "registering"
    /\ conn' = [conn EXCEPT ![t] = "unregistered"]
    /\ UNCHANGED <<queue, nextId, page, call, flush, sent, missed, refused, drops, left>>

\* WithAutomaticReconnect stops after its last delay.
GiveUp(t) ==
    /\ conn[t] = "dropped"
    /\ conn' = [conn EXCEPT ![t] = "closed"]
    /\ UNCHANGED <<queue, nextId, page, call, flush, sent, missed, refused, drops, left>>

\* A mutant: a reconnection does not start a second flush in the tab.
MayFlushOnce(t) == page[t] # "away" /\ \A f \in Flush : flush[f] # NoFlush => flush[f].tab # t

\* Whether a Chat page listens to OnReconnected.
MayFlush(t) == page[t] # "away"

\* RegisterDevice returned: OnReconnected starts a flush if a Chat page
\* listens.
Registered(t) ==
    /\ conn[t] = "registering"
    /\ conn' = [conn EXCEPT ![t] = "connected"]
    /\ IF MayFlush(t)
       THEN \E f \in Flush :
              /\ flush[f] = NoFlush
              /\ \A g \in Flush : g < f => flush[g] # NoFlush
              /\ flush' = [flush EXCEPT ![f] = [at |-> "reading", tab |-> t,
                                                list |-> <<>>, to |-> {},
                                                bare |-> page[t] = "bare"]]
       ELSE UNCHANGED flush
    /\ UNCHANGED <<queue, nextId, page, call, sent, missed, refused, drops, left>>

\* Chat opens again: a closed connection is made anew, which is no reconnection.
OpenChat(t) ==
    /\ page[t] = "away"
    /\ \E p \in PageOnLoad : page' = [page EXCEPT ![t] = p]
    /\ conn' = [conn EXCEPT ![t] = IF @ = "closed" THEN "connected" ELSE @]
    /\ UNCHANGED <<queue, nextId, call, flush, sent, missed, refused, drops, left>>

\* The user leaves the page; a flush under way goes on.
LeaveChat(t) ==
    /\ page[t] # "away" /\ ~Busy(t) /\ t \in Leavers \ left
    /\ page' = [page EXCEPT ![t] = "away"]
    /\ left' = left \union {t}
    /\ UNCHANGED <<queue, nextId, conn, call, flush, sent, missed, refused, drops>>

-----------------------------------------------------------------------------
(* FlushOfflineQueueAsync.                                                 *)

\* getOfflineQueue with the number of the conversation: an index of IndexedDB
\* does not find a string under it.
Readable == {e \in queue : e.key = "number"}

\* The entries come in the order of their keys.
ReadQueue(f) ==
    /\ flush[f].at = "reading"
    /\ \E list \in [1 .. Cardinality(Readable) -> Readable] :
         /\ \A i, j \in DOMAIN list : i < j => list[i].id < list[j].id
         /\ flush' = [flush EXCEPT ![f].at = "next", ![f].list = list]
    /\ UNCHANGED <<queue, nextId, conn, page, call, sent, missed, refused, drops, left>>

\* The rest of a flush when its first entry has been dealt with.
Onward(fl) == [fl EXCEPT !.at = "next", !.list = Tail(@), !.to = {}]

\* A mutant: the entry is removed whatever happens (a finally block).
RemoveAnyway(fl) == [fl EXCEPT !.at = "removing", !.to = {}]

\* After an exception the entry stays where it is.
AfterFailure(fl) == Onward(fl)

\* The message of the first entry.
Current(f) == Head(flush[f].list).msg

\* The next entry.  Without participants SendTextToRecipients returns without
\* sending.
NextEntry(f) ==
    /\ flush[f].at = "next"
    /\ flush' = [flush EXCEPT ![f].at =
            IF flush[f].list = <<>> THEN "done"
            ELSE IF flush[f].bare THEN "removing" ELSE "encrypting"]
    /\ missed' = IF flush[f].list # <<>> /\ flush[f].bare
                 THEN [missed EXCEPT ![Current(f)] = Device] ELSE missed
    /\ UNCHANGED <<queue, nextId, conn, page, call, sent, refused, drops, left>>

\* EncryptBytesForAllDevicesAsync skips the devices it has no session with and
\* cannot get a pre-key bundle of; the invocation that follows throws if there
\* is no connection.
Encrypted(f) ==
    /\ flush[f].at = "encrypting"
    /\ \E to \in SUBSET Device \ {{}} :
         /\ flush' = [flush EXCEPT ![f].to = to,
                ![f].at = IF IsConnected(flush[f].tab) THEN "sending" ELSE "failing"]
         /\ missed' = [missed EXCEPT ![Current(f)] = @ \union (Device \ to)]
    /\ UNCHANGED <<queue, nextId, conn, page, call, sent, refused, drops, left>>

\* The server stores the message for one more device.  What was invoked with is
\* the text of the entry, whatever is attached to it.
ServerStores(f) ==
    /\ flush[f].at = "sending"
    /\ \E d \in flush[f].to :
         /\ sent' = [sent EXCEPT ![Current(f)] = @ \union {<<d, "text">>}]
         /\ flush' = [flush EXCEPT ![f].at = "stored", ![f].to = @ \ {d}]
    /\ UNCHANGED <<queue, nextId, conn, page, call, missed, refused, drops, left>>

\* SendMessageAsync returns.
SendReturns(f) ==
    /\ flush[f].at = "stored"
    /\ flush' = [flush EXCEPT ![f].at = IF flush[f].to = {} THEN "removing" ELSE "sending"]
    /\ UNCHANGED <<queue, nextId, conn, page, call, sent, missed, refused, drops, left>>

\* An exception that no lost connection causes: the devices cannot be fetched
\* or none has a bundle, or the hub throws (the rate limit, a participant or
\* device that is no more, an error after the message was stored).
Refuse(f) ==
    /\ flush[f].at \in {"encrypting", "sending", "stored"}
    /\ flush' = [flush EXCEPT ![f].at = "failing"]
    /\ refused' = refused \union {Current(f)}
    /\ UNCHANGED <<queue, nextId, conn, page, call, sent, missed, drops, left>>

\* SendTextToRecipients throws; the loop continues with the next entry.
SendFails(f) ==
    /\ flush[f].at = "failing"
    /\ flush' = [flush EXCEPT ![f] = AfterFailure(@)]
    /\ UNCHANGED <<queue, nextId, conn, page, call, sent, missed, refused, drops, left>>

\* removeFromOfflineQueue.
RemoveEntry(f) ==
    /\ flush[f].at = "removing"
    /\ queue' = {e \in queue : e.id # Head(flush[f].list).id}
    /\ flush' = [flush EXCEPT ![f] = Onward(@)]
    /\ UNCHANGED <<nextId, conn, page, call, sent, missed, refused, drops, left>>

-----------------------------------------------------------------------------

CallStep(m) == Prepared(m) \/ CountQueue(m) \/ AddToQueue(m)

FlushStep(f) == \/ ReadQueue(f) \/ NextEntry(f) \/ Encrypted(f) \/ ServerStores(f)
                \/ SendReturns(f) \/ Refuse(f) \/ SendFails(f) \/ RemoveEntry(f)

Reconnection(t) == Reconnect(t) \/ GiveUp(t)

Next ==
    \/ \E t \in Tab, m \in Message : Compose(t, m)
    \/ \E t \in Tab : Drop(t) \/ OpenChat(t) \/ LeaveChat(t)
    \/ \E t \in Tab : Registered(t) \/ RegistrationFails(t)
    \/ \E t \in Tab : Reconnection(t)
    \/ \E m \in Message : CallStep(m)
    \/ \E f \in Flush : FlushStep(f)

\* Calls run to their end and a lost connection is retried or given up.
\* Nothing makes the user write, open a page or leave it, and nothing makes
\* the network fail.
Fairness ==
    /\ \A m \in Message : WF_vars(CallStep(m))
    /\ \A f \in Flush : WF_vars(FlushStep(f))
    /\ \A t \in Tab : WF_vars(Registered(t) \/ RegistrationFails(t)) /\ WF_vars(Reconnection(t))

Spec == Init /\ [][Next]_vars /\ Fairness

-----------------------------------------------------------------------------

\* The tabs that have put, or are putting, a message into the store.
Writers == {call[m].tab : m \in {x \in Message : call[x].at \in {"adding", "queued"}}}

\* The capacity is exceeded only by tabs that were adding when it was reached,
\* each by one message (the count and the add of addToOfflineQueue are two
\* transactions).
QueueBounded == queue # {} => Cardinality(queue) < Capacity + Cardinality(Writers)

\* The devices that have the text of message m.
Reached(m) == {d \in Device : <<d, "text">> \in sent[m]}

\* A message the user was told is queued leaves the store only when each device
\* has its text or was passed over: it could not be encrypted for, or the page
\* had loaded no participants.  Flushes may overlap, and the connection may be
\* lost, or the server refuse, between any two of their steps
\* (FlushOfflineQueueAsync, SendTextToRecipients).
NothingDiscarded ==
    \A m \in Message :
        call[m].at = "queued" => Queued(m) # {} \/ Reached(m) \union missed[m] = Device

\* Tab t has stopped reconnecting, has not been registered again, or has stopped
\* showing the conversation: none of its flushes is to come.
Stopped(t) == conn[t] \in {"closed", "unregistered"} \/ t \in left

\* A flush of tab t has still to send message m.
Listed(t, m) == \E f \in Flush : /\ flush[f] # NoFlush /\ flush[f].tab = t
                                 /\ \E i \in DOMAIN flush[f].list : flush[f].list[i].msg = m

\* A message that a flush has read leaves the store in the end, its text with
\* every device that was not passed over, however often the connection is lost
\* meanwhile; unless its sending fails on a connection, its tab is to flush no
\* more or the page is left (FlushOfflineQueueAsync and the reconnections).
ListedEventuallySent ==
    \A t \in Tab, m \in Message :
        Listed(t, m) ~> \/ Queued(m) = {} /\ Reached(m) \union missed[m] = Device
                        \/ m \in refused \/ Stopped(t)

\* A message that is queued when SignalR reconnects is sent, to the devices it
\* can be sent to (specs/008-saas-enhancements/spec.md:94;
\* FlushOfflineQueueAsync).
QueuedEventuallySent ==
    \A t \in Tab, m \in Message, f \in Flush :
        (Queued(m) # {} /\ flush[f].at = "reading" /\ flush[f].tab = t)
            ~> \/ Reached(m) \union missed[m] = Device
               \/ m \in refused \/ Stopped(t)

\* What the user wrote as message m.
Written(m) == IF m \in MediaMessage THEN "media" ELSE "text"

\* An entry is removed after it was sent, to one device at least: as the user
\* wrote it (Chat.razor:2125; FlushOfflineQueueAsync).
RemovedAfterSend ==
    \A m \in Message :
        call[m].at = "queued" =>
            Queued(m) # {} \/ \E d \in Device : <<d, Written(m)>> \in sent[m]
=============================================================================
