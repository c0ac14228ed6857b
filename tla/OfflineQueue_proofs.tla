------------------------- MODULE OfflineQueue_proofs -------------------------
(***************************************************************************)
(* OfflineQueue, for any tabs, messages, devices, capacity and number of   *)
(* connection losses: types, the bound of the store, and that no queued    *)
(* message is removed before the server has its text for every device it   *)
(* could be sent to.                                                       *)
(***************************************************************************)
EXTENDS OfflineQueue, FiniteSetTheorems, SequenceTheorems, TLAPS

\* A flush that has started.
Started == [at : {"reading", "next", "encrypting", "sending", "stored", "failing",
                  "removing", "done"},
            tab : Tab, list : Seq(Entry), to : SUBSET Device, bare : BOOLEAN]

\* The places of a flush where it is dealing with the first entry of its list.
AtEntry == {"encrypting", "sending", "stored", "failing", "removing"}

\* The devices that message m was dealt with for.
Settled(m) == Reached(m) \union missed[m]

Typed ==
    /\ TypeOK
    /\ IsFiniteSet(queue)
    /\ \A f \in Flush : flush[f].at \in AtEntry => flush[f].list # <<>>

\* The entries a flush has still to deal with.
Entries(fl) == {fl.list[i] : i \in DOMAIN fl.list}

-----------------------------------------------------------------------------
(* Shapes.                                                                 *)

\* A flush that is anywhere but idle has its fields.
LEMMA StartedFlush ==
  ASSUME TypeOK, NEW f \in Flush, flush[f].at # "idle"
  PROVE  flush[f] \in Started
BY DEF TypeOK, NoFlush, Started

\* The fields of a flush that has started.
LEMMA StartedFields ==
  ASSUME NEW fl \in Started
  PROVE  /\ fl.at # "idle" /\ fl.tab \in Tab /\ fl.list \in Seq(Entry)
         /\ fl.to \in SUBSET Device /\ fl.bare \in BOOLEAN
BY DEF Started

\* A call that has begun has its fields.
LEMMA CallFields ==
  ASSUME TypeOK, NEW m \in Message, call[m].at # "unsent"
  PROVE  /\ call[m] \in [at : {"preparing", "counting", "adding", "queued", "refused", "live"},
                         tab : Tab, key : {"number", "string"}]
         /\ call[m].tab \in Tab /\ call[m].key \in {"number", "string"}
BY DEF TypeOK, NoCall

\* The rest of a list holds entries of the list.
LEMMA EntriesOfTail ==
  ASSUME NEW fl \in Started, fl.list # <<>>
  PROVE  /\ Head(fl.list) \in Entries(fl) /\ Head(fl.list) \in Entry
         /\ Onward(fl) \in Started /\ Onward(fl).at = "next"
         /\ Onward(fl).tab = fl.tab /\ Onward(fl).bare = fl.bare
         /\ Entries(Onward(fl)) \subseteq Entries(fl)
<1>1. fl.list \in Seq(Entry)
  BY StartedFields
<1>2. Len(fl.list) \in Nat \ {0} /\ DOMAIN fl.list = 1 .. Len(fl.list)
  BY <1>1, EmptySeq, LenProperties
<1>3. Head(fl.list) = fl.list[1] /\ Head(fl.list) \in Entry
  BY <1>1, HeadTailProperties
<1>4. /\ Tail(fl.list) \in Seq(Entry) /\ Len(Tail(fl.list)) = Len(fl.list) - 1
      /\ \A i \in 1 .. Len(Tail(fl.list)) : Tail(fl.list)[i] = fl.list[i + 1]
  BY <1>1, HeadTailProperties
<1>5. DOMAIN Tail(fl.list) = 1 .. Len(Tail(fl.list))
  BY <1>4, LenProperties
<1>6. /\ Onward(fl) \in Started /\ Onward(fl).at = "next" /\ Onward(fl).list = Tail(fl.list)
      /\ Onward(fl).tab = fl.tab /\ Onward(fl).bare = fl.bare
  BY <1>4 DEF Onward, Started
<1>7. Head(fl.list) \in Entries(fl)
  BY <1>2, <1>3 DEF Entries
<1>8. Entries(Onward(fl)) \subseteq Entries(fl)
  BY <1>2, <1>4, <1>5, <1>6 DEF Entries
<1>9. QED
  BY <1>3, <1>6, <1>7, <1>8

-----------------------------------------------------------------------------
(* What a step of a flush does to the flush.                               *)

\* A step of flush f makes it new: its tab and participants stay, it holds
\* nothing but what it held and what is in the store, and where it now is says
\* what it has just done.
FlushBecomes(f, new) ==
    /\ flush' = [flush EXCEPT ![f] = new]
    /\ new.tab = flush[f].tab /\ new.bare = flush[f].bare
    /\ (new.at \in AtEntry => new.list # <<>>)
    /\ Entries(new) \subseteq Entries(flush[f]) \union queue
    /\ new.at = "sending" =>
         /\ new.list = flush[f].list
         /\ \/ Encrypted(f) /\ Device \ new.to \subseteq missed'[Current(f)]
            \/ flush[f].at = "stored" /\ new.to = flush[f].to
    /\ new.at = "stored" => ServerStores(f)
    /\ new.at = "removing" =>
         /\ new.list = flush[f].list
         /\ \/ NextEntry(f) /\ Device \subseteq missed'[Current(f)]
            \/ flush[f].at = "stored" /\ flush[f].to = {}

\* What a step of a flush may do, whichever it is.
LEMMA FlushStepEffect ==
  ASSUME Typed, NEW f \in Flush, FlushStep(f)
  PROVE  \E new \in Started : FlushBecomes(f, new)
<1> DEFINE fl == flush[f]
<1>1. flush \in [Flush -> {NoFlush} \union Started]
  BY DEF Typed, TypeOK, Started
<1>2. fl.at # "idle"
  BY DEF FlushStep, ReadQueue, NextEntry, Encrypted, ServerStores, SendReturns,
     Refuse, SendFails, RemoveEntry
<1>3. fl \in Started
  BY <1>2, StartedFlush DEF Typed
<1>4. fl.at \in AtEntry => fl.list # <<>>
  BY DEF Typed
<1>5. ASSUME ReadQueue(f)
      PROVE  \E new \in Started : FlushBecomes(f, new)
  <2>1. PICK list \in [1 .. Cardinality(Readable) -> Readable] :
          flush' = [flush EXCEPT ![f].at = "next", ![f].list = list]
    BY <1>5 DEF ReadQueue
  <2> DEFINE new == [fl EXCEPT !.at = "next", !.list = list]
  <2>2. Readable \subseteq queue /\ queue \subseteq Entry
    BY DEF Readable, Typed, TypeOK
  <2>3. list \in Seq(Entry)
    <3>1. Cardinality(Readable) \in Nat
      BY <2>2, FS_Subset, FS_CardinalityType DEF Typed
    <3>2. QED
      BY <2>2, <3>1, SeqDef
  <2>4. /\ new \in Started /\ new.at = "next" /\ new.list = list
        /\ new.tab = fl.tab /\ new.bare = fl.bare
    BY <1>3, <2>3 DEF Started
  <2>5. flush' = [flush EXCEPT ![f] = new]
    BY <1>1, <2>1
  <2>6. Entries(new) \subseteq queue
    BY <2>2, <2>4 DEF Entries
  <2> HIDE DEF new
  <2>7. QED
    BY <2>4, <2>5, <2>6 DEF FlushBecomes, AtEntry
<1>6. ASSUME NextEntry(f)
      PROVE  \E new \in Started : FlushBecomes(f, new)
  <2> DEFINE new == [fl EXCEPT !.at = IF fl.list = <<>> THEN "done"
                                      ELSE IF fl.bare THEN "removing" ELSE "encrypting"]
  <2>1. flush' = [flush EXCEPT ![f] = new]
    BY <1>1, <1>6 DEF NextEntry
  <2>2. /\ new \in Started /\ new.tab = fl.tab /\ new.bare = fl.bare /\ new.list = fl.list
        /\ \/ new.at = "done"
           \/ new.at = "removing" /\ fl.bare /\ fl.list # <<>>
           \/ new.at = "encrypting" /\ fl.list # <<>>
    BY <1>3 DEF Started
  <2>3. Entries(new) = Entries(fl)
    BY <2>2 DEF Entries
  <2>4. new.at = "removing" => Device \subseteq missed'[Current(f)]
    <3>1. ASSUME fl.list # <<>>
          PROVE  Current(f) \in Message
      BY <1>3, <3>1, EntriesOfTail DEF Current, Entry
    <3>2. QED
      BY <1>6, <2>2, <3>1 DEF NextEntry, Typed, TypeOK
  <2> HIDE DEF new
  <2>5. QED
    BY <1>6, <2>1, <2>2, <2>3, <2>4 DEF FlushBecomes, AtEntry
<1>11. ASSUME Encrypted(f)
       PROVE  \E new \in Started : FlushBecomes(f, new)
  <2>1. PICK to \in SUBSET Device \ {{}} :
          /\ flush' = [flush EXCEPT ![f].to = to,
                 ![f].at = IF IsConnected(flush[f].tab) THEN "sending" ELSE "failing"]
          /\ missed' = [missed EXCEPT ![Current(f)] = @ \union (Device \ to)]
    BY <1>11 DEF Encrypted
  <2> DEFINE new == [fl EXCEPT !.to = to,
                     !.at = IF IsConnected(fl.tab) THEN "sending" ELSE "failing"]
  <2>2. flush' = [flush EXCEPT ![f] = new]
    BY <1>1, <2>1
  <2>3. /\ new \in Started /\ new.at \in {"sending", "failing"} /\ new.list = fl.list
        /\ new.to = to /\ new.tab = fl.tab /\ new.bare = fl.bare
    BY <1>3 DEF Started
  <2>4. fl.list # <<>>
    BY <1>4, <1>11 DEF Encrypted, AtEntry
  <2>5. Current(f) \in Message
    BY <1>3, <2>4, EntriesOfTail DEF Current, Entry
  <2>6. Device \ to \subseteq missed'[Current(f)]
    BY <2>1, <2>5 DEF Typed, TypeOK
  <2> HIDE DEF new
  <2>7. QED
    BY <1>11, <2>2, <2>3, <2>4, <2>6 DEF FlushBecomes, Entries
<1>12. ASSUME Refuse(f)
       PROVE  \E new \in Started : FlushBecomes(f, new)
  <2> DEFINE new == [fl EXCEPT !.at = "failing"]
  <2>1. flush' = [flush EXCEPT ![f] = new]
    BY <1>1, <1>12 DEF Refuse
  <2>2. /\ new \in Started /\ new.at = "failing" /\ new.list = fl.list
        /\ new.tab = fl.tab /\ new.bare = fl.bare
    BY <1>3 DEF Started
  <2>3. fl.list # <<>>
    BY <1>4, <1>12 DEF Refuse, AtEntry
  <2> HIDE DEF new
  <2>4. QED
    BY <2>1, <2>2, <2>3 DEF FlushBecomes, Entries
<1>7. ASSUME ServerStores(f)
      PROVE  \E new \in Started : FlushBecomes(f, new)
  <2>1. PICK d \in fl.to : flush' = [flush EXCEPT ![f].at = "stored", ![f].to = @ \ {d}]
    BY <1>7 DEF ServerStores
  <2> DEFINE new == [fl EXCEPT !.at = "stored", !.to = fl.to \ {d}]
  <2>2. flush' = [flush EXCEPT ![f] = new]
    BY <1>1, <2>1
  <2>3. /\ new \in Started /\ new.at = "stored" /\ new.list = fl.list
        /\ new.tab = fl.tab /\ new.bare = fl.bare
    BY <1>3 DEF Started
  <2>4. fl.list # <<>>
    BY <1>4, <1>7 DEF ServerStores, AtEntry
  <2> HIDE DEF new
  <2>5. QED
    BY <1>7, <2>2, <2>3, <2>4 DEF FlushBecomes, Entries
<1>8. ASSUME SendReturns(f)
      PROVE  \E new \in Started : FlushBecomes(f, new)
  <2> DEFINE new == [fl EXCEPT !.at = IF fl.to = {} THEN "removing" ELSE "sending"]
  <2>1. flush' = [flush EXCEPT ![f] = new] /\ fl.at = "stored"
    BY <1>1, <1>8 DEF SendReturns
  <2>2. /\ new \in Started /\ new.list = fl.list /\ new.to = fl.to
        /\ new.tab = fl.tab /\ new.bare = fl.bare
        /\ new.at = IF fl.to = {} THEN "removing" ELSE "sending"
    BY <1>3 DEF Started
  <2>3. fl.list # <<>>
    BY <1>4, <2>1 DEF AtEntry
  <2> HIDE DEF new
  <2>4. QED
    BY <2>1, <2>2, <2>3 DEF FlushBecomes, Entries
<1>9. ASSUME SendFails(f) \/ RemoveEntry(f)
      PROVE  \E new \in Started : FlushBecomes(f, new)
  <2>1. flush' = [flush EXCEPT ![f] = Onward(fl)] /\ fl.at \in AtEntry
    BY <1>1, <1>9 DEF SendFails, RemoveEntry, AfterFailure, AtEntry
  <2>2. /\ Onward(fl) \in Started /\ Onward(fl).at = "next"
        /\ Onward(fl).tab = fl.tab /\ Onward(fl).bare = fl.bare
        /\ Entries(Onward(fl)) \subseteq Entries(fl)
    BY <1>3, <1>4, <2>1, EntriesOfTail
  <2>3. QED
    BY <2>1, <2>2 DEF FlushBecomes, AtEntry
<1>10. QED
  BY <1>5, <1>6, <1>7, <1>8, <1>9, <1>11, <1>12 DEF FlushStep

\* What a step of a flush changes besides the flush.
LEMMA FlushStepFrame ==
  ASSUME Typed, NEW f \in Flush, FlushStep(f)
  PROVE  /\ UNCHANGED <<nextId, conn, page, call, drops, left>>
         /\ sent' \in [Message -> SUBSET (Device \X {"text", "media"})]
         /\ missed' \in [Message -> SUBSET Device] /\ refused' \subseteq Message
         /\ \A m \in Message : Settled(m) \subseteq Settled(m)'
         /\ \/ queue' = queue
            \/ RemoveEntry(f) /\ queue' = {e \in queue : e.id # Head(flush[f].list).id}
<1>1. UNCHANGED <<nextId, conn, page, call, drops, left>>
  BY DEF FlushStep, ReadQueue, NextEntry, Encrypted, ServerStores, SendReturns, Refuse,
     SendFails, RemoveEntry
<1>2. /\ sent \in [Message -> SUBSET (Device \X {"text", "media"})]
      /\ missed \in [Message -> SUBSET Device] /\ refused \subseteq Message
  BY DEF Typed, TypeOK
<1>3. /\ sent' \in [Message -> SUBSET (Device \X {"text", "media"})]
      /\ \A m \in Message : sent[m] \subseteq sent'[m]
  <2>1. CASE ServerStores(f)
    <3>1. flush[f] \in Started
      BY <2>1, StartedFlush DEF ServerStores, Typed
    <3>2. PICK d \in flush[f].to :
            sent' = [sent EXCEPT ![Current(f)] = @ \union {<<d, "text">>}]
      BY <2>1 DEF ServerStores
    <3>3. <<d, "text">> \in Device \X {"text", "media"}
      BY <3>1, <3>2, StartedFields
    <3> DEFINE s == <<d, "text">>
    <3>4. sent' = [sent EXCEPT ![Current(f)] = @ \union {s}] /\ s \in Device \X {"text", "media"}
      BY <3>2, <3>3
    <3> HIDE DEF s
    <3>5. QED
      BY <1>2, <3>4
  <2>2. CASE sent' = sent
    BY <1>2, <2>2
  <2>3. QED
    BY <2>1, <2>2 DEF FlushStep, ReadQueue, NextEntry, Encrypted, SendReturns, Refuse,
       SendFails, RemoveEntry
<1>4. /\ missed' \in [Message -> SUBSET Device]
      /\ \A m \in Message : missed[m] \subseteq missed'[m]
  <2>1. CASE NextEntry(f)
    BY <1>2, <2>1 DEF NextEntry
  <2>2. CASE Encrypted(f)
    <3>1. PICK to \in SUBSET Device \ {{}} :
            missed' = [missed EXCEPT ![Current(f)] = @ \union (Device \ to)]
      BY <2>2 DEF Encrypted
    <3>2. QED
      BY <1>2, <3>1
  <2>3. CASE missed' = missed
    BY <1>2, <2>3
  <2>4. QED
    BY <2>1, <2>2, <2>3 DEF FlushStep, ReadQueue, ServerStores, SendReturns, Refuse,
       SendFails, RemoveEntry
<1>5. refused' \subseteq Message
  <2>1. CASE Refuse(f)
    <3>1. flush[f] \in Started /\ flush[f].list # <<>>
      BY <2>1, StartedFlush DEF Refuse, Typed, AtEntry
    <3>2. Current(f) \in Message
      BY <3>1, EntriesOfTail DEF Current, Entry
    <3>3. QED
      BY <1>2, <2>1, <3>2 DEF Refuse
  <2>2. CASE refused' = refused
    BY <1>2, <2>2
  <2>3. QED
    BY <2>1, <2>2 DEF FlushStep, ReadQueue, NextEntry, Encrypted, ServerStores, SendReturns,
       SendFails, RemoveEntry
<1>6. \A m \in Message : Settled(m) \subseteq Settled(m)'
  BY <1>3, <1>4 DEF Settled, Reached
<1>7. \/ queue' = queue
      \/ RemoveEntry(f) /\ queue' = {e \in queue : e.id # Head(flush[f].list).id}
  BY DEF FlushStep, ReadQueue, NextEntry, Encrypted, ServerStores, SendReturns, Refuse,
     SendFails, RemoveEntry
<1>8. QED
  BY <1>1, <1>3, <1>4, <1>5, <1>6, <1>7

-----------------------------------------------------------------------------
(* Types.                                                                  *)

\* A step of a flush keeps the types.
LEMMA TypedFlush ==
  ASSUME Typed, NEW f \in Flush, FlushStep(f)
  PROVE  Typed'
<1>1. PICK new \in Started : FlushBecomes(f, new)
  BY FlushStepEffect
<1>2. flush \in [Flush -> {NoFlush} \union Started]
  BY DEF Typed, TypeOK, Started
<1>3. flush' \in [Flush -> {NoFlush} \union Started]
  BY <1>1, <1>2 DEF FlushBecomes
<1>4. queue' \subseteq queue
  BY FlushStepFrame
<1>5. IsFiniteSet(queue')
  BY <1>4, FS_Subset DEF Typed
<1>6. TypeOK'
  BY <1>3, <1>4, FlushStepFrame DEF Typed, TypeOK, Started
<1>7. \A g \in Flush : flush'[g].at \in AtEntry => flush'[g].list # <<>>
  BY <1>1, <1>2 DEF Typed, FlushBecomes
<1>8. QED
  BY <1>5, <1>6, <1>7 DEF Typed

\* A step of a call that sends or queues a message keeps the types.
LEMMA TypedCall ==
  ASSUME Typed, NEW m \in Message, CallStep(m)
  PROVE  Typed'
<1> DEFINE Begun == [at : {"preparing", "counting", "adding", "queued", "refused", "live"},
                     tab : Tab, key : {"number", "string"}]
<1>1. call[m] \in Begun
  BY CallFields DEF CallStep, Prepared, CountQueue, AddToQueue, Typed
<1>2. call \in [Message -> {NoCall} \union Begun]
  BY DEF Typed, TypeOK
<1>3. call' \in [Message -> {NoCall} \union Begun]
  <2>1. CASE Prepared(m)
    <3>1. \/ call' = [call EXCEPT ![m] = [@ EXCEPT !.at = "live"]]
          \/ call' = [call EXCEPT ![m] = [@ EXCEPT !.at = "counting", !.key = "string"]]
      BY <1>2, <2>1 DEF Prepared
    <3>2. QED
      BY <1>1, <1>2, <3>1
  <2>2. CASE CountQueue(m)
    <3>1. \/ call' = [call EXCEPT ![m].at = "refused"]
          \/ call' = [call EXCEPT ![m].at = "adding"]
      BY <2>2 DEF CountQueue
    <3>2. QED
      BY <1>1, <1>2, <3>1
  <2>3. CASE AddToQueue(m)
    BY <1>1, <1>2, <2>3 DEF AddToQueue
  <2>4. QED
    BY <2>1, <2>2, <2>3 DEF CallStep
<1>4. queue' \subseteq Entry /\ nextId' \in Nat /\ IsFiniteSet(queue')
  <2>1. CASE AddToQueue(m)
    <3>1. NewEntry(m) \in Entry
      BY <1>1 DEF NewEntry, Entry, Typed, TypeOK
    <3>2. /\ queue' = queue \union {NewEntry(m)} /\ nextId' = nextId + 1
          /\ queue \subseteq Entry /\ nextId \in Nat /\ IsFiniteSet(queue)
      BY <2>1 DEF AddToQueue, Typed, TypeOK
    <3>3. QED
      BY <3>1, <3>2, FS_AddElement
  <2>2. CASE ~AddToQueue(m)
    BY <2>2 DEF CallStep, Prepared, CountQueue, Typed, TypeOK
  <2>3. QED
    BY <2>1, <2>2
<1>5. UNCHANGED <<conn, page, flush, sent, missed, refused, drops, left>>
  BY DEF CallStep, Prepared, CountQueue, AddToQueue
<1>6. QED
  BY <1>3, <1>4, <1>5 DEF Typed, TypeOK

\* Composing a message keeps the types.
LEMMA TypedCompose ==
  ASSUME Typed, NEW t \in Tab, NEW m \in Message, Compose(t, m)
  PROVE  Typed'
<1>1. \E at \in {"counting", "preparing", "live"} :
        call' = [call EXCEPT ![m] = [at |-> at, tab |-> t, key |-> "number"]]
  BY DEF Compose
<1>2. QED
  BY <1>1 DEF Compose, Typed, TypeOK

\* The connection lost: flushes that were invoking are failing, the others are
\* as they were.
LEMMA DropEffect ==
  ASSUME Typed, NEW t \in Tab, Drop(t)
  PROVE  /\ flush' \in [Flush -> {NoFlush} \union Started]
         /\ \A f \in Flush :
              \/ flush'[f] = flush[f]
              \/ /\ flush[f] \in Started /\ flush[f].at \in {"sending", "stored"}
                 /\ flush'[f] \in Started /\ flush'[f].at = "failing"
                 /\ flush'[f].list = flush[f].list /\ flush'[f].bare = flush[f].bare
<1>1. flush' = [f \in Flush |->
            IF flush[f].at \in {"sending", "stored"} /\ flush[f].tab = t
            THEN [flush[f] EXCEPT !.at = "failing"] ELSE flush[f]]
  BY DEF Drop
<1>2. ASSUME NEW f \in Flush, flush[f].at \in {"sending", "stored"}
      PROVE  LET new == [flush[f] EXCEPT !.at = "failing"]
             IN /\ flush[f] \in Started /\ new \in Started /\ new.at = "failing"
                /\ new.list = flush[f].list /\ new.bare = flush[f].bare
  <2>1. flush[f] \in Started
    BY <1>2, StartedFlush DEF Typed
  <2>2. QED
    BY <2>1 DEF Started
<1>3. \A f \in Flush : flush[f] \in {NoFlush} \union Started
  BY DEF Typed, TypeOK, Started
<1>4. QED
  BY <1>1, <1>2, <1>3

\* The loss of a connection keeps the types.
LEMMA TypedDrop ==
  ASSUME Typed, NEW t \in Tab, Drop(t)
  PROVE  Typed'
<1>1. drops' \in 0 .. MaxDrops
  BY OfflineQueueAssumption DEF Drop, Typed, TypeOK
<1>2. conn' \in [Tab -> {"connected", "registering", "unregistered", "dropped", "closed"}]
  BY DEF Drop, Typed, TypeOK
<1>3. TypeOK'
  BY <1>1, <1>2, DropEffect DEF Drop, Typed, TypeOK, Started
<1>4. \A f \in Flush : flush'[f].at \in AtEntry => flush'[f].list # <<>>
  BY DropEffect DEF Typed, AtEntry
<1>5. QED
  BY <1>3, <1>4 DEF Drop, Typed

\* RegisterDevice returned: at most one flush starts, with nothing read yet.
LEMMA RegisteredEffect ==
  ASSUME Typed, NEW t \in Tab, Registered(t)
  PROVE  \/ flush' = flush
         \/ \E f \in Flush, new \in Started :
              /\ flush' = [flush EXCEPT ![f] = new]
              /\ new.at = "reading" /\ new.list = <<>> /\ new.bare = (page[t] = "bare")
<1>1. CASE flush' = flush
  BY <1>1
<1>2. CASE flush' # flush
  <2> DEFINE new == [at |-> "reading", tab |-> t, list |-> <<>>, to |-> {},
                     bare |-> page[t] = "bare"]
  <2>1. PICK f \in Flush : flush' = [flush EXCEPT ![f] = new]
    BY <1>2 DEF Registered
  <2>2. new \in Started /\ new.at = "reading" /\ new.list = <<>> /\ new.bare = (page[t] = "bare")
    BY EmptySeq DEF Started
  <2> HIDE DEF new
  <2>3. QED
    BY <2>1, <2>2
<1>3. QED
  BY <1>1, <1>2

\* A device that registers again, and the flush it starts, keep the types.
LEMMA TypedRegistered ==
  ASSUME Typed, NEW t \in Tab, Registered(t)
  PROVE  Typed'
<1>1. flush \in [Flush -> {NoFlush} \union Started]
  BY DEF Typed, TypeOK, Started
<1>2. /\ flush' \in [Flush -> {NoFlush} \union Started]
      /\ \A f \in Flush : flush'[f].at \in AtEntry => flush'[f].list # <<>>
  BY <1>1, RegisteredEffect DEF Typed, AtEntry
<1>3. conn' \in [Tab -> {"connected", "registering", "unregistered", "dropped", "closed"}]
  BY DEF Registered, Typed, TypeOK
<1>4. QED
  BY <1>2, <1>3 DEF Registered, Typed, TypeOK, Started

\* Reconnections and opening and leaving the chat page keep the types.
LEMMA TypedPage ==
  ASSUME Typed, NEW t \in Tab,
         OpenChat(t) \/ LeaveChat(t) \/ Reconnection(t) \/ RegistrationFails(t)
  PROVE  Typed'
<1>1. PageOnLoad \subseteq {"away", "chat", "bare"}
  BY DEF PageOnLoad
<1>2. /\ conn' \in [Tab -> {"connected", "registering", "unregistered", "dropped", "closed"}]
      /\ page' \in [Tab -> {"away", "chat", "bare"}]
      /\ left' \subseteq Leavers
  BY <1>1 DEF OpenChat, LeaveChat, Reconnection, Reconnect, GiveUp, RegistrationFails, Typed, TypeOK
<1>3. UNCHANGED <<queue, nextId, call, flush, sent, missed, refused, drops>>
  BY DEF OpenChat, LeaveChat, Reconnection, Reconnect, GiveUp, RegistrationFails
<1>4. QED
  BY <1>2, <1>3 DEF Typed, TypeOK

\* The first state has the types.
LEMMA InitTyped ==
  ASSUME Init
  PROVE  Typed
<1>1. PageOnLoad \subseteq {"away", "chat", "bare"}
  BY DEF PageOnLoad
<1>2. TypeOK
  <2>1. page \in [Tab -> {"away", "chat", "bare"}]
    BY <1>1 DEF Init
  <2>2. drops \in 0 .. MaxDrops
    BY OfflineQueueAssumption DEF Init
  <2>3. QED
    BY <2>1, <2>2 DEF Init, TypeOK
<1>3. \A f \in Flush : flush[f].at \notin AtEntry
  BY DEF Init, NoFlush, AtEntry
<1>4. IsFiniteSet(queue)
  BY FS_EmptySet DEF Init
<1>5. QED
  BY <1>2, <1>3, <1>4 DEF Typed

\* Every step keeps the types.
LEMMA NextTyped ==
  ASSUME Typed, [Next]_vars
  PROVE  Typed'
<1>1. CASE UNCHANGED vars
  BY <1>1 DEF vars, Typed, TypeOK
<1>2. QED
  BY <1>1, TypedCompose, TypedDrop, TypedRegistered, TypedPage, TypedCall, TypedFlush DEF Next

\* The inductive form of the types, with the list of a flush as a sequence.
THEOREM AlwaysTyped == Spec => []Typed
BY InitTyped, NextTyped, PTL DEF Spec

\* The queue, the calls and the flushes of all tabs have their declared
\* shapes, for any number of tabs and messages and any capacity.
THEOREM TypeCorrect == Spec => []TypeOK
<1>1. Typed => TypeOK
  BY DEF Typed
<1>2. QED
  BY <1>1, AlwaysTyped, PTL

-----------------------------------------------------------------------------
(* Nothing is discarded.                                                   *)

\* A key names one entry for ever: the entries of a list are those in the store
\* under their keys, or are gone, and no later entry takes their keys.
Keyed ==
    /\ \A e \in queue : e.id < nextId
    /\ \A d, e \in queue : d.id = e.id => d = e
    /\ \A f \in Flush : flush[f].at # "idle" =>
         \A l \in Entries(flush[f]) : l.id < nextId /\ \A e \in queue : e.id = l.id => e = l

\* A flush has dealt with the message it is at for every device it is not to be
\* sent to any more, and for all of them if it is to be removed.
Paid ==
    \A f \in Flush :
      /\ flush[f].at \in {"sending", "stored"} =>
           Device \ flush[f].to \subseteq Settled(Head(flush[f].list).msg)
      /\ flush[f].at = "removing" => Device \subseteq Settled(Head(flush[f].list).msg)

Careful == Keyed /\ Paid /\ NothingDiscarded

\* The message of the entry a flush is dealing with.
LEMMA AtEntryHead ==
  ASSUME Typed, NEW f \in Flush, flush[f].at \in AtEntry
  PROVE  /\ flush[f] \in Started /\ flush[f].list # <<>>
         /\ Head(flush[f].list) \in Entries(flush[f])
         /\ Head(flush[f].list) \in Entry /\ Head(flush[f].list).msg \in Message
<1>1. flush[f] \in Started /\ flush[f].list # <<>>
  BY StartedFlush DEF Typed, AtEntry
<1>2. QED
  BY <1>1, EntriesOfTail DEF Entry

\* An empty list has no entries.
LEMMA NothingListed ==
  ASSUME NEW fl, fl.list = <<>>
  PROVE  Entries(fl) = {}
BY EmptySeq DEF Entries

\* Every step keeps one entry to a key, in the store and in the lists that
\* flushes have read.
LEMMA NextKeyed ==
  ASSUME Typed, Keyed, [Next]_vars
  PROVE  Keyed'
<1>1. flush \in [Flush -> {NoFlush} \union Started] /\ nextId \in Nat
  BY DEF Typed, TypeOK, Started
<1>2. ASSUME NEW f \in Flush, FlushStep(f)
      PROVE  Keyed'
  <2>1. PICK new \in Started : FlushBecomes(f, new)
    BY <1>2, FlushStepEffect
  <2>2. flush[f].at # "idle"
    BY <1>2 DEF FlushStep, ReadQueue, NextEntry, Encrypted, ServerStores, SendReturns,
       Refuse, SendFails, RemoveEntry
  <2>3. queue' \subseteq queue /\ nextId' = nextId
    BY <1>2, FlushStepFrame
  <2>4. \A l \in Entries(new) : l.id < nextId /\ \A e \in queue : e.id = l.id => e = l
    BY <2>1, <2>2 DEF Keyed, FlushBecomes
  <2>5. ASSUME NEW g \in Flush, flush'[g].at # "idle"
        PROVE  \A l \in Entries(flush'[g]) :
                 l.id < nextId /\ \A e \in queue : e.id = l.id => e = l
    BY <1>1, <2>1, <2>4, <2>5 DEF Keyed, FlushBecomes
  <2>6. \A g \in Flush : Entries(flush'[g]) = Entries(flush[g])'
    BY DEF Entries
  <2>7. QED
    BY <2>3, <2>5, <2>6 DEF Keyed
<1>3. ASSUME NEW m \in Message, AddToQueue(m)
      PROVE  Keyed'
  <2>1. /\ queue' = queue \union {NewEntry(m)} /\ nextId' = nextId + 1 /\ flush' = flush
        /\ NewEntry(m).id = nextId
    BY <1>3 DEF AddToQueue, NewEntry
  <2>2. \A e \in queue : e.id \in Nat
    BY DEF Typed, TypeOK, Entry
  <2>3. ASSUME NEW f \in Flush, flush[f].at # "idle"
        PROVE  \A l \in Entries(flush[f]) : l.id \in Nat
    <3>1. flush[f] \in Started
      BY <2>3, StartedFlush DEF Typed
    <3>2. flush[f].list \in Seq(Entry)
      BY <3>1, StartedFields
    <3>3. \A i \in DOMAIN flush[f].list : flush[f].list[i] \in Entry
      BY <3>2, LenProperties
    <3>4. QED
      BY <3>3 DEF Entries, Entry
  <2> HIDE DEF NewEntry
  <2>4. QED
    BY <1>1, <2>1, <2>2, <2>3 DEF Keyed, Entries
<1>4. ASSUME NEW t \in Tab, Drop(t)
      PROVE  Keyed'
  <2>1. /\ queue' = queue /\ nextId' = nextId
        /\ \A f \in Flush : flush'[f].at # "idle" =>
             flush[f].at # "idle" /\ flush'[f].list = flush[f].list
    BY <1>4, DropEffect DEF Drop
  <2>2. QED
    BY <2>1 DEF Keyed, Entries
<1>5. ASSUME NEW t \in Tab, Registered(t)
      PROVE  Keyed'
  <2>1. queue' = queue /\ nextId' = nextId
    BY <1>5 DEF Registered
  <2>2. CASE flush' = flush
    BY <2>1, <2>2 DEF Keyed, Entries
  <2>3. ASSUME NEW f \in Flush, NEW new \in Started,
               flush' = [flush EXCEPT ![f] = new], new.list = <<>>
        PROVE  Keyed'
    <3>1. Entries(flush[f])' = {}
      BY <1>1, <2>3, NothingListed DEF Entries
    <3>2. \A g \in Flush \ {f} : flush'[g] = flush[g]
      BY <1>1, <2>3
    <3>3. QED
      BY <2>1, <3>1, <3>2 DEF Keyed, Entries
  <2>4. QED
    BY <1>5, <2>2, <2>3, RegisteredEffect
<1>6. UNCHANGED <<queue, nextId, flush>> => Keyed'
  BY DEF Keyed, Entries
<1>7. QED
  BY <1>2, <1>3, <1>4, <1>5, <1>6 DEF Next, Compose, Reconnection, Reconnect, GiveUp,
     RegistrationFails, OpenChat, LeaveChat, CallStep, Prepared, CountQueue, vars

\* Every step keeps a flush from removing an entry before every device has its
\* text or was passed over.
LEMMA NextPaid ==
  ASSUME Typed, Paid, [Next]_vars
  PROVE  Paid'
<1>1. /\ flush \in [Flush -> {NoFlush} \union Started] /\ NoFlush.at = "idle"
      /\ sent \in [Message -> SUBSET (Device \X {"text", "media"})]
  BY DEF Typed, TypeOK, Started, NoFlush
<1>2. ASSUME NEW f \in Flush, FlushStep(f)
      PROVE  Paid'
  <2> DEFINE fl == flush[f]
             Then(m) == {d \in Device : <<d, "text">> \in sent'[m]} \union missed'[m]
             HasPaid(x) ==
               /\ x.at \in {"sending", "stored"} =>
                    Device \ x.to \subseteq Then(Head(x.list).msg)
               /\ x.at = "removing" => Device \subseteq Then(Head(x.list).msg)
  <2>1. PICK new \in Started : FlushBecomes(f, new)
    BY <1>2, FlushStepEffect
  <2>2. \A m \in Message : Settled(m) \subseteq Then(m)
    BY <1>2, FlushStepFrame DEF Settled, Reached
  <2>3. flush' = [flush EXCEPT ![f] = new]
    BY <2>1 DEF FlushBecomes
  <2>4. ASSUME new.at = "sending"
        PROVE  HasPaid(new)
    <3>1. /\ new.list = fl.list
          /\ \/ Device \ new.to \subseteq missed'[Head(fl.list).msg]
             \/ fl.at = "stored" /\ new.to = fl.to
      BY <2>1, <2>4 DEF FlushBecomes, Current
    <3>2. missed'[Head(fl.list).msg] \subseteq Then(Head(fl.list).msg)
      OBVIOUS
    <3>3. fl.at = "stored" => Head(fl.list).msg \in Message
      BY AtEntryHead DEF AtEntry
    <3>4. fl.at = "stored" => Device \ fl.to \subseteq Settled(Head(fl.list).msg)
      BY DEF Paid
    <3>5. Device \ new.to \subseteq Then(Head(fl.list).msg)
      BY <2>2, <3>1, <3>2, <3>3, <3>4
    <3>6. QED
      BY <2>4, <3>1, <3>5
  <2>5. ASSUME new.at = "stored"
        PROVE  HasPaid(new)
    <3>1. ServerStores(f)
      BY <2>1, <2>5 DEF FlushBecomes
    <3>2. PICK d \in fl.to :
            /\ sent' = [sent EXCEPT ![Current(f)] = @ \union {<<d, "text">>}]
            /\ flush' = [flush EXCEPT ![f].at = "stored", ![f].to = @ \ {d}]
      BY <3>1 DEF ServerStores
    <3>3. /\ fl \in Started /\ Head(fl.list).msg \in Message
          /\ Device \ fl.to \subseteq Settled(Head(fl.list).msg)
      BY <3>1, AtEntryHead DEF ServerStores, AtEntry, Paid
    <3>4. new = [fl EXCEPT !.at = "stored", !.to = @ \ {d}]
      BY <1>1, <2>3, <3>2
    <3>5. new.list = fl.list /\ new.to = fl.to \ {d} /\ d \in Device
      BY <3>3, <3>4, StartedFields DEF Started
    <3>6. d \in Then(Head(fl.list).msg)
      <4>1. <<d, "text">> \in sent'[Head(fl.list).msg]
        BY <1>1, <3>2, <3>3 DEF Current
      <4>2. QED
        BY <3>5, <4>1
    <3>7. Device \ new.to \subseteq Then(Head(fl.list).msg)
      BY <2>2, <3>3, <3>5, <3>6
    <3>8. QED
      BY <2>5, <3>5, <3>7
  <2>6. ASSUME new.at = "removing"
        PROVE  HasPaid(new)
    <3>1. /\ new.list = fl.list
          /\ \/ Device \subseteq missed'[Head(fl.list).msg]
             \/ fl.at = "stored" /\ fl.to = {}
      BY <2>1, <2>6 DEF FlushBecomes, Current
    <3>2. missed'[Head(fl.list).msg] \subseteq Then(Head(fl.list).msg)
      OBVIOUS
    <3>3. fl.at = "stored" => /\ Head(fl.list).msg \in Message
                              /\ Device \ fl.to \subseteq Settled(Head(fl.list).msg)
      BY AtEntryHead DEF AtEntry, Paid
    <3>4. Device \subseteq Then(Head(fl.list).msg)
      BY <2>2, <3>1, <3>2, <3>3
    <3>5. QED
      BY <2>6, <3>1, <3>4
  <2>7. HasPaid(new)
    BY <2>4, <2>5, <2>6
  <2>8. ASSUME NEW g \in Flush \ {f}
        PROVE  HasPaid(flush[g])
    <3>1. flush[g].at \in AtEntry => Head(flush[g].list).msg \in Message
      BY AtEntryHead
    <3>2. /\ flush[g].at \in {"sending", "stored"} =>
               Device \ flush[g].to \subseteq Settled(Head(flush[g].list).msg)
          /\ flush[g].at = "removing" => Device \subseteq Settled(Head(flush[g].list).msg)
      BY DEF Paid
    <3>3. QED
      BY <2>2, <3>1, <3>2 DEF AtEntry
  <2>9. flush'[f] = new /\ \A g \in Flush \ {f} : flush'[g] = flush[g]
    BY <1>1, <2>3
  <2>10. \A g \in Flush : HasPaid(flush'[g])
    <3> HIDE DEF HasPaid
    <3>1. QED
      BY <2>7, <2>8, <2>9
  <2>11. \A g \in Flush : Then(Head(flush'[g].list).msg) = Settled(Head(flush[g].list).msg)'
    BY DEF Settled, Reached
  <2>12. QED
    BY <2>10, <2>11 DEF Paid
<1>3. ASSUME UNCHANGED <<sent, missed>>,
             \A f \in Flush : \/ flush'[f] = flush[f]
                              \/ flush'[f].at \in {"failing", "reading"}
      PROVE  Paid'
  BY <1>3 DEF Paid, Settled, Reached
<1>4. ASSUME NEW t \in Tab, Drop(t)
      PROVE  Paid'
  BY <1>3, <1>4, DropEffect DEF Drop
<1>5. ASSUME NEW t \in Tab, Registered(t)
      PROVE  Paid'
  <2>1. \A f \in Flush : flush'[f] = flush[f] \/ flush'[f].at = "reading"
    BY <1>1, <1>5, RegisteredEffect
  <2>2. QED
    BY <1>3, <1>5, <2>1 DEF Registered
<1>6. UNCHANGED <<flush, sent, missed>> => Paid'
  BY <1>3
<1>7. QED
  BY <1>2, <1>4, <1>5, <1>6 DEF Next, Compose, Reconnection, Reconnect, GiveUp, RegistrationFails,
     OpenChat, LeaveChat, CallStep, Prepared, CountQueue, AddToQueue, vars

\* No step takes away an entry that is not sent.
LEMMA NextNothingDiscarded ==
  ASSUME Typed, Careful, [Next]_vars
  PROVE  NothingDiscarded'
<1>1. \A m \in Message : call[m].at = "queued" => Queued(m) # {} \/ Settled(m) = Device
  BY DEF Careful, NothingDiscarded, Settled
<1>0. missed' \in [Message -> SUBSET Device] => \A m \in Message : Settled(m)' \subseteq Device
  BY DEF Settled, Reached
<1>9. UNCHANGED <<sent, missed>> => \A m \in Message : Settled(m)' = Settled(m)
  BY DEF Settled, Reached
<1>2. ASSUME NEW f \in Flush, FlushStep(f)
      PROVE  NothingDiscarded'
  <2>1. /\ call' = call
        /\ \A m \in Message : Settled(m) \subseteq Settled(m)' /\ Settled(m)' \subseteq Device
    BY <1>0, <1>2, FlushStepFrame
  <2>2. CASE queue' = queue
    BY <1>1, <2>1, <2>2 DEF NothingDiscarded, Queued, Settled
  <2>3. ASSUME RemoveEntry(f)
        PROVE  NothingDiscarded'
    <3> DEFINE h == Head(flush[f].list)
    <3>1. /\ flush[f].at = "removing" /\ queue' = {e \in queue : e.id # h.id}
          /\ UNCHANGED <<sent, missed>>
      BY <2>3 DEF RemoveEntry
    <3>2. h \in Entries(flush[f])
      BY <3>1, AtEntryHead DEF AtEntry
    <3>3. \A e \in queue : e.id = h.id => e = h
      BY <3>1, <3>2 DEF Careful, Keyed
    <3>4. Device \subseteq Settled(h.msg)
      BY <3>1 DEF Careful, Paid
    <3>5. ASSUME NEW m \in Message, Settled(m)' # Device
          PROVE  Queued(m)' = Queued(m)
      BY <1>9, <2>1, <3>1, <3>3, <3>4, <3>5 DEF Queued
    <3>6. QED
      BY <1>1, <1>9, <2>1, <3>1, <3>5 DEF NothingDiscarded, Settled
  <2>4. QED
    BY <1>2, <2>2, <2>3, FlushStepFrame
<1>3. ASSUME NEW m \in Message, AddToQueue(m)
      PROVE  NothingDiscarded'
  <2>1. /\ queue' = queue \union {NewEntry(m)} /\ UNCHANGED <<sent, missed>>
        /\ NewEntry(m).msg = m
        /\ \A k \in Message \ {m} : call'[k] = call[k]
    BY <1>3 DEF AddToQueue, NewEntry, Typed, TypeOK
  <2> HIDE DEF NewEntry
  <2>2. QED
    BY <1>1, <1>9, <2>1 DEF NothingDiscarded, Queued, Settled
<1>4. ASSUME NEW m \in Message, Prepared(m) \/ CountQueue(m)
      PROVE  NothingDiscarded'
  <2>1. /\ queue' = queue /\ UNCHANGED <<sent, missed>>
        /\ \A k \in Message \ {m} : call'[k] = call[k]
    BY <1>4 DEF Prepared, CountQueue, Typed, TypeOK
  <2>2. call[m] \in [at : {"preparing", "counting", "adding", "queued", "refused", "live"},
                     tab : Tab, key : {"number", "string"}]
    BY <1>4, CallFields DEF Prepared, CountQueue, Typed
  <2>3. call'[m].at # "queued"
    <3>1. CASE Prepared(m)
      <4>1. \/ call'[m] = [call[m] EXCEPT !.at = "live"]
            \/ call'[m] = [call[m] EXCEPT !.at = "counting", !.key = "string"]
        BY <3>1 DEF Prepared, Typed, TypeOK
      <4>2. QED
        BY <2>2, <4>1
    <3>2. CASE CountQueue(m)
      <4>1. \/ call'[m] = [call[m] EXCEPT !.at = "refused"]
            \/ call'[m] = [call[m] EXCEPT !.at = "adding"]
        BY <3>2 DEF CountQueue, Typed, TypeOK
      <4>2. QED
        BY <2>2, <4>1
    <3>3. QED
      BY <1>4, <3>1, <3>2
  <2>4. QED
    BY <1>1, <1>9, <2>1, <2>3 DEF NothingDiscarded, Queued, Settled
<1>5. ASSUME NEW t \in Tab, NEW m \in Message, Compose(t, m)
      PROVE  NothingDiscarded'
  <2>1. /\ queue' = queue /\ UNCHANGED <<sent, missed>>
        /\ \A k \in Message \ {m} : call'[k] = call[k]
        /\ call'[m].at # "queued"
    BY <1>5 DEF Compose, Typed, TypeOK
  <2>2. QED
    BY <1>1, <1>9, <2>1 DEF NothingDiscarded, Queued, Settled
<1>6. ASSUME UNCHANGED <<queue, call, sent, missed>>
      PROVE  NothingDiscarded'
  BY <1>1, <1>6, <1>9 DEF NothingDiscarded, Queued, Settled
<1>7. QED
  BY <1>2, <1>3, <1>4, <1>5, <1>6 DEF Next, Drop, Registered, Reconnection, Reconnect, GiveUp,
     RegistrationFails, OpenChat, LeaveChat, CallStep, vars

\* At first no message is queued and no flush runs.
LEMMA InitCareful ==
  ASSUME Init
  PROVE  Careful
<1>1. \A f \in Flush : flush[f].at = "idle"
  BY DEF Init, NoFlush
<1>2. Keyed /\ Paid
  BY <1>1 DEF Init, Keyed, Paid
<1>3. NothingDiscarded
  BY DEF Init, NothingDiscarded, NoCall
<1>4. QED
  BY <1>2, <1>3 DEF Careful

\* A message that the user was told is queued stays in the store until every
\* device has its text or was passed over, because it could not be encrypted for
\* or the page had no participants: for any number of tabs, overlapping flushes,
\* connection losses and refusals.  (FlushOfflineQueueAsync; no attachment is
\* ever sent, which RemovedAfterSend shows.)
THEOREM NoMessageDiscarded == Spec => []NothingDiscarded
<1>1. Init => Careful
  BY InitCareful
<1>2. Typed /\ Careful /\ [Next]_vars => Careful'
  BY NextKeyed, NextPaid, NextNothingDiscarded DEF Careful
<1>3. Careful => NothingDiscarded
  BY DEF Careful
<1>4. QED
  BY <1>1, <1>2, <1>3, AlwaysTyped, PTL DEF Spec

-----------------------------------------------------------------------------
(* The bound of the store.                                                 *)

\* The tabs between the count and the add of addToOfflineQueue.
Adding == {call[m].tab : m \in {x \in Message : call[x].at = "adding"}}

\* A tab takes one message at a time.
OneAtATime ==
    \A m, n \in Message :
      /\ call[m].at \in {"preparing", "counting", "adding"}
      /\ call[n].at \in {"preparing", "counting", "adding"}
      /\ call[m].tab = call[n].tab
      => m = n

\* What is in the store and what tabs have still to add to it.
Bounded ==
    /\ OneAtATime
    /\ \/ queue = {} /\ Adding = {}
       \/ Cardinality(queue) + Cardinality(Adding) < Capacity + Cardinality(Writers)

\* The tabs that are about to add, or could be, are finitely many.
LEMMA TabSets ==
  ASSUME Typed
  PROVE  /\ Adding \subseteq Writers /\ Writers \subseteq Tab
         /\ IsFiniteSet(Adding) /\ IsFiniteSet(Writers) /\ IsFiniteSet(queue)
         /\ Cardinality(Adding) <= Cardinality(Writers)
         /\ Cardinality(Adding) \in Nat /\ Cardinality(Writers) \in Nat
         /\ Cardinality(queue) \in Nat
<1>1. Adding \subseteq Writers
  BY DEF Adding, Writers
<1>2. Writers \subseteq Tab
  BY CallFields DEF Writers, Typed
<1>3. IsFiniteSet(Writers)
  BY <1>2, FS_Subset, OfflineQueueAssumption
<1>4. IsFiniteSet(Adding) /\ Cardinality(Adding) <= Cardinality(Writers)
  BY <1>1, <1>3, FS_Subset
<1>5. QED
  BY <1>1, <1>2, <1>3, <1>4, FS_CardinalityType DEF Typed

\* A call that moves without passing the count or the add.
LEMMA CallMoves ==
  ASSUME Typed, Bounded, UNCHANGED queue, NEW m \in Message,
         \A k \in Message \ {m} : call'[k] = call[k],
         call[m].at \notin {"adding", "queued"}, call'[m].at \notin {"adding", "queued"}
  PROVE  \/ (queue = {} /\ Adding = {})'
         \/ (Cardinality(queue) + Cardinality(Adding) < Capacity + Cardinality(Writers))'
<1>1. Adding' = Adding
  BY DEF Adding
<1>2. Writers' = Writers
  BY DEF Writers
<1>3. QED
  BY <1>1, <1>2 DEF Bounded

\* A tab never sends or queues more than one message at a time.
LEMMA NextOneAtATime ==
  ASSUME Typed, OneAtATime, [Next]_vars
  PROVE  OneAtATime'
<1>1. call \in [Message -> {NoCall} \union
          [at : {"preparing", "counting", "adding", "queued", "refused", "live"},
           tab : Tab, key : {"number", "string"}]]
  BY DEF Typed, TypeOK
<1>2. ASSUME NEW t \in Tab, NEW m \in Message, Compose(t, m)
      PROVE  OneAtATime'
  <2>1. \A k \in Message \ {m} : call'[k] = call[k]
    BY <1>1, <1>2 DEF Compose
  <2>2. call'[m].tab = t
    BY <1>1, <1>2 DEF Compose
  <2>3. \A k \in Message : call[k].tab = t =>
          call[k].at \notin {"preparing", "counting", "adding"}
    BY <1>2 DEF Compose, Busy
  <2>4. QED
    BY <2>1, <2>2, <2>3 DEF OneAtATime
<1>3. ASSUME NEW m \in Message, CallStep(m)
      PROVE  OneAtATime'
  <2>1. call[m].at \in {"preparing", "counting", "adding"}
    BY <1>3 DEF CallStep, Prepared, CountQueue, AddToQueue
  <2>2. call[m] \in [at : {"preparing", "counting", "adding", "queued", "refused", "live"},
                     tab : Tab, key : {"number", "string"}]
    BY <2>1, CallFields DEF Typed
  <2>3. \A k \in Message \ {m} : call'[k] = call[k]
    BY <1>1, <1>3 DEF CallStep, Prepared, CountQueue, AddToQueue
  <2>4. call'[m].tab = call[m].tab
    BY <1>1, <1>3, <2>2 DEF CallStep, Prepared, CountQueue, AddToQueue
  <2>5. QED
    BY <2>1, <2>3, <2>4 DEF OneAtATime
<1>4. ASSUME NEW f \in Flush, FlushStep(f)
      PROVE  OneAtATime'
  BY <1>4, FlushStepFrame DEF OneAtATime
<1>5. UNCHANGED call => OneAtATime'
  BY DEF OneAtATime
<1>6. QED
  BY <1>2, <1>3, <1>4, <1>5 DEF Next, Drop, Registered, Reconnection, Reconnect, GiveUp,
     RegistrationFails, OpenChat, LeaveChat, vars

\* Every step keeps the bound: a tab that adds has counted fewer entries than
\* the capacity, and at most one add of every other tab comes in between.
LEMMA NextBounded ==
  ASSUME Typed, Bounded, [Next]_vars
  PROVE  Bounded'
<1> DEFINE Goal == \/ queue = {} /\ Adding = {}
                   \/ Cardinality(queue) + Cardinality(Adding) < Capacity + Cardinality(Writers)
<1>1. call \in [Message -> {NoCall} \union
          [at : {"preparing", "counting", "adding", "queued", "refused", "live"},
           tab : Tab, key : {"number", "string"}]]
  BY DEF Typed, TypeOK
<1>2. Capacity \in Nat
  BY OfflineQueueAssumption
<1>3. /\ Cardinality(Adding) \in Nat /\ Cardinality(Writers) \in Nat
      /\ Cardinality(queue) \in Nat /\ IsFiniteSet(queue) /\ IsFiniteSet(Adding)
  BY TabSets
<1>4. ASSUME NEW t \in Tab, NEW m \in Message, Compose(t, m)
      PROVE  Goal'
  <2>1. /\ queue' = queue /\ \A k \in Message \ {m} : call'[k] = call[k]
        /\ call[m].at = "unsent" /\ call'[m].at \in {"counting", "preparing", "live"}
    BY <1>1, <1>4 DEF Compose, NoCall
  <2>2. QED
    BY <2>1, CallMoves
<1>5. ASSUME NEW m \in Message, Prepared(m) \/ (CountQueue(m) /\ IsFull)
      PROVE  Goal'
  <2>1. call[m].at \in {"preparing", "counting"}
    BY <1>5 DEF Prepared, CountQueue
  <2>2. call[m] \in [at : {"preparing", "counting", "adding", "queued", "refused", "live"},
                     tab : Tab, key : {"number", "string"}]
    BY <2>1, CallFields DEF Typed
  <2>3. \/ call' = [call EXCEPT ![m] = [@ EXCEPT !.at = "live"]]
        \/ call' = [call EXCEPT ![m] = [@ EXCEPT !.at = "counting", !.key = "string"]]
        \/ call' = [call EXCEPT ![m] = [@ EXCEPT !.at = "refused"]]
    BY <1>1, <1>5 DEF Prepared, CountQueue
  <2>4. call'[m].at \notin {"adding", "queued"} /\ \A k \in Message \ {m} : call'[k] = call[k]
    BY <1>1, <2>2, <2>3
  <2>5. queue' = queue
    BY <1>5 DEF Prepared, CountQueue
  <2>6. QED
    BY <2>1, <2>4, <2>5, CallMoves
<1>6. ASSUME NEW m \in Message, CountQueue(m), ~IsFull
      PROVE  Goal'
  <2>1. Cardinality(queue) < Capacity
    BY <1>2, <1>3, <1>6 DEF IsFull
  <2>2. queue' = queue
    BY <1>6 DEF CountQueue
  <2>3. Adding' \subseteq Writers'
    BY DEF Adding, Writers
  <2>4. Writers' \subseteq Tab
    BY NextTyped DEF Writers, Typed, TypeOK, NoCall
  <2>5. IsFiniteSet(Writers') /\ IsFiniteSet(Adding')
    BY <2>3, <2>4, FS_Subset, OfflineQueueAssumption
  <2>6. /\ Cardinality(Adding') <= Cardinality(Writers') /\ Cardinality(Adding') \in Nat
        /\ Cardinality(Writers') \in Nat
    BY <2>3, <2>5, FS_Subset, FS_CardinalityType
  <2>7. QED
    BY <1>2, <1>3, <2>1, <2>2, <2>6
<1>7. ASSUME NEW m \in Message, AddToQueue(m)
      PROVE  Goal'
  <2> DEFINE tab == call[m].tab
  <2>1. /\ call[m].at = "adding"
        /\ call[m] \in [at : {"preparing", "counting", "adding", "queued", "refused", "live"},
                         tab : Tab, key : {"number", "string"}]
    BY <1>7, CallFields DEF AddToQueue, Typed
  <2>2. /\ call'[m].at = "queued" /\ call'[m].tab = tab
        /\ \A k \in Message \ {m} : call'[k] = call[k]
    BY <1>1, <1>7, <2>1 DEF AddToQueue
  <2>3. \A k \in Message \ {m} : call[k].at = "adding" => call[k].tab # tab
    BY <2>1 DEF Bounded, OneAtATime
  <2>4. Adding' = Adding \ {tab} /\ tab \in Adding
    BY <2>1, <2>2, <2>3 DEF Adding
  <2>5. Writers' = Writers
    BY <2>1, <2>2 DEF Writers
  <2>6. Cardinality(Adding') = Cardinality(Adding) - 1
    BY <1>3, <2>4, FS_RemoveElement
  <2>7. Cardinality(queue') <= Cardinality(queue) + 1 /\ Cardinality(queue') \in Nat
    <3>1. queue' = queue \union {NewEntry(m)}
      BY <1>7 DEF AddToQueue
    <3>2. Cardinality(queue') = IF NewEntry(m) \in queue THEN Cardinality(queue)
                                ELSE Cardinality(queue) + 1
      BY <1>3, <3>1, FS_AddElement
    <3>3. QED
      BY <1>3, <3>2
  <2>8. Cardinality(queue) + Cardinality(Adding) < Capacity + Cardinality(Writers)
    BY <2>4 DEF Bounded
  <2>9. QED
    BY <1>2, <1>3, <2>5, <2>6, <2>7, <2>8
<1>8. ASSUME NEW f \in Flush, FlushStep(f)
      PROVE  Goal'
  <2>1. call' = call /\ queue' \subseteq queue
    BY <1>8, FlushStepFrame
  <2>2. Adding' = Adding /\ Writers' = Writers
    BY <2>1 DEF Adding, Writers
  <2>3. Cardinality(queue') <= Cardinality(queue) /\ Cardinality(queue') \in Nat
    BY <1>3, <2>1, FS_Subset, FS_CardinalityType
  <2>4. CASE queue = {} /\ Adding = {}
    BY <2>1, <2>2, <2>4
  <2>5. CASE Cardinality(queue) + Cardinality(Adding) < Capacity + Cardinality(Writers)
    BY <1>2, <1>3, <2>2, <2>3, <2>5
  <2>6. QED
    BY <2>4, <2>5 DEF Bounded
<1>9. ASSUME UNCHANGED <<queue, call>>
      PROVE  Goal'
  BY <1>9 DEF Bounded, Adding, Writers
<1>10. OneAtATime'
  BY NextOneAtATime DEF Bounded
<1> HIDE DEF Goal
<1>11. Goal'
  BY <1>4, <1>5, <1>6, <1>7, <1>8, <1>9 DEF Next, Drop, Registered, Reconnection, Reconnect,
     GiveUp, RegistrationFails, OpenChat, LeaveChat, CallStep, vars
<1>12. QED
  BY <1>10, <1>11 DEF Bounded, Goal

\* The store never holds more than the capacity by as many entries as tabs have
\* written to it, whatever tabs count before others have added.
THEOREM StoreBounded == Spec => []QueueBounded
<1>1. Init => Bounded
  <2>1. ASSUME Init
        PROVE  /\ \A m \in Message : call[m].at = "unsent"
               /\ queue = {}
    BY <2>1 DEF Init, NoCall
  <2>2. QED
    BY <2>1 DEF Bounded, OneAtATime, Adding
<1>2. Typed /\ Bounded /\ [Next]_vars => Bounded'
  BY NextBounded
<1>3. Typed /\ Bounded => QueueBounded
  BY TabSets, OfflineQueueAssumption DEF Bounded, QueueBounded
<1>4. QED
  BY <1>1, <1>2, <1>3, AlwaysTyped, PTL DEF Spec
=============================================================================
