------------------------- MODULE MessageRelay_proofs -------------------------
(***************************************************************************)
(* MessageRelay, for any users, devices, messages and calls in progress:   *)
(* types, the order of the sequence numbers, what senders are told of      *)
(* deliveries and when a read pointer can go back; up to the first         *)
(* deletion, that nothing is stored below a read pointer and that every    *)
(* sender is told of what was read.                                        *)
(***************************************************************************)
EXTENDS MessageRelay, FiniteSetTheorems, TLAPS

\* A row that a call has seen is still there when the call writes it back.
RowsStay ==
  \A w \in Worker :
    /\ calls[w].step = "increment" =>
         \A u \in User : calls[w].seen[u] # NoRow => pointers[u] # NoRow
    /\ calls[w].step \in {"query", "advance"} =>
         (calls[w].seen # NoRow => pointers[calls[w].user] # NoRow)

Typed == TypeOK /\ IsFiniteSet(messages) /\ RowsStay

-----------------------------------------------------------------------------
(* Shapes of calls.                                                        *)

\* The fields of a call by its step (the local variables of the methods).
LEMMA CallShapes ==
  ASSUME NEW c \in Call
  PROVE  /\ c.step = "store" => c.from \in Device /\ c.to \in Device
         /\ c.step = "count" => c.from \in Device /\ c.to \in Device /\ c.id \in Nat
         /\ c.step = "increment" =>
              c.from \in Device /\ c.to \in Device /\ c.id \in Nat /\ c.seen \in [User -> Pointer]
         /\ c.step = "relay" => c.to \in Device /\ c.id \in Nat
         /\ c.step = "query" => c.user \in User /\ c.upTo \in Nat /\ c.seen \in Pointer
         /\ c.step = "advance" =>
              /\ c.user \in User /\ c.upTo \in Nat /\ c.seen \in Pointer
              /\ c.read \in SUBSET Nat /\ c.unread \in Nat
         /\ c.step = "opened" => c.device \in Device
         /\ c.step = "acknowledge" => c.device \in Device /\ c.told \in SUBSET Nat
BY DEF Call, Idle

\* A pointer row, or none, has a number to compare with.
LEMMA LastReadNat ==
  ASSUME NEW row \in Pointer
  PROVE  LastRead(row) \in Nat
BY DEF LastRead, Pointer, PointerRow

\* The updates of IsDelivered change nothing else and lose no row
\* (AcknowledgeDelivery, BulkAcknowledgeDelivery, RevokeDevice).
LEMMA MarkDeliveredEffect ==
  ASSUME Typed, NEW selected \in SUBSET messages, MarkDelivered(selected)
  PROVE  /\ messages' \subseteq Message
         /\ IsFiniteSet(messages')
         /\ \A n \in messages' : \E m \in messages :
              /\ n.id = m.id /\ n.seq = m.seq /\ n.from = m.from /\ n.to = m.to
              /\ n.delivered = (m.delivered \/ m \in selected)
         /\ \A m \in messages : \E n \in messages' :
              n.id = m.id /\ n.seq = m.seq /\ n.from = m.from /\ n.to = m.to
         /\ \A m, n \in messages' : m.id = n.id => m = n
<1> DEFINE mark(m) == IF m \in selected THEN [m EXCEPT !.delivered = TRUE] ELSE m
<1>1. messages' = {mark(m) : m \in messages}
  BY DEF MarkDelivered
<1>2. \A m \in messages :
        /\ m \in Message
        /\ mark(m) \in Message
        /\ mark(m).id = m.id /\ mark(m).seq = m.seq
        /\ mark(m).from = m.from /\ mark(m).to = m.to
        /\ mark(m).delivered = (m.delivered \/ m \in selected)
  BY DEF Typed, TypeOK, Message
<1>3. IsFiniteSet(messages')
  <2> DEFINE f == [m \in messages |-> mark(m)]
  <2>1. f \in Surjection(messages, messages')
    BY <1>1 DEF Surjection
  <2>2. QED
    BY <2>1, FS_Surjection DEF Typed
<1>4. \A m, n \in messages : m.id = n.id => m = n
  BY DEF Typed, TypeOK
<1> HIDE DEF mark
<1>5. QED
  BY <1>1, <1>2, <1>3, <1>4

\* The row that StoreMessage inserts: a new id, a number above all there are.
LEMMA StoredMessage ==
  ASSUME Typed, NEW w \in Worker, StoreMessage(w)
  PROVE  \E new \in Message :
           /\ messages' = messages \cup {new}
           /\ new.id = lastId' /\ new.seq >= 1
           /\ new.from = calls[w].from /\ new.to = calls[w].to /\ new.delivered = FALSE
           /\ \A m \in messages : m.seq < new.seq
           /\ \E top \in TopSequence : new.seq = top + 1
<1> DEFINE c == calls[w]
<1>1. PICK top \in TopSequence :
        messages' = messages \cup
          {[id |-> lastId', from |-> c.from, to |-> c.to, seq |-> top + 1, delivered |-> FALSE]}
  BY DEF StoreMessage
<1> DEFINE new == [id |-> lastId', from |-> c.from, to |-> c.to, seq |-> top + 1,
                   delivered |-> FALSE]
<1>2. \A m \in messages : m.seq \in Nat
  BY DEF Typed, TypeOK, Message
<1>3. top \in Nat /\ \A m \in messages : m.seq <= top
  BY <1>1, <1>2 DEF TopSequence
<1>4. c \in Call /\ c.step = "store"
  BY DEF Typed, TypeOK, StoreMessage
<1>5. c.from \in Device /\ c.to \in Device
  BY <1>4, CallShapes
<1>6. lastId' \in Nat
  BY DEF Typed, TypeOK, StoreMessage
<1>7. new \in Message
  BY <1>3, <1>5, <1>6 DEF Message
<1>8. \A m \in messages : m.seq < new.seq
  BY <1>2, <1>3
<1>9. /\ new.id = lastId' /\ new.seq = top + 1 /\ new.seq >= 1
      /\ new.from = c.from /\ new.to = c.to /\ new.delivered = FALSE
  BY <1>3
<1>10. messages' = messages \cup {new}
  BY <1>1
<1> HIDE DEF new
<1>11. QED
  BY <1>7, <1>8, <1>9, <1>10

-----------------------------------------------------------------------------
(* Types, an action at a time.                                             *)

\* A step that changes only the call of one worker, and what it is changed to.
LEMMA AdvancedTyped ==
  ASSUME Typed, NEW w \in Worker, NEW c \in Call, Advanced(w, c)
  PROVE  /\ calls' \in [Worker -> Call]
         /\ calls'[w] = c
         /\ \A v \in Worker \ {w} : calls'[v] = calls[v]
BY DEF Typed, TypeOK, Advanced

\* SendMessage keeps the types.
LEMMA TypedSend ==
  ASSUME Typed, NEW w \in Worker, NEW from \in Device, NEW to \in Device,
         SendMessage(w, from, to)
  PROVE  Typed'
<1> DEFINE c == [step |-> "store", from |-> from, to |-> to]
<1>1. c \in Call
  BY DEF Call
<1>2. /\ calls' \in [Worker -> Call] /\ calls'[w] = c
      /\ \A v \in Worker \ {w} : calls'[v] = calls[v]
  BY <1>1, AdvancedTyped DEF SendMessage
<1>3. TypeOK' /\ IsFiniteSet(messages)'
  BY <1>2 DEF Typed, TypeOK, SendMessage
<1>4. RowsStay'
  BY <1>2 DEF Typed, RowsStay, SendMessage
<1>5. QED
  BY <1>3, <1>4 DEF Typed

\* StoreMessage keeps the types: its row has the next id and a number.
LEMMA TypedStore ==
  ASSUME Typed, NEW w \in Worker, StoreMessage(w)
  PROVE  Typed'
<1> DEFINE c == calls[w]
           d == [step |-> "count", from |-> c.from, to |-> c.to, id |-> lastId']
<1>1. c \in Call /\ c.step = "store" /\ c.from \in Device /\ c.to \in Device
  BY CallShapes DEF Typed, TypeOK, StoreMessage
<1>2. lastId \in Nat /\ lastId' = lastId + 1
  BY DEF Typed, TypeOK, StoreMessage
<1>3. d \in Call
  BY <1>1, <1>2 DEF Call
<1>4. /\ calls' \in [Worker -> Call] /\ calls'[w] = d
      /\ \A v \in Worker \ {w} : calls'[v] = calls[v]
  BY <1>3, AdvancedTyped DEF StoreMessage
<1>5. PICK new : /\ new \in Message /\ new.id = lastId'
                 /\ messages' = messages \cup {new}
  BY StoredMessage
<1>6. IsFiniteSet(messages')
  BY <1>5, FS_AddElement DEF Typed
<1>7. messages' \subseteq Message
  BY <1>5 DEF Typed, TypeOK
<1>8. \A m \in messages : m.id \in 1 .. lastId
  BY DEF Typed, TypeOK
<1>9. \A m \in messages' : m.id \in 1 .. lastId'
  BY <1>2, <1>5, <1>8
<1>10. \A m, n \in messages : m.id = n.id => m = n
  BY DEF Typed, TypeOK
<1>11. \A m \in messages : m.id # new.id
  BY <1>2, <1>5, <1>8
<1>12. \A m, n \in messages' : m.id = n.id => m = n
  BY <1>5, <1>10, <1>11
<1>13. TypeOK'
  BY <1>2, <1>4, <1>7, <1>9, <1>12 DEF Typed, TypeOK, StoreMessage
<1>14. RowsStay'
  BY <1>4 DEF Typed, RowsStay, StoreMessage
<1>15. QED
  BY <1>6, <1>13, <1>14 DEF Typed

\* ReadUnreadCounts keeps the types.
LEMMA TypedReadCounts ==
  ASSUME Typed, NEW w \in Worker, ReadUnreadCounts(w)
  PROVE  Typed'
<1> DEFINE c == calls[w]
           d == [step |-> "increment", from |-> c.from, to |-> c.to, id |-> c.id,
                 seen |-> pointers]
<1>1. c \in Call /\ c.from \in Device /\ c.to \in Device /\ c.id \in Nat
  BY CallShapes DEF Typed, TypeOK, ReadUnreadCounts
<1>2. d \in Call
  BY <1>1 DEF Typed, TypeOK, Call
<1>3. /\ calls' \in [Worker -> Call] /\ calls'[w] = d
      /\ \A v \in Worker \ {w} : calls'[v] = calls[v]
  BY <1>2, AdvancedTyped DEF ReadUnreadCounts
<1>4. TypeOK' /\ IsFiniteSet(messages)'
  BY <1>3 DEF Typed, TypeOK, ReadUnreadCounts
<1>5. RowsStay'
  BY <1>3 DEF Typed, RowsStay, ReadUnreadCounts
<1>6. QED
  BY <1>4, <1>5 DEF Typed

\* Rows are inserted and updated, never removed: what a call has seen is there.
LEMMA RowsStayEffect ==
  ASSUME Typed, NEW w \in Worker, NEW c \in Call, Advanced(w, c),
         \A u \in User : pointers[u] # NoRow => pointers'[u] # NoRow,
         c.step \notin {"increment", "query", "advance"}
  PROVE  RowsStay'
<1>1. calls'[w] = c /\ \A v \in Worker \ {w} : calls'[v] = calls[v]
  BY AdvancedTyped
<1>2. ASSUME NEW v \in Worker \ {w}
      PROVE  calls[v].step \in {"query", "advance"} => calls[v].user \in User
  BY CallShapes DEF Typed, TypeOK
<1>3. QED
  BY <1>1, <1>2 DEF Typed, RowsStay

\* IncrementUnreadCounts keeps the types.
LEMMA TypedIncrement ==
  ASSUME Typed, NEW w \in Worker, IncrementUnreadCounts(w)
  PROVE  Typed'
<1> DEFINE c == calls[w]
           others == User \ {Owner[c.from]}
           d == [step |-> "relay", to |-> c.to, id |-> c.id]
<1>1. /\ c \in Call /\ c.step = "increment"
      /\ c.to \in Device /\ c.id \in Nat /\ c.seen \in [User -> Pointer]
  BY CallShapes DEF Typed, TypeOK, IncrementUnreadCounts
<1>2. d \in Call /\ Idle \in Call /\ d.step = "relay" /\ Idle.step = "idle"
  BY <1>1 DEF Call, Idle
<1>3. CASE \E u \in others : Inserts(u, c.seen[u])
  <2>1. Advanced(w, Idle) /\ UNCHANGED pointers
    BY <1>3 DEF IncrementUnreadCounts, Returned
  <2>2. RowsStay'
    BY <1>2, <2>1, RowsStayEffect
  <2>3. calls' \in [Worker -> Call]
    BY <1>2, <2>1, AdvancedTyped
  <2>4. QED
    BY <2>1, <2>2, <2>3 DEF Typed, TypeOK, IncrementUnreadCounts
<1>4. CASE ~ \E u \in others : Inserts(u, c.seen[u])
  <2>1. /\ Advanced(w, d)
        /\ pointers' = [u \in User |->
             IF u \notin others THEN pointers[u]
             ELSE IF c.seen[u] = NoRow THEN [last |-> 0, unread |-> 1]
             ELSE [pointers[u] EXCEPT !.unread = c.seen[u].unread + 1]]
    BY <1>4 DEF IncrementUnreadCounts
  <2>2. ASSUME NEW u \in User
        PROVE  pointers'[u] \in Pointer /\ (pointers[u] # NoRow => pointers'[u] # NoRow)
    <3>1. c.seen[u] \in Pointer /\ pointers[u] \in Pointer
      BY <1>1 DEF Typed, TypeOK
    <3>2. c.seen[u] # NoRow => pointers[u] # NoRow
      BY <1>1 DEF Typed, RowsStay
    <3>3. NoRow \notin PointerRow
      BY RelayAssumption DEF PointerRow
    <3>4. CASE u \notin others
      BY <2>1, <3>1, <3>4
    <3>5. CASE u \in others /\ c.seen[u] = NoRow
      BY <2>1, <3>3, <3>5 DEF Pointer, PointerRow
    <3>6. CASE u \in others /\ c.seen[u] # NoRow
      <4>1. pointers[u] \in PointerRow /\ c.seen[u].unread \in Nat
        BY <3>1, <3>2, <3>6 DEF Pointer, PointerRow
      <4>2. pointers'[u] = [pointers[u] EXCEPT !.unread = c.seen[u].unread + 1]
        BY <2>1, <3>6
      <4>3. pointers'[u] \in PointerRow
        BY <4>1, <4>2 DEF PointerRow
      <4>4. QED
        BY <3>3, <4>3 DEF Pointer
    <3>7. QED
      BY <3>4, <3>5, <3>6
  <2>3. RowsStay'
    BY <1>2, <2>1, <2>2, RowsStayEffect
  <2>4. calls' \in [Worker -> Call]
    BY <1>2, <2>1, AdvancedTyped
  <2>5. pointers' \in [User -> Pointer]
    BY <2>1, <2>2
  <2>6. QED
    BY <2>3, <2>4, <2>5 DEF Typed, TypeOK, IncrementUnreadCounts
<1>5. QED
  BY <1>3, <1>4

\* TryRelayToOnlineRecipient keeps the types.
LEMMA TypedRelay ==
  ASSUME Typed, NEW w \in Worker, TryRelayToOnlineRecipient(w)
  PROVE  Typed'
<1>1. Advanced(w, Idle) /\ Idle \in Call /\ Idle.step = "idle"
  BY DEF TryRelayToOnlineRecipient, Returned, Call, Idle
<1>2. calls' \in [Worker -> Call]
  BY <1>1, AdvancedTyped
<1>3. RowsStay'
  BY <1>1, RowsStayEffect DEF TryRelayToOnlineRecipient
<1>4. calls[w] \in Call /\ calls[w].step = "relay"
  BY DEF Typed, TypeOK, TryRelayToOnlineRecipient
<1>5. calls[w].to \in Device /\ calls[w].id \in Nat
  BY <1>4, CallShapes
<1>6. held' \in [Device -> SUBSET Nat]
  BY <1>5 DEF Typed, TypeOK, TryRelayToOnlineRecipient
<1>7. QED
  BY <1>2, <1>3, <1>6 DEF Typed, TypeOK, TryRelayToOnlineRecipient

\* AdvanceReadPointer keeps the types.
LEMMA TypedAdvance ==
  ASSUME Typed, NEW w \in Worker, NEW u \in User, NEW upTo \in Nat,
         AdvanceReadPointer(w, u, upTo)
  PROVE  Typed'
<1> DEFINE d == [step |-> "query", user |-> u, upTo |-> upTo, seen |-> pointers[u]]
<1>1. d \in Call
  BY DEF Typed, TypeOK, Call
<1>2. /\ calls' \in [Worker -> Call] /\ calls'[w] = d
      /\ \A v \in Worker \ {w} : calls'[v] = calls[v]
  BY <1>1, AdvancedTyped DEF AdvanceReadPointer
<1>3. TypeOK' /\ IsFiniteSet(messages)'
  BY <1>2 DEF Typed, TypeOK, AdvanceReadPointer
<1>4. RowsStay'
  BY <1>2 DEF Typed, RowsStay, AdvanceReadPointer
<1>5. QED
  BY <1>3, <1>4 DEF Typed

\* What QueryNewlyRead leaves: the call has returned, or holds a number that
\* the read pointer has not passed and some message has.
LEMMA Queried ==
  ASSUME Typed, NEW w \in Worker, QueryNewlyRead(w)
  PROVE  LET c == calls[w]
         IN /\ c \in Call /\ c.step = "query"
            /\ \/ Advanced(w, Idle)
               \/ \E top \in TopSequence, target \in Nat : \E unread \in Nat :
                    /\ target <= top /\ LastRead(c.seen) < target
                    /\ unread = RemainingUnread(c.user, target)
                    /\ NewlyRead(c.user, LastRead(c.seen), target) \in SUBSET Nat
                    /\ Advanced(w,
                         [step |-> "advance", user |-> c.user, upTo |-> target,
                          seen |-> c.seen,
                          read |-> NewlyRead(c.user, LastRead(c.seen), target),
                          unread |-> unread])
<1> DEFINE c == calls[w]
<1>1. c \in Call /\ c.step = "query"
  BY DEF Typed, TypeOK, QueryNewlyRead
<1>2. c.upTo \in Nat /\ c.user \in User /\ c.seen \in Pointer
  BY <1>1, CallShapes
<1>3. PICK top \in TopSequence :
        LET target == Clamped(c.upTo, top)
            last   == LastRead(c.seen)
        IN IF AlreadyRead(target, last)
           THEN Returned(w)
           ELSE Advanced(w,
                  [step |-> "advance", user |-> c.user, upTo |-> target, seen |-> c.seen,
                   read   |-> NewlyRead(c.user, last, target),
                   unread |-> RemainingUnread(c.user, target)])
  BY DEF QueryNewlyRead
<1> DEFINE target == Clamped(c.upTo, top)
           last == LastRead(c.seen)
<1>4. top \in Nat
  BY DEF TopSequence, Typed, TypeOK, Message
<1>5. target \in Nat /\ target <= top
  BY <1>2, <1>4 DEF Clamped
<1>6. last \in Nat
  BY <1>2, LastReadNat
<1>7. RemainingUnread(c.user, target) \in Nat
  <2>1. Unread(c.user, target) \in SUBSET messages
    BY DEF Unread
  <2>2. QED
    BY <2>1, FS_Subset, FS_CardinalityType DEF RemainingUnread, Typed
<1>8. NewlyRead(c.user, last, target) \in SUBSET Nat
  BY DEF NewlyRead, Unread, Typed, TypeOK, Message
<1>9. CASE AlreadyRead(target, last)
  BY <1>1, <1>3, <1>9 DEF Returned
<1>10. CASE ~AlreadyRead(target, last)
  <2>1. last < target
    BY <1>5, <1>6, <1>10 DEF AlreadyRead
  <2>2. QED
    BY <1>1, <1>3, <1>5, <1>7, <1>8, <1>10, <2>1
<1>11. QED
  BY <1>9, <1>10

\* QueryNewlyRead keeps the types.
LEMMA TypedQuery ==
  ASSUME Typed, NEW w \in Worker, QueryNewlyRead(w)
  PROVE  Typed'
<1> DEFINE c == calls[w]
<1>1. c \in Call /\ c.step = "query"
  BY Queried
<1>2. c.user \in User /\ c.seen \in Pointer
  BY <1>1, CallShapes
<1>3. c.seen # NoRow => pointers[c.user] # NoRow
  BY <1>1 DEF Typed, RowsStay
<1>4. CASE Advanced(w, Idle)
  <2>1. Idle \in Call /\ Idle.step = "idle"
    BY DEF Call, Idle
  <2>2. RowsStay'
    BY <1>4, <2>1, RowsStayEffect DEF QueryNewlyRead
  <2>3. calls' \in [Worker -> Call]
    BY <1>4, <2>1, AdvancedTyped
  <2>4. QED
    BY <2>2, <2>3 DEF Typed, TypeOK, QueryNewlyRead
<1>5. ASSUME NEW target \in Nat, NEW unread \in Nat, NEW read \in SUBSET Nat,
             Advanced(w, [step |-> "advance", user |-> c.user, upTo |-> target,
                          seen |-> c.seen, read |-> read, unread |-> unread])
      PROVE  Typed'
  <2> DEFINE d == [step |-> "advance", user |-> c.user, upTo |-> target,
                   seen |-> c.seen, read |-> read, unread |-> unread]
  <2>1. d \in Call
    BY <1>2, <1>5 DEF Call
  <2>2. /\ calls' \in [Worker -> Call] /\ calls'[w] = d
        /\ \A v \in Worker \ {w} : calls'[v] = calls[v]
    BY <1>5, <2>1, AdvancedTyped
  <2>3. TypeOK' /\ IsFiniteSet(messages)'
    BY <2>2 DEF Typed, TypeOK, QueryNewlyRead
  <2>4. RowsStay'
    BY <1>3, <2>2 DEF Typed, RowsStay, QueryNewlyRead
  <2>5. QED
    BY <2>3, <2>4 DEF Typed
<1>6. QED
  BY <1>4, <1>5, Queried

\* SaveReadPointer keeps the types.
LEMMA TypedSave ==
  ASSUME Typed, NEW w \in Worker, SaveReadPointer(w)
  PROVE  Typed'
<1> DEFINE c == calls[w]
           row == IF c.seen = NoRow \/ c.unread # c.seen.unread
                  THEN [last |-> c.upTo, unread |-> c.unread]
                  ELSE [pointers[c.user] EXCEPT !.last = c.upTo]
<1>1. c \in Call /\ c.step = "advance"
  BY DEF Typed, TypeOK, SaveReadPointer
<1>2. /\ c.user \in User /\ c.upTo \in Nat /\ c.seen \in Pointer
      /\ c.read \in SUBSET Nat /\ c.unread \in Nat
  BY <1>1, CallShapes
<1>3. Advanced(w, Idle) /\ Idle \in Call /\ Idle.step = "idle"
  BY DEF SaveReadPointer, Returned, Call, Idle
<1>4. calls' \in [Worker -> Call]
  BY <1>3, AdvancedTyped
<1>5. pointers \in [User -> Pointer] /\ NoRow \notin PointerRow
  BY RelayAssumption DEF Typed, TypeOK, PointerRow
<1>6. row \in PointerRow
  <2>1. CASE c.seen = NoRow \/ c.unread # c.seen.unread
    BY <1>2, <2>1 DEF PointerRow
  <2>2. CASE ~(c.seen = NoRow \/ c.unread # c.seen.unread)
    <3>1. pointers[c.user] # NoRow
      BY <1>1, <2>2 DEF Typed, RowsStay
    <3>2. pointers[c.user] \in PointerRow
      BY <1>2, <1>5, <3>1 DEF Pointer
    <3>3. QED
      BY <1>2, <2>2, <3>2 DEF PointerRow
  <2>3. QED
    BY <2>1, <2>2
<1>7. pointers' = pointers \/ pointers' = [pointers EXCEPT ![c.user] = row]
  BY DEF SaveReadPointer
<1>8. /\ pointers' \in [User -> Pointer]
      /\ \A u \in User : pointers[u] # NoRow => pointers'[u] # NoRow
  BY <1>2, <1>5, <1>6, <1>7 DEF Pointer
<1>9. RowsStay'
  BY <1>3, <1>8, RowsStayEffect
<1>10. toldRead' \subseteq Nat
  BY <1>2 DEF Typed, TypeOK, SaveReadPointer
<1>11. QED
  BY <1>4, <1>8, <1>9, <1>10 DEF Typed, TypeOK, SaveReadPointer

\* A step that marks messages delivered and changes no other row or call's row.
LEMMA MarkedTyped ==
  ASSUME Typed, NEW selected \in SUBSET messages, MarkDelivered(selected),
         UNCHANGED lastId
  PROVE  /\ messages' \subseteq Message /\ IsFiniteSet(messages')
         /\ \A m, n \in messages' : m.id = n.id => m = n
         /\ \A m \in messages' : m.id \in 1 .. lastId'
<1>1. \A m \in messages : m.id \in 1 .. lastId
  BY DEF Typed, TypeOK
<1>2. QED
  BY <1>1, MarkDeliveredEffect

\* An acknowledgement, of one message or of all, keeps the types.
LEMMA TypedAcknowledge ==
  ASSUME Typed, NEW d \in Device, NEW id \in 1 .. lastId, AcknowledgeDelivery(d, id)
  PROVE  Typed'
<1> DEFINE selected == {m \in messages : m.id = id}
<1>1. selected \in SUBSET messages /\ MarkDelivered(selected) /\ UNCHANGED lastId
  BY DEF AcknowledgeDelivery
<1>2. /\ messages' \subseteq Message /\ IsFiniteSet(messages')
      /\ \A m, n \in messages' : m.id = n.id => m = n
      /\ \A m \in messages' : m.id \in 1 .. lastId'
  BY <1>1, MarkedTyped
<1>3. id \in Nat
  BY DEF Typed, TypeOK
<1>4. TypeOK'
  BY <1>2, <1>3 DEF Typed, TypeOK, AcknowledgeDelivery
<1>5. RowsStay'
  BY DEF Typed, RowsStay, AcknowledgeDelivery
<1>6. QED
  BY <1>2, <1>4, <1>5 DEF Typed

\* GetPendingMessages keeps the types.
LEMMA TypedGetPending ==
  ASSUME Typed, NEW w \in Worker, NEW d \in Device, GetPendingMessages(w, d)
  PROVE  Typed'
<1> DEFINE c == [step |-> "opened", device |-> d]
<1>1. c \in Call /\ c.step = "opened" /\ Advanced(w, c)
  BY DEF Call, GetPendingMessages
<1>2. calls' \in [Worker -> Call]
  BY <1>1, AdvancedTyped
<1>3. RowsStay'
  BY <1>1, RowsStayEffect DEF GetPendingMessages
<1>4. {m.id : m \in Pending(d)} \in SUBSET Nat
  BY DEF Pending, Typed, TypeOK, Message
<1>5. held' \in [Device -> SUBSET Nat]
  BY <1>4 DEF Typed, TypeOK, GetPendingMessages
<1>6. QED
  BY <1>2, <1>3, <1>5 DEF Typed, TypeOK, GetPendingMessages

\* What the first statement of BulkAcknowledgeDelivery leaves.
LEMMA TypedBulk ==
  ASSUME Typed, NEW w \in Worker, BulkAcknowledgeDelivery(w)
  PROVE  Typed'
<1> DEFINE c == calls[w]
           d == [step |-> "acknowledge", device |-> c.device, told |-> ToNotify(c.device)]
<1>1. c \in Call /\ c.step = "opened"
  BY DEF Typed, TypeOK, BulkAcknowledgeDelivery
<1>2. c.device \in Device
  BY <1>1, CallShapes
<1>3. ToNotify(c.device) \in SUBSET Nat
  BY DEF ToNotify, Pending, Typed, TypeOK, Message
<1>4. /\ d \in Call /\ d.step = "acknowledge"
      /\ Idle \in Call /\ Idle.step = "idle"
  BY <1>2, <1>3 DEF Call, Idle
<1>5. Advanced(w, d) \/ Advanced(w, Idle)
  BY DEF BulkAcknowledgeDelivery, Returned
<1> HIDE DEF d
<1>6. calls' \in [Worker -> Call]
  BY <1>4, <1>5, AdvancedTyped
<1>7. RowsStay'
  BY <1>4, <1>5, RowsStayEffect DEF BulkAcknowledgeDelivery
<1>8. QED
  BY <1>6, <1>7 DEF Typed, TypeOK, BulkAcknowledgeDelivery

\* UpdateDelivered keeps the types.
LEMMA TypedUpdateDelivered ==
  ASSUME Typed, NEW w \in Worker, UpdateDelivered(w)
  PROVE  Typed'
<1> DEFINE c == calls[w]
<1>1. c \in Call /\ c.step = "acknowledge"
  BY DEF Typed, TypeOK, UpdateDelivered
<1>2. c.device \in Device /\ c.told \in SUBSET Nat
  BY <1>1, CallShapes
<1>3. /\ Pending(c.device) \in SUBSET messages /\ MarkDelivered(Pending(c.device))
      /\ UNCHANGED lastId
  BY DEF Pending, UpdateDelivered
<1>4. /\ messages' \subseteq Message /\ IsFiniteSet(messages')
      /\ \A m, n \in messages' : m.id = n.id => m = n
      /\ \A m \in messages' : m.id \in 1 .. lastId'
  BY <1>3, MarkedTyped
<1>5. Advanced(w, Idle) /\ Idle \in Call /\ Idle.step = "idle"
  BY DEF UpdateDelivered, Returned, Call, Idle
<1>6. calls' \in [Worker -> Call]
  BY <1>5, AdvancedTyped
<1>7. RowsStay'
  BY <1>5, RowsStayEffect DEF UpdateDelivered
<1>8. toldDelivered' \subseteq Nat
  BY <1>2 DEF Typed, TypeOK, UpdateDelivered
<1>9. QED
  BY <1>4, <1>6, <1>7, <1>8 DEF Typed, TypeOK, UpdateDelivered

\* The revocation of a device keeps the types.
LEMMA TypedRevoke ==
  ASSUME Typed, NEW d \in Device, RevokeDevice(d)
  PROVE  Typed'
<1>1. Pending(d) \in SUBSET messages /\ MarkDelivered(Pending(d)) /\ UNCHANGED lastId
  BY DEF Pending, RevokeDevice
<1>2. /\ messages' \subseteq Message /\ IsFiniteSet(messages')
      /\ \A m, n \in messages' : m.id = n.id => m = n
      /\ \A m \in messages' : m.id \in 1 .. lastId'
  BY <1>1, MarkedTyped
<1>3. TypeOK'
  BY <1>2 DEF Typed, TypeOK, RevokeDevice
<1>4. RowsStay'
  BY DEF Typed, RowsStay, RevokeDevice
<1>5. QED
  BY <1>2, <1>3, <1>4 DEF Typed

\* The deletion of a message keeps the types.
LEMMA TypedDelete ==
  ASSUME Typed, NEW gone, Delete(gone)
  PROVE  Typed'
<1>1. messages' \subseteq messages
  BY DEF Delete
<1>2. IsFiniteSet(messages')
  BY <1>1, FS_Subset DEF Typed
<1>3. deletions' \in Nat
  BY DEF Typed, TypeOK, Delete
<1>4. TypeOK'
  BY <1>1, <1>3 DEF Typed, TypeOK, Delete
<1>5. RowsStay'
  BY DEF Typed, RowsStay, Delete
<1>6. QED
  BY <1>2, <1>4, <1>5 DEF Typed

-----------------------------------------------------------------------------
(* The cases of a step.                                                    *)

\* A step of a call.
CallStep(w) ==
  \/ \E from, to \in Device : SendMessage(w, from, to)
  \/ StoreMessage(w)
  \/ ReadUnreadCounts(w)
  \/ IncrementUnreadCounts(w)
  \/ TryRelayToOnlineRecipient(w)
  \/ \E u \in User, upTo \in 1 .. MaxMessages + 1 : AdvanceReadPointer(w, u, upTo)
  \/ QueryNewlyRead(w)
  \/ SaveReadPointer(w)
  \/ \E d \in Device : GetPendingMessages(w, d)
  \/ BulkAcknowledgeDelivery(w)
  \/ UpdateDelivered(w)

\* Every step is one of a call, an acknowledgement, a revocation, a deletion
\* of some messages, or changes nothing.
LEMMA StepCases ==
  ASSUME [Next]_vars
  PROVE  \/ \E w \in Worker : CallStep(w)
         \/ \E d \in Device : \E id \in 1 .. lastId : AcknowledgeDelivery(d, id)
         \/ \E d \in Device : RevokeDevice(d)
         \/ \E gone \in SUBSET messages : Delete(gone)
         \/ UNCHANGED vars
<1>1. \A u \in User, m \in messages :
        DeleteForEveryone(u, m) => \E gone \in SUBSET messages : Delete(gone)
  BY DEF DeleteForEveryone
<1>2. \A u, first, last :
        ClearMessages(u, first, last) => \E gone \in SUBSET messages : Delete(gone)
  BY DEF ClearMessages
<1>3. \A last : CleanupExpiredMessages(last) => \E gone \in SUBSET messages : Delete(gone)
  BY DEF CleanupExpiredMessages
<1>4. QED
  BY <1>1, <1>2, <1>3 DEF Next, CallStep

\* Every step keeps the types.
LEMMA NextTyped ==
  ASSUME Typed, [Next]_vars
  PROVE  Typed'
<1>1. ASSUME NEW w \in Worker, CallStep(w)
      PROVE  Typed'
  <2>1. 1 .. MaxMessages + 1 \subseteq Nat
    BY RelayAssumption
  <2>2. QED
    BY <1>1, <2>1, TypedSend, TypedStore, TypedReadCounts, TypedIncrement, TypedRelay,
       TypedAdvance, TypedQuery, TypedSave, TypedGetPending, TypedBulk,
       TypedUpdateDelivered DEF CallStep
<1>2. CASE UNCHANGED vars
  BY <1>2 DEF vars, Typed, TypeOK, RowsStay
<1>3. QED
  BY <1>1, <1>2, StepCases, TypedAcknowledge, TypedRevoke, TypedDelete

\* The first state has the types.
LEMMA InitTyped ==
  ASSUME Init
  PROVE  Typed
<1>1. Idle \in Call /\ Idle.step = "idle"
  BY DEF Call, Idle
<1>2. IsFiniteSet(messages)
  BY FS_EmptySet DEF Init
<1>3. TypeOK
  BY <1>1, RelayAssumption DEF Init, TypeOK, Pointer
<1>4. RowsStay
  BY <1>1 DEF Init, RowsStay
<1>5. QED
  BY <1>2, <1>3, <1>4 DEF Typed

\* In every reachable state the store is as TypeOK says: above all, ids are
\* unique and below lastId, and a call that has read a pointer row finds it
\* there when it writes it back.
THEOREM AlwaysTyped == Spec => []Typed
BY InitTyped, NextTyped, PTL DEF Spec

\* Every table, pointer and call in progress has its declared shape, for any
\* number of devices, workers and messages.
THEOREM TypeCorrect == Spec => []TypeOK
<1>1. Typed => TypeOK
  BY DEF Typed
<1>2. QED
  BY <1>1, AlwaysTyped, PTL

-----------------------------------------------------------------------------
(* What a step does to the rows, the pointers and the calls.               *)

\* n is the row m, but for its delivery mark.
SameRow(n, m) == n.id = m.id /\ n.seq = m.seq /\ n.from = m.from /\ n.to = m.to

\* A step inserts one row, or keeps the rows there are but for those deleted.
LEMMA RowsEffect ==
  ASSUME Typed, [Next]_vars
  PROVE  \/ \E w \in Worker : StoreMessage(w)
         \/ /\ \A n \in messages' : \E m \in messages : SameRow(n, m)
            /\ deletions' = 0 => \A m \in messages : \E n \in messages' : SameRow(n, m)
<1> DEFINE Kept == /\ \A n \in messages' : \E m \in messages : SameRow(n, m)
                   /\ \A m \in messages : \E n \in messages' : SameRow(n, m)
<1>1. messages' = messages => Kept
  BY DEF SameRow
<1>2. ASSUME NEW selected \in SUBSET messages, MarkDelivered(selected)
      PROVE  Kept
  BY <1>2, MarkDeliveredEffect DEF SameRow
<1>3. ASSUME NEW w \in Worker, CallStep(w)
      PROVE  StoreMessage(w) \/ messages' = messages
               \/ \E selected \in SUBSET messages : MarkDelivered(selected)
  <2>1. UpdateDelivered(w) => \E selected \in SUBSET messages : MarkDelivered(selected)
    BY DEF UpdateDelivered, Pending
  <2>2. QED
    BY <1>3, <2>1 DEF CallStep, SendMessage, ReadUnreadCounts, IncrementUnreadCounts,
       TryRelayToOnlineRecipient, AdvanceReadPointer, QueryNewlyRead, SaveReadPointer,
       GetPendingMessages, BulkAcknowledgeDelivery
<1>4. ASSUME NEW d \in Device
      PROVE  /\ \A id : AcknowledgeDelivery(d, id) =>
                  \E selected \in SUBSET messages : MarkDelivered(selected)
             /\ RevokeDevice(d) =>
                  \E selected \in SUBSET messages : MarkDelivered(selected)
  BY DEF AcknowledgeDelivery, RevokeDevice, Pending
<1>5. ASSUME NEW gone \in SUBSET messages, Delete(gone)
      PROVE  /\ \A n \in messages' : \E m \in messages : SameRow(n, m)
             /\ deletions' # 0
  <2>1. messages' \subseteq messages /\ deletions' = deletions + 1 /\ deletions \in Nat
    BY <1>5 DEF Delete, Typed, TypeOK
  <2>2. QED
    BY <2>1 DEF SameRow
<1>6. UNCHANGED vars => messages' = messages
  BY DEF vars
<1> HIDE DEF Kept
<1>7. Kept => \/ \E w \in Worker : StoreMessage(w)
              \/ /\ \A n \in messages' : \E m \in messages : SameRow(n, m)
                 /\ deletions' = 0 => \A m \in messages : \E n \in messages' : SameRow(n, m)
  BY DEF Kept
<1>8. QED
  BY StepCases, <1>1, <1>2, <1>3, <1>4, <1>5, <1>6, <1>7

\* A step executes at most one call, and leaves every other call as it is.
LEMMA CallsEffect ==
  ASSUME Typed, [Next]_vars, NEW v \in Worker, calls'[v] # calls[v]
  PROVE  CallStep(v)
<1>1. ASSUME NEW w \in Worker, CallStep(w), w # v
      PROVE  FALSE
  <2>1. \E c : Advanced(w, c)
    BY <1>1 DEF CallStep, SendMessage, StoreMessage, ReadUnreadCounts, IncrementUnreadCounts,
       TryRelayToOnlineRecipient, AdvanceReadPointer, QueryNewlyRead, SaveReadPointer,
       GetPendingMessages, BulkAcknowledgeDelivery, UpdateDelivered, Returned
  <2>2. calls'[v] = calls[v]
    BY <1>1, <2>1 DEF Advanced, Typed, TypeOK
  <2>3. QED
    BY <2>2
<1>2. calls' = calls => FALSE
  OBVIOUS
<1>3. QED
  BY StepCases, <1>1, <1>2 DEF AcknowledgeDelivery, RevokeDevice, Delete, vars

\* The statement that a call in a given place has just executed.
LEMMA LastStatement ==
  ASSUME Typed, [Next]_vars, NEW v \in Worker, calls'[v] # calls[v]
  PROVE  /\ calls'[v].step = "store" => \E from, to \in Device : SendMessage(v, from, to)
         /\ calls'[v].step = "count" => StoreMessage(v)
         /\ calls'[v].step = "increment" => ReadUnreadCounts(v)
         /\ calls'[v].step = "query" =>
              \E u \in User, upTo \in Nat : AdvanceReadPointer(v, u, upTo)
         /\ calls'[v].step = "advance" => QueryNewlyRead(v)
         /\ calls'[v].step = "acknowledge" => BulkAcknowledgeDelivery(v)
<1>1. CallStep(v)
  BY CallsEffect
<1>2. calls \in [Worker -> Call]
  BY DEF Typed, TypeOK
<1>3. \A c : Advanced(v, c) => calls'[v] = c
  BY <1>2 DEF Advanced
<1>4. Idle.step = "idle"
  BY DEF Idle
<1>5. \A u, upTo : AdvanceReadPointer(v, u, upTo) => calls'[v].step = "query"
  BY <1>3 DEF AdvanceReadPointer
<1>6. /\ \A from, to : SendMessage(v, from, to) => calls'[v].step = "store"
      /\ StoreMessage(v) => calls'[v].step = "count"
      /\ ReadUnreadCounts(v) => calls'[v].step = "increment"
  BY <1>3 DEF SendMessage, StoreMessage, ReadUnreadCounts
<1>7. IncrementUnreadCounts(v) => calls'[v].step \in {"idle", "relay"}
  BY <1>3, <1>4 DEF IncrementUnreadCounts, Returned
<1>8. /\ TryRelayToOnlineRecipient(v) => calls'[v].step = "idle"
      /\ SaveReadPointer(v) => calls'[v].step = "idle"
      /\ UpdateDelivered(v) => calls'[v].step = "idle"
  BY <1>3, <1>4 DEF TryRelayToOnlineRecipient, SaveReadPointer, UpdateDelivered, Returned
<1>9. ASSUME QueryNewlyRead(v)
      PROVE  calls'[v].step \in {"idle", "advance"}
  <2>1. \/ Advanced(v, Idle)
        \/ \E user, upTo, seen, read, unread :
             Advanced(v, [step |-> "advance", user |-> user, upTo |-> upTo, seen |-> seen,
                          read |-> read, unread |-> unread])
    BY <1>9, Queried
  <2>2. ASSUME NEW user, NEW upTo, NEW seen, NEW read, NEW unread,
               Advanced(v, [step |-> "advance", user |-> user, upTo |-> upTo,
                            seen |-> seen, read |-> read, unread |-> unread])
        PROVE  calls'[v].step = "advance"
    BY <1>3, <2>2
  <2>3. QED
    BY <1>3, <1>4, <2>1, <2>2
<1>10. /\ \A d : GetPendingMessages(v, d) => calls'[v].step = "opened"
       /\ BulkAcknowledgeDelivery(v) => calls'[v].step \in {"idle", "acknowledge"}
  BY <1>3, <1>4 DEF GetPendingMessages, BulkAcknowledgeDelivery, Returned
<1>11. 1 .. MaxMessages + 1 \subseteq Nat
  BY RelayAssumption
<1>12. QED
  BY <1>1, <1>5, <1>6, <1>7, <1>8, <1>9, <1>10, <1>11 DEF CallStep

\* Where a read pointer stands after a step, and who has been told of it.
LEMMA PointersEffect ==
  ASSUME Typed, [Next]_vars, NEW u \in User
  PROVE  /\ toldRead \subseteq toldRead'
         /\ \/ LastRead(pointers'[u]) = LastRead(pointers[u])
            \/ \E w \in Worker : /\ IncrementUnreadCounts(w)
                                 /\ calls[w].seen[u] = NoRow
                                 /\ LastRead(pointers'[u]) = 0
            \/ \E w \in Worker : /\ SaveReadPointer(w)
                                 /\ calls[w].user = u
                                 /\ LastRead(pointers'[u]) = calls[w].upTo
                                 /\ calls[w].read \subseteq toldRead'
<1>1. pointers \in [User -> Pointer] /\ NoRow \notin PointerRow
  BY RelayAssumption DEF Typed, TypeOK, PointerRow
<1>2. ASSUME NEW row \in PointerRow
      PROVE  LastRead(row) = row.last
  BY <1>1, <1>2 DEF LastRead
<1>3. ASSUME NEW w \in Worker, IncrementUnreadCounts(w)
      PROVE  /\ toldRead' = toldRead
             /\ \/ LastRead(pointers'[u]) = LastRead(pointers[u])
                \/ calls[w].seen[u] = NoRow /\ LastRead(pointers'[u]) = 0
  <2> DEFINE c == calls[w]
  <2>0. toldRead' = toldRead
    BY <1>3 DEF IncrementUnreadCounts
  <2>1. c \in Call /\ c.step = "increment" /\ c.seen \in [User -> Pointer]
    BY <1>3, CallShapes DEF Typed, TypeOK, IncrementUnreadCounts
  <2>2. \/ pointers'[u] = pointers[u]
        \/ c.seen[u] = NoRow /\ pointers'[u] = [last |-> 0, unread |-> 1]
        \/ /\ c.seen[u] # NoRow
           /\ pointers'[u] = [pointers[u] EXCEPT !.unread = c.seen[u].unread + 1]
    BY <1>3 DEF IncrementUnreadCounts
  <2>3. CASE c.seen[u] = NoRow /\ pointers'[u] = [last |-> 0, unread |-> 1]
    <3>1. [last |-> 0, unread |-> 1] \in PointerRow
      BY DEF PointerRow
    <3>2. LastRead(pointers'[u]) = 0
      BY <1>2, <2>3, <3>1
    <3>3. QED
      BY <2>0, <2>3, <3>2
  <2>4. CASE /\ c.seen[u] # NoRow
             /\ pointers'[u] = [pointers[u] EXCEPT !.unread = c.seen[u].unread + 1]
    <3>1. pointers[u] \in PointerRow /\ c.seen[u].unread \in Nat
      BY <1>1, <2>1, <2>4 DEF Typed, RowsStay, Pointer, PointerRow
    <3>2. pointers'[u] \in PointerRow /\ pointers'[u].last = pointers[u].last
      BY <2>4, <3>1 DEF PointerRow
    <3>3. QED
      BY <1>2, <2>0, <3>1, <3>2
  <2>5. QED
    BY <2>0, <2>2, <2>3, <2>4
<1>4. ASSUME NEW w \in Worker, SaveReadPointer(w)
      PROVE  /\ toldRead \subseteq toldRead'
             /\ \/ LastRead(pointers'[u]) = LastRead(pointers[u])
                \/ /\ calls[w].user = u /\ LastRead(pointers'[u]) = calls[w].upTo
                   /\ calls[w].read \subseteq toldRead'
  <2> DEFINE c == calls[w]
  <2>1. c \in Call /\ c.step = "advance"
    BY <1>4 DEF Typed, TypeOK, SaveReadPointer
  <2>2. /\ c.user \in User /\ c.upTo \in Nat /\ c.seen \in Pointer
        /\ c.read \in SUBSET Nat /\ c.unread \in Nat
    BY <2>1, CallShapes
  <2>3. CASE Inserts(c.user, c.seen) \/ c.user # u
    BY <1>1, <1>4, <2>3 DEF SaveReadPointer
  <2>4. CASE ~Inserts(c.user, c.seen) /\ c.user = u
    <3>1. /\ toldRead' = toldRead \cup c.read
          /\ pointers'[u] = IF c.seen = NoRow \/ c.unread # c.seen.unread
                            THEN [last |-> c.upTo, unread |-> c.unread]
                            ELSE [pointers[u] EXCEPT !.last = c.upTo]
      BY <1>1, <1>4, <2>4 DEF SaveReadPointer
    <3>2. pointers'[u] \in PointerRow /\ pointers'[u].last = c.upTo
      <4>1. CASE c.seen = NoRow \/ c.unread # c.seen.unread
        BY <2>2, <3>1, <4>1 DEF PointerRow
      <4>2. CASE ~(c.seen = NoRow \/ c.unread # c.seen.unread)
        <5>1. pointers[u] \in PointerRow
          BY <1>1, <2>1, <2>4, <4>2 DEF Typed, RowsStay, Pointer
        <5>2. QED
          BY <2>2, <3>1, <4>2, <5>1 DEF PointerRow
      <4>3. QED
        BY <4>1, <4>2
    <3>3. QED
      BY <1>2, <2>4, <3>1, <3>2
  <2>5. QED
    BY <2>3, <2>4
<1>5. ASSUME NEW w \in Worker, CallStep(w)
      PROVE  IncrementUnreadCounts(w) \/ SaveReadPointer(w) \/ UNCHANGED <<pointers, toldRead>>
  BY <1>5 DEF CallStep, SendMessage, StoreMessage, ReadUnreadCounts,
     TryRelayToOnlineRecipient, AdvanceReadPointer, QueryNewlyRead,
     GetPendingMessages, BulkAcknowledgeDelivery, UpdateDelivered
<1>6. \/ \E w \in Worker : CallStep(w)
      \/ UNCHANGED <<pointers, toldRead>>
  BY StepCases DEF AcknowledgeDelivery, RevokeDevice, Delete, vars
<1>7. QED
  BY <1>3, <1>4, <1>5, <1>6

\* Revoked devices stay revoked, and deletions are not undone.
LEMMA MonotoneEffect ==
  ASSUME Typed, [Next]_vars
  PROVE  active' \subseteq active /\ (deletions' = 0 => deletions = 0)
<1>1. ASSUME NEW w \in Worker, CallStep(w)
      PROVE  UNCHANGED <<active, deletions>>
  BY <1>1 DEF CallStep, SendMessage, StoreMessage, ReadUnreadCounts, IncrementUnreadCounts,
     TryRelayToOnlineRecipient, AdvanceReadPointer, QueryNewlyRead, SaveReadPointer,
     GetPendingMessages, BulkAcknowledgeDelivery, UpdateDelivered
<1>2. ASSUME NEW gone, Delete(gone)
      PROVE  active' = active /\ deletions' # 0
  BY <1>2 DEF Delete, Typed, TypeOK
<1>3. QED
  BY StepCases, <1>1, <1>2 DEF AcknowledgeDelivery, RevokeDevice, vars

-----------------------------------------------------------------------------
(* The order of the sequence numbers.                                      *)

\* Every step keeps the order of the sequence numbers: a new message gets a
\* number above all those stored.
LEMMA NextOrdered ==
  ASSUME Typed, SequenceOrder, [Next]_vars
  PROVE  SequenceOrder'
<1>1. \A m \in messages : m.id \in Nat /\ m.seq \in Nat /\ m.id <= lastId
  BY DEF Typed, TypeOK, Message
<1>2. ASSUME NEW w \in Worker, StoreMessage(w)
      PROVE  SequenceOrder'
  <2>1. PICK new \in Message :
          /\ messages' = messages \cup {new}
          /\ new.id = lastId' /\ \A m \in messages : m.seq < new.seq
    BY <1>2, StoredMessage
  <2>2. lastId' = lastId + 1 /\ lastId \in Nat
    BY <1>2 DEF StoreMessage, Typed, TypeOK
  <2>3. \A m \in messages : m.id < new.id
    BY <1>1, <2>1, <2>2
  <2>4. new.id \in Nat /\ new.seq \in Nat
    BY DEF Message
  <2>5. QED
    BY <1>1, <2>1, <2>3, <2>4 DEF SequenceOrder
<1>3. CASE \A n \in messages' : \E m \in messages : SameRow(n, m)
  BY <1>3 DEF SequenceOrder, SameRow
<1>4. QED
  BY <1>2, <1>3, RowsEffect

\* For any number of senders and deletions: the messages that coexist are
\* numbered in the order of their arrival, without ties.
THEOREM Ordered == Spec => []SequenceOrder
<1>1. Init => SequenceOrder
  BY DEF Init, SequenceOrder
<1>2. Typed /\ SequenceOrder /\ [Next]_vars => SequenceOrder'
  BY NextOrdered
<1>3. QED
  BY <1>1, <1>2, AlwaysTyped, PTL DEF Spec

-----------------------------------------------------------------------------
(* Read pointers, up to the first deletion.                                *)

\* Some message has the number n or a higher one; 0 is where pointers start.
Reached(n) == n = 0 \/ \E m \in messages : n <= m.seq

\* No pointer, and no pointer about to be saved, is ahead of the store.
ReadWithinStore ==
  /\ \A u \in User : Reached(LastRead(pointers[u]))
  /\ \A w \in Worker : /\ calls[w].step = "query" => Reached(LastRead(calls[w].seen))
                       /\ calls[w].step = "advance" => Reached(calls[w].upTo)

\* What a pointer at n has passed for the user's devices.
ReadBy(u, n) == {m.id : m \in {k \in messages : k.to \in ActiveDevices(u) /\ k.seq <= n}}

\* Senders know of all that is below a pointer, and of all that is below the
\* pointer a call has read; a call that will save a pointer will tell the rest.
ToldOfReads ==
  /\ \A u \in User : ReadBy(u, LastRead(pointers[u])) \subseteq toldRead
  /\ \A w \in Worker :
       /\ calls[w].step = "query" =>
            ReadBy(calls[w].user, LastRead(calls[w].seen)) \subseteq toldRead
       /\ calls[w].step = "advance" =>
            ReadBy(calls[w].user, calls[w].upTo) \subseteq toldRead \cup calls[w].read

Reading ==
  /\ \A m \in messages : m.seq >= 1
  /\ deletions = 0 => ReadWithinStore /\ ToldOfReads

\* Sequence numbers start at one.
LEMMA Numbered ==
  ASSUME Typed, \A m \in messages : m.seq >= 1, [Next]_vars
  PROVE  \A m \in messages' : m.seq >= 1
<1>1. ASSUME NEW w \in Worker, StoreMessage(w)
      PROVE  \A m \in messages' : m.seq >= 1
  BY <1>1, StoredMessage
<1>2. QED
  BY <1>1, RowsEffect DEF SameRow

\* Without deletions, the store does not shrink below a number it has reached.
LEMMA ReachedStays ==
  ASSUME Typed, [Next]_vars, deletions' = 0, NEW n \in Nat, Reached(n)
  PROVE  Reached(n)'
<1>1. ASSUME NEW w \in Worker, StoreMessage(w)
      PROVE  messages \subseteq messages'
  BY <1>1, StoredMessage
<1>2. QED
  BY <1>1, RowsEffect DEF SameRow, Reached

\* A step stores nothing that a pointer at a reached number has passed, and
\* revocation only takes devices away.
LEMMA NothingReadIsNew ==
  ASSUME Typed, [Next]_vars, NEW u \in User, NEW n \in Nat, Reached(n),
         \A m \in messages : m.seq >= 1
  PROVE  ReadBy(u, n)' \subseteq ReadBy(u, n)
<1>1. active' \subseteq active
  BY MonotoneEffect
<1>2. ASSUME NEW w \in Worker, StoreMessage(w)
      PROVE  ReadBy(u, n)' \subseteq ReadBy(u, n)
  <2>1. PICK new \in Message :
          /\ messages' = messages \cup {new} /\ new.seq >= 1
          /\ \A m \in messages : m.seq < new.seq
    BY <1>2, StoredMessage
  <2>2. new.seq \in Nat /\ \A m \in messages : m.seq \in Nat
    BY DEF Typed, TypeOK, Message
  <2>3. n < new.seq
    BY <2>1, <2>2 DEF Reached
  <2>4. QED
    BY <1>1, <2>1, <2>2, <2>3 DEF ReadBy, ActiveDevices
<1>3. CASE \A k \in messages' : \E m \in messages : SameRow(k, m)
  BY <1>1, <1>3 DEF ReadBy, ActiveDevices, SameRow
<1>4. QED
  BY <1>2, <1>3, RowsEffect

\* What a query and the pointer it starts from cover between them.
LEMMA NewlyReadCovers ==
  ASSUME Typed, NEW u \in User, NEW last \in Nat, NEW target \in Nat
  PROVE  ReadBy(u, target) \subseteq ReadBy(u, last) \cup NewlyRead(u, last, target)
<1>1. \A m \in messages : m.seq \in Nat
  BY DEF Typed, TypeOK, Message
<1>2. QED
  BY <1>1 DEF ReadBy, NewlyRead, Unread

\* The numbers that calls and pointers hold.
LEMMA PointerNumbers ==
  ASSUME Typed
  PROVE  /\ \A u \in User : LastRead(pointers[u]) \in Nat
         /\ \A w \in Worker :
              /\ calls[w].step \in {"query", "advance"} =>
                   /\ calls[w].user \in User /\ calls[w].upTo \in Nat
                   /\ LastRead(calls[w].seen) \in Nat
<1>1. /\ \A u \in User : pointers[u] \in Pointer
      /\ \A w \in Worker : calls[w] \in Call
  BY DEF Typed, TypeOK
<1>2. QED
  BY <1>1, CallShapes, LastReadNat

\* No step moves a read pointer, or what a call is about to make of it, past
\* the messages there are.
LEMMA NextWithinStore ==
  ASSUME Typed, Reading, [Next]_vars, deletions' = 0
  PROVE  ReadWithinStore'
<1>1. ReadWithinStore
  BY MonotoneEffect DEF Reading
<1>2. ASSUME NEW u \in User
      PROVE  Reached(LastRead(pointers[u]))'
  <2>1. PICK n \in Nat : n = LastRead(pointers[u])'
    BY NextTyped, LastReadNat DEF Typed, TypeOK
  <2>2. CASE n = LastRead(pointers[u])
    BY <1>1, <2>1, <2>2, ReachedStays DEF ReadWithinStore
  <2>3. CASE n = 0
    BY <2>1, <2>3 DEF Reached
  <2>4. ASSUME NEW w \in Worker, SaveReadPointer(w), n = calls[w].upTo
        PROVE  Reached(n)'
    <3>1. calls[w].step = "advance"
      BY <2>4 DEF SaveReadPointer
    <3>2. Reached(n)
      BY <1>1, <2>4, <3>1 DEF ReadWithinStore
    <3>3. QED
      BY <3>2, ReachedStays
  <2>5. QED
    BY <2>1, <2>2, <2>3, <2>4, PointersEffect
<1>3. ASSUME NEW v \in Worker, calls'[v].step = "query"
      PROVE  Reached(LastRead(calls[v].seen))'
  <2>1. CASE calls'[v] = calls[v]
    BY <1>1, <1>3, <2>1, PointerNumbers, ReachedStays DEF ReadWithinStore
  <2>2. CASE calls'[v] # calls[v]
    <3>1. PICK u \in User, upTo \in Nat : AdvanceReadPointer(v, u, upTo)
      BY <1>3, <2>2, LastStatement
    <3>2. calls'[v].seen = pointers[u]
      BY <3>1 DEF AdvanceReadPointer, Advanced, Typed, TypeOK
    <3>3. QED
      BY <1>1, <3>2, PointerNumbers, ReachedStays DEF ReadWithinStore
  <2>3. QED
    BY <2>1, <2>2
<1>4. ASSUME NEW v \in Worker, calls'[v].step = "advance"
      PROVE  Reached(calls[v].upTo)'
  <2>1. CASE calls'[v] = calls[v]
    BY <1>1, <1>4, <2>1, PointerNumbers, ReachedStays DEF ReadWithinStore
  <2>2. CASE calls'[v] # calls[v]
    <3>1. QueryNewlyRead(v)
      BY <1>4, <2>2, LastStatement
    <3>2. calls'[v] # Idle
      BY <1>4 DEF Idle
    <3>3. PICK top \in TopSequence, target \in Nat :
            target <= top /\ calls'[v].upTo = target
      BY <3>1, <3>2, Queried DEF Advanced, Typed, TypeOK
    <3>4. Reached(target)
      BY <3>3 DEF Reached, TopSequence
    <3>5. QED
      BY <3>3, <3>4, ReachedStays
  <2>3. QED
    BY <2>1, <2>2
<1>5. QED
  BY <1>2, <1>3, <1>4 DEF ReadWithinStore

\* Every message that a pointer has passed was told to its sender, or is
\* among those that a call in progress is about to tell.
LEMMA NextTold ==
  ASSUME Typed, Reading, [Next]_vars, deletions' = 0
  PROVE  ToldOfReads'
<1>1. ReadWithinStore /\ ToldOfReads /\ \A m \in messages : m.seq >= 1
  BY MonotoneEffect DEF Reading
<1>2. toldRead \subseteq toldRead'
  BY StepCases DEF CallStep, SendMessage, StoreMessage, ReadUnreadCounts,
     IncrementUnreadCounts, TryRelayToOnlineRecipient, AdvanceReadPointer, QueryNewlyRead,
     SaveReadPointer, GetPendingMessages, BulkAcknowledgeDelivery, UpdateDelivered,
     AcknowledgeDelivery, RevokeDevice, Delete, vars
<1>3. ASSUME NEW u \in User
      PROVE  (ReadBy(u, LastRead(pointers[u])) \subseteq toldRead)'
  <2>1. PICK n \in Nat : n = LastRead(pointers[u])'
    BY NextTyped, LastReadNat DEF Typed, TypeOK
  <2>2. CASE n = LastRead(pointers[u])
    <3>1. Reached(n) /\ ReadBy(u, n) \subseteq toldRead
      BY <1>1, <2>2 DEF ReadWithinStore, ToldOfReads
    <3>2. QED
      BY <1>1, <1>2, <2>1, <3>1, NothingReadIsNew
  <2>3. CASE n = 0
    <3>1. \A m \in messages' : m.seq >= 1 /\ m.seq \in Nat
      BY <1>1, Numbered, NextTyped DEF Typed, TypeOK, Message
    <3>2. QED
      BY <2>1, <2>3, <3>1 DEF ReadBy
  <2>4. ASSUME NEW w \in Worker, SaveReadPointer(w), calls[w].user = u,
               n = calls[w].upTo, calls[w].read \subseteq toldRead'
        PROVE  (ReadBy(u, n) \subseteq toldRead)'
    <3>1. calls[w].step = "advance"
      BY <2>4 DEF SaveReadPointer
    <3>2. Reached(n) /\ ReadBy(u, n) \subseteq toldRead \cup calls[w].read
      BY <1>1, <2>4, <3>1 DEF ReadWithinStore, ToldOfReads
    <3>3. QED
      BY <1>1, <1>2, <2>4, <3>2, NothingReadIsNew
  <2>5. QED
    BY <2>1, <2>2, <2>3, <2>4, PointersEffect
<1>4. ASSUME NEW v \in Worker, calls'[v].step = "query"
      PROVE  (ReadBy(calls[v].user, LastRead(calls[v].seen)) \subseteq toldRead)'
  <2>1. CASE calls'[v] = calls[v]
    <3>1. calls[v].user \in User /\ LastRead(calls[v].seen) \in Nat
      BY <1>4, <2>1, PointerNumbers
    <3>2. /\ Reached(LastRead(calls[v].seen))
          /\ ReadBy(calls[v].user, LastRead(calls[v].seen)) \subseteq toldRead
      BY <1>1, <1>4, <2>1 DEF ReadWithinStore, ToldOfReads
    <3>3. PICK u \in User, n \in Nat : u = calls[v].user /\ n = LastRead(calls[v].seen)
      BY <3>1
    <3>4. ReadBy(u, n)' \subseteq ReadBy(u, n)
      BY <1>1, <3>2, <3>3, NothingReadIsNew
    <3>5. u = calls'[v].user /\ n = LastRead(calls[v].seen)'
      BY <2>1, <3>3 DEF LastRead
    <3>6. QED
      BY <1>2, <3>2, <3>3, <3>4, <3>5
  <2>2. CASE calls'[v] # calls[v]
    <3>1. PICK u \in User, upTo \in Nat : AdvanceReadPointer(v, u, upTo)
      BY <1>4, <2>2, LastStatement
    <3>2. calls'[v].seen = pointers[u] /\ calls'[v].user = u
      BY <3>1 DEF AdvanceReadPointer, Advanced, Typed, TypeOK
    <3>3. PICK n \in Nat : n = LastRead(pointers[u])
      BY PointerNumbers
    <3>4. Reached(n) /\ ReadBy(u, n) \subseteq toldRead
      BY <1>1, <3>3 DEF ReadWithinStore, ToldOfReads
    <3>5. ReadBy(u, n)' \subseteq ReadBy(u, n)
      BY <1>1, <3>4, NothingReadIsNew
    <3>6. n = LastRead(calls[v].seen)'
      BY <3>2, <3>3 DEF LastRead
    <3>7. QED
      BY <1>2, <3>2, <3>4, <3>5, <3>6
  <2>3. QED
    BY <2>1, <2>2
<1>5. ASSUME NEW v \in Worker, calls'[v].step = "advance"
      PROVE  (ReadBy(calls[v].user, calls[v].upTo) \subseteq toldRead \cup calls[v].read)'
  <2>1. CASE calls'[v] = calls[v]
    <3>1. PICK u \in User, n \in Nat : u = calls[v].user /\ n = calls[v].upTo
      BY <1>5, <2>1, PointerNumbers
    <3>2. Reached(n) /\ ReadBy(u, n) \subseteq toldRead \cup calls[v].read
      BY <1>1, <1>5, <2>1, <3>1 DEF ReadWithinStore, ToldOfReads
    <3>3. ReadBy(u, n)' \subseteq ReadBy(u, n)
      BY <1>1, <3>2, NothingReadIsNew
    <3>4. QED
      BY <1>2, <2>1, <3>1, <3>2, <3>3
  <2>2. CASE calls'[v] # calls[v]
    <3>1. QueryNewlyRead(v)
      BY <1>5, <2>2, LastStatement
    <3>2. calls'[v] # Idle
      BY <1>5 DEF Idle
    <3>3. PICK top \in TopSequence, target \in Nat, unread \in Nat :
            /\ target <= top
            /\ Advanced(v,
                 [step |-> "advance", user |-> calls[v].user, upTo |-> target,
                  seen |-> calls[v].seen,
                  read |-> NewlyRead(calls[v].user, LastRead(calls[v].seen), target),
                  unread |-> unread])
      BY <3>1, <3>2, Queried DEF Advanced, Typed, TypeOK
    <3>4. PICK u \in User, last \in Nat : u = calls[v].user /\ last = LastRead(calls[v].seen)
      BY <3>1, PointerNumbers DEF QueryNewlyRead
    <3>5. /\ calls'[v].user = u /\ calls'[v].upTo = target
          /\ calls'[v].read = NewlyRead(u, last, target)
      BY <3>3, <3>4 DEF Advanced, Typed, TypeOK
    <3>6. ReadBy(u, last) \subseteq toldRead
      BY <1>1, <3>1, <3>4 DEF ToldOfReads, QueryNewlyRead
    <3>7. ReadBy(u, target) \subseteq ReadBy(u, last) \cup NewlyRead(u, last, target)
      BY NewlyReadCovers
    <3>8. UNCHANGED <<messages, active>>
      BY <3>1 DEF QueryNewlyRead
    <3>9. ReadBy(u, target)' = ReadBy(u, target)
      BY <3>8 DEF ReadBy, ActiveDevices
    <3>10. QED
      BY <1>2, <3>5, <3>6, <3>7, <3>9
  <2>3. QED
    BY <2>1, <2>2
<1>6. QED
  BY <1>3, <1>4, <1>5 DEF ToldOfReads

\* At first nothing is stored and nothing read.
LEMMA InitReading ==
  ASSUME Init
  PROVE  Reading
<1>1. \A u \in User : LastRead(pointers[u]) = 0
  BY DEF Init, LastRead
<1>2. \A w \in Worker : calls[w].step = "idle"
  BY DEF Init, Idle
<1>3. messages = {}
  BY DEF Init
<1>4. QED
  BY <1>1, <1>2, <1>3 DEF Reading, ReadWithinStore, ToldOfReads, Reached, ReadBy

\* Up to the first deletion, no pointer is ahead of the store, and the senders
\* of all that pointers have passed have been told, or are about to be.
THEOREM ReadingHolds == Spec => [](Typed /\ Reading)
<1>1. Typed /\ Reading /\ [Next]_vars => Reading'
  BY Numbered, NextWithinStore, NextTold DEF Reading
<1>2. QED
  BY <1>1, InitTyped, NextTyped, InitReading, PTL DEF Spec

\* Up to the first deletion, and however calls overlap, no message is stored at
\* or below the read pointer of the user it is for.  (A deletion lets
\* StoreMessage number the next message below a pointer.)
THEOREM StoredAheadOfPointers == Spec => NeverBornRead
<1>1. ASSUME Typed, Reading, deletions = 0, Next, NEW m \in messages', m.id > lastId
      PROVE  m.seq > LastRead(pointers[Owner[m.to]])
  <2>1. \A k \in messages : k.id <= lastId /\ k.id \in Nat /\ k.seq \in Nat
    BY <1>1 DEF Typed, TypeOK, Message
  <2>2. lastId \in Nat
    BY <1>1 DEF Typed, TypeOK
  <2>3. PICK w \in Worker : StoreMessage(w)
    BY <1>1, <2>1, <2>2, RowsEffect DEF SameRow
  <2>4. PICK new \in Message :
          /\ messages' = messages \cup {new} /\ new.seq >= 1
          /\ \A k \in messages : k.seq < new.seq
    BY <1>1, <2>3, StoredMessage
  <2>5. m = new
    BY <1>1, <2>1, <2>2, <2>4
  <2>6. Owner[m.to] \in User /\ m.seq \in Nat
    BY <2>5, RelayAssumption DEF Message
  <2>7. PICK n \in Nat : n = LastRead(pointers[Owner[m.to]])
    BY <1>1, <2>6, PointerNumbers
  <2>8. Reached(n)
    BY <1>1, <2>6, <2>7 DEF Reading, ReadWithinStore
  <2>9. QED
    BY <2>1, <2>4, <2>5, <2>6, <2>7, <2>8 DEF Reached
<1>2. Typed /\ Reading /\ [Next]_vars =>
        [\A m \in messages' :
           deletions = 0 /\ m.id > lastId => m.seq > LastRead(pointers[Owner[m.to]])]_vars
  BY <1>1
<1>3. QED
  BY <1>2, ReadingHolds, PTL DEF Spec, NeverBornRead

\* Up to the first deletion, and however calls overlap, the sender of every
\* message that a read pointer has passed has been told.
THEOREM SendersKnowWhatIsRead == Spec => []SendersToldRead
<1>1. Typed /\ Reading => SendersToldRead
  BY RelayAssumption
     DEF Typed, TypeOK, Message, Reading, ToldOfReads, ReadBy, ActiveDevices, SendersToldRead
<1>2. QED
  BY <1>1, ReadingHolds, PTL

-----------------------------------------------------------------------------
(* Deliveries and pointers, whatever calls overlap.                        *)

\* A call that is about to mark messages delivered will tell all their senders,
\* but of messages stored since it asked which they are.
AcknowledgesAll ==
  \A w \in Worker :
    calls[w].step = "acknowledge" /\ calls[w].device \in active =>
      ToNotify(calls[w].device) \subseteq calls[w].told \cup overtaken

Delivering == SendersToldDelivered /\ AcknowledgesAll

\* Marking messages delivered does not make one pending.
LEMMA PendingShrinks ==
  ASSUME Typed, NEW selected \in SUBSET messages, MarkDelivered(selected), NEW d \in Device
  PROVE  ToNotify(d)' \subseteq ToNotify(d)
<1>1. \A n \in messages' : \E m \in messages :
        /\ n.id = m.id /\ n.to = m.to
        /\ n.delivered = (m.delivered \/ m \in selected)
  BY MarkDeliveredEffect
<1>2. \A n \in messages' : n.to = d /\ ~n.delivered =>
        \E m \in messages : n.id = m.id /\ m.to = d /\ ~m.delivered
  BY <1>1
<1>3. QED
  BY <1>2 DEF ToNotify, Pending

\* A step makes a message pending for a device whose acknowledge-all is between
\* its query and its UPDATE only as one that overtakes it.
LEMMA PendingOrOvertaken ==
  ASSUME Typed, [Next]_vars, NEW v \in Worker,
         calls[v].step = "acknowledge", calls'[v] = calls[v]
  PROVE  ToNotify(calls[v].device)' \subseteq ToNotify(calls[v].device) \cup overtaken'
<1> DEFINE d == calls[v].device
<1>1. d \in Device
  BY CallShapes DEF Typed, TypeOK
<1>2. ASSUME NEW w \in Worker, StoreMessage(w)
      PROVE  ToNotify(d)' \subseteq ToNotify(d) \cup overtaken'
  <2>1. PICK new \in Message : /\ messages' = messages \cup {new}
                               /\ new.id = lastId' /\ new.to = calls[w].to
    BY <1>2, StoredMessage
  <2>2. new.to = d => new.id \in overtaken'
    BY <1>2, <2>1 DEF StoreMessage, Acknowledging
  <2>3. QED
    BY <2>1, <2>2 DEF ToNotify, Pending
<1>3. ASSUME NEW selected \in SUBSET messages, MarkDelivered(selected)
      PROVE  ToNotify(d)' \subseteq ToNotify(d)
  BY <1>1, <1>3, PendingShrinks
<1>4. ASSUME UNCHANGED messages
      PROVE  ToNotify(d)' \subseteq ToNotify(d)
  BY <1>4 DEF ToNotify, Pending
<1>5. ASSUME NEW gone \in SUBSET messages, Delete(gone)
      PROVE  ToNotify(d)' \subseteq ToNotify(d)
  BY <1>5 DEF Delete, ToNotify, Pending
<1>6. ASSUME NEW w \in Worker, CallStep(w)
      PROVE  \/ StoreMessage(w) \/ UNCHANGED messages
             \/ \E selected \in SUBSET messages : MarkDelivered(selected)
  <2>1. UpdateDelivered(w) => \E selected \in SUBSET messages : MarkDelivered(selected)
    BY DEF UpdateDelivered, Pending
  <2>2. QED
    BY <1>6, <2>1 DEF CallStep, SendMessage, ReadUnreadCounts, IncrementUnreadCounts,
       TryRelayToOnlineRecipient, AdvanceReadPointer, QueryNewlyRead, SaveReadPointer,
       GetPendingMessages, BulkAcknowledgeDelivery
<1>7. ASSUME NEW e \in Device, RevokeDevice(e)
      PROVE  \E selected \in SUBSET messages : MarkDelivered(selected)
  BY <1>7 DEF RevokeDevice, Pending
<1>8. ASSUME NEW e \in Device, NEW id \in 1 .. lastId, AcknowledgeDelivery(e, id)
      PROVE  \E selected \in SUBSET messages : MarkDelivered(selected)
  BY <1>8 DEF AcknowledgeDelivery
<1>9. CASE UNCHANGED vars
  BY <1>4, <1>9 DEF vars
<1>10. QED
  BY <1>2, <1>3, <1>4, <1>5, <1>6, <1>7, <1>8, <1>9, StepCases

\* What was told stays told, and a step marks only what was selected.
LEMMA ToldStays ==
  ASSUME Typed, [Next]_vars
  PROVE  /\ toldDelivered \subseteq toldDelivered' /\ overtaken \subseteq overtaken'
         /\ active' \subseteq active
<1>1. ASSUME NEW w \in Worker, CallStep(w)
      PROVE  toldDelivered \subseteq toldDelivered' /\ overtaken \subseteq overtaken'
  BY <1>1 DEF CallStep, SendMessage, StoreMessage, ReadUnreadCounts, IncrementUnreadCounts,
     TryRelayToOnlineRecipient, AdvanceReadPointer, QueryNewlyRead, SaveReadPointer,
     GetPendingMessages, BulkAcknowledgeDelivery, UpdateDelivered
<1>2. QED
  BY <1>1, StepCases, MonotoneEffect DEF AcknowledgeDelivery, RevokeDevice, Delete, vars

\* A call that is about to mark messages has told of them, or they overtook it:
\* whatever is stored, marked or deleted while it waits.
LEMMA NextAcknowledges ==
  ASSUME Typed, Delivering, [Next]_vars
  PROVE  AcknowledgesAll'
<1>1. ASSUME NEW v \in Worker, calls'[v].step = "acknowledge", calls'[v].device \in active',
             calls'[v] = calls[v]
      PROVE  (ToNotify(calls[v].device) \subseteq calls[v].told \cup overtaken)'
  <2>1. ToNotify(calls[v].device) \subseteq calls[v].told \cup overtaken
    BY <1>1, ToldStays DEF Delivering, AcknowledgesAll
  <2>2. ToNotify(calls[v].device)' \subseteq ToNotify(calls[v].device) \cup overtaken'
    BY <1>1, PendingOrOvertaken
  <2>3. QED
    BY <1>1, <2>1, <2>2, ToldStays
<1>2. ASSUME NEW v \in Worker, calls'[v].step = "acknowledge", calls'[v] # calls[v]
      PROVE  (ToNotify(calls[v].device) \subseteq calls[v].told \cup overtaken)'
  <2>1. calls \in [Worker -> Call] /\ Idle.step = "idle"
    BY DEF Typed, TypeOK, Idle
  <2>2. BulkAcknowledgeDelivery(v)
    BY <1>2, LastStatement
  <2>3. Advanced(v, [step |-> "acknowledge", device |-> calls[v].device,
                     told |-> ToNotify(calls[v].device)])
    BY <1>2, <2>1, <2>2 DEF BulkAcknowledgeDelivery, Returned, Advanced
  <2>4. calls'[v].device = calls[v].device /\ calls'[v].told = ToNotify(calls[v].device)
    BY <2>1, <2>3 DEF Advanced
  <2>5. UNCHANGED messages
    BY <2>2 DEF BulkAcknowledgeDelivery
  <2>6. QED
    BY <2>4, <2>5 DEF ToNotify, Pending
<1>3. QED
  BY <1>1, <1>2 DEF AcknowledgesAll

\* What is marked is told of by the step that marks it, or overtook it.
LEMMA NextToldDelivered ==
  ASSUME Typed, Delivering, [Next]_vars
  PROVE  SendersToldDelivered'
<1> DEFINE Told == toldDelivered \cup overtaken
<1>1. \A m \in messages : m.delivered /\ m.to \in active => m.id \in Told
  BY DEF Delivering, SendersToldDelivered
<1>2. Told \subseteq Told' /\ active' \subseteq active
  BY ToldStays
<1>3. ASSUME NEW selected \in SUBSET messages, MarkDelivered(selected),
             \A m \in selected : m.to \in active' => m.id \in Told'
      PROVE  SendersToldDelivered'
  <2>1. \A n \in messages' : \E m \in messages :
          /\ n.id = m.id /\ n.to = m.to
          /\ n.delivered = (m.delivered \/ m \in selected)
    BY <1>3, MarkDeliveredEffect
  <2>2. ASSUME NEW n \in messages', n.delivered, n.to \in active'
        PROVE  n.id \in Told'
    <3>1. PICK m \in messages : /\ n.id = m.id /\ n.to = m.to
                                /\ n.delivered = (m.delivered \/ m \in selected)
      BY <2>1
    <3>2. QED
      BY <1>1, <1>2, <1>3, <2>2, <3>1
  <2>3. QED
    BY <2>2 DEF SendersToldDelivered
<1>4. ASSUME NEW w \in Worker, UpdateDelivered(w)
      PROVE  SendersToldDelivered'
  <2> DEFINE c == calls[w]
  <2>1. /\ c.step = "acknowledge" /\ toldDelivered' = toldDelivered \cup c.told
        /\ active' = active /\ MarkDelivered(Pending(c.device))
        /\ Pending(c.device) \in SUBSET messages
    BY <1>4 DEF UpdateDelivered, Pending
  <2>2. c.device \in active => ToNotify(c.device) \subseteq c.told \cup overtaken
    BY <2>1 DEF Delivering, AcknowledgesAll
  <2>3. \A m \in Pending(c.device) : m.to \in active' => m.id \in Told'
    BY <1>2, <2>1, <2>2 DEF ToNotify, Pending
  <2>4. QED
    BY <1>3, <2>1, <2>3
<1>5. ASSUME NEW w \in Worker, StoreMessage(w)
      PROVE  SendersToldDelivered'
  <2>1. PICK new \in Message : messages' = messages \cup {new} /\ new.delivered = FALSE
    BY <1>5, StoredMessage
  <2>2. \A n \in messages' : n.delivered => n \in messages
    BY <2>1
  <2>3. QED
    BY <1>1, <1>2, <2>2 DEF SendersToldDelivered
<1>6. ASSUME messages' \subseteq messages
      PROVE  SendersToldDelivered'
  BY <1>1, <1>2, <1>6 DEF SendersToldDelivered
<1>7. ASSUME NEW w \in Worker, CallStep(w)
      PROVE  UpdateDelivered(w) \/ StoreMessage(w) \/ UNCHANGED messages
  BY <1>7 DEF CallStep, SendMessage, ReadUnreadCounts, IncrementUnreadCounts,
     TryRelayToOnlineRecipient, AdvanceReadPointer, QueryNewlyRead, SaveReadPointer,
     GetPendingMessages, BulkAcknowledgeDelivery
<1>8. ASSUME NEW d \in Device, NEW id \in 1 .. lastId, AcknowledgeDelivery(d, id)
      PROVE  SendersToldDelivered'
  <2>1. /\ MarkDelivered({m \in messages : m.id = id})
        /\ toldDelivered' = toldDelivered \cup {id}
    BY <1>8 DEF AcknowledgeDelivery
  <2>2. \A m \in {k \in messages : k.id = id} : m.id \in Told'
    BY <2>1
  <2>3. QED
    BY <1>3, <2>1, <2>2
<1>9. ASSUME NEW d \in Device, RevokeDevice(d)
      PROVE  SendersToldDelivered'
  <2>1. /\ MarkDelivered(Pending(d)) /\ Pending(d) \in SUBSET messages
        /\ \A m \in Pending(d) : m.to \notin active'
    BY <1>9 DEF RevokeDevice, Pending
  <2>2. QED
    BY <1>3, <2>1
<1>10. ASSUME NEW gone \in SUBSET messages, Delete(gone)
       PROVE  messages' \subseteq messages
  BY <1>10 DEF Delete
<1>11. CASE UNCHANGED vars
  BY <1>6, <1>11 DEF vars
<1>12. QED
  BY <1>4, <1>5, <1>6, <1>7, <1>8, <1>9, <1>10, <1>11, StepCases

\* Whatever calls overlap, the sender of every message that is marked delivered
\* for a device in use has been told, unless the message was stored between the
\* query of an acknowledge-all of that device and its UPDATE: also when several
\* calls acknowledge the same messages, and messages or devices go meanwhile.
THEOREM SendersKnowWhatIsDelivered == Spec => []SendersToldDelivered
<1>1. Init => Delivering
  BY DEF Init, Idle, Delivering, SendersToldDelivered, AcknowledgesAll
<1>2. Typed /\ Delivering /\ [Next]_vars => Delivering'
  BY NextAcknowledges, NextToldDelivered DEF Delivering
<1>3. Delivering => SendersToldDelivered
  BY DEF Delivering
<1>4. QED
  BY <1>1, <1>2, <1>3, AlwaysTyped, PTL DEF Spec

\* The pointer that a call will save is ahead of the row it has read.
Ahead ==
  \A w \in Worker : calls[w].step = "advance" => LastRead(calls[w].seen) < calls[w].upTo

\* The early return leaves only calls that are ahead.
LEMMA NextAhead ==
  ASSUME Typed, Ahead, [Next]_vars
  PROVE  Ahead'
<1>1. calls \in [Worker -> Call]
  BY DEF Typed, TypeOK
<1>2. ASSUME NEW v \in Worker, calls'[v].step = "advance"
      PROVE  LastRead(calls'[v].seen) < calls'[v].upTo
  <2>1. CASE calls'[v] = calls[v]
    BY <1>2, <2>1 DEF Ahead
  <2>2. CASE calls'[v] # calls[v]
    <3>1. QueryNewlyRead(v)
      BY <1>2, <2>2, LastStatement
    <3>2. calls'[v] # Idle
      BY <1>2 DEF Idle
    <3>3. PICK target, read, unread :
            /\ LastRead(calls[v].seen) < target
            /\ Advanced(v, [step |-> "advance", user |-> calls[v].user, upTo |-> target,
                            seen |-> calls[v].seen, read |-> read, unread |-> unread])
      BY <1>1, <3>1, <3>2, Queried DEF Advanced
    <3>4. calls'[v].seen = calls[v].seen /\ calls'[v].upTo = target
      BY <1>1, <3>3 DEF Advanced
    <3>5. QED
      BY <3>3, <3>4
  <2>3. QED
    BY <2>1, <2>2
<1>3. QED
  BY <1>2 DEF Ahead, LastRead

\* A call that saves the pointer row as it has read it only moves it forward,
\* however many calls and whatever else they store, count or read meanwhile: what
\* moves a pointer back is the missing row version and nothing else.
THEOREM PointersAdvance == Spec => OnlyStaleSavesRegress
<1>1. Init => Ahead
  BY DEF Init, Idle, Ahead
<1>2. Typed /\ Ahead /\ [Next]_vars => Ahead'
  BY NextAhead
<1>3. ASSUME Typed, Ahead, [Next]_vars, NEW u \in User,
             LastRead(pointers'[u]) < LastRead(pointers[u])
      PROVE  \E w \in Worker : Stale(w, u) /\ calls'[w] = Idle
  <2>1. LastRead(pointers[u]) \in Nat
    BY <1>3, PointerNumbers
  <2>2. ASSUME NEW w \in Worker, IncrementUnreadCounts(w), calls[w].seen[u] = NoRow,
               LastRead(pointers'[u]) = 0
        PROVE  FALSE
    <3>1. pointers'[u] = pointers[u] \/ pointers[u] = NoRow
      <4>1. pointers \in [User -> Pointer]
        BY <1>3 DEF Typed, TypeOK
      <4>2. QED
        BY <2>2, <4>1 DEF IncrementUnreadCounts, Inserts
    <3>2. QED
      BY <1>3, <2>1, <2>2, <3>1 DEF LastRead
  <2>3. ASSUME NEW w \in Worker, SaveReadPointer(w), calls[w].user = u,
               LastRead(pointers'[u]) = calls[w].upTo
        PROVE  Stale(w, u) /\ calls'[w] = Idle
    <3>1. calls[w].step = "advance" /\ calls'[w] = Idle
      BY <1>3, <2>3 DEF SaveReadPointer, Returned, Advanced, Typed, TypeOK
    <3>2. LastRead(calls[w].seen) < calls[w].upTo /\ calls[w].upTo \in Nat
      BY <1>3, <3>1, PointerNumbers DEF Ahead
    <3>3. calls[w].seen # pointers[u]
      BY <1>3, <2>1, <2>3, <3>2
    <3>4. QED
      BY <2>3, <3>1, <3>3 DEF Stale
  <2>4. QED
    BY <1>3, <2>1, <2>2, <2>3, PointersEffect
<1>4. Typed /\ Ahead /\ [Next]_vars =>
        [\A u \in User : LastRead(pointers'[u]) < LastRead(pointers[u]) =>
           \E w \in Worker : Stale(w, u) /\ calls'[w] = Idle]_vars
  BY <1>3
<1>5. QED
  BY <1>1, <1>2, <1>4, AlwaysTyped, PTL DEF Spec, OnlyStaleSavesRegress
=============================================================================
