------------------------ MODULE RatchetChannel_proofs ------------------------
(***************************************************************************)
(* RatchetChannel, for any number of messages, any size of the dictionary  *)
(* of skipped keys and any delivery.  First types, unique message keys, no *)
(* replay, forward secrecy; the argument counts the Diffie-Hellman outputs *)
(* in a root key.  Every ratchet step appends two, one to receive and one  *)
(* to send, so the roots a device sends under all have the parity of its   *)
(* role, and within a device a later root is a longer one.  Then, that the *)
(* two devices stay in step and nothing is lost as long as the dictionary  *)
(* can hold the keys of all that was sent.                                 *)
(***************************************************************************)
EXTENDS RatchetChannel, Ratchet_proofs

Parity(p)    == IF p = Initiator THEN 0 ELSE 1
Own(p, root) == Len(root) >= 2 /\ Len(root) % 2 = Parity(p)

InitialState == InitializeAsInitiator(Secret, KeyPair(Initiator, 0), SignedPreKey)
FirstMessage == SealedMessage(InitialState)

SentKey(p, i) == sent[p][i].ratchet.key

\* Of every saved state: its chains carry the parity of the device that sends
\* on them, what the device sealed is behind the send chain, and what it
\* opened is spent.
StateInv(p, st) ==
  /\ WellFormed(st)
  /\ st.SendChainKey.root = st.RootKey
  /\ Own(p, st.RootKey)
  /\ st.ReceiveChainKey = EmptyChain \/ Own(Peer(p), st.ReceiveChainKey.root)
  /\ \A e \in st.SkippedMessageKeys : Own(Peer(p), e.key.root)
  /\ \A i \in DOMAIN sent[p] : Past(SentKey(p, i), st.SendChainKey)
  /\ \A i \in accepted[p] : Spent(SentKey(Peer(p), i), st)

SentInv(p) ==
  /\ \A i \in DOMAIN sent[p] :
       /\ Own(p, SentKey(p, i).root)
       /\ sent[p][i].prekey => p = Initiator /\ sent[p][i].ratchet = FirstMessage
  /\ \A i, j \in DOMAIN sent[p] : SentKey(p, i) = SentKey(p, j) => i = j

StartInv ==
  /\ stored[Initiator] # {}
  /\ stored[Responder] = {} => sent[Responder] = << >> /\ accepted[Responder] = {}
  /\ sent[Initiator] = << >> => stored = [p \in Party |-> IF p = Initiator THEN {InitialState} ELSE {}]

\* The inductive invariant.
IInv ==
  /\ TypeOK
  /\ \A p \in Party : SentInv(p) /\ \A st \in stored[p] : StateInv(p, st)
  /\ StartInv

-----------------------------------------------------------------------------
\* The two devices are each other's peer, with opposite parities.
LEMMA Peers ==
  ASSUME NEW p \in Party
  PROVE  /\ Peer(p) \in Party /\ Peer(p) # p /\ Peer(Peer(p)) = p
         /\ Parity(p) \in 0 .. 1 /\ Parity(Peer(p)) = 1 - Parity(p)
BY ChannelAssumption DEF Peer, Parity

\* The key pair a ratchet step generates is a key (X25519 generation in
\* DoubleRatchet.PerformDhRatchetStep).
LEMMA Fresh ==
  ASSUME NEW st \in RatchetStates
  PROVE  FreshFor(st) \in Key
<1>1. st.LocalRatchetKey \in Party \X Nat
  BY DEF RatchetStates, Key
<1>2. QED
  BY <1>1 DEF FreshFor, KeyPair, Key

\* A message of the peer that opens leaves the chains on the right parities,
\* and what was behind the send chain stays behind it.
ChainsFit(p, st) ==
  /\ WellFormed(st)
  /\ Len(st.RootKey) % 2 = Parity(p)
  /\ Len(st.RootKey) >= 1
  /\ Len(st.SendChainKey.root) <= Len(st.RootKey)
  /\ \/ st.ReceiveChainKey = EmptyChain
     \/ st.SendChainKey.root = st.RootKey /\ Own(Peer(p), st.ReceiveChainKey.root)
  /\ \A e \in st.SkippedMessageKeys : Own(Peer(p), e.key.root)

\* Decrypt keeps the parities: it sends under roots of the device's own parity
\* and receives under the peer's (DoubleRatchet.Decrypt).
LEMMA OpenKeepsRoots ==
  ASSUME NEW p \in Party, NEW st, ChainsFit(p, st),
         NEW m \in Messages, Own(Peer(p), m.key.root),
         NEW fresh \in Key, Opens(st, m, fresh)
  PROVE  LET r == Decrypt(st, m, fresh).state
         IN /\ r.SendChainKey.root = r.RootKey
            /\ Own(p, r.RootKey)
            /\ Own(Peer(p), r.ReceiveChainKey.root)
            /\ \A e \in r.SkippedMessageKeys : Own(Peer(p), e.key.root)
            /\ \A k \in ChainKeys : Past(k, st.SendChainKey) => Past(k, r.SendChainKey)
<1> DEFINE r == Decrypt(st, m, fresh).state
<1>0. /\ WellFormed(st)
      /\ Len(st.RootKey) % 2 = Parity(p) /\ Len(st.RootKey) >= 1
      /\ Len(st.SendChainKey.root) <= Len(st.RootKey)
      /\ \/ st.ReceiveChainKey = EmptyChain
         \/ st.SendChainKey.root = st.RootKey /\ Own(Peer(p), st.ReceiveChainKey.root)
      /\ \A e \in st.SkippedMessageKeys : Own(Peer(p), e.key.root)
  BY DEF ChainsFit
<1>1. /\ Len(st.RootKey) \in Nat
      /\ Len(st.SendChainKey.root) \in Nat /\ st.SendChainKey.step \in Nat
      /\ Len(st.ReceiveChainKey.root) \in Nat /\ st.ReceiveChainKey.step \in Nat
      /\ Len(st.ReceiveChainKey.root) < Len(st.RootKey)
      /\ st \in RatchetStates
  BY <1>0, Lengths
<1>2. Parity(p) \in 0 .. 1 /\ Parity(Peer(p)) = 1 - Parity(p)
  BY Peers
<1>3. \A k \in ChainKeys : Len(k.root) \in Nat /\ k.step \in Nat
  BY DEF ChainKeys, RootKeys
<1>4. ASSUME st.ReceiveChainKey # EmptyChain
      PROVE  st.SendChainKey.root = st.RootKey /\ Own(p, st.RootKey)
             /\ Own(Peer(p), st.ReceiveChainKey.root)
  <2>1. st.SendChainKey.root = st.RootKey /\ Own(Peer(p), st.ReceiveChainKey.root)
    BY <1>0, <1>4
  <2>2. Len(st.RootKey) >= 2
    BY <2>1, <1>1 DEF Own
  <2>3. QED
    BY <2>1, <2>2, <1>0 DEF Own
<1>5. /\ (Len(st.RootKey) + 1) % 2 = Parity(Peer(p)) /\ Len(st.RootKey) + 1 >= 2
      /\ (Len(st.RootKey) + 2) % 2 = Parity(p) /\ Len(st.RootKey) + 2 >= 2
  <2>1. Len(st.RootKey) \in Nat /\ Parity(p) \in 0 .. 1 /\ Len(st.RootKey) % 2 = Parity(p)
    BY <1>0, <1>1, <1>2
  <2>2. (Len(st.RootKey) + 1) % 2 = 1 - Parity(p) /\ (Len(st.RootKey) + 2) % 2 = Parity(p)
    BY <2>1, NextParity
  <2>3. Len(st.RootKey) + 1 >= 2 /\ Len(st.RootKey) + 2 >= 2
    BY <1>0, <2>1
  <2>4. QED
    BY <2>2, <2>3, <1>2
<1>6. CASE HeldFor(st, m) # {}
  <2>1. PICK e \in st.SkippedMessageKeys : TRUE
    BY <1>6 DEF HeldFor
  <2>2. Past(e.key, st.ReceiveChainKey) /\ Len(e.key.root) \in Nat /\ e.key.step \in Nat
    <3>1. e.key \in ChainKeys
      BY <1>1, <2>1 DEF RatchetStates, SkippedKeys
    <3>2. QED
      BY <2>1, <3>1, <1>0, <1>3 DEF WellFormed
  <2>3. st.ReceiveChainKey # EmptyChain
    BY <2>2, EmptyRoot DEF Past
  <2>4. r = [st EXCEPT !.SkippedMessageKeys = @ \ HeldFor(st, m)]
    BY <1>6 DEF Decrypt, OpenWithSkipped
  <2> HIDE DEF r
  <2>5. /\ r.RootKey = st.RootKey /\ r.SendChainKey = st.SendChainKey
        /\ r.ReceiveChainKey = st.ReceiveChainKey
        /\ r.SkippedMessageKeys \subseteq st.SkippedMessageKeys
    BY <2>4, <1>1 DEF RatchetStates
  <2>6. QED
    BY <2>3, <2>5, <1>0, <1>4 DEF r
<1>7. CASE HeldFor(st, m) = {}
  <2> DEFINE at == ReadyFor(st, m, fresh)
  <2>1. /\ at.ReceiveChainKey = m.key
        /\ r = [at EXCEPT !.ReceiveChainKey = Advance(@, 1), !.ReceiveMessageIndex = @ + 1]
    BY <1>7 DEF Opens, Decrypt, OpenWithChain
  <2>2. WellFormed(at)
    BY <1>0, ReadyForKeepsPast
  <2>3. /\ SameChains(st, at) \/ NewChains(st, at)
        /\ \A e \in at.SkippedMessageKeys \ st.SkippedMessageKeys :
             \/ st.ReceiveChainKey # EmptyChain /\ e.key.root = st.ReceiveChainKey.root
             \/ Len(e.key.root) = Len(st.RootKey) + 1
    BY <1>0, ReadyForRoots
  <2> HIDE DEF at, r
  <2>4. /\ at \in RatchetStates /\ Len(at.RootKey) \in Nat
        /\ at.ReceiveChainKey \in ChainKeys /\ at.SendChainKey \in ChainKeys
    BY <2>2, Lengths
  <2>5. /\ r.RootKey = at.RootKey /\ r.SendChainKey = at.SendChainKey
        /\ r.ReceiveChainKey = Advance(at.ReceiveChainKey, 1)
        /\ r.SkippedMessageKeys = at.SkippedMessageKeys
    BY <2>1, <2>4 DEF RatchetStates
  <2>6. r.ReceiveChainKey.root = at.ReceiveChainKey.root
    BY <2>5 DEF Advance
  <2>7. Own(Peer(p), at.ReceiveChainKey.root)
    BY <2>1
  <2>8. at.ReceiveChainKey # EmptyChain
    BY <2>7, EmptyRoot DEF Own
  <2>9. \A e \in at.SkippedMessageKeys : Own(Peer(p), e.key.root)
    <3>1. \A e \in at.SkippedMessageKeys \ st.SkippedMessageKeys : Own(Peer(p), e.key.root)
      <4>1. SUFFICES ASSUME NEW e \in at.SkippedMessageKeys \ st.SkippedMessageKeys
                     PROVE  Own(Peer(p), e.key.root)
        OBVIOUS
      <4>2. CASE st.ReceiveChainKey # EmptyChain /\ e.key.root = st.ReceiveChainKey.root
        BY <4>2, <1>4
      <4>3. CASE Len(e.key.root) = Len(st.RootKey) + 1
        BY <4>3, <1>5 DEF Own
      <4>4. QED
        BY <4>2, <4>3, <2>3
    <3>2. QED
      BY <3>1, <1>0
  <2>10. CASE SameChains(st, at)
    <3>1. st.ReceiveChainKey # EmptyChain
      BY <2>8, <2>10 DEF SameChains
    <3>2. QED
      BY <3>1, <1>4, <2>5, <2>6, <2>7, <2>9, <2>10 DEF SameChains, r
  <2>11. CASE NewChains(st, at)
    <3>1. at.SendChainKey.root = at.RootKey /\ at.SendChainKey.step = 0
      BY <2>11 DEF NewChains, Seed
    <3>2. Own(p, at.RootKey)
      BY <2>11, <1>5 DEF NewChains, Own
    <3>3. \A k \in ChainKeys : Past(k, st.SendChainKey) => Past(k, at.SendChainKey)
      BY <3>1, <2>11, <1>0, <1>1, <1>3 DEF NewChains, Past
    <3>4. QED
      BY <3>1, <3>2, <3>3, <2>5, <2>6, <2>7, <2>9 DEF r
  <2>12. QED
    BY <2>3, <2>10, <2>11
<1>8. QED
  BY <1>6, <1>7

\* The two ends of X3DH.  The responder's is not saved by itself for long: the
\* PreKeyMessage that made CryptoService build it opens under it.
ResponderState == InitializeAsResponder(Secret, SignedPreKey)

\* The states both initialisers build (InitializeAsInitiator,
\* InitializeAsResponder).
LEMMA InitialStates ==
  /\ WellFormed(InitialState)
  /\ InitialState.SendChainKey.root = InitialState.RootKey
  /\ Len(InitialState.RootKey) = 2
  /\ InitialState.ReceiveChainKey = EmptyChain
  /\ InitialState.SkippedMessageKeys = {}
  /\ WellFormed(ResponderState)
  /\ Len(ResponderState.RootKey) = 1
  /\ ResponderState.SendChainKey = EmptyChain
  /\ ResponderState.ReceiveChainKey = EmptyChain
  /\ ResponderState.SkippedMessageKeys = {}
<1>1. KeyPair(Initiator, 0) \in Key /\ SignedPreKey \in Key /\ Secret \in SharedSecret
  BY ChannelAssumption DEF KeyPair, SignedPreKey, Key
<1>2. /\ WellFormed(InitialState)
      /\ InitialState.SendChainKey = Seed(InitialState.RootKey)
      /\ Len(InitialState.RootKey) = 2
      /\ InitialState.ReceiveChainKey = EmptyChain
      /\ InitialState.SkippedMessageKeys = {}
  BY <1>1, InitiatorWellFormed DEF InitialState
<1>3. InitialState.SendChainKey.root = InitialState.RootKey
  BY <1>2 DEF Seed
<1>4. /\ WellFormed(ResponderState)
      /\ Len(ResponderState.RootKey) = 1
      /\ ResponderState.SendChainKey = EmptyChain
      /\ ResponderState.ReceiveChainKey = EmptyChain
      /\ ResponderState.SkippedMessageKeys = {}
  BY <1>1, ResponderWellFormed DEF ResponderState
<1>5. QED
  BY <1>2, <1>3, <1>4

\* The PreKeyMessage opens under the session the responder builds for it
\* (CryptoService.DecryptToBytesAsync, EstablishSessionAsResponderAsync).
LEMMA FirstMessageOpens ==
  ASSUME NEW fresh \in Key
  PROVE  Opens(ResponderState, FirstMessage, fresh)
<1> DEFINE st      == ResponderState
           skipped == SkipMessages(st, FirstMessage.pn)
           stepped == PerformDhRatchetStep(skipped, FirstMessage.pub, fresh)
           root    == <<Secret, DH(SignedPreKey, KeyPair(Initiator, 0))>>
<1>1. /\ FirstMessage.pub = KeyPair(Initiator, 0)
      /\ FirstMessage.pn = 0 /\ FirstMessage.idx = 0
      /\ FirstMessage.key = Seed(<<Secret, DH(KeyPair(Initiator, 0), SignedPreKey)>>)
  BY DEF FirstMessage, InitialState, SealedMessage, InitializeAsInitiator
<1>2. DH(KeyPair(Initiator, 0), SignedPreKey) = DH(SignedPreKey, KeyPair(Initiator, 0))
  BY DEF DH
<1>3. /\ st.RootKey = <<Secret>> /\ st.ReceiveChainKey = EmptyChain
      /\ st.RemoteRatchetKey = NoKey /\ st.LocalRatchetKey = SignedPreKey
      /\ st.SkippedMessageKeys = {}
  BY DEF ResponderState, InitializeAsResponder
<1>4. HeldFor(st, FirstMessage) = {}
  BY <1>3 DEF HeldFor
<1>5. skipped = st
  BY <1>3 DEF SkipMessages
<1>6. st.RemoteRatchetKey # FirstMessage.pub
  BY <1>1, <1>3, RatchetAssumption, ChannelAssumption DEF KeyPair, Key
<1>7. /\ stepped.ReceiveChainKey = Seed(root)
      /\ stepped.ReceiveMessageIndex = 0
      /\ stepped \in RatchetStates
  <2>1. st \in RatchetStates
    BY InitialStates DEF WellFormed
  <2>2. FirstMessage.pub \in Key
    BY <1>1, ChannelAssumption DEF KeyPair, Key
  <2>3. stepped \in RatchetStates
    BY <2>1, <2>2, <1>5, InitialStates, DhStepEffect DEF WellFormed
  <2>4. Append(st.RootKey, DH(st.LocalRatchetKey, FirstMessage.pub)) = root
    <3>2. Append(<<Secret>>, DH(SignedPreKey, KeyPair(Initiator, 0))) = root
      BY AppendToOne DEF root
    <3> HIDE DEF root, st
    <3>3. QED
      BY <1>1, <1>3, <3>2
  <2> HIDE DEF root, st
  <2>5. QED
    BY <2>1, <2>3, <2>4, <1>5 DEF PerformDhRatchetStep, RatchetStates
<1> HIDE DEF skipped, stepped, root, st
<1>8. ReadyFor(st, FirstMessage, fresh) = SkipMessages(stepped, 0)
  BY <1>1, <1>6 DEF ReadyFor, stepped, skipped
<1>9. SkipMessages(stepped, 0).ReceiveChainKey = Seed(root)
  <2>1. SkipIterations(stepped, 0) = {}
    BY <1>7 DEF SkipIterations
  <2>2. Cardinality(SkipIterations(stepped, 0)) = 0
    BY <2>1, FS_EmptySet
  <2>3. SkipMessages(stepped, 0) = stepped \/ SkipMessages(stepped, 0) = SkippedTo(stepped, 0)
    BY <2>2, <1>7 DEF SkipMessages
  <2>4. SkippedTo(stepped, 0).ReceiveChainKey = Seed(root)
    <3>1. Advance(Seed(root), 0) = Seed(root)
      BY DEF Advance, Seed
    <3>2. SkippedTo(stepped, 0).ReceiveChainKey = Advance(stepped.ReceiveChainKey, 0 - 0)
      BY <1>7 DEF SkippedTo, RatchetStates
    <3>3. QED
      BY <3>1, <3>2, <1>7
  <2>5. QED
    BY <2>3, <2>4, <1>7
<1>10. QED
  BY <1>1, <1>2, <1>4, <1>8, <1>9 DEF Opens, Decrypt, OpenWithChain, root, st

-----------------------------------------------------------------------------
\* The invariant holds once the initiator has established its session.
LEMMA InitInv == Init => IInv
<1> SUFFICES ASSUME Init PROVE IInv
  OBVIOUS
<1>1. stored = [p \in Party |-> IF p = Initiator THEN {InitialState} ELSE {}]
  BY DEF Init, InitialState
<1>2. InitialState \in RatchetStates
  BY InitialStates DEF WellFormed
<1>3. \A p \in Party : Peer(p) \in Party
  BY Peers
<1>4. TypeOK
  BY <1>1, <1>2, <1>3 DEF Init, TypeOK
<1>5. ASSUME NEW p \in Party PROVE SentInv(p)
  BY DEF Init, SentInv
<1>6. ASSUME NEW p \in Party, NEW st \in stored[p]
      PROVE  StateInv(p, st)
  <2>1. p = Initiator /\ st = InitialState
    BY <1>1, <1>6
  <2>2. Own(p, InitialState.RootKey)
    BY <2>1, InitialStates DEF Own, Parity
  <2>3. sent[p] = << >> /\ accepted[p] = {}
    BY DEF Init
  <2>4. DOMAIN sent[p] = {}
    BY <2>3
  <2>5. QED
    BY <2>1, <2>2, <2>3, <2>4, InitialStates DEF StateInv
<1>7. StartInv
  BY <1>1, ChannelAssumption DEF Init, StartInv
<1>8. QED
  BY <1>4, <1>5, <1>6, <1>7 DEF IInv

\* Every ciphertext in flight is a message, and its key is a chain key.
LEMMA SentTyped ==
  ASSUME TypeOK, NEW p \in Party
  PROVE  /\ sent[p] \in Seq(WireMessages)
         /\ \A i \in DOMAIN sent[p] :
              /\ i \in Nat
              /\ sent[p][i] \in WireMessages
              /\ sent[p][i].ratchet \in Messages
              /\ SentKey(p, i) \in ChainKeys
<1>1. sent[p] \in Seq(WireMessages)
  BY DEF TypeOK
<1>2. ASSUME NEW i \in DOMAIN sent[p]
      PROVE  i \in Nat /\ sent[p][i] \in WireMessages
  BY <1>1
<1>3. QED
  BY <1>1, <1>2 DEF WireMessages, Messages, SentKey

\* CryptoService.EncryptBytesAsync preserves the invariant.
LEMMA SendInv ==
  ASSUME IInv, NEW p \in Party, Send(p)
  PROVE  IInv'
<1>1. PICK st \in stored[p] :
        /\ sent' = [sent EXCEPT ![p] = Append(@,
                      [ratchet |-> SealedMessage(st),
                       prekey  |-> p = Initiator /\ sent[p] = << >>])]
        /\ stored' = [stored EXCEPT ![p] = {AfterEncrypt(st)}]
  BY DEF Send
<1>2. accepted' = accepted
  BY DEF Send
<1> DEFINE msg == [ratchet |-> SealedMessage(st),
                   prekey  |-> p = Initiator /\ sent[p] = << >>]
           n   == Len(sent[p])
<1>3. TypeOK /\ StateInv(p, st) /\ SentInv(p) /\ WellFormed(st) /\ st \in RatchetStates
  BY DEF IInv, StateInv, WellFormed
<1>4. /\ SealedMessage(st).key = st.SendChainKey
      /\ AfterEncrypt(st) \in RatchetStates
      /\ msg \in WireMessages
  BY <1>3, SealedTyped DEF WireMessages
<1>5. /\ sent \in [Party -> Seq(WireMessages)] /\ stored \in [Party -> SUBSET RatchetStates]
      /\ sent[p] \in Seq(WireMessages) /\ n \in Nat
  BY <1>3 DEF TypeOK
<1> DEFINE rcp == Append(sent[p], msg)
<1>6. /\ rcp \in Seq(WireMessages) /\ Len(rcp) = n + 1
      /\ rcp[n + 1] = msg
      /\ \A i \in DOMAIN sent[p] : rcp[i] = sent[p][i]
      /\ DOMAIN rcp = DOMAIN sent[p] \cup {n + 1}
      /\ n + 1 \notin DOMAIN sent[p]
  BY <1>4, <1>5
<1>7. /\ sent'[p] = rcp
      /\ \A q \in Party : q # p => sent'[q] = sent[q]
      /\ sent' \in [Party -> Seq(WireMessages)]
  BY <1>1, <1>5, <1>6
<1>8. /\ stored'[p] = {AfterEncrypt(st)}
      /\ \A q \in Party : q # p => stored'[q] = stored[q]
      /\ stored' \in [Party -> SUBSET RatchetStates]
  BY <1>1, <1>4, <1>5
<1> HIDE DEF msg, n, rcp
<1>9. \A q \in Party : DOMAIN sent[q] \subseteq DOMAIN sent'[q]
  BY <1>6, <1>7
<1>10. \A q \in Party : \A i \in DOMAIN sent[q] : sent'[q][i] = sent[q][i]
  BY <1>6, <1>7
<1>11. TypeOK'
  <2>1. \A q \in Party : Peer(q) \in Party
    BY Peers
  <2>2. accepted' \in [Party -> SUBSET Nat]
    BY <1>2, <1>3 DEF TypeOK
  <2>3. \A q \in Party : accepted'[q] \subseteq DOMAIN sent'[Peer(q)]
    BY <1>2, <1>3, <1>9, <2>1 DEF TypeOK
  <2>4. ASSUME NEW q \in Party, NEW s \in stored'[q], NEW t \in stored'[q]
        PROVE  s = t
    <3>1. CASE q = p
      BY <3>1, <1>8
    <3>2. CASE q # p
      BY <3>2, <1>3, <1>8 DEF TypeOK
    <3>3. QED
      BY <3>1, <3>2
  <2>5. QED
    BY <1>7, <1>8, <2>2, <2>3, <2>4 DEF TypeOK
<1>12. /\ sent'[p][n + 1].ratchet.key = st.SendChainKey
       /\ sent'[p][n + 1].ratchet = SealedMessage(st)
       /\ sent'[p][n + 1].prekey <=> p = Initiator /\ sent[p] = << >>
  <2>1. sent'[p][n + 1] = msg
    BY <1>6, <1>7
  <2>2. msg.ratchet = SealedMessage(st) /\ (msg.prekey <=> p = Initiator /\ sent[p] = << >>)
    BY DEF msg
  <2>3. QED
    BY <2>1, <2>2, <1>4
<1>13. ASSUME NEW q \in Party
       PROVE  SentInv(q)'
  <2>1. CASE q # p
    <3>1. sent'[q] = sent[q] /\ SentInv(q)
      BY <1>7, <2>1 DEF IInv
    <3>2. QED
      BY <3>1 DEF SentInv, SentKey
  <2>2. CASE q = p
    <3>1. ASSUME NEW i \in DOMAIN sent'[p]
          PROVE  /\ Own(p, sent'[p][i].ratchet.key.root)
                 /\ sent'[p][i].prekey => p = Initiator /\ sent'[p][i].ratchet = FirstMessage
      <4>1. CASE i \in DOMAIN sent[p]
        BY <4>1, <1>3, <1>10 DEF SentInv, SentKey
      <4>2. CASE i = n + 1
        <5>1. Own(p, st.SendChainKey.root)
          BY <1>3 DEF StateInv
        <5>2. ASSUME p = Initiator, sent[p] = << >>
              PROVE  SealedMessage(st) = FirstMessage
          <6>1. st = InitialState
            BY <5>2, <1>3 DEF IInv, StartInv, TypeOK
          <6>2. QED
            BY <6>1 DEF FirstMessage
        <5>3. QED
          BY <4>2, <5>1, <5>2, <1>12
      <4>3. QED
        BY <4>1, <4>2, <1>6, <1>7
    <3>2. ASSUME NEW i \in DOMAIN sent'[p], NEW j \in DOMAIN sent'[p],
                 sent'[p][i].ratchet.key = sent'[p][j].ratchet.key
          PROVE  i = j
      <4>1. \A h \in DOMAIN sent[p] : sent'[p][h].ratchet.key # st.SendChainKey
        <5>1. \A h \in DOMAIN sent[p] : Past(SentKey(p, h), st.SendChainKey)
          BY <1>3 DEF StateInv
        <5>2. ~Past(st.SendChainKey, st.SendChainKey)
          BY <1>3, EncryptEffect
        <5>3. QED
          BY <5>1, <5>2, <1>10 DEF SentKey
      <4>2. CASE i \in DOMAIN sent[p] /\ j \in DOMAIN sent[p]
        BY <4>2, <3>2, <1>3, <1>10 DEF SentInv, SentKey
      <4>3. CASE i = n + 1 \/ j = n + 1
        <5>1. sent'[p][i].ratchet.key = st.SendChainKey /\ sent'[p][j].ratchet.key = st.SendChainKey
          BY <4>3, <3>2, <1>12
        <5>2. i \notin DOMAIN sent[p] /\ j \notin DOMAIN sent[p]
          BY <4>1, <5>1
        <5>3. DOMAIN sent'[p] = DOMAIN sent[p] \cup {n + 1}
          BY <1>6, <1>7
        <5>4. QED
          BY <5>2, <5>3
      <4>4. QED
        BY <4>2, <4>3, <1>6, <1>7
    <3>3. QED
      BY <2>2, <3>1, <3>2 DEF SentInv, SentKey
  <2>3. QED
    BY <2>1, <2>2
<1>14. ASSUME NEW q \in Party, NEW s \in stored'[q]
       PROVE  StateInv(q, s)'
  <2>1. Peer(q) \in Party /\ accepted[q] \subseteq DOMAIN sent[Peer(q)]
    BY <1>3, Peers DEF TypeOK
  <2>2. \A i \in accepted[q] : SentKey(Peer(q), i)' = SentKey(Peer(q), i)
    BY <2>1, <1>10 DEF SentKey
  <2>3. CASE q # p
    <3>1. s \in stored[q] /\ sent'[q] = sent[q]
      BY <1>7, <1>8, <2>3
    <3>2. StateInv(q, s)
      BY <3>1 DEF IInv
    <3>3. \A i \in DOMAIN sent'[q] : SentKey(q, i)' = SentKey(q, i)
      BY <3>1 DEF SentKey
    <3>4. QED
      BY <3>1, <3>2, <3>3, <2>2, <1>2 DEF StateInv
  <2>4. CASE q = p
    <3>1. s = AfterEncrypt(st)
      BY <2>4, <1>8
    <3>2. /\ WellFormed(s)
          /\ s.RootKey = st.RootKey
          /\ s.SendChainKey.root = st.SendChainKey.root
          /\ s.ReceiveChainKey = st.ReceiveChainKey
          /\ s.SkippedMessageKeys = st.SkippedMessageKeys
          /\ Past(st.SendChainKey, s.SendChainKey)
          /\ \A k \in ChainKeys : Past(k, st.SendChainKey) => Past(k, s.SendChainKey)
      BY <3>1, <1>3, EncryptEffect
    <3>3. \A i \in DOMAIN sent'[p] : Past(sent'[p][i].ratchet.key, s.SendChainKey)
      <4>1. \A i \in DOMAIN sent[p] : Past(sent'[p][i].ratchet.key, s.SendChainKey)
        BY <3>2, <1>3, <1>10, SentTyped DEF StateInv, SentKey
      <4>2. Past(sent'[p][n + 1].ratchet.key, s.SendChainKey)
        BY <3>2, <1>12
      <4>3. QED
        BY <4>1, <4>2, <1>6, <1>7
    <3>4. \A i \in accepted'[p] : Spent(SentKey(Peer(p), i)', s)
      BY <2>2, <2>4, <3>2, <1>2, <1>3 DEF StateInv, Spent
    <3>5. QED
      BY <2>4, <3>2, <3>3, <3>4, <1>3 DEF StateInv, SentKey
  <2>5. QED
    BY <2>3, <2>4
<1>15. StartInv'
  <2>1. stored'[Initiator] # {}
    BY <1>8, ChannelAssumption DEF IInv, StartInv
  <2>2. ASSUME stored'[Responder] = {}
        PROVE  sent'[Responder] = << >> /\ accepted'[Responder] = {}
    BY <2>2, <1>2, <1>7, <1>8, ChannelAssumption DEF IInv, StartInv
  <2>3. sent'[Initiator] # << >>
    <3>1. CASE p = Initiator
      BY <3>1, <1>5, <1>6, <1>7
    <3>2. CASE p # Initiator
      <4>1. p = Responder /\ stored[Responder] # {}
        BY <3>2, ChannelAssumption, <1>1
      <4>2. sent[Initiator] # << >>
        BY <4>1, ChannelAssumption DEF IInv, StartInv
      <4>3. QED
        BY <4>2, <3>2, <1>7, ChannelAssumption
    <3>3. QED
      BY <3>1, <3>2
  <2>4. QED
    BY <2>1, <2>2, <2>3 DEF StartInv
<1>16. QED
  BY <1>11, <1>13, <1>14, <1>15 DEF IInv

\* The state Receive works on, stored or just built for a PreKeyMessage, is fit
\* for OpenKeepsRoots, and everything p opened before is spent in it.
LEMMA SessionForFit ==
  ASSUME IInv, NEW p \in Party, NEW i \in DOMAIN sent[Peer(p)],
         NEW st \in SessionFor(p, sent[Peer(p)][i])
  PROVE  /\ ChainsFit(p, st)
         /\ \A j \in DOMAIN sent[p] : Past(SentKey(p, j), st.SendChainKey)
         /\ \A j \in accepted[p] : Spent(SentKey(Peer(p), j), st)
         /\ \/ st \in stored[p]
            \/ (stored[p] = {} /\ \A fresh \in Key : Opens(st, sent[Peer(p)][i].ratchet, fresh))
<1>1. CASE st \in stored[p]
  <2>1. StateInv(p, st)
    BY <1>1 DEF IInv
  <2>2. Len(st.RootKey) \in Nat
    BY <2>1, Lengths DEF StateInv
  <2>3. ChainsFit(p, st)
    <3>1. WellFormed(st) /\ (\A e \in st.SkippedMessageKeys : Own(Peer(p), e.key.root))
      BY <2>1 DEF StateInv
    <3>2. st.SendChainKey.root = st.RootKey
      BY <2>1 DEF StateInv
    <3>3. Len(st.RootKey) >= 2 /\ Len(st.RootKey) % 2 = Parity(p)
      BY <2>1 DEF StateInv, Own
    <3>4. Len(st.RootKey) >= 1 /\ Len(st.SendChainKey.root) <= Len(st.RootKey)
      BY <3>2, <3>3, <2>2
    <3>5. \/ st.ReceiveChainKey = EmptyChain
          \/ st.SendChainKey.root = st.RootKey /\ Own(Peer(p), st.ReceiveChainKey.root)
      BY <2>1 DEF StateInv
    <3>6. QED
      BY <3>1, <3>3, <3>4, <3>5 DEF ChainsFit
  <2>4. QED
    BY <1>1, <2>1, <2>3 DEF StateInv
<1>2. CASE st \notin stored[p]
  <2>1. /\ stored[p] = {} /\ sent[Peer(p)][i].prekey
        /\ st = ResponderState
    BY <1>2 DEF SessionFor, ResponderState
  <2>2. p = Responder
    BY <2>1, ChannelAssumption DEF IInv, StartInv
  <2>3. sent[p] = << >> /\ accepted[p] = {}
    BY <2>1, <2>2 DEF IInv, StartInv
  <2>4. Peer(p) \in Party
    BY Peers
  <2>5. sent[Peer(p)][i].ratchet = FirstMessage
    BY <2>1, <2>4 DEF IInv, SentInv
  <2>6. \A fresh \in Key : Opens(st, sent[Peer(p)][i].ratchet, fresh)
    BY <2>1, <2>5, FirstMessageOpens
  <2>7. Len(st.RootKey) = 1 /\ Parity(p) = 1 /\ Len(st.SendChainKey.root) = 0
    BY <2>1, <2>2, InitialStates, EmptyRoot, ChannelAssumption DEF Parity
  <2>8. DOMAIN sent[p] = {}
    BY <2>3
  <2>9. ChainsFit(p, st)
    BY <2>1, <2>7, InitialStates DEF ChainsFit
  <2>10. QED
    BY <2>1, <2>3, <2>6, <2>8, <2>9
<1>3. QED
  BY <1>1, <1>2

\* A step that changes nothing preserves the invariant.
LEMMA StutterInv ==
  ASSUME IInv, UNCHANGED vars
  PROVE  IInv'
<1>1. stored' = stored /\ sent' = sent /\ accepted' = accepted
  BY DEF vars
<1>2. TypeOK'
  BY <1>1 DEF IInv, TypeOK
<1>3. StartInv'
  BY <1>1 DEF IInv, StartInv
<1>4. ASSUME NEW p \in Party PROVE SentInv(p)'
  BY <1>1 DEF IInv, SentInv, SentKey
<1>5. ASSUME NEW p \in Party, NEW st \in stored'[p] PROVE StateInv(p, st)'
  <2>1. StateInv(p, st)
    BY <1>1 DEF IInv
  <2>2. QED
    BY <2>1, <1>1 DEF StateInv, SentKey
<1>6. QED
  BY <1>2, <1>3, <1>4, <1>5 DEF IInv

\* CryptoService.DecryptToBytesAsync preserves the invariant, whether the
\* message opens or not.
LEMMA ReceiveInv ==
  ASSUME IInv, NEW p \in Party, NEW i \in DOMAIN sent[Peer(p)], Receive(p, i)
  PROVE  IInv'
<1> DEFINE m == sent[Peer(p)][i]
<1>1. PICK st \in SessionFor(p, m) :
       IF Opens(st, m.ratchet, FreshFor(st))
       THEN /\ stored' = [stored EXCEPT ![p] =
                            {Decrypt(st, m.ratchet, FreshFor(st)).state}]
            /\ accepted' = [accepted EXCEPT ![p] = @ \cup {i}]
            /\ UNCHANGED sent
       ELSE /\ stored' = [stored EXCEPT ![p] = {st}]
            /\ UNCHANGED <<sent, accepted>>
  BY DEF Receive
<1>2. /\ TypeOK /\ Peer(p) \in Party /\ Peer(p) # p
      /\ \A q \in Party : Peer(q) \in Party
  BY Peers DEF IInv
<1>3. /\ i \in Nat /\ m.ratchet \in Messages /\ m.ratchet.key = SentKey(Peer(p), i)
  BY <1>2, SentTyped DEF SentKey
<1>4. /\ ChainsFit(p, st) /\ WellFormed(st) /\ st \in RatchetStates
      /\ \A j \in DOMAIN sent[p] : Past(SentKey(p, j), st.SendChainKey)
      /\ \A j \in accepted[p] : Spent(SentKey(Peer(p), j), st)
      /\ \/ st \in stored[p]
         \/ (stored[p] = {} /\ \A fresh \in Key : Opens(st, m.ratchet, fresh))
  <2>1. /\ ChainsFit(p, st)
        /\ \A j \in DOMAIN sent[p] : Past(SentKey(p, j), st.SendChainKey)
        /\ \A j \in accepted[p] : Spent(SentKey(Peer(p), j), st)
        /\ \/ st \in stored[p]
           \/ (stored[p] = {} /\ \A fresh \in Key : Opens(st, m.ratchet, fresh))
    BY SessionForFit
  <2>2. WellFormed(st)
    BY <2>1 DEF ChainsFit
  <2>3. st \in RatchetStates
    BY <2>2 DEF WellFormed
  <2>4. QED
    BY <2>1, <2>2, <2>3
<1>5. FreshFor(st) \in Key
  BY <1>4, Fresh
<1>6. Own(Peer(p), m.ratchet.key.root)
  BY <1>2, <1>3 DEF IInv, SentInv
<1>7. stored \in [Party -> SUBSET RatchetStates] /\ accepted \in [Party -> SUBSET Nat]
  BY <1>2 DEF TypeOK
<1> DEFINE new == Decrypt(st, m.ratchet, FreshFor(st)).state
<1>8. CASE Opens(st, m.ratchet, FreshFor(st))
  <2>1. /\ stored' = [stored EXCEPT ![p] = {new}]
        /\ accepted' = [accepted EXCEPT ![p] = @ \cup {i}]
        /\ sent' = sent
    BY <1>1, <1>8
  <2>2. /\ new.SendChainKey.root = new.RootKey
        /\ Own(p, new.RootKey)
        /\ Own(Peer(p), new.ReceiveChainKey.root)
        /\ \A e \in new.SkippedMessageKeys : Own(Peer(p), e.key.root)
        /\ \A k \in ChainKeys : Past(k, st.SendChainKey) => Past(k, new.SendChainKey)
    BY <1>3, <1>4, <1>5, <1>6, <1>8, OpenKeepsRoots
  <2>3. /\ WellFormed(new) /\ Spent(m.ratchet.key, new)
        /\ \A k \in ChainKeys : Spent(k, st) => Spent(k, new)
    BY <1>3, <1>4, <1>5, <1>8, DecryptSpends DEF Opens
  <2> HIDE DEF m, new
  <2>4. new \in RatchetStates
    BY <2>3 DEF WellFormed
  <2>5. /\ stored'[p] = {new} /\ accepted'[p] = accepted[p] \cup {i}
        /\ \A q \in Party : q # p => stored'[q] = stored[q] /\ accepted'[q] = accepted[q]
        /\ stored' \in [Party -> SUBSET RatchetStates] /\ accepted' \in [Party -> SUBSET Nat]
    BY <2>1, <2>4, <1>3, <1>7
  <2>6. TypeOK'
    <3>1. ASSUME NEW q \in Party
          PROVE  /\ accepted'[q] \subseteq DOMAIN sent'[Peer(q)]
                 /\ \A s, t \in stored'[q] : s = t
      <4>1. CASE q = p
        BY <4>1, <2>1, <2>5, <1>2 DEF TypeOK
      <4>2. CASE q # p
        BY <4>2, <2>1, <2>5, <1>2 DEF TypeOK
      <4>3. QED
        BY <4>1, <4>2
    <3>2. QED
      BY <3>1, <2>1, <2>5, <1>2 DEF TypeOK
  <2>7. ASSUME NEW q \in Party PROVE SentInv(q)'
    BY <2>1 DEF IInv, SentInv, SentKey
  <2>8. ASSUME NEW q \in Party, NEW s \in stored'[q] PROVE StateInv(q, s)'
    <3>1. CASE q # p
      <4>1. s \in stored[q] /\ accepted'[q] = accepted[q] /\ StateInv(q, s)
        BY <3>1, <2>5 DEF IInv
      <4>2. QED
        BY <4>1, <2>1 DEF StateInv, SentKey
    <3>2. CASE q = p
      <4>1. s = new
        BY <3>2, <2>5
      <4>2. \A j \in DOMAIN sent[p] : Past(SentKey(p, j), new.SendChainKey)
        BY <1>2, <1>4, <2>2, SentTyped
      <4>3. \A j \in accepted'[p] : Spent(SentKey(Peer(p), j), new)
        <5>1. \A j \in accepted[p] : SentKey(Peer(p), j) \in ChainKeys
          BY <1>2, SentTyped DEF TypeOK
        <5>2. QED
          BY <5>1, <1>3, <1>4, <2>3, <2>5
      <4>4. QED
        BY <3>2, <4>1, <4>2, <4>3, <2>1, <2>2, <2>3 DEF StateInv, SentKey
    <3>3. QED
      BY <3>1, <3>2
  <2>9. StartInv'
    <3>1. stored'[Initiator] # {}
      BY <2>5, ChannelAssumption DEF IInv, StartInv
    <3>2. ASSUME stored'[Responder] = {}
          PROVE  sent'[Responder] = << >> /\ accepted'[Responder] = {}
      BY <3>2, <2>1, <2>5, ChannelAssumption DEF IInv, StartInv
    <3>3. sent'[Initiator] # << >>
      <4>1. CASE p = Responder
        <5>1. Peer(p) = Initiator
          BY <4>1, ChannelAssumption DEF Peer
        <5>2. QED
          BY <5>1, <2>1
      <4>2. CASE p = Initiator
        <5>1. Peer(p) = Responder
          BY <4>2 DEF Peer
        <5>2. sent[Responder] # << >>
          BY <5>1
        <5>3. stored[Responder] # {}
          BY <5>2 DEF IInv, StartInv
        <5>4. QED
          BY <5>3, <2>1, ChannelAssumption DEF IInv, StartInv
      <4>3. QED
        BY <4>1, <4>2, ChannelAssumption
    <3>4. QED
      BY <3>1, <3>2, <3>3 DEF StartInv
  <2>10. QED
    BY <2>6, <2>7, <2>8, <2>9 DEF IInv
<1>9. CASE ~Opens(st, m.ratchet, FreshFor(st))
  <2>1. st \in stored[p]
    BY <1>4, <1>5, <1>9
  <2>2. stored' = [stored EXCEPT ![p] = {st}] /\ sent' = sent /\ accepted' = accepted
    BY <1>1, <1>9
  <2>3. stored[p] = {st}
    BY <2>1, <1>2 DEF TypeOK
  <2>4. stored' = stored
    BY <2>2, <2>3, <1>7
  <2>5. UNCHANGED vars
    BY <2>2, <2>4 DEF vars
  <2>6. QED
    BY <2>5, StutterInv
<1>10. QED
  BY <1>8, <1>9

\* Every step preserves the invariant.
LEMMA NextInv ==
  ASSUME IInv, [Next]_vars
  PROVE  IInv'
<1>1. CASE Next
  <2>1. PICK p \in Party : Send(p) \/ \E i \in DOMAIN sent[Peer(p)] : Receive(p, i)
    BY <1>1 DEF Next
  <2>2. CASE Send(p)
    BY <2>2, SendInv
  <2>3. ASSUME NEW i \in DOMAIN sent[Peer(p)], Receive(p, i)
        PROVE  IInv'
    BY <2>3, ReceiveInv
  <2>4. QED
    BY <2>1, <2>2, <2>3
<1>2. CASE UNCHANGED vars
  BY <1>2, StutterInv
<1>3. QED
  BY <1>1, <1>2

\* IInv holds in every reachable state of a session.
THEOREM Invariant == Spec => []IInv
<1>1. Init => IInv
  BY InitInv
<1>2. IInv /\ [Next]_vars => IInv'
  BY NextInv
<1>3. QED
  BY <1>1, <1>2, PTL DEF Spec

-----------------------------------------------------------------------------
\* Every value the two devices store or send has its declared shape, and a
\* device never holds two sessions for one peer (RatchetState, MessageHeader).
THEOREM TypeCorrect == Spec => []TypeOK
<1>1. IInv => TypeOK
  BY DEF IInv
<1>2. QED
  BY <1>1, Invariant, PTL

\* The parities and the positions on a chain tell the keys apart.
LEMMA KeysUnique ==
  ASSUME IInv
  PROVE  UniqueMessageKeys
<1>1. SUFFICES ASSUME NEW p \in Party, NEW q \in Party,
                      NEW i \in DOMAIN sent[p], NEW j \in DOMAIN sent[q],
                      SentKey(p, i) = SentKey(q, j)
               PROVE  p = q /\ i = j
  BY DEF UniqueMessageKeys, SentKey
<1>2. Own(p, SentKey(p, i).root) /\ Own(q, SentKey(q, j).root)
  BY DEF IInv, SentInv
<1>3. Parity(p) = Parity(q)
  BY <1>1, <1>2 DEF Own
<1>4. p = q
  BY <1>3, ChannelAssumption DEF Parity
<1>5. QED
  BY <1>1, <1>4 DEF IInv, SentInv

\* Roots a device sends under have the parity of its role, so two devices never
\* seal under one key; a device seals under a key ahead of all it used before
\* (DoubleRatchet.Encrypt, PerformDhRatchetStep).
THEOREM MessageKeysUnique == Spec => []UniqueMessageKeys
<1>1. IInv => UniqueMessageKeys
  BY KeysUnique
<1>2. QED
  BY <1>1, Invariant, PTL

\* What is spent does not open again.
LEMMA ReplayRefused ==
  ASSUME IInv
  PROVE  NoReplay
<1>1. SUFFICES ASSUME NEW p \in Party, NEW st \in stored[p], NEW i \in accepted[p],
                      Opens(st, sent[Peer(p)][i].ratchet, FreshFor(st))
               PROVE  FALSE
  BY DEF NoReplay
<1>2. StateInv(p, st)
  BY DEF IInv
<1>3. WellFormed(st) /\ Spent(SentKey(Peer(p), i), st)
  BY <1>2 DEF StateInv
<1>4. FreshFor(st) \in Key
  BY <1>3, Lengths, Fresh
<1>5. TypeOK /\ Peer(p) \in Party
  BY Peers DEF IInv
<1>6. i \in DOMAIN sent[Peer(p)]
  BY <1>5 DEF TypeOK
<1>7. sent[Peer(p)][i].ratchet \in Messages
  BY <1>5, <1>6, SentTyped
<1>8. ~Spent(Decrypt(st, sent[Peer(p)][i].ratchet, FreshFor(st)).key, st)
  BY <1>3, <1>4, <1>7, DecryptSpends
<1>9. QED
  BY <1>1, <1>3, <1>8 DEF Opens, SentKey

\* What a device opened is spent in every later state, and Decrypt never yields
\* a spent key: a redelivered ciphertext is refused (DoubleRatchet.Decrypt).
THEOREM NoReplayHolds == Spec => []NoReplay
<1>1. IInv => NoReplay
  BY ReplayRefused
<1>2. QED
  BY <1>1, Invariant, PTL

\* A saved state is past the keys of what was sealed and opened.
LEMMA KeysForgotten ==
  ASSUME IInv
  PROVE  ForwardSecrecy
<1>1. ASSUME NEW p \in Party, NEW st \in stored[p], NEW k \in ChainKeys,
             Derivable(st, k), StateInv(p, st),
             \/ Own(p, k.root) /\ Past(k, st.SendChainKey)
             \/ Own(Peer(p), k.root) /\ Spent(k, st)
      PROVE  FALSE
  <2>1. /\ Len(st.RootKey) \in Nat
        /\ Len(st.SendChainKey.root) \in Nat /\ st.SendChainKey.step \in Nat
        /\ Len(st.ReceiveChainKey.root) \in Nat /\ st.ReceiveChainKey.step \in Nat
        /\ Len(st.ReceiveChainKey.root) < Len(st.RootKey)
    BY <1>1, Lengths DEF StateInv
  <2>2. Len(k.root) \in Nat /\ k.step \in Nat
    BY <1>1 DEF ChainKeys, RootKeys
  <2>3. Parity(p) # Parity(Peer(p))
    BY Peers
  <2>4. /\ st.SendChainKey.root = st.RootKey
        /\ Own(p, st.SendChainKey.root)
        /\ \A e \in st.SkippedMessageKeys : Own(Peer(p), e.key.root)
    BY <1>1 DEF StateInv
  <2>5. st.ReceiveChainKey = EmptyChain \/ Own(Peer(p), st.ReceiveChainKey.root)
    BY <1>1 DEF StateInv
  <2>6. CASE Own(p, k.root) /\ Past(k, st.SendChainKey)
    <3>1. \A e \in st.SkippedMessageKeys : e.key # k
      BY <2>3, <2>4, <2>6 DEF Own
    <3>2. st.ReceiveChainKey.root # k.root
      <4>1. Len(k.root) >= 2 /\ Len(k.root) % 2 = Parity(p)
        BY <2>6 DEF Own
      <4>2. CASE st.ReceiveChainKey = EmptyChain
        <5>1. Len(st.ReceiveChainKey.root) = 0
          BY <4>2, EmptyRoot
        <5>2. QED
          BY <4>1, <5>1
      <4>3. CASE Own(Peer(p), st.ReceiveChainKey.root)
        BY <4>1, <4>3, <2>3 DEF Own
      <4>4. QED
        BY <2>5, <4>2, <4>3
    <3>3. ~(st.SendChainKey.root = k.root /\ st.SendChainKey.step <= k.step)
      BY <2>1, <2>2, <2>6 DEF Past
    <3>4. ~(Len(st.RootKey) < Len(k.root))
      BY <2>1, <2>2, <2>4, <2>6 DEF Past
    <3>5. QED
      BY <1>1, <3>1, <3>2, <3>3, <3>4 DEF Derivable
  <2>7. CASE Own(Peer(p), k.root) /\ Spent(k, st)
    <3>1. \A e \in st.SkippedMessageKeys : e.key # k
      BY <2>7 DEF Spent
    <3>2. Past(k, st.ReceiveChainKey)
      BY <2>7 DEF Spent
    <3>3. st.SendChainKey.root # k.root
      BY <2>3, <2>4, <2>7 DEF Own
    <3>4. ~(st.ReceiveChainKey.root = k.root /\ st.ReceiveChainKey.step <= k.step)
      BY <2>1, <2>2, <3>2 DEF Past
    <3>5. ~(Len(st.RootKey) < Len(k.root))
      BY <2>1, <2>2, <3>2 DEF Past
    <3>6. QED
      BY <1>1, <3>1, <3>3, <3>4, <3>5 DEF Derivable
  <2>8. QED
    BY <1>1, <2>6, <2>7
<1>2. ASSUME NEW p \in Party, NEW st \in stored[p]
      PROVE  /\ \A i \in DOMAIN sent[p] : ~Derivable(st, SentKey(p, i))
             /\ \A i \in accepted[p] : ~Derivable(st, SentKey(Peer(p), i))
  <2>1. StateInv(p, st) /\ TypeOK /\ Peer(p) \in Party
    BY Peers DEF IInv
  <2>2. accepted[p] \subseteq DOMAIN sent[Peer(p)]
    BY <2>1 DEF TypeOK
  <2>3. ASSUME NEW i \in DOMAIN sent[p] PROVE ~Derivable(st, SentKey(p, i))
    <3>1. SentKey(p, i) \in ChainKeys
      BY <2>1, SentTyped
    <3>2. Own(p, SentKey(p, i).root) /\ Past(SentKey(p, i), st.SendChainKey)
      BY <2>1 DEF IInv, SentInv, StateInv
    <3>3. QED
      BY <1>1, <2>1, <3>1, <3>2
  <2>4. ASSUME NEW i \in accepted[p] PROVE ~Derivable(st, SentKey(Peer(p), i))
    <3>1. SentKey(Peer(p), i) \in ChainKeys
      BY <2>1, <2>2, SentTyped
    <3>2. Own(Peer(p), SentKey(Peer(p), i).root) /\ Spent(SentKey(Peer(p), i), st)
      BY <2>1, <2>2 DEF IInv, SentInv, StateInv
    <3>3. QED
      BY <1>1, <2>1, <3>1, <3>2
  <2>5. QED
    BY <2>3, <2>4
<1>3. QED
  BY <1>2 DEF ForwardSecrecy, SentKey

\* What p sealed is behind its send chain and what p opened is spent; a chain or
\* root of the other parity cannot yield the key either (DoubleRatchet.Encrypt,
\* Decrypt: each replaces the key it used by its successor).
THEOREM ForwardSecrecyHolds == Spec => []ForwardSecrecy
<1>1. IInv => ForwardSecrecy
  BY KeysForgotten
<1>2. QED
  BY <1>1, Invariant, PTL

-----------------------------------------------------------------------------
(* In step, and nothing lost.  The argument numbers the sending chains of a  *)
(* device by the lengths of their roots, and says of every header what the   *)
(* sender had sent before it, and of every receiver up to which message of   *)
(* which chain it has come.                                                  *)

Header(q, i) == sent[q][i].ratchet

\* Device q has sealed a message at step s of its chain with a root of length n.
SentAt(q, n, s) ==
  \E i \in DOMAIN sent[q] : Len(SentKey(q, i).root) = n /\ SentKey(q, i).step = s

\* The ratchet key of device q on a chain with a root of length n, which its
\* k-th ratchet step began.
KeyOfChain(q, key, n) ==
  \E k \in Nat : key = KeyPair(q, k) /\ n = 2 * k + 2 - Parity(q)

\* What the header of a message says of the messages before it: all of its
\* chain are in flight, and pn counts those of the chain before.  A chain has
\* one root.
HeadersTrue(q) ==
  /\ \A i \in DOMAIN sent[q] :
       /\ SentKey(q, i).step = Header(q, i).idx
       /\ KeyOfChain(q, Header(q, i).pub, Len(SentKey(q, i).root))
       /\ \A s \in Nat : s < Header(q, i).idx => SentAt(q, Len(SentKey(q, i).root), s)
       /\ \A s \in Nat : s < Header(q, i).pn <=> SentAt(q, Len(SentKey(q, i).root) - 2, s)
  /\ \A i, j \in DOMAIN sent[q] :
       Len(SentKey(q, i).root) = Len(SentKey(q, j).root) => SentKey(q, i).root = SentKey(q, j).root

\* What a state counts of the messages it has sealed.
Counting(p, st) ==
  /\ KeyOfChain(p, st.LocalRatchetKey, Len(st.RootKey))
  /\ st.SendChainKey.step = st.SendMessageIndex
  /\ \A s \in Nat : s < st.SendMessageIndex <=> SentAt(p, Len(st.RootKey), s)
  /\ \A s \in Nat : s < st.PreviousChainLength <=> SentAt(p, Len(st.RootKey) - 2, s)

\* A skipped key is that of a message its sender has sealed.
KeyOfMessage(q, e) ==
  \E i \in DOMAIN sent[q] :
    e.key = SentKey(q, i) /\ e.pub = Header(q, i).pub /\ e.idx = Header(q, i).idx

\* The receive chain of a state stands behind a message of the peer.
Following(p, st) ==
  /\ IsFiniteSet(st.SkippedMessageKeys)
  /\ \A e \in st.SkippedMessageKeys : KeyOfMessage(Peer(p), e)
  /\ \/ /\ st.ReceiveChainKey = EmptyChain
        /\ Len(st.RootKey) = 2 - Parity(p)
        /\ st.SkippedMessageKeys = {}
        /\ st.RemoteRatchetKey \in {NoKey, KeyPair(Peer(p), 0)}
        /\ st.RemoteRatchetKey = NoKey \/ p = Initiator
     \/ /\ Len(st.ReceiveChainKey.root) = Len(st.RootKey) - 1
        /\ \E i \in DOMAIN sent[Peer(p)] :
             /\ st.ReceiveChainKey.root = SentKey(Peer(p), i).root
             /\ st.RemoteRatchetKey = Header(Peer(p), i).pub
             /\ st.ReceiveMessageIndex = Header(Peer(p), i).idx + 1

StepInv ==
  /\ IInv
  /\ \A p \in Party : /\ HeadersTrue(p)
                      /\ \A st \in stored[p] : Counting(p, st) /\ Following(p, st)

-----------------------------------------------------------------------------
\* The session of a device, or the one it would build for a PreKeyMessage.
Sessions(p) == IF stored[p] = {} THEN {ResponderState} ELSE stored[p]

\* State l is one ratchet step ahead of state s of the other device.
AheadOf(l, s) == l.RootKey = Append(s.RootKey, DH(l.LocalRatchetKey, s.LocalRatchetKey))

\* Of the two sessions one is a ratchet step ahead.
OneAhead ==
  \A p \in Party : \A s \in Sessions(p), r \in Sessions(Peer(p)) : AheadOf(s, r) \/ AheadOf(r, s)

\* As long as the dictionary can hold all that was sent, what the receive chain
\* has passed was opened or is held.
Passed(p, st) ==
  Len(sent[Peer(p)]) <= MaxSkippedKeys =>
    \A i \in DOMAIN sent[Peer(p)] \ accepted[p] :
      Past(SentKey(Peer(p), i), st.ReceiveChainKey) => HeldFor(st, Header(Peer(p), i)) # {}

SyncInv ==
  /\ StepInv
  /\ OneAhead
  /\ \A p \in Party : \A st \in stored[p] : Passed(p, st)

-----------------------------------------------------------------------------
(* SkipMessages, to the end.                                               *)

\* The loop of SkipMessages by its two results.
LEMMA SkippedToFields ==
  ASSUME NEW st \in RatchetStates, NEW j \in Nat, j >= st.ReceiveMessageIndex
  PROVE  LET r == SkippedTo(st, j)
             from == st.ReceiveMessageIndex
             added == {[pub |-> st.RemoteRatchetKey, idx |-> i,
                        key |-> Advance(st.ReceiveChainKey, i - from)] : i \in from .. (j - 1)}
         IN /\ r.SkippedMessageKeys =
                 {e \in st.SkippedMessageKeys :
                    ~(e.pub = st.RemoteRatchetKey /\ e.idx \in from .. (j - 1))} \cup added
            /\ r.ReceiveChainKey = Advance(st.ReceiveChainKey, j - from)
            /\ r.ReceiveMessageIndex = j
BY DEF SkippedTo, RatchetStates

\* What the loop has stored at index j is at most j - from more than before.
LEMMA SkippedToBound ==
  ASSUME NEW st \in RatchetStates, NEW j \in Nat, j >= st.ReceiveMessageIndex,
         IsFiniteSet(st.SkippedMessageKeys)
  PROVE  /\ IsFiniteSet(SkippedTo(st, j).SkippedMessageKeys)
         /\ Cardinality(SkippedTo(st, j).SkippedMessageKeys)
              <= Cardinality(st.SkippedMessageKeys) + (j - st.ReceiveMessageIndex)
<1> DEFINE from  == st.ReceiveMessageIndex
           Entry(i) == [pub |-> st.RemoteRatchetKey, idx |-> i,
                        key |-> Advance(st.ReceiveChainKey, i - from)]
           added == {Entry(i) : i \in from .. (j - 1)}
           kept  == {e \in st.SkippedMessageKeys :
                       ~(e.pub = st.RemoteRatchetKey /\ e.idx \in from .. (j - 1))}
           f     == [i \in from .. (j - 1) |-> Entry(i)]
<1>1. from \in Nat /\ j \in Nat /\ j >= from
  BY DEF RatchetStates
<1>2. SkippedTo(st, j).SkippedMessageKeys = kept \cup added
  BY SkippedToFields
<1>3. IsFiniteSet(from .. (j - 1)) /\ Cardinality(from .. (j - 1)) = j - from
  <2>1. from \in Int /\ j - 1 \in Int
    BY <1>1
  <2>2. /\ IsFiniteSet(from .. (j - 1))
        /\ Cardinality(from .. (j - 1)) = IF from > j - 1 THEN 0 ELSE (j - 1) - from + 1
    BY <2>1, FS_Interval
  <2>. QED BY <1>1, <2>2
<1>4. f \in Surjection(from .. (j - 1), added)
  BY DEF Surjection
<1>5. IsFiniteSet(added) /\ Cardinality(added) <= Cardinality(from .. (j - 1))
  BY <1>3, <1>4, FS_Surjection
<1>6. IsFiniteSet(kept) /\ Cardinality(kept) <= Cardinality(st.SkippedMessageKeys)
  BY FS_Subset
<1> HIDE DEF kept, added, from
<1>7. /\ IsFiniteSet(kept \cup added)
      /\ Cardinality(kept \cup added) =
           Cardinality(kept) + Cardinality(added) - Cardinality(kept \cap added)
  BY <1>5, <1>6, FS_Union
<1>8. Cardinality(kept \cap added) \in Nat
  BY <1>5, <1>6, FS_Intersection, FS_CardinalityType
<1>9. /\ Cardinality(kept) \in Nat /\ Cardinality(added) \in Nat
      /\ Cardinality(st.SkippedMessageKeys) \in Nat
  BY <1>5, <1>6, FS_CardinalityType
<1>10. Cardinality(kept \cup added) <= Cardinality(st.SkippedMessageKeys) + (j - from)
  BY <1>1, <1>3, <1>5, <1>6, <1>7, <1>8, <1>9
<1>. QED BY <1>2, <1>7, <1>10 DEF from

\* With room for all of them, SkipMessages stores a key for every index before
\* the one it goes to.
LEMMA SkipReaches ==
  ASSUME NEW st \in RatchetStates, st.ReceiveChainKey # EmptyChain,
         IsFiniteSet(st.SkippedMessageKeys),
         NEW until \in Nat, st.ReceiveMessageIndex <= until,
         Cardinality(st.SkippedMessageKeys) + (until - st.ReceiveMessageIndex) <= MaxSkippedKeys
  PROVE  SkipMessages(st, until) = SkippedTo(st, until)
<1> DEFINE from == st.ReceiveMessageIndex
<1>1. from \in Nat /\ Cardinality(st.SkippedMessageKeys) \in Nat /\ MaxSkippedKeys \in Nat
  BY FS_CardinalityType, RatchetAssumption DEF RatchetStates
<1>2. ASSUME NEW i \in from .. (until - 1)
      PROVE  Cardinality(SkippedTo(st, i).SkippedMessageKeys) < MaxSkippedKeys
  <2>1. i \in Nat /\ i >= from /\ i < until
    BY <1>1
  <2>2. /\ IsFiniteSet(SkippedTo(st, i).SkippedMessageKeys)
        /\ Cardinality(SkippedTo(st, i).SkippedMessageKeys)
             <= Cardinality(st.SkippedMessageKeys) + (i - from)
    BY <2>1, SkippedToBound
  <2>3. Cardinality(SkippedTo(st, i).SkippedMessageKeys) \in Nat
    BY <2>2, FS_CardinalityType
  <2>. QED BY <1>1, <2>1, <2>2, <2>3
<1>3. SkipIterations(st, until) = from .. (until - 1)
  BY <1>2 DEF SkipIterations
<1>4. Cardinality(from .. (until - 1)) = until - from
  <2>1. from \in Int /\ until - 1 \in Int
    BY <1>1
  <2>2. Cardinality(from .. (until - 1)) = IF from > until - 1 THEN 0 ELSE (until - 1) - from + 1
    BY <2>1, FS_Interval
  <2>. QED BY <1>1, <2>2
<1>5. from + Cardinality(SkipIterations(st, until)) = until
  BY <1>1, <1>3, <1>4
<1>. QED BY <1>5 DEF SkipMessages

\* SkipMessages never goes further than it is told, and never backwards; what
\* it adds are the keys of the indices it went by.
LEMMA SkipStops ==
  ASSUME NEW st \in RatchetStates, IsFiniteSet(st.SkippedMessageKeys),
         st.ReceiveChainKey # EmptyChain, NEW until \in Nat
  PROVE  \E j \in Nat :
           /\ j >= st.ReceiveMessageIndex
           /\ j > st.ReceiveMessageIndex => j <= until
           /\ SkipMessages(st, until) = SkippedTo(st, j)
<1> DEFINE from == st.ReceiveMessageIndex
           n    == Cardinality(SkipIterations(st, until))
<1>1. from \in Nat /\ n \in Nat
  BY SkipIterationsNat DEF RatchetStates
<1>2. SkipIterations(st, until) \subseteq from .. (until - 1)
  BY DEF SkipIterations
<1>3. /\ IsFiniteSet(from .. (until - 1))
      /\ Cardinality(from .. (until - 1)) = IF from > until - 1 THEN 0 ELSE (until - 1) - from + 1
  <2>1. from \in Int /\ until - 1 \in Int
    BY <1>1
  <2>. QED BY <2>1, FS_Interval
<1>4. n <= Cardinality(from .. (until - 1))
  BY <1>2, <1>3, FS_Subset
<1>5. from + n \in Nat /\ from + n >= from /\ (from + n > from => from + n <= until)
  BY <1>1, <1>3, <1>4
<1>6. SkipMessages(st, until) = SkippedTo(st, from + n)
  BY DEF SkipMessages
<1>. QED BY <1>5, <1>6

-----------------------------------------------------------------------------
(* What Decrypt does to a state, field by field.                           *)

\* The fields of a state that only sending and ratchet steps change.
SameSending(st, r) ==
  /\ r.RootKey = st.RootKey /\ r.LocalRatchetKey = st.LocalRatchetKey
  /\ r.SendChainKey = st.SendChainKey /\ r.SendMessageIndex = st.SendMessageIndex
  /\ r.PreviousChainLength = st.PreviousChainLength
  /\ r.RemoteRatchetKey = st.RemoteRatchetKey

\* r is base after it opened m under the next key of its receive chain.
OpensOnChain(base, m, r) ==
  /\ base.ReceiveChainKey # EmptyChain
  /\ m.key.root = base.ReceiveChainKey.root
  /\ base.ReceiveMessageIndex <= m.key.step
  /\ SameSending(base, r)
  /\ r.ReceiveChainKey = Advance(m.key, 1)
  /\ r.ReceiveMessageIndex = m.key.step + 1
  /\ r.SkippedMessageKeys = SkippedTo(base, m.key.step).SkippedMessageKeys

\* Two chain keys with the same root and step are the same key.
LEMMA SameKey ==
  ASSUME NEW k \in ChainKeys, NEW l \in ChainKeys, k.root = l.root, k.step = l.step
  PROVE  k = l
BY DEF ChainKeys

\* SkipMessages of a receive chain that has begun: the entries it leaves.
LEMMA SkippedEntries ==
  ASSUME NEW st, WellFormed(st), NEW j \in Nat, j >= st.ReceiveMessageIndex
  PROVE  LET r == SkippedTo(st, j)
         IN /\ \A e \in r.SkippedMessageKeys \ st.SkippedMessageKeys :
                 /\ e.pub = st.RemoteRatchetKey
                 /\ st.ReceiveMessageIndex <= e.idx /\ e.idx < j /\ e.idx \in Nat
                 /\ e.key.root = st.ReceiveChainKey.root /\ e.key.step = e.idx
            /\ \A m \in Messages : HeldFor(st, m) # {} => HeldFor(r, m) # {}
            /\ \A m \in Messages :
                 m.pub = st.RemoteRatchetKey /\ st.ReceiveMessageIndex <= m.idx /\ m.idx < j
                   => HeldFor(r, m) # {}
<1> DEFINE from  == st.ReceiveMessageIndex
           Entry(i) == [pub |-> st.RemoteRatchetKey, idx |-> i,
                        key |-> Advance(st.ReceiveChainKey, i - from)]
           r == SkippedTo(st, j)
<1>1. st \in RatchetStates /\ from \in Nat /\ st.ReceiveChainKey.step = from
  BY DEF WellFormed, RatchetStates
<1>2. r.SkippedMessageKeys =
        {e \in st.SkippedMessageKeys : ~(e.pub = st.RemoteRatchetKey /\ e.idx \in from .. (j - 1))}
          \cup {Entry(i) : i \in from .. (j - 1)}
  BY <1>1, SkippedToFields
<1>3. \A i \in from .. (j - 1) :
        /\ i \in Nat /\ from <= i /\ i < j
        /\ Entry(i).key.root = st.ReceiveChainKey.root /\ Entry(i).key.step = i
        /\ Entry(i).pub = st.RemoteRatchetKey /\ Entry(i).idx = i
  BY <1>1 DEF Advance
<1> HIDE DEF Entry, r
<1>4. ASSUME NEW e \in r.SkippedMessageKeys \ st.SkippedMessageKeys
      PROVE  /\ e.pub = st.RemoteRatchetKey
             /\ from <= e.idx /\ e.idx < j /\ e.idx \in Nat
             /\ e.key.root = st.ReceiveChainKey.root /\ e.key.step = e.idx
  <2>1. PICK i \in from .. (j - 1) : e = Entry(i)
    BY <1>2
  <2>. QED BY <1>3, <2>1
<1>5. ASSUME NEW m \in Messages, m.pub = st.RemoteRatchetKey, from <= m.idx, m.idx < j
      PROVE  HeldFor(r, m) # {}
  <2>1. m.idx \in from .. (j - 1)
    BY <1>1, <1>5 DEF Messages
  <2>2. Entry(m.idx) \in r.SkippedMessageKeys
    BY <1>2, <2>1
  <2>3. Entry(m.idx) \in HeldFor(r, m)
    BY <1>3, <1>5, <2>1, <2>2 DEF HeldFor
  <2>. QED BY <2>3
<1>6. ASSUME NEW m \in Messages, HeldFor(st, m) # {}
      PROVE  HeldFor(r, m) # {}
  <2>1. PICK e \in st.SkippedMessageKeys : e.pub = m.pub /\ e.idx = m.idx
    BY <1>6 DEF HeldFor
  <2>2. CASE e.pub = st.RemoteRatchetKey /\ e.idx \in from .. (j - 1)
    <3>1. from <= e.idx /\ e.idx < j
      BY <1>1, <2>2
    <3>2. m.pub = st.RemoteRatchetKey /\ from <= m.idx /\ m.idx < j
      BY <2>1, <2>2, <3>1
    <3>. QED BY <1>5, <3>2
  <2>3. CASE ~(e.pub = st.RemoteRatchetKey /\ e.idx \in from .. (j - 1))
    BY <1>2, <2>1, <2>3 DEF HeldFor
  <2>. QED BY <2>2, <2>3
<1>. QED BY <1>4, <1>5, <1>6 DEF r

\* The loop of SkipMessages leaves the sending side alone.
LEMMA SkippedToSending ==
  ASSUME NEW st \in RatchetStates, NEW j
  PROVE  SameSending(st, SkippedTo(st, j))
BY DEF SkippedTo, RatchetStates, SameSending

\* Opening under the next key of the receive chain, once SkipMessages has
\* brought it there.
LEMMA ChainOpens ==
  ASSUME NEW base, WellFormed(base), IsFiniteSet(base.SkippedMessageKeys),
         NEW m \in Messages, Len(m.key.root) >= 2,
         SkipMessages(base, m.idx).ReceiveChainKey = m.key
  PROVE  OpensOnChain(base, m,
           [SkipMessages(base, m.idx) EXCEPT !.ReceiveChainKey = Advance(@, 1),
                                             !.ReceiveMessageIndex = @ + 1])
<1> DEFINE at == SkipMessages(base, m.idx)
           r  == [at EXCEPT !.ReceiveChainKey = Advance(@, 1), !.ReceiveMessageIndex = @ + 1]
<1>1. /\ base \in RatchetStates /\ base.ReceiveMessageIndex \in Nat
      /\ base.ReceiveChainKey \in ChainKeys
      /\ base.ReceiveChainKey.step = base.ReceiveMessageIndex
      /\ m.idx \in Nat
  BY DEF WellFormed, RatchetStates, Messages
<1>2. base.ReceiveChainKey # EmptyChain
  <2>1. SUFFICES ASSUME base.ReceiveChainKey = EmptyChain PROVE FALSE
    OBVIOUS
  <2>2. m.key = EmptyChain
    BY <2>1 DEF SkipMessages
  <2>. QED BY <2>2, EmptyRoot
<1>3. PICK j \in Nat : /\ j >= base.ReceiveMessageIndex
                       /\ at = SkippedTo(base, j)
  BY <1>1, <1>2, SkipStops
<1>4. /\ at.ReceiveChainKey = Advance(base.ReceiveChainKey, j - base.ReceiveMessageIndex)
      /\ at.ReceiveMessageIndex = j
  BY <1>1, <1>3, SkippedToFields
<1>5. m.key.root = base.ReceiveChainKey.root /\ m.key.step = j
  <2>1. m.key = Advance(base.ReceiveChainKey, j - base.ReceiveMessageIndex)
    BY <1>4
  <2>. QED BY <1>1, <1>3, <2>1 DEF Advance
<1>6. SameSending(base, at)
  BY <1>1, <1>3, SkippedToSending
<1>7. at \in RatchetStates
  <2>1. WellFormed(at)
    BY <1>1, SkipWellFormed
  <2>. QED BY <2>1 DEF WellFormed
<1>8. /\ r.ReceiveChainKey = Advance(at.ReceiveChainKey, 1)
      /\ r.ReceiveMessageIndex = at.ReceiveMessageIndex + 1
      /\ r.SkippedMessageKeys = at.SkippedMessageKeys
      /\ SameSending(at, r)
  <2> HIDE DEF at
  <2>. QED BY <1>7 DEF RatchetStates, SameSending
<1>9. at.ReceiveChainKey = m.key
  OBVIOUS
<1> HIDE DEF at, r
<1>10. SameSending(base, r)
  BY <1>6, <1>8 DEF SameSending
<1>11. OpensOnChain(base, m, r)
  BY <1>2, <1>3, <1>4, <1>5, <1>8, <1>9, <1>10 DEF OpensOnChain
<1>. QED BY <1>11 DEF r, at

\* The fields of a state after a ratchet step (PerformDhRatchetStep).
LEMMA DhStepFields ==
  ASSUME NEW st \in RatchetStates, NEW remote, NEW fresh
  PROVE  LET r    == PerformDhRatchetStep(st, remote, fresh)
             root == Append(st.RootKey, DH(st.LocalRatchetKey, remote))
         IN /\ r.RootKey = Append(root, DH(fresh, remote))
            /\ r.SendChainKey = Seed(r.RootKey) /\ r.SendMessageIndex = 0
            /\ r.ReceiveChainKey = Seed(root) /\ r.ReceiveMessageIndex = 0
            /\ r.LocalRatchetKey = fresh /\ r.RemoteRatchetKey = remote
            /\ r.PreviousChainLength = st.SendMessageIndex
            /\ r.SkippedMessageKeys = st.SkippedMessageKeys
BY DEF PerformDhRatchetStep, RatchetStates

\* SkipMessages before a ratchet step, and the step.
Stepped(st, m, fresh) == PerformDhRatchetStep(SkipMessages(st, m.pn), m.pub, fresh)

\* The state a ratchet step leaves, in terms of the one it began with.
LEMMA SteppedFields ==
  ASSUME NEW st, WellFormed(st), IsFiniteSet(st.SkippedMessageKeys),
         NEW m \in Messages, NEW fresh \in Key
  PROVE  LET r    == Stepped(st, m, fresh)
             root == Append(st.RootKey, DH(st.LocalRatchetKey, m.pub))
         IN /\ WellFormed(r) /\ IsFiniteSet(r.SkippedMessageKeys)
            /\ r.RootKey = Append(root, DH(fresh, m.pub))
            /\ Len(root) = Len(st.RootKey) + 1 /\ Len(r.RootKey) = Len(st.RootKey) + 2
            /\ r.SendChainKey = Seed(r.RootKey) /\ r.SendMessageIndex = 0
            /\ r.ReceiveChainKey = Seed(root) /\ r.ReceiveMessageIndex = 0
            /\ r.LocalRatchetKey = fresh /\ r.RemoteRatchetKey = m.pub
            /\ r.PreviousChainLength = st.SendMessageIndex
            /\ r.SkippedMessageKeys = SkipMessages(st, m.pn).SkippedMessageKeys
<1> DEFINE skipped == SkipMessages(st, m.pn)
           r       == Stepped(st, m, fresh)
<1>1. /\ st \in RatchetStates /\ m.pn \in Nat /\ m.pub \in Key
  BY DEF WellFormed, Messages
<1>2. WellFormed(skipped)
  BY <1>1, SkipWellFormed
<1>3. SameSending(st, skipped) /\ IsFiniteSet(skipped.SkippedMessageKeys)
  <2>1. CASE st.ReceiveChainKey = EmptyChain
    BY <2>1 DEF SkipMessages, SameSending
  <2>2. CASE st.ReceiveChainKey # EmptyChain
    <3>1. PICK j \in Nat : j >= st.ReceiveMessageIndex /\ skipped = SkippedTo(st, j)
      BY <1>1, <2>2, SkipStops
    <3>. QED BY <1>1, <3>1, SkippedToSending, SkippedToBound
  <2>. QED BY <2>1, <2>2
<1> HIDE DEF skipped
<1>4. r = PerformDhRatchetStep(skipped, m.pub, fresh)
  BY DEF Stepped, skipped
<1> HIDE DEF r
<1>5. skipped \in RatchetStates
  BY <1>2 DEF WellFormed
<1>6. /\ r.RootKey = Append(Append(skipped.RootKey, DH(skipped.LocalRatchetKey, m.pub)), DH(fresh, m.pub))
      /\ r.SendChainKey = Seed(r.RootKey) /\ r.SendMessageIndex = 0
      /\ r.ReceiveChainKey = Seed(Append(skipped.RootKey, DH(skipped.LocalRatchetKey, m.pub)))
      /\ r.ReceiveMessageIndex = 0
      /\ r.LocalRatchetKey = fresh /\ r.RemoteRatchetKey = m.pub
      /\ r.PreviousChainLength = skipped.SendMessageIndex
      /\ r.SkippedMessageKeys = skipped.SkippedMessageKeys
  BY <1>4, <1>5, DhStepFields
<1>7. /\ WellFormed(r) /\ Len(r.RootKey) = Len(skipped.RootKey) + 2
      /\ Len(r.ReceiveChainKey.root) = Len(skipped.RootKey) + 1
  BY <1>1, <1>2, <1>4, DhStepEffect
<1>8. r.ReceiveChainKey.root = Append(skipped.RootKey, DH(skipped.LocalRatchetKey, m.pub))
  BY <1>6 DEF Seed
<1>9. /\ skipped.RootKey = st.RootKey /\ skipped.LocalRatchetKey = st.LocalRatchetKey
      /\ skipped.SendMessageIndex = st.SendMessageIndex
  BY <1>3 DEF SameSending
<1>. QED BY <1>3, <1>6, <1>7, <1>8, <1>9 DEF r, skipped

\* The three ways in which a message opens (DoubleRatchet.Decrypt).
LEMMA DecryptWays ==
  ASSUME NEW st, WellFormed(st), IsFiniteSet(st.SkippedMessageKeys),
         NEW m \in Messages, Len(m.key.root) >= 2,
         NEW fresh \in Key, Opens(st, m, fresh)
  PROVE  LET r == Decrypt(st, m, fresh).state
         IN \/ /\ HeldFor(st, m) # {}
               /\ SameSending(st, r)
               /\ r.ReceiveChainKey = st.ReceiveChainKey
               /\ r.ReceiveMessageIndex = st.ReceiveMessageIndex
               /\ r.SkippedMessageKeys = st.SkippedMessageKeys \ HeldFor(st, m)
            \/ /\ HeldFor(st, m) = {}
               /\ st.RemoteRatchetKey = m.pub
               /\ OpensOnChain(st, m, r)
            \/ /\ HeldFor(st, m) = {}
               /\ st.RemoteRatchetKey # m.pub
               /\ OpensOnChain(Stepped(st, m, fresh), m, r)
<1> DEFINE r == Decrypt(st, m, fresh).state
<1>1. CASE HeldFor(st, m) # {}
  <2>1. r = [st EXCEPT !.SkippedMessageKeys = @ \ HeldFor(st, m)]
    BY <1>1 DEF Decrypt, OpenWithSkipped
  <2>2. st \in RatchetStates
    BY DEF WellFormed
  <2> HIDE DEF r
  <2>3. /\ SameSending(st, r)
        /\ r.ReceiveChainKey = st.ReceiveChainKey
        /\ r.ReceiveMessageIndex = st.ReceiveMessageIndex
        /\ r.SkippedMessageKeys = st.SkippedMessageKeys \ HeldFor(st, m)
    BY <2>1, <2>2 DEF RatchetStates, SameSending
  <2>. QED BY <1>1, <2>3 DEF r
<1>2. CASE HeldFor(st, m) = {}
  <2> DEFINE base == IF st.RemoteRatchetKey = m.pub THEN st ELSE Stepped(st, m, fresh)
  <2>1. ReadyFor(st, m, fresh) = SkipMessages(base, m.idx)
    BY DEF ReadyFor, Stepped
  <2>2. /\ SkipMessages(base, m.idx).ReceiveChainKey = m.key
        /\ r = [SkipMessages(base, m.idx) EXCEPT !.ReceiveChainKey = Advance(@, 1),
                                                 !.ReceiveMessageIndex = @ + 1]
    BY <1>2, <2>1 DEF Opens, Decrypt, OpenWithChain
  <2>3. WellFormed(base) /\ IsFiniteSet(base.SkippedMessageKeys)
    BY SteppedFields
  <2> HIDE DEF base, r
  <2>4. OpensOnChain(base, m, r)
    BY <2>2, <2>3, ChainOpens
  <2>. QED BY <1>2, <2>4 DEF base, r
<1>. QED BY <1>1, <1>2

-----------------------------------------------------------------------------
(* What true headers decide.                                               *)

\* A device has one ratchet key per chain.
LEMMA OneKeyPerChain ==
  ASSUME NEW q \in Party, NEW a, NEW b, NEW n, NEW l,
         KeyOfChain(q, a, n), KeyOfChain(q, b, l)
  PROVE  /\ a = b <=> n = l
         /\ a \in Key
         /\ n \in Nat
<1>1. PICK k \in Nat : a = KeyPair(q, k) /\ n = 2 * k + 2 - Parity(q)
  BY DEF KeyOfChain
<1>2. PICK g \in Nat : b = KeyPair(q, g) /\ l = 2 * g + 2 - Parity(q)
  BY DEF KeyOfChain
<1>3. Parity(q) \in 0 .. 1
  BY Peers
<1>4. a = b <=> k = g
  BY <1>1, <1>2 DEF KeyPair
<1>5. n = l <=> k = g
  <2> DEFINE c == Parity(q)
  <2>1. c \in 0 .. 1 /\ n = 2 * k + 2 - c /\ l = 2 * g + 2 - c
    BY <1>1, <1>2, <1>3
  <2> HIDE DEF c
  <2>. QED BY <2>1
<1>6. n \in Nat
  <2> DEFINE c == Parity(q)
  <2>1. c \in 0 .. 1 /\ n = 2 * k + 2 - c
    BY <1>1, <1>3
  <2> HIDE DEF c
  <2>. QED BY <2>1
<1>7. a \in Key
  BY <1>1 DEF KeyPair, Key
<1>. QED BY <1>4, <1>5, <1>6, <1>7

\* The fields of a message in flight.
LEMMA HeaderTyped ==
  ASSUME IInv, NEW q \in Party, NEW i \in DOMAIN sent[q]
  PROVE  /\ Header(q, i) \in Messages /\ Header(q, i).key = SentKey(q, i)
         /\ Header(q, i).pub \in Key /\ Header(q, i).pn \in Nat /\ Header(q, i).idx \in Nat
         /\ SentKey(q, i) \in ChainKeys
         /\ Len(SentKey(q, i).root) \in Nat /\ SentKey(q, i).step \in Nat
         /\ Len(SentKey(q, i).root) >= 2
<1>1. Header(q, i) \in Messages /\ SentKey(q, i) \in ChainKeys
  BY SentTyped DEF IInv, Header
<1>2. Own(q, SentKey(q, i).root)
  BY DEF IInv, SentInv
<1>. QED BY <1>1, <1>2 DEF Messages, ChainKeys, RootKeys, Own, Header, SentKey

\* Two messages of one ratchet key are of one chain, and the other way round;
\* the ratchet key and the index of a message name it.
LEMMA HeadersDecide ==
  ASSUME IInv, NEW q \in Party, HeadersTrue(q),
         NEW i \in DOMAIN sent[q], NEW j \in DOMAIN sent[q]
  PROVE  /\ Header(q, i).pub = Header(q, j).pub <=> Len(SentKey(q, i).root) = Len(SentKey(q, j).root)
         /\ Header(q, i).pub = Header(q, j).pub <=> SentKey(q, i).root = SentKey(q, j).root
         /\ Header(q, i).pub = Header(q, j).pub /\ Header(q, i).idx = Header(q, j).idx => i = j
         /\ SentKey(q, i).step = Header(q, i).idx
<1>1. /\ SentKey(q, i).step = Header(q, i).idx /\ SentKey(q, j).step = Header(q, j).idx
      /\ KeyOfChain(q, Header(q, i).pub, Len(SentKey(q, i).root))
      /\ KeyOfChain(q, Header(q, j).pub, Len(SentKey(q, j).root))
      /\ Len(SentKey(q, i).root) = Len(SentKey(q, j).root) => SentKey(q, i).root = SentKey(q, j).root
  BY DEF HeadersTrue
<1>2. Header(q, i).pub = Header(q, j).pub <=> Len(SentKey(q, i).root) = Len(SentKey(q, j).root)
  BY <1>1, OneKeyPerChain
<1>3. Header(q, i).pub = Header(q, j).pub <=> SentKey(q, i).root = SentKey(q, j).root
  BY <1>1, <1>2
<1>4. ASSUME Header(q, i).pub = Header(q, j).pub, Header(q, i).idx = Header(q, j).idx
      PROVE  i = j
  <2>1. SentKey(q, i).root = SentKey(q, j).root /\ SentKey(q, i).step = SentKey(q, j).step
    BY <1>1, <1>3, <1>4
  <2>2. SentKey(q, i) \in ChainKeys /\ SentKey(q, j) \in ChainKeys
    BY HeaderTyped
  <2>3. SentKey(q, i) = SentKey(q, j)
    BY <2>1, <2>2, SameKey
  <2>4. SentInv(q)
    BY DEF IInv
  <2>. QED BY <2>3, <2>4 DEF SentInv
<1>. QED BY <1>1, <1>2, <1>3, <1>4

\* Every index before that of a message is the one of a message of its chain.
LEMMA SentBefore ==
  ASSUME IInv, NEW q \in Party, HeadersTrue(q),
         NEW i \in DOMAIN sent[q], NEW s \in Nat, s < Header(q, i).idx
  PROVE  \E j \in DOMAIN sent[q] :
           /\ SentKey(q, j).root = SentKey(q, i).root /\ Header(q, j).pub = Header(q, i).pub
           /\ SentKey(q, j).step = s /\ Header(q, j).idx = s
<1>1. SentAt(q, Len(SentKey(q, i).root), s)
  BY DEF HeadersTrue
<1>2. PICK j \in DOMAIN sent[q] : Len(SentKey(q, j).root) = Len(SentKey(q, i).root) /\ SentKey(q, j).step = s
  BY <1>1 DEF SentAt
<1>. QED BY <1>2, HeadersDecide

\* What pn says: the messages of the chain before, by a message j of it.
LEMMA SentOnChainBefore ==
  ASSUME IInv, NEW q \in Party, HeadersTrue(q),
         NEW i \in DOMAIN sent[q], NEW j \in DOMAIN sent[q],
         Len(SentKey(q, j).root) = Len(SentKey(q, i).root) - 2
  PROVE  /\ Header(q, j).idx < Header(q, i).pn
         /\ \A s \in Nat : s < Header(q, i).pn =>
              \E l \in DOMAIN sent[q] :
                /\ SentKey(q, l).root = SentKey(q, j).root /\ Header(q, l).pub = Header(q, j).pub
                /\ SentKey(q, l).step = s /\ Header(q, l).idx = s
<1>1. \A s \in Nat : s < Header(q, i).pn <=> SentAt(q, Len(SentKey(q, i).root) - 2, s)
  BY DEF HeadersTrue
<1>2. SentAt(q, Len(SentKey(q, i).root) - 2, SentKey(q, j).step)
  BY DEF SentAt
<1>3. SentKey(q, j).step = Header(q, j).idx /\ Header(q, j).idx \in Nat
  BY HeadersDecide, HeaderTyped
<1>4. ASSUME NEW s \in Nat, s < Header(q, i).pn
      PROVE  \E l \in DOMAIN sent[q] :
                /\ SentKey(q, l).root = SentKey(q, j).root /\ Header(q, l).pub = Header(q, j).pub
                /\ SentKey(q, l).step = s /\ Header(q, l).idx = s
  <2>1. SentAt(q, Len(SentKey(q, i).root) - 2, s)
    BY <1>1, <1>4
  <2>2. PICK l \in DOMAIN sent[q] : /\ Len(SentKey(q, l).root) = Len(SentKey(q, j).root)
                                    /\ SentKey(q, l).step = s
    BY <2>1 DEF SentAt
  <2>. QED BY <2>2, HeadersDecide
<1>. QED BY <1>1, <1>2, <1>3, <1>4

\* A held key opens the message it is held for.
LEMMA HeldOpens ==
  ASSUME IInv, NEW q \in Party, HeadersTrue(q), NEW i \in DOMAIN sent[q], NEW st,
         \A e \in st.SkippedMessageKeys : KeyOfMessage(q, e),
         HeldFor(st, Header(q, i)) # {}, NEW fresh
  PROVE  Opens(st, Header(q, i), fresh)
<1> DEFINE e == CHOOSE e \in HeldFor(st, Header(q, i)) : TRUE
<1>1. e \in HeldFor(st, Header(q, i))
  OBVIOUS
<1>2. Decrypt(st, Header(q, i), fresh).key = e.key
  BY DEF Decrypt, OpenWithSkipped
<1> HIDE DEF e
<1>3. e \in st.SkippedMessageKeys /\ e.pub = Header(q, i).pub /\ e.idx = Header(q, i).idx
  BY <1>1 DEF HeldFor
<1>4. PICK j \in DOMAIN sent[q] :
        e.key = SentKey(q, j) /\ e.pub = Header(q, j).pub /\ e.idx = Header(q, j).idx
  BY <1>3 DEF KeyOfMessage
<1>5. i = j
  <2>1. Header(q, i).pub = Header(q, j).pub /\ Header(q, i).idx = Header(q, j).idx
    BY <1>3, <1>4
  <2>. QED BY <2>1, HeadersDecide
<1>. QED BY <1>2, <1>4, <1>5 DEF Opens, Header, SentKey

-----------------------------------------------------------------------------
(* Opening a message keeps a receiver behind the messages of its peer.     *)

\* A receiver whose chain has not begun names no message's ratchet key.
LEMMA NotBegun ==
  ASSUME IInv, NEW p \in Party, HeadersTrue(Peer(p)), NEW st, Following(p, st),
         st.ReceiveChainKey = EmptyChain
  PROVE  /\ Len(st.RootKey) = 2 - Parity(p) /\ st.SkippedMessageKeys = {}
         /\ \A i \in DOMAIN sent[Peer(p)] : st.RemoteRatchetKey # Header(Peer(p), i).pub
<1> DEFINE q == Peer(p)
<1>1. q \in Party /\ Parity(q) = 1 - Parity(p)
  BY Peers
<1> HIDE DEF q
<1>2. \A i \in DOMAIN sent[q] : st.ReceiveChainKey.root # SentKey(q, i).root
  <2>1. Len(st.ReceiveChainKey.root) = 0
    BY EmptyRoot
  <2>. QED BY <1>1, <2>1, HeaderTyped
<1>3. /\ Len(st.RootKey) = 2 - Parity(p)
      /\ st.SkippedMessageKeys = {}
      /\ st.RemoteRatchetKey \in {NoKey, KeyPair(q, 0)}
      /\ st.RemoteRatchetKey = NoKey \/ p = Initiator
  BY <1>2 DEF Following, q
<1>4. ASSUME NEW i \in DOMAIN sent[q], st.RemoteRatchetKey = Header(q, i).pub
      PROVE  FALSE
  <2>1. Header(q, i).pub \in Key /\ Len(SentKey(q, i).root) >= 2
    BY <1>1, HeaderTyped
  <2>2. st.RemoteRatchetKey = KeyPair(q, 0) /\ p = Initiator
    BY <1>3, <1>4, <2>1, RatchetAssumption
  <2>3. KeyOfChain(q, Header(q, i).pub, Len(SentKey(q, i).root))
    BY DEF HeadersTrue, q
  <2>4. PICK k \in Nat : Header(q, i).pub = KeyPair(q, k) /\ Len(SentKey(q, i).root) = 2 * k + 2 - Parity(q)
    BY <2>3 DEF KeyOfChain
  <2>5. k = 0
    <3>1. KeyPair(q, 0) = KeyPair(q, k)
      BY <1>4, <2>2, <2>4
    <3>. QED BY <3>1 DEF KeyPair
  <2>6. Parity(q) = 1
    BY <1>1, <2>2 DEF Parity
  <2>. QED BY <2>1, <2>4, <2>5, <2>6
<1>. QED BY <1>3, <1>4 DEF q

\* After it opened a message on a receive chain that carries the message's
\* ratchet key, a receiver follows its peer.
LEMMA ChainFollows ==
  ASSUME IInv, NEW p \in Party, HeadersTrue(Peer(p)),
         NEW base, WellFormed(base), IsFiniteSet(base.SkippedMessageKeys),
         \A e \in base.SkippedMessageKeys : KeyOfMessage(Peer(p), e),
         Len(base.ReceiveChainKey.root) = Len(base.RootKey) - 1,
         NEW i \in DOMAIN sent[Peer(p)],
         base.RemoteRatchetKey = Header(Peer(p), i).pub,
         NEW r, OpensOnChain(base, Header(Peer(p), i), r)
  PROVE  Following(p, r)
<1> DEFINE q == Peer(p)
           m == Header(q, i)
<1>1. q \in Party
  BY Peers
<1> HIDE DEF q
<1>2. /\ m \in Messages /\ m.key = SentKey(q, i) /\ m.idx \in Nat
      /\ m.key \in ChainKeys /\ m.key.step = m.idx
  BY <1>1, HeaderTyped, HeadersDecide DEF q
<1>3. /\ m.key.root = base.ReceiveChainKey.root
      /\ base.ReceiveMessageIndex <= m.key.step
      /\ r.RootKey = base.RootKey
      /\ r.RemoteRatchetKey = base.RemoteRatchetKey
      /\ r.ReceiveChainKey = Advance(m.key, 1)
      /\ r.ReceiveMessageIndex = m.key.step + 1
      /\ r.SkippedMessageKeys = SkippedTo(base, m.key.step).SkippedMessageKeys
  BY DEF OpensOnChain, SameSending, q
<1>4. base \in RatchetStates
  BY DEF WellFormed
<1>5. IsFiniteSet(r.SkippedMessageKeys)
  BY <1>2, <1>3, <1>4, SkippedToBound
<1>6. ASSUME NEW e \in r.SkippedMessageKeys
      PROVE  KeyOfMessage(q, e)
  <2>1. CASE e \in base.SkippedMessageKeys
    BY <2>1 DEF q
  <2>2. CASE e \notin base.SkippedMessageKeys
    <3>1. e \in SkippedTo(base, m.key.step).SkippedMessageKeys \ base.SkippedMessageKeys
      BY <1>3, <2>2
    <3>2. /\ e.pub = base.RemoteRatchetKey
          /\ e.idx < m.key.step /\ e.idx \in Nat
          /\ e.key.root = base.ReceiveChainKey.root /\ e.key.step = e.idx
      BY <1>2, <1>3, <3>1, SkippedEntries
    <3>3. PICK j \in DOMAIN sent[q] :
            /\ SentKey(q, j).root = SentKey(q, i).root /\ Header(q, j).pub = Header(q, i).pub
            /\ SentKey(q, j).step = e.idx /\ Header(q, j).idx = e.idx
      BY <1>1, <1>2, <3>2, SentBefore DEF q
    <3>4. e.key \in ChainKeys
      <4>1. SkippedTo(base, m.key.step) \in RatchetStates
        BY <1>2, <1>3, <1>4, SkippedToTyped
      <4>. QED BY <3>1, <4>1 DEF RatchetStates, SkippedKeys
    <3>5. e.key.root = SentKey(q, j).root /\ e.key.step = SentKey(q, j).step
      BY <1>2, <1>3, <3>2, <3>3
    <3>6. e.key = SentKey(q, j)
      BY <1>1, <3>4, <3>5, HeaderTyped, SameKey
    <3>7. e.pub = Header(q, j).pub
      BY <3>2, <3>3 DEF q
    <3>. QED BY <3>3, <3>6, <3>7 DEF KeyOfMessage
  <2>. QED BY <2>1, <2>2
<1>7. r.ReceiveChainKey.root = SentKey(q, i).root /\ r.ReceiveChainKey.root = base.ReceiveChainKey.root
  BY <1>2, <1>3 DEF Advance
<1>8. r.RemoteRatchetKey = Header(q, i).pub /\ r.ReceiveMessageIndex = Header(q, i).idx + 1
  BY <1>2, <1>3 DEF q
<1>9. Len(r.ReceiveChainKey.root) = Len(r.RootKey) - 1
  BY <1>3, <1>7
<1>. QED BY <1>5, <1>6, <1>7, <1>8, <1>9 DEF Following, q

\* What SkipMessages stores before a ratchet step are keys of messages, as the
\* header of the message that makes the step says where the chain ends.
LEMMA EndOfChainKeys ==
  ASSUME IInv, NEW p \in Party, HeadersTrue(Peer(p)),
         NEW st, WellFormed(st), Following(p, st),
         NEW i \in DOMAIN sent[Peer(p)],
         Len(SentKey(Peer(p), i).root) = Len(st.RootKey) + 1,
         NEW e \in SkipMessages(st, Header(Peer(p), i).pn).SkippedMessageKeys
  PROVE  KeyOfMessage(Peer(p), e)
<1> DEFINE q == Peer(p)
           m == Header(q, i)
<1>1. q \in Party /\ m.pn \in Nat
  BY Peers, HeaderTyped
<1>2. /\ IsFiniteSet(st.SkippedMessageKeys)
      /\ \A f \in st.SkippedMessageKeys : KeyOfMessage(q, f)
  BY DEF Following
<1>3. CASE e \in st.SkippedMessageKeys
  BY <1>2, <1>3
<1>4. CASE e \notin st.SkippedMessageKeys
  <2>1. st.ReceiveChainKey # EmptyChain
    BY <1>4 DEF SkipMessages
  <2>2. PICK l \in DOMAIN sent[q] :
          /\ st.ReceiveChainKey.root = SentKey(q, l).root
          /\ st.RemoteRatchetKey = Header(q, l).pub
          /\ st.ReceiveMessageIndex = Header(q, l).idx + 1
    BY <2>1 DEF Following
  <2>3. Len(SentKey(q, l).root) = Len(SentKey(q, i).root) - 2
    <3>1. Len(st.ReceiveChainKey.root) = Len(st.RootKey) - 1
      BY <2>1 DEF Following
    <3>2. Len(st.RootKey) \in Nat
      BY Lengths
    <3>. QED BY <2>2, <3>1, <3>2
  <2>4. st \in RatchetStates
    BY DEF WellFormed
  <2>5. PICK j \in Nat :
          /\ j >= st.ReceiveMessageIndex
          /\ j > st.ReceiveMessageIndex => j <= m.pn
          /\ SkipMessages(st, m.pn) = SkippedTo(st, j)
    BY <1>1, <1>2, <2>1, <2>4, SkipStops
  <2>6. /\ e.pub = st.RemoteRatchetKey
        /\ st.ReceiveMessageIndex <= e.idx /\ e.idx < j /\ e.idx \in Nat
        /\ e.key.root = st.ReceiveChainKey.root /\ e.key.step = e.idx
    BY <1>4, <2>5, SkippedEntries
  <2>7. e.idx < m.pn
    BY <1>1, <2>4, <2>5, <2>6 DEF RatchetStates
  <2>8. PICK g \in DOMAIN sent[q] :
          /\ SentKey(q, g).root = SentKey(q, l).root /\ Header(q, g).pub = Header(q, l).pub
          /\ SentKey(q, g).step = e.idx /\ Header(q, g).idx = e.idx
    BY <1>1, <2>3, <2>6, <2>7, SentOnChainBefore
  <2>9. e.key \in ChainKeys
    <3>1. SkippedTo(st, j) \in RatchetStates
      BY <2>4, <2>5, SkippedToTyped
    <3>. QED BY <2>5, <3>1 DEF RatchetStates, SkippedKeys
  <2>10. e.key = SentKey(q, g)
    <3>1. e.key.root = SentKey(q, g).root /\ e.key.step = SentKey(q, g).step
      BY <2>2, <2>6, <2>8
    <3>. QED BY <1>1, <2>9, <3>1, HeaderTyped, SameKey
  <2>11. e.pub = Header(q, g).pub /\ e.idx = Header(q, g).idx
    BY <2>2, <2>6, <2>8
  <2>. QED BY <2>10, <2>11 DEF KeyOfMessage
<1>. QED BY <1>3, <1>4

\* Opening a message leaves a receiver that follows its peer
\* (DoubleRatchet.Decrypt).
LEMMA OpenFollows ==
  ASSUME IInv, NEW p \in Party, HeadersTrue(Peer(p)),
         NEW st, WellFormed(st), Following(p, st),
         NEW i \in DOMAIN sent[Peer(p)], NEW fresh \in Key,
         Opens(st, Header(Peer(p), i), fresh)
  PROVE  Following(p, Decrypt(st, Header(Peer(p), i), fresh).state)
<1> DEFINE q == Peer(p)
           m == Header(q, i)
           r == Decrypt(st, m, fresh).state
<1>1. /\ q \in Party
      /\ m \in Messages /\ m.key = SentKey(q, i) /\ Len(m.key.root) >= 2
  BY Peers, HeaderTyped
<1>2. /\ IsFiniteSet(st.SkippedMessageKeys)
      /\ \A e \in st.SkippedMessageKeys : KeyOfMessage(q, e)
  BY DEF Following
<1>3. CASE /\ HeldFor(st, m) # {}
           /\ SameSending(st, r)
           /\ r.ReceiveChainKey = st.ReceiveChainKey
           /\ r.ReceiveMessageIndex = st.ReceiveMessageIndex
           /\ r.SkippedMessageKeys = st.SkippedMessageKeys \ HeldFor(st, m)
  <2> HIDE DEF r, m, q
  <2>1. /\ r.RootKey = st.RootKey /\ r.RemoteRatchetKey = st.RemoteRatchetKey
        /\ r.SkippedMessageKeys \subseteq st.SkippedMessageKeys
    BY <1>3 DEF SameSending
  <2>2. IsFiniteSet(r.SkippedMessageKeys)
    BY <1>2, <2>1, FS_Subset
  <2>3. \A e \in r.SkippedMessageKeys : KeyOfMessage(q, e)
    BY <1>2, <2>1
  <2>4. Following(p, r)
    BY <1>3, <2>1, <2>2, <2>3 DEF Following, q
  <2>. QED BY <2>4 DEF r, m, q
<1>4. CASE /\ st.RemoteRatchetKey = m.pub
           /\ OpensOnChain(st, m, r)
  <2>1. st.ReceiveChainKey # EmptyChain
    BY <1>4 DEF OpensOnChain
  <2>2. Len(st.ReceiveChainKey.root) = Len(st.RootKey) - 1
    BY <2>1 DEF Following
  <2>. QED BY <1>2, <1>4, <2>2, ChainFollows
<1>5. CASE OpensOnChain(Stepped(st, m, fresh), m, r)
  <2> DEFINE base == Stepped(st, m, fresh)
             root == Append(st.RootKey, DH(st.LocalRatchetKey, m.pub))
  <2>1. /\ WellFormed(base) /\ IsFiniteSet(base.SkippedMessageKeys)
        /\ Len(root) = Len(st.RootKey) + 1 /\ Len(base.RootKey) = Len(st.RootKey) + 2
        /\ base.ReceiveChainKey = Seed(root)
        /\ base.RemoteRatchetKey = m.pub
        /\ base.SkippedMessageKeys = SkipMessages(st, m.pn).SkippedMessageKeys
    BY <1>1, <1>2, SteppedFields
  <2> HIDE DEF base, root
  <2>2. base.ReceiveChainKey.root = root /\ m.key.root = root
    BY <1>5, <2>1 DEF OpensOnChain, Seed, base
  <2>3. Len(st.RootKey) \in Nat
    BY Lengths
  <2>4. Len(SentKey(q, i).root) = Len(st.RootKey) + 1
    BY <1>1, <2>1, <2>2
  <2>5. \A e \in base.SkippedMessageKeys : KeyOfMessage(q, e)
    BY <2>1, <2>4, EndOfChainKeys
  <2>6. Len(base.ReceiveChainKey.root) = Len(base.RootKey) - 1
    BY <2>1, <2>2, <2>3
  <2>. QED BY <1>5, <2>1, <2>5, <2>6, ChainFollows DEF base
<1>. QED BY <1>1, <1>2, <1>3, <1>4, <1>5, DecryptWays

\* Opening a message leaves the counts of what the device has sent true: a
\* ratchet step puts the length of the chain it ends into PreviousChainLength
\* (PerformDhRatchetStep).
LEMMA OpenCounts ==
  ASSUME IInv, NEW p \in Party,
         NEW st, WellFormed(st), IsFiniteSet(st.SkippedMessageKeys), Counting(p, st),
         \A j \in DOMAIN sent[p] : Len(SentKey(p, j).root) <= Len(st.RootKey),
         NEW i \in DOMAIN sent[Peer(p)],
         Opens(st, Header(Peer(p), i), FreshFor(st))
  PROVE  Counting(p, Decrypt(st, Header(Peer(p), i), FreshFor(st)).state)
<1> DEFINE q == Peer(p)
           m == Header(q, i)
           fresh == FreshFor(st)
           r == Decrypt(st, m, fresh).state
<1>1. /\ q \in Party /\ fresh \in Key
      /\ m \in Messages /\ m.key = SentKey(q, i) /\ Len(m.key.root) >= 2
  BY Peers, HeaderTyped, Fresh DEF WellFormed
<1>2. CASE SameSending(st, r)
  <2> HIDE DEF r
  <2>1. Counting(p, r)
    BY <1>2 DEF SameSending, Counting
  <2>. QED BY <2>1 DEF r
<1>3. CASE OpensOnChain(Stepped(st, m, fresh), m, r)
  <2> DEFINE base == Stepped(st, m, fresh)
             n    == Len(st.RootKey)
  <2>1. /\ Len(base.RootKey) = n + 2
        /\ base.SendChainKey = Seed(base.RootKey) /\ base.SendMessageIndex = 0
        /\ base.LocalRatchetKey = fresh
        /\ base.PreviousChainLength = st.SendMessageIndex
    BY <1>1, SteppedFields
  <2> HIDE DEF base
  <2>2. SameSending(base, r)
    BY <1>3 DEF OpensOnChain, base
  <2> HIDE DEF r, m, q
  <2>3. /\ Len(r.RootKey) = n + 2
        /\ r.SendChainKey.step = 0 /\ r.SendMessageIndex = 0
        /\ r.LocalRatchetKey = fresh
        /\ r.PreviousChainLength = st.SendMessageIndex
    BY <2>1, <2>2 DEF SameSending, Seed
  <2>4. n \in Nat
    BY Lengths
  <2>5. KeyOfChain(p, r.LocalRatchetKey, Len(r.RootKey))
    <3>1. PICK k \in Nat : st.LocalRatchetKey = KeyPair(p, k) /\ n = 2 * k + 2 - Parity(p)
      BY DEF Counting, KeyOfChain
    <3>2. fresh = KeyPair(p, k + 1)
      <4>1. st.LocalRatchetKey[1] = p /\ st.LocalRatchetKey[2] = k
        BY <3>1 DEF KeyPair
      <4>. QED BY <4>1 DEF FreshFor
    <3>3. n + 2 = 2 * (k + 1) + 2 - Parity(p)
      <4>1. Parity(p) \in 0 .. 1
        BY Peers
      <4> DEFINE c == Parity(p)
      <4>2. c \in 0 .. 1 /\ n = 2 * k + 2 - c
        BY <3>1, <4>1
      <4> HIDE DEF c, n
      <4>3. n + 2 = 2 * (k + 1) + 2 - c
        BY <4>2
      <4>. QED BY <4>3 DEF c
    <3>4. k + 1 \in Nat
      OBVIOUS
    <3>. QED BY <2>3, <3>2, <3>3, <3>4 DEF KeyOfChain
  <2>6. \A s \in Nat : s < r.SendMessageIndex <=> SentAt(p, Len(r.RootKey), s)
    <3>1. \A j \in DOMAIN sent[p] : Len(SentKey(p, j).root) # n + 2
      BY <2>4, HeaderTyped
    <3>2. \A s \in Nat : ~SentAt(p, n + 2, s)
      BY <3>1 DEF SentAt
    <3>3. \A s \in Nat : ~(s < 0)
      OBVIOUS
    <3>. QED BY <2>3, <3>2, <3>3
  <2>7. \A s \in Nat : s < r.PreviousChainLength <=> SentAt(p, Len(r.RootKey) - 2, s)
    <3>1. Len(r.RootKey) - 2 = n
      BY <2>3, <2>4
    <3>2. \A s \in Nat : s < st.SendMessageIndex <=> SentAt(p, n, s)
      BY DEF Counting
    <3>. QED BY <2>3, <3>1, <3>2
  <2>8. Counting(p, r)
    BY <2>3, <2>5, <2>6, <2>7 DEF Counting
  <2>. QED BY <2>8 DEF r, m, q
<1>4. \/ SameSending(st, r)
      \/ OpensOnChain(Stepped(st, m, fresh), m, r)
  <2>1. /\ Opens(st, m, fresh)
    OBVIOUS
  <2>2. OpensOnChain(st, m, r) => SameSending(st, r)
    BY DEF OpensOnChain
  <2> HIDE DEF m, q, fresh
  <2>. QED BY <1>1, <2>1, <2>2, DecryptWays
<1>. QED BY <1>2, <1>3, <1>4

-----------------------------------------------------------------------------
(* The invariant of the steps.                                             *)

\* The headers are true and the initiator counts from nothing at first.
LEMMA InitSteps == Init => StepInv
<1> SUFFICES ASSUME Init PROVE StepInv
  OBVIOUS
<1>1. IInv
  BY InitInv
<1>2. /\ stored = [p \in Party |-> IF p = Initiator THEN {InitialState} ELSE {}]
      /\ \A p \in Party : sent[p] = << >>
  BY DEF Init, InitialState
<1>3. \A p \in Party : DOMAIN sent[p] = {}
  BY <1>2
<1>4. \A p \in Party : HeadersTrue(p)
  BY <1>3 DEF HeadersTrue
<1>5. ASSUME NEW p \in Party, NEW st \in stored[p]
      PROVE  Counting(p, st) /\ Following(p, st)
  <2>1. p = Initiator /\ st = InitialState
    BY <1>2
  <2>2. Parity(p) = 0
    BY <2>1 DEF Parity
  <2>3. \A n, s : ~SentAt(p, n, s)
    BY <1>3 DEF SentAt
  <2>4. /\ st.LocalRatchetKey = KeyPair(p, 0) /\ st.RemoteRatchetKey = KeyPair(Responder, 0)
        /\ st.SendMessageIndex = 0 /\ st.PreviousChainLength = 0
        /\ st.SendChainKey.step = 0
    BY <2>1 DEF InitialState, InitializeAsInitiator, SignedPreKey, Seed
  <2>5. Len(st.RootKey) = 2 /\ st.ReceiveChainKey = EmptyChain /\ st.SkippedMessageKeys = {}
    BY <2>1, InitialStates
  <2>6. KeyOfChain(p, st.LocalRatchetKey, Len(st.RootKey))
    <3>1. 2 = 2 * 0 + 2 - Parity(p) /\ 0 \in Nat
      BY <2>2
    <3>. QED BY <2>4, <2>5, <3>1 DEF KeyOfChain
  <2>7. Counting(p, st)
    BY <2>3, <2>4, <2>6 DEF Counting
  <2>8. Peer(p) = Responder
    BY <2>1 DEF Peer
  <2>9. Following(p, st)
    BY <2>1, <2>2, <2>4, <2>5, <2>8, FS_EmptySet DEF Following
  <2>. QED BY <2>7, <2>9
<1>. QED BY <1>1, <1>4, <1>5 DEF StepInv

\* What a device that encrypts changes (EncryptBytesAsync).
LEMMA SendEffect ==
  ASSUME IInv, NEW p \in Party, Send(p)
  PROVE  \E st \in stored[p] : \E n \in Nat :
           /\ DOMAIN sent'[p] = DOMAIN sent[p] \cup {n} /\ n \notin DOMAIN sent[p]
           /\ \A i \in DOMAIN sent[p] : sent'[p][i] = sent[p][i]
           /\ sent'[p][n].ratchet = SealedMessage(st)
           /\ Len(sent'[p]) = Len(sent[p]) + 1 /\ Len(sent[p]) \in Nat
           /\ \A q \in Party : q # p => sent'[q] = sent[q] /\ stored'[q] = stored[q]
           /\ stored'[p] = {AfterEncrypt(st)}
           /\ accepted' = accepted
<1>1. PICK st \in stored[p] :
        /\ sent' = [sent EXCEPT ![p] = Append(@,
                      [ratchet |-> SealedMessage(st),
                       prekey  |-> p = Initiator /\ sent[p] = << >>])]
        /\ stored' = [stored EXCEPT ![p] = {AfterEncrypt(st)}]
  BY DEF Send
<1> DEFINE msg == [ratchet |-> SealedMessage(st), prekey |-> p = Initiator /\ sent[p] = << >>]
           n   == Len(sent[p]) + 1
<1>2. /\ sent \in [Party -> Seq(WireMessages)] /\ stored \in [Party -> SUBSET RatchetStates]
      /\ sent[p] \in Seq(WireMessages)
  BY DEF IInv, TypeOK
<1>3. msg \in WireMessages
  <2>1. st \in RatchetStates
    BY <1>2
  <2>. QED BY <2>1, SealedTyped DEF WireMessages
<1>4. msg.ratchet = SealedMessage(st)
  OBVIOUS
<1> HIDE DEF msg
<1>5. /\ DOMAIN Append(sent[p], msg) = DOMAIN sent[p] \cup {n} /\ n \notin DOMAIN sent[p]
      /\ n \in Nat /\ Len(sent[p]) \in Nat
      /\ Len(Append(sent[p], msg)) = Len(sent[p]) + 1
      /\ Append(sent[p], msg)[n] = msg
      /\ \A i \in DOMAIN sent[p] : Append(sent[p], msg)[i] = sent[p][i]
  BY <1>2, <1>3
<1>6. /\ sent'[p] = Append(sent[p], msg)
      /\ stored'[p] = {AfterEncrypt(st)}
      /\ \A q \in Party : q # p => sent'[q] = sent[q] /\ stored'[q] = stored[q]
  BY <1>1, <1>2 DEF msg
<1>7. accepted' = accepted
  BY DEF Send
<1> HIDE DEF n
<1>. QED BY <1>4, <1>5, <1>6, <1>7

\* What Encrypt leaves of a state.
LEMMA EncryptFields ==
  ASSUME NEW st \in RatchetStates
  PROVE  LET r == AfterEncrypt(st)
         IN /\ r.RootKey = st.RootKey /\ r.LocalRatchetKey = st.LocalRatchetKey
            /\ r.RemoteRatchetKey = st.RemoteRatchetKey
            /\ r.PreviousChainLength = st.PreviousChainLength
            /\ r.ReceiveChainKey = st.ReceiveChainKey
            /\ r.ReceiveMessageIndex = st.ReceiveMessageIndex
            /\ r.SkippedMessageKeys = st.SkippedMessageKeys
            /\ r.SendMessageIndex = st.SendMessageIndex + 1
            /\ r.SendChainKey.root = st.SendChainKey.root
            /\ r.SendChainKey.step = st.SendChainKey.step + 1
<1> DEFINE r == AfterEncrypt(st)
<1>1. /\ r = [st EXCEPT !.SendChainKey = r.SendChainKey, !.SendMessageIndex = st.SendMessageIndex + 1]
      /\ r.SendChainKey = Advance(st.SendChainKey, 1)
      /\ r \in RatchetStates
  BY SealedTyped
<1> HIDE DEF r
<1>2. /\ r.RootKey = st.RootKey /\ r.LocalRatchetKey = st.LocalRatchetKey
      /\ r.RemoteRatchetKey = st.RemoteRatchetKey
      /\ r.PreviousChainLength = st.PreviousChainLength
      /\ r.ReceiveChainKey = st.ReceiveChainKey
      /\ r.ReceiveMessageIndex = st.ReceiveMessageIndex
      /\ r.SkippedMessageKeys = st.SkippedMessageKeys
      /\ r.SendMessageIndex = st.SendMessageIndex + 1
  BY <1>1 DEF RatchetStates
<1>3. /\ r.SendChainKey.root = st.SendChainKey.root
      /\ r.SendChainKey.step = st.SendChainKey.step + 1
  BY <1>1 DEF Advance
<1>. QED BY <1>2, <1>3 DEF r

\* Sending keeps the headers true and the counts right.
LEMMA SendSteps ==
  ASSUME StepInv, NEW p \in Party, Send(p)
  PROVE  StepInv'
<1>1. IInv /\ IInv'
  BY SendInv DEF StepInv
<1>2. PICK st \in stored[p], n \in Nat :
        /\ DOMAIN sent'[p] = DOMAIN sent[p] \cup {n} /\ n \notin DOMAIN sent[p]
        /\ \A i \in DOMAIN sent[p] : sent'[p][i] = sent[p][i]
        /\ sent'[p][n].ratchet = SealedMessage(st)
        /\ \A q \in Party : q # p => sent'[q] = sent[q] /\ stored'[q] = stored[q]
        /\ stored'[p] = {AfterEncrypt(st)}
  BY <1>1, SendEffect
<1>3. /\ HeadersTrue(p) /\ Counting(p, st) /\ Following(p, st)
      /\ StateInv(p, st) /\ WellFormed(st) /\ st \in RatchetStates
  BY DEF StepInv, IInv, StateInv, WellFormed
<1>4. PICK ms : ms = sent'[p]
  OBVIOUS
<1> DEFINE K(i) == ms[i].ratchet.key
           H(i) == ms[i].ratchet
           At(l, s) == \E i \in DOMAIN ms : Len(K(i).root) = l /\ K(i).step = s
           N == Len(st.RootKey)
<1>5. /\ K(n) = st.SendChainKey
      /\ H(n).pub = st.LocalRatchetKey /\ H(n).pn = st.PreviousChainLength
      /\ H(n).idx = st.SendMessageIndex
  BY <1>2, <1>4 DEF SealedMessage
<1>6. \A i \in DOMAIN sent[p] : H(i) = Header(p, i) /\ K(i) = SentKey(p, i)
  BY <1>2, <1>4 DEF Header, SentKey
<1>7. DOMAIN ms = DOMAIN sent[p] \cup {n}
  BY <1>2, <1>4
<1> HIDE DEF K, H
<1>8. /\ st.SendChainKey.root = st.RootKey /\ st.SendChainKey.step = st.SendMessageIndex
      /\ N \in Nat /\ N >= 2
      /\ st.SendMessageIndex \in Nat /\ st.PreviousChainLength \in Nat
      /\ \A i \in DOMAIN sent[p] : Past(SentKey(p, i), st.SendChainKey)
  BY <1>3, Lengths DEF StateInv, Counting, RatchetStates, Own
<1>9. \A i \in DOMAIN sent[p] :
        /\ Len(SentKey(p, i).root) <= N
        /\ Len(SentKey(p, i).root) \in Nat /\ Len(SentKey(p, i).root) >= 2
        /\ Len(SentKey(p, i).root) = N => SentKey(p, i).root = st.RootKey
  BY <1>1, <1>8, HeaderTyped DEF Past
<1>10. \A l, s \in Nat : At(l, s) <=> SentAt(p, l, s) \/ (l = N /\ s = st.SendMessageIndex)
  BY <1>5, <1>6, <1>7, <1>8 DEF SentAt
<1>11. /\ KeyOfChain(p, st.LocalRatchetKey, N)
       /\ \A s \in Nat : s < st.SendMessageIndex <=> SentAt(p, N, s)
       /\ \A s \in Nat : s < st.PreviousChainLength <=> SentAt(p, N - 2, s)
  BY <1>3 DEF Counting
<1>12. N - 2 \in Nat /\ N - 2 # N
  BY <1>8
<1> HIDE DEF At, N
<1>13. \A s \in Nat : s < st.PreviousChainLength <=> At(N - 2, s)
  BY <1>10, <1>11, <1>12
<1>14. \A s \in Nat : s < st.SendMessageIndex + 1 <=> At(N, s)
  <2>1. N \in Nat
    BY <1>8 DEF N
  <2>2. \A s \in Nat : At(N, s) <=> s < st.SendMessageIndex \/ s = st.SendMessageIndex
    BY <1>10, <1>11, <2>1
  <2>. QED BY <1>8, <2>2
<1>15. ASSUME NEW i \in DOMAIN ms
       PROVE  /\ K(i).step = H(i).idx
              /\ KeyOfChain(p, H(i).pub, Len(K(i).root))
              /\ \A s \in Nat : s < H(i).idx => At(Len(K(i).root), s)
              /\ \A s \in Nat : s < H(i).pn <=> At(Len(K(i).root) - 2, s)
  <2>1. CASE i \in DOMAIN sent[p]
    <3> DEFINE L == Len(SentKey(p, i).root)
    <3>1. /\ SentKey(p, i).step = Header(p, i).idx
          /\ KeyOfChain(p, Header(p, i).pub, L)
          /\ \A s \in Nat : s < Header(p, i).idx => SentAt(p, L, s)
          /\ \A s \in Nat : s < Header(p, i).pn <=> SentAt(p, L - 2, s)
      BY <1>3, <2>1 DEF HeadersTrue
    <3>2. L \in Nat /\ L - 2 \in Nat /\ L - 2 # N
      BY <1>8, <1>9, <2>1 DEF N
    <3>3. H(i) = Header(p, i) /\ K(i) = SentKey(p, i)
      BY <1>6, <2>1
    <3>4. Len(K(i).root) = L
      BY <3>3
    <3> HIDE DEF L
    <3>5. \A s \in Nat : s < H(i).idx => At(L, s)
      BY <1>10, <3>1, <3>2, <3>3
    <3>6. \A s \in Nat : s < H(i).pn <=> At(L - 2, s)
      BY <1>10, <3>1, <3>2, <3>3
    <3>. QED BY <3>1, <3>3, <3>4, <3>5, <3>6
  <2>2. CASE i = n
    <3>1. Len(K(i).root) = N /\ K(i).step = H(i).idx
      BY <1>5, <1>8, <2>2 DEF N
    <3>2. KeyOfChain(p, H(i).pub, N)
      BY <1>5, <1>11, <2>2
    <3>3. \A s \in Nat : s < H(i).idx => At(N, s)
      BY <1>5, <1>8, <1>14, <2>2
    <3>4. \A s \in Nat : s < H(i).pn <=> At(N - 2, s)
      BY <1>5, <1>13, <2>2
    <3>. QED BY <3>1, <3>2, <3>3, <3>4
  <2>. QED BY <1>7, <2>1, <2>2
<1>16. \A i, j \in DOMAIN ms : Len(K(i).root) = Len(K(j).root) => K(i).root = K(j).root
  <2>1. \A i, j \in DOMAIN sent[p] :
          Len(SentKey(p, i).root) = Len(SentKey(p, j).root) => SentKey(p, i).root = SentKey(p, j).root
    BY <1>3 DEF HeadersTrue
  <2>2. Len(K(n).root) = N /\ K(n).root = st.RootKey
    BY <1>5, <1>8 DEF N
  <2>. QED BY <1>6, <1>7, <1>9, <2>1, <2>2 DEF N
<1>17. HeadersTrue(p)'
  BY <1>4, <1>15, <1>16 DEF HeadersTrue, SentAt, SentKey, Header, KeyOfChain, K, H, At
<1>18. ASSUME NEW r \in stored'[p]
       PROVE  Counting(p, r)'
  <2>1. r = AfterEncrypt(st)
    BY <1>2
  <2>2. /\ r.RootKey = st.RootKey /\ r.LocalRatchetKey = st.LocalRatchetKey
        /\ r.PreviousChainLength = st.PreviousChainLength
        /\ r.SendMessageIndex = st.SendMessageIndex + 1
        /\ r.SendChainKey.step = st.SendChainKey.step + 1
    BY <1>3, <2>1, EncryptFields
  <2>3. /\ KeyOfChain(p, r.LocalRatchetKey, Len(r.RootKey))
        /\ r.SendChainKey.step = r.SendMessageIndex
        /\ \A s \in Nat : s < r.SendMessageIndex <=> At(Len(r.RootKey), s)
        /\ \A s \in Nat : s < r.PreviousChainLength <=> At(Len(r.RootKey) - 2, s)
    BY <1>8, <1>11, <1>13, <1>14, <2>2 DEF N
  <2>. QED BY <1>4, <2>3 DEF Counting, SentAt, SentKey, KeyOfChain, K, At
<1>19. ASSUME NEW r \in stored'[p]
       PROVE  Following(p, r)'
  <2>1. r = AfterEncrypt(st)
    BY <1>2
  <2>2. /\ r.RootKey = st.RootKey /\ r.RemoteRatchetKey = st.RemoteRatchetKey
        /\ r.ReceiveChainKey = st.ReceiveChainKey
        /\ r.ReceiveMessageIndex = st.ReceiveMessageIndex
        /\ r.SkippedMessageKeys = st.SkippedMessageKeys
    BY <1>3, <2>1, EncryptFields
  <2>3. sent'[Peer(p)] = sent[Peer(p)]
    BY <1>2, Peers
  <2>4. Following(p, r)
    BY <1>3, <2>2 DEF Following
  <2>. QED BY <2>3, <2>4 DEF Following, KeyOfMessage, SentKey, Header
<1>20. ASSUME NEW q \in Party, q # p
       PROVE  /\ HeadersTrue(q)'
              /\ \A r \in stored'[q] : Counting(q, r)' /\ Following(q, r)'
  <2>1. sent'[q] = sent[q] /\ stored'[q] = stored[q]
    BY <1>2, <1>20
  <2>2. HeadersTrue(q)'
    BY <2>1 DEF StepInv, HeadersTrue, SentAt, SentKey, Header
  <2>3. Peer(q) = p
    BY <1>20, ChannelAssumption DEF Peer
  <2>4. ASSUME NEW r \in stored[q]
        PROVE  Counting(q, r)' /\ Following(q, r)'
    <3>1. Counting(q, r) /\ Following(q, r)
      BY <2>4 DEF StepInv
    <3>2. Counting(q, r)'
      BY <2>1, <3>1 DEF Counting, SentAt, SentKey
    <3>3. \A i \in DOMAIN sent[p] :
            i \in DOMAIN ms /\ K(i) = SentKey(p, i) /\ H(i) = Header(p, i)
      BY <1>6, <1>7
    <3>4. /\ IsFiniteSet(r.SkippedMessageKeys)
          /\ \A e \in r.SkippedMessageKeys :
               \E i \in DOMAIN ms : e.key = K(i) /\ e.pub = H(i).pub /\ e.idx = H(i).idx
      BY <2>3, <3>1, <3>3 DEF Following, KeyOfMessage
    <3>5. \/ /\ r.ReceiveChainKey = EmptyChain
             /\ Len(r.RootKey) = 2 - Parity(q)
             /\ r.SkippedMessageKeys = {}
             /\ r.RemoteRatchetKey \in {NoKey, KeyPair(p, 0)}
             /\ r.RemoteRatchetKey = NoKey \/ q = Initiator
          \/ /\ Len(r.ReceiveChainKey.root) = Len(r.RootKey) - 1
             /\ \E i \in DOMAIN ms : /\ r.ReceiveChainKey.root = K(i).root
                                     /\ r.RemoteRatchetKey = H(i).pub
                                     /\ r.ReceiveMessageIndex = H(i).idx + 1
      BY <2>3, <3>1, <3>3 DEF Following
    <3>6. Following(q, r)'
      BY <1>4, <2>3, <3>4, <3>5 DEF Following, KeyOfMessage, SentKey, Header, K, H
    <3>. QED BY <3>2, <3>6
  <2>. QED BY <2>1, <2>2, <2>4
<1>. QED BY <1>1, <1>17, <1>18, <1>19, <1>20 DEF StepInv

\* The session Decrypt works on counts and follows like a stored one, also the
\* one the responder builds for a PreKeyMessage.
LEMMA SessionSteps ==
  ASSUME StepInv, NEW p \in Party, NEW i \in DOMAIN sent[Peer(p)],
         NEW st \in SessionFor(p, sent[Peer(p)][i])
  PROVE  /\ WellFormed(st) /\ st \in Sessions(p)
         /\ Counting(p, st) /\ Following(p, st)
         /\ \A j \in DOMAIN sent[p] : Len(SentKey(p, j).root) <= Len(st.RootKey)
<1>1. /\ ChainsFit(p, st)
      /\ \A j \in DOMAIN sent[p] : Past(SentKey(p, j), st.SendChainKey)
  BY SessionForFit DEF StepInv
<1>2. WellFormed(st)
  BY <1>1 DEF ChainsFit
<1>3. \A j \in DOMAIN sent[p] : Len(SentKey(p, j).root) <= Len(st.RootKey)
  <2>1. Len(st.SendChainKey.root) <= Len(st.RootKey)
    BY <1>1 DEF ChainsFit
  <2>2. /\ Len(st.SendChainKey.root) \in Nat /\ Len(st.RootKey) \in Nat
    BY <1>2, Lengths
  <2>. QED BY <1>1, <2>1, <2>2, HeaderTyped DEF Past, StepInv
<1>4. CASE st \in stored[p]
  BY <1>2, <1>3, <1>4 DEF StepInv, Sessions
<1>5. CASE st \notin stored[p]
  <2>1. stored[p] = {} /\ st = ResponderState
    BY <1>5 DEF SessionFor, ResponderState
  <2>2. p = Responder
    BY <2>1, ChannelAssumption DEF StepInv, IInv, StartInv
  <2>3. DOMAIN sent[p] = {}
    BY <2>1, <2>2 DEF StepInv, IInv, StartInv
  <2>4. Parity(p) = 1
    BY <2>2, ChannelAssumption DEF Parity
  <2>5. \A n, s : ~SentAt(p, n, s)
    BY <2>3 DEF SentAt
  <2>6. /\ Len(st.RootKey) = 1 /\ st.ReceiveChainKey = EmptyChain
        /\ st.SendChainKey = EmptyChain /\ st.SkippedMessageKeys = {}
    BY <2>1, InitialStates
  <2>7. /\ st.LocalRatchetKey = KeyPair(p, 0) /\ st.RemoteRatchetKey = NoKey
        /\ st.SendMessageIndex = 0 /\ st.PreviousChainLength = 0
    BY <2>1, <2>2 DEF ResponderState, InitializeAsResponder, SignedPreKey
  <2>8. KeyOfChain(p, st.LocalRatchetKey, Len(st.RootKey))
    <3>1. 1 = 2 * 0 + 2 - Parity(p) /\ 0 \in Nat
      BY <2>4
    <3>. QED BY <2>6, <2>7, <3>1 DEF KeyOfChain
  <2>9. Counting(p, st)
    BY <2>5, <2>6, <2>7, <2>8, EmptyRoot DEF Counting
  <2>10. Following(p, st)
    BY <2>4, <2>6, <2>7, FS_EmptySet DEF Following
  <2>. QED BY <1>2, <1>3, <2>1, <2>9, <2>10 DEF Sessions
<1>. QED BY <1>4, <1>5

\* What a device that decrypts changes (DecryptToBytesAsync): its own session
\* and what it has accepted, or nothing.
LEMMA ReceiveEffect ==
  ASSUME IInv, NEW p \in Party, NEW i \in DOMAIN sent[Peer(p)], Receive(p, i)
  PROVE  /\ sent' = sent
         /\ \A q \in Party : q # p => stored'[q] = stored[q] /\ accepted'[q] = accepted[q]
         /\ \/ stored' = stored /\ accepted' = accepted
            \/ \E st \in SessionFor(p, sent[Peer(p)][i]) :
                 /\ Opens(st, Header(Peer(p), i), FreshFor(st))
                 /\ stored'[p] = {Decrypt(st, Header(Peer(p), i), FreshFor(st)).state}
                 /\ accepted'[p] = accepted[p] \cup {i}
<1> DEFINE m == sent[Peer(p)][i]
<1>1. PICK st \in SessionFor(p, m) :
       IF Opens(st, m.ratchet, FreshFor(st))
       THEN /\ stored' = [stored EXCEPT ![p] =
                            {Decrypt(st, m.ratchet, FreshFor(st)).state}]
            /\ accepted' = [accepted EXCEPT ![p] = @ \cup {i}]
            /\ UNCHANGED sent
       ELSE /\ stored' = [stored EXCEPT ![p] = {st}]
            /\ UNCHANGED <<sent, accepted>>
  BY DEF Receive
<1>2. /\ TypeOK
      /\ stored \in [Party -> SUBSET RatchetStates] /\ accepted \in [Party -> SUBSET Nat]
  BY DEF IInv, TypeOK
<1>3. m.ratchet = Header(Peer(p), i)
  BY DEF Header
<1> HIDE DEF m
<1>4. CASE Opens(st, m.ratchet, FreshFor(st))
  BY <1>1, <1>2, <1>3, <1>4 DEF m
<1>5. CASE ~Opens(st, m.ratchet, FreshFor(st))
  <2>1. stored' = [stored EXCEPT ![p] = {st}] /\ sent' = sent /\ accepted' = accepted
    BY <1>1, <1>5
  <2>2. /\ st \in stored[p] \/ (stored[p] = {} /\ \A fresh \in Key : Opens(st, m.ratchet, fresh))
        /\ ChainsFit(p, st)
    BY <1>1, SessionForFit DEF m
  <2>3. FreshFor(st) \in Key
    BY <2>2, Fresh DEF ChainsFit, WellFormed
  <2>4. st \in stored[p]
    BY <1>5, <2>2, <2>3
  <2>5. stored[p] = {st}
    BY <1>2, <2>4 DEF TypeOK
  <2>6. stored' = stored
    BY <1>2, <2>1, <2>5
  <2>. QED BY <2>1, <2>6
<1>. QED BY <1>4, <1>5

\* Nothing is counted anew when nothing is sent.
LEMMA SentKeeps ==
  ASSUME sent' = sent, NEW p, NEW st
  PROVE  /\ HeadersTrue(p) => HeadersTrue(p)'
         /\ Counting(p, st) => Counting(p, st)'
         /\ Following(p, st) => Following(p, st)'
<1>1. HeadersTrue(p) => HeadersTrue(p)'
  BY DEF HeadersTrue, SentAt, SentKey, Header
<1>2. Counting(p, st) => Counting(p, st)'
  BY DEF Counting, SentAt, SentKey
<1>3. Following(p, st) => Following(p, st)'
  BY DEF Following, KeyOfMessage, SentKey, Header
<1>. QED BY <1>1, <1>2, <1>3

\* Receiving keeps the counts right and the receiver behind its peer.
LEMMA ReceiveSteps ==
  ASSUME StepInv, NEW p \in Party, NEW i \in DOMAIN sent[Peer(p)], Receive(p, i)
  PROVE  StepInv'
<1>1. IInv /\ IInv'
  BY ReceiveInv DEF StepInv
<1>2. /\ sent' = sent
      /\ \A q \in Party : q # p => stored'[q] = stored[q]
      /\ \/ stored' = stored
         \/ \E st \in SessionFor(p, sent[Peer(p)][i]) :
              /\ Opens(st, Header(Peer(p), i), FreshFor(st))
              /\ stored'[p] = {Decrypt(st, Header(Peer(p), i), FreshFor(st)).state}
  BY <1>1, ReceiveEffect
<1>3. \A q \in Party : HeadersTrue(q)'
  BY <1>2, SentKeeps DEF StepInv
<1>4. ASSUME NEW q \in Party, NEW r \in stored'[q]
      PROVE  Counting(q, r) /\ Following(q, r)
  <2>1. CASE r \in stored[q]
    BY <2>1 DEF StepInv
  <2>2. CASE r \notin stored[q]
    <3>1. q = p
      BY <1>2, <2>2
    <3>2. PICK st \in SessionFor(p, sent[Peer(p)][i]) :
            /\ Opens(st, Header(Peer(p), i), FreshFor(st))
            /\ r = Decrypt(st, Header(Peer(p), i), FreshFor(st)).state
      BY <1>2, <2>2, <3>1
    <3>3. /\ WellFormed(st) /\ Counting(p, st) /\ Following(p, st)
          /\ \A j \in DOMAIN sent[p] : Len(SentKey(p, j).root) <= Len(st.RootKey)
      BY SessionSteps
    <3>4. FreshFor(st) \in Key
      BY <3>3, Fresh DEF WellFormed
    <3>5. HeadersTrue(Peer(p)) /\ IsFiniteSet(st.SkippedMessageKeys)
      BY <3>3, Peers DEF StepInv, Following
    <3>6. Counting(p, r)
      BY <1>1, <3>2, <3>3, <3>5, OpenCounts
    <3>7. Following(p, r)
      BY <1>1, <3>2, <3>3, <3>4, <3>5, OpenFollows
    <3>. QED BY <3>1, <3>6, <3>7
  <2>. QED BY <2>1, <2>2
<1>5. ASSUME NEW q \in Party, NEW r \in stored'[q]
      PROVE  Counting(q, r)' /\ Following(q, r)'
  BY <1>2, <1>4, <1>5, SentKeeps
<1>. QED BY <1>1, <1>3, <1>5 DEF StepInv

\* Every step keeps the headers true and the receivers behind them.
LEMMA NextSteps ==
  ASSUME StepInv, [Next]_vars
  PROVE  StepInv'
<1>1. CASE Next
  <2>1. PICK p \in Party : Send(p) \/ \E i \in DOMAIN sent[Peer(p)] : Receive(p, i)
    BY <1>1 DEF Next
  <2>. QED BY <2>1, SendSteps, ReceiveSteps
<1>2. CASE UNCHANGED vars
  <2>1. sent' = sent /\ stored' = stored
    BY <1>2 DEF vars
  <2>2. IInv'
    BY <1>2, StutterInv DEF StepInv
  <2>3. \A q \in Party : HeadersTrue(q)'
    BY <2>1, SentKeeps DEF StepInv
  <2>4. ASSUME NEW q \in Party, NEW r \in stored'[q]
        PROVE  Counting(q, r)' /\ Following(q, r)'
    BY <2>1, <2>4, SentKeeps DEF StepInv
  <2>. QED BY <2>2, <2>3, <2>4 DEF StepInv
<1>. QED BY <1>1, <1>2

\* In every reachable state the headers say what was sent, and every receiver
\* stands behind a message of its peer.
THEOREM StepsCounted == Spec => []StepInv
<1>. QED BY InitSteps, NextSteps, PTL DEF Spec

-----------------------------------------------------------------------------
(* In step.                                                                *)

\* With room for the keys on the way, SkipMessages brings the receive chain to
\* the index it is told.
LEMMA ChainReaches ==
  ASSUME NEW base, WellFormed(base), IsFiniteSet(base.SkippedMessageKeys),
         base.ReceiveChainKey # EmptyChain, NEW n \in Nat, base.ReceiveMessageIndex <= n,
         Cardinality(base.SkippedMessageKeys) + (n - base.ReceiveMessageIndex) <= MaxSkippedKeys
  PROVE  LET at == SkipMessages(base, n)
         IN /\ at = SkippedTo(base, n)
            /\ at.ReceiveChainKey \in ChainKeys
            /\ at.ReceiveChainKey.root = base.ReceiveChainKey.root
            /\ at.ReceiveChainKey.step = n
<1> DEFINE at == SkipMessages(base, n)
<1>1. /\ base \in RatchetStates /\ base.ReceiveMessageIndex \in Nat
      /\ base.ReceiveChainKey \in ChainKeys
      /\ base.ReceiveChainKey.step = base.ReceiveMessageIndex
  BY DEF WellFormed, RatchetStates
<1>2. at = SkippedTo(base, n)
  BY <1>1, SkipReaches
<1>3. at.ReceiveChainKey = Advance(base.ReceiveChainKey, n - base.ReceiveMessageIndex)
  BY <1>1, <1>2, SkippedToFields
<1>4. n - base.ReceiveMessageIndex \in Nat
  BY <1>1
<1> HIDE DEF at
<1>5. /\ at.ReceiveChainKey \in ChainKeys
      /\ at.ReceiveChainKey.root = base.ReceiveChainKey.root
      /\ at.ReceiveChainKey.step = base.ReceiveMessageIndex + (n - base.ReceiveMessageIndex)
  BY <1>1, <1>3, <1>4, AdvanceTyped
<1>6. at.ReceiveChainKey.step = n
  BY <1>1, <1>5
<1>. QED BY <1>2, <1>5, <1>6 DEF at

\* A message on the chain a device receives on, not behind it, opens if the
\* keys before it have room.
LEMMA OnChainOpens ==
  ASSUME StepInv, NEW p \in Party, NEW st \in stored[p], NEW i \in DOMAIN sent[Peer(p)],
         HeldFor(st, Header(Peer(p), i)) = {},
         Header(Peer(p), i).pub = st.RemoteRatchetKey,
         Header(Peer(p), i).idx >= st.ReceiveMessageIndex,
         Cardinality(st.SkippedMessageKeys)
           + (Header(Peer(p), i).idx - st.ReceiveMessageIndex) <= MaxSkippedKeys,
         NEW fresh
  PROVE  Opens(st, Header(Peer(p), i), fresh)
<1> DEFINE q == Peer(p)
           m == Header(q, i)
<1>1. /\ IInv /\ q \in Party /\ HeadersTrue(q) /\ Following(p, st)
      /\ WellFormed(st) /\ st \in RatchetStates
  BY Peers DEF StepInv, IInv, StateInv, WellFormed
<1>2. /\ m.idx \in Nat /\ m.key = SentKey(q, i) /\ m.key \in ChainKeys /\ m.key.step = m.idx
      /\ st.ReceiveMessageIndex \in Nat
  BY <1>1, HeaderTyped, HeadersDecide DEF RatchetStates
<1>3. IsFiniteSet(st.SkippedMessageKeys)
  BY <1>1 DEF Following
<1>4. st.ReceiveChainKey # EmptyChain
  BY <1>1, NotBegun
<1>5. PICK l \in DOMAIN sent[q] :
        /\ st.ReceiveChainKey.root = SentKey(q, l).root
        /\ st.RemoteRatchetKey = Header(q, l).pub
  BY <1>1, <1>4 DEF Following
<1>6. SentKey(q, i).root = SentKey(q, l).root
  BY <1>1, <1>5, HeadersDecide
<1> DEFINE at == SkipMessages(st, m.idx)
<1>7. /\ at.ReceiveChainKey \in ChainKeys
      /\ at.ReceiveChainKey.root = st.ReceiveChainKey.root
      /\ at.ReceiveChainKey.step = m.idx
  BY <1>1, <1>2, <1>3, <1>4, ChainReaches
<1>8. ReadyFor(st, m, fresh) = at
  BY DEF ReadyFor
<1>9. Decrypt(st, m, fresh).key = at.ReceiveChainKey
  BY <1>8 DEF Decrypt, OpenWithChain
<1> HIDE DEF at, m, q
<1>10. at.ReceiveChainKey = m.key
  BY <1>2, <1>5, <1>6, <1>7, SameKey
<1>11. Opens(st, m, fresh)
  BY <1>9, <1>10 DEF Opens
<1>. QED BY <1>11 DEF m, q

\* The first chain after the one a device receives on: its ratchet key is
\* another one, and pn lies at or after what the device has received.
LEMMA NextChain ==
  ASSUME StepInv, NEW p \in Party, NEW st \in stored[p], NEW i \in DOMAIN sent[Peer(p)],
         Len(SentKey(Peer(p), i).root) = Len(st.RootKey) + 1
  PROVE  /\ st.RemoteRatchetKey # Header(Peer(p), i).pub
         /\ st.ReceiveChainKey # EmptyChain => st.ReceiveMessageIndex <= Header(Peer(p), i).pn
<1> DEFINE q == Peer(p)
           m == Header(q, i)
<1>1. /\ IInv /\ q \in Party /\ HeadersTrue(q) /\ Following(p, st) /\ WellFormed(st)
  BY Peers DEF StepInv, IInv, StateInv
<1>2. CASE st.ReceiveChainKey = EmptyChain
  BY <1>1, <1>2, NotBegun
<1>3. CASE st.ReceiveChainKey # EmptyChain
  <2>1. PICK l \in DOMAIN sent[q] :
          /\ st.ReceiveChainKey.root = SentKey(q, l).root
          /\ st.RemoteRatchetKey = Header(q, l).pub
          /\ st.ReceiveMessageIndex = Header(q, l).idx + 1
    BY <1>1, <1>3 DEF Following
  <2>2. Len(st.ReceiveChainKey.root) = Len(st.RootKey) - 1 /\ Len(st.RootKey) \in Nat
    BY <1>1, <1>3, Lengths DEF Following
  <2>3. Len(SentKey(q, l).root) = Len(SentKey(q, i).root) - 2
    BY <2>1, <2>2
  <2>4. Header(q, l).idx < m.pn /\ Header(q, l).idx \in Nat /\ m.pn \in Nat
    BY <1>1, <2>3, SentOnChainBefore, HeaderTyped
  <2>5. Len(SentKey(q, l).root) # Len(SentKey(q, i).root)
    BY <2>1, <2>2
  <2>6. Header(q, l).pub # Header(q, i).pub
    BY <1>1, <2>5, HeadersDecide
  <2>. QED BY <2>1, <2>4, <2>6
<1>. QED BY <1>2, <1>3

\* A message on the next chain opens if there is room for the keys of the rest
\* of this chain and of the messages before it on its own.
LEMMA NextChainOpens ==
  ASSUME StepInv, NEW p \in Party, NEW st \in stored[p], NEW i \in DOMAIN sent[Peer(p)],
         HeldFor(st, Header(Peer(p), i)) = {},
         SentKey(Peer(p), i).root =
           Append(st.RootKey, DH(st.LocalRatchetKey, Header(Peer(p), i).pub)),
         Cardinality(st.SkippedMessageKeys)
           + ToSkip(st, Header(Peer(p), i)) <= MaxSkippedKeys,
         NEW fresh \in Key
  PROVE  Opens(st, Header(Peer(p), i), fresh)
<1> DEFINE q == Peer(p)
           m == Header(q, i)
           skipped == SkipMessages(st, m.pn)
           base == Stepped(st, m, fresh)
           at   == SkipMessages(base, m.idx)
<1>1. /\ IInv /\ q \in Party /\ HeadersTrue(q) /\ Following(p, st)
      /\ WellFormed(st) /\ st \in RatchetStates
  BY Peers DEF StepInv, IInv, StateInv, WellFormed
<1>2. /\ m \in Messages /\ m.idx \in Nat /\ m.pn \in Nat
      /\ m.key = SentKey(q, i) /\ m.key \in ChainKeys /\ m.key.step = m.idx
      /\ st.ReceiveMessageIndex \in Nat /\ MaxSkippedKeys \in Nat
  BY <1>1, HeaderTyped, HeadersDecide, RatchetAssumption DEF RatchetStates
<1>3. IsFiniteSet(st.SkippedMessageKeys) /\ Cardinality(st.SkippedMessageKeys) \in Nat
  BY <1>1, FS_CardinalityType DEF Following
<1>4. /\ WellFormed(base) /\ IsFiniteSet(base.SkippedMessageKeys)
      /\ base.ReceiveChainKey = Seed(m.key.root)
      /\ Len(m.key.root) = Len(st.RootKey) + 1
      /\ base.ReceiveMessageIndex = 0
      /\ base.SkippedMessageKeys = skipped.SkippedMessageKeys
  <2> DEFINE root == Append(st.RootKey, DH(st.LocalRatchetKey, m.pub))
  <2>1. m.key.root = root
    BY <1>2
  <2>2. /\ WellFormed(base) /\ IsFiniteSet(base.SkippedMessageKeys)
        /\ base.ReceiveChainKey = Seed(root)
        /\ Len(root) = Len(st.RootKey) + 1
        /\ base.ReceiveMessageIndex = 0
        /\ base.SkippedMessageKeys = skipped.SkippedMessageKeys
    BY <1>1, <1>2, <1>3, SteppedFields
  <2> HIDE DEF root, base, skipped, m
  <2>. QED BY <2>1, <2>2
<1>5. /\ st.RemoteRatchetKey # m.pub
      /\ st.ReceiveChainKey # EmptyChain => st.ReceiveMessageIndex <= m.pn
  BY <1>2, <1>4, NextChain
<1>6. Cardinality(skipped.SkippedMessageKeys) + m.idx <= MaxSkippedKeys
  <2>1. CASE st.ReceiveChainKey = EmptyChain
    <3>1. skipped = st
      BY <2>1 DEF SkipMessages
    <3>2. ToSkip(st, m) = m.idx
      BY <1>5, <2>1 DEF ToSkip
    <3>. QED BY <3>1, <3>2
  <2>2. CASE st.ReceiveChainKey # EmptyChain
    <3>1. ToSkip(st, m) = m.pn - st.ReceiveMessageIndex + m.idx
      BY <1>5, <2>2 DEF ToSkip
    <3>2. Cardinality(st.SkippedMessageKeys) + (m.pn - st.ReceiveMessageIndex) <= MaxSkippedKeys
      <4>1. Cardinality(st.SkippedMessageKeys) + (m.pn - st.ReceiveMessageIndex + m.idx) <= MaxSkippedKeys
        BY <3>1
      <4> HIDE DEF m
      <4>. QED BY <1>2, <1>3, <4>1
    <3>3. skipped = SkippedTo(st, m.pn)
      BY <1>1, <1>2, <1>3, <1>5, <2>2, <3>2, ChainReaches
    <3>4. /\ IsFiniteSet(skipped.SkippedMessageKeys)
          /\ Cardinality(skipped.SkippedMessageKeys)
               <= Cardinality(st.SkippedMessageKeys) + (m.pn - st.ReceiveMessageIndex)
      BY <1>1, <1>2, <1>3, <1>5, <2>2, <3>3, SkippedToBound
    <3>5. Cardinality(skipped.SkippedMessageKeys) \in Nat
      BY <3>4, FS_CardinalityType
    <3>6. Cardinality(st.SkippedMessageKeys) + (m.pn - st.ReceiveMessageIndex + m.idx) <= MaxSkippedKeys
      BY <3>1
    <3> HIDE DEF skipped, m
    <3>. QED BY <1>2, <1>3, <3>4, <3>5, <3>6
  <2>. QED BY <2>1, <2>2
<1>7. base.ReceiveChainKey # EmptyChain
  <2>1. base.ReceiveChainKey.root = m.key.root
    BY <1>4 DEF Seed
  <2>2. Len(m.key.root) >= 2
    BY <1>1, <1>2, HeaderTyped
  <2> HIDE DEF base, m
  <2>. QED BY <2>1, <2>2, EmptyRoot
<1>8. /\ at.ReceiveChainKey \in ChainKeys
      /\ at.ReceiveChainKey.root = base.ReceiveChainKey.root
      /\ at.ReceiveChainKey.step = m.idx
  <2>1. /\ base.ReceiveMessageIndex <= m.idx
        /\ Cardinality(base.SkippedMessageKeys) + (m.idx - base.ReceiveMessageIndex) <= MaxSkippedKeys
    BY <1>2, <1>4, <1>6
  <2> HIDE DEF base
  <2>. QED BY <1>2, <1>4, <1>7, <2>1, ChainReaches
<1>9. ReadyFor(st, m, fresh) = at
  BY <1>5 DEF ReadyFor, Stepped
<1>10. Decrypt(st, m, fresh).key = at.ReceiveChainKey
  BY <1>9 DEF Decrypt, OpenWithChain
<1>11. at.ReceiveChainKey.root = m.key.root
  BY <1>4, <1>8 DEF Seed
<1> HIDE DEF at, m
<1>12. at.ReceiveChainKey = m.key
  BY <1>2, <1>8, <1>11, SameKey
<1>. QED BY <1>10, <1>12 DEF Opens, m

\* The counts place every message that is held or ahead.
LEMMA OpensInStep ==
  ASSUME StepInv
  PROVE  InStep
<1>1. SUFFICES ASSUME NEW p \in Party, NEW st \in stored[p],
                      NEW i \in DOMAIN sent[Peer(p)] \ accepted[p],
                      \/ HeldFor(st, Header(Peer(p), i)) # {}
                      \/ /\ Ahead(st, Header(Peer(p), i))
                         /\ Cardinality(st.SkippedMessageKeys) + ToSkip(st, Header(Peer(p), i))
                              <= MaxSkippedKeys
               PROVE  Opens(st, Header(Peer(p), i), FreshFor(st))
  BY DEF InStep, Header
<1> DEFINE m == Header(Peer(p), i)
<1>2. /\ IInv /\ Peer(p) \in Party /\ HeadersTrue(Peer(p)) /\ Following(p, st)
      /\ st \in RatchetStates
  BY Peers DEF StepInv, IInv, StateInv, WellFormed
<1>3. CASE HeldFor(st, m) # {}
  BY <1>2, <1>3, HeldOpens DEF Following
<1>4. CASE /\ HeldFor(st, m) = {}
           /\ Ahead(st, m)
           /\ Cardinality(st.SkippedMessageKeys) + ToSkip(st, m) <= MaxSkippedKeys
  <2>1. CASE m.pub = st.RemoteRatchetKey /\ m.idx >= st.ReceiveMessageIndex
    <3>1. ToSkip(st, m) = m.idx - st.ReceiveMessageIndex
      <4>1. st.ReceiveChainKey # EmptyChain
        BY <1>2, <2>1, NotBegun
      <4>. QED BY <2>1, <4>1 DEF ToSkip
    <3>. QED BY <1>4, <2>1, <3>1, OnChainOpens
  <2>2. CASE m.key.root = Append(st.RootKey, DH(st.LocalRatchetKey, m.pub))
    <3>1. SentKey(Peer(p), i).root = Append(st.RootKey, DH(st.LocalRatchetKey, m.pub))
      BY <2>2 DEF Header, SentKey
    <3>2. FreshFor(st) \in Key
      BY <1>2, Fresh
    <3>. QED BY <1>4, <3>1, <3>2, NextChainOpens
  <2>. QED BY <1>4, <2>1, <2>2 DEF Ahead
<1>. QED BY <1>1, <1>3, <1>4

\* The two devices stay in step: what is held opens, and what is ahead opens as
\* long as the dictionary has room for the keys on the way, in whatever order
\* the messages arrive (SkipMessages, PerformDhRatchetStep).
THEOREM StaysInStep == Spec => []InStep
<1>1. StepInv => InStep
  BY OpensInStep
<1>2. QED
  BY <1>1, StepsCounted, PTL

-----------------------------------------------------------------------------
(* Room in the dictionary.                                                 *)

\* The messages of device q on the chain of a root, from step a on.
ChainFrom(q, root, a) ==
  {i \in DOMAIN sent[q] : SentKey(q, i).root = root /\ SentKey(q, i).step >= a}

\* What a device has sent is finite.
LEMMA SentFinite ==
  ASSUME IInv, NEW q \in Party
  PROVE  /\ IsFiniteSet(DOMAIN sent[q])
         /\ Cardinality(DOMAIN sent[q]) = Len(sent[q]) /\ Len(sent[q]) \in Nat
<1>1. sent[q] \in Seq(WireMessages)
  BY SentTyped DEF IInv
<1>2. DOMAIN sent[q] = 1 .. Len(sent[q]) /\ Len(sent[q]) \in Nat
  BY <1>1
<1>3. IsFiniteSet(1 .. Len(sent[q])) /\ Cardinality(1 .. Len(sent[q])) = Len(sent[q])
  <2>1. 1 \in Int /\ Len(sent[q]) \in Int
    BY <1>2
  <2>2. /\ IsFiniteSet(1 .. Len(sent[q]))
        /\ Cardinality(1 .. Len(sent[q])) = IF 1 > Len(sent[q]) THEN 0 ELSE Len(sent[q]) - 1 + 1
    BY <2>1, FS_Interval
  <2>. QED BY <1>2, <2>2
<1>. QED BY <1>2, <1>3

\* Steps a to b - 1 of a chain, each with a message, are b - a messages.
LEMMA ChainCount ==
  ASSUME IInv, NEW q \in Party, NEW root, NEW a \in Nat, NEW b \in Nat, a <= b,
         \A s \in Nat : a <= s /\ s < b =>
           \E i \in DOMAIN sent[q] : SentKey(q, i).root = root /\ SentKey(q, i).step = s
  PROVE  /\ IsFiniteSet(ChainFrom(q, root, a))
         /\ Cardinality(ChainFrom(q, root, a)) \in Nat
         /\ Cardinality(ChainFrom(q, root, a)) >= b - a
<1> DEFINE I == ChainFrom(q, root, a)
           S == a .. (b - 1)
           f == [s \in S |-> CHOOSE i \in I : SentKey(q, i).step = s]
<1>1. IsFiniteSet(I) /\ Cardinality(I) \in Nat
  BY SentFinite, FS_Subset, FS_CardinalityType DEF ChainFrom
<1>2. \A s \in S : \E i \in I : SentKey(q, i).step = s
  <2>1. SUFFICES ASSUME NEW s \in S
                 PROVE  \E i \in I : SentKey(q, i).step = s
    OBVIOUS
  <2>2. s \in Nat /\ a <= s /\ s < b
    OBVIOUS
  <2>3. PICK i \in DOMAIN sent[q] : SentKey(q, i).root = root /\ SentKey(q, i).step = s
    BY <2>2
  <2>. QED BY <2>2, <2>3 DEF ChainFrom
<1>3. IsFiniteSet(S) /\ Cardinality(S) = b - a
  <2>1. a \in Int /\ b - 1 \in Int
    OBVIOUS
  <2>2. /\ IsFiniteSet(S)
        /\ Cardinality(S) = IF a > b - 1 THEN 0 ELSE (b - 1) - a + 1
    BY <2>1, FS_Interval
  <2> HIDE DEF S
  <2>. QED BY <2>2
<1> HIDE DEF I, S
<1>4. \A s \in S : f[s] \in I /\ SentKey(q, f[s]).step = s
  BY <1>2
<1> HIDE DEF f
<1>5. f \in [S -> I]
  <2>1. f = [s \in S |-> f[s]]
    BY DEF f
  <2>. QED BY <1>4, <2>1
<1>6. f \in Injection(S, I)
  BY <1>4, <1>5 DEF Injection, IsInjective
<1>7. Cardinality(S) <= Cardinality(I)
  BY <1>1, <1>6, FS_Injection
<1>. QED BY <1>1, <1>3, <1>7 DEF I

\* The held keys and any messages the receive chain has not passed are
\* different messages, so there are no more of them than were sent.
LEMMA Room ==
  ASSUME IInv, NEW p \in Party, HeadersTrue(Peer(p)),
         NEW st, WellFormed(st), Following(p, st),
         NEW I \in SUBSET DOMAIN sent[Peer(p)],
         \A i \in I : ~Past(SentKey(Peer(p), i), st.ReceiveChainKey)
  PROVE  Cardinality(st.SkippedMessageKeys) + Cardinality(I) <= Len(sent[Peer(p)])
<1> DEFINE q == Peer(p)
           D == DOMAIN sent[q]
           S == st.SkippedMessageKeys
           Of(e, i) == e.key = SentKey(q, i) /\ e.pub = Header(q, i).pub /\ e.idx = Header(q, i).idx
           f == [e \in S |-> CHOOSE i \in D : Of(e, i)]
<1>1. /\ q \in Party /\ IsFiniteSet(D) /\ Cardinality(D) = Len(sent[q])
      /\ IsFiniteSet(S)
  BY Peers, SentFinite DEF Following
<1>2. \A e \in S : \E i \in D : Of(e, i)
  BY DEF Following, KeyOfMessage
<1>3. \A e \in S : Past(e.key, st.ReceiveChainKey)
  BY DEF WellFormed
<1>4. S \subseteq SkippedKeys
  BY DEF WellFormed, RatchetStates
<1> HIDE DEF S
<1>5. \A e \in S : f[e] \in D /\ Of(e, f[e])
  <2> HIDE DEF D, Of
  <2>. QED BY <1>2
<1>6. \A e \in S : f[e] \in D \ I
  <2> HIDE DEF f, D
  <2>. QED BY <1>3, <1>5
<1>7. ASSUME NEW d \in S, NEW e \in S, f[d] = f[e]
      PROVE  d = e
  <2>1. d.key = e.key /\ d.pub = e.pub /\ d.idx = e.idx
    <3> HIDE DEF f
    <3>. QED BY <1>5, <1>7
  <2>2. d \in SkippedKeys /\ e \in SkippedKeys
    BY <1>4
  <2>. QED BY <2>1, <2>2 DEF SkippedKeys
<1>8. f \in [S -> D \ I]
  <2>1. f = [e \in S |-> f[e]]
    OBVIOUS
  <2> HIDE DEF f
  <2>. QED BY <1>6, <2>1
<1> HIDE DEF f, D
<1>9. f \in Injection(S, D \ I)
  BY <1>7, <1>8 DEF Injection, IsInjective
<1>10. IsFiniteSet(D \ I) /\ IsFiniteSet(I)
  BY <1>1, FS_Subset DEF D
<1>11. Cardinality(S) <= Cardinality(D \ I)
  BY <1>9, <1>10, FS_Injection
<1>12. Cardinality(D) = Cardinality(D \ I) + Cardinality(I)
  <2>1. D = (D \ I) \cup I /\ (D \ I) \cap I = {}
    BY DEF D
  <2>2. /\ Cardinality((D \ I) \cup I)
             = Cardinality(D \ I) + Cardinality(I) - Cardinality((D \ I) \cap I)
        /\ Cardinality({}) = 0
    BY <1>10, FS_Union, FS_EmptySet
  <2>3. Cardinality(D \ I) \in Nat /\ Cardinality(I) \in Nat
    BY <1>10, FS_CardinalityType
  <2>4. Cardinality(D) = Cardinality((D \ I) \cup I) /\ Cardinality((D \ I) \cap I) = 0
    BY <2>1, <2>2, Zenon
  <2> DEFINE a == Cardinality(D \ I)
             b == Cardinality(I)
  <2>5. a \in Nat /\ b \in Nat /\ Cardinality(D) = a + b - 0
    BY <2>2, <2>3, <2>4
  <2> HIDE DEF a, b
  <2>6. Cardinality(D) = a + b
    BY <2>5
  <2>. QED BY <2>6 DEF a, b
<1>13. /\ Cardinality(S) \in Nat /\ Cardinality(D \ I) \in Nat /\ Cardinality(I) \in Nat
  BY <1>1, <1>10, FS_CardinalityType
<1>. QED BY <1>1, <1>11, <1>12, <1>13 DEF S, q

\* The messages of the receive chain from where it stands are not behind it.
LEMMA ChainNotPast ==
  ASSUME IInv, NEW p \in Party, NEW st, WellFormed(st),
         NEW i \in ChainFrom(Peer(p), st.ReceiveChainKey.root, st.ReceiveMessageIndex)
  PROVE  ~Past(SentKey(Peer(p), i), st.ReceiveChainKey)
<1>1. st.ReceiveChainKey.step = st.ReceiveMessageIndex /\ st.ReceiveMessageIndex \in Nat
  BY DEF WellFormed, RatchetStates
<1>2. Len(st.ReceiveChainKey.root) \in Nat
  BY Lengths
<1>3. i \in DOMAIN sent[Peer(p)] /\ Peer(p) \in Party
  BY Peers DEF ChainFrom
<1>4. SentKey(Peer(p), i).step \in Nat
  BY <1>3, HeaderTyped
<1>. QED BY <1>1, <1>2, <1>4 DEF ChainFrom, Past

-----------------------------------------------------------------------------
(* Nothing lost.                                                           *)

\* A device that has sent has one session.
LEMMA SenderStored ==
  ASSUME IInv, NEW q \in Party, DOMAIN sent[q] # {}
  PROVE  stored[q] # {} /\ Sessions(q) = stored[q]
<1>1. stored[q] # {}
  BY ChannelAssumption DEF IInv, StartInv
<1>. QED BY <1>1 DEF Sessions

\* What a device has sent lies behind its send chain, on roots of its parity.
LEMMA SentBehind ==
  ASSUME StepInv, NEW q \in Party, NEW l \in stored[q], NEW i \in DOMAIN sent[q]
  PROVE  /\ WellFormed(l) /\ Counting(q, l) /\ Len(l.RootKey) \in Nat
         /\ l.SendChainKey.root = l.RootKey
         /\ Past(SentKey(q, i), l.SendChainKey)
         /\ Len(SentKey(q, i).root) <= Len(l.RootKey)
         /\ Len(SentKey(q, i).root) = Len(l.RootKey) =>
              /\ SentKey(q, i).root = l.RootKey
              /\ Header(q, i).pub = l.LocalRatchetKey
<1>1. IInv /\ HeadersTrue(q) /\ Counting(q, l) /\ StateInv(q, l)
  BY DEF StepInv, IInv
<1>2. WellFormed(l) /\ l.SendChainKey.root = l.RootKey /\ Past(SentKey(q, i), l.SendChainKey)
  BY <1>1 DEF StateInv
<1>3. Len(l.RootKey) \in Nat /\ Len(SentKey(q, i).root) \in Nat
  BY <1>1, <1>2, Lengths, HeaderTyped
<1>4. /\ Len(SentKey(q, i).root) <= Len(l.RootKey)
      /\ Len(SentKey(q, i).root) = Len(l.RootKey) => SentKey(q, i).root = l.RootKey
  BY <1>2, <1>3 DEF Past
<1>5. ASSUME Len(SentKey(q, i).root) = Len(l.RootKey)
      PROVE  Header(q, i).pub = l.LocalRatchetKey
  <2>1. KeyOfChain(q, Header(q, i).pub, Len(SentKey(q, i).root)) /\ KeyOfChain(q, l.LocalRatchetKey, Len(l.RootKey))
    BY <1>1 DEF HeadersTrue, Counting
  <2>. QED BY <1>5, <2>1, OneKeyPerChain
<1>. QED BY <1>1, <1>2, <1>3, <1>4, <1>5

\* The roots of two devices that count have different lengths.
LEMMA LengthsDiffer ==
  ASSUME NEW p \in Party, NEW a, NEW b, NEW n, NEW l,
         KeyOfChain(p, a, n), KeyOfChain(Peer(p), b, l)
  PROVE  n # l
<1>1. PICK k \in Nat : n = 2 * k + 2 - Parity(p)
  BY DEF KeyOfChain
<1>2. PICK g \in Nat : l = 2 * g + 2 - Parity(Peer(p))
  BY DEF KeyOfChain
<1> DEFINE c == Parity(p)
<1>3. c \in 0 .. 1 /\ n = 2 * k + 2 - c /\ l = 2 * g + 2 - (1 - c)
  BY <1>1, <1>2, Peers
<1> HIDE DEF c
<1>4. c = 0 \/ c = 1
  BY <1>3
<1>. QED BY <1>3, <1>4

\* Where a message of the peer stands to a session: behind its receive chain,
\* on it, or on the next chain.
LEMMA Position ==
  ASSUME StepInv, OneAhead, NEW p \in Party, NEW i \in DOMAIN sent[Peer(p)],
         NEW st \in Sessions(p), WellFormed(st), Counting(p, st), Following(p, st)
  PROVE  \/ /\ st.ReceiveChainKey # EmptyChain
            /\ Past(SentKey(Peer(p), i), st.ReceiveChainKey)
         \/ /\ st.ReceiveChainKey # EmptyChain
            /\ Header(Peer(p), i).pub = st.RemoteRatchetKey
            /\ i \in ChainFrom(Peer(p), st.ReceiveChainKey.root, st.ReceiveMessageIndex)
            /\ Header(Peer(p), i).idx >= st.ReceiveMessageIndex
         \/ SentKey(Peer(p), i).root = Append(st.RootKey, DH(st.LocalRatchetKey, Header(Peer(p), i).pub))
<1> DEFINE q == Peer(p)
           k == SentKey(q, i)
           n == Len(st.RootKey)
<1>1. /\ IInv /\ q \in Party /\ HeadersTrue(q) /\ n \in Nat
      /\ k \in ChainKeys /\ Len(k.root) \in Nat /\ Len(k.root) >= 2 /\ k.step \in Nat
      /\ k.step = Header(q, i).idx
  <2>1. IInv /\ q \in Party /\ HeadersTrue(q)
    BY Peers DEF StepInv
  <2>2. k.step = Header(q, i).idx
    BY <2>1, HeadersDecide
  <2>. QED BY <2>1, <2>2, HeaderTyped, Lengths
<1>2. PICK l \in stored[q] : AheadOf(st, l) \/ AheadOf(l, st)
  <2>1. stored[q] # {} /\ Sessions(q) = stored[q]
    BY <1>1, SenderStored
  <2>. QED BY <1>1, <2>1 DEF OneAhead
<1>3. /\ WellFormed(l) /\ Len(l.RootKey) \in Nat
      /\ Len(k.root) <= Len(l.RootKey)
      /\ Len(k.root) = Len(l.RootKey) => k.root = l.RootKey /\ Header(q, i).pub = l.LocalRatchetKey
  BY <1>1, SentBehind
<1>4. Len(k.root) # n
  <2>1. KeyOfChain(p, st.LocalRatchetKey, n) /\ KeyOfChain(q, Header(q, i).pub, Len(k.root))
    BY <1>1 DEF Counting, HeadersTrue
  <2>. QED BY <2>1, LengthsDiffer
<1>5. /\ st.RootKey \in RootKeys /\ l.RootKey \in RootKeys
      /\ DH(st.LocalRatchetKey, l.LocalRatchetKey) \in SharedSecret \cup SUBSET Key
      /\ DH(st.LocalRatchetKey, l.LocalRatchetKey) = DH(l.LocalRatchetKey, st.LocalRatchetKey)
  BY <1>3 DEF WellFormed, RatchetStates, DH
<1>6. Len(l.RootKey) = n + 1 \/ Len(l.RootKey) + 1 = n
  BY <1>2, <1>5 DEF AheadOf, RootKeys
<1>7. CASE Len(k.root) <= n - 1
  <2>1. st.ReceiveChainKey # EmptyChain
    <3>1. SUFFICES ASSUME st.ReceiveChainKey = EmptyChain PROVE FALSE
      OBVIOUS
    <3>2. n = 2 - Parity(p)
      BY <1>1, <3>1, NotBegun
    <3>3. Parity(p) \in 0 .. 1
      BY Peers
    <3> HIDE DEF n
    <3>. QED BY <1>1, <1>7, <3>2, <3>3
  <2>2. PICK w \in DOMAIN sent[q] :
          /\ st.ReceiveChainKey.root = SentKey(q, w).root
          /\ st.RemoteRatchetKey = Header(q, w).pub
    BY <2>1 DEF Following
  <2>3. Len(st.ReceiveChainKey.root) = n - 1
    BY <2>1 DEF Following
  <2>4. CASE Len(k.root) < n - 1
    BY <2>1, <2>3, <2>4 DEF Past
  <2>5. CASE Len(k.root) = n - 1
    <3>1. Header(q, i).pub = Header(q, w).pub /\ k.root = SentKey(q, w).root
      <4>1. Len(SentKey(q, i).root) = Len(SentKey(q, w).root)
        BY <2>2, <2>3, <2>5
      <4>. QED BY <1>1, <4>1, HeadersDecide
    <3>2. st.ReceiveChainKey.step = st.ReceiveMessageIndex /\ st.ReceiveMessageIndex \in Nat
      BY DEF WellFormed, RatchetStates
    <3>3. CASE k.step < st.ReceiveMessageIndex
      BY <2>1, <2>2, <3>1, <3>2, <3>3 DEF Past
    <3>4. CASE k.step >= st.ReceiveMessageIndex
      BY <1>1, <2>1, <2>2, <3>1, <3>4 DEF ChainFrom
    <3>. QED BY <1>1, <3>2, <3>3, <3>4
  <2>. QED BY <1>1, <1>7, <2>4, <2>5
<1>8. CASE ~(Len(k.root) <= n - 1)
  <2>1. Len(k.root) = n + 1 /\ Len(l.RootKey) = n + 1
    BY <1>1, <1>3, <1>4, <1>6, <1>8
  <2>2. AheadOf(l, st)
    <3>1. AheadOf(st, l) => n = Len(l.RootKey) + 1
      BY <1>5 DEF AheadOf, RootKeys
    <3>. QED BY <1>1, <1>2, <2>1, <3>1
  <2>3. k.root = Append(st.RootKey, DH(l.LocalRatchetKey, st.LocalRatchetKey))
    BY <1>3, <2>1, <2>2 DEF AheadOf
  <2>4. Header(q, i).pub = l.LocalRatchetKey
    BY <1>3, <2>1
  <2>. QED BY <1>5, <2>3, <2>4
<1>. QED BY <1>7, <1>8

\* A receive chain that is kept on a ratchet step ends where pn says, as long as
\* the dictionary can hold all that was sent.
LEMMA ChainEnds ==
  ASSUME StepInv, NEW p \in Party, NEW i \in DOMAIN sent[Peer(p)],
         Len(sent[Peer(p)]) <= MaxSkippedKeys,
         NEW st, WellFormed(st), Following(p, st), st.ReceiveChainKey # EmptyChain,
         Len(SentKey(Peer(p), i).root) = Len(st.RootKey) + 1
  PROVE  /\ st.ReceiveMessageIndex <= Header(Peer(p), i).pn
         /\ \A s \in Nat : st.ReceiveMessageIndex <= s /\ s < Header(Peer(p), i).pn =>
              \E j \in DOMAIN sent[Peer(p)] :
                SentKey(Peer(p), j).root = st.ReceiveChainKey.root /\ SentKey(Peer(p), j).step = s
         /\ SkipMessages(st, Header(Peer(p), i).pn) = SkippedTo(st, Header(Peer(p), i).pn)
         /\ \A j \in DOMAIN sent[Peer(p)] :
              SentKey(Peer(p), j).root = st.ReceiveChainKey.root
                => Header(Peer(p), j).idx < Header(Peer(p), i).pn
<1> DEFINE q == Peer(p)
           m == Header(q, i)
           from == st.ReceiveMessageIndex
           root == st.ReceiveChainKey.root
<1>1. /\ IInv /\ q \in Party /\ HeadersTrue(q)
      /\ m.pn \in Nat /\ from \in Nat /\ MaxSkippedKeys \in Nat
  <2>1. IInv /\ q \in Party /\ HeadersTrue(q)
    BY Peers DEF StepInv
  <2>. QED BY <2>1, HeaderTyped, RatchetAssumption DEF WellFormed, RatchetStates
<1>2. PICK w \in DOMAIN sent[q] :
        /\ root = SentKey(q, w).root
        /\ from = Header(q, w).idx + 1
  BY DEF Following
<1>3. \A j \in DOMAIN sent[q] : SentKey(q, j).root = root => Len(SentKey(q, j).root) = Len(SentKey(q, i).root) - 2
  <2>1. Len(root) = Len(st.RootKey) - 1 /\ Len(st.RootKey) \in Nat
    BY Lengths DEF Following
  <2>2. Len(root) = Len(SentKey(q, i).root) - 2
    BY <2>1
  <2> HIDE DEF root
  <2>. QED BY <2>2
<1>4. \A j \in DOMAIN sent[q] : SentKey(q, j).root = root => Header(q, j).idx < m.pn
  <2>1. SUFFICES ASSUME NEW j \in DOMAIN sent[q], SentKey(q, j).root = root
                 PROVE  Header(q, j).idx < Header(q, i).pn
    OBVIOUS
  <2>2. Len(SentKey(q, j).root) = Len(SentKey(q, i).root) - 2
    BY <1>3, <2>1
  <2>. QED BY <1>1, <2>2, SentOnChainBefore
<1>5. from <= m.pn
  BY <1>1, <1>2, <1>4, HeaderTyped
<1>6. \A s \in Nat : s < m.pn =>
        \E j \in DOMAIN sent[q] : SentKey(q, j).root = root /\ SentKey(q, j).step = s
  <2>1. Len(SentKey(q, w).root) = Len(SentKey(q, i).root) - 2
    BY <1>2, <1>3
  <2>2. \A s \in Nat : s < Header(q, i).pn =>
          \E l \in DOMAIN sent[q] :
            /\ SentKey(q, l).root = SentKey(q, w).root /\ Header(q, l).pub = Header(q, w).pub
            /\ SentKey(q, l).step = s /\ Header(q, l).idx = s
    BY <1>1, <2>1, SentOnChainBefore
  <2>. QED BY <1>2, <2>2
<1> DEFINE I == ChainFrom(q, root, from)
<1>7. Cardinality(I) \in Nat /\ Cardinality(I) >= m.pn - from
  <2> HIDE DEF m, from, root
  <2>. QED BY <1>1, <1>5, <1>6, ChainCount
<1>8. Cardinality(st.SkippedMessageKeys) + Cardinality(I) <= Len(sent[q])
  <2>1. I \in SUBSET DOMAIN sent[q]
    BY DEF ChainFrom
  <2>2. \A j \in I : ~Past(SentKey(q, j), st.ReceiveChainKey)
    BY <1>1, ChainNotPast
  <2> HIDE DEF I
  <2>. QED BY <1>1, <2>1, <2>2, Room
<1>9. /\ Cardinality(st.SkippedMessageKeys) \in Nat /\ Len(sent[q]) \in Nat
      /\ IsFiniteSet(st.SkippedMessageKeys)
  BY <1>1, FS_CardinalityType, SentFinite DEF Following
<1>10. Cardinality(st.SkippedMessageKeys) + (m.pn - from) <= MaxSkippedKeys
  <2> HIDE DEF I, m, from
  <2>. QED BY <1>1, <1>5, <1>7, <1>8, <1>9
<1>11. SkipMessages(st, m.pn) = SkippedTo(st, m.pn)
  BY <1>1, <1>5, <1>9, <1>10, ChainReaches
<1>. QED BY <1>4, <1>5, <1>6, <1>11

\* Opening on a chain leaves a key for what the chain has passed.
LEMMA ChainPasses ==
  ASSUME IInv, NEW p \in Party, HeadersTrue(Peer(p)),
         NEW base, WellFormed(base),
         NEW i \in DOMAIN sent[Peer(p)],
         base.RemoteRatchetKey = Header(Peer(p), i).pub,
         NEW r, OpensOnChain(base, Header(Peer(p), i), r),
         NEW j \in DOMAIN sent[Peer(p)], j # i,
         Past(SentKey(Peer(p), j), r.ReceiveChainKey),
         Past(SentKey(Peer(p), j), base.ReceiveChainKey) => HeldFor(base, Header(Peer(p), j)) # {}
  PROVE  HeldFor(r, Header(Peer(p), j)) # {}
<1> DEFINE q == Peer(p)
           m == Header(q, i)
           k == SentKey(q, j)
           at == SkippedTo(base, m.key.step)
<1>1. /\ q \in Party
      /\ m.key = SentKey(q, i) /\ m.key.step \in Nat /\ Len(m.key.root) \in Nat
      /\ Header(q, j) \in Messages /\ Len(k.root) \in Nat /\ k.step \in Nat
      /\ k.step = Header(q, j).idx
  <2>1. q \in Party /\ HeadersTrue(q)
    BY Peers
  <2>2. k.step = Header(q, j).idx
    BY <2>1, HeadersDecide
  <2>. QED BY <2>1, <2>2, HeaderTyped
<1>2. /\ m.key.root = base.ReceiveChainKey.root
      /\ base.ReceiveMessageIndex <= m.key.step
      /\ r.ReceiveChainKey = Advance(m.key, 1)
      /\ r.SkippedMessageKeys = at.SkippedMessageKeys
  BY DEF OpensOnChain
<1>3. /\ base.ReceiveChainKey.step = base.ReceiveMessageIndex
      /\ base.ReceiveMessageIndex \in Nat
  BY DEF WellFormed, RatchetStates
<1>4. \/ Len(k.root) < Len(m.key.root)
      \/ k.root = m.key.root /\ k.step < m.key.step + 1
  BY <1>2 DEF Past, Advance
<1>5. HeldFor(r, Header(q, j)) = HeldFor(at, Header(q, j))
  BY <1>2 DEF HeldFor
<1>6. CASE Past(k, base.ReceiveChainKey)
  <2>1. HeldFor(base, Header(q, j)) # {}
    BY <1>6
  <2>2. HeldFor(at, Header(q, j)) # {}
    BY <1>1, <1>2, <2>1, SkippedEntries
  <2>. QED BY <1>5, <2>2
<1>7. CASE ~Past(k, base.ReceiveChainKey)
  <2>1. k.root = m.key.root /\ k.step < m.key.step + 1
    BY <1>2, <1>4, <1>7 DEF Past
  <2>2. base.ReceiveMessageIndex <= k.step
    BY <1>1, <1>2, <1>3, <1>7, <2>1 DEF Past
  <2>3. Header(q, j).pub = base.RemoteRatchetKey
    BY <1>1, <2>1, HeadersDecide
  <2>4. k.step # m.key.step
    <3>1. m.key.step = Header(q, i).idx
      BY <1>1, HeadersDecide
    <3>2. Header(q, j).pub = Header(q, i).pub
      BY <2>3
    <3>3. SUFFICES ASSUME k.step = m.key.step PROVE FALSE
      OBVIOUS
    <3>4. Header(q, j).idx = Header(q, i).idx
      BY <1>1, <3>1, <3>3
    <3>5. i = j
      BY <1>1, <3>2, <3>4, HeadersDecide
    <3>. QED BY <3>5
  <2>5. Header(q, j).idx < m.key.step /\ base.ReceiveMessageIndex <= Header(q, j).idx
    BY <1>1, <2>1, <2>2, <2>4
  <2>6. HeldFor(at, Header(q, j)) # {}
    BY <1>1, <1>2, <2>3, <2>5, SkippedEntries
  <2>. QED BY <1>5, <2>6
<1>. QED BY <1>6, <1>7

\* A session that is not saved yet has passed nothing.
LEMMA SessionPassed ==
  ASSUME SyncInv, NEW p \in Party, NEW i \in DOMAIN sent[Peer(p)],
         NEW st \in SessionFor(p, sent[Peer(p)][i])
  PROVE  Passed(p, st)
<1>1. CASE st \in stored[p]
  BY <1>1 DEF SyncInv
<1>2. CASE st \notin stored[p]
  <2>1. st = ResponderState
    BY <1>2 DEF SessionFor, ResponderState
  <2>2. st.ReceiveChainKey = EmptyChain
    BY <2>1, InitialStates
  <2>3. IInv /\ Peer(p) \in Party
    BY Peers DEF SyncInv, StepInv
  <2>4. \A j \in DOMAIN sent[Peer(p)] : ~Past(SentKey(Peer(p), j), st.ReceiveChainKey)
    <3>1. \A j \in DOMAIN sent[Peer(p)] : Len(SentKey(Peer(p), j).root) >= 2 /\ Len(SentKey(Peer(p), j).root) \in Nat
      BY <2>3, HeaderTyped
    <3>2. Len(st.ReceiveChainKey.root) = 0
      BY <2>2, EmptyRoot
    <3>. QED BY <3>1, <3>2 DEF Past
  <2>. QED BY <2>4 DEF Passed
<1>. QED BY <1>1, <1>2

\* Opening a message leaves a key for everything passed and not opened.
LEMMA OpenPasses ==
  ASSUME SyncInv, NEW p \in Party, NEW i \in DOMAIN sent[Peer(p)],
         NEW st \in SessionFor(p, sent[Peer(p)][i]),
         Opens(st, Header(Peer(p), i), FreshFor(st)),
         Len(sent[Peer(p)]) <= MaxSkippedKeys,
         NEW j \in DOMAIN sent[Peer(p)], j \notin accepted[p], j # i,
         Past(SentKey(Peer(p), j), Decrypt(st, Header(Peer(p), i), FreshFor(st)).state.ReceiveChainKey)
  PROVE  HeldFor(Decrypt(st, Header(Peer(p), i), FreshFor(st)).state, Header(Peer(p), j)) # {}
<1> DEFINE q == Peer(p)
           m == Header(q, i)
           fresh == FreshFor(st)
           r == Decrypt(st, m, fresh).state
           h == Header(q, j)
           k == SentKey(q, j)
<1>1. /\ StepInv /\ OneAhead /\ IInv /\ q \in Party /\ HeadersTrue(q)
      /\ WellFormed(st) /\ st \in Sessions(p) /\ Counting(p, st) /\ Following(p, st)
      /\ IsFiniteSet(st.SkippedMessageKeys)
  <2>1. StepInv /\ OneAhead /\ IInv /\ q \in Party /\ HeadersTrue(q)
    BY Peers DEF SyncInv, StepInv
  <2>2. WellFormed(st) /\ st \in Sessions(p) /\ Counting(p, st) /\ Following(p, st)
    BY <2>1, SessionSteps
  <2>. QED BY <2>1, <2>2 DEF Following
<1>2. /\ m \in Messages /\ m.key = SentKey(q, i) /\ Len(m.key.root) >= 2
      /\ h \in Messages /\ h.idx \in Nat /\ Len(k.root) \in Nat /\ k.step \in Nat
      /\ fresh \in Key
  BY <1>1, HeaderTyped, Fresh DEF WellFormed
<1>3. Past(k, st.ReceiveChainKey) => HeldFor(st, h) # {}
  BY SessionPassed DEF Passed
<1>4. \/ /\ HeldFor(st, m) # {}
         /\ r.ReceiveChainKey = st.ReceiveChainKey
         /\ r.SkippedMessageKeys = st.SkippedMessageKeys \ HeldFor(st, m)
      \/ /\ st.RemoteRatchetKey = m.pub
         /\ OpensOnChain(st, m, r)
      \/ OpensOnChain(Stepped(st, m, fresh), m, r)
  BY <1>1, <1>2, DecryptWays
<1>5. CASE /\ HeldFor(st, m) # {}
           /\ r.ReceiveChainKey = st.ReceiveChainKey
           /\ r.SkippedMessageKeys = st.SkippedMessageKeys \ HeldFor(st, m)
  <2>1. ~(h.pub = m.pub /\ h.idx = m.idx)
    BY <1>1, HeadersDecide
  <2>2. PICK e \in HeldFor(st, h) : TRUE
    BY <1>3, <1>5
  <2> HIDE DEF h, m, r
  <2>3. e \in st.SkippedMessageKeys /\ e.pub = h.pub /\ e.idx = h.idx
    BY <2>2 DEF HeldFor
  <2>4. e \in HeldFor(r, h)
    BY <1>5, <2>1, <2>3 DEF HeldFor
  <2>. QED BY <2>4 DEF h, m, r
<1>6. CASE /\ st.RemoteRatchetKey = m.pub
           /\ OpensOnChain(st, m, r)
  BY <1>1, <1>3, <1>6, ChainPasses
<1>7. CASE OpensOnChain(Stepped(st, m, fresh), m, r)
  <2> DEFINE base == Stepped(st, m, fresh)
             root == Append(st.RootKey, DH(st.LocalRatchetKey, m.pub))
             skipped == SkipMessages(st, m.pn)
  <2>1. /\ WellFormed(base)
        /\ Len(root) = Len(st.RootKey) + 1
        /\ base.ReceiveChainKey = Seed(root)
        /\ base.RemoteRatchetKey = m.pub
        /\ base.SkippedMessageKeys = skipped.SkippedMessageKeys
    BY <1>1, <1>2, SteppedFields
  <2> HIDE DEF base, root
  <2>2. m.key.root = root
    BY <1>7, <2>1 DEF OpensOnChain, Seed, base
  <2>3. Len(SentKey(q, i).root) = Len(st.RootKey) + 1 /\ Len(st.RootKey) \in Nat
    BY <1>1, <1>2, <2>1, <2>2, Lengths
  <2>4. ASSUME Past(k, base.ReceiveChainKey)
        PROVE  HeldFor(base, h) # {}
    <3>1. Len(k.root) < Len(st.RootKey) + 1
      <4>1. base.ReceiveChainKey.root = root /\ base.ReceiveChainKey.step = 0
        BY <2>1 DEF Seed
      <4>. QED BY <1>2, <2>1, <2>4, <4>1 DEF Past
    <3>2. k.root # Append(st.RootKey, DH(st.LocalRatchetKey, h.pub))
      <4>1. st.RootKey \in RootKeys /\ DH(st.LocalRatchetKey, h.pub) \in SharedSecret \cup SUBSET Key
        BY <1>1, <1>2 DEF WellFormed, RatchetStates, DH, Messages
      <4>2. Len(Append(st.RootKey, DH(st.LocalRatchetKey, h.pub))) = Len(st.RootKey) + 1
        BY <4>1 DEF RootKeys
      <4>. QED BY <2>3, <3>1, <4>2
    <3>3. \/ /\ st.ReceiveChainKey # EmptyChain
             /\ Past(k, st.ReceiveChainKey)
          \/ /\ st.ReceiveChainKey # EmptyChain
             /\ h.pub = st.RemoteRatchetKey
             /\ j \in ChainFrom(q, st.ReceiveChainKey.root, st.ReceiveMessageIndex)
             /\ h.idx >= st.ReceiveMessageIndex
      BY <1>1, <3>2, Position
    <3>4. st.ReceiveChainKey # EmptyChain
      BY <3>3
    <3>5. /\ st.ReceiveMessageIndex <= m.pn
          /\ skipped = SkippedTo(st, m.pn)
          /\ SentKey(q, j).root = st.ReceiveChainKey.root => h.idx < m.pn
      BY <1>1, <2>3, <3>4, ChainEnds
    <3>6. m.pn \in Nat
      BY <1>2 DEF Messages
    <3>7. HeldFor(skipped, h) # {}
      <4>1. CASE Past(k, st.ReceiveChainKey)
        BY <1>1, <1>2, <1>3, <3>5, <3>6, <4>1, SkippedEntries
      <4>2. CASE /\ h.pub = st.RemoteRatchetKey
                 /\ j \in ChainFrom(q, st.ReceiveChainKey.root, st.ReceiveMessageIndex)
                 /\ h.idx >= st.ReceiveMessageIndex
        <5>1. h.idx < m.pn
          BY <3>5, <4>2 DEF ChainFrom
        <5>. QED BY <1>1, <1>2, <3>5, <3>6, <4>2, <5>1, SkippedEntries
      <4>. QED BY <3>3, <4>1, <4>2
    <3>8. HeldFor(base, h) = HeldFor(skipped, h)
      BY <2>1 DEF HeldFor
    <3>. QED BY <3>7, <3>8
  <2>. QED BY <1>1, <1>7, <2>1, <2>4, ChainPasses DEF base
<1>. QED BY <1>4, <1>5, <1>6, <1>7

\* A party is the initiator or the responder.
LEMMA TwoParties ==
  /\ \A p \in Party : p = Initiator \/ p = Responder
  /\ Peer(Initiator) = Responder /\ Peer(Responder) = Initiator
  /\ Initiator \in Party /\ Responder \in Party
BY ChannelAssumption DEF Peer

\* After X3DH the initiator is a ratchet step ahead of the session the
\* responder will build.
LEMMA InitSync == Init => SyncInv
<1> SUFFICES ASSUME Init PROVE SyncInv
  OBVIOUS
<1>1. StepInv
  BY InitSteps
<1>2. /\ stored = [p \in Party |-> IF p = Initiator THEN {InitialState} ELSE {}]
      /\ \A p \in Party : sent[p] = << >>
  BY DEF Init, InitialState
<1>3. AheadOf(InitialState, ResponderState)
  <2>1. /\ InitialState.RootKey = <<Secret, DH(KeyPair(Initiator, 0), SignedPreKey)>>
        /\ InitialState.LocalRatchetKey = KeyPair(Initiator, 0)
    BY DEF InitialState, InitializeAsInitiator
  <2>2. ResponderState.RootKey = <<Secret>> /\ ResponderState.LocalRatchetKey = SignedPreKey
    BY DEF ResponderState, InitializeAsResponder
  <2>3. Append(<<Secret>>, DH(KeyPair(Initiator, 0), SignedPreKey))
          = <<Secret, DH(KeyPair(Initiator, 0), SignedPreKey)>>
    BY AppendToOne
  <2>. QED BY <2>1, <2>2, <2>3 DEF AheadOf
<1>4. Sessions(Initiator) = {InitialState} /\ Sessions(Responder) = {ResponderState}
  BY <1>2, TwoParties, ChannelAssumption DEF Sessions
<1>5. OneAhead
  <2>1. SUFFICES ASSUME NEW p \in Party, NEW s \in Sessions(p), NEW l \in Sessions(Peer(p))
                 PROVE  AheadOf(s, l) \/ AheadOf(l, s)
    BY DEF OneAhead
  <2>2. CASE p = Initiator
    BY <1>3, <1>4, <2>2, TwoParties
  <2>3. CASE p = Responder
    BY <1>3, <1>4, <2>3, TwoParties
  <2>. QED BY <2>2, <2>3, TwoParties
<1>6. ASSUME NEW p \in Party, NEW st \in stored[p] PROVE Passed(p, st)
  <2>1. DOMAIN sent[Peer(p)] = {}
    BY <1>2, Peers
  <2>. QED BY <2>1 DEF Passed
<1>. QED BY <1>1, <1>5, <1>6 DEF SyncInv

\* A state is ahead of another by its root and the two ratchet keys only.
LEMMA SameAhead ==
  ASSUME NEW s, NEW r, NEW l, r.RootKey = s.RootKey, r.LocalRatchetKey = s.LocalRatchetKey
  PROVE  /\ AheadOf(s, l) => AheadOf(r, l)
         /\ AheadOf(l, s) => AheadOf(l, r)
BY DEF AheadOf

\* Sending keeps one device a step ahead, and its message is ahead of the
\* receiver.
LEMMA SendSync ==
  ASSUME SyncInv, NEW p \in Party, Send(p)
  PROVE  SyncInv'
<1>1. StepInv /\ StepInv' /\ IInv /\ OneAhead
  BY SendSteps DEF SyncInv, StepInv
<1>2. PICK st \in stored[p], n \in Nat :
        /\ DOMAIN sent'[p] = DOMAIN sent[p] \cup {n} /\ n \notin DOMAIN sent[p]
        /\ \A i \in DOMAIN sent[p] : sent'[p][i] = sent[p][i]
        /\ sent'[p][n].ratchet = SealedMessage(st)
        /\ Len(sent'[p]) = Len(sent[p]) + 1 /\ Len(sent[p]) \in Nat
        /\ \A q \in Party : q # p => sent'[q] = sent[q] /\ stored'[q] = stored[q]
        /\ stored'[p] = {AfterEncrypt(st)}
        /\ accepted' = accepted
  BY <1>1, SendEffect
<1>3. st \in RatchetStates /\ WellFormed(st)
  BY <1>1 DEF IInv, StateInv, WellFormed
<1>4. PICK r : r = AfterEncrypt(st)
  OBVIOUS
<1>5. /\ r.RootKey = st.RootKey /\ r.LocalRatchetKey = st.LocalRatchetKey
      /\ r.ReceiveChainKey = st.ReceiveChainKey
      /\ r.SkippedMessageKeys = st.SkippedMessageKeys
  BY <1>3, <1>4, EncryptFields
<1>6. /\ Sessions(p)' = {r} /\ st \in Sessions(p)
      /\ \A q \in Party : q # p => Sessions(q)' = Sessions(q)
  BY <1>2, <1>4 DEF Sessions
<1>7. \A q \in Party : Peer(q) \in Party /\ Peer(q) # q /\ Peer(Peer(q)) = q
  BY Peers
<1>8. \A l \in Sessions(Peer(p)) : AheadOf(r, l) \/ AheadOf(l, r)
  <2>1. \A l \in Sessions(Peer(p)) : AheadOf(st, l) \/ AheadOf(l, st)
    BY <1>1, <1>6 DEF OneAhead
  <2>. QED BY <1>5, <2>1, SameAhead
<1>9. OneAhead'
  <2>1. SUFFICES ASSUME NEW q \in Party, NEW s \in Sessions(q)', NEW l \in Sessions(Peer(q))'
                 PROVE  AheadOf(s, l) \/ AheadOf(l, s)
    BY DEF OneAhead, AheadOf
  <2>2. CASE q = p
    <3>1. s = r /\ l \in Sessions(Peer(p))
      BY <1>6, <1>7, <2>2
    <3>. QED BY <1>8, <3>1
  <2>3. CASE q # p
    <3>1. Peer(q) = p /\ q = Peer(p)
      BY <2>3, TwoParties
    <3>2. l = r /\ s \in Sessions(Peer(p))
      BY <1>6, <2>3, <3>1
    <3>. QED BY <1>8, <3>2
  <2>. QED BY <2>2, <2>3
<1>10. ASSUME NEW q \in Party, NEW s \in stored'[q]
       PROVE  Passed(q, s)'
  <2>1. CASE q = p
    <3>1. s = r /\ Passed(p, st)
      BY <1>2, <1>4, <2>1 DEF SyncInv
    <3>2. sent'[Peer(p)] = sent[Peer(p)] /\ accepted' = accepted
      BY <1>2, <1>7
    <3>3. Passed(p, r)
      BY <1>5, <3>1 DEF Passed, HeldFor
    <3>. QED BY <2>1, <3>1, <3>2, <3>3 DEF Passed, SentKey, Header
  <2>2. CASE q # p
    <3>1. Peer(q) = p
      BY <2>2, TwoParties
    <3>2. s \in stored[q] /\ Passed(q, s) /\ Following(q, s) /\ WellFormed(s)
      BY <1>1, <1>2, <2>2 DEF SyncInv, StepInv, IInv, StateInv
    <3>3. ~Past(st.SendChainKey, s.ReceiveChainKey)
      <4>1. /\ st.SendChainKey.root = st.RootKey /\ Len(st.RootKey) \in Nat /\ Len(st.RootKey) >= 2
            /\ st.SendChainKey.step \in Nat
        BY <1>1, <1>3, Lengths DEF IInv, StateInv, Own
      <4>2. CASE s.ReceiveChainKey = EmptyChain
        <5>1. Len(s.ReceiveChainKey.root) = 0
          BY <4>2, EmptyRoot
        <5>. QED BY <4>1, <5>1 DEF Past
      <4>3. CASE s.ReceiveChainKey # EmptyChain
        <5>1. PICK w \in DOMAIN sent[p] :
                /\ s.ReceiveChainKey.root = SentKey(p, w).root
                /\ s.ReceiveMessageIndex = Header(p, w).idx + 1
          BY <3>1, <3>2, <4>3 DEF Following
        <5>2. Past(SentKey(p, w), st.SendChainKey)
          BY <1>1 DEF IInv, StateInv
        <5>3. SentKey(p, w).step = Header(p, w).idx /\ HeadersTrue(p)
          BY <1>1, HeadersDecide DEF StepInv
        <5>4. s.ReceiveChainKey.step = s.ReceiveMessageIndex
          BY <3>2 DEF WellFormed
        <5>5. SentKey(p, w).step \in Nat /\ Len(SentKey(p, w).root) \in Nat
          BY <1>1, HeaderTyped
        <5>. QED BY <4>1, <5>1, <5>2, <5>3, <5>4, <5>5 DEF Past
      <4>. QED BY <4>2, <4>3
    <3>4. PICK ms : ms = sent'[p]
      OBVIOUS
    <3>5. ASSUME Len(ms) <= MaxSkippedKeys, NEW i \in DOMAIN ms \ accepted[q],
                 Past(ms[i].ratchet.key, s.ReceiveChainKey)
          PROVE  HeldFor(s, ms[i].ratchet) # {}
      <4>1. CASE i \in DOMAIN sent[p]
        <5>1. ms[i] = sent[p][i]
          BY <1>2, <3>4, <4>1
        <5>2. Len(sent[p]) <= MaxSkippedKeys
          BY <1>2, <3>4, <3>5, RatchetAssumption
        <5>3. Past(SentKey(p, i), s.ReceiveChainKey)
          BY <3>5, <5>1 DEF SentKey
        <5>4. HeldFor(s, Header(p, i)) # {}
          BY <3>1, <3>2, <3>5, <4>1, <5>2, <5>3 DEF Passed
        <5>. QED BY <5>1, <5>4 DEF Header
      <4>2. CASE i = n
        <5>1. ms[i].ratchet.key = st.SendChainKey
          BY <1>2, <3>4, <4>2 DEF SealedMessage
        <5>. QED BY <3>3, <3>5, <5>1
      <4>. QED BY <1>2, <3>4, <4>1, <4>2
    <3>. QED BY <1>2, <3>1, <3>4, <3>5 DEF Passed, SentKey, Header
  <2>. QED BY <2>1, <2>2
<1>. QED BY <1>1, <1>9, <1>10 DEF SyncInv

\* A ratchet step takes a device a step ahead of the peer that was ahead of it.
LEMMA OpenAhead ==
  ASSUME SyncInv, NEW p \in Party, NEW i \in DOMAIN sent[Peer(p)],
         NEW st \in SessionFor(p, sent[Peer(p)][i]),
         Opens(st, Header(Peer(p), i), FreshFor(st)),
         NEW l \in Sessions(Peer(p))
  PROVE  LET r == Decrypt(st, Header(Peer(p), i), FreshFor(st)).state
         IN AheadOf(r, l) \/ AheadOf(l, r)
<1> DEFINE q == Peer(p)
           m == Header(q, i)
           fresh == FreshFor(st)
           r == Decrypt(st, m, fresh).state
<1>1. /\ StepInv /\ OneAhead /\ IInv /\ q \in Party /\ HeadersTrue(q)
      /\ WellFormed(st) /\ st \in Sessions(p) /\ Counting(p, st)
      /\ IsFiniteSet(st.SkippedMessageKeys)
  <2>1. StepInv /\ OneAhead /\ IInv /\ q \in Party /\ HeadersTrue(q)
    BY Peers DEF SyncInv, StepInv
  <2>2. WellFormed(st) /\ st \in Sessions(p) /\ Counting(p, st) /\ Following(p, st)
    BY <2>1, SessionSteps
  <2>. QED BY <2>1, <2>2 DEF Following
<1>2. /\ m \in Messages /\ m.key = SentKey(q, i) /\ Len(m.key.root) >= 2
      /\ fresh \in Key
  BY <1>1, HeaderTyped, Fresh DEF WellFormed
<1>3. AheadOf(st, l) \/ AheadOf(l, st)
  BY <1>1 DEF OneAhead
<1>4. l \in stored[q]
  BY <1>1, SenderStored
<1>5. SameSending(st, r) \/ OpensOnChain(Stepped(st, m, fresh), m, r)
  <2>1. OpensOnChain(st, m, r) => SameSending(st, r)
    BY DEF OpensOnChain
  <2>2. Opens(st, m, fresh)
    OBVIOUS
  <2> HIDE DEF m, fresh, q
  <2>. QED BY <1>1, <1>2, <2>1, <2>2, DecryptWays
<1>6. CASE SameSending(st, r)
  BY <1>3, <1>6, SameAhead DEF SameSending
<1>7. CASE OpensOnChain(Stepped(st, m, fresh), m, r)
  <2> DEFINE base == Stepped(st, m, fresh)
             root == Append(st.RootKey, DH(st.LocalRatchetKey, m.pub))
  <2>1. /\ base.RootKey = Append(root, DH(fresh, m.pub))
        /\ Len(root) = Len(st.RootKey) + 1
        /\ base.ReceiveChainKey = Seed(root)
        /\ base.LocalRatchetKey = fresh
    BY <1>1, <1>2, SteppedFields
  <2> HIDE DEF base, root
  <2>2. m.key.root = root /\ r.RootKey = base.RootKey /\ r.LocalRatchetKey = base.LocalRatchetKey
    BY <1>7, <2>1 DEF OpensOnChain, SameSending, Seed, base
  <2>3. /\ Len(SentKey(q, i).root) <= Len(l.RootKey) /\ Len(l.RootKey) \in Nat
        /\ Len(SentKey(q, i).root) = Len(l.RootKey) =>
             SentKey(q, i).root = l.RootKey /\ m.pub = l.LocalRatchetKey
        /\ WellFormed(l)
    BY <1>1, <1>4, SentBehind
  <2>4. /\ st.RootKey \in RootKeys /\ l.RootKey \in RootKeys /\ Len(st.RootKey) \in Nat
        /\ DH(st.LocalRatchetKey, l.LocalRatchetKey) \in SharedSecret \cup SUBSET Key
        /\ DH(l.LocalRatchetKey, st.LocalRatchetKey) \in SharedSecret \cup SUBSET Key
    BY <1>1, <2>3, Lengths DEF WellFormed, RatchetStates, DH
  <2>5. /\ AheadOf(st, l) => Len(st.RootKey) = Len(l.RootKey) + 1
        /\ AheadOf(l, st) => Len(l.RootKey) = Len(st.RootKey) + 1
    BY <2>4 DEF AheadOf, RootKeys
  <2>6. Len(l.RootKey) = Len(st.RootKey) + 1
    BY <1>2, <1>3, <2>1, <2>2, <2>3, <2>4, <2>5
  <2>7. Len(SentKey(q, i).root) = Len(l.RootKey)
    BY <1>2, <2>1, <2>2, <2>6
  <2>8. root = l.RootKey /\ m.pub = l.LocalRatchetKey
    BY <1>2, <2>2, <2>3, <2>7
  <2> HIDE DEF r, m, fresh
  <2>9. AheadOf(r, l)
    BY <2>1, <2>2, <2>8 DEF AheadOf
  <2>. QED BY <2>9 DEF r, m, fresh
<1>. QED BY <1>5, <1>6, <1>7

\* Receiving keeps one device a step ahead and a key for what was passed.
LEMMA ReceiveSync ==
  ASSUME SyncInv, NEW p \in Party, NEW i \in DOMAIN sent[Peer(p)], Receive(p, i)
  PROVE  SyncInv'
<1>1. StepInv /\ StepInv' /\ IInv /\ OneAhead
  BY ReceiveSteps DEF SyncInv, StepInv
<1>2. /\ sent' = sent
      /\ \A q \in Party : q # p => stored'[q] = stored[q] /\ accepted'[q] = accepted[q]
      /\ \/ stored' = stored /\ accepted' = accepted
         \/ \E st \in SessionFor(p, sent[Peer(p)][i]) :
              /\ Opens(st, Header(Peer(p), i), FreshFor(st))
              /\ stored'[p] = {Decrypt(st, Header(Peer(p), i), FreshFor(st)).state}
              /\ accepted'[p] = accepted[p] \cup {i}
  BY <1>1, ReceiveEffect
<1>3. CASE stored' = stored /\ accepted' = accepted
  <2>1. OneAhead'
    BY <1>1, <1>3 DEF OneAhead, Sessions, AheadOf
  <2>2. ASSUME NEW q \in Party, NEW s \in stored'[q] PROVE Passed(q, s)'
    <3>1. Passed(q, s)
      BY <1>3 DEF SyncInv
    <3>. QED BY <1>2, <1>3, <3>1 DEF Passed, SentKey, Header
  <2>. QED BY <1>1, <2>1, <2>2 DEF SyncInv
<1>4. CASE \E st \in SessionFor(p, sent[Peer(p)][i]) :
              /\ Opens(st, Header(Peer(p), i), FreshFor(st))
              /\ stored'[p] = {Decrypt(st, Header(Peer(p), i), FreshFor(st)).state}
              /\ accepted'[p] = accepted[p] \cup {i}
  <2>1. PICK st \in SessionFor(p, sent[Peer(p)][i]) :
              /\ Opens(st, Header(Peer(p), i), FreshFor(st))
              /\ stored'[p] = {Decrypt(st, Header(Peer(p), i), FreshFor(st)).state}
              /\ accepted'[p] = accepted[p] \cup {i}
    BY <1>4
  <2>2. PICK r : r = Decrypt(st, Header(Peer(p), i), FreshFor(st)).state
    OBVIOUS
  <2>3. /\ Sessions(p)' = {r}
        /\ \A q \in Party : q # p => Sessions(q)' = Sessions(q)
    BY <1>2, <2>1, <2>2 DEF Sessions
  <2>4. \A l \in Sessions(Peer(p)) : AheadOf(r, l) \/ AheadOf(l, r)
    BY <2>1, <2>2, OpenAhead
  <2>5. OneAhead'
    <3>1. SUFFICES ASSUME NEW q \in Party, NEW s \in Sessions(q)', NEW l \in Sessions(Peer(q))'
                   PROVE  AheadOf(s, l) \/ AheadOf(l, s)
      BY DEF OneAhead, AheadOf
    <3>2. CASE q = p
      <4>1. s = r /\ l \in Sessions(Peer(p))
        BY <2>3, <3>2, Peers
      <4>. QED BY <2>4, <4>1
    <3>3. CASE q # p
      <4>1. Peer(q) = p /\ q = Peer(p)
        BY <3>3, TwoParties
      <4>2. l = r /\ s \in Sessions(Peer(p))
        BY <2>3, <3>3, <4>1
      <4>. QED BY <2>4, <4>2
    <3>. QED BY <3>2, <3>3
  <2>6. ASSUME NEW q \in Party, NEW s \in stored'[q] PROVE Passed(q, s)'
    <3>1. CASE q # p
      <4>1. Passed(q, s) /\ accepted'[q] = accepted[q]
        BY <1>2, <3>1 DEF SyncInv
      <4>. QED BY <1>2, <4>1 DEF Passed, SentKey, Header
    <3>2. CASE q = p
      <4>1. s = r
        BY <2>1, <2>2, <3>2
      <4>2. ASSUME Len(sent[Peer(p)]) <= MaxSkippedKeys,
                   NEW j \in DOMAIN sent[Peer(p)], j \notin accepted'[p],
                   Past(SentKey(Peer(p), j), r.ReceiveChainKey)
            PROVE  HeldFor(r, Header(Peer(p), j)) # {}
        <5>1. j \notin accepted[p] /\ j # i
          BY <2>1, <4>2
        <5>. QED BY <2>1, <2>2, <4>2, <5>1, OpenPasses
      <4>. QED BY <1>2, <3>2, <4>1, <4>2 DEF Passed, SentKey, Header
    <3>. QED BY <3>1, <3>2
  <2>. QED BY <1>1, <2>5, <2>6 DEF SyncInv
<1>. QED BY <1>2, <1>3, <1>4

\* Every step keeps the two devices one ratchet step apart.
LEMMA NextSync ==
  ASSUME SyncInv, [Next]_vars
  PROVE  SyncInv'
<1>1. CASE Next
  <2>1. PICK p \in Party : Send(p) \/ \E i \in DOMAIN sent[Peer(p)] : Receive(p, i)
    BY <1>1 DEF Next
  <2>. QED BY <2>1, SendSync, ReceiveSync
<1>2. CASE UNCHANGED vars
  <2>1. sent' = sent /\ stored' = stored /\ accepted' = accepted
    BY <1>2 DEF vars
  <2>2. StepInv'
    BY <1>2, NextSteps DEF SyncInv
  <2>3. OneAhead'
    BY <2>1 DEF SyncInv, OneAhead, Sessions, AheadOf
  <2>4. ASSUME NEW q \in Party, NEW s \in stored'[q] PROVE Passed(q, s)'
    <3>1. Passed(q, s)
      BY <2>1 DEF SyncInv
    <3>. QED BY <2>1, <3>1 DEF Passed, SentKey, Header
  <2>. QED BY <2>2, <2>3, <2>4 DEF SyncInv
<1>. QED BY <1>1, <1>2

\* In every reachable state one device is a ratchet step ahead of the other,
\* and holds a key for whatever its chain has passed without opening it.
THEOREM DevicesInSync == Spec => []SyncInv
<1>. QED BY InitSync, NextSync, PTL DEF Spec

\* A message on the next chain, and the messages that must be skipped for it.
LEMMA RoomOnNextChain ==
  ASSUME StepInv, NEW p \in Party, NEW st \in stored[p], NEW i \in DOMAIN sent[Peer(p)],
         Len(sent[Peer(p)]) <= MaxSkippedKeys,
         Len(SentKey(Peer(p), i).root) = Len(st.RootKey) + 1
  PROVE  Cardinality(st.SkippedMessageKeys) + ToSkip(st, Header(Peer(p), i)) <= MaxSkippedKeys
<1> DEFINE q == Peer(p)
           m == Header(q, i)
           from == st.ReceiveMessageIndex
           held == Cardinality(st.SkippedMessageKeys)
           J == ChainFrom(q, SentKey(q, i).root, 0)
<1>1. /\ IInv /\ q \in Party /\ HeadersTrue(q) /\ Following(p, st) /\ WellFormed(st)
      /\ Len(st.RootKey) \in Nat /\ Len(st.ReceiveChainKey.root) \in Nat
      /\ Len(st.ReceiveChainKey.root) < Len(st.RootKey)
  <2>1. IInv /\ q \in Party /\ HeadersTrue(q) /\ Following(p, st) /\ WellFormed(st)
    BY Peers DEF StepInv, IInv, StateInv
  <2>. QED BY <2>1, Lengths
<1>2. /\ m.idx \in Nat /\ m.pn \in Nat /\ from \in Nat
      /\ Len(sent[q]) \in Nat /\ held \in Nat /\ MaxSkippedKeys \in Nat
  BY <1>1, HeaderTyped, SentFinite, FS_CardinalityType, RatchetAssumption
     DEF Following, WellFormed, RatchetStates
<1>3. /\ IsFiniteSet(J) /\ Cardinality(J) \in Nat /\ Cardinality(J) >= m.idx
  <2>1. \A s \in Nat : s < m.idx =>
          \E j \in DOMAIN sent[q] : SentKey(q, j).root = SentKey(q, i).root /\ SentKey(q, j).step = s
    BY <1>1, SentBefore
  <2>2. 0 \in Nat /\ 0 <= m.idx
    BY <1>2
  <2>3. /\ IsFiniteSet(J) /\ Cardinality(J) \in Nat /\ Cardinality(J) >= m.idx - 0
    <3> HIDE DEF m
    <3>. QED BY <1>1, <1>2, <2>1, <2>2, ChainCount
  <2>. QED BY <1>2, <2>3
<1>4. /\ J \subseteq DOMAIN sent[q]
      /\ \A j \in J : ~Past(SentKey(q, j), st.ReceiveChainKey)
  <2>1. J \subseteq DOMAIN sent[q] /\ \A j \in J : SentKey(q, j).root = SentKey(q, i).root
    BY DEF ChainFrom
  <2> HIDE DEF J
  <2>2. \A j \in J : Len(SentKey(q, j).root) = Len(st.RootKey) + 1
    BY <2>1
  <2>. QED BY <1>1, <2>1, <2>2 DEF Past
<1>5. st.RemoteRatchetKey # m.pub
  BY NextChain
<1>6. CASE st.ReceiveChainKey = EmptyChain
  <2>1. ToSkip(st, m) = m.idx
    BY <1>5, <1>6 DEF ToSkip
  <2> HIDE DEF J, m
  <2>2. held + Cardinality(J) <= Len(sent[q])
    BY <1>1, <1>4, Room
  <2>3. held + ToSkip(st, m) <= MaxSkippedKeys
    <3> HIDE DEF held
    <3>. QED BY <1>2, <1>3, <2>1, <2>2
  <2>. QED BY <2>3 DEF m
<1>7. CASE st.ReceiveChainKey # EmptyChain
  <2> DEFINE I == ChainFrom(q, st.ReceiveChainKey.root, from)
  <2>1. ToSkip(st, m) = m.pn - from + m.idx
    BY <1>5, <1>7 DEF ToSkip
  <2>2. /\ from <= m.pn
        /\ \A s \in Nat : from <= s /\ s < m.pn =>
             \E j \in DOMAIN sent[q] :
               SentKey(q, j).root = st.ReceiveChainKey.root /\ SentKey(q, j).step = s
    BY <1>1, <1>7, ChainEnds
  <2>3. IsFiniteSet(I) /\ Cardinality(I) \in Nat /\ Cardinality(I) >= m.pn - from
    <3> HIDE DEF m, from
    <3>. QED BY <1>1, <1>2, <2>2, ChainCount
  <2>4. /\ I \subseteq DOMAIN sent[q]
        /\ \A j \in I : ~Past(SentKey(q, j), st.ReceiveChainKey)
    BY <1>1, ChainNotPast DEF ChainFrom
  <2>5. I \cap J = {}
    <3>1. st.ReceiveChainKey.root # SentKey(q, i).root
      BY <1>1
    <3>. QED BY <3>1 DEF ChainFrom
  <2> HIDE DEF I, J, m, from
  <2>6. Cardinality(I \cup J) = Cardinality(I) + Cardinality(J)
    <3>1. /\ Cardinality(I \cup J) = Cardinality(I) + Cardinality(J) - Cardinality(I \cap J)
          /\ Cardinality({}) = 0
      BY <1>3, <2>3, FS_Union, FS_EmptySet
    <3>2. Cardinality(I \cap J) = 0
      BY <2>5, <3>1
    <3>. QED BY <1>3, <2>3, <3>1, <3>2
  <2>7. held + Cardinality(I \cup J) <= Len(sent[q])
    <3>1. I \cup J \in SUBSET DOMAIN sent[q]
      BY <1>4, <2>4
    <3>2. \A j \in I \cup J : ~Past(SentKey(q, j), st.ReceiveChainKey)
      BY <1>4, <2>4
    <3>. QED BY <1>1, <3>1, <3>2, Room
  <2>8. held + ToSkip(st, m) <= MaxSkippedKeys
    <3>1. held + (Cardinality(I) + Cardinality(J)) <= MaxSkippedKeys
      <4>1. held + (Cardinality(I) + Cardinality(J)) <= Len(sent[q])
        BY <2>6, <2>7
      <4> HIDE DEF held
      <4>. QED BY <1>2, <1>3, <2>3, <4>1
    <3>2. m.pn - from + m.idx <= Cardinality(I) + Cardinality(J)
      BY <1>2, <1>3, <2>3
    <3>3. m.pn - from + m.idx \in Int
      BY <1>2
    <3> HIDE DEF held
    <3>. QED BY <1>2, <1>3, <2>1, <2>3, <3>1, <3>2, <3>3
  <2>. QED BY <2>8 DEF m
<1>. QED BY <1>6, <1>7

\* A message not opened is held or ahead, and there is room on the way to it.
LEMMA OpensAll ==
  ASSUME SyncInv
  PROVE  NothingLost
<1>1. SUFFICES ASSUME NEW p \in Party, NEW st \in stored[p],
                      NEW i \in DOMAIN sent[Peer(p)] \ accepted[p],
                      Len(sent[Peer(p)]) <= MaxSkippedKeys
               PROVE  Opens(st, Header(Peer(p), i), FreshFor(st))
  BY DEF NothingLost, Header
<1> DEFINE q == Peer(p)
           m == Header(q, i)
<1>2. /\ StepInv /\ OneAhead /\ IInv /\ q \in Party /\ HeadersTrue(q)
      /\ Following(p, st) /\ Counting(p, st) /\ Passed(p, st)
      /\ WellFormed(st) /\ st \in Sessions(p) /\ FreshFor(st) \in Key
  <2>1. /\ StepInv /\ OneAhead /\ IInv /\ q \in Party /\ HeadersTrue(q)
        /\ Following(p, st) /\ Counting(p, st) /\ Passed(p, st)
        /\ WellFormed(st)
    BY Peers DEF SyncInv, StepInv, IInv, StateInv
  <2>. QED BY <2>1, Fresh DEF Sessions, WellFormed
<1>3. CASE HeldFor(st, m) # {}
  BY <1>2, <1>3, HeldOpens DEF Following
<1>4. CASE HeldFor(st, m) = {}
  <2>1. ~Past(SentKey(q, i), st.ReceiveChainKey)
    BY <1>1, <1>2, <1>4 DEF Passed
  <2>2. CASE /\ st.ReceiveChainKey # EmptyChain
             /\ m.pub = st.RemoteRatchetKey
             /\ i \in ChainFrom(q, st.ReceiveChainKey.root, st.ReceiveMessageIndex)
             /\ m.idx >= st.ReceiveMessageIndex
    <3> DEFINE from == st.ReceiveMessageIndex
               I == ChainFrom(q, st.ReceiveChainKey.root, from)
               held == Cardinality(st.SkippedMessageKeys)
    <3>1. /\ m.idx \in Nat /\ from \in Nat /\ MaxSkippedKeys \in Nat
          /\ Len(sent[q]) \in Nat /\ held \in Nat
      BY <1>2, HeaderTyped, SentFinite, FS_CardinalityType, RatchetAssumption
         DEF Following, WellFormed, RatchetStates
    <3>2. \A s \in Nat : s < m.idx =>
            \E j \in DOMAIN sent[q] :
              SentKey(q, j).root = st.ReceiveChainKey.root /\ SentKey(q, j).step = s
      <4>1. SentKey(q, i).root = st.ReceiveChainKey.root
        BY <2>2 DEF ChainFrom
      <4>2. \A s \in Nat : s < Header(q, i).idx =>
              \E j \in DOMAIN sent[q] :
                SentKey(q, j).root = SentKey(q, i).root /\ SentKey(q, j).step = s
        BY <1>2, SentBefore
      <4>. QED BY <4>1, <4>2
    <3>3. Cardinality(I) \in Nat /\ Cardinality(I) >= m.idx - from
      <4>1. from <= m.idx
        BY <2>2, <3>1
      <4> HIDE DEF m, from
      <4>. QED BY <1>2, <3>1, <3>2, <4>1, ChainCount
    <3>4. held + Cardinality(I) <= Len(sent[q])
      <4>1. I \in SUBSET DOMAIN sent[q] /\ \A j \in I : ~Past(SentKey(q, j), st.ReceiveChainKey)
        BY <1>2, ChainNotPast DEF ChainFrom
      <4> HIDE DEF I
      <4>. QED BY <1>2, <4>1, Room
    <3>5. held + (m.idx - from) <= MaxSkippedKeys
      <4> HIDE DEF I, m, from, held
      <4>. QED BY <1>1, <3>1, <3>3, <3>4
    <3>. QED BY <1>2, <1>4, <2>2, <3>5, OnChainOpens
  <2>3. CASE SentKey(q, i).root = Append(st.RootKey, DH(st.LocalRatchetKey, m.pub))
    <3>1. Len(SentKey(q, i).root) = Len(st.RootKey) + 1
      <4>1. st.RootKey \in RootKeys /\ DH(st.LocalRatchetKey, m.pub) \in SharedSecret \cup SUBSET Key
        <5>1. m.pub \in Key
          BY <1>2, HeaderTyped
        <5>. QED BY <1>2, <5>1 DEF WellFormed, RatchetStates, DH
      <4>. QED BY <2>3, <4>1 DEF RootKeys
    <3>2. Cardinality(st.SkippedMessageKeys) + ToSkip(st, m) <= MaxSkippedKeys
      BY <1>1, <1>2, <3>1, RoomOnNextChain
    <3>. QED BY <1>2, <1>4, <2>3, <3>2, NextChainOpens
  <2>. QED BY <1>2, <2>1, <2>2, <2>3, Position
<1>. QED BY <1>3, <1>4

\* As long as a device has sent no more messages than its peer can hold keys,
\* every message not opened yet opens now, in any order (DoubleRatchet.Decrypt,
\* SkipMessages; MaxSkippedKeys).
THEOREM LosesNothing == Spec => []NothingLost
<1>1. SyncInv => NothingLost
  BY OpensAll
<1>2. QED
  BY <1>1, DevicesInSync, PTL
=============================================================================
