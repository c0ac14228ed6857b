--------------------------- MODULE RatchetChannel ---------------------------
(***************************************************************************)
(* One end-to-end session between two devices: CryptoService and           *)
(* SessionService driving the Double Ratchet, one whole Encrypt or Decrypt *)
(* call per step.  The initiator has run X3DH; the responder holds the     *)
(* matching pre-keys and builds its session from the first PreKeyMessage.  *)
(* Every ciphertext ever sent stays in flight: it may be delivered late,   *)
(* in any order, many times, or never.                                     *)
(***************************************************************************)
EXTENDS Ratchet

CONSTANTS Initiator, Responder,
          Secret,                   \* the root key both ends of X3DH derived
          MaxSends                  \* messages a device encrypts (a bound)

VARIABLES stored,     \* stored[p]: the saved session state of p, if any
          sent,       \* sent[p]: what p encrypted, in order
          accepted    \* accepted[p]: positions of sent[Peer(p)] that p opened

vars == <<stored, sent, accepted>>

ASSUME ChannelAssumption ==
  /\ Initiator # Responder
  /\ Party = {Initiator, Responder}
  /\ Secret \in SharedSecret
  /\ MaxSends \in Nat

Peer(p) == IF p = Initiator THEN Responder ELSE Initiator

SignedPreKey  == KeyPair(Responder, 0)
FreshFor(st)  == KeyPair(st.LocalRatchetKey[1], st.LocalRatchetKey[2] + 1)

WireMessages == [ratchet : Messages, prekey : BOOLEAN]

TypeOK ==
  /\ stored \in [Party -> SUBSET RatchetStates]
  /\ sent \in [Party -> Seq(WireMessages)]
  /\ accepted \in [Party -> SUBSET Nat]
  /\ \A p \in Party : /\ accepted[p] \subseteq DOMAIN sent[Peer(p)]
                      /\ \A s, t \in stored[p] : s = t

-----------------------------------------------------------------------------
Init ==
  /\ stored = [p \in Party |->
       IF p = Initiator
       THEN {InitializeAsInitiator(Secret, KeyPair(Initiator, 0), SignedPreKey)}
       ELSE {}]
  /\ sent = [p \in Party |-> << >>]
  /\ accepted = [p \in Party |-> {}]

\* EncryptBytesAsync.  The cached InitiationResult makes the initiator's
\* first message a PreKeyMessage and no other.
Send(p) ==
  /\ Len(sent[p]) < MaxSends
  /\ \E st \in stored[p] :
       /\ sent' = [sent EXCEPT ![p] = Append(@,
                     [ratchet |-> SealedMessage(st),
                      prekey  |-> p = Initiator /\ sent[p] = << >>])]
       /\ stored' = [stored EXCEPT ![p] = {AfterEncrypt(st)}]
  /\ UNCHANGED accepted

\* The session DecryptToBytesAsync works on: the stored one, else for a
\* PreKeyMessage the one EstablishSessionAsResponderAsync builds and saves.
SessionFor(p, m) ==
  IF stored[p] = {} /\ m.prekey
  THEN {InitializeAsResponder(Secret, SignedPreKey)}
  ELSE stored[p]

\* DecryptToBytesAsync: the state is saved again only if AES-GCM succeeded.
Receive(p, i) ==
  LET m == sent[Peer(p)][i]
  IN \E st \in SessionFor(p, m) :
       IF Opens(st, m.ratchet, FreshFor(st))
       THEN /\ stored' = [stored EXCEPT ![p] =
                            {Decrypt(st, m.ratchet, FreshFor(st)).state}]
            /\ accepted' = [accepted EXCEPT ![p] = @ \cup {i}]
            /\ UNCHANGED sent
       ELSE /\ stored' = [stored EXCEPT ![p] = {st}]
            /\ UNCHANGED <<sent, accepted>>

Next ==
  \E p \in Party :
    \/ Send(p)
    \/ \E i \in DOMAIN sent[Peer(p)] : Receive(p, i)

Spec == Init /\ [][Next]_vars

-----------------------------------------------------------------------------
(* Properties.                                                             *)

\* Every message is sealed under a key of its own, whoever sends it: the
\* AES-GCM nonce is only the message index, so two messages under one chain
\* position would share key and nonce (DoubleRatchet.Encrypt, CreateNonce).
UniqueMessageKeys ==
  \A p, q \in Party : \A i \in DOMAIN sent[p], j \in DOMAIN sent[q] :
    sent[p][i].ratchet.key = sent[q][j].ratchet.key => p = q /\ i = j

\* A ciphertext the device has opened never opens again, in any later state,
\* however often the relay redelivers it (DoubleRatchet.Decrypt: the skipped
\* key is removed, the chain has moved on, and a stale ratchet key in the
\* header only leads to a chain nobody sealed with).
NoReplay ==
  \A p \in Party : \A st \in stored[p], i \in accepted[p] :
    ~Opens(st, sent[Peer(p)][i].ratchet, FreshFor(st))

\* What a saved state lets its holder derive: a skipped key, any later key of
\* a stored chain, and every chain seeded from the stored root key onwards.
Derivable(st, key) ==
  \/ \E e \in st.SkippedMessageKeys : e.key = key
  \/ \E chain \in {st.SendChainKey, st.ReceiveChainKey} :
       chain.root = key.root /\ chain.step <= key.step
  \/ /\ Len(st.RootKey) < Len(key.root)
     /\ SubSeq(key.root, 1, Len(st.RootKey)) = st.RootKey

\* Forward secrecy: the state saved after a message was sealed or opened no
\* longer yields the key of that message (DoubleRatchet: keys are replaced by
\* their successors; spec FR-016 asks for it).
ForwardSecrecy ==
  \A p \in Party : \A st \in stored[p] :
    /\ \A i \in DOMAIN sent[p] : ~Derivable(st, sent[p][i].ratchet.key)
    /\ \A i \in accepted[p] : ~Derivable(st, sent[Peer(p)][i].ratchet.key)

\* The keys that must be stored before the key of m is reached: on the chain
\* p receives on, or on the next one, after the rest of the current chain.
Ahead(st, m) ==
  \/ m.pub = st.RemoteRatchetKey /\ m.idx >= st.ReceiveMessageIndex
  \/ m.key.root = Append(st.RootKey, DH(st.LocalRatchetKey, m.pub))

ToSkip(st, m) ==
  CASE m.pub = st.RemoteRatchetKey     -> m.idx - st.ReceiveMessageIndex
    [] st.ReceiveChainKey = EmptyChain -> m.idx
    [] OTHER                           -> m.pn - st.ReceiveMessageIndex + m.idx

\* The two devices never fall out of step: in whatever order messages arrive,
\* one not opened yet opens at once if its key was stored, or if it is ahead
\* of the receive chain and the dictionary has room for the keys skipped on
\* the way (SkipMessages, PerformDhRatchetStep).
InStep ==
  \A p \in Party : \A st \in stored[p], i \in DOMAIN sent[Peer(p)] \ accepted[p] :
    LET m == sent[Peer(p)][i].ratchet
    IN \/ HeldFor(st, m) # {}
       \/ /\ Ahead(st, m)
          /\ Cardinality(st.SkippedMessageKeys) + ToSkip(st, m) <= MaxSkippedKeys
       => Opens(st, m, FreshFor(st))

\* No message is lost for good: as long as the peer has sent no more messages
\* than the dictionary holds keys, every message not opened yet opens now, in
\* any order of arrival, once the receiver has a session.
NothingLost ==
  \A p \in Party : \A st \in stored[p], i \in DOMAIN sent[Peer(p)] \ accepted[p] :
    Len(sent[Peer(p)]) <= MaxSkippedKeys => Opens(st, sent[Peer(p)][i].ratchet, FreshFor(st))

=============================================================================
