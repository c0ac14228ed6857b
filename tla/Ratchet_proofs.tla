--------------------------- MODULE Ratchet_proofs ---------------------------
(***************************************************************************)
(* Facts about the operators of Ratchet, for any session state: what       *)
(* SkipMessages, PerformDhRatchetStep and Decrypt return and preserve.     *)
(***************************************************************************)
EXTENDS Ratchet, FiniteSetTheorems, SequenceTheorems, TLAPS

\* A key that the chain has moved past: of an earlier (shorter) root, or of
\* this chain before its current step.
Past(key, chain) ==
  \/ Len(key.root) < Len(chain.root)
  \/ key.root = chain.root /\ key.step < chain.step

\* What every session state satisfies, saved or not: the receive chain counts
\* its steps, every skipped key lies behind it under the index of its step,
\* and one root belongs to one ratchet key.
WellFormed(st) ==
  /\ st \in RatchetStates
  /\ Len(st.ReceiveChainKey.root) < Len(st.RootKey)
  /\ st.ReceiveChainKey.step = st.ReceiveMessageIndex
  /\ \A e \in st.SkippedMessageKeys :
       /\ Past(e.key, st.ReceiveChainKey)
       /\ e.key.step = e.idx
       /\ e.key.root = st.ReceiveChainKey.root => e.pub = st.RemoteRatchetKey
  /\ \A e, f \in st.SkippedMessageKeys : e.key.root = f.key.root => e.pub = f.pub

\* Deriving n message keys leaves a chain key of the same root, n steps on
\* (MessageKeys.DeriveKeys).
LEMMA AdvanceTyped ==
  ASSUME NEW chain \in ChainKeys, NEW n \in Nat
  PROVE  /\ Advance(chain, n) \in ChainKeys
         /\ Advance(chain, n).root = chain.root
         /\ Advance(chain, n).step = chain.step + n
BY DEF Advance, ChainKeys

\* The loop of SkipMessages leaves a session state well typed.
LEMMA SkippedToTyped ==
  ASSUME NEW st \in RatchetStates, NEW j \in Nat, j >= st.ReceiveMessageIndex
  PROVE  SkippedTo(st, j) \in RatchetStates
<1> DEFINE from  == st.ReceiveMessageIndex
           chain == st.ReceiveChainKey
           kept  == {e \in st.SkippedMessageKeys :
                       ~(e.pub = st.RemoteRatchetKey /\ e.idx \in from .. (j - 1))}
           added == {[pub |-> st.RemoteRatchetKey, idx |-> i,
                      key |-> Advance(chain, i - from)] : i \in from .. (j - 1)}
<1>1. /\ from \in Nat /\ chain \in ChainKeys /\ st.RemoteRatchetKey \in {NoKey} \cup Key
      /\ st.SkippedMessageKeys \in SUBSET SkippedKeys
  BY DEF RatchetStates
<1>2. ASSUME NEW i \in from .. (j - 1)
      PROVE  i \in Nat /\ Advance(chain, i - from) \in ChainKeys
  <2>1. i \in Nat /\ i - from \in Nat
    BY <1>1
  <2>2. QED
    BY <1>1, <2>1, AdvanceTyped
<1>3. added \subseteq SkippedKeys
  BY <1>1, <1>2 DEF SkippedKeys
<1>4. kept \cup added \in SUBSET SkippedKeys
  BY <1>1, <1>3
<1>5. Advance(chain, j - from) \in ChainKeys
  BY <1>1, AdvanceTyped
<1>6. SkippedTo(st, j) = [st EXCEPT !.SkippedMessageKeys  = kept \cup added,
                                    !.ReceiveChainKey     = Advance(chain, j - from),
                                    !.ReceiveMessageIndex = j]
  BY DEF SkippedTo
<1> HIDE DEF kept, added, from, chain
<1>7. QED
  BY <1>4, <1>5, <1>6 DEF RatchetStates

\* The loop of SkipMessages runs a natural number of times.
LEMMA SkipIterationsNat ==
  ASSUME NEW st \in RatchetStates, NEW until \in Nat
  PROVE  Cardinality(SkipIterations(st, until)) \in Nat
<1>1. st.ReceiveMessageIndex \in Int /\ until - 1 \in Int
  BY DEF RatchetStates
<1>2. IsFiniteSet(st.ReceiveMessageIndex .. (until - 1))
  BY <1>1, FS_Interval
<1>3. IsFiniteSet(SkipIterations(st, until))
  BY <1>2, FS_Subset DEF SkipIterations
<1>4. QED
  BY <1>3, FS_CardinalityType

\* How SkipMessages may change a state: only keys of the receive chain from
\* its current step on are added to the dictionary, and the chain moves on.
SkipEffect(st, r) ==
  /\ r.RootKey = st.RootKey
  /\ r.SendChainKey = st.SendChainKey
  /\ r.SendMessageIndex = st.SendMessageIndex
  /\ r.LocalRatchetKey = st.LocalRatchetKey
  /\ r.RemoteRatchetKey = st.RemoteRatchetKey
  /\ r.PreviousChainLength = st.PreviousChainLength
  /\ r.ReceiveChainKey.root = st.ReceiveChainKey.root
  /\ r.ReceiveChainKey.step >= st.ReceiveChainKey.step
  /\ st.ReceiveChainKey = EmptyChain => r = st
  /\ \A e \in r.SkippedMessageKeys \ st.SkippedMessageKeys :
       /\ st.ReceiveChainKey # EmptyChain
       /\ e.pub = st.RemoteRatchetKey
       /\ e.key.root = st.ReceiveChainKey.root
       /\ e.key.step = e.idx
       /\ st.ReceiveChainKey.step <= e.key.step
       /\ e.key.step < r.ReceiveChainKey.step

\* SkipMessages changes a state as SkipEffect says.
LEMMA SkipMessagesEffect ==
  ASSUME NEW st \in RatchetStates, NEW until \in Nat,
         st.ReceiveChainKey.step = st.ReceiveMessageIndex
  PROVE  LET r == SkipMessages(st, until)
         IN /\ r \in RatchetStates
            /\ r.ReceiveChainKey.step = r.ReceiveMessageIndex
            /\ SkipEffect(st, r)
<1> DEFINE r == SkipMessages(st, until)
           j == st.ReceiveMessageIndex + Cardinality(SkipIterations(st, until))
<1>1. st.ReceiveMessageIndex \in Nat /\ st.ReceiveChainKey \in ChainKeys
  BY DEF RatchetStates
<1>2. CASE st.ReceiveChainKey = EmptyChain
  <2>1. r = st
    BY <1>2 DEF SkipMessages
  <2>2. st.ReceiveChainKey.step \in Nat
    BY <1>1 DEF ChainKeys
  <2>3. QED
    BY <2>1, <2>2 DEF SkipEffect
<1>3. CASE st.ReceiveChainKey # EmptyChain
  <2>1. r = SkippedTo(st, j)
    BY <1>3 DEF SkipMessages
  <2>2. j \in Nat /\ j >= st.ReceiveMessageIndex
    BY <1>1, SkipIterationsNat
  <2> HIDE DEF r, j
  <2>3. r \in RatchetStates
    BY <2>1, <2>2, SkippedToTyped
  <2>4. /\ r.ReceiveChainKey = Advance(st.ReceiveChainKey, j - st.ReceiveMessageIndex)
        /\ r.ReceiveMessageIndex = j
        /\ r.RootKey = st.RootKey
        /\ r.SendChainKey = st.SendChainKey
        /\ r.SendMessageIndex = st.SendMessageIndex
        /\ r.LocalRatchetKey = st.LocalRatchetKey
        /\ r.RemoteRatchetKey = st.RemoteRatchetKey
        /\ r.PreviousChainLength = st.PreviousChainLength
    BY <2>1 DEF SkippedTo, RatchetStates
  <2>5. /\ r.ReceiveChainKey.root = st.ReceiveChainKey.root
        /\ r.ReceiveChainKey.step = j
    <3>1. j - st.ReceiveMessageIndex \in Nat
      BY <1>1, <2>2
    <3>2. QED
      BY <2>2, <2>4, <3>1, <1>1 DEF Advance
  <2>6. ASSUME NEW e \in r.SkippedMessageKeys, e \notin st.SkippedMessageKeys
        PROVE  /\ e.pub = st.RemoteRatchetKey
               /\ e.key.root = st.ReceiveChainKey.root
               /\ e.key.step = e.idx
               /\ st.ReceiveChainKey.step <= e.key.step
               /\ e.key.step < r.ReceiveChainKey.step
    <3>1. PICK i \in st.ReceiveMessageIndex .. (j - 1) :
            e = [pub |-> st.RemoteRatchetKey, idx |-> i,
                 key |-> Advance(st.ReceiveChainKey, i - st.ReceiveMessageIndex)]
      BY <2>1, <2>6 DEF SkippedTo, RatchetStates
    <3>2. i \in Nat /\ i - st.ReceiveMessageIndex \in Nat /\ i < j
      BY <1>1, <2>2
    <3>3. e.key.root = st.ReceiveChainKey.root /\ e.key.step = i
      BY <3>1, <3>2, <1>1 DEF Advance
    <3>4. QED
      BY <3>1, <3>2, <3>3, <2>5, <1>1
  <2>7. QED
    BY <1>3, <2>2, <2>3, <2>4, <2>5, <2>6 DEF SkipEffect, r
<1>4. QED
  BY <1>2, <1>3

\* SkipMessages keeps a state well formed (DoubleRatchet.SkipMessages).
LEMMA SkipWellFormed ==
  ASSUME NEW st, WellFormed(st), NEW until \in Nat
  PROVE  /\ WellFormed(SkipMessages(st, until))
         /\ SkipEffect(st, SkipMessages(st, until))
<1> DEFINE r == SkipMessages(st, until)
<1>1. /\ r \in RatchetStates
      /\ r.ReceiveChainKey.step = r.ReceiveMessageIndex
      /\ SkipEffect(st, r)
  BY SkipMessagesEffect DEF WellFormed
<1> HIDE DEF r
<1>2. st.ReceiveChainKey \in ChainKeys /\ r.ReceiveChainKey \in ChainKeys
  BY <1>1 DEF WellFormed, RatchetStates
<1>3. /\ st.ReceiveChainKey.step \in Nat /\ r.ReceiveChainKey.step \in Nat
      /\ r.ReceiveChainKey.root = st.ReceiveChainKey.root
      /\ r.ReceiveChainKey.step >= st.ReceiveChainKey.step
      /\ r.RootKey = st.RootKey /\ r.RemoteRatchetKey = st.RemoteRatchetKey
  BY <1>1, <1>2 DEF ChainKeys, SkipEffect
<1>4. ASSUME NEW e \in r.SkippedMessageKeys
      PROVE  /\ Past(e.key, r.ReceiveChainKey)
             /\ e.key.step = e.idx
             /\ e.key.root = r.ReceiveChainKey.root => e.pub = r.RemoteRatchetKey
  <2>1. CASE e \in st.SkippedMessageKeys
    <3>1. e.key.step \in Nat
      BY <2>1 DEF WellFormed, RatchetStates, SkippedKeys, ChainKeys
    <3>2. QED
      BY <2>1, <3>1, <1>3 DEF WellFormed, Past
  <2>2. CASE e \notin st.SkippedMessageKeys
    BY <2>2, <1>1, <1>3 DEF SkipEffect, Past
  <2>3. QED
    BY <2>1, <2>2
<1>5. \A e, f \in r.SkippedMessageKeys : e.key.root = f.key.root => e.pub = f.pub
  <2>1. \A e \in r.SkippedMessageKeys :
          e \in st.SkippedMessageKeys
            \/ (e.pub = st.RemoteRatchetKey /\ e.key.root = st.ReceiveChainKey.root)
    BY <1>1 DEF SkipEffect
  <2>2. \A e \in st.SkippedMessageKeys :
          e.key.root = st.ReceiveChainKey.root => e.pub = st.RemoteRatchetKey
    BY DEF WellFormed
  <2>3. QED
    BY <2>1, <2>2 DEF WellFormed
<1>6. Len(r.ReceiveChainKey.root) < Len(r.RootKey)
  BY <1>3 DEF WellFormed
<1>7. QED
  BY <1>1, <1>4, <1>5, <1>6 DEF WellFormed, r

\* A ratchet step makes the root key two outputs longer, seeds the receive
\* chain half-way, and leaves the dictionary alone.
LEMMA DhStepEffect ==
  ASSUME NEW st, WellFormed(st), NEW remote \in Key, NEW fresh \in Key
  PROVE  LET r == PerformDhRatchetStep(st, remote, fresh)
         IN /\ WellFormed(r)
            /\ Len(r.RootKey) = Len(st.RootKey) + 2
            /\ r.SendChainKey = Seed(r.RootKey)
            /\ Len(r.ReceiveChainKey.root) = Len(st.RootKey) + 1
            /\ r.ReceiveChainKey.step = 0
            /\ r.LocalRatchetKey = fresh
            /\ r.SkippedMessageKeys = st.SkippedMessageKeys
<1> DEFINE receiveRoot == Append(st.RootKey, DH(st.LocalRatchetKey, remote))
           sendRoot    == Append(receiveRoot, DH(fresh, remote))
           r           == PerformDhRatchetStep(st, remote, fresh)
<1>1. /\ st \in RatchetStates /\ st.RootKey \in RootKeys /\ st.LocalRatchetKey \in Key
      /\ st.SendMessageIndex \in Nat
  BY DEF WellFormed, RatchetStates
<1>2. /\ DH(st.LocalRatchetKey, remote) \in SharedSecret \cup SUBSET Key
      /\ DH(fresh, remote) \in SharedSecret \cup SUBSET Key
  BY <1>1 DEF DH
<1>3. /\ receiveRoot \in RootKeys /\ sendRoot \in RootKeys
      /\ Len(receiveRoot) = Len(st.RootKey) + 1
      /\ Len(sendRoot) = Len(st.RootKey) + 2
      /\ Len(st.RootKey) \in Nat
  <2> HIDE DEF Key
  <2>1. /\ receiveRoot \in RootKeys /\ Len(receiveRoot) = Len(st.RootKey) + 1
        /\ Len(st.RootKey) \in Nat
    BY <1>1, <1>2 DEF RootKeys
  <2> HIDE DEF receiveRoot
  <2>2. sendRoot \in RootKeys /\ Len(sendRoot) = Len(receiveRoot) + 1
    BY <2>1, <1>2 DEF RootKeys
  <2>3. QED
    BY <2>1, <2>2
<1>4. r = [st EXCEPT !.PreviousChainLength = st.SendMessageIndex,
                     !.RemoteRatchetKey    = remote,
                     !.SendMessageIndex    = 0,
                     !.ReceiveMessageIndex = 0,
                     !.ReceiveChainKey     = Seed(receiveRoot),
                     !.LocalRatchetKey     = fresh,
                     !.SendChainKey        = Seed(sendRoot),
                     !.RootKey             = sendRoot]
  BY DEF PerformDhRatchetStep
<1> HIDE DEF receiveRoot, sendRoot, r
<1>5. Seed(receiveRoot) \in ChainKeys /\ Seed(sendRoot) \in ChainKeys
  BY <1>3 DEF Seed, ChainKeys
<1>6. r \in RatchetStates
  BY <1>1, <1>3, <1>4, <1>5 DEF RatchetStates
<1>7. /\ r.RootKey = sendRoot
      /\ r.SendChainKey = Seed(sendRoot)
      /\ r.ReceiveChainKey = Seed(receiveRoot)
      /\ r.ReceiveMessageIndex = 0
      /\ r.LocalRatchetKey = fresh
      /\ r.SkippedMessageKeys = st.SkippedMessageKeys
  BY <1>1, <1>4 DEF RatchetStates
<1>8. ASSUME NEW e \in st.SkippedMessageKeys
      PROVE  Len(e.key.root) < Len(receiveRoot)
  <2>1. /\ e.key.root \in RootKeys /\ st.ReceiveChainKey.root \in RootKeys
    BY <1>1 DEF RatchetStates, SkippedKeys, ChainKeys
  <2>2. Len(e.key.root) \in Nat /\ Len(st.ReceiveChainKey.root) \in Nat
    BY <2>1 DEF RootKeys
  <2>3. Len(e.key.root) <= Len(st.ReceiveChainKey.root)
    BY <2>2 DEF WellFormed, Past
  <2>4. QED
    BY <2>2, <2>3, <1>3 DEF WellFormed
<1>9. r.ReceiveChainKey.root = receiveRoot /\ r.ReceiveChainKey.step = 0
  BY <1>7 DEF Seed
<1>10. WellFormed(r)
  BY <1>3, <1>6, <1>7, <1>8, <1>9 DEF WellFormed, Past
<1>11. QED
  BY <1>3, <1>7, <1>9, <1>10 DEF r

-----------------------------------------------------------------------------
\* ReadyFor leaves behind every key that the receive chain had left behind,
\* and adds none of them to the dictionary.
LEMMA ReadyForKeepsPast ==
  ASSUME NEW st, WellFormed(st), NEW m \in Messages, NEW fresh \in Key
  PROVE  LET at == ReadyFor(st, m, fresh)
         IN /\ WellFormed(at)
            /\ \A k \in ChainKeys : Past(k, st.ReceiveChainKey) => Past(k, at.ReceiveChainKey)
            /\ \A e \in at.SkippedMessageKeys \ st.SkippedMessageKeys :
                 ~Past(e.key, st.ReceiveChainKey)
<1> DEFINE skipped == SkipMessages(st, m.pn)
           stepped == PerformDhRatchetStep(skipped, m.pub, fresh)
           base    == IF st.RemoteRatchetKey = m.pub THEN st ELSE stepped
           at      == ReadyFor(st, m, fresh)
<1>1. m.pub \in Key /\ m.pn \in Nat /\ m.idx \in Nat
  BY DEF Messages
<1>2. /\ WellFormed(skipped) /\ SkipEffect(st, skipped)
  BY <1>1, SkipWellFormed
<1>3. /\ WellFormed(stepped)
      /\ Len(stepped.ReceiveChainKey.root) = Len(skipped.RootKey) + 1
      /\ stepped.ReceiveChainKey.step = 0
      /\ stepped.SkippedMessageKeys = skipped.SkippedMessageKeys
  BY <1>1, <1>2, DhStepEffect
<1>4. at = SkipMessages(base, m.idx)
  BY DEF ReadyFor
<1>5. WellFormed(base)
  BY <1>3
<1> HIDE DEF skipped, stepped, at
<1>6. WellFormed(at) /\ SkipEffect(base, at)
  <2> HIDE DEF base
  <2>1. QED
    BY <1>1, <1>4, <1>5, SkipWellFormed
<1>7. \A s : WellFormed(s) =>
        /\ Len(s.RootKey) \in Nat
        /\ Len(s.ReceiveChainKey.root) \in Nat
        /\ s.ReceiveChainKey.step \in Nat
        /\ Len(s.ReceiveChainKey.root) < Len(s.RootKey)
        /\ \A e \in s.SkippedMessageKeys : Len(e.key.root) \in Nat /\ e.key.step \in Nat
  <2>1. SUFFICES ASSUME NEW s, WellFormed(s)
                 PROVE  /\ s.RootKey \in RootKeys
                        /\ s.ReceiveChainKey.root \in RootKeys
                        /\ s.ReceiveChainKey.step \in Nat
                        /\ \A e \in s.SkippedMessageKeys : e.key.root \in RootKeys /\ e.key.step \in Nat
    BY DEF WellFormed, RootKeys
  <2>2. QED
    BY <2>1 DEF WellFormed, RatchetStates, ChainKeys, SkippedKeys
<1>8. \A k \in ChainKeys : Len(k.root) \in Nat /\ k.step \in Nat
  BY DEF ChainKeys, RootKeys
<1>9. \A e \in skipped.SkippedMessageKeys \ st.SkippedMessageKeys :
        /\ e.key.root = st.ReceiveChainKey.root
        /\ st.ReceiveChainKey.step <= e.key.step
  BY <1>2 DEF SkipEffect
<1>10. CASE st.RemoteRatchetKey = m.pub
  <2>1. base = st
    BY <1>10
  <2>2. SkipEffect(st, at)
    BY <1>6, <2>1
  <2>3. /\ at.ReceiveChainKey.root = st.ReceiveChainKey.root
        /\ at.ReceiveChainKey.step >= st.ReceiveChainKey.step
        /\ at.ReceiveChainKey.step \in Nat /\ st.ReceiveChainKey.step \in Nat
        /\ Len(st.ReceiveChainKey.root) \in Nat
    BY <2>2, <1>6, <1>7 DEF SkipEffect
  <2>4. \A k \in ChainKeys : Past(k, st.ReceiveChainKey) => Past(k, at.ReceiveChainKey)
    BY <2>3, <1>8 DEF Past
  <2>5. ASSUME NEW e \in at.SkippedMessageKeys, e \notin st.SkippedMessageKeys
        PROVE  ~Past(e.key, st.ReceiveChainKey)
    <3>1. /\ e.key.root = st.ReceiveChainKey.root
          /\ st.ReceiveChainKey.step <= e.key.step
          /\ e.key.step \in Nat
      BY <2>2, <2>5, <1>6, <1>7 DEF SkipEffect
    <3>2. QED
      BY <3>1, <2>3 DEF Past
  <2>6. QED
    BY <2>4, <2>5, <1>6 DEF at
<1>11. CASE st.RemoteRatchetKey # m.pub
  <2>1. base = stepped
    BY <1>11
  <2>2. SkipEffect(stepped, at)
    BY <1>6, <2>1
  <2>3. skipped.RootKey = st.RootKey
    BY <1>2 DEF SkipEffect
  <2>4. /\ Len(at.ReceiveChainKey.root) = Len(st.RootKey) + 1
        /\ Len(st.ReceiveChainKey.root) < Len(at.ReceiveChainKey.root)
    BY <2>2, <2>3, <1>3, <1>7 DEF SkipEffect
  <2>5. \A k \in ChainKeys : Past(k, st.ReceiveChainKey) => Past(k, at.ReceiveChainKey)
    BY <2>4, <1>7, <1>8 DEF Past
  <2>6. ASSUME NEW e \in at.SkippedMessageKeys, e \notin st.SkippedMessageKeys
        PROVE  ~Past(e.key, st.ReceiveChainKey)
    <3>1. CASE e \in skipped.SkippedMessageKeys
      BY <3>1, <2>6, <1>2, <1>7, <1>9 DEF Past
    <3>2. CASE e \notin skipped.SkippedMessageKeys
      <4>1. e.key.root = stepped.ReceiveChainKey.root
        BY <3>2, <2>6, <2>2, <1>3 DEF SkipEffect
      <4>2. QED
        BY <4>1, <2>4, <2>3, <1>3, <1>7 DEF Past
    <3>3. QED
      BY <3>1, <3>2
  <2>7. QED
    BY <2>5, <2>6, <1>6 DEF at
<1>12. QED
  BY <1>10, <1>11

\* The chains after ReadyFor: unchanged but for the position of the receive
\* chain, or seeded one (receiving) and two (sending) outputs further on.
SameChains(st, at) ==
  /\ at.RootKey = st.RootKey
  /\ at.SendChainKey = st.SendChainKey
  /\ at.ReceiveChainKey.root = st.ReceiveChainKey.root
  /\ st.ReceiveChainKey = EmptyChain => at.ReceiveChainKey = EmptyChain

NewChains(st, at) ==
  /\ Len(at.RootKey) = Len(st.RootKey) + 2
  /\ at.SendChainKey = Seed(at.RootKey)
  /\ Len(at.ReceiveChainKey.root) = Len(st.RootKey) + 1

\* Decrypt opens a message on the chains it had or on those of one ratchet
\* step, and stores skipped keys of these two receive chains only.
LEMMA ReadyForRoots ==
  ASSUME NEW st, WellFormed(st), NEW m \in Messages, NEW fresh \in Key
  PROVE  LET at == ReadyFor(st, m, fresh)
         IN /\ SameChains(st, at) \/ NewChains(st, at)
            /\ \A e \in at.SkippedMessageKeys \ st.SkippedMessageKeys :
                 \/ st.ReceiveChainKey # EmptyChain /\ e.key.root = st.ReceiveChainKey.root
                 \/ Len(e.key.root) = Len(st.RootKey) + 1
<1> DEFINE skipped == SkipMessages(st, m.pn)
           stepped == PerformDhRatchetStep(skipped, m.pub, fresh)
           at      == ReadyFor(st, m, fresh)
<1>1. m.pub \in Key /\ m.pn \in Nat /\ m.idx \in Nat
  BY DEF Messages
<1>2. WellFormed(skipped) /\ SkipEffect(st, skipped)
  BY <1>1, SkipWellFormed
<1> HIDE DEF skipped
<1>3. /\ WellFormed(stepped)
      /\ Len(stepped.RootKey) = Len(skipped.RootKey) + 2
      /\ stepped.SendChainKey = Seed(stepped.RootKey)
      /\ Len(stepped.ReceiveChainKey.root) = Len(skipped.RootKey) + 1
      /\ stepped.SkippedMessageKeys = skipped.SkippedMessageKeys
  BY <1>1, <1>2, DhStepEffect
<1> HIDE DEF stepped
<1>4. CASE st.RemoteRatchetKey = m.pub
  <2>1. at = SkipMessages(st, m.idx)
    BY <1>4 DEF ReadyFor
  <2> HIDE DEF at
  <2>2. SkipEffect(st, at)
    BY <1>1, <2>1, SkipWellFormed
  <2>3. SameChains(st, at)
    BY <2>2 DEF SkipEffect, SameChains
  <2>4. QED
    BY <2>2, <2>3 DEF SkipEffect, at
<1>5. CASE st.RemoteRatchetKey # m.pub
  <2>1. at = SkipMessages(stepped, m.idx)
    BY <1>5 DEF ReadyFor, stepped, skipped
  <2> HIDE DEF at
  <2>2. SkipEffect(stepped, at)
    BY <1>1, <1>3, <2>1, SkipWellFormed
  <2>3. skipped.RootKey = st.RootKey
    BY <1>2 DEF SkipEffect
  <2>4. NewChains(st, at)
    BY <1>3, <2>2, <2>3 DEF SkipEffect, NewChains
  <2>5. \A e \in at.SkippedMessageKeys \ skipped.SkippedMessageKeys :
          Len(e.key.root) = Len(st.RootKey) + 1
    BY <1>3, <2>2, <2>3 DEF SkipEffect
  <2>6. \A e \in skipped.SkippedMessageKeys \ st.SkippedMessageKeys :
          st.ReceiveChainKey # EmptyChain /\ e.key.root = st.ReceiveChainKey.root
    BY <1>2 DEF SkipEffect
  <2>7. QED
    BY <2>4, <2>5, <2>6 DEF at
<1>6. QED
  BY <1>4, <1>5

\* What a call of Decrypt does to keys: the one it used is new, and afterwards
\* left behind and out of the dictionary, and so stays every key that was.
Spent(k, st) ==
  /\ Past(k, st.ReceiveChainKey)
  /\ \A e \in st.SkippedMessageKeys : e.key # k

\* The result about Decrypt the replay theorem rests on: the key it opens a
\* message with, and every key spent before, is spent in the state it returns
\* (DoubleRatchet.Decrypt, TryGetSkippedMessageKey).
LEMMA DecryptSpends ==
  ASSUME NEW st, WellFormed(st), NEW m \in Messages, NEW fresh \in Key
  PROVE  LET r == Decrypt(st, m, fresh)
         IN /\ WellFormed(r.state)
            /\ Spent(r.key, r.state)
            /\ ~Spent(r.key, st)
            /\ \A k \in ChainKeys : Spent(k, st) => Spent(k, r.state)
<1> DEFINE r == Decrypt(st, m, fresh)
<1>0. st \in RatchetStates
  BY DEF WellFormed
<1>1. CASE HeldFor(st, m) # {}
  <2> DEFINE e == CHOOSE e \in HeldFor(st, m) : TRUE
  <2>1. e \in HeldFor(st, m)
    BY <1>1
  <2>2. /\ r.key = e.key
        /\ r.state = [st EXCEPT !.SkippedMessageKeys = @ \ HeldFor(st, m)]
    BY <1>1 DEF Decrypt, OpenWithSkipped
  <2> HIDE DEF e, r
  <2>3. /\ r.state \in RatchetStates
        /\ r.state.SkippedMessageKeys = st.SkippedMessageKeys \ HeldFor(st, m)
        /\ r.state.RootKey = st.RootKey
        /\ r.state.ReceiveChainKey = st.ReceiveChainKey
        /\ r.state.ReceiveMessageIndex = st.ReceiveMessageIndex
        /\ r.state.RemoteRatchetKey = st.RemoteRatchetKey
    BY <2>2, <1>0 DEF RatchetStates
  <2>4. WellFormed(r.state)
    BY <2>3 DEF WellFormed
  <2>5. ASSUME NEW f \in r.state.SkippedMessageKeys, f.key = e.key
        PROVE  FALSE
    <3>1. f \in st.SkippedMessageKeys /\ f \notin HeldFor(st, m)
      BY <2>3
    <3>2. f.pub = e.pub /\ f.idx = e.idx
      BY <2>1, <2>5, <3>1 DEF WellFormed, HeldFor
    <3>3. QED
      BY <2>1, <3>1, <3>2 DEF HeldFor
  <2>6. Spent(r.key, r.state)
    BY <2>1, <2>2, <2>3, <2>5 DEF WellFormed, Spent, HeldFor
  <2>7. QED
    BY <2>1, <2>2, <2>3, <2>4, <2>6 DEF Spent, HeldFor, r
<1>2. CASE HeldFor(st, m) = {}
  <2> DEFINE at == ReadyFor(st, m, fresh)
  <2>1. /\ r.key = at.ReceiveChainKey
        /\ r.state = [at EXCEPT !.ReceiveChainKey = Advance(@, 1), !.ReceiveMessageIndex = @ + 1]
    BY <1>2 DEF Decrypt, OpenWithChain
  <2>2. /\ WellFormed(at)
        /\ \A k \in ChainKeys : Past(k, st.ReceiveChainKey) => Past(k, at.ReceiveChainKey)
        /\ \A e \in at.SkippedMessageKeys \ st.SkippedMessageKeys :
             ~Past(e.key, st.ReceiveChainKey)
    BY ReadyForKeepsPast
  <2> HIDE DEF at, r
  <2>3. /\ at \in RatchetStates /\ at.ReceiveChainKey \in ChainKeys
        /\ at.ReceiveMessageIndex \in Nat
    BY <2>2 DEF WellFormed, RatchetStates
  <2>4. /\ Advance(at.ReceiveChainKey, 1) \in ChainKeys
        /\ Advance(at.ReceiveChainKey, 1).root = at.ReceiveChainKey.root
        /\ Advance(at.ReceiveChainKey, 1).step = at.ReceiveChainKey.step + 1
        /\ at.ReceiveChainKey.step \in Nat
    BY <2>3, AdvanceTyped DEF ChainKeys
  <2>5. /\ r.state \in RatchetStates
        /\ r.state.SkippedMessageKeys = at.SkippedMessageKeys
        /\ r.state.RootKey = at.RootKey
        /\ r.state.ReceiveChainKey = Advance(at.ReceiveChainKey, 1)
        /\ r.state.ReceiveMessageIndex = at.ReceiveMessageIndex + 1
        /\ r.state.RemoteRatchetKey = at.RemoteRatchetKey
    <3>1. at.ReceiveMessageIndex + 1 \in Nat
      BY <2>3
    <3>2. r.state = [at EXCEPT !.ReceiveChainKey = Advance(at.ReceiveChainKey, 1),
                               !.ReceiveMessageIndex = at.ReceiveMessageIndex + 1]
      BY <2>1, <2>3 DEF RatchetStates
    <3>3. QED
      BY <3>1, <3>2, <2>3, <2>4 DEF RatchetStates
  <2>6. \A k \in ChainKeys : Past(k, at.ReceiveChainKey) => Past(k, r.state.ReceiveChainKey)
    BY <2>4, <2>5 DEF Past, ChainKeys
  <2>7. \A e \in at.SkippedMessageKeys : e.key \in ChainKeys
    BY <2>3 DEF RatchetStates, SkippedKeys
  <2>8. WellFormed(r.state)
    BY <2>2, <2>4, <2>5, <2>6, <2>7 DEF WellFormed
  <2>9. ~Past(at.ReceiveChainKey, at.ReceiveChainKey)
    <3>1. Len(at.ReceiveChainKey.root) \in Nat
      BY <2>3 DEF ChainKeys, RootKeys
    <3>2. QED
      BY <2>4, <3>1 DEF Past
  <2>10. Spent(r.key, r.state)
    BY <2>1, <2>2, <2>4, <2>5, <2>9 DEF Spent, Past, WellFormed
  <2>11. ~Spent(r.key, st)
    BY <2>1, <2>2, <2>3, <2>9 DEF Spent
  <2>12. QED
    BY <2>2, <2>5, <2>6, <2>8, <2>10, <2>11 DEF Spent, r
<1>3. QED
  BY <1>1, <1>2

-----------------------------------------------------------------------------
\* The types and lengths of the keys of a well-formed state.
LEMMA Lengths ==
  ASSUME NEW st, WellFormed(st)
  PROVE  /\ st \in RatchetStates
         /\ Len(st.RootKey) \in Nat
         /\ st.SendChainKey \in ChainKeys /\ Len(st.SendChainKey.root) \in Nat
         /\ st.SendChainKey.step \in Nat
         /\ st.ReceiveChainKey \in ChainKeys /\ Len(st.ReceiveChainKey.root) \in Nat
         /\ st.ReceiveChainKey.step \in Nat
         /\ Len(st.ReceiveChainKey.root) < Len(st.RootKey)
<1>1. st \in RatchetStates
  BY DEF WellFormed
<1>2. st.RootKey \in RootKeys /\ st.SendChainKey \in ChainKeys /\ st.ReceiveChainKey \in ChainKeys
  BY <1>1 DEF RatchetStates
<1>3. QED
  BY <1>1, <1>2 DEF WellFormed, ChainKeys, RootKeys

\* Appending an element to a sequence of one gives the pair.
LEMMA AppendToOne ==
  ASSUME NEW a, NEW b
  PROVE  Append(<<a>>, b) = <<a, b>>
<1> DEFINE S == {a, b}
<1>1. <<a>> \in Seq(S) /\ <<a, b>> \in Seq(S) /\ Append(<<a>>, b) \in Seq(S)
  OBVIOUS
<1>2. Len(Append(<<a>>, b)) = 2 /\ Append(<<a>>, b)[1] = a /\ Append(<<a>>, b)[2] = b
  BY <1>1, AppendProperties
<1>3. \A i \in 1 .. 2 : Append(<<a>>, b)[i] = <<a, b>>[i]
  BY <1>2
<1>4. QED
  BY <1>1, <1>2, <1>3, SeqEqual

\* Two more outputs keep the parity of a root, one more flips it.
LEMMA NextParity ==
  ASSUME NEW n \in Nat, NEW b \in 0 .. 1, n % 2 = b
  PROVE  (n + 1) % 2 = 1 - b /\ (n + 2) % 2 = b
OBVIOUS

\* The empty chain key is the one of the empty root.
LEMMA EmptyRoot == Len(EmptyChain.root) = 0 /\ EmptyChain.root = << >> /\ EmptyChain.step = 0
BY DEF EmptyChain

-----------------------------------------------------------------------------
\* What Encrypt seals is a message (DoubleRatchet.Encrypt).
LEMMA SealedTyped ==
  ASSUME NEW st \in RatchetStates
  PROVE  /\ SealedMessage(st) \in Messages
         /\ SealedMessage(st).key = st.SendChainKey
         /\ AfterEncrypt(st) \in RatchetStates
         /\ AfterEncrypt(st) = [st EXCEPT !.SendChainKey = AfterEncrypt(st).SendChainKey,
                                         !.SendMessageIndex = st.SendMessageIndex + 1]
         /\ AfterEncrypt(st).SendChainKey = Advance(st.SendChainKey, 1)
<1>1. /\ st.SendChainKey \in ChainKeys /\ st.SendMessageIndex \in Nat
      /\ st.LocalRatchetKey \in Key /\ st.PreviousChainLength \in Nat
  BY DEF RatchetStates
<1>2. Advance(st.SendChainKey, 1) \in ChainKeys
  BY <1>1, AdvanceTyped
<1>3. st.SendMessageIndex + 1 \in Nat
  BY <1>1
<1>4. SealedMessage(st) \in Messages /\ SealedMessage(st).key = st.SendChainKey
  BY <1>1 DEF SealedMessage, Messages
<1>5. AfterEncrypt(st) = [st EXCEPT !.SendChainKey = Advance(st.SendChainKey, 1),
                                    !.SendMessageIndex = st.SendMessageIndex + 1]
  BY DEF AfterEncrypt, RatchetStates
<1>6. AfterEncrypt(st) \in RatchetStates /\ AfterEncrypt(st).SendChainKey = Advance(st.SendChainKey, 1)
  BY <1>2, <1>3, <1>5 DEF RatchetStates
<1>7. QED
  BY <1>4, <1>5, <1>6

\* Encrypt changes the send chain only.
LEMMA EncryptEffect ==
  ASSUME NEW st, WellFormed(st)
  PROVE  LET r == AfterEncrypt(st)
         IN /\ WellFormed(r)
            /\ r.RootKey = st.RootKey
            /\ r.SendChainKey.root = st.SendChainKey.root
            /\ r.ReceiveChainKey = st.ReceiveChainKey
            /\ r.SkippedMessageKeys = st.SkippedMessageKeys
            /\ Past(st.SendChainKey, r.SendChainKey)
            /\ ~Past(st.SendChainKey, st.SendChainKey)
            /\ \A k \in ChainKeys : Past(k, st.SendChainKey) => Past(k, r.SendChainKey)
<1> DEFINE r == AfterEncrypt(st)
<1>1. /\ st \in RatchetStates
      /\ Len(st.SendChainKey.root) \in Nat /\ st.SendChainKey.step \in Nat
  BY Lengths
<1>2. /\ r \in RatchetStates
      /\ r = [st EXCEPT !.SendChainKey = r.SendChainKey,
                        !.SendMessageIndex = st.SendMessageIndex + 1]
      /\ r.SendChainKey = Advance(st.SendChainKey, 1)
  BY <1>1, SealedTyped
<1> HIDE DEF r
<1>3. /\ r.RootKey = st.RootKey
      /\ r.ReceiveChainKey = st.ReceiveChainKey
      /\ r.ReceiveMessageIndex = st.ReceiveMessageIndex
      /\ r.RemoteRatchetKey = st.RemoteRatchetKey
      /\ r.SkippedMessageKeys = st.SkippedMessageKeys
  BY <1>1, <1>2 DEF RatchetStates
<1>4. /\ r.SendChainKey.root = st.SendChainKey.root
      /\ r.SendChainKey.step = st.SendChainKey.step + 1
  BY <1>2 DEF Advance
<1>5. WellFormed(r)
  BY <1>2, <1>3 DEF WellFormed
<1>6. \A k \in ChainKeys : Len(k.root) \in Nat /\ k.step \in Nat
  BY DEF ChainKeys, RootKeys
<1>7. /\ Past(st.SendChainKey, r.SendChainKey)
      /\ ~Past(st.SendChainKey, st.SendChainKey)
      /\ \A k \in ChainKeys : Past(k, st.SendChainKey) => Past(k, r.SendChainKey)
  BY <1>1, <1>4, <1>6 DEF Past
<1>8. QED
  BY <1>3, <1>4, <1>5, <1>7 DEF r

-----------------------------------------------------------------------------
\* The state InitializeAsInitiator builds is well formed, whatever secret and
\* keys it is given, and seals on the root it holds.
LEMMA InitiatorWellFormed ==
  ASSUME NEW secret \in SharedSecret, NEW local \in Key, NEW remote \in Key
  PROVE  LET st == InitializeAsInitiator(secret, local, remote)
         IN /\ WellFormed(st)
            /\ st.RootKey = <<secret, DH(local, remote)>>
            /\ Len(st.RootKey) = 2
            /\ st.SendChainKey = Seed(st.RootKey)
            /\ st.ReceiveChainKey = EmptyChain
            /\ st.LocalRatchetKey = local
            /\ st.SkippedMessageKeys = {}
<1> DEFINE root == <<secret, DH(local, remote)>>
           st   == InitializeAsInitiator(secret, local, remote)
<1>1. root \in RootKeys /\ Len(root) = 2
  <2>1. DH(local, remote) \in SUBSET Key
    BY DEF DH
  <2>2. QED
    BY <2>1 DEF RootKeys
<1>2. /\ st.RootKey = root /\ st.SendChainKey = Seed(root)
      /\ st.SendMessageIndex = 0
      /\ st.ReceiveChainKey = EmptyChain /\ st.ReceiveMessageIndex = 0
      /\ st.LocalRatchetKey = local /\ st.RemoteRatchetKey = remote
      /\ st.SkippedMessageKeys = {}
  BY DEF InitializeAsInitiator
<1>3. st \in RatchetStates
  <2>1. EmptyChain \in ChainKeys /\ Seed(root) \in ChainKeys
    <3> HIDE DEF root
    <3>1. QED
      BY <1>1 DEF EmptyChain, Seed, ChainKeys, RootKeys
  <2>2. root \in RootKeys
    BY <1>1
  <2>3. st = [RootKey |-> root,
              SendChainKey |-> Seed(root),     SendMessageIndex |-> 0,
              ReceiveChainKey |-> EmptyChain,  ReceiveMessageIndex |-> 0,
              LocalRatchetKey |-> local,       RemoteRatchetKey |-> remote,
              PreviousChainLength |-> 0,       SkippedMessageKeys |-> {}]
    BY DEF InitializeAsInitiator
  <2> HIDE DEF root, st
  <2>4. QED
    BY <2>1, <2>2, <2>3 DEF RatchetStates
<1> HIDE DEF root, st
<1>4. WellFormed(st)
  <2>1. Len(st.RootKey) = 2 /\ Len(st.ReceiveChainKey.root) = 0
    BY <1>1, <1>2, EmptyRoot
  <2>2. st.ReceiveChainKey.step = st.ReceiveMessageIndex
    BY <1>2, EmptyRoot
  <2>3. QED
    BY <2>1, <2>2, <1>2, <1>3 DEF WellFormed
<1>5. QED
  BY <1>1, <1>2, <1>4 DEF root, st

\* The state InitializeAsResponder builds is well formed, and its two chains
\* are empty.
LEMMA ResponderWellFormed ==
  ASSUME NEW secret \in SharedSecret, NEW local \in Key
  PROVE  LET st == InitializeAsResponder(secret, local)
         IN /\ WellFormed(st)
            /\ Len(st.RootKey) = 1
            /\ st.SendChainKey = EmptyChain
            /\ st.ReceiveChainKey = EmptyChain
            /\ st.LocalRatchetKey = local
            /\ st.SkippedMessageKeys = {}
<1> DEFINE st == InitializeAsResponder(secret, local)
<1>1. <<secret>> \in RootKeys /\ Len(<<secret>>) = 1
  BY DEF RootKeys
<1>2. EmptyChain \in ChainKeys
  BY DEF EmptyChain, ChainKeys, RootKeys
<1>3. /\ st \in RatchetStates
      /\ st.RootKey = <<secret>> /\ st.SendChainKey = EmptyChain
      /\ st.ReceiveChainKey = EmptyChain /\ st.ReceiveMessageIndex = 0
      /\ st.LocalRatchetKey = local
      /\ st.SkippedMessageKeys = {}
  BY <1>1, <1>2 DEF InitializeAsResponder, RatchetStates
<1> HIDE DEF st
<1>4. WellFormed(st)
  BY <1>1, <1>3, EmptyRoot DEF WellFormed
<1>5. QED
  BY <1>1, <1>3, <1>4 DEF st

\* What Decrypt does to the sending half: nothing, or a ratchet step that seeds
\* a new send chain from a root ending in the output of the new key pair.
KeepsSending(st, r) ==
  /\ r.RootKey = st.RootKey
  /\ r.SendChainKey = st.SendChainKey
  /\ r.LocalRatchetKey = st.LocalRatchetKey

StartsSending(st, r, remote, fresh) ==
  /\ \E receiveRoot \in RootKeys : r.RootKey = Append(receiveRoot, DH(fresh, remote))
  /\ Len(r.RootKey) = Len(st.RootKey) + 2
  /\ r.SendChainKey = Seed(r.RootKey)
  /\ r.LocalRatchetKey = fresh

\* SkipMessages leaves the sending half alone.
LEMMA SkipSending ==
  ASSUME NEW st, WellFormed(st), NEW until \in Nat
  PROVE  KeepsSending(st, SkipMessages(st, until))
BY SkipWellFormed DEF SkipEffect, KeepsSending

\* Decrypt seals nothing new on the chain it had, and a chain of its own only
\* under the key pair just generated (DoubleRatchet.PerformDhRatchetStep).
LEMMA DecryptSending ==
  ASSUME NEW st, WellFormed(st), NEW m \in Messages, NEW fresh \in Key
  PROVE  LET r == Decrypt(st, m, fresh).state
         IN KeepsSending(st, r) \/ StartsSending(st, r, m.pub, fresh)
<1> DEFINE skipped == SkipMessages(st, m.pn)
           stepped == PerformDhRatchetStep(skipped, m.pub, fresh)
           base    == IF st.RemoteRatchetKey = m.pub THEN st ELSE stepped
           at      == ReadyFor(st, m, fresh)
           r       == Decrypt(st, m, fresh).state
<1>1. m.pub \in Key /\ m.pn \in Nat /\ m.idx \in Nat
  BY DEF Messages
<1>2. WellFormed(skipped) /\ KeepsSending(st, skipped)
  BY <1>1, SkipWellFormed, SkipSending
<1>3. WellFormed(stepped) /\ StartsSending(st, stepped, m.pub, fresh)
  <2> DEFINE receiveRoot == Append(skipped.RootKey, DH(skipped.LocalRatchetKey, m.pub))
  <2>1. /\ WellFormed(stepped)
        /\ Len(stepped.RootKey) = Len(skipped.RootKey) + 2
        /\ stepped.SendChainKey = Seed(stepped.RootKey)
        /\ stepped.LocalRatchetKey = fresh
    BY <1>1, <1>2, DhStepEffect
  <2>2. skipped.RootKey \in RootKeys /\ skipped.LocalRatchetKey \in Key
    BY <1>2 DEF WellFormed, RatchetStates
  <2>3. DH(skipped.LocalRatchetKey, m.pub) \in SharedSecret \cup SUBSET Key
    BY <1>1, <2>2 DEF DH
  <2>4. receiveRoot \in RootKeys
    <3> HIDE DEF skipped, Key
    <3>1. QED
      BY <2>2, <2>3 DEF RootKeys
  <2>5. stepped.RootKey = Append(receiveRoot, DH(fresh, m.pub))
    <3>1. skipped \in RatchetStates
      BY <1>2 DEF WellFormed
    <3> HIDE DEF skipped
    <3>2. QED
      BY <3>1 DEF PerformDhRatchetStep, RatchetStates
  <2>6. Len(skipped.RootKey) = Len(st.RootKey)
    BY <1>2 DEF KeepsSending
  <2> HIDE DEF receiveRoot, stepped, skipped
  <2>7. QED
    BY <2>1, <2>4, <2>5, <2>6 DEF StartsSending
<1>4. WellFormed(base)
  BY <1>3
<1>5. at = SkipMessages(base, m.idx)
  BY DEF ReadyFor
<1> HIDE DEF skipped, stepped, at
<1>6. KeepsSending(base, at)
  <2> HIDE DEF base
  <2>1. QED
    BY <1>1, <1>4, <1>5, SkipSending
<1>7. KeepsSending(st, at) \/ StartsSending(st, at, m.pub, fresh)
  BY <1>3, <1>6 DEF KeepsSending, StartsSending
<1>8. CASE HeldFor(st, m) # {}
  <2>1. r = [st EXCEPT !.SkippedMessageKeys = @ \ HeldFor(st, m)]
    BY <1>8 DEF Decrypt, OpenWithSkipped
  <2>2. st \in RatchetStates
    BY DEF WellFormed
  <2> HIDE DEF r
  <2>3. KeepsSending(st, r)
    BY <2>1, <2>2 DEF KeepsSending, RatchetStates
  <2>4. QED
    BY <2>3 DEF r
<1>9. CASE HeldFor(st, m) = {}
  <2>1. r = [at EXCEPT !.ReceiveChainKey = Advance(@, 1), !.ReceiveMessageIndex = @ + 1]
    BY <1>9 DEF Decrypt, OpenWithChain, at
  <2>2. at \in RatchetStates
    BY ReadyForKeepsPast DEF WellFormed, at
  <2> HIDE DEF r
  <2>3. KeepsSending(at, r)
    BY <2>1, <2>2 DEF KeepsSending, RatchetStates
  <2>4. QED
    BY <2>3, <1>7 DEF KeepsSending, StartsSending, r
<1>10. QED
  BY <1>8, <1>9

=============================================================================
