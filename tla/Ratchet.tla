------------------------------ MODULE Ratchet ------------------------------
(***************************************************************************)
(* The Double Ratchet (ToledoVault.Crypto/Protocol/DoubleRatchet.cs) as    *)
(* operators on a session state, with symbolic cryptography: a key pair is *)
(* named by its public half, a Diffie-Hellman output is the set of the two *)
(* public halves, HKDF appends that output to the root key, and a chain    *)
(* key is the root it was seeded from plus the number of steps taken.  Two *)
(* keys are equal exactly when the program would derive equal bytes, and   *)
(* AES-GCM opens a ciphertext exactly under the key that sealed it.        *)
(***************************************************************************)
EXTENDS Integers, Sequences, FiniteSets

CONSTANTS MaxSkippedKeys,   \* DoubleRatchet.MaxSkippedKeys, 100 in the code
          Party,            \* the devices that generate key pairs
          NoKey,            \* the empty array [] in place of a public key
          SharedSecret      \* the root keys X3DH hands to the ratchet

\* X25519 key pairs are random: the n-th pair a device generates is its own.
KeyPair(p, n) == <<p, n>>
Key           == Party \X Nat

ASSUME RatchetAssumption == MaxSkippedKeys \in Nat /\ NoKey \notin Key

DH(local, remote) == {local, remote}

RootKeys   == Seq(SharedSecret \cup SUBSET Key)
ChainKeys  == [root : RootKeys, step : Nat]
EmptyChain == [root |-> << >>, step |-> 0]      \* the empty array []
Seed(root) == [root |-> root, step |-> 0]

\* n calls of MessageKeys.DeriveKeys.  A message key is named by the chain key
\* it is derived from.
Advance(chain, n) == [root |-> chain.root, step |-> chain.step + n]

SkippedKeys == [pub : {NoKey} \cup Key, idx : Nat, key : ChainKeys]

RatchetStates ==
  [RootKey : RootKeys,
   SendChainKey : ChainKeys,    SendMessageIndex : Nat,
   ReceiveChainKey : ChainKeys, ReceiveMessageIndex : Nat,
   LocalRatchetKey : Key,       RemoteRatchetKey : {NoKey} \cup Key,
   PreviousChainLength : Nat,   SkippedMessageKeys : SUBSET SkippedKeys]

\* The three header fields, and the key that sealed the payload.
Messages == [pub : Key, pn : Nat, idx : Nat, key : ChainKeys]

-----------------------------------------------------------------------------
InitializeAsInitiator(secret, local, remote) ==
  LET root == <<secret, DH(local, remote)>>
  IN [RootKey |-> root,
      SendChainKey |-> Seed(root),     SendMessageIndex |-> 0,
      ReceiveChainKey |-> EmptyChain,  ReceiveMessageIndex |-> 0,
      LocalRatchetKey |-> local,       RemoteRatchetKey |-> remote,
      PreviousChainLength |-> 0,       SkippedMessageKeys |-> {}]

InitializeAsResponder(secret, local) ==
  [RootKey |-> <<secret>>,
   SendChainKey |-> EmptyChain,     SendMessageIndex |-> 0,
   ReceiveChainKey |-> EmptyChain,  ReceiveMessageIndex |-> 0,
   LocalRatchetKey |-> local,       RemoteRatchetKey |-> NoKey,
   PreviousChainLength |-> 0,       SkippedMessageKeys |-> {}]

-----------------------------------------------------------------------------
(* Encrypt: the message, and the state after it.  Nothing stops a caller   *)
(* whose SendChainKey is still empty.                                       *)
\* A mutant: the header names the message before.
SealedMessageBefore(st) ==
  [pub |-> st.LocalRatchetKey, pn |-> st.PreviousChainLength,
   idx |-> st.SendMessageIndex - 1, key |-> st.SendChainKey]

SealedMessage(st) ==
  [pub |-> st.LocalRatchetKey, pn |-> st.PreviousChainLength,
   idx |-> st.SendMessageIndex, key |-> st.SendChainKey]

\* A mutant: the chain key is not replaced by its successor.
AfterEncryptSameKey(st) == [st EXCEPT !.SendMessageIndex = @ + 1]

AfterEncrypt(st) ==
  [st EXCEPT !.SendChainKey = Advance(@, 1), !.SendMessageIndex = @ + 1]

-----------------------------------------------------------------------------
(* SkipMessages: the loop stores one key per index until it reaches        *)
(* `until' or the dictionary is full; SkippedTo is its state at index j,   *)
(* where assigning to an id that is already present replaces its key.      *)
SkippedTo(st, j) ==
  LET from  == st.ReceiveMessageIndex
      chain == st.ReceiveChainKey
      kept  == {e \in st.SkippedMessageKeys :
                  ~(e.pub = st.RemoteRatchetKey /\ e.idx \in from .. (j - 1))}
      added == {[pub |-> st.RemoteRatchetKey, idx |-> i,
                 key |-> Advance(chain, i - from)] : i \in from .. (j - 1)}
  IN [st EXCEPT !.SkippedMessageKeys  = kept \cup added,
                !.ReceiveChainKey     = Advance(chain, j - from),
                !.ReceiveMessageIndex = j]

\* The indices at which the loop body runs.  The dictionary only grows while
\* the loop runs, so these are the first ones from ReceiveMessageIndex on.
\* A mutant: the dictionary counts as full one entry early.
SkipIterationsShort(st, until) ==
  {i \in st.ReceiveMessageIndex .. (until - 1) :
     Cardinality(SkippedTo(st, i).SkippedMessageKeys) + 1 < MaxSkippedKeys}

SkipIterations(st, until) ==
  {i \in st.ReceiveMessageIndex .. (until - 1) :
     Cardinality(SkippedTo(st, i).SkippedMessageKeys) < MaxSkippedKeys}

SkipMessages(st, until) ==
  IF st.ReceiveChainKey = EmptyChain
  THEN st
  ELSE SkippedTo(st, st.ReceiveMessageIndex + Cardinality(SkipIterations(st, until)))

PerformDhRatchetStep(st, remote, fresh) ==
  LET receiveRoot == Append(st.RootKey, DH(st.LocalRatchetKey, remote))
      sendRoot    == Append(receiveRoot, DH(fresh, remote))
  IN [st EXCEPT !.PreviousChainLength = st.SendMessageIndex,
                !.RemoteRatchetKey    = remote,
                !.SendMessageIndex    = 0,
                !.ReceiveMessageIndex = 0,
                !.ReceiveChainKey     = Seed(receiveRoot),
                !.LocalRatchetKey     = fresh,
                !.SendChainKey        = Seed(sendRoot),
                !.RootKey             = sendRoot]

-----------------------------------------------------------------------------
(* Decrypt, whose AES-GCM step succeeds exactly when `key' sealed m; a     *)
(* failure throws, and the callers then do not save the state.             *)
HeldFor(st, m) ==
  {e \in st.SkippedMessageKeys : e.pub = m.pub /\ e.idx = m.idx}

\* A mutant: the key is used and kept.
OpenWithSkippedKept(st, m) ==
  [key |-> (CHOOSE e \in HeldFor(st, m) : TRUE).key, state |-> st]

OpenWithSkipped(st, m) ==
  [key   |-> (CHOOSE e \in HeldFor(st, m) : TRUE).key,
   state |-> [st EXCEPT !.SkippedMessageKeys = @ \ HeldFor(st, m)]]

\* A mutant: the rest of the chain that ends is not skipped.
ReadyForNextChain(st, m, fresh) ==
  SkipMessages(IF st.RemoteRatchetKey = m.pub
               THEN st
               ELSE PerformDhRatchetStep(st, m.pub, fresh),
               m.idx)

\* The state once the receive chain stands at the index of m.
ReadyFor(st, m, fresh) ==
  SkipMessages(IF st.RemoteRatchetKey = m.pub
               THEN st
               ELSE PerformDhRatchetStep(SkipMessages(st, m.pn), m.pub, fresh),
               m.idx)

\* A mutant: the chain key is not replaced by its successor.
OpenWithChainKept(st, m, fresh) ==
  LET at == ReadyFor(st, m, fresh)
  IN [key   |-> at.ReceiveChainKey,
      state |-> [at EXCEPT !.ReceiveMessageIndex = @ + 1]]

OpenWithChain(st, m, fresh) ==
  LET at == ReadyFor(st, m, fresh)
  IN [key   |-> at.ReceiveChainKey,
      state |-> [at EXCEPT !.ReceiveChainKey = Advance(@, 1),
                           !.ReceiveMessageIndex = @ + 1]]

Decrypt(st, m, fresh) ==
  IF HeldFor(st, m) # {} THEN OpenWithSkipped(st, m) ELSE OpenWithChain(st, m, fresh)

Opens(st, m, fresh) == Decrypt(st, m, fresh).key = m.key

=============================================================================
