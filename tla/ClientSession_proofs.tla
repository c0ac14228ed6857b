------------------------ MODULE ClientSession_proofs ------------------------
(***************************************************************************)
(* ClientSession, for any number of messages and reloads.  TypeCorrect, of *)
(* any calls and tabs.  With one call at a time on a device: the keys of   *)
(* agreed chains are unique across every reload; and, until a page is      *)
(* reloaded, the services implement RatchetChannel and its guarantees hold *)
(* of the stored sessions.  The first argument is about what a device may  *)
(* still seal with (Held): never a key at or behind one it has used.  The  *)
(* second is that the cache and localStorage agree at every await.         *)
(***************************************************************************)
EXTENDS ClientSession, Ratchet_proofs

\* The session states that occur.
Sound == {st \in RatchetStates : WellFormed(st)}

\* What localStorage and a cache hold, in such states.
SoundCells == [state : SUBSET Sound, mac : SUBSET Sound]

\* The awaits a call can be at.
Steps == {"idle", "state", "mac", "delete", "prekeys", "otpk", "established",
          "ready", "opening", "save", "saved"}

\* Calls whose session states occur.
SoundCalls ==
  [step : Steps, first : BOOLEAN, job : Nat, got : SUBSET Sound, session : SUBSET Sound,
   message : SUBSET Channel!WireMessages, before : SUBSET Sound]

\* A call of p sends, or receives a message the peer has sent.
Jobs(p) == {Sending} \cup DOMAIN sent[Channel!Peer(p)]

\* The types of the variables, in four parts.
PlacesTyped == disk \in [Party -> SoundCells] /\ cache \in [Party -> [Tab -> SoundCells]]
CallsTyped  == ops \in [Party -> [Op -> SoundCalls]]
RestTyped ==
  /\ initiation \in [Party -> SUBSET Tab] /\ otpk \in BOOLEAN
  /\ generated \in [Party -> Nat] /\ reloads \in Nat
  /\ sent \in [Party -> Seq(Channel!WireMessages)]
  /\ accepted \in [Party -> SUBSET Nat]
  /\ \A p \in Party : accepted[p] \subseteq DOMAIN sent[Channel!Peer(p)]
\* Only a receive gets to build a session.
Fits(call) ==
  call.step \in {"prekeys", "otpk", "established", "ready", "opening"} => call.job # Sending

JobsTyped == \A p \in Party, o \in Op : ops[p][o].job \in Jobs(p) /\ Fits(ops[p][o])

\* The inductive invariant behind TypeOK.
Typed == PlacesTyped /\ CallsTyped /\ RestTyped /\ JobsTyped

-----------------------------------------------------------------------------
\* Sealing and opening stay within the states that occur (DoubleRatchet.Encrypt,
\* Decrypt).
LEMMA SoundStates ==
  /\ Sound \subseteq RatchetStates
  /\ \A st \in Sound :
       /\ SealedMessage(st) \in Messages
       /\ AfterEncrypt(st) \in Sound
  /\ \A st \in Sound, m \in Messages, fresh \in Key :
       Decrypt(st, m, fresh).state \in Sound
<1>1. ASSUME NEW st \in Sound
      PROVE  SealedMessage(st) \in Messages /\ AfterEncrypt(st) \in Sound
  <2>1. st \in RatchetStates /\ WellFormed(st)
    BY DEF Sound
  <2>2. WellFormed(AfterEncrypt(st))
    BY <2>1, EncryptEffect
  <2>3. SealedMessage(st) \in Messages /\ AfterEncrypt(st) \in RatchetStates
    BY <2>1, SealedTyped
  <2>4. QED
    BY <2>2, <2>3 DEF Sound
<1>2. ASSUME NEW st \in Sound, NEW m \in Messages, NEW fresh \in Key
      PROVE  Decrypt(st, m, fresh).state \in Sound
  <2>1. WellFormed(st)
    BY DEF Sound
  <2>2. WellFormed(Decrypt(st, m, fresh).state)
    BY <2>1, DecryptSpends
  <2>3. QED
    BY <2>2 DEF Sound, WellFormed
<1>3. QED
  BY <1>1, <1>2 DEF Sound

\* The two devices are each other's peer.
LEMMA Peers ==
  ASSUME NEW p \in Party
  PROVE  /\ Channel!Peer(p) \in Party /\ Channel!Peer(p) # p
         /\ Channel!Peer(Channel!Peer(p)) = p
BY SessionAssumption DEF Channel!Peer

\* The operators of Ratchet that RatchetChannel uses are those of Ratchet.
LEMMA SameTypes ==
  /\ Channel!Key = Key /\ Channel!SignedPreKey = KeyPair(Responder, 0)
  /\ Channel!WireMessages = [ratchet : Messages, prekey : BOOLEAN]
<1>1. Channel!Key = Key
  BY DEF Channel!Key, Key
<1>2. Channel!SignedPreKey = KeyPair(Responder, 0)
  BY DEF Channel!SignedPreKey, Channel!KeyPair, KeyPair
<1>3. Channel!ChainKeys = ChainKeys
  BY <1>1 DEF Channel!ChainKeys, ChainKeys, Channel!RootKeys, RootKeys
<1>4. QED
  BY <1>1, <1>2, <1>3 DEF Channel!WireMessages, Channel!Messages, Messages

\* Both initialisations of DoubleRatchet give states that occur.
LEMMA StartStates ==
  /\ InitializeAsInitiator(Secret, KeyPair(Initiator, 0), Channel!SignedPreKey) \in Sound
  /\ \A secret \in {Secret, WrongSecret} :
       InitializeAsResponder(secret, Channel!SignedPreKey) \in Sound
<1>1. KeyPair(Initiator, 0) \in Key /\ Channel!SignedPreKey \in Key
  BY SessionAssumption, SameTypes DEF KeyPair, Key
<1>2. WellFormed(InitializeAsInitiator(Secret, KeyPair(Initiator, 0), Channel!SignedPreKey))
  BY <1>1, SessionAssumption, InitiatorWellFormed
<1>3. ASSUME NEW secret \in {Secret, WrongSecret}
      PROVE  WellFormed(InitializeAsResponder(secret, Channel!SignedPreKey))
  BY <1>1, SessionAssumption, ResponderWellFormed
<1>4. QED
  BY <1>2, <1>3 DEF Sound, WellFormed

-----------------------------------------------------------------------------
\* The types of the fields of a call.
LEMMA CallFields ==
  ASSUME NEW call \in SoundCalls
  PROVE  /\ call.step \in Steps /\ call.first \in BOOLEAN /\ call.job \in Nat
         /\ call.got \subseteq Sound /\ call.session \subseteq Sound
         /\ call.message \subseteq Channel!WireMessages /\ call.before \subseteq Sound
BY DEF SoundCalls

\* No call in progress is a call of the right shape.
LEMMA IdleTyped == Idle \in SoundCalls /\ Idle.job = Sending /\ Fits(Idle)
BY DEF Idle, SoundCalls, Steps, Sending, Fits

\* A cell stays typed when one of its values is written.
LEMMA CellTyped ==
  ASSUME NEW c \in SoundCells, NEW field \in {"state", "mac"}, NEW value \in SUBSET Sound
  PROVE  [c EXCEPT ![field] = value] \in SoundCells
BY DEF SoundCells

\* The table of calls stays typed when one call moves on.
LEMMA BecomesTyped ==
  ASSUME CallsTyped, NEW p \in Party, NEW o \in Op, NEW call \in SoundCalls,
         Becomes(p, o, call)
  PROVE  CallsTyped' /\ ops'[p][o] = call
BY DEF CallsTyped, Becomes

\* The caches stay typed when one of them is written.
LEMMA CachesTyped ==
  ASSUME PlacesTyped, NEW p \in Party, NEW o \in Op, NEW c \in SoundCells, Caches(p, o, c)
  PROVE  cache' \in [Party -> [Tab -> SoundCells]]
BY SessionAssumption DEF PlacesTyped, Caches

\* LocalStorageService.SetAsync writes a typed value to both places.
LEMMA StoreTyped ==
  ASSUME PlacesTyped, NEW p \in Party, NEW o \in Op, NEW c \in SoundCells,
         NEW field \in {"state", "mac"}, NEW value \in SUBSET Sound,
         StoreAsync(p, o, c, field, value)
  PROVE  PlacesTyped'
<1>1. [c EXCEPT ![field] = value] \in SoundCells
  BY CellTyped
<1>2. cache' \in [Party -> [Tab -> SoundCells]]
  BY <1>1, CachesTyped DEF StoreAsync
<1>3. disk' = [disk EXCEPT ![p] = [disk[p] EXCEPT ![field] = value]]
  BY DEF StoreAsync
<1>4. [disk[p] EXCEPT ![field] = value] \in SoundCells
  BY CellTyped DEF PlacesTyped
<1>5. QED
  BY <1>2, <1>3, <1>4 DEF PlacesTyped

\* LocalStorageService.RemoveAsync clears it in both places.
LEMMA DeleteTyped ==
  ASSUME PlacesTyped, NEW p \in Party, NEW o \in Op, NEW c \in SoundCells,
         NEW field \in {"state", "mac"}, DeleteAsync(p, o, c, field)
  PROVE  PlacesTyped'
<1>1. StoreAsync(p, o, c, field, {})
  BY DEF DeleteAsync, StoreAsync
<1>2. QED
  BY <1>1, StoreTyped

\* Every message a call works on is one the peer sent.
LEMMA WireTyped ==
  ASSUME RestTyped, NEW p \in Party, NEW job \in Jobs(p), job # Sending
  PROVE  /\ Wire(p, job) \in Channel!WireMessages
         /\ Wire(p, job).ratchet \in Messages
         /\ Wire(p, job).prekey \in BOOLEAN
<1>1. sent[Channel!Peer(p)] \in Seq(Channel!WireMessages)
  BY Peers DEF RestTyped
<1>2. Wire(p, job) \in Channel!WireMessages
  BY <1>1 DEF Wire, Jobs
<1>3. QED
  BY <1>2, SameTypes

\* What a stretch of code between two awaits may leave behind.
Kept(p, o, call) ==
  /\ PlacesTyped' /\ CallsTyped'
  /\ initiation' \in [Party -> SUBSET Tab] /\ generated' \in [Party -> Nat]
  /\ ops' = [ops EXCEPT ![p][o] = ops'[p][o]]
  /\ ops'[p][o].job \in {call.job, Sending} /\ Fits(ops'[p][o])

\* A load that finds no session goes on to the pre-keys or ends.
LEMMA NoSessionKept ==
  ASSUME Typed, NEW p \in Party, NEW o \in Op, NEW call \in SoundCalls,
         NoSession(p, o, call)
  PROVE  /\ CallsTyped' /\ ops' = [ops EXCEPT ![p][o] = ops'[p][o]]
         /\ ops'[p][o].job \in {call.job, Sending} /\ Fits(ops'[p][o])
<1>1. PICK new \in SoundCalls :
        Becomes(p, o, new) /\ new.job \in {call.job, Sending} /\ Fits(new)
  <2> DEFINE wait == [call EXCEPT !.step = "prekeys", !.session = {}, !.got = {}]
  <2>1. wait \in SoundCalls /\ wait.job = call.job
    BY DEF SoundCalls, Steps
  <2> HIDE DEF wait
  <2>2. \/ Becomes(p, o, wait) /\ call.job # Sending
        \/ Becomes(p, o, Idle)
    BY DEF NoSession, Returns, wait
  <2>3. QED
    BY <2>1, <2>2, IdleTyped DEF Fits
<1>2. CallsTyped' /\ ops'[p][o] = new
  BY <1>1, BecomesTyped DEF Typed
<1>3. QED
  BY <1>1, <1>2 DEF Becomes

\* SaveSessionAsync stores a typed state and goes on with the same job.
LEMMA SavesKept ==
  ASSUME PlacesTyped, CallsTyped, NEW p \in Party, NEW o \in Op, NEW call \in SoundCalls,
         NEW c \in SoundCells, NEW new \in Sound, Saves(p, o, call, c, new)
  PROVE  /\ PlacesTyped' /\ CallsTyped' /\ ops' = [ops EXCEPT ![p][o] = ops'[p][o]]
         /\ ops'[p][o].job = call.job /\ Fits(ops'[p][o])
<1> DEFINE saving == [call EXCEPT !.step = "save", !.session = {new}, !.got = {}]
<1>1. saving \in SoundCalls /\ saving.job = call.job /\ Fits(saving)
  BY DEF SoundCalls, Steps, Fits
<1> HIDE DEF saving
<1>2. StoreAsync(p, o, c, "state", {new}) /\ Becomes(p, o, saving)
  BY DEF Saves, saving
<1>3. PlacesTyped'
  BY <1>2, StoreTyped
<1>4. CallsTyped' /\ ops'[p][o] = saving
  BY <1>1, <1>2, BecomesTyped
<1>5. QED
  BY <1>1, <1>2, <1>3, <1>4 DEF Becomes

\* EncryptBytesAsync with a session leaves a typed message and session.
LEMMA SealsKept ==
  ASSUME Typed, NEW p \in Party, NEW o \in Op, NEW call \in SoundCalls,
         NEW c \in SoundCells, NEW st \in Sound, Seals(p, o, call, c, st)
  PROVE  Kept(p, o, call)
<1> DEFINE message == [ratchet |-> SealedMessage(st), prekey |-> TabOf[o] \in initiation[p]]
           sealing == [call EXCEPT !.message = {message}]
<1>1. message \in Channel!WireMessages
  BY SoundStates, SameTypes
<1> HIDE DEF message
<1>2. sealing \in SoundCalls /\ sealing.job = call.job
  BY <1>1 DEF SoundCalls
<1> HIDE DEF sealing
<1>3. /\ initiation' = [initiation EXCEPT ![p] = @ \ {TabOf[o]}]
      /\ Saves(p, o, sealing, c, AfterEncrypt(st))
      /\ generated' = generated
  BY DEF Seals, sealing, message
<1>4. AfterEncrypt(st) \in Sound
  BY SoundStates
<1>5. /\ PlacesTyped' /\ CallsTyped' /\ ops' = [ops EXCEPT ![p][o] = ops'[p][o]]
      /\ ops'[p][o].job = call.job /\ Fits(ops'[p][o])
  BY <1>2, <1>3, <1>4, SavesKept DEF Typed
<1>6. initiation' \in [Party -> SUBSET Tab] /\ generated' \in [Party -> Nat]
  BY <1>3 DEF Typed, RestTyped
<1>7. QED
  BY <1>5, <1>6 DEF Kept

\* The next key pair of a device is a key.
LEMMA FreshTyped ==
  ASSUME Typed, NEW p \in Party
  PROVE  KeyPair(p, generated[p] + 1) \in Key
BY DEF Typed, RestTyped, KeyPair, Key

\* DecryptToBytesAsync with a session leaves a typed session, or the one it had.
LEMMA UnsealsKept ==
  ASSUME Typed, NEW p \in Party, NEW o \in Op, NEW call \in SoundCalls,
         call.job \in Jobs(p), call.job # Sending,
         NEW c \in SoundCells, NEW st \in Sound, Unseals(p, o, call, c, st)
  PROVE  Kept(p, o, call)
<1> DEFINE m     == Wire(p, call.job).ratchet
           fresh == KeyPair(p, generated[p] + 1)
           new   == Decrypt(st, m, fresh).state
<1>1. m \in Messages /\ fresh \in Key
  BY WireTyped, FreshTyped DEF Typed
<1>2. new \in Sound
  BY <1>1, SoundStates
<1>3. \/ /\ Saves(p, o, call, c, new)
         /\ generated' = [generated EXCEPT
               ![p] = IF new.LocalRatchetKey = fresh THEN @ + 1 ELSE @]
      \/ /\ Returns(p, o) /\ Caches(p, o, c)
         /\ UNCHANGED <<disk, generated>>
  BY DEF Unseals
<1>4. initiation' = initiation
  BY DEF Unseals
<1> HIDE DEF m, fresh, new
<1>5. CASE /\ Saves(p, o, call, c, new)
           /\ generated' = [generated EXCEPT
                 ![p] = IF new.LocalRatchetKey = fresh THEN @ + 1 ELSE @]
  <2>1. /\ PlacesTyped' /\ CallsTyped' /\ ops' = [ops EXCEPT ![p][o] = ops'[p][o]]
        /\ ops'[p][o].job = call.job /\ Fits(ops'[p][o])
    BY <1>2, <1>5, SavesKept DEF Typed
  <2>2. generated' \in [Party -> Nat] /\ initiation' \in [Party -> SUBSET Tab]
    BY <1>4, <1>5 DEF Typed, RestTyped
  <2>3. QED
    BY <2>1, <2>2 DEF Kept
<1>6. CASE /\ Returns(p, o) /\ Caches(p, o, c)
           /\ UNCHANGED <<disk, generated>>
  <2>1. Becomes(p, o, Idle)
    BY <1>6 DEF Returns
  <2>2. CallsTyped' /\ ops'[p][o] = Idle
    BY <2>1, IdleTyped, BecomesTyped DEF Typed
  <2>3. ops' = [ops EXCEPT ![p][o] = ops'[p][o]]
    BY <2>1, <2>2 DEF Becomes
  <2>4. PlacesTyped'
    <3>1. cache' \in [Party -> [Tab -> SoundCells]]
      BY <1>6, CachesTyped DEF Typed
    <3>2. QED
      BY <3>1, <1>6 DEF Typed, PlacesTyped
  <2>5. generated' \in [Party -> Nat] /\ initiation' \in [Party -> SUBSET Tab]
    BY <1>4, <1>6 DEF Typed, RestTyped
  <2>6. QED
    BY <2>2, <2>3, <2>4, <2>5, IdleTyped DEF Kept
<1>7. QED
  BY <1>3, <1>5, <1>6

\* The end of LoadSessionAsync, with any HMAC.
LEMMA VerifiedKept ==
  ASSUME Typed, NEW p \in Party, NEW o \in Op, NEW call \in SoundCalls, call.job \in Jobs(p),
         NEW c \in SoundCells, NEW st \in Sound, NEW mac \in SUBSET Sound,
         Verified(p, o, call, c, st, mac)
  PROVE  Kept(p, o, call)
<1> DEFINE found    == [call EXCEPT !.before = disk[p].state]
           deleting == [call EXCEPT !.step = "delete", !.got = {}, !.session = {}]
<1>1. disk[p].state \subseteq Sound
  BY DEF Typed, PlacesTyped, SoundCells
<1>2. found \in SoundCalls /\ found.job = call.job
  BY <1>1 DEF SoundCalls
<1>3. deleting \in SoundCalls /\ deleting.job = call.job /\ Fits(deleting)
  BY DEF SoundCalls, Steps, Fits
<1>4. \/ call.job = Sending /\ Seals(p, o, found, c, st)
      \/ call.job # Sending /\ Unseals(p, o, found, c, st)
      \/ /\ DeleteAsync(p, o, c, "state") /\ Becomes(p, o, deleting)
         /\ UNCHANGED <<generated, initiation>>
  BY DEF Verified
<1> HIDE DEF found, deleting
<1>5. CASE Seals(p, o, found, c, st)
  <2>1. Kept(p, o, found)
    BY <1>2, <1>5, SealsKept
  <2>2. QED
    BY <1>2, <2>1 DEF Kept
<1>6. CASE call.job # Sending /\ Unseals(p, o, found, c, st)
  <2>1. Kept(p, o, found)
    BY <1>2, <1>6, UnsealsKept
  <2>2. QED
    BY <1>2, <2>1 DEF Kept
<1>7. CASE /\ DeleteAsync(p, o, c, "state") /\ Becomes(p, o, deleting)
           /\ UNCHANGED <<generated, initiation>>
  <2>1. PlacesTyped'
    BY <1>7, DeleteTyped DEF Typed
  <2>2. CallsTyped' /\ ops'[p][o] = deleting
    BY <1>3, <1>7, BecomesTyped DEF Typed
  <2>3. ops' = [ops EXCEPT ![p][o] = ops'[p][o]]
    BY <1>7, <2>2 DEF Becomes
  <2>4. generated' \in [Party -> Nat] /\ initiation' \in [Party -> SUBSET Tab]
    BY <1>7 DEF Typed, RestTyped
  <2>5. QED
    BY <1>3, <2>1, <2>2, <2>3, <2>4 DEF Kept
<1>8. QED
  BY <1>4, <1>5, <1>6, <1>7

\* LoadSessionAsync once the state is read.
LEMMA LoadedKept ==
  ASSUME Typed, NEW p \in Party, NEW o \in Op, NEW call \in SoundCalls, call.job \in Jobs(p),
         NEW c \in SoundCells, NEW st \in Sound, Loaded(p, o, call, c, st)
  PROVE  Kept(p, o, call)
<1> DEFINE reading == [call EXCEPT !.step = "mac", !.got = disk[p].mac, !.session = {st}]
<1>1. c.mac \in SUBSET Sound /\ disk[p].mac \subseteq Sound
  BY DEF Typed, PlacesTyped, SoundCells
<1>2. reading \in SoundCalls /\ reading.job = call.job /\ Fits(reading)
  BY <1>1 DEF SoundCalls, Steps, Fits
<1>3. \/ Verified(p, o, call, c, st, c.mac)
      \/ /\ Becomes(p, o, reading) /\ Caches(p, o, c)
         /\ UNCHANGED <<disk, generated, initiation>>
  BY DEF Loaded
<1> HIDE DEF reading
<1>4. CASE Verified(p, o, call, c, st, c.mac)
  BY <1>1, <1>4, VerifiedKept
<1>5. CASE /\ Becomes(p, o, reading) /\ Caches(p, o, c)
           /\ UNCHANGED <<disk, generated, initiation>>
  <2>1. CallsTyped' /\ ops'[p][o] = reading
    BY <1>2, <1>5, BecomesTyped DEF Typed
  <2>2. ops' = [ops EXCEPT ![p][o] = ops'[p][o]]
    BY <1>5, <2>1 DEF Becomes
  <2>3. cache' \in [Party -> [Tab -> SoundCells]]
    BY <1>5, CachesTyped DEF Typed
  <2>4. PlacesTyped'
    BY <1>5, <2>3 DEF Typed, PlacesTyped
  <2>5. generated' \in [Party -> Nat] /\ initiation' \in [Party -> SUBSET Tab]
    BY <1>5 DEF Typed, RestTyped
  <2>6. QED
    BY <1>2, <2>1, <2>2, <2>4, <2>5 DEF Kept
<1>6. QED
  BY <1>3, <1>4, <1>5

\* A stretch of code that leaves the rest alone keeps the types.
LEMMA KeptTyped ==
  ASSUME Typed, NEW p \in Party, NEW o \in Op, NEW call, call.job \in Jobs(p),
         Kept(p, o, call), UNCHANGED <<otpk, reloads, sent, accepted>>
  PROVE  Typed'
<1>1. PlacesTyped' /\ CallsTyped'
  BY DEF Kept
<1>2. RestTyped'
  BY DEF Kept, Typed, RestTyped
<1>3. JobsTyped'
  <2>1. SUFFICES ASSUME NEW q \in Party, NEW r \in Op
                 PROVE  ops'[q][r].job \in Jobs(q) /\ Fits(ops'[q][r])
    BY DEF JobsTyped, Jobs, Fits
  <2>2. CASE q = p /\ r = o
    BY <2>2 DEF Kept, Jobs
  <2>3. CASE ~(q = p /\ r = o)
    <3>1. ops'[q][r] = ops[q][r]
      BY <2>3 DEF Kept, Typed, CallsTyped
    <3>2. QED
      BY <3>1 DEF Typed, JobsTyped
  <2>4. QED
    BY <2>2, <2>3
<1>4. QED
  BY <1>1, <1>2, <1>3 DEF Typed

\* The call a step goes on with.
LEMMA ResumedTyped ==
  ASSUME Typed, NEW p \in Party, NEW o \in Op
  PROVE  /\ ops[p][o] \in SoundCalls
         /\ Resumed(p, o) = [ops[p][o] EXCEPT !.first = FALSE]
         /\ Resumed(p, o) \in SoundCalls
         /\ Resumed(p, o).job = ops[p][o].job
         /\ Resumed(p, o).job \in Jobs(p)
         /\ Fits(ops[p][o]) /\ Fits(Resumed(p, o))
         /\ cache[p][TabOf[o]] \in SoundCells /\ disk[p] \in SoundCells
<1>1. ops[p][o] \in SoundCalls
  BY DEF Typed, CallsTyped
<1>2. Resumed(p, o) \in SoundCalls /\ Resumed(p, o).job = ops[p][o].job
  BY <1>1 DEF Resumed, SoundCalls
<1>3. cache[p][TabOf[o]] \in SoundCells /\ disk[p] \in SoundCells
  BY SessionAssumption DEF Typed, PlacesTyped
<1>4. QED
  BY <1>1, <1>2, <1>3 DEF Typed, JobsTyped, Resumed, SoundCalls, Fits

\* A step that only writes one cell of localStorage and moves the call on.
LEMMA WriteTyped ==
  ASSUME Typed, NEW p \in Party, NEW o \in Op, NEW call \in SoundCalls,
         NEW new \in SoundCalls, call.job \in Jobs(p), new.job = call.job,
         Fits(new), Becomes(p, o, new), PlacesTyped', otpk' \in BOOLEAN,
         UNCHANGED <<initiation, generated, reloads, sent, accepted>>
  PROVE  Typed'
<1>1. CallsTyped' /\ ops'[p][o] = new
  BY BecomesTyped DEF Typed
<1>2. ops' = [ops EXCEPT ![p][o] = new]
  BY DEF Becomes
<1>3. RestTyped'
  BY DEF Typed, RestTyped
<1>4. JobsTyped'
  <2>1. SUFFICES ASSUME NEW q \in Party, NEW r \in Op
                 PROVE  ops'[q][r].job \in Jobs(q) /\ Fits(ops'[q][r])
    BY DEF JobsTyped, Jobs, Fits
  <2>2. CASE q = p /\ r = o
    BY <2>2, <1>1
  <2>3. CASE ~(q = p /\ r = o)
    <3>1. ops'[q][r] = ops[q][r]
      BY <2>3, <1>2 DEF Typed, CallsTyped
    <3>2. QED
      BY <3>1 DEF Typed, JobsTyped
  <2>4. QED
    BY <2>2, <2>3
<1>5. QED
  BY <1>1, <1>3, <1>4 DEF Typed

\* EncryptBytesAsync and DecryptToBytesAsync up to their first await keep the types.
LEMMA StartTyped ==
  ASSUME Typed, NEW p \in Party, NEW o \in Op, NEW job \in Jobs(p), Start(p, o, job)
  PROVE  Typed'
<1> DEFINE c       == cache[p][TabOf[o]]
           call    == [Idle EXCEPT !.job = job, !.first = TRUE]
           waiting == [call EXCEPT !.step = "state", !.got = disk[p].state]
<1>1. c \in SoundCells /\ disk[p] \in SoundCells
  BY ResumedTyped
<1>2. job \in Nat
  <2>1. sent[Channel!Peer(p)] \in Seq(Channel!WireMessages)
    BY Peers DEF Typed, RestTyped
  <2>2. QED
    BY <2>1 DEF Jobs, Sending
<1>3. call \in SoundCalls /\ call.job = job
  BY <1>2, IdleTyped DEF SoundCalls
<1>4. disk[p].state \subseteq Sound /\ c.state \subseteq Sound
  BY <1>1 DEF SoundCells
<1>5. waiting \in SoundCalls /\ waiting.job = job /\ Fits(waiting)
  <2> HIDE DEF call
  <2>1. QED
    BY <1>3, <1>4 DEF SoundCalls, Steps, Fits
<1>6. \/ \E st \in c.state : Loaded(p, o, call, c, st)
      \/ Becomes(p, o, waiting) /\ UNCHANGED <<disk, cache, generated, initiation>>
  BY DEF Start
<1>7. UNCHANGED <<otpk, reloads, sent, accepted>>
  BY DEF Start
<1> HIDE DEF c, call, waiting
<1>8. CASE \E st \in c.state : Loaded(p, o, call, c, st)
  <2>1. PICK st \in c.state : Loaded(p, o, call, c, st)
    BY <1>8
  <2>2. Kept(p, o, call)
    BY <2>1, <1>1, <1>3, <1>4, LoadedKept
  <2>3. QED
    BY <2>2, <1>3, <1>7, KeptTyped
<1>9. CASE Becomes(p, o, waiting) /\ UNCHANGED <<disk, cache, generated, initiation>>
  <2>1. PlacesTyped' /\ otpk' \in BOOLEAN
    BY <1>9, <1>7 DEF Typed, PlacesTyped, RestTyped
  <2>2. QED
    BY <2>1, <1>9, <1>3, <1>5, <1>7, WriteTyped
<1>10. QED
  BY <1>6, <1>8, <1>9

\* So does LoadSessionAsync when the state has been read ...
LEMMA ReadStateTyped ==
  ASSUME Typed, NEW p \in Party, NEW o \in Op, ReadState(p, o)
  PROVE  Typed'
<1> DEFINE call == Resumed(p, o)
           c    == [cache[p][TabOf[o]] EXCEPT !.state = call.got]
<1>1. call \in SoundCalls /\ call.job \in Jobs(p) /\ cache[p][TabOf[o]] \in SoundCells
  BY ResumedTyped
<1>2. call.got \subseteq Sound
  BY <1>1, CallFields
<1>3. c \in SoundCells
  <2> HIDE DEF call
  <2>1. QED
    BY <1>1, <1>2 DEF SoundCells
<1>4. \/ NoSession(p, o, call) /\ UNCHANGED <<disk, cache, generated, initiation>>
      \/ \E st \in call.got : Loaded(p, o, call, c, st)
  BY DEF ReadState
<1>5. UNCHANGED <<otpk, reloads, sent, accepted>>
  BY DEF ReadState
<1> HIDE DEF call, c
<1>6. CASE NoSession(p, o, call) /\ UNCHANGED <<disk, cache, generated, initiation>>
  <2>1. /\ CallsTyped' /\ ops' = [ops EXCEPT ![p][o] = ops'[p][o]]
        /\ ops'[p][o].job \in {call.job, Sending} /\ Fits(ops'[p][o])
    BY <1>1, <1>6, NoSessionKept
  <2>2. Kept(p, o, call)
    BY <2>1, <1>6 DEF Kept, Typed, PlacesTyped, RestTyped
  <2>3. QED
    BY <2>2, <1>1, <1>5, KeptTyped
<1>7. CASE \E st \in call.got : Loaded(p, o, call, c, st)
  <2>1. PICK st \in call.got : Loaded(p, o, call, c, st)
    BY <1>7
  <2>2. Kept(p, o, call)
    BY <2>1, <1>1, <1>2, <1>3, LoadedKept
  <2>3. QED
    BY <2>2, <1>1, <1>5, KeptTyped
<1>8. QED
  BY <1>4, <1>6, <1>7

\* ... when the HMAC has been read ...
LEMMA ReadMacTyped ==
  ASSUME Typed, NEW p \in Party, NEW o \in Op, ReadMac(p, o)
  PROVE  Typed'
<1> DEFINE call == Resumed(p, o)
           old  == cache[p][TabOf[o]]
           c    == IF call.got = {} THEN old ELSE [old EXCEPT !.mac = call.got]
<1>1. call \in SoundCalls /\ call.job \in Jobs(p) /\ old \in SoundCells
  BY ResumedTyped
<1>2. call.got \subseteq Sound /\ call.session \subseteq Sound
  BY <1>1, CallFields
<1>3. c \in SoundCells
  <2> HIDE DEF call, old
  <2>1. QED
    BY <1>1, <1>2 DEF SoundCells
<1>4. PICK st \in call.session : Verified(p, o, call, c, st, call.got)
  BY DEF ReadMac
<1>5. UNCHANGED <<otpk, reloads, sent, accepted>>
  BY DEF ReadMac
<1> HIDE DEF call, c
<1>6. Kept(p, o, call)
  BY <1>1, <1>2, <1>3, <1>4, VerifiedKept
<1>7. QED
  BY <1>6, <1>1, <1>5, KeptTyped

\* ... and when both have been deleted.
LEMMA DeleteMacTyped ==
  ASSUME Typed, NEW p \in Party, NEW o \in Op, DeleteMac(p, o)
  PROVE  Typed'
<1> DEFINE call == Resumed(p, o)
<1>1. call \in SoundCalls /\ call.job \in Jobs(p) /\ cache[p][TabOf[o]] \in SoundCells
  BY ResumedTyped
<1>2. /\ DeleteAsync(p, o, cache[p][TabOf[o]], "mac")
      /\ NoSession(p, o, call)
      /\ UNCHANGED <<initiation, otpk, generated, reloads, sent, accepted>>
  BY DEF DeleteMac
<1> HIDE DEF call
<1>3. PlacesTyped'
  BY <1>1, <1>2, DeleteTyped DEF Typed
<1>4. /\ CallsTyped' /\ ops' = [ops EXCEPT ![p][o] = ops'[p][o]]
      /\ ops'[p][o].job \in {call.job, Sending} /\ Fits(ops'[p][o])
  BY <1>1, <1>2, NoSessionKept
<1>5. Kept(p, o, call)
  BY <1>2, <1>3, <1>4 DEF Kept, Typed, RestTyped
<1>6. QED
  BY <1>5, <1>1, <1>2, KeptTyped

\* The steps of EstablishSessionAsResponderAsync and the second write of
\* SaveSessionAsync keep the types.
LEMMA PreKeyStepsTyped ==
  ASSUME Typed, NEW p \in Party, NEW o \in Op,
         \/ ReadPreKeys(p, o) \/ SaveNewSession(p, o) \/ SaveNewMac(p, o)
         \/ DeletePreKey(p, o) \/ SaveMac(p, o)
  PROVE  Typed'
<1> DEFINE call == Resumed(p, o)
<1>1. /\ call \in SoundCalls /\ call.job \in Jobs(p) /\ call.job = ops[p][o].job
      /\ Fits(ops[p][o])
      /\ cache[p][TabOf[o]] \in SoundCells
      /\ disk[p] \in SoundCells /\ ops[p][o] \in SoundCalls
  BY ResumedTyped
<1>2. call.session \subseteq Sound /\ ops[p][o].session \subseteq Sound
      /\ disk[p].state \subseteq Sound
  BY <1>1, CallFields DEF SoundCells
<1> HIDE DEF call
<1>3. CASE ReadPreKeys(p, o)
  <2> DEFINE secret == IF otpk THEN Secret ELSE WrongSecret
             new == [call EXCEPT !.step = "otpk",
                       !.session = {InitializeAsResponder(secret, Channel!SignedPreKey)}]
  <2>0. ops[p][o].step = "prekeys"
    BY <1>1, <1>3 DEF ReadPreKeys, Resumed, SoundCalls
  <2>1. InitializeAsResponder(secret, Channel!SignedPreKey) \in Sound
    BY StartStates
  <2>2. new \in SoundCalls /\ new.job = call.job /\ Fits(new)
    <3> HIDE DEF secret
    <3>1. QED
      BY <1>1, <2>1, <2>0 DEF SoundCalls, Steps, Fits
  <2>3. /\ Becomes(p, o, new)
        /\ UNCHANGED <<disk, cache, initiation, otpk, generated, reloads, sent, accepted>>
    BY <1>3 DEF ReadPreKeys, call
  <2> HIDE DEF new
  <2>4. PlacesTyped' /\ otpk' \in BOOLEAN
    BY <2>3 DEF Typed, PlacesTyped, RestTyped
  <2>5. QED
    BY <1>1, <2>2, <2>3, <2>4, WriteTyped
<1>4. CASE SaveNewSession(p, o)
  <2> DEFINE new == [call EXCEPT !.step = "established", !.before = disk[p].state]
  <2>0. ops[p][o].step = "otpk"
    BY <1>1, <1>4 DEF SaveNewSession, Resumed, SoundCalls
  <2>1. new \in SoundCalls /\ new.job = call.job /\ Fits(new)
    BY <1>1, <1>2, <2>0 DEF SoundCalls, Steps, Fits
  <2>2. /\ StoreAsync(p, o, cache[p][TabOf[o]], "state", call.session)
        /\ Becomes(p, o, new)
        /\ UNCHANGED <<initiation, otpk, generated, reloads, sent, accepted>>
    BY <1>4 DEF SaveNewSession, call
  <2> HIDE DEF new
  <2>3. PlacesTyped' /\ otpk' \in BOOLEAN
    <3>1. PlacesTyped'
      BY <1>1, <1>2, <2>2, StoreTyped DEF Typed
    <3>2. QED
      BY <3>1, <2>2 DEF Typed, RestTyped
  <2>4. QED
    BY <1>1, <2>1, <2>2, <2>3, WriteTyped
<1>5. CASE SaveNewMac(p, o)
  <2> DEFINE new == [call EXCEPT !.step = "ready"]
  <2>0. ops[p][o].step = "established"
    BY <1>1, <1>5 DEF SaveNewMac, Resumed, SoundCalls
  <2>1. new \in SoundCalls /\ new.job = call.job /\ Fits(new)
    BY <1>1, <1>2, <2>0 DEF SoundCalls, Steps, Fits
  <2>2. /\ StoreAsync(p, o, cache[p][TabOf[o]], "mac", ops[p][o].session)
        /\ Becomes(p, o, new)
        /\ UNCHANGED <<initiation, otpk, generated, reloads, sent, accepted>>
    BY <1>5 DEF SaveNewMac, call
  <2> HIDE DEF new
  <2>3. PlacesTyped' /\ otpk' \in BOOLEAN
    <3>1. PlacesTyped'
      BY <1>1, <1>2, <2>2, StoreTyped DEF Typed
    <3>2. QED
      BY <3>1, <2>2 DEF Typed, RestTyped
  <2>4. QED
    BY <1>1, <2>1, <2>2, <2>3, WriteTyped
<1>6. CASE DeletePreKey(p, o)
  <2> DEFINE new == [call EXCEPT !.step = "opening"]
  <2>0. ops[p][o].step = "ready"
    BY <1>1, <1>6 DEF DeletePreKey, Resumed, SoundCalls
  <2>1. new \in SoundCalls /\ new.job = call.job /\ Fits(new)
    BY <1>1, <1>2, <2>0 DEF SoundCalls, Steps, Fits
  <2>2. /\ otpk' = FALSE /\ Becomes(p, o, new)
        /\ UNCHANGED <<disk, cache, initiation, generated, reloads, sent, accepted>>
    BY <1>6 DEF DeletePreKey, call
  <2> HIDE DEF new
  <2>3. PlacesTyped' /\ otpk' \in BOOLEAN
    BY <2>2 DEF Typed, PlacesTyped
  <2>4. QED
    BY <1>1, <2>1, <2>2, <2>3, WriteTyped
<1>7. CASE SaveMac(p, o)
  <2> DEFINE new == [call EXCEPT !.step = "saved"]
  <2>1. new \in SoundCalls /\ new.job = call.job /\ Fits(new)
    BY <1>1, <1>2 DEF SoundCalls, Steps, Fits
  <2>2. /\ StoreAsync(p, o, cache[p][TabOf[o]], "mac", ops[p][o].session)
        /\ Becomes(p, o, new)
        /\ UNCHANGED <<initiation, otpk, generated, reloads, sent, accepted>>
    BY <1>7 DEF SaveMac, call
  <2> HIDE DEF new
  <2>3. PlacesTyped' /\ otpk' \in BOOLEAN
    <3>1. PlacesTyped'
      BY <1>1, <1>2, <2>2, StoreTyped DEF Typed
    <3>2. QED
      BY <3>1, <2>2 DEF Typed, RestTyped
  <2>4. QED
    BY <1>1, <2>1, <2>2, <2>3, WriteTyped
<1>8. QED
  BY <1>3, <1>4, <1>5, <1>6, <1>7

\* Opening the first message keeps the types.
LEMMA OpenFirstTyped ==
  ASSUME Typed, NEW p \in Party, NEW o \in Op, OpenFirst(p, o)
  PROVE  Typed'
<1> DEFINE call == Resumed(p, o)
<1>1. /\ call \in SoundCalls /\ call.job \in Jobs(p) /\ call.job = ops[p][o].job
      /\ cache[p][TabOf[o]] \in SoundCells /\ ops[p][o] \in SoundCalls
      /\ Fits(ops[p][o])
  BY ResumedTyped
<1>2. ops[p][o].session \subseteq Sound
  BY <1>1, CallFields
<1>3. call.job # Sending
  BY <1>1 DEF OpenFirst, Fits
<1>4. PICK st \in ops[p][o].session : Unseals(p, o, call, cache[p][TabOf[o]], st)
  BY DEF OpenFirst
<1>5. UNCHANGED <<otpk, reloads, sent, accepted>>
  BY DEF OpenFirst
<1> HIDE DEF call
<1>6. Kept(p, o, call)
  BY <1>1, <1>2, <1>3, <1>4, UnsealsKept
<1>7. QED
  BY <1>1, <1>5, <1>6, KeptTyped

\* The end of a call keeps the types: a message handed over was sealed by it.
LEMMA ReturnTyped ==
  ASSUME Typed, NEW p \in Party, NEW o \in Op, Return(p, o)
  PROVE  Typed'
<1> DEFINE call == Resumed(p, o)
<1>1. /\ call \in SoundCalls /\ call.job \in Jobs(p)
  BY ResumedTyped
<1>2. call.message \subseteq Channel!WireMessages
  BY <1>1, CallFields
<1>3. \/ /\ call.job = Sending
         /\ \E m \in call.message : sent' = [sent EXCEPT ![p] = Append(@, m)]
         /\ accepted' = accepted
      \/ /\ call.job # Sending
         /\ accepted' = [accepted EXCEPT ![p] = @ \cup {call.job}]
         /\ sent' = sent
  BY DEF Return
<1>4. /\ Becomes(p, o, Idle)
      /\ UNCHANGED <<disk, cache, initiation, otpk, generated, reloads>>
  BY DEF Return, Returns
<1> HIDE DEF call
<1>5. /\ sent' \in [Party -> Seq(Channel!WireMessages)]
      /\ \A q \in Party : DOMAIN sent[q] \subseteq DOMAIN sent'[q]
  <2>1. sent \in [Party -> Seq(Channel!WireMessages)]
    BY DEF Typed, RestTyped
  <2>2. ASSUME NEW m \in Channel!WireMessages, sent' = [sent EXCEPT ![p] = Append(@, m)]
        PROVE  /\ sent' \in [Party -> Seq(Channel!WireMessages)]
               /\ \A q \in Party : DOMAIN sent[q] \subseteq DOMAIN sent'[q]
    <3>1. /\ Append(sent[p], m) \in Seq(Channel!WireMessages)
          /\ DOMAIN sent[p] \subseteq DOMAIN Append(sent[p], m)
      BY <2>1
    <3>2. QED
      BY <2>1, <2>2, <3>1
  <2>3. QED
    BY <1>2, <1>3, <2>1, <2>2
<1>6. /\ accepted' \in [Party -> SUBSET Nat]
      /\ \A q \in Party : accepted'[q] \subseteq DOMAIN sent'[Channel!Peer(q)]
  <2>1. /\ accepted \in [Party -> SUBSET Nat]
        /\ \A q \in Party : accepted[q] \subseteq DOMAIN sent[Channel!Peer(q)]
        /\ \A q \in Party : accepted[q] \subseteq DOMAIN sent'[Channel!Peer(q)]
    BY <1>5, Peers DEF Typed, RestTyped
  <2>2. CASE call.job # Sending
    <3>1. call.job \in Nat /\ call.job \in DOMAIN sent[Channel!Peer(p)]
      BY <1>1, <2>2, CallFields DEF Jobs
    <3>2. accepted' = [accepted EXCEPT ![p] = @ \cup {call.job}] /\ sent' = sent
      BY <1>3, <2>2
    <3>3. QED
      BY <2>1, <3>1, <3>2
  <2>3. CASE call.job = Sending
    BY <1>3, <2>1, <2>3
  <2>4. QED
    BY <2>2, <2>3
<1>7. CallsTyped'
  BY <1>4, IdleTyped, BecomesTyped DEF Typed
<1>8. JobsTyped'
  <2>1. SUFFICES ASSUME NEW q \in Party, NEW r \in Op
                 PROVE  /\ ops'[q][r].job \in {Sending} \cup DOMAIN sent'[Channel!Peer(q)]
                        /\ Fits(ops'[q][r])
    BY DEF JobsTyped, Jobs, Fits
  <2>2. ops' = [ops EXCEPT ![p][o] = Idle]
    BY <1>4 DEF Becomes
  <2>3. ops'[q][r] \in {Idle, ops[q][r]}
    BY <2>2 DEF Typed, CallsTyped
  <2>4. /\ ops[q][r].job \in {Sending} \cup DOMAIN sent[Channel!Peer(q)]
        /\ Fits(ops[q][r])
    BY DEF Typed, JobsTyped, Jobs
  <2>5. QED
    BY <2>3, <2>4, <1>5, Peers, IdleTyped
<1>9. PlacesTyped' /\ RestTyped'
  BY <1>4, <1>5, <1>6 DEF Typed, PlacesTyped, RestTyped
<1>10. QED
  BY <1>7, <1>8, <1>9 DEF Typed

\* A reload keeps the types.
LEMMA ReloadTyped ==
  ASSUME Typed, NEW p \in Party, NEW t \in Tab, Reload(p, t)
  PROVE  Typed'
<1>1. NoCells \in SoundCells
  BY DEF NoCells, SoundCells
<1>2. PlacesTyped'
  BY <1>1 DEF Reload, Typed, PlacesTyped
<1>3. RestTyped'
  BY DEF Reload, Typed, RestTyped
<1>4. ops' = [ops EXCEPT ![p] = [o \in Op |-> IF TabOf[o] = t THEN Idle ELSE @[o]]]
  BY DEF Reload
<1>5. \A q \in Party, r \in Op : ops'[q][r] \in {Idle, ops[q][r]}
  BY <1>4 DEF Typed, CallsTyped
<1>6. CallsTyped'
  BY <1>4, IdleTyped DEF Typed, CallsTyped
<1>7. JobsTyped'
  <2>1. SUFFICES ASSUME NEW q \in Party, NEW r \in Op
                 PROVE  ops'[q][r].job \in Jobs(q) /\ Fits(ops'[q][r])
    BY DEF JobsTyped, Jobs, Fits, Reload
  <2>2. QED
    BY <1>5, IdleTyped DEF Typed, JobsTyped, Jobs
<1>8. QED
  BY <1>2, <1>3, <1>6, <1>7 DEF Typed

\* The session just established is typed.
LEMMA InitTyped == Init => Typed
<1> SUFFICES ASSUME Init PROVE Typed
  OBVIOUS
<1> DEFINE first == InitializeAsInitiator(Secret, KeyPair(Initiator, 0), Channel!SignedPreKey)
           here  == Saved(first)
<1>1. here \in SoundCells /\ NoCells \in SoundCells
  BY StartStates DEF Saved, NoCells, SoundCells
<1>2. /\ disk = [p \in Party |-> IF p = Initiator THEN here ELSE NoCells]
      /\ cache = [p \in Party |-> [t \in Tab |->
                    IF p = Initiator /\ t = FirstTab THEN here ELSE NoCells]]
  BY DEF Init
<1> HIDE DEF here
<1>3. PlacesTyped
  BY <1>1, <1>2 DEF PlacesTyped
<1>4. ops = [p \in Party |-> [o \in Op |-> Idle]]
  BY DEF Init
<1>5. CallsTyped /\ JobsTyped
  BY <1>4, IdleTyped DEF CallsTyped, JobsTyped, Jobs
<1>6. FirstTab \in Tab
  BY SessionAssumption DEF FirstTab
<1>7. /\ initiation \in [Party -> SUBSET Tab] /\ otpk \in BOOLEAN
      /\ generated \in [Party -> Nat] /\ reloads \in Nat
      /\ accepted = [p \in Party |-> {}]
      /\ sent = [p \in Party |-> << >>]
  BY <1>6 DEF Init
<1>8. RestTyped
  BY <1>7 DEF RestTyped
<1>9. QED
  BY <1>3, <1>5, <1>8 DEF Typed

\* Every step of any device, call and tab keeps the types.
LEMMA NextTyped ==
  ASSUME Typed, [Next]_vars
  PROVE  Typed'
<1>1. CASE Next
  <2>1. PICK p \in Party :
          \/ \E o \in Op : \/ \E job \in Jobs(p) : Start(p, o, job)
                           \/ Step(p, o)
          \/ \E t \in Tab : Reload(p, t)
    BY <1>1 DEF Next, Jobs
  <2>2. ASSUME NEW o \in Op, NEW job \in Jobs(p), Start(p, o, job) PROVE Typed'
    BY <2>2, StartTyped
  <2>3. ASSUME NEW o \in Op, Step(p, o) PROVE Typed'
    BY <2>3, ReadStateTyped, ReadMacTyped, DeleteMacTyped, PreKeyStepsTyped,
       OpenFirstTyped, ReturnTyped DEF Step
  <2>4. ASSUME NEW t \in Tab, Reload(p, t) PROVE Typed'
    BY <2>4, ReloadTyped
  <2>5. QED
    BY <2>1, <2>2, <2>3, <2>4
<1>2. CASE UNCHANGED vars
  BY <1>2 DEF vars, Typed, PlacesTyped, CallsTyped, RestTyped, JobsTyped, Jobs
<1>3. QED
  BY <1>1, <1>2

\* Whatever the tabs, calls and reloads do to each other, every value a device
\* keeps, works on or sends has its declared shape.
THEOREM TypeCorrect == Spec => []TypeOK
<1>1. Init => Typed
  BY InitTyped
<1>2. Typed /\ [Next]_vars => Typed'
  BY NextTyped
<1>3. Typed => TypeOK
  <2>1. SUFFICES ASSUME Typed PROVE TypeOK
    OBVIOUS
  <2>2. SoundCells \subseteq Cells
    BY SoundStates DEF SoundCells, Cells
  <2>3. SoundCalls \subseteq Calls
    BY SoundStates DEF SoundCalls, Calls, Steps
  <2>4. disk \in [Party -> Cells] /\ cache \in [Party -> [Tab -> Cells]]
    BY <2>1, <2>2 DEF Typed, PlacesTyped
  <2>5. ops \in [Party -> [Op -> Calls]]
    BY <2>1, <2>3 DEF Typed, CallsTyped
  <2>6. QED
    BY <2>1, <2>4, <2>5 DEF Typed, RestTyped, TypeOK
<1>4. QED
  BY <1>1, <1>2, <1>3, PTL DEF Spec

-----------------------------------------------------------------------------
\* What the device p may seal or open with when call o goes on, and what it has
\* sealed.
Held(p, o) ==
  disk[p].state \cup cache[p][TabOf[o]].state \cup ops[p][o].session
    \cup (IF ops[p][o].step = "state" THEN ops[p][o].got ELSE {})

\* What it has sent, and what the call has sealed and not yet handed over.
Wires(p, o) == {sent[p][i] : i \in DOMAIN sent[p]} \cup ops[p][o].message

\* The sessions EstablishSessionAsResponderAsync builds: nothing sealed yet.
NewSessions(p) ==
  {st \in Sound : /\ p = Responder /\ Len(st.RootKey) = 1 /\ st.SendChainKey = EmptyChain
                  /\ st.LocalRatchetKey = KeyPair(Responder, 0)}

\* What a step of call o may do to the sessions of p: it uses none, ...
Rests(p, o) ==
  /\ Held(p, o)' \subseteq Held(p, o) \cup NewSessions(p)
  /\ ops'[p][o].message \subseteq ops[p][o].message
  /\ generated' = generated

\* ... seals with one, which replaces all others, ...
SealsWith(p, o, st) ==
  /\ Held(p, o)' = {AfterEncrypt(st)}
  /\ ops'[p][o].message =
       {[ratchet |-> SealedMessage(st), prekey |-> TabOf[o] \in initiation[p]]}
  /\ generated' = generated

\* ... or opens a message of the peer with one.
OpensWith(p, o, st, m) ==
  LET fresh == KeyPair(p, generated[p] + 1)
      new   == Decrypt(st, m, fresh).state
  IN /\ Held(p, o)' = {new}
     /\ ops'[p][o].message \subseteq ops[p][o].message
     /\ generated' = [generated EXCEPT ![p] = IF new.LocalRatchetKey = fresh THEN @ + 1 ELSE @]

\* What p may receive.
Received(p) == {sent[Channel!Peer(p)][i] : i \in DOMAIN sent[Channel!Peer(p)]}

\* The other device takes no step.
Others(p, o) ==
  \A q \in Party \ {p} :
    /\ Held(q, o)' = Held(q, o) /\ ops'[q][o] = ops[q][o]
    /\ initiation'[q] = initiation[q]

\* Every step but the last one of a call does one of the three.
Outcome(p, o) ==
  /\ Others(p, o) /\ initiation'[p] \subseteq initiation[p]
  /\ ops'[p][o].step = "prekeys" =>
       ops[p][o].step = "prekeys" \/ \E w \in Received(p) : w.prekey
  /\ \/ Rests(p, o)
     \/ \E st \in Held(p, o) : SealsWith(p, o, st)
     \/ \E st \in Held(p, o), w \in Received(p) : OpensWith(p, o, st, w.ratchet)

\* A save leaves one state to go on with.
LEMMA SavesEffect ==
  ASSUME Typed, NEW p \in Party, NEW o \in Op, NEW call \in SoundCalls,
         NEW c \in SoundCells, NEW new \in Sound, Saves(p, o, call, c, new)
  PROVE  /\ Held(p, o)' = {new} /\ ops'[p][o].message = call.message
         /\ ops'[p][o].step = "save"
         /\ \A q \in Party \ {p} : Held(q, o)' = Held(q, o) /\ ops'[q][o] = ops[q][o]
<1> DEFINE saving == [call EXCEPT !.step = "save", !.session = {new}, !.got = {}]
           t      == TabOf[o]
<1>1. /\ saving.session = {new} /\ saving.step = "save"
      /\ saving.message = call.message
  BY DEF SoundCalls
<1> HIDE DEF saving
<1>2. /\ disk' = [disk EXCEPT ![p]["state"] = {new}]
      /\ cache' = [cache EXCEPT ![p][t] = [c EXCEPT !["state"] = {new}]]
      /\ ops' = [ops EXCEPT ![p][o] = saving]
  BY DEF Saves, StoreAsync, Caches, Becomes, saving
<1>3. disk[p] \in SoundCells /\ t \in Tab
  BY SessionAssumption DEF Typed, PlacesTyped
<1>4. disk'[p].state = {new}
  BY <1>2, <1>3 DEF Typed, PlacesTyped, SoundCells
<1>5. cache'[p][t].state = {new}
  <2>1. [c EXCEPT !["state"] = {new}].state = {new}
    BY DEF SoundCells
  <2>2. QED
    BY <2>1, <1>2, <1>3 DEF Typed, PlacesTyped
<1>6. ops'[p][o] = saving
  BY <1>2 DEF Typed, CallsTyped
<1>7. \A q \in Party \ {p} : disk'[q] = disk[q] /\ cache'[q] = cache[q] /\ ops'[q] = ops[q]
  BY <1>2 DEF Typed, PlacesTyped, CallsTyped
<1>8. QED
  BY <1>1, <1>4, <1>5, <1>6, <1>7 DEF Held, t

\* EncryptBytesAsync with a session seals with it.
LEMMA SealsEffect ==
  ASSUME Typed, NEW p \in Party, NEW o \in Op, NEW call \in SoundCalls,
         NEW c \in SoundCells, NEW st \in Sound, st \in Held(p, o), Seals(p, o, call, c, st)
  PROVE  Outcome(p, o)
<1> DEFINE message == [ratchet |-> SealedMessage(st), prekey |-> TabOf[o] \in initiation[p]]
           sealing == [call EXCEPT !.message = {message}]
<1>1. message \in Channel!WireMessages
  BY SoundStates, SameTypes
<1> HIDE DEF message
<1>2. sealing \in SoundCalls /\ sealing.message = {message}
  BY <1>1 DEF SoundCalls
<1> HIDE DEF sealing
<1>3. /\ initiation' = [initiation EXCEPT ![p] = @ \ {TabOf[o]}]
      /\ Saves(p, o, sealing, c, AfterEncrypt(st))
      /\ generated' = generated
  BY DEF Seals, sealing, message
<1>4. AfterEncrypt(st) \in Sound
  BY SoundStates
<1>5. /\ Held(p, o)' = {AfterEncrypt(st)} /\ ops'[p][o].message = {message}
      /\ ops'[p][o].step = "save"
      /\ \A q \in Party \ {p} : Held(q, o)' = Held(q, o) /\ ops'[q][o] = ops[q][o]
  BY <1>2, <1>3, <1>4, SavesEffect
<1>6. /\ initiation'[p] \subseteq initiation[p]
      /\ \A q \in Party \ {p} : initiation'[q] = initiation[q]
  BY <1>3 DEF Typed, RestTyped
<1>7. SealsWith(p, o, st)
  BY <1>3, <1>5 DEF SealsWith, message
<1>8. Others(p, o)
  BY <1>5, <1>6 DEF Others
<1>9. QED
  BY <1>5, <1>6, <1>7, <1>8 DEF Outcome

\* A call that ends leaves nothing of its own behind.
LEMMA ReturnsEffect ==
  ASSUME Typed, NEW p \in Party, NEW o \in Op, NEW c \in SoundCells, c.state \subseteq Held(p, o),
         Becomes(p, o, Idle), Caches(p, o, c) \/ cache' = cache, disk' = disk
  PROVE  /\ Held(p, o)' \subseteq Held(p, o) /\ ops'[p][o].message = {}
         /\ ops'[p][o].step = "idle"
         /\ \A q \in Party \ {p} : Held(q, o)' = Held(q, o) /\ ops'[q][o] = ops[q][o]
<1>1. Idle.session = {} /\ Idle.step = "idle" /\ Idle.message = {}
  BY DEF Idle
<1>2. ops'[p][o] = Idle /\ \A q \in Party \ {p} : ops'[q] = ops[q]
  BY DEF Becomes, Typed, CallsTyped
<1>3. /\ cache'[p][TabOf[o]] \in {c, cache[p][TabOf[o]]}
      /\ \A q \in Party \ {p} : cache'[q] = cache[q]
  BY SessionAssumption DEF Caches, Typed, PlacesTyped
<1>4. Held(p, o)' \subseteq Held(p, o)
  BY <1>1, <1>2, <1>3 DEF Held
<1>5. QED
  BY <1>1, <1>2, <1>3, <1>4 DEF Held

\* DecryptToBytesAsync with a session opens with it, or changes nothing.
LEMMA UnsealsEffect ==
  ASSUME Typed, NEW p \in Party, NEW o \in Op, NEW call \in SoundCalls,
         call.job \in Jobs(p), call.job # Sending, call.message \subseteq ops[p][o].message,
         NEW c \in SoundCells, c.state \subseteq Held(p, o),
         NEW st \in Sound, st \in Held(p, o), Unseals(p, o, call, c, st)
  PROVE  Outcome(p, o)
<1> DEFINE w     == Wire(p, call.job)
           fresh == KeyPair(p, generated[p] + 1)
           new   == Decrypt(st, w.ratchet, fresh).state
<1>1. w.ratchet \in Messages /\ fresh \in Key
  BY WireTyped, FreshTyped DEF Typed
<1>2. new \in Sound
  BY <1>1, SoundStates
<1>3. \/ /\ Saves(p, o, call, c, new)
         /\ generated' = [generated EXCEPT
               ![p] = IF new.LocalRatchetKey = fresh THEN @ + 1 ELSE @]
      \/ /\ Becomes(p, o, Idle) /\ Caches(p, o, c)
         /\ UNCHANGED <<disk, generated>>
  BY DEF Unseals, Returns
<1>4. initiation' = initiation
  BY DEF Unseals
<1>5. w \in Received(p)
  BY DEF Received, Wire, Jobs
<1> HIDE DEF w, fresh, new
<1>6. CASE /\ Saves(p, o, call, c, new)
           /\ generated' = [generated EXCEPT
                 ![p] = IF new.LocalRatchetKey = fresh THEN @ + 1 ELSE @]
  <2>1. /\ Held(p, o)' = {new} /\ ops'[p][o].message = call.message
        /\ ops'[p][o].step = "save"
        /\ \A q \in Party \ {p} : Held(q, o)' = Held(q, o) /\ ops'[q][o] = ops[q][o]
    BY <1>2, <1>6, SavesEffect
  <2>2. OpensWith(p, o, st, w.ratchet)
    BY <1>6, <2>1 DEF OpensWith, fresh, new
  <2>3. Others(p, o)
    BY <1>4, <2>1 DEF Others
  <2>4. QED
    BY <1>4, <1>5, <2>1, <2>2, <2>3 DEF Outcome
<1>7. CASE /\ Becomes(p, o, Idle) /\ Caches(p, o, c)
           /\ UNCHANGED <<disk, generated>>
  <2>1. /\ Held(p, o)' \subseteq Held(p, o) /\ ops'[p][o].message = {}
        /\ ops'[p][o].step = "idle"
        /\ \A q \in Party \ {p} : Held(q, o)' = Held(q, o) /\ ops'[q][o] = ops[q][o]
    BY <1>7, ReturnsEffect
  <2>2. Rests(p, o) /\ Others(p, o)
    BY <1>4, <1>7, <2>1 DEF Rests, Others
  <2>3. QED
    BY <1>4, <2>1, <2>2 DEF Outcome
<1>8. QED
  BY <1>3, <1>6, <1>7

\* A step that seals and opens nothing, and moves the call on.
LEMMA RestsEffect ==
  ASSUME Typed, NEW p \in Party, NEW o \in Op, NEW new \in SoundCalls, Becomes(p, o, new),
         NEW d \in SoundCells, disk' = [disk EXCEPT ![p] = d],
         NEW c \in SoundCells, Caches(p, o, c),
         generated' = generated, initiation' = initiation,
         d.state \cup c.state \cup new.session \cup (IF new.step = "state" THEN new.got ELSE {})
           \subseteq Held(p, o) \cup NewSessions(p),
         new.message \subseteq ops[p][o].message,
         new.step = "prekeys" => \E w \in Received(p) : w.prekey
  PROVE  Outcome(p, o)
<1>1. ops'[p][o] = new /\ \A q \in Party \ {p} : ops'[q] = ops[q]
  BY DEF Becomes, Typed, CallsTyped
<1>2. disk'[p] = d /\ \A q \in Party \ {p} : disk'[q] = disk[q]
  BY DEF Typed, PlacesTyped
<1>3. cache'[p][TabOf[o]] = c /\ \A q \in Party \ {p} : cache'[q] = cache[q]
  BY SessionAssumption DEF Caches, Typed, PlacesTyped
<1>4. Rests(p, o)
  BY <1>1, <1>2, <1>3 DEF Rests, Held
<1>5. Others(p, o)
  BY <1>1, <1>2, <1>3 DEF Others, Held
<1>6. QED
  BY <1>1, <1>4, <1>5 DEF Outcome

\* A write or deletion as an update of both places.
LEMMA StoreForms ==
  ASSUME Typed, NEW p \in Party, NEW o \in Op, NEW c \in SoundCells,
         NEW field \in {"state", "mac"}, NEW value \in SUBSET Sound
  PROVE  /\ StoreAsync(p, o, c, field, value) =>
              /\ disk' = [disk EXCEPT ![p] = [disk[p] EXCEPT ![field] = value]]
              /\ Caches(p, o, [c EXCEPT ![field] = value])
         /\ DeleteAsync(p, o, c, field) => StoreAsync(p, o, c, field, {})
         /\ [disk[p] EXCEPT ![field] = value] \in SoundCells
         /\ [c EXCEPT ![field] = value] \in SoundCells
<1>1. disk[p] \in SoundCells
  BY DEF Typed, PlacesTyped
<1>2. [disk[p] EXCEPT ![field] = value] \in SoundCells /\ [c EXCEPT ![field] = value] \in SoundCells
  BY <1>1, CellTyped
<1>3. QED
  BY <1>2 DEF StoreAsync, DeleteAsync

\* A load without a session as a step of the call; only a PreKeyMessage goes on.
LEMMA NoSessionForms ==
  ASSUME Typed, NEW p \in Party, NEW o \in Op, NEW call \in SoundCalls, call.job \in Jobs(p),
         call.message \subseteq ops[p][o].message, NoSession(p, o, call)
  PROVE  \E new \in SoundCalls :
           /\ Becomes(p, o, new) /\ new.session = {} /\ new.step \in {"prekeys", "idle"}
           /\ new.message \subseteq ops[p][o].message
           /\ new.step = "prekeys" => \E w \in Received(p) : w.prekey
<1> DEFINE wait == [call EXCEPT !.step = "prekeys", !.session = {}, !.got = {}]
<1>1. /\ wait \in SoundCalls /\ wait.session = {} /\ wait.step = "prekeys"
      /\ wait.message = call.message
  BY DEF SoundCalls, Steps
<1>2. /\ Idle \in SoundCalls /\ Idle.session = {} /\ Idle.step = "idle"
      /\ Idle.message = {}
  BY IdleTyped DEF Idle
<1> HIDE DEF wait
<1>3. \/ Becomes(p, o, wait) /\ call.job # Sending /\ Wire(p, call.job).prekey
      \/ Becomes(p, o, Idle)
  BY DEF NoSession, Returns, wait
<1>4. ASSUME call.job # Sending PROVE Wire(p, call.job) \in Received(p)
  BY <1>4 DEF Wire, Received, Jobs
<1>5. CASE Becomes(p, o, wait) /\ call.job # Sending /\ Wire(p, call.job).prekey
  BY <1>1, <1>4, <1>5
<1>6. CASE Becomes(p, o, Idle)
  BY <1>2, <1>6
<1>7. QED
  BY <1>3, <1>5, <1>6

\* The end of LoadSessionAsync, whether or not the HMAC matches.
LEMMA VerifiedEffect ==
  ASSUME Typed, NEW p \in Party, NEW o \in Op, NEW call \in SoundCalls,
         call.job \in Jobs(p), call.message \subseteq ops[p][o].message,
         NEW c \in SoundCells, c.state \subseteq Held(p, o),
         NEW st \in Sound, st \in Held(p, o), NEW mac \in SUBSET Sound,
         Verified(p, o, call, c, st, mac)
  PROVE  Outcome(p, o)
<1> DEFINE found    == [call EXCEPT !.before = disk[p].state]
           deleting == [call EXCEPT !.step = "delete", !.got = {}, !.session = {}]
<1>1. disk[p].state \subseteq Sound /\ disk[p] \in SoundCells
  BY DEF Typed, PlacesTyped, SoundCells
<1>2. found \in SoundCalls /\ found.job = call.job /\ found.message = call.message
  BY <1>1 DEF SoundCalls
<1>3. /\ deleting \in SoundCalls /\ deleting.message = call.message
      /\ deleting.step = "delete" /\ deleting.session = {}
  BY DEF SoundCalls, Steps
<1>4. \/ call.job = Sending /\ Seals(p, o, found, c, st)
      \/ call.job # Sending /\ Unseals(p, o, found, c, st)
      \/ /\ DeleteAsync(p, o, c, "state") /\ Becomes(p, o, deleting)
         /\ UNCHANGED <<generated, initiation>>
  BY DEF Verified
<1> HIDE DEF found, deleting
<1>5. CASE Seals(p, o, found, c, st)
  BY <1>2, <1>5, SealsEffect
<1>6. CASE call.job # Sending /\ Unseals(p, o, found, c, st)
  BY <1>2, <1>6, UnsealsEffect
<1>7. CASE /\ DeleteAsync(p, o, c, "state") /\ Becomes(p, o, deleting)
           /\ UNCHANGED <<generated, initiation>>
  <2> DEFINE d == [disk[p] EXCEPT !["state"] = {}]
             e == [c EXCEPT !["state"] = {}]
  <2>1. /\ disk' = [disk EXCEPT ![p] = d] /\ Caches(p, o, e)
        /\ d \in SoundCells /\ e \in SoundCells
    BY <1>7, StoreForms
  <2>2. d.state = {} /\ e.state = {}
    BY <1>1 DEF SoundCells
  <2> HIDE DEF d, e
  <2>3. QED
    BY <1>3, <1>7, <2>1, <2>2, RestsEffect
<1>8. QED
  BY <1>4, <1>5, <1>6, <1>7

\* LoadSessionAsync once the state is read.
LEMMA LoadedEffect ==
  ASSUME Typed, NEW p \in Party, NEW o \in Op, NEW call \in SoundCalls,
         call.job \in Jobs(p), call.message \subseteq ops[p][o].message,
         NEW c \in SoundCells, c.state \subseteq Held(p, o),
         NEW st \in Sound, st \in Held(p, o), Loaded(p, o, call, c, st)
  PROVE  Outcome(p, o)
<1> DEFINE reading == [call EXCEPT !.step = "mac", !.got = disk[p].mac, !.session = {st}]
<1>1. c.mac \in SUBSET Sound /\ disk[p].mac \subseteq Sound /\ disk[p] \in SoundCells
  BY DEF Typed, PlacesTyped, SoundCells
<1>2. /\ reading \in SoundCalls /\ reading.message = call.message
      /\ reading.step = "mac" /\ reading.session = {st}
  BY <1>1 DEF SoundCalls, Steps
<1>3. \/ Verified(p, o, call, c, st, c.mac)
      \/ /\ Becomes(p, o, reading) /\ Caches(p, o, c)
         /\ UNCHANGED <<disk, generated, initiation>>
  BY DEF Loaded
<1> HIDE DEF reading
<1>4. CASE Verified(p, o, call, c, st, c.mac)
  BY <1>1, <1>4, VerifiedEffect
<1>5. CASE /\ Becomes(p, o, reading) /\ Caches(p, o, c)
           /\ UNCHANGED <<disk, generated, initiation>>
  <2>1. disk' = [disk EXCEPT ![p] = disk[p]]
    BY <1>5 DEF Typed, PlacesTyped
  <2>2. disk[p].state \subseteq Held(p, o)
    BY DEF Held
  <2>3. QED
    BY <1>1, <1>2, <1>5, <2>1, <2>2, RestsEffect
<1>6. QED
  BY <1>3, <1>4, <1>5

-----------------------------------------------------------------------------
\* Every step of a call but its last has such an outcome.
Stays == sent' = sent

\* The first stretch of either call.
LEMMA StartEffect ==
  ASSUME Typed, NEW p \in Party, NEW o \in Op, NEW job \in Jobs(p), Start(p, o, job)
  PROVE  Outcome(p, o) /\ Stays
<1> DEFINE c       == cache[p][TabOf[o]]
           call    == [Idle EXCEPT !.job = job, !.first = TRUE]
           waiting == [call EXCEPT !.step = "state", !.got = disk[p].state]
<1>1. c \in SoundCells /\ disk[p] \in SoundCells
  BY ResumedTyped
<1>2. job \in Nat
  <2>1. sent[Channel!Peer(p)] \in Seq(Channel!WireMessages)
    BY Peers DEF Typed, RestTyped
  <2>2. QED
    BY <2>1 DEF Jobs, Sending
<1>3. call \in SoundCalls /\ call.job = job /\ call.message = {} /\ call.session = {}
  BY <1>2, IdleTyped DEF SoundCalls, Idle
<1>4. disk[p].state \subseteq Sound /\ c.state \subseteq Sound
  BY <1>1 DEF SoundCells
<1>5. /\ waiting \in SoundCalls /\ waiting.message = {} /\ waiting.session = {}
      /\ waiting.step = "state" /\ waiting.got = disk[p].state
  <2> HIDE DEF call
  <2>1. QED
    BY <1>3, <1>4 DEF SoundCalls, Steps
<1>6. \/ \E st \in c.state : Loaded(p, o, call, c, st)
      \/ Becomes(p, o, waiting) /\ UNCHANGED <<disk, cache, generated, initiation>>
  BY DEF Start
<1>7. Stays
  BY DEF Start, Stays
<1>8. c.state \subseteq Held(p, o) /\ disk[p].state \subseteq Held(p, o)
  BY DEF Held
<1>9. cache = [cache EXCEPT ![p][TabOf[o]] = c] /\ disk = [disk EXCEPT ![p] = disk[p]]
  BY SessionAssumption DEF Typed, PlacesTyped
<1> HIDE DEF c, call, waiting
<1>10. CASE \E st \in c.state : Loaded(p, o, call, c, st)
  BY <1>10, <1>1, <1>3, <1>4, <1>7, <1>8, LoadedEffect
<1>11. CASE Becomes(p, o, waiting) /\ UNCHANGED <<disk, cache, generated, initiation>>
  <2>1. Caches(p, o, c) /\ disk' = [disk EXCEPT ![p] = disk[p]]
    BY <1>9, <1>11 DEF Caches
  <2>2. Outcome(p, o)
    BY <2>1, <1>1, <1>5, <1>8, <1>11, RestsEffect
  <2>3. QED
    BY <2>2, <1>7
<1>12. QED
  BY <1>6, <1>10, <1>11

\* The fields of the call a step goes on with.
LEMMA ResumedFields ==
  ASSUME Typed, NEW p \in Party, NEW o \in Op
  PROVE  LET call == Resumed(p, o)
         IN /\ call.step = ops[p][o].step /\ call.got = ops[p][o].got
            /\ call.session = ops[p][o].session /\ call.message = ops[p][o].message
            /\ call.before = ops[p][o].before
<1>1. ops[p][o] \in SoundCalls
  BY ResumedTyped
<1>2. QED
  BY <1>1 DEF Resumed, SoundCalls

\* The state has been read.
LEMMA ReadStateEffect ==
  ASSUME Typed, NEW p \in Party, NEW o \in Op, ReadState(p, o)
  PROVE  Outcome(p, o) /\ Stays
<1> DEFINE call == Resumed(p, o)
           old  == cache[p][TabOf[o]]
           c    == [old EXCEPT !.state = call.got]
<1>1. /\ call \in SoundCalls /\ call.job \in Jobs(p)
      /\ old \in SoundCells /\ disk[p] \in SoundCells
  BY ResumedTyped
<1>2. call.got \subseteq Sound /\ call.message = ops[p][o].message
  BY <1>1, CallFields, ResumedFields
<1>3. c \in SoundCells /\ c.state = call.got
  <2> HIDE DEF call
  <2>1. QED
    BY <1>1, <1>2 DEF SoundCells
<1>4. ops[p][o].step = "state" /\ call.got = ops[p][o].got
  BY ResumedFields DEF ReadState
<1>5. \/ NoSession(p, o, call) /\ UNCHANGED <<disk, cache, generated, initiation>>
      \/ \E st \in call.got : Loaded(p, o, call, c, st)
  BY DEF ReadState
<1>6. Stays
  BY DEF ReadState, Stays
<1>7. /\ call.got \subseteq Held(p, o)
      /\ disk[p].state \cup old.state \subseteq Held(p, o)
  BY <1>4 DEF Held
<1>8. cache = [cache EXCEPT ![p][TabOf[o]] = old] /\ disk = [disk EXCEPT ![p] = disk[p]]
  BY SessionAssumption DEF Typed, PlacesTyped
<1> HIDE DEF call, c, old
<1>9. CASE NoSession(p, o, call) /\ UNCHANGED <<disk, cache, generated, initiation>>
  <2>1. Caches(p, o, old) /\ disk' = [disk EXCEPT ![p] = disk[p]]
    BY <1>8, <1>9 DEF Caches
  <2>2. PICK new \in SoundCalls :
           /\ Becomes(p, o, new) /\ new.session = {} /\ new.step \in {"prekeys", "idle"}
           /\ new.message \subseteq ops[p][o].message
           /\ new.step = "prekeys" => \E w \in Received(p) : w.prekey
    BY <1>1, <1>2, <1>9, NoSessionForms
  <2>3. Outcome(p, o)
    BY <2>1, <2>2, <1>1, <1>7, <1>9, RestsEffect
  <2>4. QED
    BY <2>3, <1>6
<1>10. CASE \E st \in call.got : Loaded(p, o, call, c, st)
  BY <1>10, <1>1, <1>2, <1>3, <1>6, <1>7, LoadedEffect
<1>11. QED
  BY <1>5, <1>9, <1>10

\* The HMAC has been read.
LEMMA ReadMacEffect ==
  ASSUME Typed, NEW p \in Party, NEW o \in Op, ReadMac(p, o)
  PROVE  Outcome(p, o) /\ Stays
<1> DEFINE call == Resumed(p, o)
           old  == cache[p][TabOf[o]]
           c    == IF call.got = {} THEN old ELSE [old EXCEPT !.mac = call.got]
<1>1. call \in SoundCalls /\ call.job \in Jobs(p) /\ old \in SoundCells
  BY ResumedTyped
<1>2. /\ call.got \subseteq Sound /\ call.session \subseteq Sound
      /\ call.message = ops[p][o].message /\ call.session = ops[p][o].session
  BY <1>1, CallFields, ResumedFields
<1>3. c \in SoundCells /\ c.state = old.state
  <2> HIDE DEF call, old
  <2>1. QED
    BY <1>1, <1>2 DEF SoundCells
<1>4. old.state \subseteq Held(p, o) /\ call.session \subseteq Held(p, o)
  BY <1>2 DEF Held
<1>5. PICK st \in call.session : Verified(p, o, call, c, st, call.got)
  BY DEF ReadMac
<1>6. Stays
  BY DEF ReadMac, Stays
<1> HIDE DEF call, c, old
<1>7. Outcome(p, o)
  BY <1>1, <1>2, <1>3, <1>4, <1>5, VerifiedEffect
<1>8. QED
  BY <1>6, <1>7

\* The session and its HMAC have been deleted.
LEMMA DeleteMacEffect ==
  ASSUME Typed, NEW p \in Party, NEW o \in Op, DeleteMac(p, o)
  PROVE  Outcome(p, o) /\ Stays
<1> DEFINE call == Resumed(p, o)
           old  == cache[p][TabOf[o]]
           d    == [disk[p] EXCEPT !["mac"] = {}]
           e    == [old EXCEPT !["mac"] = {}]
<1>1. call \in SoundCalls /\ call.job \in Jobs(p) /\ old \in SoundCells /\ disk[p] \in SoundCells
  BY ResumedTyped
<1>2. call.message = ops[p][o].message
  BY ResumedFields
<1>3. /\ DeleteAsync(p, o, old, "mac") /\ NoSession(p, o, call)
      /\ UNCHANGED <<initiation, generated>> /\ Stays
  BY DEF DeleteMac, Stays
<1>4. /\ disk' = [disk EXCEPT ![p] = d] /\ Caches(p, o, e)
      /\ d \in SoundCells /\ e \in SoundCells
  BY <1>1, <1>3, StoreForms
<1>5. d.state \cup e.state \subseteq Held(p, o)
  BY <1>1 DEF SoundCells, Held
<1> HIDE DEF call, old, d, e
<1>6. PICK new \in SoundCalls :
         /\ Becomes(p, o, new) /\ new.session = {} /\ new.step \in {"prekeys", "idle"}
         /\ new.message \subseteq ops[p][o].message
         /\ new.step = "prekeys" => \E w \in Received(p) : w.prekey
  BY <1>1, <1>2, <1>3, NoSessionForms
<1>7. Outcome(p, o)
  BY <1>3, <1>4, <1>5, <1>6, RestsEffect
<1>8. QED
  BY <1>3, <1>7

\* InitializeAsResponder gives a session that has sealed nothing.
LEMMA ResponderIsNew ==
  ASSUME NEW secret \in {Secret, WrongSecret}
  PROVE  InitializeAsResponder(secret, Channel!SignedPreKey) \in NewSessions(Responder)
<1>1. KeyPair(Responder, 0) \in Key
  BY SessionAssumption DEF KeyPair, Key
<1>2. Channel!SignedPreKey = KeyPair(Responder, 0) /\ secret \in SharedSecret
  BY SameTypes, SessionAssumption
<1>3. InitializeAsResponder(secret, Channel!SignedPreKey) \in Sound
  BY StartStates
<1>4. QED
  BY <1>1, <1>2, <1>3, ResponderWellFormed DEF NewSessions

\* Reading the pre-keys makes a session that has sealed nothing and, until it
\* opens a message, seals on the empty chain.
LEMMA ReadPreKeysEffect ==
  ASSUME Typed, NEW p \in Party, NEW o \in Op, p = Responder, ReadPreKeys(p, o)
  PROVE  Outcome(p, o) /\ Stays
<1> DEFINE call   == Resumed(p, o)
           old    == cache[p][TabOf[o]]
           secret == IF otpk THEN Secret ELSE WrongSecret
           made   == InitializeAsResponder(secret, Channel!SignedPreKey)
           new    == [call EXCEPT !.step = "otpk", !.session = {made}]
<1>1. call \in SoundCalls /\ old \in SoundCells /\ disk[p] \in SoundCells
  BY ResumedTyped
<1>2. call.message = ops[p][o].message
  BY ResumedFields
<1>3. made \in NewSessions(p) /\ made \in Sound
  BY ResponderIsNew, StartStates
<1>4. /\ new \in SoundCalls /\ new.step = "otpk" /\ new.session = {made}
      /\ new.message = call.message
  <2> HIDE DEF call, made
  <2>1. QED
    BY <1>1, <1>3 DEF SoundCalls, Steps
<1>5. /\ Becomes(p, o, new) /\ Stays
      /\ UNCHANGED <<disk, cache, initiation, generated>>
  BY DEF ReadPreKeys, Stays
<1>6. cache = [cache EXCEPT ![p][TabOf[o]] = old] /\ disk = [disk EXCEPT ![p] = disk[p]]
  BY SessionAssumption DEF Typed, PlacesTyped
<1>7. Caches(p, o, old) /\ disk' = [disk EXCEPT ![p] = disk[p]]
  BY <1>5, <1>6 DEF Caches
<1>8. disk[p].state \cup old.state \subseteq Held(p, o)
  BY DEF Held
<1> HIDE DEF call, old, secret, made, new
<1>9. Outcome(p, o)
  BY <1>1, <1>2, <1>3, <1>4, <1>5, <1>7, <1>8, RestsEffect
<1>10. QED
  BY <1>5, <1>9

\* The steps that only write what the call holds to localStorage, or delete the
\* one-time pre-key.
LEMMA WriteEffect ==
  ASSUME Typed, NEW p \in Party, NEW o \in Op,
         \/ SaveNewSession(p, o) \/ SaveNewMac(p, o) \/ DeletePreKey(p, o) \/ SaveMac(p, o)
  PROVE  Outcome(p, o) /\ Stays
<1> DEFINE call == Resumed(p, o)
           old  == cache[p][TabOf[o]]
<1>1. /\ call \in SoundCalls /\ old \in SoundCells /\ disk[p] \in SoundCells
      /\ call.session \subseteq Sound /\ disk[p].state \subseteq Sound
  BY ResumedTyped, CallFields DEF SoundCells
<1>2. /\ call.message = ops[p][o].message /\ call.session = ops[p][o].session
      /\ call.step = ops[p][o].step
  BY ResumedFields
<1>3. UNCHANGED <<initiation, generated>> /\ Stays
  BY DEF SaveNewSession, SaveNewMac, DeletePreKey, SaveMac, Stays
<1>4. /\ disk[p].state \subseteq Held(p, o) /\ old.state \subseteq Held(p, o)
      /\ call.session \subseteq Held(p, o)
  BY <1>2 DEF Held
<1>5. PICK new \in SoundCalls :
        /\ Becomes(p, o, new) /\ new.session = call.session /\ new.message = call.message
        /\ new.step \in {"established", "ready", "opening", "saved"}
  <2>1. \A s \in {"ready", "opening", "saved"} :
          /\ [call EXCEPT !.step = s] \in SoundCalls
          /\ [call EXCEPT !.step = s].session = call.session
          /\ [call EXCEPT !.step = s].message = call.message
          /\ [call EXCEPT !.step = s].step = s
    <3> HIDE DEF call
    <3>1. QED
      BY <1>1 DEF SoundCalls, Steps
  <2> DEFINE made == [call EXCEPT !.step = "established", !.before = disk[p].state]
  <2>2. /\ made \in SoundCalls /\ made.session = call.session
        /\ made.message = call.message /\ made.step = "established"
    <3> HIDE DEF call
    <3>1. QED
      BY <1>1 DEF SoundCalls, Steps
  <2>3. \/ Becomes(p, o, made)
        \/ \E s \in {"ready", "opening", "saved"} : Becomes(p, o, [call EXCEPT !.step = s])
    BY DEF SaveNewSession, SaveNewMac, DeletePreKey, SaveMac
  <2> HIDE DEF made, call
  <2>4. QED
    BY <2>1, <2>2, <2>3
<1>6. PICK d \in SoundCells, c \in SoundCells :
        /\ disk' = [disk EXCEPT ![p] = d] /\ Caches(p, o, c)
        /\ d.state \subseteq Held(p, o) /\ c.state \subseteq Held(p, o)
  <2>1. CASE StoreAsync(p, o, old, "state", call.session)
    <3> DEFINE d == [disk[p] EXCEPT !["state"] = call.session]
               c == [old EXCEPT !["state"] = call.session]
    <3>1. /\ disk' = [disk EXCEPT ![p] = d] /\ Caches(p, o, c)
          /\ d \in SoundCells /\ c \in SoundCells
      BY <1>1, <2>1, StoreForms
    <3>2. d.state = call.session /\ c.state = call.session
      <4> HIDE DEF old, call
      <4>1. QED
        BY <1>1 DEF SoundCells
    <3> HIDE DEF c, d
    <3>3. QED
      BY <1>4, <3>1, <3>2
  <2>2. CASE StoreAsync(p, o, old, "mac", call.session)
    <3> DEFINE d == [disk[p] EXCEPT !["mac"] = call.session]
               c == [old EXCEPT !["mac"] = call.session]
    <3>1. /\ disk' = [disk EXCEPT ![p] = d] /\ Caches(p, o, c)
          /\ d \in SoundCells /\ c \in SoundCells
      BY <1>1, <2>2, StoreForms
    <3>2. d.state = disk[p].state /\ c.state = old.state
      <4> HIDE DEF old, call
      <4>1. QED
        BY <1>1 DEF SoundCells
    <3> HIDE DEF c, d
    <3>3. QED
      BY <1>4, <3>1, <3>2
  <2>3. CASE UNCHANGED <<disk, cache>>
    <3>1. cache = [cache EXCEPT ![p][TabOf[o]] = old] /\ disk = [disk EXCEPT ![p] = disk[p]]
      BY SessionAssumption DEF Typed, PlacesTyped
    <3>2. Caches(p, o, old) /\ disk' = [disk EXCEPT ![p] = disk[p]]
      BY <2>3, <3>1 DEF Caches
    <3> HIDE DEF old
    <3>3. QED
      BY <1>1, <1>4, <3>2
  <2>4. QED
    BY <1>2, <2>1, <2>2, <2>3 DEF SaveNewSession, SaveNewMac, DeletePreKey, SaveMac
<1> HIDE DEF call, old
<1>7. Outcome(p, o)
  BY <1>2, <1>3, <1>4, <1>5, <1>6, RestsEffect
<1>8. QED
  BY <1>3, <1>7

\* The first message is opened with the session built for it.
LEMMA OpenFirstEffect ==
  ASSUME Typed, NEW p \in Party, NEW o \in Op, OpenFirst(p, o)
  PROVE  Outcome(p, o) /\ Stays
<1> DEFINE call == Resumed(p, o)
           old  == cache[p][TabOf[o]]
<1>1. /\ call \in SoundCalls /\ call.job \in Jobs(p) /\ call.job = ops[p][o].job
      /\ old \in SoundCells /\ ops[p][o] \in SoundCalls /\ Fits(ops[p][o])
  BY ResumedTyped
<1>2. ops[p][o].session \subseteq Sound /\ call.message = ops[p][o].message
  BY <1>1, CallFields, ResumedFields
<1>3. call.job # Sending
  BY <1>1 DEF OpenFirst, Fits
<1>4. PICK st \in ops[p][o].session : Unseals(p, o, call, old, st)
  BY DEF OpenFirst
<1>5. old.state \subseteq Held(p, o) /\ st \in Held(p, o)
  BY DEF Held
<1>6. Stays
  BY DEF OpenFirst, Stays
<1> HIDE DEF call, old
<1>7. Outcome(p, o)
  BY <1>1, <1>2, <1>3, <1>4, <1>5, UnsealsEffect
<1>8. QED
  BY <1>6, <1>7

-----------------------------------------------------------------------------
\* The parity of the number of outputs in the roots p sends under.
Parity(p) == IF p = Initiator THEN 0 ELSE 1

\* A root that device p seals on while `local' is its ratchet key: the last
\* output is one of that key and a key of the peer.
OnRoot(p, local, root) ==
  /\ Len(root) % 2 = Parity(p)
  /\ \E before \in RootKeys, remote \in Key :
       remote[1] = Channel!Peer(p) /\ root = Append(before, DH(local, remote))

\* The chain is past the key.
Behind(key, chain) == key.root = chain.root /\ key.step < chain.step

\* Of a session that p may go on with: what was sealed under its ratchet key is
\* behind its send chain.
SessionInv(p, o, st) ==
  /\ st \in Sound
  /\ Len(st.RootKey) % 2 = Parity(p)
  /\ st.LocalRatchetKey[1] = p /\ st.LocalRatchetKey[2] <= generated[p]
  /\ st.SendChainKey.root # << >> =>
       /\ OnRoot(p, st.LocalRatchetKey, st.SendChainKey.root)
       /\ \A w \in Wires(p, o) :
            w.ratchet.pub = st.LocalRatchetKey /\ w.ratchet.key.root # << >> =>
              Behind(w.ratchet.key, st.SendChainKey)

\* Of a message of p: it names the ratchet key it was sealed under.
MessageInv(p, w) ==
  /\ w.ratchet.pub[1] = p /\ w.ratchet.pub[2] <= generated[p]
  /\ w.ratchet.key.root # << >> => OnRoot(p, w.ratchet.pub, w.ratchet.key.root)
  /\ w.prekey => p = Initiator

\* No two messages of p share a key of a chain agreed with the peer.
Distinct(p, o) ==
  /\ \A i, j \in DOMAIN sent[p] :
       sent[p][i].ratchet.key = sent[p][j].ratchet.key =>
         sent[p][i].ratchet.key.root = << >> \/ i = j
  /\ \A i \in DOMAIN sent[p], w \in ops[p][o].message :
       sent[p][i].ratchet.key = w.ratchet.key => w.ratchet.key.root = << >>

\* The part of the inductive invariant about one device.
DeviceInv(p, o) ==
  /\ ops[p][o].step = "prekeys" => p = Responder
  /\ p = Responder => initiation[p] = {}
  /\ \A st \in Held(p, o) : SessionInv(p, o, st)
  /\ \A w \in Wires(p, o) : MessageInv(p, w)
  /\ Distinct(p, o)

\* The inductive invariant behind UniqueChainKeys, for one call per device.
KeysInv(o) == \A p \in Party : DeviceInv(p, o)

-----------------------------------------------------------------------------
\* A root tells which ratchet key of the device it was made with.
LEMMA RootNamesKey ==
  ASSUME NEW p \in Party, NEW k \in Key, NEW l \in Key, k[1] = p, l[1] = p, NEW root,
         OnRoot(p, k, root), OnRoot(p, l, root)
  PROVE  k = l
<1>1. PICK b1 \in RootKeys, r1 \in Key :
        r1[1] = Channel!Peer(p) /\ root = Append(b1, DH(k, r1))
  BY DEF OnRoot
<1>2. PICK b2 \in RootKeys, r2 \in Key :
        r2[1] = Channel!Peer(p) /\ root = Append(b2, DH(l, r2))
  BY DEF OnRoot
<1> DEFINE S == SharedSecret \cup SUBSET Key
           x == DH(k, r1)
           y == DH(l, r2)
<1>3. x \in S /\ y \in S /\ b1 \in Seq(S) /\ b2 \in Seq(S)
  BY DEF DH, RootKeys
<1>4. x = y
  <2> HIDE DEF x, y, S
  <2>1. Append(b1, x) = Append(b2, y)
    BY <1>1, <1>2 DEF x, y
  <2>2. Append(b1, x)[Len(b1) + 1] = x /\ Len(Append(b1, x)) = Len(b1) + 1
    BY <1>3
  <2>3. Append(b2, y)[Len(b2) + 1] = y /\ Len(Append(b2, y)) = Len(b2) + 1
    BY <1>3
  <2>4. Len(b1) + 1 = Len(b2) + 1
    BY <2>1, <2>2, <2>3
  <2>5. QED
    BY <2>1, <2>2, <2>3, <2>4
<1>5. k \in {l, r2}
  BY <1>4 DEF DH
<1>6. k # r2
  BY <1>2, Peers
<1>7. QED
  BY <1>5, <1>6

\* The messages of a device are typed.
LEMMA WiresTyped ==
  ASSUME Typed, NEW p \in Party, NEW o \in Op, NEW w \in Wires(p, o)
  PROVE  /\ w \in Channel!WireMessages /\ w.ratchet \in Messages
         /\ w.ratchet.pub \in Key /\ w.ratchet.pub[2] \in Nat
         /\ w.ratchet.key \in ChainKeys /\ w.ratchet.key.step \in Nat
<1>1. sent[p] \in Seq(Channel!WireMessages)
  BY DEF Typed, RestTyped
<1>2. ops[p][o].message \subseteq Channel!WireMessages
  BY ResumedTyped, CallFields
<1>3. w \in Channel!WireMessages
  BY <1>1, <1>2 DEF Wires
<1>4. w.ratchet \in Messages
  BY <1>3, SameTypes
<1>5. w.ratchet.pub \in Key /\ w.ratchet.key \in ChainKeys
  BY <1>4 DEF Messages
<1>6. QED
  BY <1>3, <1>4, <1>5 DEF Key, ChainKeys

\* The types of the fields of a state that occurs.
LEMMA SoundFields ==
  ASSUME NEW st \in Sound
  PROVE  /\ WellFormed(st) /\ st \in RatchetStates
         /\ st.LocalRatchetKey \in Key /\ st.LocalRatchetKey[2] \in Nat
         /\ st.RootKey \in RootKeys /\ Len(st.RootKey) \in Nat
         /\ st.SendChainKey \in ChainKeys /\ st.SendChainKey.step \in Nat
<1>1. WellFormed(st) /\ st \in RatchetStates
  BY DEF Sound
<1>2. /\ st.LocalRatchetKey \in Key /\ st.RootKey \in RootKeys /\ st.SendChainKey \in ChainKeys
  BY <1>1 DEF RatchetStates
<1>3. QED
  BY <1>1, <1>2 DEF Key, RootKeys, ChainKeys

\* A session keeps its invariant while nothing more is sealed.
LEMMA SessionKeeps ==
  ASSUME Typed, Typed', NEW p \in Party, NEW o \in Op, NEW st, SessionInv(p, o, st),
         generated'[p] >= generated[p], Wires(p, o)' \subseteq Wires(p, o)
  PROVE  SessionInv(p, o, st)'
<1>1. generated[p] \in Nat /\ generated'[p] \in Nat /\ st.LocalRatchetKey[2] \in Nat
  BY SoundFields DEF Typed, RestTyped, SessionInv
<1>2. st.LocalRatchetKey[2] <= generated'[p]
  BY <1>1 DEF SessionInv
<1>3. QED
  BY <1>2 DEF SessionInv

\* A message keeps its invariant while key pairs are generated.
LEMMA MessageKeeps ==
  ASSUME Typed, Typed', NEW p \in Party, NEW o \in Op, NEW w \in Wires(p, o),
         MessageInv(p, w), generated'[p] >= generated[p]
  PROVE  MessageInv(p, w)'
<1>1. generated[p] \in Nat /\ generated'[p] \in Nat /\ w.ratchet.pub[2] \in Nat
  BY WiresTyped DEF Typed, RestTyped
<1>2. w.ratchet.pub[2] <= generated'[p]
  BY <1>1 DEF MessageInv
<1>3. QED
  BY <1>2 DEF MessageInv

\* A device that takes no step keeps its invariant.
LEMMA DeviceKeeps ==
  ASSUME NEW q \in Party, NEW o \in Op, DeviceInv(q, o), Held(q, o)' = Held(q, o),
         ops'[q][o] = ops[q][o], initiation'[q] = initiation[q],
         generated'[q] = generated[q], sent'[q] = sent[q]
  PROVE  DeviceInv(q, o)'
<1>1. Wires(q, o)' = Wires(q, o)
  BY DEF Wires
<1>2. \A st : SessionInv(q, o, st) => SessionInv(q, o, st)'
  BY <1>1 DEF SessionInv
<1>3. \A w : MessageInv(q, w) => MessageInv(q, w)'
  BY DEF MessageInv
<1>4. Distinct(q, o)'
  BY DEF DeviceInv, Distinct
<1>5. QED
  BY <1>1, <1>2, <1>3, <1>4 DEF DeviceInv

\* A session built anew has sealed on no agreed chain.
LEMMA NewSessionInv ==
  ASSUME Typed, NEW p \in Party, NEW o \in Op, NEW st \in NewSessions(p)
  PROVE  SessionInv(p, o, st)
<1>1. /\ st \in Sound /\ p = Responder /\ Len(st.RootKey) = 1 /\ st.SendChainKey = EmptyChain
      /\ st.LocalRatchetKey = KeyPair(Responder, 0)
  BY DEF NewSessions
<1>2. st.LocalRatchetKey[1] = p /\ st.LocalRatchetKey[2] = 0 /\ generated[p] >= 0
  BY <1>1 DEF KeyPair, Typed, RestTyped
<1>3. Parity(p) = 1
  BY <1>1, SessionAssumption DEF Parity
<1>4. Len(st.RootKey) % 2 = Parity(p)
  BY <1>1, <1>3
<1>5. QED
  BY <1>1, <1>2, <1>4, EmptyRoot DEF SessionInv

\* A step that uses no session keeps the invariant (LoadSessionAsync,
\* EstablishSessionAsResponderAsync).
LEMMA RestsKeep ==
  ASSUME Typed, Typed', NEW p \in Party, NEW o \in Op, DeviceInv(p, o), Outcome(p, o),
         \A w \in Received(p) : w.prekey => p = Responder, Stays, Rests(p, o)
  PROVE  DeviceInv(p, o)'
<1>1. Wires(p, o)' \subseteq Wires(p, o)
  BY DEF Wires, Rests, Stays
<1>2. generated'[p] >= generated[p]
  BY DEF Rests, Typed, RestTyped
<1>3. ASSUME NEW st \in Held(p, o)' PROVE SessionInv(p, o, st)'
  <2>1. SessionInv(p, o, st)
    BY <1>3, NewSessionInv DEF Rests, DeviceInv
  <2>2. QED
    BY <2>1, <1>1, <1>2, SessionKeeps
<1>4. ASSUME NEW w \in Wires(p, o)' PROVE MessageInv(p, w)'
  <2>1. w \in Wires(p, o) /\ MessageInv(p, w)
    BY <1>1, <1>4 DEF DeviceInv
  <2>2. QED
    BY <2>1, <1>2, MessageKeeps
<1>5. Distinct(p, o)'
  BY DEF Distinct, DeviceInv, Rests, Stays
<1>6. /\ ops'[p][o].step = "prekeys" => p = Responder
      /\ p = Responder => initiation'[p] = {}
  BY DEF Outcome, DeviceInv
<1>7. QED
  BY <1>3, <1>4, <1>5, <1>6 DEF DeviceInv

\* Sealing keeps it: the key is the next of its chain, and the new state replaces
\* every other the device could go on with (EncryptBytesAsync, SaveSessionAsync).
LEMMA SealsKeep ==
  ASSUME Typed, Typed', NEW p \in Party, NEW o \in Op, DeviceInv(p, o), Outcome(p, o),
         \A w \in Received(p) : w.prekey => p = Responder, Stays,
         NEW st \in Held(p, o), SealsWith(p, o, st)
  PROVE  DeviceInv(p, o)'
<1> DEFINE new == AfterEncrypt(st)
           msg == [ratchet |-> SealedMessage(st), prekey |-> TabOf[o] \in initiation[p]]
<1>1. SessionInv(p, o, st) /\ st \in Sound
  BY DEF DeviceInv, SessionInv
<1>2. /\ WellFormed(st) /\ st \in RatchetStates
      /\ st.LocalRatchetKey \in Key /\ st.LocalRatchetKey[2] \in Nat
      /\ st.SendChainKey \in ChainKeys /\ st.SendChainKey.step \in Nat
  BY <1>1, SoundFields
<1>3. /\ new \in Sound
      /\ new.RootKey = st.RootKey /\ new.LocalRatchetKey = st.LocalRatchetKey
      /\ new.SendChainKey.root = st.SendChainKey.root
      /\ new.SendChainKey.step = st.SendChainKey.step + 1
  <2>1. /\ new \in RatchetStates
        /\ new = [st EXCEPT !.SendChainKey = new.SendChainKey,
                            !.SendMessageIndex = st.SendMessageIndex + 1]
        /\ new.SendChainKey = Advance(st.SendChainKey, 1)
    BY <1>2, SealedTyped
  <2>2. new \in Sound
    BY <1>1, SoundStates
  <2> HIDE DEF new
  <2>3. new.RootKey = st.RootKey /\ new.LocalRatchetKey = st.LocalRatchetKey
    BY <2>1, <1>2 DEF RatchetStates
  <2>4. /\ new.SendChainKey.root = st.SendChainKey.root
        /\ new.SendChainKey.step = st.SendChainKey.step + 1
    BY <2>1 DEF Advance
  <2>5. QED
    BY <2>2, <2>3, <2>4
<1>4. msg.ratchet.pub = st.LocalRatchetKey /\ msg.ratchet.key = st.SendChainKey
  BY DEF SealedMessage
<1>5. /\ Held(p, o)' = {new} /\ ops'[p][o].message = {msg} /\ generated' = generated
  BY DEF SealsWith
<1>6. Wires(p, o)' \subseteq Wires(p, o) \cup {msg}
  BY <1>5 DEF Wires, Stays
<1>7. \A w \in Wires(p, o) : MessageInv(p, w)
  BY DEF DeviceInv
<1> HIDE DEF new, msg
<1>8. MessageInv(p, msg)
  <2>1. msg.prekey => p = Initiator
    <3>1. msg.prekey = (TabOf[o] \in initiation[p])
      BY DEF msg
    <3>2. QED
      BY <3>1, SessionAssumption DEF DeviceInv
  <2>2. QED
    BY <1>1, <1>4, <2>1 DEF MessageInv, SessionInv
<1>9. SessionInv(p, o, new)'
  <2>1. ASSUME NEW w \in Wires(p, o)', w.ratchet.pub = new.LocalRatchetKey,
               w.ratchet.key.root # << >>, new.SendChainKey.root # << >>
        PROVE  Behind(w.ratchet.key, new.SendChainKey)
    <3>1. CASE w \in Wires(p, o)
      <4>1. Behind(w.ratchet.key, st.SendChainKey) /\ w.ratchet.key.step \in Nat
        BY <1>1, <1>3, <2>1, <3>1, WiresTyped DEF SessionInv
      <4>2. QED
        BY <4>1, <1>2, <1>3 DEF Behind
    <3>2. CASE w = msg
      BY <3>2, <1>2, <1>3, <1>4 DEF Behind
    <3>3. QED
      BY <1>6, <3>1, <3>2
  <2>2. new.SendChainKey.root # << >> =>
          OnRoot(p, new.LocalRatchetKey, new.SendChainKey.root)
    BY <1>1, <1>3 DEF SessionInv
  <2>3. /\ Len(new.RootKey) % 2 = Parity(p)
        /\ new.LocalRatchetKey[1] = p /\ new.LocalRatchetKey[2] <= generated'[p]
    BY <1>1, <1>3, <1>5 DEF SessionInv
  <2>4. QED
    BY <1>3, <2>1, <2>2, <2>3 DEF SessionInv
<1>10. ASSUME NEW w \in Wires(p, o)' PROVE MessageInv(p, w)'
  BY <1>5, <1>6, <1>7, <1>8, <1>10 DEF MessageInv
<1>11. ASSUME NEW i \in DOMAIN sent[p], sent[p][i].ratchet.key = msg.ratchet.key,
              msg.ratchet.key.root # << >>
       PROVE  FALSE
  <2> DEFINE w == sent[p][i]
  <2>1. w \in Wires(p, o)
    BY DEF Wires
  <2>2. w.ratchet.key = st.SendChainKey /\ st.SendChainKey.root # << >>
    BY <1>4, <1>11
  <2> HIDE DEF w
  <2>3. /\ w.ratchet.pub \in Key /\ w.ratchet.pub[1] = p
        /\ OnRoot(p, w.ratchet.pub, st.SendChainKey.root)
    BY <2>1, <2>2, <1>7, WiresTyped DEF MessageInv
  <2>4. st.LocalRatchetKey[1] = p /\ OnRoot(p, st.LocalRatchetKey, st.SendChainKey.root)
    BY <1>1, <2>2 DEF SessionInv
  <2>5. w.ratchet.pub = st.LocalRatchetKey
    BY <1>2, <2>3, <2>4, RootNamesKey
  <2>6. Behind(w.ratchet.key, st.SendChainKey)
    BY <1>1, <2>1, <2>2, <2>5 DEF SessionInv
  <2>7. QED
    BY <2>2, <2>6, <1>2 DEF Behind
<1>12. Distinct(p, o)'
  <2>1. \A i \in DOMAIN sent[p] :
          sent[p][i].ratchet.key = msg.ratchet.key => msg.ratchet.key.root = << >>
    BY <1>11
  <2>2. \A i, j \in DOMAIN sent[p] :
          sent[p][i].ratchet.key = sent[p][j].ratchet.key =>
            sent[p][i].ratchet.key.root = << >> \/ i = j
    BY DEF DeviceInv, Distinct
  <2>3. QED
    BY <2>1, <2>2, <1>5 DEF Distinct, Stays
<1>13. /\ ops'[p][o].step = "prekeys" => p = Responder
       /\ p = Responder => initiation'[p] = {}
  BY DEF Outcome, DeviceInv
<1>14. QED
  BY <1>5, <1>9, <1>10, <1>12, <1>13 DEF DeviceInv

\* Opening keeps it: a chain to send on changes only with a key pair just
\* generated (PerformDhRatchetStep).
LEMMA OpensKeep ==
  ASSUME Typed, Typed', NEW p \in Party, NEW o \in Op, DeviceInv(p, o), Outcome(p, o),
         \A w \in Received(p) : w.prekey => p = Responder, Stays,
         NEW st \in Held(p, o), NEW m \in Messages, m.pub[1] = Channel!Peer(p),
         OpensWith(p, o, st, m)
  PROVE  DeviceInv(p, o)'
<1>1. SessionInv(p, o, st) /\ st \in Sound
  BY DEF DeviceInv, SessionInv
<1>2. PICK fresh \in Key : fresh = KeyPair(p, generated[p] + 1)
  BY FreshTyped
<1>3. PICK new \in Sound : new = Decrypt(st, m, fresh).state
  BY <1>1, SoundStates
<1>4. KeepsSending(st, new) \/ StartsSending(st, new, m.pub, fresh)
  BY <1>1, <1>3, SoundFields, DecryptSending
<1>5. /\ Held(p, o)' = {new} /\ ops'[p][o].message \subseteq ops[p][o].message
      /\ generated' = [generated EXCEPT ![p] = IF new.LocalRatchetKey = fresh THEN @ + 1 ELSE @]
  BY <1>2, <1>3 DEF OpensWith
<1>0. /\ fresh[1] = p /\ fresh[2] = generated[p] + 1
      /\ generated[p] \in Nat /\ generated \in [Party -> Nat]
  BY <1>2 DEF KeyPair, Typed, RestTyped
<1>6. /\ generated'[p] \in Nat /\ generated'[p] >= generated[p]
      /\ new.LocalRatchetKey = fresh => generated'[p] = generated[p] + 1
  BY <1>0, <1>5
<1>7. Wires(p, o)' \subseteq Wires(p, o)
  BY <1>5 DEF Wires, Stays
<1>8. SessionInv(p, o, new)'
  <2>1. CASE KeepsSending(st, new)
    <3>1. SessionInv(p, o, new)
      BY <2>1, <1>1, <1>3 DEF SessionInv, KeepsSending
    <3>2. QED
      BY <3>1, <1>6, <1>7, SessionKeeps
  <2>2. CASE StartsSending(st, new, m.pub, fresh)
    <3>1. PICK before \in RootKeys : new.RootKey = Append(before, DH(fresh, m.pub))
      BY <2>2 DEF StartsSending
    <3>2. /\ Len(new.RootKey) = Len(st.RootKey) + 2
          /\ new.SendChainKey = Seed(new.RootKey) /\ new.LocalRatchetKey = fresh
      BY <2>2 DEF StartsSending
    <3>3. Len(new.RootKey) % 2 = Parity(p)
      <4>1. Len(st.RootKey) \in Nat
        BY <1>1, SoundFields
      <4>2. Len(st.RootKey) % 2 = Parity(p)
        BY <1>1 DEF SessionInv
      <4>3. Parity(p) \in 0 .. 1
        BY DEF Parity
      <4>4. QED
        BY <4>1, <4>2, <4>3, <3>2, NextParity
    <3>4. new.SendChainKey.root = new.RootKey
      BY <3>2 DEF Seed
    <3>5. OnRoot(p, new.LocalRatchetKey, new.SendChainKey.root)
      <4>1. m.pub \in Key
        BY DEF Messages
      <4>2. QED
        BY <4>1, <3>1, <3>2, <3>3, <3>4 DEF OnRoot
    <3>6. new.LocalRatchetKey[1] = p /\ new.LocalRatchetKey[2] <= generated'[p]
      BY <3>2, <1>0, <1>6
    <3>7. \A w \in Wires(p, o)' : w.ratchet.pub # new.LocalRatchetKey
      <4>1. SUFFICES ASSUME NEW w \in Wires(p, o), w.ratchet.pub = fresh
                     PROVE  FALSE
        BY <1>7, <3>2
      <4>2. w.ratchet.pub[2] <= generated[p]
        BY DEF DeviceInv, MessageInv
      <4>3. QED
        BY <4>1, <4>2, <1>0
    <3>8. QED
      BY <1>3, <3>3, <3>5, <3>6, <3>7 DEF SessionInv
  <2>3. QED
    BY <1>4, <2>1, <2>2
<1>9. ASSUME NEW w \in Wires(p, o)' PROVE MessageInv(p, w)'
  <2>1. w \in Wires(p, o) /\ MessageInv(p, w)
    BY <1>7, <1>9 DEF DeviceInv
  <2>2. QED
    BY <2>1, <1>6, MessageKeeps
<1>10. Distinct(p, o)'
  BY <1>5 DEF Distinct, DeviceInv, Stays
<1>11. /\ ops'[p][o].step = "prekeys" => p = Responder
       /\ p = Responder => initiation'[p] = {}
  BY DEF Outcome, DeviceInv
<1>12. QED
  BY <1>5, <1>8, <1>9, <1>10, <1>11 DEF DeviceInv

\* Every step but the last of a call keeps it for both devices.
LEMMA OutcomeKeeps ==
  ASSUME Typed, Typed', NEW p \in Party, NEW o \in Op, KeysInv(o), Outcome(p, o), Stays
  PROVE  KeysInv(o)'
<1>1. ASSUME NEW w \in Received(p)
      PROVE  /\ w.ratchet \in Messages /\ w.ratchet.pub[1] = Channel!Peer(p)
             /\ w.prekey => p = Responder
  <2>1. w \in Wires(Channel!Peer(p), o) /\ Channel!Peer(p) \in Party
    BY Peers DEF Received, Wires
  <2>2. MessageInv(Channel!Peer(p), w)
    BY <2>1 DEF KeysInv, DeviceInv
  <2>3. Channel!Peer(p) = Initiator => p = Responder
    BY SessionAssumption DEF Channel!Peer
  <2>4. QED
    BY <2>1, <2>2, <2>3, WiresTyped DEF MessageInv
<1>2. DeviceInv(p, o)'
  <2>1. DeviceInv(p, o)
    BY DEF KeysInv
  <2>2. CASE Rests(p, o)
    BY <1>1, <2>1, <2>2, RestsKeep
  <2>3. CASE \E st \in Held(p, o) : SealsWith(p, o, st)
    BY <1>1, <2>1, <2>3, SealsKeep
  <2>4. CASE \E st \in Held(p, o), w \in Received(p) : OpensWith(p, o, st, w.ratchet)
    BY <1>1, <2>1, <2>4, OpensKeep
  <2>5. QED
    BY <2>2, <2>3, <2>4 DEF Outcome
<1>3. ASSUME NEW q \in Party \ {p} PROVE DeviceInv(q, o)'
  <2>1. generated'[q] = generated[q]
    BY DEF Outcome, Rests, SealsWith, OpensWith, Typed, RestTyped
  <2>2. DeviceInv(q, o)
    BY DEF KeysInv
  <2>3. QED
    BY <2>1, <2>2, DeviceKeeps DEF Outcome, Others, Stays
<1>4. QED
  BY <1>2, <1>3 DEF KeysInv

\* A reload only takes away what a device may go on with.
LEMMA ReloadEffect ==
  ASSUME Typed, NEW p \in Party, NEW o \in Op, NEW t \in Tab, Reload(p, t)
  PROVE  Outcome(p, o) /\ Stays
<1>1. /\ cache' = [cache EXCEPT ![p][t] = NoCells]
      /\ initiation' = [initiation EXCEPT ![p] = @ \ {t}]
      /\ ops' = [ops EXCEPT ![p] = [r \in Op |-> IF TabOf[r] = t THEN Idle ELSE @[r]]]
      /\ UNCHANGED <<disk, generated, sent>>
  BY DEF Reload
<1>2. /\ ops'[p][o] = IF TabOf[o] = t THEN Idle ELSE ops[p][o]
      /\ \A q \in Party \ {p} : ops'[q] = ops[q]
  BY <1>1 DEF Typed, CallsTyped
<1>3. /\ cache'[p][TabOf[o]] \in {NoCells, cache[p][TabOf[o]]}
      /\ \A q \in Party \ {p} : cache'[q] = cache[q]
  BY <1>1, SessionAssumption DEF Typed, PlacesTyped
<1>4. /\ initiation'[p] \subseteq initiation[p]
      /\ \A q \in Party \ {p} : initiation'[q] = initiation[q]
  BY <1>1 DEF Typed, RestTyped
<1>5. Idle.session = {} /\ Idle.step = "idle" /\ Idle.message = {}
  BY DEF Idle
<1>6. Held(p, o)' \subseteq Held(p, o)
  <2>1. disk'[p].state = disk[p].state
    BY <1>1
  <2>2. cache'[p][TabOf[o]].state \subseteq cache[p][TabOf[o]].state
    BY <1>3 DEF NoCells
  <2>3. ops'[p][o].session \cup (IF ops'[p][o].step = "state" THEN ops'[p][o].got ELSE {})
          \subseteq ops[p][o].session
            \cup (IF ops[p][o].step = "state" THEN ops[p][o].got ELSE {})
    BY <1>2, <1>5
  <2>4. QED
    BY <2>1, <2>2, <2>3 DEF Held
<1>7. Rests(p, o)
  BY <1>1, <1>2, <1>5, <1>6 DEF Rests
<1>8. Others(p, o)
  BY <1>1, <1>2, <1>3, <1>4 DEF Others, Held
<1>9. QED
  BY <1>1, <1>2, <1>4, <1>5, <1>7, <1>8 DEF Outcome, Stays

\* The end of a call keeps it: what it hands over it had already sealed.
LEMMA ReturnKeeps ==
  ASSUME Typed, Typed', NEW p \in Party, NEW o \in Op, KeysInv(o), Return(p, o)
  PROVE  KeysInv(o)'
<1> DEFINE call == Resumed(p, o)
<1>1. call.message = ops[p][o].message
  BY ResumedFields
<1>2. \/ \E m \in call.message : sent' = [sent EXCEPT ![p] = Append(@, m)]
      \/ sent' = sent
  BY DEF Return
<1>3. /\ Becomes(p, o, Idle)
      /\ UNCHANGED <<disk, cache, initiation, generated>>
  BY DEF Return, Returns
<1> HIDE DEF call
<1>4. cache[p][TabOf[o]] \in SoundCells /\ cache[p][TabOf[o]].state \subseteq Held(p, o)
  BY ResumedTyped DEF Held
<1>5. /\ Held(p, o)' \subseteq Held(p, o) /\ ops'[p][o].message = {}
      /\ ops'[p][o].step = "idle"
      /\ \A q \in Party \ {p} : Held(q, o)' = Held(q, o) /\ ops'[q][o] = ops[q][o]
  BY <1>3, <1>4, ReturnsEffect
<1>6. sent \in [Party -> Seq(Channel!WireMessages)] /\ DeviceInv(p, o)
  BY DEF Typed, RestTyped, KeysInv
<1>7. /\ Wires(p, o)' \subseteq Wires(p, o)
      /\ \A i, j \in DOMAIN sent'[p] :
           sent'[p][i].ratchet.key = sent'[p][j].ratchet.key =>
             sent'[p][i].ratchet.key.root = << >> \/ i = j
      /\ \A q \in Party \ {p} : sent'[q] = sent[q]
  <2>1. CASE sent' = sent
    BY <1>5, <1>6, <2>1 DEF Wires, DeviceInv, Distinct
  <2>2. CASE \E m \in call.message : sent' = [sent EXCEPT ![p] = Append(@, m)]
    <3>1. PICK m \in ops[p][o].message : sent' = [sent EXCEPT ![p] = Append(@, m)]
      BY <1>1, <2>2
    <3>2. sent'[p] = Append(sent[p], m) /\ \A q \in Party \ {p} : sent'[q] = sent[q]
      BY <1>6, <3>1
    <3>3. sent[p] \in Seq(Channel!WireMessages)
      BY <1>6
    <3>4. \A i \in DOMAIN sent'[p] :
            \/ i \in DOMAIN sent[p] /\ sent'[p][i] = sent[p][i]
            \/ i = Len(sent[p]) + 1 /\ sent'[p][i] = m
      BY <3>2, <3>3
    <3>5. Wires(p, o)' \subseteq Wires(p, o)
      BY <1>5, <3>4 DEF Wires
    <3>6. ASSUME NEW i \in DOMAIN sent'[p], NEW j \in DOMAIN sent'[p],
                 sent'[p][i].ratchet.key = sent'[p][j].ratchet.key,
                 sent'[p][i].ratchet.key.root # << >>
          PROVE  i = j
      <4>1. \A k \in DOMAIN sent[p] : sent[p][k].ratchet.key = m.ratchet.key =>
              m.ratchet.key.root = << >>
        BY <1>6 DEF DeviceInv, Distinct
      <4>2. \A k, l \in DOMAIN sent[p] :
              sent[p][k].ratchet.key = sent[p][l].ratchet.key =>
                sent[p][k].ratchet.key.root = << >> \/ k = l
        BY <1>6 DEF DeviceInv, Distinct
      <4>3. QED
        BY <3>4, <3>6, <4>1, <4>2
    <3>7. QED
      BY <3>2, <3>5, <3>6
  <2>3. QED
    BY <1>2, <2>1, <2>2
<1>8. generated'[p] >= generated[p]
  BY <1>3 DEF Typed, RestTyped
<1>9. ASSUME NEW st \in Held(p, o)' PROVE SessionInv(p, o, st)'
  <2>1. SessionInv(p, o, st)
    BY <1>5, <1>6, <1>9 DEF DeviceInv
  <2>2. QED
    BY <2>1, <1>7, <1>8, SessionKeeps
<1>10. ASSUME NEW w \in Wires(p, o)' PROVE MessageInv(p, w)'
  <2>1. w \in Wires(p, o) /\ MessageInv(p, w)
    BY <1>6, <1>7, <1>10 DEF DeviceInv
  <2>2. QED
    BY <2>1, <1>8, MessageKeeps
<1>11. Distinct(p, o)'
  BY <1>5, <1>7 DEF Distinct
<1>12. DeviceInv(p, o)'
  BY <1>3, <1>5, <1>6, <1>9, <1>10, <1>11 DEF DeviceInv
<1>13. ASSUME NEW q \in Party \ {p} PROVE DeviceInv(q, o)'
  <2>1. DeviceInv(q, o)
    BY DEF KeysInv
  <2>2. QED
    BY <2>1, <1>3, <1>5, <1>7, DeviceKeeps
<1>14. QED
  BY <1>12, <1>13 DEF KeysInv

\* The session just established satisfies it.
LEMMA InitKeys ==
  ASSUME Init, NEW o \in Op
  PROVE  KeysInv(o)
<1> DEFINE first == InitializeAsInitiator(Secret, KeyPair(Initiator, 0), Channel!SignedPreKey)
           here  == Saved(first)
<1>1. /\ disk = [p \in Party |-> IF p = Initiator THEN here ELSE NoCells]
      /\ cache = [p \in Party |-> [t \in Tab |->
                    IF p = Initiator /\ t = FirstTab THEN here ELSE NoCells]]
      /\ ops = [p \in Party |-> [r \in Op |-> Idle]]
      /\ initiation = [p \in Party |-> IF p = Initiator THEN {FirstTab} ELSE {}]
      /\ generated = [p \in Party |-> 0]
      /\ sent = [p \in Party |-> << >>]
  BY DEF Init
<1>2. here.state = {first} /\ NoCells.state = {}
  BY DEF Saved, NoCells
<1>3. Idle.session = {} /\ Idle.step = "idle" /\ Idle.message = {}
  BY DEF Idle
<1>4. /\ KeyPair(Initiator, 0) \in Key /\ Channel!SignedPreKey \in Key
      /\ KeyPair(Initiator, 0)[1] = Initiator /\ KeyPair(Initiator, 0)[2] = 0
      /\ Channel!SignedPreKey[1] = Channel!Peer(Initiator)
      /\ Secret \in SharedSecret
  BY SessionAssumption, SameTypes DEF KeyPair, Key, Channel!Peer
<1>5. /\ first \in Sound
      /\ first.RootKey = <<Secret, DH(KeyPair(Initiator, 0), Channel!SignedPreKey)>>
      /\ Len(first.RootKey) = 2 /\ first.SendChainKey = Seed(first.RootKey)
      /\ first.LocalRatchetKey = KeyPair(Initiator, 0)
  BY <1>4, StartStates, InitiatorWellFormed
<1>6. OnRoot(Initiator, KeyPair(Initiator, 0), first.RootKey)
  <2>1. first.RootKey = Append(<<Secret>>, DH(KeyPair(Initiator, 0), Channel!SignedPreKey))
    BY <1>5, AppendToOne
  <2>2. <<Secret>> \in RootKeys
    BY <1>4 DEF RootKeys
  <2>3. Len(first.RootKey) % 2 = Parity(Initiator)
    <3>1. Len(first.RootKey) = 2
      BY <1>5
    <3> HIDE DEF first
    <3>2. QED
      BY <3>1 DEF Parity
  <2>4. QED
    BY <1>4, <2>1, <2>2, <2>3 DEF OnRoot
<1> HIDE DEF first, here
<1>7. ASSUME NEW p \in Party PROVE DeviceInv(p, o)
  <2>1. Wires(p, o) = {}
    BY <1>1, <1>3 DEF Wires
  <2>2. Held(p, o) \subseteq {first} /\ (p # Initiator => Held(p, o) = {})
    BY <1>1, <1>2, <1>3, SessionAssumption DEF Held
  <2>3. SessionInv(Initiator, o, first)
    <3>1. first.SendChainKey.root = first.RootKey
      BY <1>5 DEF Seed
    <3>2. Len(first.RootKey) % 2 = Parity(Initiator)
      BY <1>5 DEF Parity
    <3>3. first.LocalRatchetKey[1] = Initiator /\ first.LocalRatchetKey[2] <= generated[Initiator]
      BY <1>1, <1>4, <1>5, SessionAssumption
    <3>4. p = Initiator => Wires(Initiator, o) = {}
      BY <2>1
    <3>5. Wires(Initiator, o) = {}
      BY <1>1, <1>3, SessionAssumption DEF Wires
    <3>6. QED
      BY <1>5, <1>6, <3>1, <3>2, <3>3, <3>5 DEF SessionInv
  <2>4. Distinct(p, o)
    BY <1>1, <1>3 DEF Distinct
  <2>5. /\ ops[p][o].step = "prekeys" => p = Responder
        /\ p = Responder => initiation[p] = {}
    BY <1>1, <1>3, SessionAssumption
  <2>6. QED
    BY <2>1, <2>2, <2>3, <2>4, <2>5 DEF DeviceInv
<1>8. QED
  BY <1>7 DEF KeysInv

\* Every step keeps it.
LEMMA NextKeys ==
  ASSUME Typed, NEW o, Op = {o}, KeysInv(o), [Next]_vars
  PROVE  KeysInv(o)'
<1>1. Typed' /\ o \in Op
  BY NextTyped
<1>2. CASE Next
  <2>1. PICK p \in Party :
          \/ \E job \in Jobs(p) : Start(p, o, job)
          \/ Step(p, o)
          \/ \E t \in Tab : Reload(p, t)
    BY <1>2 DEF Next, Jobs
  <2>2. ASSUME NEW job \in Jobs(p), Start(p, o, job) PROVE KeysInv(o)'
    BY <2>2, <1>1, StartEffect, OutcomeKeeps
  <2>3. CASE ReadPreKeys(p, o)
    <3>1. ops[p][o].step = "prekeys"
      BY <2>3, <1>1, ResumedFields DEF ReadPreKeys
    <3>2. p = Responder
      BY <1>1, <3>1 DEF KeysInv, DeviceInv
    <3>3. QED
      BY <2>3, <1>1, <3>2, ReadPreKeysEffect, OutcomeKeeps
  <2>4. CASE Return(p, o)
    BY <2>4, <1>1, ReturnKeeps
  <2>5. CASE \/ ReadState(p, o) \/ ReadMac(p, o) \/ DeleteMac(p, o)
             \/ SaveNewSession(p, o) \/ SaveNewMac(p, o) \/ DeletePreKey(p, o)
             \/ OpenFirst(p, o) \/ SaveMac(p, o)
    <3>1. Outcome(p, o) /\ Stays
      BY <2>5, <1>1, ReadStateEffect, ReadMacEffect, DeleteMacEffect, WriteEffect,
         OpenFirstEffect
    <3>2. QED
      BY <3>1, <1>1, OutcomeKeeps
  <2>6. ASSUME NEW t \in Tab, Reload(p, t) PROVE KeysInv(o)'
    BY <2>6, <1>1, ReloadEffect, OutcomeKeeps
  <2>7. QED
    BY <2>1, <2>2, <2>3, <2>4, <2>5, <2>6 DEF Step
<1>3. CASE UNCHANGED vars
  <2>1. SUFFICES ASSUME NEW q \in Party PROVE DeviceInv(q, o)'
    BY DEF KeysInv
  <2>2. DeviceInv(q, o)
    BY DEF KeysInv
  <2>3. Held(q, o)' = Held(q, o) /\ ops' = ops /\ initiation' = initiation
        /\ generated' = generated /\ sent' = sent
    BY <1>3 DEF vars, Held
  <2>4. QED
    BY <1>1, <2>2, <2>3, DeviceKeeps
<1>4. QED
  BY <1>2, <1>3

\* While a device does one call at a time, no two messages on chains agreed with
\* the peer share a key, however often pages are reloaded in the middle of a
\* call: a session that has sealed is saved before the ciphertext leaves, and a
\* session built anew only seals under a key pair generated after all those that
\* have sealed (SaveSessionAsync, EstablishSessionAsResponderAsync).
THEOREM ChainKeysUnique ==
  ASSUME NEW o, Op = {o}
  PROVE  Spec => []UniqueChainKeys
<1>1. Init => Typed /\ KeysInv(o)
  BY InitTyped, InitKeys
<1>2. Typed /\ KeysInv(o) /\ [Next]_vars => (Typed /\ KeysInv(o))'
  BY NextTyped, NextKeys
<1>3. Typed /\ KeysInv(o) => UniqueChainKeys
  <2>1. SUFFICES ASSUME Typed, KeysInv(o), NEW p \in Party, NEW q \in Party,
                        NEW i \in DOMAIN sent[p], NEW j \in DOMAIN sent[q],
                        sent[p][i].ratchet.key = sent[q][j].ratchet.key,
                        sent[p][i].ratchet.key.root # << >>
                 PROVE  p = q /\ i = j
    BY EmptyRoot DEF UniqueChainKeys
  <2> DEFINE root == sent[p][i].ratchet.key.root
  <2>2. sent[p][i] \in Wires(p, o) /\ sent[q][j] \in Wires(q, o)
    BY DEF Wires
  <2>3. /\ MessageInv(p, sent[p][i]) /\ MessageInv(q, sent[q][j])
        /\ Distinct(p, o)
    BY <2>1, <2>2 DEF KeysInv, DeviceInv
  <2>4. Len(root) % 2 = Parity(p) /\ Len(root) % 2 = Parity(q)
    BY <2>1, <2>3 DEF MessageInv, OnRoot
  <2>5. p = q
    <3>1. Parity(p) = Parity(q)
      BY <2>4
    <3>2. QED
      BY <3>1, SessionAssumption DEF Parity
  <2>6. QED
    BY <2>1, <2>3, <2>5 DEF Distinct
<1>4. QED
  BY <1>1, <1>2, <1>3, PTL DEF Spec

-----------------------------------------------------------------------------
\* The operators RatchetChannel takes from Ratchet are those of Ratchet.
LEMMA SameSkipping ==
  /\ \A n, chain : Channel!Advance(chain, n) = Advance(chain, n)
  /\ \A st, j : Channel!SkippedTo(st, j) = SkippedTo(st, j)
  /\ \A st, u : Channel!SkipIterations(st, u) = SkipIterations(st, u)
  /\ \A st, u : Channel!SkipMessages(st, u) = SkipMessages(st, u)
<1>1. \A n, chain : Channel!Advance(chain, n) = Advance(chain, n)
  BY DEF Channel!Advance, Advance
<1>2. \A st, j : Channel!SkippedTo(st, j) = SkippedTo(st, j)
  BY DEF Channel!SkippedTo, SkippedTo, Channel!Advance, Advance
<1>0. \A S : Channel!Cardinality(S) = Cardinality(S)
  BY DEF Channel!Cardinality, Cardinality
<1>3. \A st, u : Channel!SkipIterations(st, u) = SkipIterations(st, u)
  BY <1>0, <1>2 DEF Channel!SkipIterations, SkipIterations
<1>4. \A st, u : Channel!SkipMessages(st, u) = SkipMessages(st, u)
  BY <1>0, <1>2, <1>3 DEF Channel!SkipMessages, SkipMessages, Channel!EmptyChain, EmptyChain
<1>5. QED
  BY <1>1, <1>2, <1>3, <1>4

\* The same of those that open a message.
LEMMA SameOpening ==
  /\ \A st, r, f : Channel!PerformDhRatchetStep(st, r, f) = PerformDhRatchetStep(st, r, f)
  /\ \A st, m : Channel!HeldFor(st, m) = HeldFor(st, m)
  /\ \A st, m, f : Channel!Decrypt(st, m, f) = Decrypt(st, m, f)
  /\ \A st, m, f : Channel!Opens(st, m, f) <=> Opens(st, m, f)
<1>1. \A st, r, f : Channel!PerformDhRatchetStep(st, r, f) = PerformDhRatchetStep(st, r, f)
  BY DEF Channel!PerformDhRatchetStep, PerformDhRatchetStep, Channel!DH, DH, Channel!Seed, Seed
<1>2. \A st, m : Channel!HeldFor(st, m) = HeldFor(st, m)
  BY DEF Channel!HeldFor, HeldFor
<1>3. \A st, m : Channel!OpenWithSkipped(st, m) = OpenWithSkipped(st, m)
  BY DEF Channel!HeldFor, HeldFor, Channel!OpenWithSkipped, OpenWithSkipped
<1>4. \A st, m, f : Channel!ReadyFor(st, m, f) = ReadyFor(st, m, f)
  BY <1>1, SameSkipping DEF Channel!ReadyFor, ReadyFor
<1>5. \A st, m, f : Channel!OpenWithChain(st, m, f) = OpenWithChain(st, m, f)
  BY <1>4 DEF Channel!OpenWithChain, OpenWithChain, Channel!Advance, Advance
<1>6. \A st, m, f : Channel!Decrypt(st, m, f) = Decrypt(st, m, f)
  BY <1>2, <1>3, <1>5 DEF Channel!Decrypt, Decrypt
<1>7. QED
  BY <1>1, <1>2, <1>6 DEF Channel!Opens, Opens

\* The same of those that seal one or start a session.
LEMMA SameSealing ==
  /\ \A p, n : Channel!KeyPair(p, n) = KeyPair(p, n)
  /\ \A st : Channel!SealedMessage(st) = SealedMessage(st)
  /\ \A st : Channel!AfterEncrypt(st) = AfterEncrypt(st)
  /\ \A st : Channel!FreshFor(st) = KeyPair(st.LocalRatchetKey[1], st.LocalRatchetKey[2] + 1)
  /\ \A s, l : Channel!InitializeAsResponder(s, l) = InitializeAsResponder(s, l)
  /\ \A s, l, r : Channel!InitializeAsInitiator(s, l, r) = InitializeAsInitiator(s, l, r)
<1>1. /\ \A p, n : Channel!KeyPair(p, n) = KeyPair(p, n)
      /\ \A st : Channel!SealedMessage(st) = SealedMessage(st)
      /\ \A st : Channel!AfterEncrypt(st) = AfterEncrypt(st)
  BY DEF Channel!KeyPair, KeyPair, Channel!SealedMessage, SealedMessage, Channel!AfterEncrypt, AfterEncrypt, Channel!Advance, Advance
<1>2. \A st : Channel!FreshFor(st) = KeyPair(st.LocalRatchetKey[1], st.LocalRatchetKey[2] + 1)
  BY DEF Channel!KeyPair, KeyPair, Channel!FreshFor
<1>3. /\ \A s, l : Channel!InitializeAsResponder(s, l) = InitializeAsResponder(s, l)
      /\ \A s, l, r : Channel!InitializeAsInitiator(s, l, r) = InitializeAsInitiator(s, l, r)
  BY DEF Channel!InitializeAsResponder, InitializeAsResponder, Channel!InitializeAsInitiator, InitializeAsInitiator,
   Channel!EmptyChain, EmptyChain, Channel!Seed, Seed, Channel!DH, DH
<1>4. QED
  BY <1>1, <1>2, <1>3
-----------------------------------------------------------------------------
\* One call at a time in one tab: what the device holds while it runs.
Made == InitializeAsResponder(Secret, Channel!SignedPreKey)

\* A message is sealed, saved and not yet handed over.
Sealing(p, o) == ops[p][o].step \in {"save", "saved"} /\ ops[p][o].job = Sending

\* The cache of the tab is what localStorage holds, with its HMAC unless that is
\* being written; the last ratchet key generated is that of the session; the
\* InitiationResult is there until the first message is sealed.
InTab(p, o) ==
  LET here == disk[p]
  IN /\ cache[p][TabOf[o]] = here
     /\ ops[p][o].step \notin {"established", "save"} => here.mac = here.state
     /\ here.state = {} => p = Responder /\ otpk /\ generated[p] = 0
     /\ \A st \in here.state :
          here.state = {st} /\ st.LocalRatchetKey = KeyPair(p, generated[p])
     /\ TabOf[o] \in initiation[p] <=> p = Initiator /\ sent[p] = << >> /\ ~Sealing(p, o)

\* The atomic step of RatchetChannel that the call has yet to take.
Sends(p, o) ==
  LET call == ops[p][o]
  IN /\ call.job = Sending
     /\ \E st \in call.before :
          /\ call.before = {st} /\ disk[p].state = {AfterEncrypt(st)}
          /\ call.message = {[ratchet |-> SealedMessage(st),
                              prekey  |-> p = Initiator /\ sent[p] = << >>]}

\* It has opened its message, with the session it found or made.
Opened(p, o) ==
  LET call == ops[p][o]
      w    == Wire(p, call.job)
  IN /\ call.job # Sending
     /\ \E st \in IF call.before = {} /\ w.prekey THEN {Made} ELSE call.before :
          /\ Opens(st, w.ratchet, Channel!FreshFor(st))
          /\ disk[p].state = {Decrypt(st, w.ratchet, Channel!FreshFor(st)).state}

\* What a call that has come to a given await knows, and has done.
Progress(p, o) ==
  LET call == ops[p][o]
      here == disk[p]
  IN /\ call.step \notin {"mac", "delete"}
     /\ call.step # "idle" /\ call.job = Sending => Len(sent[p]) < MaxSends
     /\ call.step \in {"state", "prekeys", "otpk"} => here.state = {}
     /\ call.step = "state" => call.got = {}
     /\ call.step \in {"prekeys", "otpk", "established", "ready", "opening"} =>
          Wire(p, call.job).prekey
     /\ call.step = "otpk" => call.session = {Made}
     /\ call.step \in {"established", "ready", "opening"} =>
          /\ call.session = {Made} /\ here.state = {Made} /\ call.before = {}
          /\ p = Responder /\ generated[p] = 0
     /\ call.step \in {"save", "saved"} =>
          /\ call.session = here.state /\ here.state # {}
          /\ Sends(p, o) \/ Opened(p, o)

\* The inductive invariant behind ImplementsChannel, before any reload.
AloneInv(o) == \A p \in Party : InTab(p, o) /\ Progress(p, o)

-----------------------------------------------------------------------------
\* What RatchetChannel takes to be the session of p.
StoredIn(p, o) ==
  IF ops[p][o].step \in {"established", "ready", "opening", "save", "saved"}
  THEN ops[p][o].before ELSE disk[p].state

\* A step of p leaves the other device alone.
Apart(p, o) ==
  \A q \in Party \ {p} :
    /\ ops'[q][o] = ops[q][o] /\ disk'[q] = disk[q]
    /\ cache'[q][TabOf[o]] = cache[q][TabOf[o]]
    /\ generated'[q] = generated[q] /\ initiation'[q] = initiation[q]

\* A save puts the new state in both places, and remembers the old one.
LEMMA SavesAlone ==
  ASSUME Typed, NEW p \in Party, NEW o \in Op, NEW call \in SoundCalls,
         NEW new \in Sound, Saves(p, o, call, disk[p], new)
  PROVE  /\ ops'[p][o] \in SoundCalls
         /\ ops'[p][o].step = "save" /\ ops'[p][o].job = call.job
         /\ ops'[p][o].session = {new} /\ ops'[p][o].message = call.message
         /\ ops'[p][o].before = call.before
         /\ disk'[p].state = {new} /\ cache'[p][TabOf[o]] = disk'[p]
         /\ \A q \in Party \ {p} : disk'[q] = disk[q] /\ cache'[q] = cache[q] /\ ops'[q] = ops[q]
<1> DEFINE saving == [call EXCEPT !.step = "save", !.session = {new}, !.got = {}]
           d      == [disk[p] EXCEPT !["state"] = {new}]
<1>1. /\ saving \in SoundCalls
      /\ saving.session = {new} /\ saving.step = "save" /\ saving.job = call.job
      /\ saving.message = call.message /\ saving.before = call.before
  BY DEF SoundCalls, Steps
<1>2. disk[p] \in SoundCells /\ TabOf[o] \in Tab
  BY SessionAssumption DEF Typed, PlacesTyped
<1>3. d.state = {new}
  BY <1>2 DEF SoundCells
<1> HIDE DEF saving
<1>4. /\ disk' = [disk EXCEPT ![p]["state"] = {new}]
      /\ cache' = [cache EXCEPT ![p][TabOf[o]] = d]
      /\ ops' = [ops EXCEPT ![p][o] = saving]
  BY DEF Saves, StoreAsync, Caches, Becomes, saving
<1>5. disk'[p] = d /\ \A q \in Party \ {p} : disk'[q] = disk[q]
  BY <1>4 DEF Typed, PlacesTyped
<1> HIDE DEF d
<1>6. cache'[p][TabOf[o]] = d /\ \A q \in Party \ {p} : cache'[q] = cache[q]
  BY <1>2, <1>4 DEF Typed, PlacesTyped
<1>7. ops'[p][o] = saving /\ \A q \in Party \ {p} : ops'[q] = ops[q]
  BY <1>4 DEF Typed, CallsTyped
<1>8. QED
  BY <1>1, <1>3, <1>5, <1>6, <1>7

\* A call that goes back to Idle.
LEMMA ReturnsAlone ==
  ASSUME Typed, NEW p \in Party, NEW o \in Op, InTab(p, o), Returns(p, o),
         Caches(p, o, disk[p]) \/ cache' = cache, disk' = disk
  PROVE  /\ ops'[p][o] = Idle /\ ops'[p][o].step = "idle"
         /\ disk'[p] = disk[p] /\ cache'[p][TabOf[o]] = disk[p]
         /\ \A q \in Party \ {p} : disk'[q] = disk[q] /\ cache'[q] = cache[q] /\ ops'[q] = ops[q]
<1>1. ops'[p][o] = Idle /\ \A q \in Party \ {p} : ops'[q] = ops[q]
  BY DEF Returns, Becomes, Typed, CallsTyped
<1>2. /\ cache'[p][TabOf[o]] \in {disk[p], cache[p][TabOf[o]]}
      /\ \A q \in Party \ {p} : cache'[q] = cache[q]
  BY SessionAssumption DEF Caches, Typed, PlacesTyped
<1>3. QED
  BY <1>1, <1>2 DEF InTab, Idle

\* The local key pair after a message is opened.
LEMMA LocalAfter ==
  ASSUME NEW st \in Sound, NEW m \in Messages, NEW fresh \in Key, Opens(st, m, fresh)
  PROVE  Decrypt(st, m, fresh).state.LocalRatchetKey \in {st.LocalRatchetKey, fresh}
<1>1. WellFormed(st)
  BY DEF Sound
<1>2. QED
  BY <1>1, DecryptSending DEF KeepsSending, StartsSending

\* A message is sealed with the stored session.
LEMMA SealsAlone ==
  ASSUME Typed, NEW p \in Party, NEW o \in Op, InTab(p, o), ops[p][o].step = "idle",
         NEW call \in SoundCalls, call.job = Sending, Len(sent[p]) < MaxSends,
         NEW st \in disk[p].state, call.before = disk[p].state,
         Seals(p, o, call, disk[p], st), sent' = sent, otpk' = otpk
  PROVE  /\ Apart(p, o) /\ InTab(p, o)' /\ Progress(p, o)'
         /\ StoredIn(p, o)' = disk[p].state
<1> DEFINE message == [ratchet |-> SealedMessage(st), prekey |-> TabOf[o] \in initiation[p]]
           sealing == [call EXCEPT !.message = {message}]
           new     == AfterEncrypt(st)
<1>1. st \in Sound /\ message \in Channel!WireMessages
  <2>1. st \in Sound
    BY DEF Typed, PlacesTyped, SoundCells
  <2>2. QED
    BY <2>1, SoundStates, SameTypes
<1>2. message = [ratchet |-> SealedMessage(st), prekey |-> p = Initiator /\ sent[p] = << >>]
  BY DEF InTab, Sealing
<1> HIDE DEF message
<1>3. /\ sealing \in SoundCalls /\ sealing.message = {message} /\ sealing.job = Sending
      /\ sealing.before = {st}
  <2>1. disk[p].state = {st}
    BY DEF InTab
  <2>2. QED
    BY <1>1, <2>1 DEF SoundCalls
<1> HIDE DEF sealing
<1>4. /\ initiation' = [initiation EXCEPT ![p] = @ \ {TabOf[o]}]
      /\ Saves(p, o, sealing, disk[p], new)
      /\ generated' = generated
  BY DEF Seals, sealing, message
<1>5. new \in Sound /\ new.LocalRatchetKey = st.LocalRatchetKey
  <2>1. new.LocalRatchetKey = st.LocalRatchetKey
    BY <1>1 DEF AfterEncrypt, Sound, RatchetStates
  <2>2. QED
    BY <1>1, <2>1, SoundStates
<1> HIDE DEF new
<1>6. /\ ops'[p][o].step = "save" /\ ops'[p][o].job = Sending
      /\ ops'[p][o].session = {new} /\ ops'[p][o].message = {message}
      /\ ops'[p][o].before = {st}
      /\ disk'[p].state = {new} /\ cache'[p][TabOf[o]] = disk'[p]
      /\ \A q \in Party \ {p} : disk'[q] = disk[q] /\ cache'[q] = cache[q] /\ ops'[q] = ops[q]
  BY <1>3, <1>4, <1>5, SavesAlone
<1>7. /\ TabOf[o] \notin initiation'[p]
      /\ \A q \in Party \ {p} : initiation'[q] = initiation[q]
  BY <1>4 DEF Typed, RestTyped
<1>8. Apart(p, o)
  BY <1>4, <1>6, <1>7 DEF Apart
<1>9. InTab(p, o)'
  <2>1. st.LocalRatchetKey = KeyPair(p, generated[p])
    BY DEF InTab
  <2>2. QED
    BY <1>4, <1>5, <1>6, <1>7, <2>1 DEF InTab, Sealing
<1>10. Progress(p, o)'
  <2>1. Sends(p, o)'
    BY <1>2, <1>6 DEF Sends, new
  <2>2. QED
    BY <1>6, <2>1 DEF Progress, Sending
<1>11. StoredIn(p, o)' = disk[p].state
  BY <1>3, <1>6 DEF StoredIn, InTab
<1>12. QED
  BY <1>8, <1>9, <1>10, <1>11

\* A message is opened with the stored session, or with the one just made; if
\* it does not open, nothing changes.
LEMMA UnsealsAlone ==
  ASSUME Typed, NEW p \in Party, NEW o \in Op, InTab(p, o), ops[p][o].step \in {"idle", "opening"},
         NEW call \in SoundCalls, call.job \in Jobs(p), call.job # Sending,
         NEW st \in disk[p].state,
         st \in IF call.before = {} /\ Wire(p, call.job).prekey THEN {Made} ELSE call.before,
         Unseals(p, o, call, disk[p], st), sent' = sent, otpk' = otpk
  PROVE  /\ Apart(p, o) /\ InTab(p, o)' /\ Progress(p, o)'
         /\ \/ StoredIn(p, o)' = call.before
            \/ /\ StoredIn(p, o)' = disk[p].state
               /\ ~Opens(st, Wire(p, call.job).ratchet, Channel!FreshFor(st))
<1> DEFINE w     == Wire(p, call.job)
           fresh == KeyPair(p, generated[p] + 1)
           new   == Decrypt(st, w.ratchet, fresh).state
<1>1. w.ratchet \in Messages /\ fresh \in Key
  BY WireTyped, FreshTyped DEF Typed
<1>2. st \in Sound
  BY DEF Typed, PlacesTyped, SoundCells
<1>3. fresh = Channel!FreshFor(st)
  <2>1. st.LocalRatchetKey = KeyPair(p, generated[p])
    BY DEF InTab
  <2>2. Channel!FreshFor(st) = KeyPair(st.LocalRatchetKey[1], st.LocalRatchetKey[2] + 1)
    BY SameSealing
  <2>3. QED
    BY <2>1, <2>2 DEF KeyPair
<1>4. new \in Sound
  BY <1>1, <1>2, SoundStates
<1>5. w = sent[Channel!Peer(p)][call.job]
  BY DEF Wire
<1>6. \/ /\ Saves(p, o, call, disk[p], new)
         /\ generated' = [generated EXCEPT
               ![p] = IF new.LocalRatchetKey = fresh THEN @ + 1 ELSE @]
         /\ Opens(st, w.ratchet, fresh)
      \/ /\ Returns(p, o) /\ Caches(p, o, disk[p])
         /\ UNCHANGED <<disk, generated>> /\ ~Opens(st, w.ratchet, fresh)
  BY DEF Unseals, Succeeds
<1>7. initiation' = initiation
  BY DEF Unseals
<1>8. st.LocalRatchetKey = KeyPair(p, generated[p]) /\ disk[p].mac = disk[p].state
  BY DEF InTab
<1>9. TabOf[o] \in initiation[p] <=> p = Initiator /\ sent[p] = << >>
  BY DEF InTab, Sealing
<1> HIDE DEF w, fresh
<1>10. CASE /\ Saves(p, o, call, disk[p], new)
            /\ generated' = [generated EXCEPT
                  ![p] = IF new.LocalRatchetKey = fresh THEN @ + 1 ELSE @]
            /\ Opens(st, w.ratchet, fresh)
  <2>1. new.LocalRatchetKey \in {st.LocalRatchetKey, fresh}
    BY <1>1, <1>2, <1>10, LocalAfter
  <2> HIDE DEF new
  <2>2. /\ ops'[p][o].step = "save" /\ ops'[p][o].job = call.job
        /\ ops'[p][o].session = {new} /\ ops'[p][o].before = call.before
        /\ disk'[p].state = {new} /\ cache'[p][TabOf[o]] = disk'[p]
        /\ \A q \in Party \ {p} : disk'[q] = disk[q] /\ cache'[q] = cache[q] /\ ops'[q] = ops[q]
    BY <1>4, <1>10, SavesAlone
  <2>3. new.LocalRatchetKey = KeyPair(p, generated'[p])
    BY <1>8, <1>10, <2>1 DEF Typed, RestTyped, fresh
  <2>4. \A q \in Party \ {p} : generated'[q] = generated[q]
    BY <1>10 DEF Typed, RestTyped
  <2>5. Apart(p, o)
    BY <1>7, <2>2, <2>4 DEF Apart
  <2>6. InTab(p, o)'
    BY <1>7, <1>9, <2>2, <2>3 DEF InTab, Sealing
  <2>7. Opened(p, o)'
    BY <1>3, <1>5, <1>10, <2>2 DEF Opened, Wire, new
  <2>8. Progress(p, o)'
    BY <2>2, <2>7 DEF Progress
  <2>9. StoredIn(p, o)' = call.before
    BY <2>2 DEF StoredIn
  <2>10. QED
    BY <2>5, <2>6, <2>8, <2>9
<1>11. CASE /\ Returns(p, o) /\ Caches(p, o, disk[p])
            /\ UNCHANGED <<disk, generated>> /\ ~Opens(st, w.ratchet, fresh)
  <2>1. /\ ops'[p][o].step = "idle"
        /\ disk'[p] = disk[p] /\ cache'[p][TabOf[o]] = disk[p]
        /\ \A q \in Party \ {p} : disk'[q] = disk[q] /\ cache'[q] = cache[q] /\ ops'[q] = ops[q]
    BY <1>11, ReturnsAlone
  <2>2. Apart(p, o)
    BY <1>7, <1>11, <2>1 DEF Apart
  <2>3. InTab(p, o)'
    <3>1. \A s \in disk[p].state : disk[p].state = {s} /\ s.LocalRatchetKey = KeyPair(p, generated[p])
      BY DEF InTab
    <3>2. QED
      BY <1>7, <1>8, <1>9, <1>11, <2>1, <3>1 DEF InTab, Sealing
  <2>4. Progress(p, o)'
    BY <2>1 DEF Progress
  <2>5. StoredIn(p, o)' = disk[p].state
    BY <2>1 DEF StoredIn
  <2>6. QED
    BY <1>3, <1>11, <2>2, <2>3, <2>4, <2>5 DEF w
<1>12. QED
  BY <1>6, <1>10, <1>11

\* A step that writes nothing and only moves the call on.
LEMMA QuietAlone ==
  ASSUME Typed, NEW p \in Party, NEW o \in Op, InTab(p, o), ~Sealing(p, o),
         ops[p][o].step \notin {"established", "save"},
         NEW new \in SoundCalls, Becomes(p, o, new), new.step \notin {"save", "saved"},
         UNCHANGED <<disk, cache, generated, initiation, sent>>,
         otpk' = otpk \/ disk[p].state # {}
  PROVE  Apart(p, o) /\ InTab(p, o)' /\ ops'[p][o] = new
<1>1. ops'[p][o] = new /\ \A q \in Party \ {p} : ops'[q] = ops[q]
  BY DEF Becomes, Typed, CallsTyped
<1>2. Apart(p, o)
  BY <1>1 DEF Apart
<1>3. InTab(p, o)'
  BY <1>1 DEF InTab, Sealing
<1>4. QED
  BY <1>1, <1>2, <1>3

-----------------------------------------------------------------------------
\* What a step of the call leaves, and what RatchetChannel sees of it: nothing,
\* the first message not opening with the session made for it, or the result.
Unseen(p, o) == StoredIn(p, o)' = StoredIn(p, o) /\ UNCHANGED <<sent, accepted>>

\* The first message does not open with the session made for it, which stays.
FailsFirst(p, o) ==
  LET w == Wire(p, ops[p][o].job)
  IN /\ StoredIn(p, o) = {} /\ StoredIn(p, o)' = {Made} /\ w.prekey
     /\ ~Opens(Made, w.ratchet, Channel!FreshFor(Made))
     /\ ops[p][o].job \in Jobs(p) \ {Sending}
     /\ UNCHANGED <<sent, accepted>>

\* A step of p keeps its part of the invariant and leaves the peer alone.
Moves(p, o) == Apart(p, o) /\ InTab(p, o)' /\ Progress(p, o)'

\* The first stretch of either call: with a session in the cache it goes through to
\* the save; without one there is none in localStorage either.
LEMMA StartAlone ==
  ASSUME Typed, NEW p \in Party, NEW o \in Op, InTab(p, o), Progress(p, o),
         NEW job \in Jobs(p), Start(p, o, job)
  PROVE  Moves(p, o) /\ (Unseen(p, o) \/ FailsFirst(p, o))
<1> DEFINE call    == [Idle EXCEPT !.job = job, !.first = TRUE]
           found   == [call EXCEPT !.before = disk[p].state]
           waiting == [call EXCEPT !.step = "state", !.got = disk[p].state]
<1>1. disk[p] \in SoundCells /\ cache[p][TabOf[o]] = disk[p]
  BY ResumedTyped DEF InTab
<1>2. ops[p][o].step = "idle" /\ StoredIn(p, o) = disk[p].state
  <2>1. ops[p][o] = Idle
    BY DEF Start
  <2>2. QED
    BY <2>1 DEF StoredIn, Idle
<1>3. job \in Nat
  <2>1. sent[Channel!Peer(p)] \in Seq(Channel!WireMessages)
    BY Peers DEF Typed, RestTyped
  <2>2. QED
    BY <2>1 DEF Jobs, Sending
<1>4. call \in SoundCalls /\ call.job = job /\ call.step = "idle"
  BY <1>3, IdleTyped DEF SoundCalls, Idle
<1>5. disk[p].state \subseteq Sound
  BY <1>1 DEF SoundCells
<1>6. /\ UNCHANGED <<otpk, reloads, sent, accepted>>
      /\ job = Sending => Len(sent[p]) < MaxSends
      /\ job = Sending => disk[p].state # {}
      /\ \/ disk[p].state # {} /\ \E st \in disk[p].state : Loaded(p, o, call, disk[p], st)
         \/ /\ disk[p].state = {} /\ Becomes(p, o, waiting)
            /\ UNCHANGED <<disk, cache, generated, initiation>>
  BY <1>1 DEF Start
<1> HIDE DEF call
<1>7. /\ found \in SoundCalls /\ found.job = job /\ found.before = disk[p].state
      /\ waiting \in SoundCalls /\ waiting.step = "state" /\ waiting.got = disk[p].state
      /\ waiting.job = job
  BY <1>4, <1>5 DEF SoundCalls, Steps
<1>8. CASE disk[p].state = {} /\ Becomes(p, o, waiting)
           /\ UNCHANGED <<disk, cache, generated, initiation>>
  <2> HIDE DEF waiting
  <2>1. Apart(p, o) /\ InTab(p, o)' /\ ops'[p][o] = waiting
    BY <1>2, <1>6, <1>7, <1>8, QuietAlone DEF Sealing
  <2>2. Progress(p, o)'
    BY <1>6, <1>7, <1>8, <2>1 DEF Progress
  <2>3. StoredIn(p, o)' = disk[p].state
    BY <1>7, <1>8, <2>1 DEF StoredIn
  <2>4. QED
    BY <1>2, <1>6, <2>1, <2>2, <2>3 DEF Moves, Unseen
<1>9. CASE disk[p].state # {} /\ \E st \in disk[p].state : Loaded(p, o, call, disk[p], st)
  <2>1. PICK st \in disk[p].state : Loaded(p, o, call, disk[p], st)
    BY <1>9
  <2>2. disk[p].state = {st} /\ disk[p].mac = {st}
    BY <1>2 DEF InTab
  <2>3. \/ job = Sending /\ Seals(p, o, found, disk[p], st)
        \/ job # Sending /\ Unseals(p, o, found, disk[p], st)
    BY <1>4, <2>1, <2>2 DEF Loaded, Verified
  <2> HIDE DEF found
  <2>4. Moves(p, o) /\ StoredIn(p, o)' = disk[p].state
    <3>1. CASE job = Sending /\ Seals(p, o, found, disk[p], st)
      BY <1>2, <1>6, <1>7, <3>1, SealsAlone DEF Moves
    <3>2. CASE job # Sending /\ Unseals(p, o, found, disk[p], st)
      <4>1. st \in IF found.before = {} /\ Wire(p, found.job).prekey THEN {Made} ELSE found.before
        BY <1>7, <2>2
      <4>2. QED
        BY <1>2, <1>6, <1>7, <3>2, <4>1, UnsealsAlone DEF Moves
    <3>3. QED
      BY <2>3, <3>1, <3>2
  <2>5. QED
    BY <1>2, <1>6, <2>4 DEF Unseen
<1>10. QED
  BY <1>6, <1>8, <1>9

\* The reads find no session; the HMAC is never missing or wrong.
LEMMA ReadAlone ==
  ASSUME Typed, NEW p \in Party, NEW o \in Op, InTab(p, o), Progress(p, o),
         \/ ReadState(p, o) \/ ReadMac(p, o) \/ DeleteMac(p, o) \/ ReadPreKeys(p, o)
  PROVE  Moves(p, o) /\ Unseen(p, o)
<1> DEFINE call == Resumed(p, o)
<1>1. /\ call \in SoundCalls /\ call.job = ops[p][o].job
      /\ cache[p][TabOf[o]] = disk[p] /\ disk[p] \in SoundCells
  BY ResumedTyped DEF InTab
<1>2. /\ call.step = ops[p][o].step /\ call.got = ops[p][o].got
      /\ call.before = ops[p][o].before
  BY ResumedFields
<1>3. ops[p][o].step \notin {"mac", "delete"}
  BY DEF Progress
<1>4. CASE ReadState(p, o)
  <2> DEFINE wait == [call EXCEPT !.step = "prekeys", !.session = {}, !.got = {}]
  <2>1. /\ ops[p][o].step = "state" /\ call.got = {} /\ disk[p].state = {}
        /\ UNCHANGED <<otpk, reloads, sent, accepted>>
    BY <1>2, <1>4 DEF ReadState, Progress
  <2>2. /\ NoSession(p, o, call) /\ UNCHANGED <<disk, cache, generated, initiation>>
    BY <1>4, <2>1 DEF ReadState
  <2>3. /\ wait \in SoundCalls /\ wait.step = "prekeys" /\ wait.job = call.job
    <3> HIDE DEF call
    <3>1. QED
      BY <1>1 DEF SoundCalls, Steps
  <2>4. \/ Becomes(p, o, wait) /\ call.job # Sending /\ Wire(p, call.job).prekey
        \/ Becomes(p, o, Idle)
    BY <2>2 DEF NoSession, Returns
  <2> HIDE DEF wait, call
  <2>5. PICK new \in SoundCalls :
          /\ Becomes(p, o, new) /\ new.step \in {"idle", "prekeys"}
          /\ new.step = "prekeys" => new.job # Sending /\ Wire(p, new.job).prekey
    BY <2>3, <2>4, IdleTyped DEF Idle
  <2>6. Apart(p, o) /\ InTab(p, o)' /\ ops'[p][o] = new
    BY <2>1, <2>2, <2>5, QuietAlone DEF Sealing
  <2>7. Progress(p, o)'
    BY <2>1, <2>2, <2>5, <2>6 DEF Progress, Wire
  <2>8. StoredIn(p, o)' = disk[p].state /\ StoredIn(p, o) = disk[p].state
    BY <2>1, <2>2, <2>5, <2>6 DEF StoredIn
  <2>9. QED
    BY <2>1, <2>6, <2>7, <2>8 DEF Moves, Unseen
<1>5. CASE ReadPreKeys(p, o)
  <2> DEFINE new == [call EXCEPT !.step = "otpk", !.session = {Made}]
  <2>1. /\ ops[p][o].step = "prekeys" /\ disk[p].state = {} /\ Wire(p, call.job).prekey
        /\ UNCHANGED <<disk, cache, initiation, otpk, generated, reloads, sent, accepted>>
    BY <1>1, <1>2, <1>5 DEF ReadPreKeys, Progress
  <2>2. otpk
    BY <2>1 DEF InTab
  <2>3. Becomes(p, o, new)
    BY <1>5, <2>2 DEF ReadPreKeys, Made
  <2>4. /\ new \in SoundCalls /\ new.step = "otpk" /\ new.session = {Made}
        /\ new.job = call.job
    <3>1. Made \in Sound
      BY StartStates DEF Made
    <3> HIDE DEF call
    <3>2. QED
      BY <1>1, <3>1 DEF SoundCalls, Steps
  <2>5. call.job # Sending
    BY <1>1, <2>1, ResumedTyped DEF Fits
  <2> HIDE DEF new, call
  <2>6. Apart(p, o) /\ InTab(p, o)' /\ ops'[p][o] = new
    BY <2>1, <2>3, <2>4, QuietAlone DEF Sealing
  <2>7. Progress(p, o)'
    BY <2>1, <2>4, <2>5, <2>6 DEF Progress, Wire
  <2>8. StoredIn(p, o)' = disk[p].state /\ StoredIn(p, o) = disk[p].state
    BY <2>1, <2>4, <2>6 DEF StoredIn
  <2>9. QED
    BY <2>1, <2>6, <2>7, <2>8 DEF Moves, Unseen
<1>6. QED
  BY <1>2, <1>3, <1>4, <1>5 DEF ReadMac, DeleteMac

\* A cell is written in both places.
LEMMA StoreAlone ==
  ASSUME Typed, NEW p \in Party, NEW o \in Op, InTab(p, o),
         NEW field \in {"state", "mac"}, NEW value \in SUBSET Sound,
         StoreAsync(p, o, cache[p][TabOf[o]], field, value),
         NEW new \in SoundCalls, Becomes(p, o, new), UNCHANGED <<initiation, generated>>
  PROVE  /\ Apart(p, o) /\ ops'[p][o] = new /\ cache'[p][TabOf[o]] = disk'[p]
         /\ field = "state" => disk'[p].state = value /\ disk'[p].mac = disk[p].mac
         /\ field = "mac" => disk'[p].state = disk[p].state /\ disk'[p].mac = value
<1> DEFINE d == [disk[p] EXCEPT ![field] = value]
<1>1. disk[p] \in SoundCells /\ TabOf[o] \in Tab /\ cache[p][TabOf[o]] = disk[p]
  BY SessionAssumption DEF Typed, PlacesTyped, InTab
<1>2. /\ disk' = [disk EXCEPT ![p][field] = value]
      /\ cache' = [cache EXCEPT ![p][TabOf[o]] = d]
  BY <1>1 DEF StoreAsync, Caches
<1>3. disk'[p] = d /\ \A q \in Party \ {p} : disk'[q] = disk[q]
  BY <1>2 DEF Typed, PlacesTyped
<1>4. /\ field = "state" => d.state = value /\ d.mac = disk[p].mac
      /\ field = "mac" => d.state = disk[p].state /\ d.mac = value
  BY <1>1 DEF SoundCells
<1> HIDE DEF d
<1>5. cache'[p][TabOf[o]] = d /\ \A q \in Party \ {p} : cache'[q] = cache[q]
  BY <1>1, <1>2 DEF Typed, PlacesTyped
<1>6. ops'[p][o] = new /\ \A q \in Party \ {p} : ops'[q] = ops[q]
  BY DEF Typed, CallsTyped, Becomes
<1>7. Apart(p, o)
  BY <1>3, <1>5, <1>6 DEF Apart
<1>8. QED
  BY <1>3, <1>4, <1>5, <1>6, <1>7

\* The writes of SaveSessionAsync change nothing a caller can see.
LEMMA SaveAlone ==
  ASSUME Typed, NEW p \in Party, NEW o \in Op, InTab(p, o), Progress(p, o),
         SaveNewSession(p, o) \/ SaveNewMac(p, o) \/ SaveMac(p, o)
  PROVE  Moves(p, o) /\ Unseen(p, o)
<1> DEFINE call == Resumed(p, o)
           old  == cache[p][TabOf[o]]
<1>1. /\ call \in SoundCalls /\ call.job = ops[p][o].job /\ call.session \subseteq Sound
      /\ disk[p].state \subseteq Sound
  BY ResumedTyped, CallFields DEF SoundCells
<1>2. /\ call.step = ops[p][o].step /\ call.session = ops[p][o].session
      /\ call.before = ops[p][o].before /\ call.message = ops[p][o].message
  BY ResumedFields
<1>3. UNCHANGED <<initiation, otpk, generated, reloads, sent, accepted>>
  BY DEF SaveNewSession, SaveNewMac, SaveMac
<1>4. CASE SaveNewSession(p, o)
  <2> DEFINE new == [call EXCEPT !.step = "established", !.before = disk[p].state]
  <2>1. /\ ops[p][o].step = "otpk" /\ StoreAsync(p, o, old, "state", call.session)
        /\ Becomes(p, o, new)
    BY <1>2, <1>4 DEF SaveNewSession
  <2>2. /\ call.session = {Made} /\ disk[p].state = {} /\ p = Responder /\ generated[p] = 0
        /\ Wire(p, call.job).prekey
    BY <1>1, <1>2, <2>1 DEF Progress, InTab
  <2>3. call.job # Sending
    BY <1>1, <2>1, ResumedTyped DEF Fits
  <2>4. /\ new \in SoundCalls /\ new.step = "established" /\ new.session = {Made}
        /\ new.job = call.job /\ new.before = {}
    <3> HIDE DEF call
    <3>1. QED
      BY <1>1, <2>2 DEF SoundCalls, Steps
  <2> HIDE DEF new, call
  <2>5. /\ Apart(p, o) /\ ops'[p][o] = new /\ cache'[p][TabOf[o]] = disk'[p]
        /\ disk'[p].state = {Made}
    <3>1. /\ disk'[p].state = call.session
          /\ Apart(p, o) /\ ops'[p][o] = new /\ cache'[p][TabOf[o]] = disk'[p]
      BY <1>1, <1>3, <2>1, <2>4, StoreAlone
    <3>2. QED
      BY <2>2, <3>1
  <2>6. Made.LocalRatchetKey = KeyPair(p, 0)
    BY <2>2, SameTypes DEF Made, InitializeAsResponder
  <2>7. InTab(p, o)'
    <3>1. TabOf[o] \in initiation[p] <=> p = Initiator /\ sent[p] = << >>
      BY <2>1 DEF InTab, Sealing
    <3>2. QED
      BY <1>3, <2>2, <2>4, <2>5, <2>6, <3>1 DEF InTab, Sealing
  <2>8. Progress(p, o)'
    BY <1>3, <2>2, <2>3, <2>4, <2>5 DEF Progress, Wire
  <2>9. StoredIn(p, o) = {} /\ StoredIn(p, o)' = {}
    BY <2>1, <2>2, <2>4, <2>5 DEF StoredIn
  <2>10. QED
    BY <1>3, <2>5, <2>7, <2>8, <2>9 DEF Moves, Unseen
<1>5. CASE SaveNewMac(p, o) \/ SaveMac(p, o)
  <2>1. PICK s \in {"ready", "saved"} :
          /\ ops[p][o].step = (IF s = "ready" THEN "established" ELSE "save")
          /\ StoreAsync(p, o, old, "mac", call.session)
          /\ Becomes(p, o, [call EXCEPT !.step = s])
    BY <1>2, <1>5 DEF SaveNewMac, SaveMac
  <2> DEFINE new == [call EXCEPT !.step = s]
  <2>2. /\ new \in SoundCalls /\ new.step = s /\ new.session = call.session
        /\ new.job = call.job /\ new.before = call.before /\ new.message = call.message
    <3> HIDE DEF call
    <3>1. QED
      BY <1>1 DEF SoundCalls, Steps
  <2>3. call.session = disk[p].state
    BY <1>2, <2>1 DEF Progress
  <2> HIDE DEF new
  <2>4. Becomes(p, o, new)
    BY <2>1 DEF new
  <2> HIDE DEF call
  <2>5. /\ Apart(p, o) /\ ops'[p][o] = new /\ cache'[p][TabOf[o]] = disk'[p]
        /\ disk'[p].state = disk[p].state /\ disk'[p].mac = disk[p].state
    BY <1>1, <1>3, <2>1, <2>2, <2>3, <2>4, StoreAlone
  <2>6. InTab(p, o)'
    <3>1. Sealing(p, o)' <=> Sealing(p, o)
      BY <1>1, <2>1, <2>2, <2>5 DEF Sealing
    <3>2. QED
      BY <1>3, <2>5, <3>1 DEF InTab
  <2>7. /\ Wire(p, ops[p][o].job)' = Wire(p, ops[p][o].job)
        /\ Sends(p, o)' <=> Sends(p, o)
        /\ Opened(p, o)' <=> Opened(p, o)
    <3>1. ops'[p][o].job = ops[p][o].job
      BY <1>1, <2>2, <2>5
    <3>2. Wire(p, ops[p][o].job)' = Wire(p, ops[p][o].job)
      BY <1>3, <3>1 DEF Wire
    <3>3. Sends(p, o)' <=> Sends(p, o)
      BY <1>1, <1>2, <1>3, <2>2, <2>5 DEF Sends
    <3>4. Opened(p, o)' <=> Opened(p, o)
      BY <1>1, <1>2, <2>2, <2>5, <3>2 DEF Opened
    <3>5. QED
      BY <3>2, <3>3, <3>4
  <2>8. Progress(p, o)'
    BY <1>1, <1>2, <1>3, <2>1, <2>2, <2>3, <2>5, <2>7 DEF Progress
  <2>9. StoredIn(p, o)' = StoredIn(p, o)
    BY <1>2, <2>1, <2>2, <2>5 DEF StoredIn
  <2>10. QED
    BY <1>3, <2>5, <2>6, <2>8, <2>9 DEF Moves, Unseen
<1>6. QED
  BY <1>4, <1>5

\* The one-time pre-key goes once the new session is saved, and is not needed
\* again (EstablishSessionAsResponderAsync).
LEMMA DeletePreKeyAlone ==
  ASSUME Typed, NEW p \in Party, NEW o \in Op, InTab(p, o), Progress(p, o), DeletePreKey(p, o)
  PROVE  Moves(p, o) /\ Unseen(p, o)
<1> DEFINE call == Resumed(p, o)
           new  == [call EXCEPT !.step = "opening"]
<1>1. /\ call \in SoundCalls /\ call.job = ops[p][o].job
      /\ call.session = ops[p][o].session /\ call.before = ops[p][o].before
  BY ResumedTyped, ResumedFields
<1>2. /\ new \in SoundCalls /\ new.step = "opening" /\ new.session = call.session
      /\ new.job = call.job /\ new.before = call.before
  <2> HIDE DEF call
  <2>1. QED
    BY <1>1 DEF SoundCalls, Steps
<1>3. /\ ops[p][o].step = "ready" /\ Becomes(p, o, new)
      /\ UNCHANGED <<disk, cache, initiation, generated, reloads, sent, accepted>>
  BY DEF DeletePreKey
<1>4. /\ call.session = {Made} /\ disk[p].state = {Made} /\ call.before = {}
      /\ p = Responder /\ generated[p] = 0 /\ Wire(p, call.job).prekey
  BY <1>1, <1>3 DEF Progress
<1>5. call.job # Sending
  BY <1>1, <1>3, ResumedTyped DEF Fits
<1> HIDE DEF new, call
<1>6. Apart(p, o) /\ InTab(p, o)' /\ ops'[p][o] = new
  BY <1>2, <1>3, <1>4, QuietAlone DEF Sealing
<1>7. Progress(p, o)'
  BY <1>2, <1>3, <1>4, <1>5, <1>6 DEF Progress, Wire
<1>8. StoredIn(p, o)' = StoredIn(p, o)
  BY <1>1, <1>2, <1>3, <1>4, <1>6 DEF StoredIn
<1>9. QED
  BY <1>3, <1>6, <1>7, <1>8 DEF Moves, Unseen

\* The first message is opened with the session made for it, or not at all.
LEMMA OpenFirstAlone ==
  ASSUME Typed, NEW p \in Party, NEW o \in Op, InTab(p, o), Progress(p, o), OpenFirst(p, o)
  PROVE  Moves(p, o) /\ (Unseen(p, o) \/ FailsFirst(p, o))
<1> DEFINE call == Resumed(p, o)
<1>1. /\ call \in SoundCalls /\ call.job \in Jobs(p) /\ call.job = ops[p][o].job
      /\ call.before = ops[p][o].before /\ cache[p][TabOf[o]] = disk[p]
  BY ResumedTyped, ResumedFields DEF InTab
<1>2. /\ ops[p][o].step = "opening" /\ UNCHANGED <<otpk, reloads, sent, accepted>>
      /\ \E st \in ops[p][o].session : Unseals(p, o, call, cache[p][TabOf[o]], st)
  BY DEF OpenFirst
<1>3. /\ ops[p][o].session = {Made} /\ disk[p].state = {Made} /\ call.before = {}
      /\ Wire(p, call.job).prekey
  BY <1>1, <1>2 DEF Progress
<1>4. call.job # Sending
  BY <1>1, <1>2, ResumedTyped DEF Fits
<1>5. Unseals(p, o, call, disk[p], Made)
  BY <1>1, <1>2, <1>3
<1>6. StoredIn(p, o) = {}
  BY <1>1, <1>2, <1>3 DEF StoredIn
<1> HIDE DEF call
<1>7. /\ Apart(p, o) /\ InTab(p, o)' /\ Progress(p, o)'
      /\ \/ StoredIn(p, o)' = {}
         \/ /\ StoredIn(p, o)' = {Made}
            /\ ~Opens(Made, Wire(p, call.job).ratchet, Channel!FreshFor(Made))
  <2>1. Made \in IF call.before = {} /\ Wire(p, call.job).prekey THEN {Made} ELSE call.before
    BY <1>3
  <2>2. Made \in disk[p].state
    BY <1>3
  <2>3. QED
    BY <1>1, <1>2, <1>3, <1>4, <1>5, <2>1, <2>2, UnsealsAlone
<1>8. QED
  BY <1>1, <1>2, <1>3, <1>4, <1>6, <1>7 DEF Moves, Unseen, FailsFirst

-----------------------------------------------------------------------------
\* With one call per device, StoredSessions is what StoredIn says of each.
LEMMA Mapped ==
  ASSUME NEW o, Op = {o}
  PROVE  /\ StoredSessions = [p \in Party |-> StoredIn(p, o)]
         /\ StoredSessions' = [p \in Party |-> StoredIn(p, o)']
<1>1. ASSUME NEW p \in Party
      PROVE  StoredSessions[p] = StoredIn(p, o)
  <2>1. CASE ops[p][o].step \in {"established", "ready", "opening", "save", "saved"}
    <3>1. Changing(p) = {o}
      BY <2>1 DEF Changing
    <3>2. QED
      BY <2>1, <3>1 DEF StoredSessions, StoredIn
  <2>2. CASE ops[p][o].step \notin {"established", "ready", "opening", "save", "saved"}
    <3>1. Changing(p) = {}
      BY <2>2 DEF Changing
    <3>2. QED
      BY <2>2, <3>1 DEF StoredSessions, StoredIn
  <2>3. QED
    BY <2>1, <2>2
<1>2. ASSUME NEW p \in Party
      PROVE  StoredSessions'[p] = StoredIn(p, o)'
  <2>1. CASE ops'[p][o].step \in {"established", "ready", "opening", "save", "saved"}
    <3>1. Changing(p)' = {o}
      BY <2>1 DEF Changing
    <3>2. QED
      BY <2>1, <3>1 DEF StoredSessions, StoredIn
  <2>2. CASE ops'[p][o].step \notin {"established", "ready", "opening", "save", "saved"}
    <3>1. Changing(p)' = {}
      BY <2>2 DEF Changing
    <3>2. QED
      BY <2>2, <3>1 DEF StoredSessions, StoredIn
  <2>3. QED
    BY <2>1, <2>2
<1>3. QED
  BY <1>1, <1>2 DEF StoredSessions

\* The device that does not move keeps its part of the invariant.
LEMMA ApartKeeps ==
  ASSUME Typed, NEW p \in Party, NEW q \in Party \ {p}, NEW o \in Op,
         Apart(p, o), InTab(q, o), Progress(q, o),
         otpk' = otpk \/ p = Responder, sent'[q] = sent[q],
         \A i \in DOMAIN sent[p] : sent'[p][i] = sent[p][i]
  PROVE  InTab(q, o)' /\ Progress(q, o)' /\ StoredIn(q, o)' = StoredIn(q, o)
<1>1. /\ ops'[q][o] = ops[q][o] /\ disk'[q] = disk[q]
      /\ cache'[q][TabOf[o]] = cache[q][TabOf[o]]
      /\ generated'[q] = generated[q] /\ initiation'[q] = initiation[q]
  BY DEF Apart
<1>2. Channel!Peer(q) = p
  BY SessionAssumption DEF Channel!Peer
<1>3. ASSUME ops[q][o].job # Sending
      PROVE  Wire(q, ops[q][o].job)' = Wire(q, ops[q][o].job)
  <2>1. ops[q][o].job \in DOMAIN sent[p]
    BY <1>2, <1>3 DEF Typed, JobsTyped, Jobs
  <2>2. QED
    BY <1>1, <1>2, <2>1 DEF Wire
<1>4. Sends(q, o)' <=> Sends(q, o)
  BY <1>1 DEF Sends
<1>5. Opened(q, o)' <=> Opened(q, o)
  BY <1>1, <1>3 DEF Opened
<1>6. InTab(q, o)'
  BY <1>1, SessionAssumption DEF InTab, Sealing
<1>7. Progress(q, o)'
  <2>1. ops[q][o].step \in {"prekeys", "otpk", "established", "ready", "opening"} =>
          ops[q][o].job # Sending
    BY DEF Typed, JobsTyped, Fits
  <2>2. QED
    BY <1>1, <1>3, <1>4, <1>5, <2>1 DEF Progress
<1>8. QED
  BY <1>1, <1>6, <1>7 DEF StoredIn

\* Appending leaves what was there.
LEMMA AppendKeeps ==
  ASSUME NEW S, NEW s \in Seq(S), NEW m \in S
  PROVE  Append(s, m) # << >> /\ \A i \in DOMAIN s : Append(s, m)[i] = s[i]
OBVIOUS

\* The last step of a call is the step of RatchetChannel.
LEMMA ReturnAlone ==
  ASSUME Typed, NEW o, Op = {o}, NEW p \in Party, AloneInv(o), Return(p, o)
  PROVE  AloneInv(o)' /\ Channel!Next
<1> DEFINE call == ops[p][o]
           w    == Wire(p, call.job)
           q    == Channel!Peer(p)
<1>1. /\ call.step = "saved" /\ Returns(p, o)
      /\ UNCHANGED <<disk, cache, initiation, otpk, generated, reloads>>
      /\ \/ /\ call.job = Sending /\ accepted' = accepted
            /\ \E m \in call.message : sent' = [sent EXCEPT ![p] = Append(@, m)]
         \/ /\ call.job # Sending /\ sent' = sent
            /\ accepted' = [accepted EXCEPT ![p] = @ \cup {call.job}]
  <2>1. /\ Resumed(p, o).step = call.step /\ Resumed(p, o).job = call.job
        /\ Resumed(p, o).message = call.message
    BY ResumedTyped, ResumedFields
  <2>2. QED
    BY <2>1 DEF Return
<1>2. /\ InTab(p, o) /\ Progress(p, o) /\ InTab(q, o) /\ Progress(q, o)
      /\ q \in Party /\ q # p /\ Party = {p, q}
  BY Peers, SessionAssumption DEF AloneInv, Channel!Peer
<1>3. /\ ops'[p][o].step = "idle" /\ disk'[p] = disk[p] /\ cache'[p][TabOf[o]] = disk[p]
      /\ \A r \in Party \ {p} : ops'[r] = ops[r]
  BY <1>1, <1>2, ReturnsAlone
<1>4. Apart(p, o)
  BY <1>1, <1>3 DEF Apart
<1>5. sent[p] \in Seq(Channel!WireMessages) /\ sent \in [Party -> Seq(Channel!WireMessages)]
  BY DEF Typed, RestTyped
<1>6. /\ sent'[q] = sent[q]
      /\ \A i \in DOMAIN sent[p] : sent'[p][i] = sent[p][i]
      /\ call.job = Sending => sent'[p] # << >>
      /\ call.job # Sending => sent'[p] = sent[p]
  <2>1. CASE call.job = Sending
    <3>1. PICK m \in call.message : sent' = [sent EXCEPT ![p] = Append(@, m)]
      BY <1>1, <2>1
    <3>2. m \in Channel!WireMessages
      BY <3>1, CallFields, ResumedTyped
    <3>3. sent'[p] = Append(sent[p], m) /\ sent'[q] = sent[q]
      BY <1>2, <1>5, <3>1
    <3> HIDE DEF q, call
    <3>4. Append(sent[p], m) # << >> /\ \A i \in DOMAIN sent[p] : Append(sent[p], m)[i] = sent[p][i]
      BY <1>5, <3>2, AppendKeeps
    <3>5. QED
      BY <2>1, <3>3, <3>4
  <2>2. CASE call.job # Sending
    BY <1>1, <2>2
  <2>3. QED
    BY <2>1, <2>2
<1>7. InTab(q, o)' /\ Progress(q, o)' /\ StoredIn(q, o)' = StoredIn(q, o)
  BY <1>1, <1>2, <1>4, <1>6, ApartKeeps
<1>8. InTab(p, o)'
  BY <1>1, <1>2, <1>3, <1>6 DEF InTab, Sealing
<1>9. Progress(p, o)'
  BY <1>3 DEF Progress
<1>10. AloneInv(o)'
  BY <1>2, <1>7, <1>8, <1>9 DEF AloneInv
<1>11. /\ StoredSessions[p] = call.before
       /\ StoredSessions' = [StoredSessions EXCEPT ![p] = disk[p].state]
  <2>1. StoredIn(p, o) = call.before /\ StoredIn(p, o)' = disk[p].state
    BY <1>1, <1>3 DEF StoredIn
  <2>2. QED
    BY <1>2, <1>7, <2>1, Mapped
<1>12. CASE call.job = Sending
  <2>1. PICK st \in call.before :
          /\ call.before = {st} /\ disk[p].state = {AfterEncrypt(st)}
          /\ call.message = {[ratchet |-> SealedMessage(st),
                              prekey  |-> p = Initiator /\ sent[p] = << >>]}
    BY <1>1, <1>2, <1>12 DEF Progress, Sends, Opened
  <2>2. /\ Len(sent[p]) < MaxSends
        /\ sent' = [sent EXCEPT ![p] = Append(@, [ratchet |-> SealedMessage(st),
                                     prekey  |-> p = Initiator /\ sent[p] = << >>])]
    BY <1>1, <1>2, <1>12, <2>1 DEF Progress
  <2>3. Channel!Send(p)
    BY <1>1, <1>11, <1>12, <2>1, <2>2, SameSealing DEF Channel!Send
  <2>4. QED
    BY <1>10, <2>3 DEF Channel!Next
<1>13. CASE call.job # Sending
  <2>1. PICK st \in IF call.before = {} /\ w.prekey THEN {Made} ELSE call.before :
          /\ Opens(st, w.ratchet, Channel!FreshFor(st))
          /\ disk[p].state = {Decrypt(st, w.ratchet, Channel!FreshFor(st)).state}
    BY <1>1, <1>2, <1>13 DEF Progress, Sends, Opened
  <2>2. st \in Channel!SessionFor(p, w)
    BY <1>11, <2>1, SameSealing DEF Channel!SessionFor, Made
  <2>3. call.job \in DOMAIN sent[q]
    BY <1>13 DEF Typed, JobsTyped, Jobs
  <2>4. Channel!Receive(p, call.job)
    BY <1>1, <1>11, <1>13, <2>1, <2>2, SameOpening DEF Channel!Receive, Wire
  <2>5. QED
    BY <1>10, <2>3, <2>4 DEF Channel!Next
<1>14. QED
  BY <1>12, <1>13

\* Such a step is no step of RatchetChannel, or its Receive that fails.
LEMMA MovesAlone ==
  ASSUME Typed, NEW o, Op = {o}, NEW p \in Party, AloneInv(o), Moves(p, o),
         Unseen(p, o) \/ FailsFirst(p, o), otpk' = otpk \/ p = Responder
  PROVE  AloneInv(o)' /\ (Channel!Next \/ UNCHANGED Channel!vars)
<1> DEFINE q == Channel!Peer(p)
           w == Wire(p, ops[p][o].job)
<1>1. q \in Party /\ q # p /\ Party = {p, q}
  BY Peers, SessionAssumption DEF Channel!Peer
<1>2. InTab(q, o) /\ Progress(q, o)
  BY <1>1 DEF AloneInv
<1>3. UNCHANGED <<sent, accepted>>
  BY DEF Unseen, FailsFirst
<1>4. Apart(p, o) /\ InTab(p, o)' /\ Progress(p, o)'
  BY DEF Moves
<1>5. InTab(q, o)' /\ Progress(q, o)' /\ StoredIn(q, o)' = StoredIn(q, o)
  BY <1>1, <1>2, <1>3, <1>4, ApartKeeps
<1>6. AloneInv(o)'
  BY <1>1, <1>4, <1>5 DEF AloneInv
<1>7. CASE Unseen(p, o)
  <2>1. StoredSessions' = StoredSessions
    BY <1>1, <1>5, <1>7, Mapped DEF Unseen
  <2>2. QED
    BY <1>3, <1>6, <2>1 DEF Channel!vars
<1>8. CASE FailsFirst(p, o)
  <2>1. StoredSessions[p] = {} /\ StoredSessions' = [StoredSessions EXCEPT ![p] = {Made}]
    BY <1>1, <1>5, <1>8, Mapped DEF FailsFirst
  <2>2. /\ w.prekey /\ ~Opens(Made, w.ratchet, Channel!FreshFor(Made))
        /\ ops[p][o].job \in DOMAIN sent[q]
    BY <1>8 DEF FailsFirst, Jobs
  <2>3. Made \in Channel!SessionFor(p, w)
    BY <2>1, <2>2, SameSealing DEF Channel!SessionFor, Made
  <2>4. Channel!Receive(p, ops[p][o].job)
    BY <1>3, <2>1, <2>2, <2>3, SameOpening DEF Channel!Receive, Wire
  <2>5. QED
    BY <1>6, <2>2, <2>4 DEF Channel!Next
<1>9. QED
  BY <1>7, <1>8

\* Every step of a call keeps the invariant and is a step of RatchetChannel or none.
LEMMA StepAlone ==
  ASSUME Typed, NEW o, Op = {o}, NEW p \in Party, AloneInv(o),
         (\E job \in Jobs(p) : Start(p, o, job)) \/ Step(p, o)
  PROVE  AloneInv(o)' /\ (Channel!Next \/ UNCHANGED Channel!vars)
<1>1. InTab(p, o) /\ Progress(p, o)
  BY DEF AloneInv
<1>2. CASE \E job \in Jobs(p) : Start(p, o, job)
  <2>1. Moves(p, o) /\ (Unseen(p, o) \/ FailsFirst(p, o))
    BY <1>1, <1>2, StartAlone
  <2>2. otpk' = otpk
    BY <1>2 DEF Start
  <2>3. QED
    BY <2>1, <2>2, MovesAlone
<1>3. CASE ReadState(p, o) \/ ReadMac(p, o) \/ DeleteMac(p, o) \/ ReadPreKeys(p, o)
  <2>1. Moves(p, o) /\ Unseen(p, o)
    BY <1>1, <1>3, ReadAlone
  <2>2. otpk' = otpk
    BY <1>3 DEF ReadState, ReadMac, DeleteMac, ReadPreKeys
  <2>3. QED
    BY <2>1, <2>2, MovesAlone
<1>4. CASE SaveNewSession(p, o) \/ SaveNewMac(p, o) \/ SaveMac(p, o)
  <2>1. Moves(p, o) /\ Unseen(p, o)
    BY <1>1, <1>4, SaveAlone
  <2>2. otpk' = otpk
    BY <1>4 DEF SaveNewSession, SaveNewMac, SaveMac
  <2>3. QED
    BY <2>1, <2>2, MovesAlone
<1>5. CASE DeletePreKey(p, o)
  <2>1. Moves(p, o) /\ Unseen(p, o)
    BY <1>1, <1>5, DeletePreKeyAlone
  <2>2. p = Responder
    BY <1>1, <1>5 DEF DeletePreKey, Progress
  <2>3. QED
    BY <2>1, <2>2, MovesAlone
<1>6. CASE OpenFirst(p, o)
  <2>1. Moves(p, o) /\ (Unseen(p, o) \/ FailsFirst(p, o))
    BY <1>1, <1>6, OpenFirstAlone
  <2>2. otpk' = otpk
    BY <1>6 DEF OpenFirst
  <2>3. QED
    BY <2>1, <2>2, MovesAlone
<1>7. CASE Return(p, o)
  BY <1>7, ReturnAlone
<1>8. QED
  BY <1>2, <1>3, <1>4, <1>5, <1>6, <1>7 DEF Step

\* The session just established is the initial state of RatchetChannel.
LEMMA InitAlone ==
  ASSUME NEW o, Op = {o}, TabOf[o] = FirstTab, Init
  PROVE  AloneInv(o) /\ reloads = 0 /\ Channel!Init
<1> DEFINE first == InitializeAsInitiator(Secret, KeyPair(Initiator, 0), Channel!SignedPreKey)
           here  == Saved(first)
<1>1. /\ disk = [p \in Party |-> IF p = Initiator THEN here ELSE NoCells]
      /\ cache = [p \in Party |-> [t \in Tab |->
                    IF p = Initiator /\ t = FirstTab THEN here ELSE NoCells]]
      /\ ops = [p \in Party |-> [r \in Op |-> Idle]]
      /\ initiation = [p \in Party |-> IF p = Initiator THEN {FirstTab} ELSE {}]
      /\ generated = [p \in Party |-> 0] /\ otpk = TRUE /\ reloads = 0
      /\ sent = [p \in Party |-> << >>] /\ accepted = [p \in Party |-> {}]
  BY DEF Init
<1>2. /\ here.state = {first} /\ here.mac = {first}
      /\ NoCells.state = {} /\ NoCells.mac = {}
  BY DEF Saved, NoCells
<1>3. Idle.step = "idle"
  BY DEF Idle
<1>4. first.LocalRatchetKey = KeyPair(Initiator, 0)
  BY DEF InitializeAsInitiator
<1>5. TabOf[o] \in Tab
  BY SessionAssumption
<1>6. Channel!Init
  <2>1. StoredSessions = [p \in Party |-> IF p = Initiator THEN {first} ELSE {}]
    <3>1. \A p \in Party : StoredIn(p, o) = IF p = Initiator THEN {first} ELSE {}
      BY <1>1, <1>2, <1>3 DEF StoredIn
    <3>2. QED
      BY <3>1, Mapped
  <2>2. first = Channel!InitializeAsInitiator(Secret, Channel!KeyPair(Initiator, 0), Channel!SignedPreKey)
    BY SameSealing
  <2> HIDE DEF first
  <2>3. QED
    BY <1>1, <2>1, <2>2 DEF Channel!Init
<1> HIDE DEF first, here
<1>7. ASSUME NEW p \in Party
      PROVE  InTab(p, o) /\ Progress(p, o)
  <2>1. /\ disk[p] = (IF p = Initiator THEN here ELSE NoCells)
        /\ cache[p][TabOf[o]] = disk[p]
        /\ ops[p][o] = Idle /\ generated[p] = 0 /\ sent[p] = << >>
        /\ initiation[p] = (IF p = Initiator THEN {FirstTab} ELSE {})
    BY <1>1, <1>5
  <2>2. InTab(p, o)
    BY <1>1, <1>2, <1>3, <1>4, <2>1, SessionAssumption DEF InTab, Sealing
  <2>3. Progress(p, o)
    BY <1>3, <2>1 DEF Progress
  <2>4. QED
    BY <2>2, <2>3
<1>8. QED
  BY <1>1, <1>6, <1>7 DEF AloneInv

\* The invariant and the step mapping, until a page is reloaded.
LEMMA NextAlone ==
  ASSUME Typed, NEW o, Op = {o}, reloads = 0 => AloneInv(o), [Next]_vars
  PROVE  /\ reloads' = 0 => reloads = 0 /\ AloneInv(o)'
         /\ [reloads' = 0 => Channel!Next]_Channel!vars
<1>1. CASE reloads' # 0
  BY <1>1
<1>2. CASE reloads' = 0 /\ UNCHANGED vars
  <2>1. reloads = 0
    BY <1>2 DEF vars
  <2>2. AloneInv(o)'
    BY <1>2, <2>1 DEF vars, AloneInv, InTab, Progress, Sealing, Sends, Opened, Wire
  <2>3. UNCHANGED Channel!vars
    BY <1>2 DEF vars, Channel!vars, StoredSessions, Changing
  <2>4. QED
    BY <2>1, <2>2, <2>3
<1>3. CASE reloads' = 0 /\ Next
  <2>1. PICK p \in Party : \/ \E r \in Op : (\E job \in Jobs(p) : Start(p, r, job)) \/ Step(p, r)
                           \/ \E t \in Tab : Reload(p, t)
    BY <1>3 DEF Next, Jobs
  <2>2. reloads \in Nat
    BY DEF Typed, RestTyped
  <2>3. ~\E t \in Tab : Reload(p, t)
    BY <1>3, <2>2 DEF Reload
  <2>4. (\E job \in Jobs(p) : Start(p, o, job)) \/ Step(p, o)
    BY <2>1, <2>3
  <2>5. reloads' = reloads
    BY <2>4 DEF Step, Start, ReadState, ReadMac, DeleteMac, ReadPreKeys, SaveNewSession,
                SaveNewMac, DeletePreKey, OpenFirst, SaveMac, Return
  <2>6. AloneInv(o)
    BY <1>3, <2>5
  <2>7. AloneInv(o)' /\ (Channel!Next \/ UNCHANGED Channel!vars)
    BY <2>4, <2>6, StepAlone
  <2>8. QED
    BY <1>3, <2>5, <2>7
<1>4. QED
  BY <1>1, <1>2, <1>3

\* One call at a time, in the tab the session was established in: until a page is
\* reloaded, every step of CryptoService over SessionService over
\* LocalStorageService is an atomic Encrypt or Decrypt of RatchetChannel, or nothing
\* to its callers.
THEOREM Refinement ==
  ASSUME NEW o, Op = {o}, TabOf[o] = FirstTab
  PROVE  Spec => ImplementsChannel
<1> DEFINE Inv == Typed /\ (reloads = 0 => AloneInv(o))
           ChannelStep == [reloads' = 0 => Channel!Next]_Channel!vars
<1>1. Init => Inv /\ Channel!Init
  BY InitTyped, InitAlone
<1>2. Inv /\ [Next]_vars => Inv'
  BY NextTyped, NextAlone
<1>3. Inv /\ [Next]_vars => ChannelStep
  BY NextAlone
<1> HIDE DEF Inv
<1>4. QED
  BY <1>1, <1>2, <1>3, PTL DEF Spec, ImplementsChannel

-----------------------------------------------------------------------------
\* RatchetChannel with its proofs, on the sessions the devices have stored.
Proved == INSTANCE RatchetChannel_proofs WITH stored <- StoredSessions

\* Its operators, too, are those of Ratchet.
LEMMA ProvedOperators ==
  /\ Proved!Key = Key
  /\ \A p, n : Proved!KeyPair(p, n) = KeyPair(p, n)
  /\ \A st : Proved!SealedMessage(st) = SealedMessage(st)
  /\ \A st : Proved!AfterEncrypt(st) = AfterEncrypt(st)
  /\ \A s, l : Proved!InitializeAsResponder(s, l) = InitializeAsResponder(s, l)
  /\ \A s, l, r : Proved!InitializeAsInitiator(s, l, r) = InitializeAsInitiator(s, l, r)
  /\ \A st, m : Proved!HeldFor(st, m) = HeldFor(st, m)
  /\ \A st, m, f : Proved!Decrypt(st, m, f) = Decrypt(st, m, f)
  /\ \A st, m, f : Proved!Opens(st, m, f) <=> Opens(st, m, f)
<1>1. Proved!Key = Key
  BY DEF Proved!Key, Key
<1>2. /\ \A p, n : Proved!KeyPair(p, n) = KeyPair(p, n)
      /\ \A st : Proved!SealedMessage(st) = SealedMessage(st)
      /\ \A st : Proved!AfterEncrypt(st) = AfterEncrypt(st)
  BY DEF Proved!KeyPair, KeyPair, Proved!SealedMessage, SealedMessage,
         Proved!AfterEncrypt, AfterEncrypt, Proved!Advance, Advance
<1>3. /\ \A s, l : Proved!InitializeAsResponder(s, l) = InitializeAsResponder(s, l)
      /\ \A s, l, r : Proved!InitializeAsInitiator(s, l, r) = InitializeAsInitiator(s, l, r)
  BY DEF Proved!InitializeAsResponder, InitializeAsResponder, Proved!EmptyChain, EmptyChain,
         Proved!InitializeAsInitiator, InitializeAsInitiator, Proved!Seed, Seed, Proved!DH, DH
<1>4. \A S : Proved!Cardinality(S) = Cardinality(S)
  BY DEF Proved!Cardinality, Cardinality
<1>5. \A st, j : Proved!SkippedTo(st, j) = SkippedTo(st, j)
  BY DEF Proved!SkippedTo, SkippedTo, Proved!Advance, Advance
<1>6. \A st, u : Proved!SkipIterations(st, u) = SkipIterations(st, u)
  BY <1>4, <1>5 DEF Proved!SkipIterations, SkipIterations
<1>7. \A st, u : Proved!SkipMessages(st, u) = SkipMessages(st, u)
  BY <1>4, <1>5, <1>6 DEF Proved!SkipMessages, SkipMessages, Proved!EmptyChain, EmptyChain
<1>8. \A st, r, f : Proved!PerformDhRatchetStep(st, r, f) = PerformDhRatchetStep(st, r, f)
  BY DEF Proved!PerformDhRatchetStep, PerformDhRatchetStep, Proved!DH, DH, Proved!Seed, Seed
<1>9. \A st, m : Proved!HeldFor(st, m) = HeldFor(st, m)
  BY DEF Proved!HeldFor, HeldFor
<1>10. \A st, m : Proved!OpenWithSkipped(st, m) = OpenWithSkipped(st, m)
  BY DEF Proved!HeldFor, HeldFor, Proved!OpenWithSkipped, OpenWithSkipped
<1>11. \A st, m, f : Proved!ReadyFor(st, m, f) = ReadyFor(st, m, f)
  BY <1>7, <1>8 DEF Proved!ReadyFor, ReadyFor
<1>12. \A st, m, f : Proved!OpenWithChain(st, m, f) = OpenWithChain(st, m, f)
  BY <1>11 DEF Proved!OpenWithChain, OpenWithChain, Proved!Advance, Advance
<1>13. \A st, m, f : Proved!Decrypt(st, m, f) = Decrypt(st, m, f)
  BY <1>9, <1>10, <1>12 DEF Proved!Decrypt, Decrypt
<1>14. \A st, m, f : Proved!Opens(st, m, f) <=> Opens(st, m, f)
  BY <1>13 DEF Proved!Opens, Opens
<1>15. QED
  BY <1>1, <1>2, <1>3, <1>9, <1>13, <1>14

\* Its steps are those of Channel.
LEMMA ProvedSteps ==
  /\ Channel!Init => Proved!Init
  /\ Channel!Next => Proved!Next
  /\ Channel!vars = Proved!vars
  /\ UNCHANGED Channel!vars => UNCHANGED Proved!vars
<1>1. /\ \A p : Proved!Peer(p) = Channel!Peer(p)
      /\ Proved!SignedPreKey = Channel!SignedPreKey
      /\ \A st : Proved!FreshFor(st) = Channel!FreshFor(st)
  BY DEF Proved!Peer, Channel!Peer, Proved!SignedPreKey, Channel!SignedPreKey,
         Proved!FreshFor, Channel!FreshFor, Proved!KeyPair, Channel!KeyPair
<1>2. Channel!Init => Proved!Init
  BY <1>1, ProvedOperators, SameSealing DEF Channel!Init, Proved!Init
<1>3. ASSUME NEW p, Channel!Send(p)
      PROVE  Proved!Send(p)
  BY <1>3, ProvedOperators, SameSealing DEF Channel!Send, Proved!Send
<1>4. \A p, m : Proved!SessionFor(p, m) = Channel!SessionFor(p, m)
  BY <1>1, ProvedOperators, SameSealing DEF Proved!SessionFor, Channel!SessionFor
<1>5. ASSUME NEW p, NEW i, Channel!Receive(p, i)
      PROVE  Proved!Receive(p, i)
  BY <1>1, <1>4, <1>5, ProvedOperators, SameOpening DEF Channel!Receive, Proved!Receive
<1>6. Channel!Next => Proved!Next
  BY <1>1, <1>3, <1>5 DEF Channel!Next, Proved!Next
<1>7. QED
  BY <1>2, <1>6 DEF Channel!vars, Proved!vars

\* What is proved of RatchetChannel, about the sessions the devices have stored.
Guarantees ==
  /\ UniqueMessageKeys /\ Channel!NoReplay /\ Channel!ForwardSecrecy
  /\ Channel!InStep /\ Channel!NothingLost

\* They follow from its inductive invariant.
LEMMA ProvedGuarantees ==
  ASSUME Proved!SyncInv
  PROVE  Guarantees
<1>1. /\ \A p : Proved!Peer(p) = Channel!Peer(p)
      /\ \A st : Proved!FreshFor(st) = Channel!FreshFor(st)
  BY DEF Proved!Peer, Channel!Peer, Proved!FreshFor, Channel!FreshFor,
         Proved!KeyPair, Channel!KeyPair
<1>2. Proved!StepInv /\ Proved!IInv
  BY DEF Proved!SyncInv, Proved!StepInv
<1>3. UniqueMessageKeys
  <2>1. Proved!UniqueMessageKeys
    BY <1>2, Proved!KeysUnique, ProvedOperators, RatchetAssumption, SessionAssumption
  <2>2. QED
    BY <2>1 DEF Proved!UniqueMessageKeys, Channel!UniqueMessageKeys, UniqueMessageKeys
<1>4. Channel!NoReplay
  <2>1. Proved!NoReplay
    BY <1>2, Proved!ReplayRefused, ProvedOperators, RatchetAssumption, SessionAssumption
  <2>2. QED
    BY <1>1, <2>1, ProvedOperators, SameOpening DEF Proved!NoReplay, Channel!NoReplay
<1>5. Channel!ForwardSecrecy
  <2>1. Proved!ForwardSecrecy
    BY <1>2, Proved!KeysForgotten, ProvedOperators, RatchetAssumption, SessionAssumption
  <2>2. \A st, k : Proved!Derivable(st, k) <=> Channel!Derivable(st, k)
    BY DEF Proved!Derivable, Channel!Derivable
  <2>3. QED
    BY <1>1, <2>1, <2>2 DEF Proved!ForwardSecrecy, Channel!ForwardSecrecy
<1>6. /\ \A st, m : Proved!Ahead(st, m) <=> Channel!Ahead(st, m)
      /\ \A st, m : Proved!ToSkip(st, m) = Channel!ToSkip(st, m)
  BY DEF Proved!Ahead, Channel!Ahead, Proved!DH, Channel!DH,
         Proved!ToSkip, Channel!ToSkip, Proved!EmptyChain, Channel!EmptyChain
<1>7. Channel!InStep
  <2>1. Proved!InStep
    BY <1>2, Proved!OpensInStep, ProvedOperators, RatchetAssumption, SessionAssumption
  <2>2. \A S : Proved!Cardinality(S) = Channel!Cardinality(S)
    BY DEF Proved!Cardinality, Channel!Cardinality
  <2>3. QED
    BY <1>1, <1>6, <2>1, <2>2, ProvedOperators, SameOpening DEF Proved!InStep, Channel!InStep
<1>8. Channel!NothingLost
  <2>1. Proved!NothingLost
    BY Proved!OpensAll, ProvedOperators, RatchetAssumption, SessionAssumption
  <2>2. QED
    BY <1>1, <2>1, ProvedOperators, SameOpening DEF Proved!NothingLost, Channel!NothingLost
<1>9. QED
  BY <1>3, <1>4, <1>5, <1>7, <1>8 DEF Guarantees

\* One call at a time, in the tab the session was established in, and until a page
\* is reloaded: no message key is used twice, no ciphertext opens twice, a saved
\* state yields no key already used, and no message is lost for good (CryptoService,
\* SessionService, DoubleRatchet).
THEOREM SessionsAsProved ==
  ASSUME NEW o, Op = {o}, TabOf[o] = FirstTab
  PROVE  Spec => [](reloads = 0 => Guarantees)
<1> DEFINE Inv == Typed /\ (reloads = 0 => AloneInv(o) /\ Proved!SyncInv)
<1>1. Init => Inv
  <2>1. ASSUME Init PROVE Proved!SyncInv
    <3>1. Proved!Init
      BY <2>1, InitAlone, ProvedSteps
    <3>2. QED
      BY <3>1, Proved!InitSync, ProvedOperators, RatchetAssumption, SessionAssumption
  <2>2. QED
    BY <2>1, InitTyped, InitAlone
<1>2. Inv /\ [Next]_vars => Inv'
  <2>1. SUFFICES ASSUME Inv, [Next]_vars PROVE Inv'
    OBVIOUS
  <2>2. Typed' /\ (reloads' = 0 => reloads = 0 /\ AloneInv(o)')
    BY <2>1, NextTyped, NextAlone
  <2>3. ASSUME reloads' = 0 PROVE Proved!SyncInv'
    <3>1. [Channel!Next]_Channel!vars
      BY <2>1, <2>3, NextAlone
    <3>2. [Proved!Next]_Proved!vars
      BY <3>1, ProvedSteps
    <3>3. Proved!SyncInv
      BY <2>1, <2>2, <2>3
    <3>4. QED
      BY <3>2, <3>3, Proved!NextSync, ProvedOperators, RatchetAssumption, SessionAssumption
  <2>4. QED
    BY <2>2, <2>3
<1>3. Inv => (reloads = 0 => Guarantees)
  BY ProvedGuarantees
<1> HIDE DEF Inv
<1>4. QED
  BY <1>1, <1>2, <1>3, PTL DEF Spec

=============================================================================
