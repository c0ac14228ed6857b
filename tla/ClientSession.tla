---------------------------- MODULE ClientSession ----------------------------
(***************************************************************************)
(* How browsers keep the two ends of the session of RatchetChannel:        *)
(* CryptoService on SessionService on LocalStorageService, an action per   *)
(* stretch of code between two awaits.  The page is single-threaded, and   *)
(* an awaited localStorage call takes effect at once and returns later.    *)
(* All tabs share the localStorage; each has a cache of its own over it.   *)
(* A reload empties the cache and ends what the tab was doing.             *)
(***************************************************************************)
EXTENDS Ratchet

CONSTANTS Initiator, Responder, Secret,
          WrongSecret,    \* what X3DH gives without the one-time pre-key
          MaxSends, MaxReloads,    \* bounds
          Tab,
          Op,             \* names for the calls in progress on a device
          TabOf           \* TabOf[o]: the tab that call o runs in

VARIABLES disk,        \* disk[p]: localStorage, the session state and its HMAC
          cache,       \* cache[p][t]: LocalStorageService._cache of a tab
          initiation,  \* initiation[p]: tabs with the X3DH InitiationResult
          otpk,        \* the responder still has the one-time pre-key
          ops,         \* ops[p][o]: the call, and the await it is at
          generated,   \* generated[p]: the last ratchet key pair of p
          reloads,
          sent, accepted           \* as in RatchetChannel

vars == <<disk, cache, initiation, otpk, ops, generated, reloads, sent, accepted>>

ASSUME SessionAssumption ==
  /\ Initiator # Responder /\ Party = {Initiator, Responder}
  /\ {Secret, WrongSecret} \subseteq SharedSecret /\ Secret # WrongSecret
  /\ Tab # {} /\ TabOf \in [Op -> Tab]
  /\ MaxSends \in Nat /\ MaxReloads \in Nat

\* A stored value is a set of at most one element.  An HMAC is named by the
\* state it was computed over; the key of the HMACs exists from the start.
Cells     == [state : SUBSET RatchetStates, mac : SUBSET RatchetStates]
NoCells   == [state |-> {}, mac |-> {}]
Saved(st) == [state |-> {st}, mac |-> {st}]

\* A call is EncryptBytesAsync, job Sending, or DecryptToBytesAsync of the
\* message at position `job' of what the peer sent.
Sending == 0
Idle == [step |-> "idle", first |-> FALSE, job |-> Sending, got |-> {},
         session |-> {}, message |-> {}, before |-> {}]

\* What the two devices have stored as far as anyone can tell: until a call
\* returns, its message is neither sent nor opened, and its session not used.
Changing(p) ==
  {o \in Op : ops[p][o].step \in {"established", "ready", "opening", "save", "saved"}}
StoredSessions ==
  [p \in Party |-> IF Changing(p) = {} THEN disk[p].state
                   ELSE ops[p][CHOOSE o \in Changing(p) : TRUE].before]

Channel == INSTANCE RatchetChannel WITH stored <- StoredSessions

Wire(p, job) == sent[Channel!Peer(p)][job]

Calls ==
  [step : {"idle", "state", "mac", "delete", "prekeys", "otpk", "established",
           "ready", "opening", "save", "saved"},
   first : BOOLEAN,                   \* that await is its first
   job : Nat,
   got : SUBSET RatchetStates,        \* what the awaited read returns
   session : SUBSET RatchetStates,    \* the session held in memory
   message : SUBSET Channel!WireMessages,
   before : SUBSET RatchetStates]     \* for StoredSessions, not in the code

TypeOK ==
  /\ disk \in [Party -> Cells] /\ cache \in [Party -> [Tab -> Cells]]
  /\ initiation \in [Party -> SUBSET Tab] /\ otpk \in BOOLEAN
  /\ ops \in [Party -> [Op -> Calls]]
  /\ generated \in [Party -> Nat] /\ reloads \in Nat
  /\ sent \in [Party -> Seq(Channel!WireMessages)]
  /\ accepted \in [Party -> SUBSET Nat]
  /\ \A p \in Party : accepted[p] \subseteq DOMAIN sent[Channel!Peer(p)]

FirstTab == CHOOSE t \in Tab : TRUE

\* EstablishSessionAsync has just returned in the initiator's only open tab.
Init ==
  LET here == Saved(InitializeAsInitiator(Secret, KeyPair(Initiator, 0),
                                           Channel!SignedPreKey))
  IN /\ disk = [p \in Party |-> IF p = Initiator THEN here ELSE NoCells]
     /\ cache = [p \in Party |-> [t \in Tab |->
                   IF p = Initiator /\ t = FirstTab THEN here ELSE NoCells]]
     /\ initiation = [p \in Party |-> IF p = Initiator THEN {FirstTab} ELSE {}]
     /\ otpk = TRUE
     /\ ops = [p \in Party |-> [o \in Op |-> Idle]]
     /\ generated = [p \in Party |-> 0]
     /\ reloads = 0
     /\ sent = [p \in Party |-> << >>]
     /\ accepted = [p \in Party |-> {}]

-----------------------------------------------------------------------------
(* Pieces of the calls.  `c' is the tab's cache as the code before left it. *)
Becomes(p, o, call) == ops' = [ops EXCEPT ![p][o] = call]
Returns(p, o)       == Becomes(p, o, Idle)
Caches(p, o, c)     == cache' = [cache EXCEPT ![p][TabOf[o]] = c]

\* A load came back empty, on to EstablishSessionAsResponderAsync or a throw.
NoSession(p, o, call) ==
  IF call.job # Sending /\ Wire(p, call.job).prekey
  THEN Becomes(p, o, [call EXCEPT !.step = "prekeys", !.session = {}, !.got = {}])
  ELSE Returns(p, o)

\* A mutant: the value reaches localStorage later, if at all.
StoreLater(p, o, c, field, value) ==
  /\ Caches(p, o, [c EXCEPT ![field] = value])
  /\ UNCHANGED disk

StoreAsync(p, o, c, field, value) ==
  /\ Caches(p, o, [c EXCEPT ![field] = value])
  /\ disk' = [disk EXCEPT ![p][field] = value]

DeleteAsync(p, o, c, field) ==
  /\ Caches(p, o, [c EXCEPT ![field] = {}])
  /\ disk' = [disk EXCEPT ![p][field] = {}]

\* SaveSessionAsync up to its first await.
Saves(p, o, call, c, new) ==
  /\ StoreAsync(p, o, c, "state", {new})
  /\ Becomes(p, o, [call EXCEPT !.step = "save", !.session = {new}, !.got = {}])

\* EncryptBytesAsync with the session loaded.
Seals(p, o, call, c, st) ==
  LET message == [ratchet |-> SealedMessage(st), prekey |-> TabOf[o] \in initiation[p]]
  IN /\ initiation' = [initiation EXCEPT ![p] = @ \ {TabOf[o]}]
     /\ Saves(p, o, [call EXCEPT !.message = {message}], c, AfterEncrypt(st))
     /\ UNCHANGED generated

\* A mutant: a failed decryption is saved too.
Anyhow(st, m, fresh) == TRUE

\* DecryptToBytes throws unless the payload opens.
Succeeds(st, m, fresh) == Opens(st, m, fresh)

\* DecryptToBytesAsync with the session loaded: if it throws nothing is saved.
Unseals(p, o, call, c, st) ==
  LET m     == Wire(p, call.job).ratchet
      fresh == KeyPair(p, generated[p] + 1)
      new   == Decrypt(st, m, fresh).state
  IN /\ IF Succeeds(st, m, fresh)
        THEN /\ Saves(p, o, call, c, new)
             /\ generated' = [generated EXCEPT
                  ![p] = IF new.LocalRatchetKey = fresh THEN @ + 1 ELSE @]
        ELSE /\ Returns(p, o) /\ Caches(p, o, c)
             /\ UNCHANGED <<disk, generated>>
     /\ UNCHANGED initiation

\* The end of LoadSessionAsync: a missing HMAC is not an error, one of another
\* state makes it delete the session.
Verified(p, o, call, c, st, mac) ==
  LET found == [call EXCEPT !.before = disk[p].state]
  IN IF mac \subseteq {st}
     THEN IF call.job = Sending THEN Seals(p, o, found, c, st) ELSE Unseals(p, o, found, c, st)
     ELSE /\ DeleteAsync(p, o, c, "state")
          /\ Becomes(p, o, [call EXCEPT !.step = "delete", !.got = {}, !.session = {}])
          /\ UNCHANGED <<generated, initiation>>

Loaded(p, o, call, c, st) ==
  IF c.mac # {}
  THEN Verified(p, o, call, c, st, c.mac)
  ELSE /\ Becomes(p, o, [call EXCEPT !.step = "mac", !.got = disk[p].mac,
                                     !.session = {st}])
       /\ Caches(p, o, c)
       /\ UNCHANGED <<disk, generated, initiation>>

-----------------------------------------------------------------------------
(* The calls.  Within a tab calls overlap only when SignalR has read several *)
(* messages into one buffer and starts the receives one after the other:     *)
(* anything else runs after the chain of awaits has ended.                   *)
MayStart(p, o, job) ==
  \A q \in Op \ {o} :
    ops[p][q] # Idle /\ TabOf[q] = TabOf[o] =>
      job # Sending /\ ops[p][q].job # Sending /\ ops[p][q].first

Resumed(p, o) == [ops[p][o] EXCEPT !.first = FALSE]

\* HasSessionAsync precedes a send; a device without a session would start one.
Start(p, o, job) ==
  LET c    == cache[p][TabOf[o]]
      call == [Idle EXCEPT !.job = job, !.first = TRUE]
  IN /\ ops[p][o] = Idle /\ MayStart(p, o, job)
     /\ job = Sending => /\ Len(sent[p]) < MaxSends
                         /\ c.state \cup disk[p].state # {}
     /\ IF c.state # {}
        THEN \E st \in c.state : Loaded(p, o, call, c, st)
        ELSE /\ Becomes(p, o, [call EXCEPT !.step = "state", !.got = disk[p].state])
             /\ UNCHANGED <<disk, cache, generated, initiation>>
     /\ UNCHANGED <<otpk, reloads, sent, accepted>>

\* GetAsync caches what localStorage held when it was called.
ReadState(p, o) ==
  LET call == Resumed(p, o)
      c    == [cache[p][TabOf[o]] EXCEPT !.state = call.got]
  IN /\ call.step = "state"
     /\ IF call.got = {}
        THEN /\ NoSession(p, o, call)
             /\ UNCHANGED <<disk, cache, generated, initiation>>
        ELSE \E st \in call.got : Loaded(p, o, call, c, st)
     /\ UNCHANGED <<otpk, reloads, sent, accepted>>

ReadMac(p, o) ==
  LET call == Resumed(p, o)
      old  == cache[p][TabOf[o]]
      c    == IF call.got = {} THEN old ELSE [old EXCEPT !.mac = call.got]
  IN /\ call.step = "mac"
     /\ \E st \in call.session : Verified(p, o, call, c, st, call.got)
     /\ UNCHANGED <<otpk, reloads, sent, accepted>>

DeleteMac(p, o) ==
  LET call == Resumed(p, o)
  IN /\ call.step = "delete"
     /\ DeleteAsync(p, o, cache[p][TabOf[o]], "mac")
     /\ NoSession(p, o, call)
     /\ UNCHANGED <<initiation, otpk, generated, reloads, sent, accepted>>

\* EstablishSessionAsResponderAsync: the one-time pre-key is read ...
ReadPreKeys(p, o) ==
  LET call   == Resumed(p, o)
      secret == IF otpk THEN Secret ELSE WrongSecret
  IN /\ call.step = "prekeys"
     /\ Becomes(p, o, [call EXCEPT !.step = "otpk",
                  !.session = {InitializeAsResponder(secret, Channel!SignedPreKey)}])
     /\ UNCHANGED <<disk, cache, initiation, otpk, generated, reloads, sent, accepted>>

\* ... the new session is saved in two writes ...
SaveNewSession(p, o) ==
  LET call == Resumed(p, o)
  IN /\ call.step = "otpk"
     /\ StoreAsync(p, o, cache[p][TabOf[o]], "state", call.session)
     /\ Becomes(p, o, [call EXCEPT !.step = "established", !.before = disk[p].state])
     /\ UNCHANGED <<initiation, otpk, generated, reloads, sent, accepted>>

SaveNewMac(p, o) ==
  /\ ops[p][o].step = "established"
  /\ StoreAsync(p, o, cache[p][TabOf[o]], "mac", ops[p][o].session)
  /\ Becomes(p, o, [Resumed(p, o) EXCEPT !.step = "ready"])
  /\ UNCHANGED <<initiation, otpk, generated, reloads, sent, accepted>>

\* ... and the one-time pre-key is deleted.
DeletePreKey(p, o) ==
  /\ ops[p][o].step = "ready"
  /\ otpk' = FALSE
  /\ Becomes(p, o, [Resumed(p, o) EXCEPT !.step = "opening"])
  /\ UNCHANGED <<disk, cache, initiation, generated, reloads, sent, accepted>>

OpenFirst(p, o) ==
  /\ ops[p][o].step = "opening"
  /\ \E st \in ops[p][o].session :
       Unseals(p, o, Resumed(p, o), cache[p][TabOf[o]], st)
  /\ UNCHANGED <<otpk, reloads, sent, accepted>>

SaveMac(p, o) ==
  /\ ops[p][o].step = "save"
  /\ StoreAsync(p, o, cache[p][TabOf[o]], "mac", ops[p][o].session)
  /\ Becomes(p, o, [Resumed(p, o) EXCEPT !.step = "saved"])
  /\ UNCHANGED <<initiation, otpk, generated, reloads, sent, accepted>>

\* The caller goes on: the ciphertext is sent, or the plaintext shown.
Return(p, o) ==
  LET call == Resumed(p, o)
  IN /\ call.step = "saved"
     /\ IF call.job = Sending
        THEN /\ \E m \in call.message : sent' = [sent EXCEPT ![p] = Append(@, m)]
             /\ UNCHANGED accepted
        ELSE /\ accepted' = [accepted EXCEPT ![p] = @ \cup {call.job}]
             /\ UNCHANGED sent
     /\ Returns(p, o)
     /\ UNCHANGED <<disk, cache, initiation, otpk, generated, reloads>>

Reload(p, t) ==
  /\ reloads < MaxReloads
  /\ reloads' = reloads + 1
  /\ cache' = [cache EXCEPT ![p][t] = NoCells]
  /\ initiation' = [initiation EXCEPT ![p] = @ \ {t}]
  /\ ops' = [ops EXCEPT ![p] = [o \in Op |-> IF TabOf[o] = t THEN Idle ELSE @[o]]]
  /\ UNCHANGED <<disk, otpk, generated, sent, accepted>>

Step(p, o) ==
  \/ ReadState(p, o) \/ ReadMac(p, o) \/ DeleteMac(p, o) \/ ReadPreKeys(p, o)
  \/ SaveNewSession(p, o) \/ SaveNewMac(p, o) \/ DeletePreKey(p, o)
  \/ OpenFirst(p, o) \/ SaveMac(p, o) \/ Return(p, o)

Next ==
  \E p \in Party :
    \/ \E o \in Op : \/ \E job \in {Sending} \cup DOMAIN sent[Channel!Peer(p)] :
                          Start(p, o, job)
                     \/ Step(p, o)
    \/ \E t \in Tab : Reload(p, t)

Spec == Init /\ [][Next]_vars

-----------------------------------------------------------------------------
(* Properties.                                                             *)

\* With one call at a time the services do, until a page is reloaded, the
\* atomic Encrypt and Decrypt of RatchetChannel, whatever is cached when
\* (CryptoService over SessionService over LocalStorageService): what is proved
\* of it holds of them.
ImplementsChannel == Channel!Init /\ [][reloads' = 0 => Channel!Next]_Channel!vars

\* FR-005, "a unique per-message key": no two messages of any call, tab or page
\* load are sealed under one key (SaveSessionAsync runs before the ciphertext
\* is handed to the caller).
UniqueMessageKeys == Channel!UniqueMessageKeys

\* The same of the messages sealed on a chain agreed with the peer, across any
\* interruption: a responder whose page ends before its first decryption seals
\* on the empty chain, and may do so again in a session built anew.
UniqueChainKeys ==
  \A p, q \in Party : \A i \in DOMAIN sent[p], j \in DOMAIN sent[q] :
    LET key == sent[p][i].ratchet.key
    IN key = sent[q][j].ratchet.key /\ key.root # EmptyChain.root => p = q /\ i = j

\* A stored session is never lost: nothing tampers with localStorage here, so
\* LoadSessionAsync has no reason to delete it.
SessionKept == [][\A p \in Party : disk[p].state # {} => disk'[p].state # {}]_vars

=============================================================================
