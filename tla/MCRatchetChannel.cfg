SPECIFICATION Spec
CONSTANTS
  Initiator = alice
  Responder = bob
  Party = {alice, bob}
  NoKey = noKey
  Secret = sk
  SharedSecret = {sk}
  MaxSends = 5
  MaxSkippedKeys = 3
INVARIANTS TypeOK UniqueMessageKeys NoReplay ForwardSecrecy InStep NothingLost
