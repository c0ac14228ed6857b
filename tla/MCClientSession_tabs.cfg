SPECIFICATION Spec
CONSTANTS
  Initiator = alice
  Responder = bob
  Party = {alice, bob}
  NoKey = noKey
  Secret = sk
  WrongSecret = wrong
  SharedSecret = {sk, wrong}
  MaxSkippedKeys = 3
  MaxSends = 2
  MaxReloads = 0
  Tab = {one, two}
  Op = {one, two}
  TabOf <- InOwnTab
INVARIANTS UniqueMessageKeys
