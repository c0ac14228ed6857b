SPECIFICATION Spec
CONSTANTS
  Initiator = alice
  Responder = bob
  Party = {alice, bob}
  NoKey = noKey
  Secret = sk
  WrongSecret = wrong
  SharedSecret = {sk, wrong}
  MaxSkippedKeys = 3
  MaxSends = 3
  MaxReloads = 0
  Tab = {tab}
  Op = {first, second}
  TabOf <- InOneTab
PROPERTY SessionKept
