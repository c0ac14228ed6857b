SPECIFICATION Spec
CONSTANTS
  Initiator = alice
  Responder = bob
  Party = {alice, bob}
  NoKey = noKey
  Secret = sk
  WrongSecret = wrong
  SharedSecret = {sk, wrong}
  MaxSkippedKeys = 1
  MaxSends = 3
  MaxReloads = 2
  Tab = {tab}
  Op = {op}
  TabOf <- InOneTab
INVARIANTS TypeOK UniqueChainKeys
PROPERTY ImplementsChannel

CHECK_DEADLOCK FALSE
