SPECIFICATION Spec
CONSTANTS
  alice = alice
  bob = bob
  a1 = a1
  b1 = b1
  w1 = w1
  w2 = w2
  NoRow = NoRow
  User <- TwoUsers
  Device <- TwoDevices
  Owner <- OwnerOfTwo
  Worker = {w1, w2}
  Sender = {a1}
  Reader = {bob}
  MaxMessages = 1
  MaxDeletions = 0
SYMMETRY Workers
INVARIANTS DeliveredMeansReceived
