SPECIFICATION Spec
CONSTANTS
  alice = alice
  bob = bob
  a1 = a1
  b1 = b1
  w1 = w1
  w2 = w2
  NoRow = NoRow
  User <- TwoUsers
  Device <- TwoDevices
  Owner <- OwnerOfTwo
  Worker = {w1, w2}
  Sender = {a1}
  Reader = {bob}
  MaxMessages = 2
  MaxDeletions = 1
SYMMETRY Workers
INVARIANTS TypeOK SequenceOrder SendersToldRead SendersToldDelivered
PROPERTIES NeverBornRead OnlyStaleSavesRegress
