CONSTANTS
  Aggregates = {g1, g2}
  Keys = {k1, k2, k3}
  Facts = {f1}
  Producers = {p1, p2}
  MaxPerTx = 2
  NoProducer = NoProducer
SPECIFICATION RecordingSpec
INVARIANTS
  ContiguousSequences
  NoSequenceCollision
