CONSTANTS
 b1 = b1  b2 = b2  b3 = b3
 r1 = r1  r2 = r2
 Blocks <- MCBlocks
 Slots <- MCSlots
 Nil = Nil
 NoId = NoId
 NoMeta = NoMeta
 MaxId = 4
 MaxQueue = 2
 Habits = {}
SPECIFICATION Spec
INVARIANTS TypeOK CountsExact IdsUnique
PROPERTIES SweepSparesAccessible CollectionReclaims
SYMMETRY Symmetry
