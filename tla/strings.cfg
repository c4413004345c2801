CONSTANTS
 t1 = t1  t2 = t2  t3 = t3
 s1 = s1  s2 = s2
 b1 = b1  b2 = b2  b3 = b3
 Threads <- MCThreads
 Content <- MCContent
 Blocks <- MCBlocks
 NoThread = NoThread
 NoBlock = NoBlock
 Free = Free
 MaxHandles <- MCMaxHandles
SPECIFICATION FairSpec
INVARIANTS TypeOK OneObjectPerString BlocksAccountedFor CountExact
PROPERTIES PoolSpec InternReturns
