\* Three headers, two kinds of message; a slab of up to three pools of two items;
\* a heap of five blocks of eight bytes and the sentinel, with requests of one, two
\* and three blocks, two of them with no byte to spare.
SPECIFICATION QueueSpec
CONSTANTS
  Msg = {m1, m2, m3}
  Key = {k1, k2}
  NULL = NULL
  SlabBlock = {b1, b2, b3}
  ItemsPerPool = 2
  BLOCKS = 6
  SHIFT_VALUE = 3
  HEADER = 3
  Owner = {p1, p2}
  Sizes = {4, 5, 20}
  NONE = NONE
INVARIANTS MessageQueueSound SlabSound HeapCorrect
 
