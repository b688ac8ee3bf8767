\* Three slabs, one more than the program has: a scan passes over a slab that is
\* still leased. Streams of up to four and a half slabs: every slab is reused.
CONSTANTS
  SlabCount = 3
  SlabSize = 2
  MaxBytes = 9
SPECIFICATION FairSpec
INVARIANTS TypeOK NoDataRace SlabsOwned
PROPERTIES ImplementsStream Delivery
\* The caller may stop calling: after recv has returned None nothing is left.
CHECK_DEADLOCK FALSE
