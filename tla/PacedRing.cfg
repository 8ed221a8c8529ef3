\* Three slots: a queued, a sending and a free slot at once; six packets wrap
\* the ring twice.
CONSTANTS
    SlotCount = 3
    MaxPackets = 6
SPECIFICATION Spec
CHECK_DEADLOCK FALSE
INVARIANTS
    NoDataRace
    NoStaleIndex
    WireWholeInOrder
PROPERTIES
    RingDrains
