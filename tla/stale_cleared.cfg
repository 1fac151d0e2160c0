SPECIFICATION LiveSpec
CONSTANTS
    MaxSequence = 1
    Buffer = 1
INVARIANTS OldSnapshotIsMarked
