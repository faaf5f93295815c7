\* Two reservations contend for the guard; the clock can pass a deadline
\* between any two steps, and the attachment can be withdrawn under a
\* reservation, or replaced by a running one of the next generation.  No
\* symmetry: liveness is checked too.
CONSTANTS
    s1 = s1
    s2 = s2
    Slots <- TwoSlots
    NoSlot = NoSlot
    Lifetime = 1
    MaxTime = 2
    MaxGeneration = 2
SPECIFICATION FairSpec
INVARIANTS ErrorMeansUnsent TimelyAdmission
PROPERTIES PublishedForBoundAttachment ImplementsContract OpenIsResolved
