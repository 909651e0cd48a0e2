\* Three connections for two slots: one with the model, one that meets it busy,
\* one that finds no slot.
SPECIFICATION FairSpec
CONSTANTS
    Requests = {q1, q2, q3}
    None = None
    Recovery = Recovery
    MaxSlots = 2
INVARIANTS
    TypeOK
    OwnAudio
    ReadyMeansQuiet
    SlotsConserved
PROPERTIES
    OneChild
    RequestsEnd
    RecoversOrExits
    ServingSpec
