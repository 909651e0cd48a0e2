\* Three clients for two admissions: one with the endpoint, one in the queue, one
\* turned away.  One of them may stream texts of up to two sentences.  The endpoint
\* may refuse, so one attempt shows what more would.
SPECIFICATION Spec
CONSTANTS
    Clients = {c1, c2, c3}
    Streaming = {c1}
    Attempts = {a1}
    None = None
    MaxConnections = 3
    MaxAdmitted = 2
    MaxSentences = 2
SYMMETRY Alike
INVARIANTS
    CountersExact
    OneActiveOneWaiting
    SpokenInOrder
