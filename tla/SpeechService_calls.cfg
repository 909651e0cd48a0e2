\* A client that may stream and one that may not, one sentence, with fairness: calls end.
SPECIFICATION FairSpec
CONSTANTS
    Clients = {c1, c2}
    Streaming = {c1}
    Attempts = {a1}
    None = None
    MaxConnections = 2
    MaxAdmitted = 2
    MaxSentences = 1
PROPERTIES
    CallsEnd
