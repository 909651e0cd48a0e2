\* Two operators; commits enough for a topic, an edit or a landing on either
\* side of it, its update and its merge.
SPECIFICATION Spec
CONSTANTS
    Operators = {o1, o2}
    MaxCommit = 5
    MaxVersion = 3
SYMMETRY Interchangeable
PROPERTIES
    MainNeverLoses
    TopicEditsKept
