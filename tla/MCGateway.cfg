SPECIFICATION Spec
CONSTANTS
    Torrents = {film}
    Total <- MCTotal
    Readers = {r1, r2}
    Streams = {s1}
    MaxRestarts = 1
INVARIANTS
    RowAgrees
PROPERTIES
    ProgressIsSampled
    EveryRowIsFinished
