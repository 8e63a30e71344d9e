SPECIFICATION Spec
CONSTANTS
    Keys = {k1}
    Hashes = {h1, h2}
    Callers = {c1, c2, c3}
    MaxRuns = 3
INVARIANTS TypeOK RunsAgainOnlyIfBroken RepliesAreGenuine
PROPERTIES AnswersAreFinal
SYMMETRY Alike
