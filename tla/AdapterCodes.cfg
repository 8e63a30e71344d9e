SPECIFICATION Spec
CONSTANTS
    Orders = {o1, o2}
    Counts = {1, 2}
    Handlers = {h1, h2}
    MaxCodes = 4
INVARIANTS TypeOK AnswersWereMade AnswersAgree
SYMMETRY Alike
