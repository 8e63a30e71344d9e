SPECIFICATION Spec
CONSTANTS
    Orders = {o1, o2}
    Tickets = {t1}
    None = None
    Waiting = Waiting
    Failed = Failed
    MaxCalls = 2
INVARIANTS TypeOK OneOrderAtATime ToldTicketsStay
SYMMETRY Symmetry
