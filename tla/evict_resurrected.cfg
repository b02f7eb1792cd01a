\* One thread evicts while another loads.
SPECIFICATION Spec
CONSTANTS
    t1 = t1  t2 = t2
    Threads = {t1, t2}
    None = None
    MaxVersion = 1
    Foreign = None
INVARIANTS
    EvictedStaysForgotten
