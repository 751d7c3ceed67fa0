SPECIFICATION FairSpec
CONSTANTS
    MaxPages = 2
    Data = {a, b}
    Zero = Zero
    Torn = Torn
    Capacities = {0, 1, 2}
PROPERTIES
    CallsReturn
    ImplementsPageStore
