CONSTANTS
    Calls = {c1, c2}
    Entries = {tools, garden, hammer}
    FirstRows <- Shelf
    Names = {tea, oak, saw}
    None = None
    Routes <- AllRoutes
    Stores = {shop}
    Requests <- Everything
    MaxSignals = 2
    tools = tools
    garden = garden
    hammer = hammer
    tea = tea
    oak = oak
    saw = saw
    shop = shop
SPECIFICATION LiveSpec
INVARIANTS
    CategoriesExist
    AdmittedAreEntitled
PROPERTIES
    AnswersAreTrue
    EveryRequestEnds
    SignalEnds
