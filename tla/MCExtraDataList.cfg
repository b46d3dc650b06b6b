SPECIFICATION Spec
CONSTANTS
    Threads = {t1, t2}
    Extras = {"h1", "h2", "a", "b", "b2"}
    TypeOf <- MCTypeOf
    HighUse = {"keywords", "startingPosition"}
    RemoveLast = FALSE
    Nil = Nil
    Head = Head
INVARIANTS
    TypeOK
    TailEndsList
    FlagsExact
    HighUseFirst
PROPERTY ImplementsMap
