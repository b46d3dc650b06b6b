SPECIFICATION Spec
CONSTANTS
    Threads = {t1}
    Extras = {"h1", "a", "b"}
    TypeOf <- MCTypeOf
    HighUse = {"keywords"}
    RemoveLast = TRUE
    Nil = Nil
    Head = Head
INVARIANT AddedUnlinked
