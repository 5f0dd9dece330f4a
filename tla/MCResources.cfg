SPECIFICATION Spec
CONSTANTS
    Aliases = {a1, a2}
    NoAlias = NoAlias
    MainLoop = main
    Loops = {main, other}
    Closers = {s1, s2, s3}
    Configurations = {{}, {"redis", "rabbitmq", "mongodb", "celery"}}
    MaxEngines = 3
INVARIANTS
    TypeOK
    DisposedAtHome
    SessionOnOwnLoop
    RegisteredAccountedFor
    NoneLeftBehind
SYMMETRY Symmetry
CHECK_DEADLOCK FALSE
