CONSTANTS
    w1 = w1
    w2 = w2
    Main = Main
    None = None
    NaN = NaN
    Workers <- MCWorkers
    Lines <- MCLines
    MAX_QUEUE_SIZE = 2
    MaxHp = 3
    ThinkTicks = 1
    MaxCommands = 2
    MaxEvents = 2
SPECIFICATION Spec
INVARIANTS
    ListIntact
    JobsAccounted
    NoLostWakeup
    DrainedAtExit
PROPERTY
    ImplementsService
