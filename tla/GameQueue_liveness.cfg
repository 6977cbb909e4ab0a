CONSTANTS
    w1 = w1
    w2 = w2
    Main = Main
    None = None
    NaN = NaN
    Workers <- MCWorkers
    Lines <- MCLivenessLines
    MAX_QUEUE_SIZE = 1
    MaxHp = 3
    ThinkTicks = 1
    MaxCommands = 2
    MaxEvents = 2
SPECIFICATION FairSpec
PROPERTIES
    EveryAttackSettles
    EnqueueReturns
    ExitCompletes
