SPECIFICATION FairSpec
CONSTANTS
    Users = {u1}
    NoUser = NoUser
    AuthTimeout = 1
    StreamSize = 2
    RetSize = 1
    UartCommands <- UartLines
    DisplayCommands <- MenuCommands
    MaxDue = 1
INVARIANTS SessionInv AnswersMatch NoNullInterface LinesExecuted
PROPERTIES SessionsEnd SendReturns
CHECK_DEADLOCK FALSE
