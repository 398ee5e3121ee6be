SPECIFICATION FairSpec
CONSTANTS
    XMax = 4
    YMax = 5
    StartX = 1
    StartY = 2
    KBD_BUF = 2
    Delay = 100
    MealsPerLevel = 1
    Keystrokes <- MCKeystrokes
    MaxKeys = 4
    MaxMeals = 2
INVARIANTS KeysInOrder SnakeIsWhole ScreenTellsTheGame
PROPERTIES NeverTurnsBack KeysAreRead
