CONSTANTS
    Suffix = {"s", "c", "java", "cir", "3d", "utf8", "map"}
    Deepest = 2
    Rounds = 1
    Slots = 4
    Name = {1, 2, 3}
    Matches = 2
    MaxFile = 2
    MaxCount = 3
    Number = {1, 2, 9}
    Levels = 2
SPECIFICATION ParsersSpec
INVARIANTS LexedAsC NamesAreWhole DrawnAsWritten
CHECK_DEADLOCK FALSE
