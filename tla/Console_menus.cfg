SPECIFICATION Spec
CONSTANTS
    Width = 2
    Base = 2
    Hex <- MCHex
    Ports = {"b"}
    Divergent = {"s", "^"}
    KeyOf <- MCKeyOf
    Places <- MCPlaces
    SeqMap <- MCSeqMap
    FieldsOf <- MCFieldsOf
    Digit <- MCDigit
    KeyMaps = 1
    MaxDigits = 2
    EepromFields = {"r"}
    Chars <- MCChars
INVARIANTS
    TypeOK
    UsageOnLiveObject
    OneMenuObject
    UnselectedKept
PROPERTIES
    CommandsDoWhatHelpSays
    InputIsRead
    QuitLeavesMenus
