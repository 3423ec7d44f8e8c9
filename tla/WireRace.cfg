SPECIFICATION WireSpec
CONSTANTS MaxPut = 2 MaxBreaks = 1
PROPERTY AcknowledgeIncreases
