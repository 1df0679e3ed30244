SPECIFICATION Spec
CONSTANT MaxPayloads = 4
INVARIANTS EveryPayloadAccounted
PROPERTIES GrowsOnlyWhenAllHeld
