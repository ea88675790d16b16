CONSTANTS
    Chip = {hash, file, func}
    WireStart = 2
    MaxRel = 4
SPECIFICATION Spec
INVARIANTS TypeOK OutChains InChains FileIsPrefix
PROPERTIES LinksSetOnce ImplementsLog
