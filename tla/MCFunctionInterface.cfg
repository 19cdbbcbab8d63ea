SPECIFICATION InterfaceSpec
CONSTANT Programs <- MCPrograms
INVARIANTS
    RegionsIdentifyCells
    UniformRegionsAreDisjoint
    ActualsMatchFormals
    EffectsReturned
    RegionsInitialised
