CONSTANT Scenes <- MCScenes
SPECIFICATION Spec
INVARIANTS
    OffTakesOnlyItsOwn
    HookSpeaksForLint
    LastLayerDecides
    AbsorbersHideNothing
CHECK_DEADLOCK FALSE
