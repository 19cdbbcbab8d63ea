SPECIFICATION Spec
CONSTANTS
    Width = 3
    MaxObject = 3
    MaxOffset = 1
    Programs <- MCPrograms
INVARIANTS Sound ErrorsCaught NoFalseAlarm GhostsTrackObjects
