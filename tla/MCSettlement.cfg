SPECIFICATION Spec
CONSTANTS
    Position = {p1, p2, p3}
    Live = {p1, p2}
    Broken = {p2}
INVARIANTS TypeOK ClosedOnce
PROPERTIES OfficialWhenResolved EverySettled
