SPECIFICATION Spec
CONSTANT MaxFaults = 3
INVARIANTS FollowsOrder AcceptedMeansSound SoundIsAccepted RestoreIsReal
