SPECIFICATION Spec
CONSTANT Rotations = {1}
CHECK_DEADLOCK FALSE
INVARIANT OkMeansRefreshed
