\* A child that reads its input and may close its outputs before it ends.
CONSTANT Habits = {"mute"}
SPECIFICATION Spec
PROPERTY TimeoutBinds
CHECK_DEADLOCK FALSE
