SPECIFICATION Spec
CONSTANT MaxTasks = 4
INVARIANT ExpiredCodeIsReplaced
