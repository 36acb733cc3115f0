\* Each part ends with its file.
SPECIFICATION Spec
INVARIANTS ElidedRight StackIsOpenBraces NamespaceEndRight BracketsMatch ReverseIsInverse
CHECK_DEADLOCK FALSE
