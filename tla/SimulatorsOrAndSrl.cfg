SPECIFICATION Spec
CONSTANT W = 4
INVARIANT OrAndSrlAgree
CHECK_DEADLOCK FALSE
