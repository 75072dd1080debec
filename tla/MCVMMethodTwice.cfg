SPECIFICATION Spec
CONSTANT Program <- MCMethodTwice
INVARIANT SlotsExist
