SPECIFICATION Spec
CONSTANT Program <- MCFields
INVARIANT NoDangling
