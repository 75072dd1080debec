SPECIFICATION FairSpec
CONSTANT Program <- MCProgram
INVARIANTS TypeOK CodeVerified OperandsThere FieldsTraced NoDangling StackBalanced OutputAgrees NoStaleLocals
PROPERTY Terminates
