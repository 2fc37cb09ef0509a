\* Four registers and three variables: the pool runs out, and every order of the free
\* list comes up.
SPECIFICATION Spec
CONSTANTS
  MaxRegisters = 4
  Keys = {a1, a2, b1}
PROPERTY
  RegisterSetSpec
