CONSTANTS
  Lengths = {0, 1, 40, 255, 256, 70000}
  None = None
SPECIFICATION Spec
INVARIANT ResponseRecognised
