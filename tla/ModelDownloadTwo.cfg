SPECIFICATION Spec
CONSTANTS
  Launchers = {one, two}
PROPERTIES ActiveIsVerified
