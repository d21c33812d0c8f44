\* A restart through systemd with the session to be kept.
SPECIFICATION SessionSpec
CONSTANTS
  Instances = {i1, i2}
PROPERTIES
  SessionComesBack
