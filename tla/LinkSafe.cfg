CONSTANTS
  Client = {c1, c2}
  MaxLogins = 3
  MaxFaults = 3
SPECIFICATION Spec
SYMMETRY Players
INVARIANTS TypeOK DescriptorsOpen AckFinds LeaveFinds PlayedIsLoggedIn
CHECK_DEADLOCK FALSE
