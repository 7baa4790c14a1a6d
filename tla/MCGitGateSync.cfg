\* An approval that follows Gitea while another commits.
CONSTANTS
  p1 = p1  p2 = p2  a = a  b = b
  Handler = {p1, p2}
  Edit = {a, b}
  MaxReq = 2
  MaxCalls = 4
  MaxFaults = 0
SPECIFICATION Spec
PROPERTIES MainKeeps
CHECK_DEADLOCK FALSE
