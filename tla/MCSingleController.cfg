SPECIFICATION SessionSpec
CONSTANTS
  Conns = {c1, c2}
  Hosts = {h1}
  Ports = {p1}
  NoIp = NoIp
  AUTH_FAIL_LIMIT = 5
  MinutesPass = TRUE
INVARIANT SingleController
