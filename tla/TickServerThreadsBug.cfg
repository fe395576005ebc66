SPECIFICATION Spec
CONSTANTS
  Workers = {w1, w2}
  Clients = {c1, c2}
  Fds = {7, 8}
  listen_fd = 3
  pipefd = 5
  MAX_FD = 1
  m_max_requests = 1
  RD_BUF_SIZE = 2
  Timeout = 1
  MaxUnread = 1
  w1 = w1
  w2 = w2
  c1 = c1
  c2 = c2
  c3 = c3
  Null = Null
SYMMETRY Interchangeable
INVARIANT OneThreadPerConnection
\* All clients may have come and gone, or the server has ended.
CHECK_DEADLOCK FALSE
