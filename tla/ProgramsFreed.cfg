CONSTANTS
  Handles = {"stdin_pipe", "stdout_pipe", "file_pipe", "server", "child_req",
             "client1", "client2", "client3", "socket", "recv_socket", "send_socket",
             "timeout", "url1", "url2", "tty", "tick", "idler", "prep", "gc_req",
             "fake_job_req", "file1", "file2", "sig1a", "sig1b", "sig2", "sig3"}
  BufferSize = 3
  FileSize = 5
  Chunks = 3
  Clients = {"client1", "client2", "client3"}
  MaxLines = 2
  Height = 3
  Transfers = {"url1", "url2"}
  Descriptors = {"fd1", "fd2"}
  IdleLimit = 4
  Lateness = {0, 700, 2500}
  Files = {"file1", "file2"}
  MaxChanges = 3
  MaxSignals = 3
  Servers = {"server1", "server2"}
  MaxStarts = 2
  Nobody = "nobody"
SPECIFICATION Spec
CHECK_DEADLOCK FALSE
INVARIANT FreedAfterClose
