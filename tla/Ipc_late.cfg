SPECIFICATION Spec
CONSTANTS Clients = {c1, c2}
          Addresses = {a1, a2}
          Caps = {"files", "sound"}
          Allowed = {"sound"}
          Keeps = {"capability"}
          MaxAsks = 3
          MaxCreates = 1
          MaxLinks = 2
          MaxStarts = 2
INVARIANT RepliesMatch
CHECK_DEADLOCK FALSE
