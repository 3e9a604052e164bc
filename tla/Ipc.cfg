SPECIFICATION Spec
CONSTANTS Clients = {c1, c2}
          Addresses = {a1, a2}
          Caps = {"files", "sound"}
          Allowed = {"sound"}
          Keeps = {}
          MaxAsks = 3
          MaxCreates = 1
          MaxLinks = 2
          MaxStarts = 2
INVARIANTS TypeOK RepliesMatch OnlyAllowed
PROPERTIES ImplementsRemoteCalls EveryoneIsServed
CHECK_DEADLOCK FALSE
