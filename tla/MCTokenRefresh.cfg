SPECIFICATION MCSpec
CONSTANTS
  A = A
  B = B
  jobA = jobA
  jobB = jobB
  reqA = reqA
  reqB = reqB
  admin = admin
  NoOne = NoOne
  Instances = {A, B}
  Refreshers = {jobA, jobB}
  Requests = {reqA, reqB}
  Administrators = {admin}
  InstanceOf <- At
  Lenient = {reqA}
  MaxGen = 3
  MaxFaults = 1
  m1 = m1
  m2 = m2
  Messages = {m1, m2}
  TTL = 3
  Delays = {1, 2}
INVARIANT OneRefreshAtATime
PROPERTIES CredentialsSound QueueSound Progress
CHECK_DEADLOCK FALSE
