SPECIFICATION Spec
CONSTANTS
  r1 = r1  r2 = r2  r3 = r3  x = x  y = y
  b1 = b1  b2 = b2  b3 = b3
  t1 = t1  t2 = t2
  c1 = c1  c2 = c2
  Addrs <- MCAddrs
  Targets = {t1, t2}
  Checks = {c1, c2}
  Blocks <- MCBlocks
  GlobalChecks = {c1}
  SourceChecks = {}
  BlockChecks <- MCOwnChecks
  RejectBlocks = {b3}
  Rewrite <- MCRewrite
  BlockRewrite <- MCBlockRewrite
  BlockOf <- MCBlockOf
  TargetsOf <- MCTargetsOf
  NoTarget = NoTarget
  PartialTargets = {t1}
  Failures = {"mail", "sender", "address", "check", "modifier", "start", "addrcpt", "prepare", "refuse", "body", "commit"}
  Rcpts = {r1, r2, r3}
  Senders <- MCSenders
  CleanDomain <- MCCleanDomain
  Endpoints <- MCEndpoints
  MaxMsgs = 2
INVARIANTS  TransactionsApart LimitsBalanced ChecksHeeded
CHECK_DEADLOCK FALSE
