\* Two remote senders; a message with the last token may fail.
SPECIFICATION FairSpec
CONSTANTS
  home = home
  away = away
  l1 = l1
  s1 = s1
  s2 = s2
  r1 = r1
  r2 = r2
  r3 = r3
  Null = Null
  Routers = {home, away}
  Home = home
  Senders = {s1, s2}
  RouterOf <- MCRouterOf
  Records = {r1, r2, r3}
  RxQuota = 2
  MaxFlaps = 0
  Faults = {"last"}
PROPERTY
  BusyIsWoken
