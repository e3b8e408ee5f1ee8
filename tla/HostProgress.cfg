SPECIFICATION FairSpec
CONSTANTS
  dev = dev
  npx = npx
  q1 = q1
  Nobody = Nobody
PROPERTIES
  ConnectorSettles HolderExecutes TreesSettle
CHECK_DEADLOCK FALSE
