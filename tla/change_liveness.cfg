SPECIFICATION FairSpec
CONSTANTS
  ann = ann
  bob = bob
  Subject = {ann, bob}
  Handler = {h1, h2}
  Request <- BobDemoted
  Comment <- OneComment
  Operation <- BobSetViewer
  InitRoles <- TwoPeople
  None = None
PROPERTIES
  RequestsAnswered
