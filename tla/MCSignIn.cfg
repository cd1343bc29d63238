SPECIFICATION Spec
CONSTANTS
  chA = chA
  chB = chB
  fA = fA
  fB = fB
  cA = cA
  op = op
  console = console
  k1 = k1
  k2 = k2
  l1 = l1
  l2 = l2
  Users = {fA, fB, cA, op}
  Churches = {chA, chB}
  Public = console
  SchemaOf <- MCSchemaOf
  Pk <- MCPk
  Email <- MCEmail
  Password <- MCPassword
  Founder <- MCFounder
  Credentials = {k1, k2}
  Browsers = {browser}
  Links = {l1, l2}
  MaxChallenges = 3
  InviteTicks = 2
  RecoveryTicks = 1
  ChallengeTicks = 1
  Nobody = Nobody
  NoCookie = NoCookie
  Gone = Gone
VIEW LiveView
SYMMETRY Interchangeable
INVARIANTS
  NobodyActsAsAnother
  ChallengeAnsweredOnce
PROPERTIES
  SignInLands
  LinksSignInOnce
