SPECIFICATION BenchSpec
CONSTANTS
  lab = lab
  user_a = user_a
  user_b = user_b
  guest = guest
  changeme = changeme
  strong = strong
  Hosts <- MCHosts
  Private <- MCHosts
  NoHost = no_host
  Paths <- MCPaths
  LoginPath = "(login)"
  Names <- MCNames
  Anon = anon
  Keys <- MCKeys
  Wordlist <- MCWordlist
  NoToken = no_token
  Jobs <- MCJobs
  Elsewhere = lab
  Payloads = 2
  Nobody = nobody
  Forged = forged
  Accounts <- MCAccounts
  Clients = {scanner, ann}
  Scanner = scanner
  NoNote = no_note
  NoCall = no_call
  Breaking <- MCBreaking
  Suites <- MCSuites
  Fresh = fresh
  MinRecall = 100
  MaxFp = 0
  MaxDisturbances = 2
INVARIANTS
  BenchInv
  SafeIsSilent
  ScoreExplained
  GreenMeansSeen
