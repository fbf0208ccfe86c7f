SPECIFICATION Spec
CONSTANTS
  lab = lab
  away = away
  web = web
  user_a = user_a
  user_b = user_b
  p1 = p1
  p2 = p2
  p3 = p3
  p4 = p4
  weak = weak
  strong = strong
  Hosts <- MCHosts
  Private <- MCPrivate
  NoHost = no_host
  Paths <- MCPaths
  LoginPath = login_path
  Names <- MCNames
  Anon = anon
  Keys <- MCKeys
  Wordlist <- MCWordlist
  NoToken = no_token
  Jobs <- MCJobs
  Elsewhere = away
  Payloads = 2
  Nobody = nobody
  Forged = forged
INVARIANT
  SecretVerified
