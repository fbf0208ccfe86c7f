-------------------------------- MODULE Checks --------------------------------
(***************************************************************************)
(* The part of the checks (src/heimdall/checks) that keeps no state: which *)
(* items a check probes and in which order, what its oracle accepts, and   *)
(* what a token reveals offline.  A response is what an oracle can tell    *)
(* apart: it was lost, or its status is below 400 or not, with or without  *)
(* the mark the check looks for (canary, SQL error, sensitive key, ...).   *)
(***************************************************************************)
EXTENDS Naturals, Sequences

CONSTANTS
  Paths,      \* path templates; LoginPath is "(login)"
  LoginPath,
  Names,      \* names of identities; Anon is "anon"
  Anon,
  Keys,       \* HMAC secrets a target signs with
  Wordlist,   \* jwt-secrets.txt, or the built-in list when it is missing
  NoToken,    \* Identity.token is None
  Nobody,     \* a request without credentials
  Forged      \* a request with the alg=none token

Methods == {"GET", "POST", "PUT", "PATCH", "DELETE"}
Destructive == {"PUT", "PATCH", "DELETE"}

CheckIds == {"bola", "exposure", "jwt", "mass_assignment", "sqli", "ssrf"}
SpecDriven == {"exposure", "sqli"}            \* Check.spec_driven
HintKeys == CheckIds \ SpecDriven             \* Check.hint_key

(* An operation of the OpenAPI document: keyed when a path parameter is    *)
(* required, params when it has a path or query parameter.  offsite when   *)
(* joining the path to the base URL changes the host; sound when the two    *)
(* make a URL.                                                             *)
Endpoint == [path : Paths, method : Methods, keyed : BOOLEAN,
             params : BOOLEAN, offsite : BOOLEAN, sound : BOOLEAN]

(* One entry of hints.<check>: the request that decides, with its path and *)
(* the identity it is made as, and the request that sets it up, which has  *)
(* a path of its own, and who makes that one.  sound when it has every key *)
(* the check reads and its paths make URLs; for jwt, create tells whether  *)
(* a protected route is configured.                                        *)
Hint == [path : Paths, method : Methods, offsite : BOOLEAN, as : Names,
         create : BOOLEAN, create_path : Paths, create_method : Methods,
         create_offsite : BOOLEAN, owner : Names, sound : BOOLEAN]

ASSUME ChecksAssumption ==
  /\ LoginPath \in Paths
  /\ Anon \in Names
  /\ Wordlist \subseteq Keys

------------------------------------------------------------------------------
Responses == {"lost", "denied", "denied_hit", "clean", "hit"}

\* When the response to the deciding request makes a finding.  Only exposure
\* and the alg=none probe look at the status.
Fires(check, resp) ==
  CASE check = "exposure" -> resp = "hit"
    [] check = "jwt"      -> resp \in {"clean", "hit"}
    [] OTHER              -> resp \in {"denied_hit", "hit"}

------------------------------------------------------------------------------
(* Tokens.  header and payload are what _b64url_json makes of the first    *)
(* two segments; decode is PyJWT's verdict on one secret.                  *)
Token == [header : {"unreadable", "not_a_dict", "hmac", "other_alg"},
          payload : {"unreadable", "not_a_dict", "dict"},
          decodable : BOOLEAN,          \* PyJWT can parse it and knows its alg
          claims : {"valid", "expired", "immature"},
          key : Keys]

decode(token, secret, relaxed) ==
  IF ~token.decodable THEN "PyJWTError"
  ELSE IF token.key # secret THEN "InvalidSignatureError"
  ELSE IF token.claims = "valid" \/ (token.claims = "expired" /\ relaxed) THEN "ok"
  ELSE "PyJWTError"

\* _weak_secret returns this secret: decoded, or refused for another reason
\* than its signature, twice
Verifies(token, secret) ==
  \/ decode(token, secret, FALSE) = "ok"
  \/ /\ decode(token, secret, FALSE) # "InvalidSignatureError"
     /\ decode(token, secret, TRUE) # "InvalidSignatureError"

WeakSecret(token) ==
  token.header = "hmac" /\ \E secret \in Wordlist : Verifies(token, secret)

------------------------------------------------------------------------------
\* Identity: a token when one was issued, headed when a request made as this
\* identity carries a credential header
Identity == [token : Token \cup {NoToken}, headed : BOOLEAN]
Anonymous == [token |-> NoToken, headed |-> FALSE]

\* The step a probe of this item begins with; "none" when the check passes it by
FirstStep(check, item) ==
  CASE check = "exposure" -> IF item.method = "GET" /\ ~item.keyed THEN "probe" ELSE "none"
    [] check = "sqli"     -> IF item.method = "GET" /\ item.params THEN "inject" ELSE "none"
    [] check = "bola"     -> IF item.create THEN "create" ELSE "read"
    [] check = "mass_assignment" -> "create"
    [] check = "ssrf"     -> "probe"
    [] check = "jwt"      -> "weak"
    [] OTHER              -> "none"
==============================================================================
