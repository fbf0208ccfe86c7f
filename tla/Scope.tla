-------------------------------- MODULE Scope --------------------------------
(***************************************************************************)
(* The allow-list of src/heimdall/scope.py.  A URL is what urlsplit sees   *)
(* of it: whether it has a scheme, and the host after "//".  Without a     *)
(* scheme urlsplit finds no hostname, and the operators differ in whether  *)
(* they put one in front first.                                            *)
(***************************************************************************)
CONSTANTS
  Hosts,    \* the host names a target, a --scope value or a path can name
  Private,  \* those _is_private_host accepts (loopback, RFC 1918, link-local)
  NoHost    \* urlsplit(url).hostname is None

ASSUME ScopeAssumption == Private \subseteq Hosts /\ NoHost \notin Hosts

Url == [schemed : BOOLEAN, host : Hosts]

\* urlsplit(url).hostname
hostname(url) == IF url.schemed THEN url.host ELSE NoHost

\* Scope.from_targets: "http://" is put before a target without a scheme
from_targets(targets) == {t.host : t \in targets}

\* Scope.add: no scheme is put before the url
add(allow, url) == (allow \cup {hostname(url)}) \ {NoHost}

\* Scope.validate raises ScopeError unless this holds
validate(allow, allow_public) == allow_public \/ allow \subseteq Private

\* Scope.check raises ScopeError unless this holds
check(allow, url) == hostname(url) \in allow
==============================================================================
