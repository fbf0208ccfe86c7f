---------------------------- MODULE MCHttpClient ----------------------------
(* A small HttpClient: one host in scope, one outside, five method spellings. *)
EXTENDS HttpClient

MCMethods == {"GET", "delete", "DELETE", "Patch", "PATCH"}
MCUpper == [m \in MCMethods |->
              CASE m = "delete" -> "DELETE" [] m = "Patch" -> "PATCH" [] OTHER -> m]
==============================================================================
