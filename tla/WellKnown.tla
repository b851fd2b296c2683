----------------------------- MODULE WellKnown -----------------------------
(***************************************************************************)
(* Discovery of a homeserver from its well-known documents                 *)
(* (api/wellKnown.ts).  A document is reduced to the base URL it names:    *)
(* "https", "http", or "missing".                                          *)
(***************************************************************************)

Documents == {"https", "http", "missing"}
Errors == {"DnsResolutionError", "HttpServerError", "JsonParseError", "InvalidUrlError"}

\* What a fetch of a well-known document can meet.
Responses == {"unreachable", "404", "4xx", "5xx", "html", "badjson"} \cup Documents

\* The outcome of one fetch: a document, "absent", or an error.
fetchWellKnown(r) ==
  CASE r = "unreachable" -> "DnsResolutionError"
    [] r = "5xx" -> "HttpServerError"
    [] r = "badjson" -> "JsonParseError"
    [] r \in {"404", "4xx", "html"} -> "absent"
    [] OTHER -> r

\* An error of the Concord document or of Element's configuration counts as absent.
OrAbsent(outcome) == IF outcome \in Errors THEN "absent" ELSE outcome

\* Mutant: a present document is taken over without its check.
assertHttpsUrl_Trusting(document) == TRUE

\* A URL that a document names must be https; a fallback is built as https.
assertHttpsUrl(document) == document # "http"

\* A configuration: the schemes of its two URLs, and whether it is this machine.
Config(homeserver, api, local) == [homeserver |-> homeserver, api |-> api, local |-> local]
Configs == [homeserver : {"https", "http"}, api : {"https", "http"}, local : BOOLEAN]
NoConfig == Config("none", "none", FALSE)

Scheme(document) == IF document = "http" THEN "http" ELSE "https"

\* The configuration for a host, or the error shown instead.  m, c and e are the
\* answers for the Matrix document, the Concord document and Element's config.
discoverHomeserver(m, c, e) ==
  LET matrix == fetchWellKnown(m)
      concord == OrAbsent(fetchWellKnown(c))
      element == OrAbsent(fetchWellKnown(e))
      named == IF matrix # "absent" THEN matrix
               ELSE IF element # "absent" THEN element ELSE "missing"
      error == IF matrix \in Errors THEN matrix
               ELSE IF assertHttpsUrl(named) /\ assertHttpsUrl(concord) THEN "none"
               ELSE "InvalidUrlError" IN
  [error |-> error,
   config |-> IF error = "none" THEN Config(Scheme(named), Scheme(concord), FALSE) ELSE NoConfig]
=============================================================================
