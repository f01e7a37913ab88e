---------------------------- MODULE ProxyProcess ----------------------------
(***************************************************************************)
(* The edge proxy process: what a container of the Configuration answers   *)
(* to a request it is given, and where the request goes.  The process      *)
(* keeps nothing between requests but its environment, so one operator is  *)
(* all of it.  Headers, bodies and the outgoing HTTP proxy (a value of     *)
(* REMOTE_PROXY that does not parse means none) are left out.              *)
(***************************************************************************)
CONSTANT None

(* What REMOTE_URL may be: nothing, text that does not parse, a host name, *)
(* which parses as the path of a URL, or a URL with a scheme and a host.   *)
Urls == {"none", "malformed", "bare", "absolute"}

(* The remote URL the process keeps; one that does not parse is only       *)
(* logged.                                                                 *)
RemoteURL(url) == IF url \in {"none", "malformed"} THEN None ELSE url

Refuse(status) == [status |-> status, to |-> None]

(* handler.  body: can the request's body be read; cloud: the status the   *)
(* cloud answers with, None if the call fails.  The call has no timeout,   *)
(* whatever REMOTE_TIMEOUT says, and fails without a scheme.               *)
Answer(env, body, cloud) ==
    IF RemoteURL(env.url) = None \/ env.host = None THEN Refuse("bad gateway")
    ELSE IF ~body THEN Refuse("bad request")
    ELSE IF RemoteURL(env.url) # "absolute" \/ cloud = None THEN Refuse("bad gateway")
    ELSE [status |-> cloud, to |-> env.host]

==============================================================================
