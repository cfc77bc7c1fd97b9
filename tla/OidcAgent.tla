------------------------------ MODULE OidcAgent ------------------------------
(***************************************************************************)
(* What one call to the command line's authentication agent can do         *)
(* (adapter/cli/src/oidc.rs): the interactive login and the silent refresh *)
(* as the set of their results, the refresh token the agent keeps per      *)
(* issuer afterwards, and the answer as the packet handler reads it        *)
(* (admin_worker.rs).  The identity provider and the user are external:    *)
(* each may answer, refuse, or stay silent.                                *)
(*                                                                         *)
(* A refresh token is known by the login that obtained it: what it can     *)
(* still prove is the identity of the user who logged in then, whether or  *)
(* not the provider has rotated it since.                                  *)
(***************************************************************************)
EXTENDS Integers

\* No refresh token is held for the issuer.
NoToken == 0

Err(e) == [ok |-> FALSE, err |-> e, refresh |-> FALSE]

\* TokenResponse: an id_token, and perhaps a refresh token.
Tokens(refresh) == [ok |-> TRUE, err |-> "none", refresh |-> refresh]

\* discover: the document cannot be fetched, or lacks an endpoint.
DiscoverErrors == {"Http", "Discovery"}

\* bind_loopback
ListenErrors == {"Io"}

\* open_in_browser, where there is one to open; otherwise the address is printed.
BrowserErrors == {"Browser"}

\* await_callback takes one request: its state must be the login's, then it may
\* carry the user's refusal, then it must carry the code.
CallbackErrors == {"Timeout", "Io", "StateMismatch", "AuthorizationDenied", "BadCallback"}

\* exchange_code: what the token endpoint makes of the code.
ExchangeCode == {Err("Http"), Err("TokenExchange")} \cup {Tokens(r) : r \in BOOLEAN}

\* refresh_grant: what it makes of a refresh token.  A revoked one is told by
\* invalid_grant; a response without an id_token is an error as well.
RefreshGrant == {Err("InvalidGrant")} \cup ExchangeCode

\* login_flow, stage after stage.
LoginFlow == {Err(e) : e \in DiscoverErrors \cup ListenErrors \cup BrowserErrors
                             \cup CallbackErrors} \cup ExchangeCode

\* refresh_credential: neither browser nor listener is touched.
RefreshCredential(token) ==
    IF token = NoToken
      THEN {Err("NoRefreshToken")}
      ELSE {Err(e) : e \in DiscoverErrors} \cup RefreshGrant

\* Mutant: a login that was granted no refresh token leaves the old one behind.
MutAfterLogin(token, res, login) == IF res.ok /\ res.refresh THEN login ELSE token

\* get_oidc_credential, interactive: a login supersedes the token of an earlier one.
AfterLogin(token, res, login) ==
    IF ~res.ok THEN token ELSE IF res.refresh THEN login ELSE NoToken

\* refresh_credential: a rotated token is of the same login; a dead one is dropped.
AfterRefresh(token, res) == IF res.err = "InvalidGrant" THEN NoToken ELSE token

\* rpc_error_text: the class the error is sent with.
ErrorClass(e) ==
    CASE e = "AuthorizationDenied" -> "user_declined"
      [] e = "Timeout" -> "interaction_timeout"
      [] e \in {"Http", "Discovery", "TokenExchange", "InvalidGrant"} -> "idp_unreachable"
      [] OTHER -> "untagged"

\* classify_agent_error; another agent may send "access_denied" without a tag.
FailureReason(class) ==
    CASE class \in {"user_declined", "access_denied"} -> "UserDeclined"
      [] class = "interaction_timeout" -> "InteractionTimeout"
      [] class = "idp_unreachable" -> "IdpUnreachable"
      [] OTHER -> "AgentError"

\* parse_agent_response: the token, or why there is none.
AgentResponse(res) == IF res.ok THEN "Ok" ELSE FailureReason(ErrorClass(res.err))
=============================================================================
