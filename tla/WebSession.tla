----------------------------- MODULE WebSession -----------------------------
(***************************************************************************)
(* RuijieWebSession (ddns.py 59-163): a browser session at the cloud's web *)
(* console.  login sets a flag that nothing resets, while the cloud may    *)
(* end the session at any time; webproxy logs in and forwards one request. *)
(***************************************************************************)
VARIABLES
    authed,     \* _authed
    session     \* the cloud's view: "none" yet, "live" or "dead"

webVars == <<authed, session>>

WebInit == authed = FALSE /\ session = "none"

\* login returns: at once if the flag is set, else after its three exchanges.
LoginReturns ==
    \/ authed /\ UNCHANGED webVars
    \/ ~authed /\ authed' = TRUE /\ session' = "live"

\* A page, the password check or the landing page is not as expected, or the
\* transport fails.
LoginRaises == ~authed /\ UNCHANGED webVars

\* webproxy returns what was asked for.
WebAnswers == LoginReturns /\ session' = "live"

\* webproxy returns a body with an error code and no data.
WebDeclines == LoginReturns

\* webproxy raises: in login, or the request fails or is answered with an HTTP
\* error or something that is not JSON.
WebRaises == LoginRaises \/ LoginReturns

SessionEnds == session = "live" /\ session' = "dead" /\ UNCHANGED authed
==============================================================================
