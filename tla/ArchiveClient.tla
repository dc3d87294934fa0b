---------------------------- MODULE ArchiveClient ----------------------------
(***************************************************************************)
(* Requests to Chess.com, as a worker thread makes them:                   *)
(* ChessComArchiveClient::request with its retries and backoff, over       *)
(* curl_http_get_with_hops, which follows redirects and looks at the       *)
(* cancellation token before and after every transfer.  A module that      *)
(* makes requests extends this one, starts each with Sending and uses its  *)
(* result once http.at is "done".                                          *)
(***************************************************************************)
EXTENDS Naturals, FiniteSets, Sequences

CONSTANTS MaxRetries,    \* max_retries: further attempts of a retried request
          MaxRedirects   \* redirects followed in one transfer

ASSUME ClientConstants == MaxRetries \in Nat /\ MaxRedirects \in Nat

VARIABLE http   \* the request of the worker

\* "ok": 200 or 304; "missing": 404 or 410; "busy": 429 or 5xx; "timeout";
\* "broken": a transport error, too large a body, an answer for another endpoint;
\* "cancelled": the token was seen.
Results == {"ok", "missing", "busy", "timeout", "broken", "cancelled"}

Requests == [at : {"quiet", "sending", "sleeping", "done"}, retried : BOOLEAN,
             attempt : 0 .. MaxRetries, redirects : 0 .. MaxRedirects,
             result : Results \cup {"none"}]

Quiet == [at |-> "quiet", retried |-> FALSE, attempt |-> 0, redirects |-> 0, result |-> "none"]

\* Pages and callbacks go to the transport directly: only archive requests are retried.
Sending(retried) == [Quiet EXCEPT !.at = "sending", !.retried = retried]

Ended(result) == [Quiet EXCEPT !.at = "done", !.result = result]

Done(result) == http.at = "done" /\ http.result = result

\* A response that arrives is used only when no cancellation was requested meanwhile.
Respond(stop) ==
    /\ http.at = "sending" /\ ~stop
    /\ \E r \in {"ok", "missing", "broken"} : http' = Ended(r)

\* The next hop of a redirect; the PubAPI only redirects to the same endpoint.
Redirect(stop) ==
    /\ http.at = "sending" /\ ~stop
    /\ http' = IF http.redirects < MaxRedirects THEN [http EXCEPT !.redirects = @ + 1]
               ELSE Ended("broken")

\* A transfer that fails says so even when the token was set meanwhile.
Break == http.at = "sending" /\ http' = Ended("broken")

Retryable == http.retried /\ http.attempt < MaxRetries

\* 429, 5xx (not after a cancellation) and timeouts are retried after a wait.
Refuse(stop) ==
    /\ http.at = "sending"
    /\ \E r \in {"busy", "timeout"} :
        /\ r = "busy" => ~stop
        /\ http' = IF Retryable THEN [http EXCEPT !.at = "sleeping"] ELSE Ended(r)

Wake_WhenStopped(stop) ==
    /\ http.at = "sleeping" /\ stop
    /\ http' = [http EXCEPT !.at = "sending", !.attempt = @ + 1, !.redirects = 0]

Wake(stop) ==
    /\ http.at = "sleeping" /\ ~stop
    /\ http' = [http EXCEPT !.at = "sending", !.attempt = @ + 1, !.redirects = 0]

\* The progress callback of a transfer, the slices of a wait and the checks around
\* both end the request once the token is set.
Abort(stop) == http.at \in {"sending", "sleeping"} /\ stop /\ http' = Ended("cancelled")

HttpStep(stop) ==
    \/ Respond(stop) \/ Redirect(stop) \/ Break \/ Refuse(stop) \/ Wake(stop) \/ Abort(stop)
=============================================================================
