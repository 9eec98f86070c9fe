---------------------------- MODULE MCClientRun -----------------------------
EXTENDS ClientRun

At(h, s) == [host |-> h, scheme |-> s]

\* A GET nobody configured anything for, and what the asks vary of it.
Simple ==
  [uri |-> At("a", "https"), method |-> "GET", body |-> "empty", authz |-> FALSE,
   cookie |-> FALSE, auth |-> "none", early |-> FALSE, conditional |-> FALSE,
   only |-> FALSE, keep |-> FALSE, retry |-> "none", netrc |-> {}]

MCAsks ==
  {[Simple EXCEPT !.authz = TRUE, !.cookie = TRUE, !.early = TRUE,
                  !.conditional = TRUE],
   [Simple EXCEPT !.method = "POST", !.body = "stream", !.auth = "digest", !.retry = "own"],
   [Simple EXCEPT !.method = "POST", !.body = "full", !.auth = "digest", !.early = TRUE,
                  !.retry = "standard", !.netrc = {"b"}],
   [Simple EXCEPT !.uri = At("a", "http"), !.auth = "legs", !.keep = TRUE,
                  !.early = TRUE, !.retry = "own", !.conditional = TRUE],
   [Simple EXCEPT !.uri = At("a", "http"), !.only = TRUE]}

MCStorable == {At("a", "http")}
Home == {At("a", "https")}

\* Plain answers of every class, a 200 that sets a cookie and ends an HSTS
\* policy, and redirects: off TLS, onto it with an HSTS policy, to the other
\* host with either method, and to nowhere.
Redirect(to, other) == [Plain("redirect") EXCEPT !.to = to, !.other = other]

MCServes ==
  {Plain(class) : class \in {"ok", "unauthorized", "too_early", "not_modified", "busy",
                             "unsent", "broken", "created"}}
  \cup {[Plain("ok") EXCEPT !.cookie = "secure", !.sts = "clear"],
        [Redirect(At("a", "https"), FALSE) EXCEPT !.sts = "set"],
        Redirect(At("a", "http"), TRUE), Redirect(At("b", "https"), FALSE),
        Redirect(At("b", "https"), TRUE), Redirect(NoTarget, FALSE)}

MCShared == [cookies |-> {<<"a", "secure">>}, hosts |-> {"a"}]
NoShared == [cookies |-> {}, hosts |-> {}]

DigestAsks == {Simple, [Simple EXCEPT !.auth = "digest"]}
=============================================================================
