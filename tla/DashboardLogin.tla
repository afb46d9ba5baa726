--------------------------- MODULE DashboardLogin ---------------------------
(***************************************************************************)
(* Login links and sessions of the dashboard                               *)
(* (worker/src/dashboard-auth.ts and the routes of index.ts that use it).  *)
(*                                                                         *)
(* A link carries a random token whose row in dashboard_login_tokens is    *)
(* used up by one UPDATE; the answer that sets the session cookie follows. *)
(* A request takes its time when it starts; it is over within one unit.    *)
(***************************************************************************)
EXTENDS Naturals

CONSTANTS
  Tokens, Browsers, None,
  LoginTtl,    \* LOGIN_TTL_SECONDS
  SessionTtl,  \* SESSION_TTL_SECONDS
  Day,         \* DAY_SECONDS: how long rows that are over are kept
  MaxNow       \* end of time, for model checking

ASSUME LoginAssumption ==
  /\ {LoginTtl, SessionTtl, Day, MaxNow} \subseteq Nat
  /\ None \notin [expires : Nat, used : BOOLEAN]

VARIABLES
  now,
  tokens,   \* dashboard_login_tokens
  drawn,    \* tokens ever drawn; a random one does not come twice
  login,    \* the GET /auth/telegram of each browser that is being served
  cookie,   \* the session cookie of each browser
  grants    \* every session granted so far: [browser, token, at]

loginVars == <<tokens, drawn, login, cookie, grants>>

Row == [expires : Nat, used : BOOLEAN]
Login == [token : Tokens, at : Nat, stage : {"consume", "grant"}]
Session == [token : Tokens, issued : Nat]

LoginTypeOK ==
  /\ now \in 0..MaxNow
  /\ tokens \in [Tokens -> Row \cup {None}]
  /\ drawn \subseteq Tokens
  /\ login \in [Browsers -> Login \cup {None}]
  /\ cookie \in [Browsers -> Session \cup {None}]
  /\ grants \subseteq [browser : Browsers, token : Tokens, at : Nat]

LoginInit ==
  /\ now = 0
  /\ tokens = [t \in Tokens |-> None] /\ drawn = {}
  /\ login = [b \in Browsers |-> None]
  /\ cookie = [b \in Browsers |-> None]
  /\ grants = {}

-----------------------------------------------------------------------------

\* issueDashboardLogin.
Issue(t) ==
  /\ t \notin drawn
  /\ drawn' = drawn \cup {t}
  /\ tokens' = [tokens EXCEPT ![t] = [expires |-> now + LoginTtl, used |-> FALSE]]

Open(b, t) ==
  /\ login[b] = None
  /\ login' = [login EXCEPT ![b] = [token |-> t, at |-> now, stage |-> "consume"]]
  /\ UNCHANGED <<now, tokens, drawn, cookie, grants>>

\* Mutant: the token is looked up and not used up.
Readable(t, at) == tokens[t] # None /\ tokens[t].expires >= at

\* The condition of the UPDATE.
Usable(t, at) == tokens[t] # None /\ ~ tokens[t].used /\ tokens[t].expires >= at

\* consumeDashboardLogin; without a row to update the answer is "expired".
Consume(b) ==
  /\ login[b] # None /\ login[b].stage = "consume"
  /\ LET t == login[b].token IN
     \/ /\ Usable(t, login[b].at)
        /\ tokens' = [tokens EXCEPT ![t].used = TRUE]
        /\ login' = [login EXCEPT ![b].stage = "grant"]
     \/ /\ ~ Usable(t, login[b].at)
        /\ login' = [login EXCEPT ![b] = None]
        /\ UNCHANGED tokens
  /\ UNCHANGED <<now, drawn, cookie, grants>>

\* newDashboardSessionCookie reaches the browser.
Grant(b) ==
  /\ login[b] # None /\ login[b].stage = "grant"
  /\ LET s == [token |-> login[b].token, issued |-> login[b].at] IN
     /\ cookie' = [cookie EXCEPT ![b] = s]
     /\ grants' = grants \cup {[browser |-> b, token |-> s.token, at |-> s.issued]}
  /\ login' = [login EXCEPT ![b] = None]
  /\ UNCHANGED <<now, tokens, drawn>>

\* D1 fails, the invocation ends or its answer is lost.
LoseLogin(b) ==
  /\ login[b] # None
  /\ login' = [login EXCEPT ![b] = None]
  /\ UNCHANGED <<now, tokens, drawn, cookie, grants>>

\* hasDashboardSession; the Worker keeps no sessions.
Authorized(s) == s # None /\ s.issued <= now /\ now < s.issued + SessionTtl

\* cleanupDashboardAuth.
KeptTokens(at) == [t \in Tokens |->
  IF tokens[t] # None /\ tokens[t].expires + Day < at THEN None ELSE tokens[t]]

-----------------------------------------------------------------------------

\* A link opens one session, whoever opens it how often at the same time
\* (architecture.md: "a single-use short-lived login token").
OneSessionPerLink == \A g, k \in grants : g.token = k.token => g = k
=============================================================================
