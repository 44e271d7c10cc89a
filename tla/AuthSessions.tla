---------------------------- MODULE AuthSessions ----------------------------
(***************************************************************************)
(* Accounts, sessions and tokens: AuthService and the routes that call it. *)
(* A request has a database session of its own; what it writes becomes     *)
(* visible with its COMMIT, and what it waits for before is another        *)
(* request's uncommitted row with the same unique key, or a row lock:      *)
(*   - users.email, which a registration inserts;                          *)
(*   - the users row, which a login updates (last_login_at);               *)
(*   - sessions.refresh_token_jti, which every new session first inserts   *)
(*     as "pending" and replaces before its COMMIT.                        *)
(*                                                                         *)
(* A session is named after the request that creates it and a refresh      *)
(* token after the session and the request that issues it, which stands    *)
(* for its random jti.  An access token is answered while its session is   *)
(* usable, which only reads the rows.  Passwords are right or wrong.       *)
(* Nothing in the code deactivates a user.                                 *)
(*                                                                         *)
(* A refresh token lives in a cookie: a browser sends the one it has when  *)
(* the request leaves, and keeps what the last answer to arrive has set,   *)
(* whichever request that answer is to.  A cookie that lapses with its     *)
(* session is left in place, as its token is refused either way.           *)
(***************************************************************************)
EXTENDS Naturals, FiniteSets

CONSTANTS
  Emails,
  Registers, Logins, Refreshes, Logouts,   \* the requests
  EmailsOf,                                \* bound: the emails a registration or a login may name
  Browsers, BrowserOf,                     \* the browser each request comes from
  Nobody

ASSUME RequestsAreDistinct ==
  /\ Registers \cap Logins = {}
  /\ (Registers \cup Logins) \cap (Refreshes \cup Logouts) = {}
  /\ Refreshes \cap Logouts = {}
  /\ Nobody \notin Registers \cup Logins \cup Refreshes \cup Logouts

VARIABLES
  users,      \* the registration that created the account of an email
  sessions,   \* the sessions rows
  stage,      \* where the handler of each request is
  email,      \* the email a registration or login is about
  token,      \* the token a refresh or a logout brings
  jar,        \* the refresh token in each browser's cookies
  retired     \* the refresh tokens a rotation has replaced

vars == <<users, sessions, stage, email, token, jar, retired>>

Creators == Registers \cup Logins
Reqs == Creators \cup Refreshes \cup Logouts

ASSUME EmailsAssumption == EmailsOf \in [Creators -> SUBSET Emails]
ASSUME BrowsersAssumption == BrowserOf \in [Reqs -> Browsers]

Tokens == [sid : Creators, jti : Creators \cup Refreshes]
NoToken == [sid |-> Nobody, jti |-> Nobody]

NoSession == [state |-> "absent", jti |-> Nobody, expired |-> FALSE]

\* A committed row always has a token of its own, never "pending".
SessionRows ==
  {NoSession} \cup
  [state : {"active", "revoked"}, jti : Creators \cup Refreshes, expired : BOOLEAN]

\* A request is "done" when it is answered or has died before its COMMIT; the
\* answer of one that is "lost" does not arrive.
Ended == {"done", "lost"}
Stages ==
  Ended \cup {"post", "sent", "insertUser", "touchUser", "insertSession", "commit",
              "rotate", "revoke", "committed", "clear"}

TypeOK ==
  /\ users \in [Emails -> Registers \cup {Nobody}]
  /\ sessions \in [Creators -> SessionRows]
  /\ stage \in [Reqs -> Stages]
  /\ email \in [Creators -> Emails \cup {Nobody}]
  /\ token \in [Refreshes \cup Logouts -> Tokens \cup {NoToken}]
  /\ jar \in [Browsers -> Tokens \cup {NoToken}]
  /\ retired \subseteq Tokens

Init ==
  /\ users = [e \in Emails |-> Nobody]
  /\ sessions = [s \in Creators |-> NoSession]
  /\ stage = [r \in Reqs |-> "post"]
  /\ email = [r \in Creators |-> Nobody]
  /\ token = [r \in Refreshes \cup Logouts |-> NoToken]
  /\ jar = [b \in Browsers |-> NoToken]
  /\ retired = {}

Goto(r, s) == stage' = [stage EXCEPT ![r] = s]

\* The refresh token the row of session s accepts.
CurrentToken(s) == [sid |-> s, jti |-> sessions[s].jti]

\* The end of a request: what it was given is gone with it.
End(r, s) ==
  /\ Goto(r, s)
  /\ email' = [q \in Creators |-> IF q = r THEN Nobody ELSE email[q]]
  /\ token' = [q \in Refreshes \cup Logouts |-> IF q = r THEN NoToken ELSE token[q]]

Usable(s) == sessions[s].state = "active" /\ ~ sessions[s].expired

\* _get_valid_refresh_session accepts t.
ValidRefreshToken(t) == Usable(t.sid) /\ t = CurrentToken(t.sid)

-----------------------------------------------------------------------------
(* register and login *)

\* register looks the email up.
RegisterReads(r, e) ==
  /\ stage[r] = "post"
  /\ IF users[e] = Nobody
       THEN /\ Goto(r, "insertUser")
            /\ email' = [email EXCEPT ![r] = e]
            /\ UNCHANGED <<token>>
       ELSE End(r, "done")
  /\ UNCHANGED <<users, sessions, jar, retired>>

\* The registrations that have inserted email e and not committed it.
Inserting(e) == {r \in Registers : email[r] = e /\ stage[r] \in {"insertSession", "commit"}}

\* INSERT INTO users: waits for an uncommitted row with the email, and fails
\* with IntegrityError on a committed one (409).
InsertUser(r) ==
  /\ stage[r] = "insertUser"
  /\ Inserting(email[r]) = {}
  /\ IF users[email[r]] = Nobody
       THEN Goto(r, "insertSession") /\ UNCHANGED <<email, token>>
       ELSE End(r, "done")
  /\ UNCHANGED <<users, sessions, jar, retired>>

\* login looks the user up and verifies the password; a failure is audited.
LoginReads(l, e) ==
  /\ stage[l] = "post"
  /\ \/ /\ users[e] # Nobody
        /\ Goto(l, "touchUser")
        /\ email' = [email EXCEPT ![l] = e]
        /\ UNCHANGED <<token>>
     \/ End(l, "done")
  /\ UNCHANGED <<users, sessions, jar, retired>>

\* The logins that have updated the row of email e and not committed it.
Touching(e) == {l \in Logins : email[l] = e /\ stage[l] \in {"insertSession", "commit"}}

\* UPDATE users SET last_login_at: waits for the row's lock.
TouchUser(l) ==
  /\ stage[l] = "touchUser"
  /\ Touching(email[l]) = {}
  /\ Goto(l, "insertSession")
  /\ UNCHANGED <<users, sessions, email, token, jar, retired>>

\* Mutant: a request holds the key from the moment it wants it.
InsertSessionEarly(r) ==
  /\ stage[r] = "insertSession"
  /\ \A q \in Creators \ {r} : stage[q] \notin {"insertSession", "commit"}
  /\ Goto(r, "commit")
  /\ UNCHANGED <<users, sessions, email, token, jar, retired>>

\* INSERT INTO sessions with the jti "pending": waits for the other requests
\* that have inserted theirs.
InsertSession(r) ==
  /\ stage[r] = "insertSession"
  /\ \A q \in Creators : stage[q] # "commit"
  /\ Goto(r, "commit")
  /\ UNCHANGED <<users, sessions, email, token, jar, retired>>

\* Mutant: the second flush is missing.
CommitPending(r) ==
  /\ stage[r] = "commit"
  /\ users' = IF r \in Registers THEN [users EXCEPT ![email[r]] = r] ELSE users
  /\ sessions' = [sessions EXCEPT ![r] = [@ EXCEPT !.state = "active"]]
  /\ Goto(r, "committed")
  /\ UNCHANGED <<email, token, jar, retired>>

\* The session gets its token, and COMMIT.
CommitCreation(r) ==
  /\ stage[r] = "commit"
  /\ users' = IF r \in Registers THEN [users EXCEPT ![email[r]] = r] ELSE users
  /\ sessions' = [sessions EXCEPT ![r] = [state |-> "active", jti |-> r, expired |-> FALSE]]
  /\ Goto(r, "committed")
  /\ UNCHANGED <<email, token, jar, retired>>

-----------------------------------------------------------------------------
(* refresh and logout *)

\* A browser sends the token it has.  If it has none, a refresh is a 401 and a
\* logout has nothing to revoke.
Send(r) ==
  /\ stage[r] = "post"
  /\ IF r \in Refreshes /\ jar[BrowserOf[r]] = NoToken
       THEN End(r, "done")
       ELSE /\ token' = [token EXCEPT ![r] = jar[BrowserOf[r]]]
            /\ Goto(r, IF jar[BrowserOf[r]] = NoToken THEN "clear" ELSE "sent")
            /\ UNCHANGED email
  /\ UNCHANGED <<users, sessions, jar, retired>>

\* refresh reads the session and checks the token.  A 401 is made from the
\* exception: the cookies the route has cleared on its own response stay.
RefreshReads(r) ==
  /\ stage[r] = "sent"
  /\ IF ValidRefreshToken(token[r])
       THEN Goto(r, "rotate") /\ UNCHANGED <<email, token>>
       ELSE End(r, "done")
  /\ UNCHANGED <<users, sessions, jar, retired>>

\* Mutant: the whole row is written from the copy that was read.
RotateWhole(r) ==
  /\ stage[r] = "rotate"
  /\ sessions' = [sessions EXCEPT ![token[r].sid] =
                    [state |-> "active", jti |-> r, expired |-> FALSE]]
  /\ retired' = retired \cup {CurrentToken(token[r].sid)}
  /\ Goto(r, "committed")
  /\ UNCHANGED <<users, email, token, jar>>

\* UPDATE sessions SET the hash, jti and expiry of the new token, and COMMIT.
\* The columns the copy does not change are left as another request wrote them.
Rotate(r) ==
  /\ stage[r] = "rotate"
  /\ sessions' = [sessions EXCEPT ![token[r].sid].jti = r, ![token[r].sid].expired = FALSE]
  /\ retired' = retired \cup {CurrentToken(token[r].sid)}
  /\ Goto(r, "committed")
  /\ UNCHANGED <<users, email, token, jar>>

\* The session a request issues a token for.
SessionOf(r) == IF r \in Creators THEN r ELSE token[r].sid

\* Mutant: a refresh answers with the token it was given.
AnswerWithOldToken(r) ==
  /\ stage[r] = "committed"
  /\ jar' = [jar EXCEPT ![BrowserOf[r]] =
                IF r \in Refreshes THEN token[r] ELSE [sid |-> SessionOf(r), jti |-> r]]
  /\ End(r, "done")
  /\ UNCHANGED <<users, sessions, retired>>

\* The rows are read back and the route sets the cookies.
Answer(r) ==
  /\ stage[r] = "committed"
  /\ jar' = [jar EXCEPT ![BrowserOf[r]] = [sid |-> SessionOf(r), jti |-> r]]
  /\ End(r, "done")
  /\ UNCHANGED <<users, sessions, retired>>

\* logout reads the session; a token that is not valid (any more) is answered
\* like one that is.
LogoutReads(r) ==
  /\ stage[r] = "sent"
  /\ Goto(r, IF ValidRefreshToken(token[r]) THEN "revoke" ELSE "clear")
  /\ UNCHANGED <<users, sessions, email, token, jar, retired>>

\* UPDATE sessions SET revoked_at, and COMMIT.
Revoke(r) ==
  /\ stage[r] = "revoke"
  /\ sessions' = [sessions EXCEPT ![token[r].sid].state = "revoked"]
  /\ Goto(r, "clear")
  /\ UNCHANGED <<users, email, token, jar, retired>>

\* The answer of a logout takes whatever refresh token the browser has by then.
ClearCookies(r) ==
  /\ stage[r] = "clear"
  /\ jar' = [jar EXCEPT ![BrowserOf[r]] = NoToken]
  /\ End(r, "done")
  /\ UNCHANGED <<users, sessions, retired>>

-----------------------------------------------------------------------------

\* expires_at of a session passes; of a revoked one it makes no difference.
Expire(s) ==
  /\ sessions[s].state = "active"
  /\ ~ sessions[s].expired
  /\ sessions' = [sessions EXCEPT ![s].expired = TRUE]
  /\ UNCHANGED <<users, stage, email, token, jar, retired>>

\* A request dies between two awaits, or its answer on the way; what it has not
\* committed is gone.
Abort(r) ==
  /\ stage[r] \notin Ended \cup {"post", "sent"}
  /\ End(r, IF stage[r] \in {"committed", "clear"} THEN "lost" ELSE "done")
  /\ UNCHANGED <<users, sessions, jar, retired>>

RegisterStep(r) ==
  \/ InsertUser(r)
  \/ InsertSession(r)
  \/ CommitCreation(r)
  \/ Answer(r)

LoginStep(l) ==
  \/ TouchUser(l)
  \/ InsertSession(l)
  \/ CommitCreation(l)
  \/ Answer(l)

RefreshStep(r) == RefreshReads(r) \/ Rotate(r) \/ Answer(r)
LogoutStep(r) == LogoutReads(r) \/ Revoke(r) \/ ClearCookies(r)

Next ==
  \/ \E r \in Registers : RegisterStep(r) \/ \E e \in EmailsOf[r] : RegisterReads(r, e)
  \/ \E l \in Logins : LoginStep(l) \/ \E e \in EmailsOf[l] : LoginReads(l, e)
  \/ \E r \in Refreshes : RefreshStep(r)
  \/ \E r \in Logouts : LogoutStep(r)
  \/ \E r \in Refreshes \cup Logouts : Send(r)
  \/ \E s \in Creators : Expire(s)
  \/ \E r \in Reqs : Abort(r)

Spec == Init /\ [][Next]_vars

\* The event loop and the database go on serving a request that has begun.
Fairness ==
  /\ \A r \in Registers : WF_vars(RegisterStep(r))
  /\ \A l \in Logins : WF_vars(LoginStep(l))
  /\ \A r \in Refreshes : WF_vars(RefreshStep(r))
  /\ \A r \in Logouts : WF_vars(LogoutStep(r))

FairSpec == Spec /\ Fairness

-----------------------------------------------------------------------------

Ledger == INSTANCE TokenLedger WITH
  Accounts <- Registers,
  Sessions <- Creators,
  Tokens   <- Creators \cup Refreshes,
  owner    <- users,
  current  <- [s \in Creators |-> sessions[s].jti],
  spent    <- {t.jti : t \in retired},
  revoked  <- {s \in Creators : sessions[s].state = "revoked"}

\* Although requests read sessions and accounts that others are about to write,
\* an email's account is never replaced, a refresh token that a rotation has
\* replaced never comes back, and a refresh that read the session before a
\* logout does not undo its revocation.
KeepsTheLedger == Ledger!Spec

\* A browser has the current token of session s, or is about to get it.
Held(s) ==
  \/ \E b \in Browsers : jar[b] = CurrentToken(s)
  \/ \E r \in Creators \cup Refreshes : r = sessions[s].jti /\ stage[r] = "committed"

\* What takes the current token of session s from its browser: the answer that
\* brings it is lost; the browser is given another session; the answer of an older
\* refresh, or of a logout that was sent before the token came, arrives after it.
Strands(r, s) ==
  \/ stage'[r] = "lost" /\ r = sessions[s].jti
  \/ /\ stage'[r] = "done"
     /\ jar[BrowserOf[r]] = CurrentToken(s)
     /\ \/ r \in Creators \ {s}
        \/ r \in Refreshes /\ r # sessions[s].jti
        \/ r \in Logouts /\ token[r] # CurrentToken(s)

\* A session that can be used does not become one nobody can refresh but by a lost
\* answer, by a new session for its browser, or by answers that overlap: no rotation
\* gives out another token than it stores, and no logout drops one without having
\* revoked its session.
StrandedSessionsHaveACause ==
  [][ \A s \in Creators :
        Held(s) /\ Usable(s)' /\ ~ Held(s)' =>
          \E r \in Reqs : stage'[r] # stage[r] /\ Strands(r, s) ]_vars

\* No request waits for ever: the keys and the locks are taken in one order,
\* so in the end every request that was made has ended.
EveryRequestEnds ==
  <>[](\A r \in Reqs : stage[r] \in {"post"} \cup Ended)
=============================================================================
